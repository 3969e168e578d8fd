-------------------------------- MODULE Logger --------------------------------
(***************************************************************************)
(* Seminar4/task4.cpp: three detached threads share one Logger, and main uses   *)
(* two more.  Each Logger has a mutex and a file of its own, and all print to   *)
(* one std::cout, a line in several pieces.  main pauses instead of joining, so *)
(* the Logger may be destroyed, and the program end, before a thread is done.   *)
(***************************************************************************)
EXTENDS Naturals, Sequences, FiniteSetsExt, Folds

CONSTANTS Writers,   \* the detached threads
          MainLines  \* lines main logs through its own Loggers

LoggerAssumption == Writers \in Nat /\ MainLines \in Nat

Writer == 1..Writers

VARIABLES writer,    \* writer[t]: where thread t is
          holder,    \* the thread that holds mtx, or 0
          console,   \* pieces of lines on std::cout, in order
          log_file,  \* lines in the file
          is_open,
          logged,    \* pieces main has printed
          logMain    \* where main is

loggerVars == <<writer, holder, console, log_file, is_open, logged, logMain>>

Init == /\ writer = [t \in Writer |-> "begin"]
        /\ holder = 0 /\ console = <<>> /\ log_file = <<>> /\ is_open = TRUE
        /\ logged = 0 /\ logMain = "running"
----------------------------------------------------------------------------
Running == logMain # "ended"
Goto(t, label) == writer' = [writer EXCEPT ![t] = label]
Piece(line, part) == [line |-> line, part |-> part]

\* Mutated form: no lock.
MutLock(t) == /\ writer[t] = "begin" /\ Running
              /\ Goto(t, "prefix")
              /\ UNCHANGED <<holder, console, log_file, is_open, logged, logMain>>

\* write_impl
Lock(t) == /\ writer[t] = "begin" /\ holder = 0 /\ Running
           /\ holder' = t
           /\ Goto(t, "prefix")
           /\ UNCHANGED <<console, log_file, is_open, logged, logMain>>

PrintPrefix(t) == /\ writer[t] = "prefix" /\ Running
                  /\ console' = Append(console, Piece(t, "prefix"))
                  /\ Goto(t, "message")
                  /\ UNCHANGED <<holder, log_file, is_open, logged, logMain>>

PrintMessage(t) == /\ writer[t] = "message" /\ Running
                   /\ console' = Append(console, Piece(t, "message"))
                   /\ Goto(t, "file")
                   /\ UNCHANGED <<holder, log_file, is_open, logged, logMain>>

\* The file, if it is open still, and the unlock.
WriteFile(t) == /\ writer[t] = "file" /\ Running
                /\ log_file' = IF is_open THEN Append(log_file, t) ELSE log_file
                /\ holder' = 0
                /\ Goto(t, "ended")
                /\ UNCHANGED <<console, is_open, logged, logMain>>

\* main logs, under the mutexes of its own Loggers, which nobody else uses.
MainPrints == /\ logMain = "running" /\ logged < 2 * MainLines
              /\ console' = Append(console, Piece(0, IF logged % 2 = 0 THEN "prefix"
                                                     ELSE "message"))
              /\ logged' = logged + 1
              /\ UNCHANGED <<writer, holder, log_file, is_open, logMain>>

\* main returns: ~Logger closes the file, without the mutex ...
Destroy == /\ logMain = "running" /\ logged = 2 * MainLines
           /\ is_open' = FALSE
           /\ logMain' = "returned"
           /\ UNCHANGED <<writer, holder, console, log_file, logged>>

\* ... and the program ends with whatever threads there are.
Exit == /\ logMain = "returned"
        /\ logMain' = "ended"
        /\ UNCHANGED <<writer, holder, console, log_file, is_open, logged>>

Next == \/ MainPrints \/ Destroy \/ Exit
        \/ \E t \in Writer : Lock(t) \/ PrintPrefix(t) \/ PrintMessage(t) \/ WriteFile(t)

Spec == Init /\ [][Next]_loggerVars
----------------------------------------------------------------------------
\* The lines of the threads' Logger, in the order of their messages.
Printed == MapThenFoldSet(LAMBDA piece, printed : IF piece.line # 0 /\ piece.part = "message"
                                                  THEN Append(printed, piece.line)
                                                  ELSE printed,
                          <<>>, LAMBDA i : console[i], Max, DOMAIN console)

\* Lines of one Logger are never cut by one another, on the console where main's may
\* cut them, and the file holds them in the console's order: all but the one whose
\* thread is between the two, until the file is closed.
LinesWhole ==
  /\ \A i \in DOMAIN console :
       console[i].line # 0 /\ console[i].part = "message" =>
         \E j \in 1..(i - 1) : /\ console[j] = Piece(console[i].line, "prefix")
                               /\ \A m \in (j + 1)..(i - 1) : console[m].line = 0
  /\ Len(log_file) <= Len(Printed) /\ log_file = SubSeq(Printed, 1, Len(log_file))
  /\ is_open => Len(Printed) - Len(log_file)
                  = (IF \E t \in Writer : writer[t] = "file" THEN 1 ELSE 0)
=============================================================================
