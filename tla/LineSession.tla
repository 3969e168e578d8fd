----------------------------- MODULE LineSession -----------------------------
(***************************************************************************)
(* Laba3: a session of the TCP server, in the one thread that runs the          *)
(* io_context.  It splits what it reads into lines and answers each: a text and *)
(* a sequence of numbers at once, one number by a job it posts to its strand,   *)
(* and "wait" by the session's only timer, where a further "wait" cancels one   *)
(* that has not expired.  A line is two symbols here, its text and its end.     *)
(***************************************************************************)
EXTENDS Naturals, Sequences, Functions, FiniteSetsExt

CONSTANT Conversations  \* what a client may send: sequences of kinds of lines

Kind == {"text", "numbers", "number", "wait", "empty"}
SessionAssumption == Conversations \subseteq Seq(Kind)

VARIABLES lines,        \* what the client sends
          received,     \* how many symbols have reached the socket
          readUpTo,     \* how many do_read has appended to the accumulator
          accumulator,  \* input_accumulator_
          posted,       \* jobs on the strand, in order
          armed,        \* the line whose timer runs, 0 when none
          due,          \* lines whose timer has expired, the handlers still to run
          cancelled,    \* lines whose timer was cancelled
          written,      \* the lines answered, in the order of the calls of do_write
          reading       \* the session reads: it has seen no error

sessionVars == <<lines, received, readUpTo, accumulator, posted, armed, due, cancelled,
                 written, reading>>

Init == /\ lines \in Conversations
        /\ received = 0 /\ readUpTo = 0 /\ accumulator = <<>> /\ posted = <<>>
        /\ armed = 0 /\ due = {} /\ cancelled = {} /\ written = <<>>
        /\ reading = TRUE
----------------------------------------------------------------------------
Newline == 0
Symbol(n) == IF n % 2 = 1 THEN (n + 1) \div 2 ELSE Newline

\* process_request, one line at a time, over what it changes
Answer(s, line) ==
  CASE lines[line] \in {"text", "numbers"} -> [s EXCEPT !.written = Append(@, line)]
    [] lines[line] = "number" -> [s EXCEPT !.posted = Append(@, line)]
    [] lines[line] = "empty" -> s
    [] lines[line] = "wait" ->
         [s EXCEPT !.armed = line,
                   !.cancelled = IF s.armed = 0 THEN @ ELSE @ \cup {s.armed}]

\* Every line that ends in a text of symbols is answered, and what follows the last
\* of them is left.
AnswerLines(s, text) ==
  MapThenFoldSet(LAMBDA i, r : IF i > 1 /\ text[i] = Newline THEN Answer(r, text[i - 1]) ELSE r,
                 s, LAMBDA i : i, Max, DOMAIN text)

\* Mutated form: what follows the last end of a line is dropped.
MutRest(text) == <<>>

Rest(text) == IF text # <<>> /\ text[Len(text)] # Newline THEN <<text[Len(text)]>> ELSE <<>>

\* The network delivers more of what the client sends.
Deliver == /\ received < 2 * Len(lines)
           /\ received' = received + 1
           /\ UNCHANGED <<lines, readUpTo, accumulator, posted, armed, due, cancelled, written,
                          reading>>

\* do_read's handler: append what was read, answer every line that is complete,
\* keep the rest, read on.
Read(upTo) ==
  /\ reading /\ readUpTo < upTo /\ upTo <= received
  /\ LET text == accumulator \o [i \in 1..(upTo - readUpTo) |-> Symbol(readUpTo + i)]
         after == AnswerLines([written |-> written, posted |-> posted, armed |-> armed,
                               cancelled |-> cancelled], text)
     IN  /\ accumulator' = Rest(text)
         /\ written' = after.written /\ posted' = after.posted
         /\ armed' = after.armed /\ cancelled' = after.cancelled
  /\ readUpTo' = upTo
  /\ UNCHANGED <<lines, received, due, reading>>

\* The client has closed its side, or the connection breaks: no more reads, but
\* the handlers that are pending keep the session alive.
ReadError == /\ reading
             /\ reading' = FALSE
             /\ UNCHANGED <<lines, received, readUpTo, accumulator, posted, armed, due,
                            cancelled, written>>

ComputeFactorial == /\ posted # <<>>
                    /\ written' = Append(written, Head(posted))
                    /\ posted' = Tail(posted)
                    /\ UNCHANGED <<lines, received, readUpTo, accumulator, armed, due, cancelled,
                                   reading>>

\* The timer expires; once its handler is queued, a new "wait" cannot cancel it.
Expire == /\ armed # 0
          /\ due' = due \cup {armed}
          /\ armed' = 0
          /\ UNCHANGED <<lines, received, readUpTo, accumulator, posted, cancelled, written,
                         reading>>

DelayedResponse(line) == /\ line \in due
                         /\ written' = Append(written, line)
                         /\ due' = due \ {line}
                         /\ UNCHANGED <<lines, received, readUpTo, accumulator, posted, armed,
                                        cancelled, reading>>

Handlers == \/ \E n \in 1..(2 * Len(lines)) : Read(n)
            \/ ComputeFactorial
            \/ \E n \in DOMAIN lines : DelayedResponse(n)

Next == Deliver \/ ReadError \/ Expire \/ Handlers

Fairness == WF_sessionVars(Deliver) /\ WF_sessionVars(Expire) /\ WF_sessionVars(Handlers)

Spec == Init /\ [][Next]_sessionVars /\ Fairness
----------------------------------------------------------------------------
Complete == readUpTo \div 2  \* lines that have been read to their end
Immediate(line) == lines[line] \in {"text", "numbers"}
Pending == Range(posted) \cup due \cup ({armed} \ {0})

\* Every line that is complete, however its bytes were cut, is in one place:
\* answered once, pending, or cancelled, and only a "wait" that is not the last one
\* is cancelled.  Answers made at once, and those of the strand, keep their order.
LinesAnsweredOnce ==
  /\ IsInjective(written)
  /\ Range(written) \cup Pending \cup cancelled = {n \in 1..Complete : lines[n] # "empty"}
  /\ Range(written) \cap (Pending \cup cancelled) = {} /\ Pending \cap cancelled = {}
  /\ \A n \in cancelled : lines[n] = "wait" /\ \E m \in n + 1..Complete : lines[m] = "wait"
  /\ \A i, j \in DOMAIN written :
       i < j /\ lines[written[i]] # "wait" /\ (Immediate(written[i]) <=> Immediate(written[j]))
         /\ lines[written[j]] # "wait" => written[i] < written[j]

\* All is answered but what was cancelled, if the connection holds.
Answered == \/ ~reading
            \/ Range(written) \cup cancelled = {n \in DOMAIN lines : lines[n] # "empty"}
=============================================================================
