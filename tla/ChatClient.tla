----------------------------- MODULE ChatClient -----------------------------
(***************************************************************************)
(* Task1404/Client.cpp: main starts to connect and starts a thread that runs    *)
(* the io_context; then it sends the lines the user types, whatever the state    *)
(* of the connection.  The thread runs the handlers: a line that is sent is      *)
(* followed by one read of the echo.  It ends as soon as no operation is          *)
(* outstanding, and nothing starts it again.                                 *)
(***************************************************************************)
EXTENDS Naturals, FiniteSets

CONSTANT MaxLines  \* bound of the model: lines the user types

ClientAssumption == MaxLines \in Nat

Line == 1..MaxLines

VARIABLES connection,  \* "pending", "up" or "down", as the operating system has it
          connecting,  \* the handler of async_connect has not run
          io,          \* the io thread: "runs", "idle" when run() has returned, "stopped"
          typed,       \* the lines main has sent
          write,       \* write[n]: the operation that sends line n, and its outcome
          delivered,   \* how many lines have reached the server, which echoes them
          readers,     \* reads that are outstanding
          confirmed,   \* the lines whose handler has run without an error
          echoes,      \* the lines whose echo was printed
          early        \* the lines that were sent while the io thread ran

clientVars == <<connection, connecting, io, typed, write, delivered, readers, confirmed,
                echoes, early>>

Init == /\ connection = "pending" /\ connecting = TRUE /\ io = "runs"
        /\ typed = 0
        /\ write = [n \in Line |-> "none"]
        /\ delivered = 0 /\ readers = 0 /\ confirmed = {} /\ echoes = 0
        /\ early = {}
----------------------------------------------------------------------------
\* Mutated form: the writes do not count.
MutOutstanding == connecting \/ readers > 0

Outstanding == connecting \/ readers > 0 \/ \E n \in Line : write[n] \in {"ok", "error"}

\* The connection is made or refused, or it breaks.
Connected == /\ connection = "pending" /\ connection' \in {"up", "down"}
             /\ UNCHANGED <<connecting, io, typed, write, delivered, readers, confirmed, echoes,
                             early>>

Broken == /\ connection = "up" /\ connection' = "down"
          /\ UNCHANGED <<connecting, io, typed, write, delivered, readers, confirmed, echoes,
                             early>>

\* main: send_message starts a write, which fails on a socket without a connection.
SendMessage == /\ io # "stopped" /\ typed < MaxLines
               /\ typed' = typed + 1
               /\ IF connection = "up"
                  THEN write' = [write EXCEPT ![typed'] = "ok"] /\ delivered' = delivered + 1
                  ELSE write' = [write EXCEPT ![typed'] = "error"] /\ UNCHANGED delivered
               /\ early' = IF io = "runs" THEN early \cup {typed'} ELSE early
               /\ UNCHANGED <<connection, connecting, io, readers, confirmed, echoes>>

\* main: an empty line stops the io_context.
Quit == /\ io # "stopped"
        /\ io' = "stopped"
        /\ UNCHANGED <<connection, connecting, typed, write, delivered, readers, confirmed,
                       echoes, early>>

\* The handlers, which only the io thread runs.
ConnectHandler == /\ io = "runs" /\ connecting /\ connection # "pending"
                  /\ connecting' = FALSE
                  /\ UNCHANGED <<connection, io, typed, write, delivered, readers, confirmed,
                                 echoes, early>>

WriteHandler(n) == /\ io = "runs" /\ write[n] \in {"ok", "error"}
                   /\ write' = [write EXCEPT ![n] = "handled"]
                   /\ IF write[n] = "ok"
                      THEN confirmed' = confirmed \cup {n} /\ readers' = readers + 1
                      ELSE UNCHANGED <<confirmed, readers>>
                   /\ UNCHANGED <<connection, connecting, io, typed, delivered, echoes,
                                  early>>

\* What has come of the echoes is printed, or the connection has broken before.
ReadHandler == /\ io = "runs" /\ readers > 0
               /\ readers' = readers - 1
               /\ \/ echoes < delivered /\ echoes' \in (echoes + 1)..delivered
                  \/ connection = "down" /\ UNCHANGED echoes
               /\ UNCHANGED <<connection, connecting, io, typed, write, delivered, confirmed,
                              early>>

\* run() returns when nothing is outstanding.
RunReturns == /\ io = "runs" /\ ~Outstanding
              /\ io' = "idle"
              /\ UNCHANGED <<connection, connecting, typed, write, delivered, readers,
                             confirmed, echoes, early>>

IoStep == \/ ConnectHandler \/ (\E n \in Line : WriteHandler(n)) \/ ReadHandler
          \/ RunReturns

Next == Connected \/ Broken \/ SendMessage \/ Quit \/ IoStep

Spec == Init /\ [][Next]_clientVars
----------------------------------------------------------------------------
\* What the thread leaves behind when it goes idle was sent too late: it is never
\* confirmed and its echo never printed, although it may have reached the server.  So
\* nothing is ever confirmed unless a line was sent before the thread had handled the
\* connection.
ClientConsistent ==
  /\ confirmed \subseteq early
  /\ io = "idle" => ~connecting /\ readers = 0 /\ \A n \in early : write[n] = "handled"
  /\ echoes > 0 => confirmed # {}
  /\ echoes <= delivered
=============================================================================
