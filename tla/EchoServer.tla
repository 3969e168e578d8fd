----------------------------- MODULE EchoServer -----------------------------
(***************************************************************************)
(* Two echo servers of one shape.  Task1404/Server.cpp: four threads run one    *)
(* io_context; the handlers of all sessions run on one strand, which alone      *)
(* guards global_message_count.  CoroutinesTasks/task1.cpp: one thread, a        *)
(* coroutine per session, no count.  A session has one operation outstanding:    *)
(* it reads, writes what it has read, and reads again.  What a client sends is   *)
(* a sequence of numbers, which one read may take several of.                 *)
(***************************************************************************)
EXTENDS Naturals, Sequences, FiniteSets

CONSTANTS Sessions, ToSend  \* the number of clients, and of what each sends

EchoAssumption == Sessions \in Nat /\ ToSend \in Nat

Peer == 1..Sessions

VARIABLES server,   \* "strand", "coroutine" or "terminated"
          sent,     \* sent[s]: how much client s has sent
          taken,    \* taken[s]: how much of it the session has read
          echoed,   \* echoed[s]: how much of it has been written back
          session,  \* session[s]: where session s is
          onStrand, \* the session whose handler runs on the strand, 0 when none
          loaded,   \* the count that handler has loaded
          global_message_count,
          reads     \* how many reads have succeeded

echoVars == <<server, sent, taken, echoed, session, onStrand, loaded,
              global_message_count, reads>>

Init == /\ server \in {"strand", "coroutine"}
        /\ sent = [s \in Peer |-> 0] /\ taken = sent /\ echoed = sent
        /\ session = [s \in Peer |-> "connecting"]
        /\ onStrand = 0 /\ loaded = 0 /\ global_message_count = 0 /\ reads = 0
----------------------------------------------------------------------------
Goto(s, label) == session' = [session EXCEPT ![s] = label]

\* do_accept, and the first do_read, which it starts outside the strand
AcceptOnStrand(s) == /\ server = "strand" /\ session[s] = "connecting"
                     /\ Goto(s, "read")
                     /\ UNCHANGED <<server, sent, taken, echoed, onStrand, loaded,
                                    global_message_count, reads>>

\* The client is gone before Session::start has asked for its address: the exception leaves
\* io_ctx.run() in one of the threads, which ends the process.
StartThrows(s) == /\ server = "strand" /\ session[s] = "connecting"
                  /\ server' = "terminated"
                  /\ UNCHANGED <<sent, taken, echoed, session, onStrand, loaded,
                                 global_message_count, reads>>

\* listener
AcceptCoroutine(s) == /\ server = "coroutine" /\ session[s] = "connecting"
                      /\ Goto(s, "read")
                      /\ UNCHANGED <<server, sent, taken, echoed, onStrand, loaded,
                                     global_message_count, reads>>

ClientSends(s) == /\ session[s] # "connecting" /\ sent[s] < ToSend
                  /\ sent' = [sent EXCEPT ![s] = @ + 1]
                  /\ UNCHANGED <<server, taken, echoed, session, onStrand, loaded,
                                 global_message_count, reads>>

\* Mutated form: the handlers are not bound to the strand.
MutStrandFree == TRUE

StrandFree == onStrand = 0

\* do_read's handler: it begins with the load of the count,
ReadOnStrand(s, upTo) ==
  /\ server = "strand" /\ session[s] = "read" /\ StrandFree
  /\ upTo \in (taken[s] + 1)..sent[s]
  /\ taken' = [taken EXCEPT ![s] = upTo]
  /\ loaded' = global_message_count
  /\ reads' = reads + 1
  /\ onStrand' = s
  /\ Goto(s, "count")
  /\ UNCHANGED <<server, sent, echoed, global_message_count>>

\* stores the count and starts to write what was read.
Count(s) == /\ server = "strand" /\ session[s] = "count"
            /\ global_message_count' = loaded + 1
            /\ onStrand' = 0
            /\ Goto(s, "write")
            /\ UNCHANGED <<server, sent, taken, echoed, loaded, reads>>

\* do_write's handler reads again.
WrittenOnStrand(s) == /\ server = "strand" /\ session[s] = "write" /\ StrandFree
                      /\ echoed' = [echoed EXCEPT ![s] = taken[s]]
                      /\ Goto(s, "read")
                      /\ UNCHANGED <<server, sent, taken, onStrand, loaded,
                                     global_message_count, reads>>

\* A failed read or write ends the session: nothing is started again.
FailOnStrand(s) == /\ server = "strand" /\ session[s] \in {"read", "write"} /\ StrandFree
                   /\ Goto(s, "ended")
                   /\ UNCHANGED <<server, sent, taken, echoed, onStrand, loaded,
                                  global_message_count, reads>>

\* echo_session: between two suspensions nothing else runs.
ReadCoroutine(s, upTo) ==
  /\ server = "coroutine" /\ session[s] = "read"
  /\ upTo \in (taken[s] + 1)..sent[s]
  /\ taken' = [taken EXCEPT ![s] = upTo]
  /\ reads' = reads + 1
  /\ Goto(s, "write")
  /\ UNCHANGED <<server, sent, echoed, onStrand, loaded, global_message_count>>

WrittenCoroutine(s) == /\ server = "coroutine" /\ session[s] = "write"
                       /\ echoed' = [echoed EXCEPT ![s] = taken[s]]
                       /\ Goto(s, "read")
                       /\ UNCHANGED <<server, sent, taken, onStrand, loaded,
                                      global_message_count, reads>>

\* eof breaks the loop; any other error is an exception, caught in the session, or lost
\* with the detached session when the client has no address any more.
FailCoroutine(s) == /\ server = "coroutine" /\ session[s] \in {"connecting", "read", "write"}
                    /\ Goto(s, "ended")
                    /\ UNCHANGED <<server, sent, taken, echoed, onStrand, loaded,
                                   global_message_count, reads>>

Serve(s) == \/ AcceptOnStrand(s) \/ (\E n \in 1..ToSend : ReadOnStrand(s, n))
            \/ Count(s) \/ WrittenOnStrand(s)
            \/ AcceptCoroutine(s) \/ (\E n \in 1..ToSend : ReadCoroutine(s, n))
            \/ WrittenCoroutine(s)
Environment(s) == ClientSends(s) \/ StartThrows(s) \/ FailOnStrand(s) \/ FailCoroutine(s)

Next == \E s \in Peer : Serve(s) \/ Environment(s)

Spec == Init /\ [][Next]_echoVars
----------------------------------------------------------------------------
\* The count is that of the reads, but for the one whose handler is running: no
\* increment is lost although four threads run the handlers of all sessions.  What
\* is echoed was read, what is read was sent, and a session that waits for more has
\* echoed all that it read.
EchoConsistent ==
  /\ server = "strand" =>
       global_message_count + Cardinality({s \in Peer : session[s] = "count"}) = reads
  /\ \A s \in Peer : /\ echoed[s] <= taken[s] /\ taken[s] <= sent[s]
                     /\ session[s] = "read" => echoed[s] = taken[s]
=============================================================================
