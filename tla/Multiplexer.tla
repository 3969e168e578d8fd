----------------------------- MODULE Multiplexer -----------------------------
(***************************************************************************)
(* CoroutinesTasks/task2.cpp: two mock servers send messages at their own pace  *)
(* to a multiplexer, which races a read of each socket and takes the result of   *)
(* the first.  The other read is cancelled; if it has already completed, the     *)
(* cancellation comes too late and what it read is discarded with it.  A read    *)
(* may take several messages.                                                *)
(***************************************************************************)
EXTENDS Naturals, FiniteSets

CONSTANT MessageCount  \* MessageCount[i]: how many messages server i sends

Source == DOMAIN MessageCount
MultiplexerAssumption == Source = {1, 2} /\ MessageCount \in [Source -> Nat]

VARIABLES mock,    \* mock[i]: where server i is
          posted,  \* posted[i]: how many messages it has written
          fetched, \* fetched[i]: how many of them reads have taken
          read,    \* read[i]: "none", "pending" or "ready"
          chunk,   \* chunk[i]: the messages a completed read holds, {} at the end
          open,    \* the sockets that are not known to be closed
          shown,   \* shown[i]: the messages that were printed
          raced,   \* raced[i]: how many messages reads had taken when the last race ended
                   \* (a history variable: no step depends on it)
          demo     \* where run_demo is

muxVars == <<mock, posted, fetched, read, chunk, open, shown, raced, demo>>

Init == /\ mock = [i \in Source |-> "accept"]
        /\ posted = [i \in Source |-> 0] /\ fetched = posted /\ raced = posted
        /\ read = [i \in Source |-> "none"]
        /\ chunk = [i \in Source |-> {}] /\ shown = chunk
        /\ open = Source
        /\ demo = "connect1"
----------------------------------------------------------------------------
\* run_demo connects to one server and then to the other.
Connect(i) == /\ mock[i] = "accept" /\ demo = IF i = 1 THEN "connect1" ELSE "connect2"
              /\ mock' = [mock EXCEPT ![i] = "send"]
              /\ demo' = IF i = 1 THEN "connect2" ELSE "multiplex"
              /\ UNCHANGED <<posted, fetched, read, chunk, open, shown, raced>>

\* mock_server
SendMessage(i) == /\ mock[i] = "send" /\ posted[i] < MessageCount[i]
                  /\ posted' = [posted EXCEPT ![i] = @ + 1]
                  /\ UNCHANGED <<mock, fetched, read, chunk, open, shown, raced, demo>>

Close(i) == /\ mock[i] = "send" /\ posted[i] = MessageCount[i]
            /\ mock' = [mock EXCEPT ![i] = "closed"]
            /\ UNCHANGED <<posted, fetched, read, chunk, open, shown, raced, demo>>

\* Mutated form: both sockets are read as long as one is open, so that a read of the
\* closed one, which ends at once, is raced with that of the other.
MutStartReads == /\ demo = "multiplex" /\ open # {} /\ \A i \in Source : read[i] = "none"
                 /\ read' = [i \in Source |-> "pending"]
                 /\ UNCHANGED <<mock, posted, fetched, chunk, open, shown, raced, demo>>

\* The multiplexer starts to read the sockets that are open, both when both are.
StartReads == /\ demo = "multiplex" /\ open # {} /\ \A i \in Source : read[i] = "none"
              /\ read' = [i \in Source |-> IF i \in open THEN "pending" ELSE "none"]
              /\ UNCHANGED <<mock, posted, fetched, chunk, open, shown, raced, demo>>

\* A read completes with what there is, or with nothing when the server has closed.
CompleteRead(i) == /\ read[i] = "pending"
                   /\ posted[i] > fetched[i] \/ mock[i] = "closed"
                   /\ chunk' = [chunk EXCEPT ![i] = (fetched[i] + 1)..posted[i]]
                   /\ fetched' = [fetched EXCEPT ![i] = posted[i]]
                   /\ read' = [read EXCEPT ![i] = "ready"]
                   /\ UNCHANGED <<mock, posted, open, shown, raced, demo>>

\* The winner's result is printed, or its socket is closed; the other read is
\* cancelled, or its result is discarded.
TakeFirst(i) == /\ read[i] = "ready"
                /\ IF chunk[i] = {} THEN open' = open \ {i} /\ UNCHANGED shown
                   ELSE shown' = [shown EXCEPT ![i] = @ \cup chunk[i]] /\ UNCHANGED open
                /\ read' = [j \in Source |-> "none"]
                /\ chunk' = [j \in Source |-> {}]
                /\ raced' = IF open = Source THEN fetched ELSE raced
                /\ UNCHANGED <<mock, posted, fetched, demo>>

EndDemo == /\ demo = "multiplex" /\ open = {}
           /\ demo' = "ended"
           /\ UNCHANGED <<mock, posted, fetched, read, chunk, open, shown, raced>>

MuxStep == StartReads \/ EndDemo \/ \E i \in Source : Connect(i) \/ TakeFirst(i)
SourceStep(i) == SendMessage(i) \/ Close(i) \/ CompleteRead(i)

Next == MuxStep \/ \E i \in Source : SourceStep(i)

Fairness == WF_muxVars(MuxStep) /\ \A i \in Source : WF_muxVars(SourceStep(i))

Spec == Init /\ [][Next]_muxVars /\ Fairness
----------------------------------------------------------------------------
\* The messages of i that were taken from its socket and will never be printed.
Lost(i) == (1..fetched[i]) \ (shown[i] \cup chunk[i])

\* No message is printed twice.  Messages are lost to races only: one of the two must
\* have been lost to the other socket, which was printed or found closed instead; and from
\* the end of the last race on, when one socket alone is read, every message is printed
\* or held by the read that will print it.  A socket counts as closed only when its server
\* has closed it and nothing is left in it.
MessagesAccountedFor ==
  /\ \A i \in Source :
       /\ shown[i] \cup chunk[i] \subseteq 1..fetched[i] /\ shown[i] \cap chunk[i] = {}
       /\ Lost(i) \subseteq 1..raced[i]
       /\ i \notin open => mock[i] = "closed" /\ fetched[i] = MessageCount[i]
  /\ \A i, j \in Source : i # j /\ Lost(i) # {} => shown[j] # {} \/ j \notin open
=============================================================================
