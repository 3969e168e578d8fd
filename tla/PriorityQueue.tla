---------------------------- MODULE PriorityQueue ----------------------------
(***************************************************************************)
(* Seminar4/task7.cpp: producers push values with priorities under a mutex and  *)
(* wake one consumer each time; consumers pop the value of highest priority.    *)
(* main joins the producers and then stores `done' and wakes all, without the  *)
(* mutex.                                                                  *)
(***************************************************************************)
EXTENDS Naturals, Sequences, Functions, FiniteSets

CONSTANTS Pushes,    \* Pushes[p]: the priorities producer p pushes, in order
          Consumers, \* the number of consumers
          Demands    \* how often each consumer may call pop

PQAssumption == Consumers \in Nat /\ Demands \subseteq Nat \ {0}

PQProducer == DOMAIN Pushes
PQConsumer == 1..Consumers
Nothing == <<>>  \* T{}

VARIABLES pq,        \* queue: a set of <<producer, n>>, the n-th value of a producer
          pushed,    \* pushed[p]: how many values p has pushed
          popped,    \* what pop has returned, in order
          pqDone,    \* done
          consumer,  \* consumer[c]: where consumer c is
          calls,     \* calls[c]: the calls it has yet to end
          wanted,    \* how often each consumer calls pop
          pqMain     \* where main is

pqVars == <<pq, pushed, popped, pqDone, consumer, calls, wanted, pqMain>>

Init == /\ pq = {} /\ popped = <<>> /\ pqDone = FALSE
        /\ pushed = [p \in PQProducer |-> 0]
        /\ consumer = [c \in PQConsumer |-> "test"]
        /\ wanted \in Demands
        /\ calls = [c \in PQConsumer |-> wanted]
        /\ pqMain = "join"
----------------------------------------------------------------------------
PriorityOf(v) == Pushes[v[1]][v[2]]

\* A consumer in "doze" has seen its predicate fail and still holds mtx.
MtxFree == \A c \in PQConsumer : consumer[c] # "doze"

Asleep == {c \in PQConsumer : consumer[c] = "asleep"}

\* notify_one: one of the sleepers, if there is one, tests its predicate again.
NotifyOne == IF Asleep = {} THEN UNCHANGED consumer
             ELSE \E c \in Asleep : consumer' = [consumer EXCEPT ![c] = "test"]

\* Mutated form: notifies only when the queue was empty.
MutPush(p) == /\ MtxFree /\ pushed[p] < Len(Pushes[p])
              /\ pushed' = [pushed EXCEPT ![p] = @ + 1]
              /\ pq' = pq \cup {<<p, pushed'[p]>>}
              /\ IF pq = {} THEN NotifyOne ELSE UNCHANGED consumer
              /\ UNCHANGED <<popped, pqDone, calls, wanted, pqMain>>

Push(p) == /\ MtxFree /\ pushed[p] < Len(Pushes[p])
           /\ pushed' = [pushed EXCEPT ![p] = @ + 1]
           /\ pq' = pq \cup {<<p, pushed'[p]>>}
           /\ NotifyOne
           /\ UNCHANGED <<popped, pqDone, calls, wanted, pqMain>>

\* done changes without the mutex: the test and the sleep are two steps.
Doze(c) == /\ consumer[c] = "test" /\ MtxFree
           /\ pq = {} /\ ~pqDone
           /\ consumer' = [consumer EXCEPT ![c] = "doze"]
           /\ UNCHANGED <<pq, pushed, popped, pqDone, calls, wanted, pqMain>>

FallAsleep(c) == /\ consumer[c] = "doze"
                 /\ consumer' = [consumer EXCEPT ![c] = "asleep"]
                 /\ UNCHANGED <<pq, pushed, popped, pqDone, calls, wanted, pqMain>>

SpuriousWake(c) == /\ consumer[c] = "asleep"
                   /\ consumer' = [consumer EXCEPT ![c] = "test"]
                   /\ UNCHANGED <<pq, pushed, popped, pqDone, calls, wanted, pqMain>>

Return(c, value) == /\ popped' = Append(popped, value)
                    /\ calls' = [calls EXCEPT ![c] = @ - 1]
                    /\ consumer' = [consumer EXCEPT ![c] = IF calls[c] = 1 THEN "ended"
                                                           ELSE "test"]
                    /\ UNCHANGED <<pushed, pqDone, wanted, pqMain>>

PopNothing(c) == /\ consumer[c] = "test" /\ MtxFree
                 /\ pq = {} /\ pqDone
                 /\ Return(c, Nothing)
                 /\ UNCHANGED pq

Pop(c) == /\ consumer[c] = "test" /\ MtxFree
          /\ \E v \in pq : /\ \A u \in pq : PriorityOf(u) <= PriorityOf(v)
                           /\ pq' = pq \ {v}
                           /\ Return(c, v)

\* set_done, after the producers have been joined: store, then notify_all.
SetDone == /\ pqMain = "join" /\ \A p \in PQProducer : pushed[p] = Len(Pushes[p])
           /\ pqDone' = TRUE
           /\ pqMain' = "notify"
           /\ UNCHANGED <<pq, pushed, popped, consumer, calls, wanted>>

NotifyAll == /\ pqMain = "notify"
             /\ consumer' = [c \in PQConsumer |-> IF c \in Asleep THEN "test" ELSE consumer[c]]
             /\ pqMain' = "joinConsumers"
             /\ UNCHANGED <<pq, pushed, popped, pqDone, calls, wanted>>

ReturnFromMain == /\ pqMain = "joinConsumers" /\ \A c \in PQConsumer : consumer[c] = "ended"
                  /\ pqMain' = "returned"
                  /\ UNCHANGED <<pq, pushed, popped, pqDone, consumer, calls, wanted>>

PQMainStep == SetDone \/ NotifyAll \/ ReturnFromMain
ConsumerStep(c) == Doze(c) \/ FallAsleep(c) \/ PopNothing(c) \/ Pop(c)

Next == \/ PQMainStep
        \/ \E p \in PQProducer : Push(p)
        \/ \E c \in PQConsumer : ConsumerStep(c) \/ SpuriousWake(c)

\* Another thread may hold the mutex again and again: whoever wants it often
\* enough gets it.
Fairness == /\ WF_pqVars(PQMainStep)
            /\ SF_pqVars(\E p \in PQProducer : Push(p))
            /\ \A c \in PQConsumer : SF_pqVars(ConsumerStep(c))

Spec == Init /\ [][Next]_pqVars /\ Fairness
----------------------------------------------------------------------------
Values == UNION {{<<p, n>> : n \in 1..pushed[p]} : p \in PQProducer}
Popped == Range(popped) \ {Nothing}

\* Values are popped once; nothing is returned before there is nothing left to
\* come; and no consumer sleeps beside a value unless another one is awake and
\* about to take it.
PopsConsistent ==
  /\ \A i, j \in DOMAIN popped : popped[i] = popped[j] /\ i # j => popped[i] = Nothing
  /\ pq \cap Popped = {} /\ pq \cup Popped = Values
  /\ Nothing \in Range(popped) => pq = {} /\ \A p \in PQProducer : pushed[p] = Len(Pushes[p])
  /\ Asleep # {} /\ pq # {} =>
       Cardinality(pq) <= Cardinality({c \in PQConsumer : consumer[c] = "test"})
=============================================================================
