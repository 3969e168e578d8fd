----------------------------- MODULE RingBuffer -----------------------------
(***************************************************************************)
(* Seminar4/task3.cpp: a ring of `capacity' places under one mutex, with a    *)
(* condition variable for each side.  Every produce and consume wakes one     *)
(* thread of the other side.  main joins the producers and then stores `done' *)
(* and wakes the consumers, both without the mutex.                        *)
(***************************************************************************)
EXTENDS Naturals, Sequences, FiniteSets

CONSTANTS Producer, Consumer,
          Capacity,  \* capacity
          Supply,    \* how often each producer calls produce
          Demands    \* how often each consumer may call consume

RingAssumption == /\ IsFiniteSet(Producer) /\ IsFiniteSet(Consumer)
                  /\ Producer \cap Consumer = {}
                  /\ Capacity \in Nat \ {0}
                  /\ Supply \in Nat \ {0}
                  /\ Demands \subseteq Nat \ {0}

Thread == Producer \cup Consumer
Value == Producer \X (1..Supply)  \* what a producer produces in its n-th call
Default == <<>>                   \* T{}

VARIABLES buffer, write_pos, read_pos, count, done,
          place,   \* place[t]: where thread t is
          rounds,  \* rounds[t]: the calls t has yet to end
          demand,  \* how often each consumer calls consume
          got,     \* got[c]: the value of c's last consume
          main     \* where main is

ring == <<buffer, write_pos, read_pos, count>>
ringVars == <<buffer, write_pos, read_pos, count, done, place, rounds, demand, got, main>>

Init == /\ buffer = [i \in 0..(Capacity - 1) |-> Default]
        /\ write_pos = 0 /\ read_pos = 0 /\ count = 0
        /\ done = FALSE
        /\ place = [t \in Thread |-> "try"]
        /\ demand \in Demands
        /\ rounds = [t \in Thread |-> IF t \in Producer THEN Supply ELSE demand]
        /\ got = [c \in Consumer |-> Default]
        /\ main = "join"
----------------------------------------------------------------------------
\* A consumer in "doze" has seen its predicate fail and still holds mtx.
MutexFree == \A c \in Consumer : place[c] # "doze"

\* Mutated form: the last place is left out.
MutAdvance(pos) == IF Capacity = 1 THEN 0 ELSE (pos + 1) % (Capacity - 1)

Advance(pos) == (pos + 1) % Capacity

\* t ends a call and begins the next one, if it has one.
EndCall(t) == /\ rounds' = [rounds EXCEPT ![t] = @ - 1]
              /\ UNCHANGED <<demand, main>>

Ended(t) == [place EXCEPT ![t] = IF rounds[t] = 1 THEN "ended" ELSE "try"]

\* The places after notify_one, when p are the places before: one of the side's
\* sleepers, if there is one, tests its predicate again.
NotifiedOne(p, side) ==
  LET asleep == {t \in side : p[t] = "asleep"}
  IN  IF asleep = {} THEN {p} ELSE {[p EXCEPT ![t] = "try"] : t \in asleep}

\* produce
SleepToProduce(p) == /\ place[p] = "try" /\ MutexFree
                     /\ count = Capacity
                     /\ place' = [place EXCEPT ![p] = "asleep"]
                     /\ UNCHANGED <<ring, done, rounds, demand, got, main>>

\* Mutated form: notifies only when the buffer was empty.
MutProduce(p) == /\ place[p] = "try" /\ MutexFree
                 /\ count < Capacity
                 /\ buffer' = [buffer EXCEPT ![write_pos] = <<p, Supply - rounds[p] + 1>>]
                 /\ write_pos' = Advance(write_pos)
                 /\ count' = count + 1
                 /\ place' \in NotifiedOne(Ended(p), IF count = 0 THEN Consumer ELSE {})
                 /\ EndCall(p)
                 /\ UNCHANGED <<read_pos, done, got>>

Produce(p) == /\ place[p] = "try" /\ MutexFree
              /\ count < Capacity
              /\ buffer' = [buffer EXCEPT ![write_pos] = <<p, Supply - rounds[p] + 1>>]
              /\ write_pos' = Advance(write_pos)
              /\ count' = count + 1
              /\ place' \in NotifiedOne(Ended(p), Consumer)
              /\ EndCall(p)
              /\ UNCHANGED <<read_pos, done, got>>

\* consume: the predicate reads done, which changes without the mutex, so its
\* failure and the sleep are two steps.
Doze(c) == /\ place[c] = "try" /\ MutexFree
           /\ count = 0 /\ ~done
           /\ place' = [place EXCEPT ![c] = "doze"]
           /\ UNCHANGED <<ring, done, rounds, demand, got, main>>

FallAsleep(c) == /\ place[c] = "doze"
                 /\ place' = [place EXCEPT ![c] = "asleep"]
                 /\ UNCHANGED <<ring, done, rounds, demand, got, main>>

SpuriousWake(t) == /\ place[t] = "asleep"
                   /\ place' = [place EXCEPT ![t] = "try"]
                   /\ UNCHANGED <<ring, done, rounds, demand, got, main>>

ConsumeDefault(c) == /\ place[c] = "try" /\ MutexFree
                     /\ count = 0 /\ done
                     /\ got' = [got EXCEPT ![c] = Default]
                     /\ place' = Ended(c)
                     /\ EndCall(c)
                     /\ UNCHANGED <<ring, done>>

\* Mutated form: the item is read where the next one goes.
MutRead == buffer[write_pos]

Read == buffer[read_pos]

\* Mutated form: no producer is woken.
MutConsume(c) == /\ place[c] = "try" /\ MutexFree
                 /\ count > 0
                 /\ got' = [got EXCEPT ![c] = Read]
                 /\ read_pos' = Advance(read_pos)
                 /\ count' = count - 1
                 /\ place' = Ended(c)
                 /\ EndCall(c)
                 /\ UNCHANGED <<buffer, write_pos, done>>

Consume(c) == /\ place[c] = "try" /\ MutexFree
              /\ count > 0
              /\ got' = [got EXCEPT ![c] = Read]
              /\ read_pos' = Advance(read_pos)
              /\ count' = count - 1
              /\ place' \in NotifiedOne(Ended(c), Producer)
              /\ EndCall(c)
              /\ UNCHANGED <<buffer, write_pos, done>>
----------------------------------------------------------------------------
AllEnded(side) == \A t \in side : place[t] = "ended"

\* set_done, after both producers have been joined: store, then notify_all.
SetDone == /\ main = "join" /\ AllEnded(Producer)
           /\ done' = TRUE
           /\ main' = "notify"
           /\ UNCHANGED <<ring, place, rounds, demand, got>>

NotifyAll == /\ main = "notify"
             /\ place' = [t \in Thread |-> IF t \in Consumer /\ place[t] = "asleep"
                                           THEN "try" ELSE place[t]]
             /\ main' = "joinConsumers"
             /\ UNCHANGED <<ring, done, rounds, demand, got>>

Return == /\ main = "joinConsumers" /\ AllEnded(Consumer)
          /\ main' = "returned"
          /\ UNCHANGED <<ring, done, place, rounds, demand, got>>

MainStep == SetDone \/ NotifyAll \/ Return
Producing(p) == SleepToProduce(p) \/ Produce(p)
Consuming(c) == Doze(c) \/ FallAsleep(c) \/ ConsumeDefault(c) \/ Consume(c)

Next == \/ MainStep
        \/ \E p \in Producer : Producing(p)
        \/ \E c \in Consumer : Consuming(c)
        \/ \E t \in Thread : SpuriousWake(t)

\* Threads are scheduled, and a mutex that is free again and again is granted.
Fairness == /\ WF_ringVars(MainStep)
            /\ \A p \in Producer : SF_ringVars(Producing(p))
            /\ \A c \in Consumer : SF_ringVars(Consuming(c))

Spec == Init /\ [][Next]_ringVars /\ Fairness
----------------------------------------------------------------------------
At(label, side) == {t \in side : place[t] = label}

\* Every variable has its type.
TypeOK == /\ buffer \in [0..(Capacity - 1) -> Value \cup {Default}]
          /\ write_pos \in 0..(Capacity - 1)
          /\ read_pos \in 0..(Capacity - 1)
          /\ count \in 0..Capacity
          /\ done \in BOOLEAN
          /\ place \in [Thread -> {"try", "doze", "asleep", "ended"}]
          /\ rounds \in [Thread -> Nat]
          /\ demand \in Demands
          /\ got \in [Consumer -> Value \cup {Default}]
          /\ main \in {"join", "notify", "joinConsumers", "returned"}

\* One notify_one per item and per place is enough: while a consumer sleeps there
\* are as many consumers awake as items, and likewise for producers and places.
NobodySleptOver ==
  /\ At("asleep", Consumer) # {} => Cardinality(At("try", Consumer)) >= count
  /\ At("asleep", Producer) # {} => Cardinality(At("try", Producer)) >= Capacity - count

\* The positions agree with the count, and at most one thread is between its test
\* and its sleep.
RingConsistent == /\ TypeOK
                  /\ write_pos = (read_pos + count) % Capacity
                  /\ Cardinality(At("doze", Consumer)) <= 1
                  /\ NobodySleptOver

\* The items in the ring, the oldest first, are a bounded FIFO channel.
Items == [i \in 1..count |-> buffer[(read_pos + i - 1) % Capacity]]
FIFO == INSTANCE Channel WITH Buffer <- {0}, chan <- [b \in {0} |-> Items]
RingIsChannel == FIFO!Spec

\* What consume returns is what the channel gave, and T{} only when nothing is
\* left to come: so no item is missed by a consumer that ends.
ReturnsTheOldest ==
  [][\A c \in Consumer : rounds'[c] < rounds[c] =>
       IF count > 0 THEN got'[c] = Items[1]
       ELSE got'[c] = Default /\ AllEnded(Producer)]_ringVars
=============================================================================
