--------------------------- MODULE SemaphoreBuffer ---------------------------
(***************************************************************************)
(* Seminar5/task3.cpp: several bounded buffers, each a deque with a mutex,    *)
(* a semaphore that counts its empty places and one that counts its items.  *)
(* A producer tries the buffers in turn from one it draws at random and drops *)
(* its value when every attempt times out; a consumer does the same to take  *)
(* an item.  A place is reserved, used and announced in three steps.        *)
(*                                                                         *)
(* The semaphores are used as Semaphore promises.  Left out: the statistics   *)
(* produce_timeouts_ and consume_timeouts_.                                *)
(***************************************************************************)
EXTENDS Naturals, Sequences, FiniteSets

CONSTANTS Producer, Consumer,
          Buffers,    \* k_buffers
          Capacity,   \* capacity_each
          Value       \* what main produces

Thread == Producer \cup Consumer
Buffer == 0..(Buffers - 1)

ASSUME BufferAssumption == /\ IsFiniteSet(Thread)
                           /\ Producer \cap Consumer = {}
                           /\ Buffers \in Nat \ {0}
                           /\ Capacity \in Nat

VARIABLES buffers, \* buffers_[b], the deque
          empty,   \* empty_[b], permits
          full,    \* full_[b], permits
          pc,      \* pc[t]: where thread t is
          local,   \* local[t]: the locals of t's round of main's loop
          stop     \* main's stop flag

vars == <<buffers, empty, full, pc, local, stop>>

\* The buffer the thread is at (buffer_index), the attempts it has made, and
\* what it is producing or has consumed; NoRound outside a round.
Local == [at : Buffer, tries : 0..Buffers, value : Value \cup {0}]
NoRound == [at |-> 0, tries |-> 0, value |-> 0]

Init == /\ buffers = [b \in Buffer |-> <<>>]
        /\ empty = [b \in Buffer |-> Capacity]
        /\ full = [b \in Buffer |-> 0]
        /\ pc = [t \in Thread |-> "idle"]
        /\ local = [t \in Thread |-> NoRound]
        /\ stop = FALSE
----------------------------------------------------------------------------
at(t) == local[t].at

\* t takes a step from one place of its round to another.
Step(t, from, to) == /\ pc[t] = from
                     /\ pc' = [pc EXCEPT ![t] = to]
                     /\ UNCHANGED stop

EndRound(t) == local' = [local EXCEPT ![t] = NoRound]

\* A round of main's loop: a value and the buffer to begin with are drawn.
Begin(t, b, v) ==
  /\ ~stop
  /\ Step(t, "idle", "try")
  /\ local' = [local EXCEPT ![t] =
                 [at |-> b, tries |-> 0, value |-> IF t \in Producer THEN v ELSE 0]]
  /\ UNCHANGED <<buffers, empty, full>>

\* produce and consume time out: the next buffer in turn, or, when all have been
\* tried, the round ends and a producer's value is dropped.
TimeOut(t) ==
  /\ IF t \in Producer THEN empty[at(t)] = 0 ELSE full[at(t)] = 0
  /\ IF local[t].tries + 1 < Buffers
     THEN /\ Step(t, "try", "try")
          /\ local' = [local EXCEPT ![t].tries = @ + 1, ![t].at = (@ + 1) % Buffers]
     ELSE Step(t, "try", "idle") /\ EndRound(t)
  /\ UNCHANGED <<buffers, empty, full>>

\* produce: empty.try_acquire_for, push_back under the mutex, full_.release.
Reserve(t) == /\ t \in Producer
              /\ empty[at(t)] > 0
              /\ Step(t, "try", "push")
              /\ empty' = [empty EXCEPT ![at(t)] = @ - 1]
              /\ UNCHANGED <<buffers, full, local>>

\* Mutated form: push_front.
MutPush(t) == /\ Step(t, "push", "announceItem")
              /\ buffers' = [buffers EXCEPT ![at(t)] = <<local[t].value>> \o @]
              /\ UNCHANGED <<empty, full, local>>

Push(t) == /\ Step(t, "push", "announceItem")
           /\ buffers' = [buffers EXCEPT ![at(t)] = Append(@, local[t].value)]
           /\ UNCHANGED <<empty, full, local>>

\* Mutated form: the wrong semaphore.
MutAnnounceItem(t) == /\ Step(t, "announceItem", "idle")
                      /\ empty' = [empty EXCEPT ![at(t)] = @ + 1]
                      /\ EndRound(t)
                      /\ UNCHANGED <<buffers, full>>

AnnounceItem(t) == /\ Step(t, "announceItem", "idle")
                   /\ full' = [full EXCEPT ![at(t)] = @ + 1]
                   /\ EndRound(t)
                   /\ UNCHANGED <<buffers, empty>>

\* consume: full.try_acquire_for, pop_front under the mutex, empty_.release.
Claim(t) == /\ t \in Consumer
            /\ full[at(t)] > 0
            /\ Step(t, "try", "pop")
            /\ full' = [full EXCEPT ![at(t)] = @ - 1]
            /\ UNCHANGED <<buffers, empty, local>>

Pop(t) == /\ Step(t, "pop", "announcePlace")
          /\ local' = [local EXCEPT ![t].value = Head(buffers[at(t)])]
          /\ buffers' = [buffers EXCEPT ![at(t)] = Tail(@)]
          /\ UNCHANGED <<empty, full>>

\* Mutated form: consume does not release the place.
MutAnnouncePlace(t) == /\ Step(t, "announcePlace", "idle")
                       /\ EndRound(t)
                       /\ UNCHANGED <<buffers, empty, full>>

AnnouncePlace(t) == /\ Step(t, "announcePlace", "idle")
                    /\ empty' = [empty EXCEPT ![at(t)] = @ + 1]
                    /\ EndRound(t)
                    /\ UNCHANGED <<buffers, full>>

Stop == /\ ~stop
        /\ stop' = TRUE
        /\ UNCHANGED <<buffers, empty, full, pc, local>>

InCall(t) == \/ TimeOut(t) \/ Reserve(t) \/ Push(t) \/ AnnounceItem(t)
             \/ Claim(t) \/ Pop(t) \/ AnnouncePlace(t)

BeginSome(t) == \E b \in Buffer, v \in Value : Begin(t, b, v)

Next == Stop \/ \E t \in Thread : BeginSome(t) \/ InCall(t)

Fairness == \A t \in Thread : WF_vars(InCall(t)) /\ WF_vars(BeginSome(t))

Spec == Init /\ [][Next]_vars /\ Fairness
----------------------------------------------------------------------------
At(label, b) == {t \in Thread : pc[t] = label /\ at(t) = b}

\* Every variable has its type.
TypeOK == /\ buffers \in [Buffer -> Seq(Value)]
          /\ empty \in [Buffer -> 0..Capacity]
          /\ full \in [Buffer -> 0..Capacity]
          /\ pc \in [Thread -> {"idle", "try", "push", "announceItem", "pop",
                                "announcePlace"}]
          /\ local \in [Thread -> Local]
          /\ stop \in BOOLEAN

\* Every place of a buffer is free, reserved by a producer, used by an item, or
\* left by a consumer that has yet to announce it.
PlacesAccountedFor ==
  \A b \in Buffer : empty[b] + Cardinality(At("push", b)) + Len(buffers[b])
                      + Cardinality(At("announcePlace", b)) = Capacity

\* Every item of a buffer is offered, claimed by a consumer that has yet to pop
\* it, or awaits its announcement: so front() never meets an empty deque,
\* although the pop comes a step after the claim.
ItemsAccountedFor ==
  \A b \in Buffer : full[b] + Cardinality(At("pop", b))
                      + Cardinality(At("announceItem", b)) = Len(buffers[b])

\* Places, items and permits agree in every state.
BuffersConsistent == TypeOK /\ PlacesAccountedFor /\ ItemsAccountedFor

\* Each buffer is a bounded FIFO channel, for all the producers and consumers
\* that reach it in different steps of their calls.
Channels == INSTANCE Channel WITH chan <- buffers
BuffersAreChannels == Channels!Spec

\* Producers and consumers never wait for each other for ever: while main runs
\* there is always another item taken from some buffer.
ItemsKeepFlowing == []<>(stop \/ \E t \in Consumer : pc[t] = "announcePlace")
=============================================================================
