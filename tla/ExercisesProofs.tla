--------------------------- MODULE ExercisesProofs ---------------------------
(***************************************************************************)
(* Proofs about the programs of Seminar2 and Seminar4, of the network and of the  *)
(* coroutines, for any number of threads, accounts, sessions, messages, lines     *)
(* and records.                                                               *)
(***************************************************************************)
EXTENDS Exercises, Counting, SequenceTheorems

\* The size of a set is the same in each of the programs.
LEMMA SameSizes == \A S : /\ Ring!Cardinality(S) = Cardinality(S)
                          /\ PQ!Cardinality(S) = Cardinality(S)
                          /\ Echo!Cardinality(S) = Cardinality(S)
                          /\ Mux!Cardinality(S) = Cardinality(S)
  BY Zenon DEF Ring!Cardinality, PQ!Cardinality, Echo!Cardinality, Mux!Cardinality, Cardinality

\* How many threads of a side are at certain places, A and later B, when only t has moved.
LEMMA OneMoves ==
  ASSUME NEW S, IsFiniteSet(S), NEW A \in SUBSET S, NEW B \in SUBSET S, NEW t,
         \A u \in S : u # t => (u \in A <=> u \in B)
  PROVE  /\ Cardinality(A) \in Nat /\ Cardinality(B) \in Nat
         /\ Cardinality(B) = Cardinality(A) + (IF t \notin A /\ t \in B THEN 1
                                              ELSE IF t \in A /\ t \notin B THEN -1 ELSE 0)
<1>1. IsFiniteSet(A)
  BY FS_Subset
<1>2. A \ {t} = B \ {t}
  OBVIOUS
<1>3. /\ Cardinality(A) \in Nat /\ Cardinality(B) \in Nat
      /\ Cardinality(B) = Cardinality(A) + Change(A, B, t)
  BY <1>1, <1>2, OneElementChanges
<1> QED BY <1>3 DEF Change

(***************************************************************************)
(* RingBuffer.  The positions are followed without the remainder; a consumer    *)
(* between its test and its sleep has the ring to itself, and so it stays empty. *)
(***************************************************************************)
Wrapped(i) == IF i < Capacity THEN i ELSE i - Capacity

PositionsAgree == write_pos = Wrapped(read_pos + count)

RoundsLeft == /\ \A t \in Ring!Thread : place[t] # "ended" => rounds[t] >= 1
              /\ \A p \in Producer : rounds[p] <= Supply /\ place[p] # "doze"

OneDozes == /\ \A c, d \in Consumer : place[c] = "doze" /\ place[d] = "doze" => c = d
            /\ \A c \in Consumer : place[c] = "doze" => count = 0

DoneAtTheEnd == done \/ main # "join" => Ring!AllEnded(Producer)

Awake(side) == Cardinality(Ring!At("try", side))
Enough(side, n) == Ring!At("asleep", side) # {} => Awake(side) >= n

EnoughAwake == Enough(Consumer, count) /\ Enough(Producer, Capacity - count)

RingInv == /\ Ring!TypeOK /\ PositionsAgree /\ RoundsLeft /\ OneDozes /\ DoneAtTheEnd
           /\ EnoughAwake

LEMMA RingAssumed == Ring!RingAssumption
  BY ExercisesAssumption, Zenon

LEMMA RingConstants == /\ IsFiniteSet(Producer) /\ IsFiniteSet(Consumer)
                       /\ Producer \cap Consumer = {}
                       /\ Capacity \in Nat \ {0} /\ Supply \in Nat \ {0}
                       /\ Demands \subseteq Nat \ {0}
                       /\ Ring!Thread = Producer \cup Consumer
  BY RingAssumed, Zenon DEF Ring!RingAssumption, Ring!Thread, Ring!IsFiniteSet, IsFiniteSet

\* The remainder of a position that is less than two rounds ahead.
LEMMA WrappedIsRemainder ==
  ASSUME NEW i \in 0..(2 * Capacity - 1)
  PROVE  i % Capacity = Wrapped(i)
<1>1. Capacity \in Nat \ {0}
  BY RingConstants
<1>2. CASE i < Capacity
  <2>1. i % Capacity = i
    BY <1>1, <1>2
  <2> QED BY <1>2, <2>1 DEF Wrapped
<1>3. CASE i >= Capacity
  <2>1. i % Capacity = i - Capacity
    BY <1>1, <1>3
  <2> QED BY <1>1, <1>3, <2>1 DEF Wrapped
<1> QED BY <1>1, <1>2, <1>3

LEMMA RingImplies == RingInv => Ring!RingConsistent
<1> SUFFICES ASSUME RingInv PROVE Ring!RingConsistent
  OBVIOUS
<1>1. read_pos \in 0..(Capacity - 1) /\ count \in 0..Capacity /\ Capacity \in Nat \ {0}
  BY RingConstants DEF RingInv, Ring!TypeOK
<1>2. write_pos = (read_pos + count) % Capacity
  <2>1. read_pos + count \in 0..(2 * Capacity - 1)
    BY <1>1
  <2> QED BY <2>1, WrappedIsRemainder DEF RingInv, PositionsAgree
<1>3. Ring!Cardinality(Ring!At("doze", Consumer)) <= 1
  <2>1. CASE Ring!At("doze", Consumer) = {}
    <3>1. Cardinality(Ring!At("doze", Consumer)) = 0
      BY <2>1, FS_EmptySet
    <3> QED BY <3>1, SameSizes
  <2>2. CASE Ring!At("doze", Consumer) # {}
    <3>1. PICK c : c \in Ring!At("doze", Consumer)
      BY <2>2
    <3>2. Ring!At("doze", Consumer) = {c}
      BY <3>1 DEF RingInv, OneDozes, Ring!At
    <3>3. Cardinality(Ring!At("doze", Consumer)) = 1
      BY <3>2, FS_Singleton
    <3> QED BY <3>3, SameSizes
  <2> QED BY <2>1, <2>2
<1>4. Ring!NobodySleptOver
  BY SameSizes DEF RingInv, EnoughAwake, Enough, Awake, Ring!NobodySleptOver
<1> QED BY <1>2, <1>3, <1>4 DEF RingInv, Ring!RingConsistent

LEMMA RingInit == Ring!Init => RingInv
<1> SUFFICES ASSUME Ring!Init PROVE RingInv
  OBVIOUS
<1> USE RingConstants
<1>1. /\ buffer = [i \in 0..(Capacity - 1) |-> Ring!Default]
      /\ write_pos = 0 /\ read_pos = 0 /\ count = 0 /\ done = FALSE /\ main = "join"
      /\ place = [t \in Ring!Thread |-> "try"]
      /\ demand \in Demands
      /\ rounds = [t \in Ring!Thread |-> IF t \in Producer THEN Supply ELSE demand]
      /\ got = [c \in Consumer |-> Ring!Default]
  BY DEF Ring!Init
<1>2. Ring!TypeOK
  <2>1. /\ buffer \in [0..(Capacity - 1) -> Ring!Value \cup {Ring!Default}]
        /\ got \in [Consumer -> Ring!Value \cup {Ring!Default}]
    BY <1>1
  <2>2. /\ 0 \in 0..(Capacity - 1) /\ 0 \in 0..Capacity /\ demand \in Nat
    BY <1>1
  <2>3. rounds \in [Ring!Thread -> Nat]
    BY <1>1, <2>2
  <2> QED BY <1>1, <2>1, <2>2, <2>3 DEF Ring!TypeOK
<1>3. PositionsAgree
  BY <1>1 DEF PositionsAgree, Wrapped
<1>4. RoundsLeft
  BY <1>1 DEF RoundsLeft
<1>5. OneDozes /\ DoneAtTheEnd
  BY <1>1 DEF OneDozes, DoneAtTheEnd
<1>6. EnoughAwake
  BY <1>1 DEF EnoughAwake, Enough, Ring!At
<1> QED BY <1>2, <1>3, <1>4, <1>5, <1>6 DEF RingInv

\* The sides are finite, and so are the threads of one that are at some place.
LEMMA SomeThreads ==
  ASSUME NEW side \in {Producer, Consumer}, NEW label
  PROVE  /\ IsFiniteSet(side) /\ side \subseteq Ring!Thread
         /\ Ring!At(label, side) \in SUBSET side
         /\ Cardinality(Ring!At(label, side)) \in Nat
<1>1. IsFiniteSet(side) /\ side \subseteq Ring!Thread
  BY RingConstants
<1>2. Ring!At(label, side) \in SUBSET side
  BY DEF Ring!At
<1> QED BY <1>1, <1>2, FS_Subset, FS_CardinalityType

\* A side where nobody moves.
LEMMA SideStays ==
  ASSUME NEW side, NEW n, Enough(side, n), \A t \in side : place'[t] = place[t]
  PROVE  Ring!At("asleep", side)' # {} => Awake(side)' >= n
<1>1. /\ Ring!At("asleep", side)' = Ring!At("asleep", side)
      /\ Ring!At("try", side)' = Ring!At("try", side)
  BY DEF Ring!At
<1> QED BY <1>1 DEF Enough, Awake

\* A side where t alone moves, and does not fall asleep: from "asleep" it wakes up, and
\* otherwise one thread fewer may be awake.
LEMMA SideMoves ==
  ASSUME NEW side \in {Producer, Consumer}, NEW t \in side, NEW n \in Int, Enough(side, n),
         \A u \in side \ {t} : place'[u] = place[u],
         place'[t] # "asleep"
  PROVE  Ring!At("asleep", side)' # {} =>
           /\ Awake(side)' >= n - 1
           /\ place[t] = "asleep" /\ place'[t] = "try" => Awake(side)' >= n
<1>1. /\ Ring!At("asleep", side)' \subseteq Ring!At("asleep", side)
  BY DEF Ring!At
<1>2. /\ Awake(side) \in Nat /\ Awake(side)' \in Nat
      /\ Awake(side)' >= Awake(side) - 1
      /\ place[t] = "asleep" /\ place'[t] = "try" => Awake(side)' = Awake(side) + 1
  <2>1. \A u \in side : u # t => (u \in Ring!At("try", side) <=> u \in Ring!At("try", side)')
    BY DEF Ring!At
  <2>2. Ring!At("try", side) \in SUBSET side /\ Ring!At("try", side)' \in SUBSET side
    BY DEF Ring!At
  <2>3. IsFiniteSet(side)
    BY SomeThreads
  <2>4. /\ Awake(side) \in Nat /\ Awake(side)' \in Nat
        /\ Awake(side)' = Awake(side)
             + (IF t \notin Ring!At("try", side) /\ t \in Ring!At("try", side)' THEN 1
                ELSE IF t \in Ring!At("try", side) /\ t \notin Ring!At("try", side)' THEN -1
                ELSE 0)
    BY <2>1, <2>2, <2>3, OneMoves DEF Awake
  <2> QED BY <2>4 DEF Ring!At
<1> QED BY <1>1, <1>2 DEF Enough

\* What notify_one does to the side: it wakes one thread that sleeps, if there is one.
Notified(side) ==
  \/ /\ Ring!At("asleep", side) = {}
     /\ \A u \in side : place'[u] = place[u]
  \/ \E t \in side : /\ place[t] = "asleep" /\ place'[t] = "try"
                     /\ \A u \in side \ {t} : place'[u] = place[u]

LEMMA SideNotified ==
  ASSUME NEW side \in {Producer, Consumer}, NEW n \in Int, Enough(side, n), Notified(side)
  PROVE  Ring!At("asleep", side)' # {} => Awake(side)' >= n + 1
<1>1. CASE Ring!At("asleep", side) = {} /\ \A u \in side : place'[u] = place[u]
  BY <1>1 DEF Ring!At, Enough
<1>2. ASSUME NEW t \in side, place[t] = "asleep", place'[t] = "try",
             \A u \in side \ {t} : place'[u] = place[u]
      PROVE  Ring!At("asleep", side)' # {} => Awake(side)' >= n + 1
  <2>1. Awake(side) >= n
    BY <1>2 DEF Enough, Ring!At
  <2>2. \A u \in side : u # t => (u \in Ring!At("try", side) <=> u \in Ring!At("try", side)')
    BY <1>2 DEF Ring!At
  <2>3. Ring!At("try", side) \in SUBSET side /\ Ring!At("try", side)' \in SUBSET side
    BY DEF Ring!At
  <2>4. IsFiniteSet(side)
    BY SomeThreads
  <2>5. t \notin Ring!At("try", side) /\ t \in Ring!At("try", side)'
    BY <1>2 DEF Ring!At
  <2>6. Awake(side) \in Nat /\ Awake(side)' = Awake(side) + 1
    BY <2>2, <2>3, <2>4, <2>5, OneMoves DEF Awake
  <2> QED BY <2>1, <2>6 DEF Enough
<1> QED BY <1>1, <1>2 DEF Notified

\* A call of t that ends wakes a thread of the other side.
LEMMA EndsAndNotifies ==
  ASSUME place \in [Ring!Thread -> {"try", "doze", "asleep", "ended"}],
         NEW side \in {Producer, Consumer}, NEW t \in Ring!Thread \ side,
         place' \in Ring!NotifiedOne(Ring!Ended(t), side)
  PROVE  /\ place' \in [Ring!Thread -> {"try", "doze", "asleep", "ended"}]
         /\ place'[t] = IF rounds[t] = 1 THEN "ended" ELSE "try"
         /\ \A u \in Ring!Thread \ side : u # t => place'[u] = place[u]
         /\ Notified(side)
<1> DEFINE E == Ring!Ended(t)
           Sleeping == {u \in side : E[u] = "asleep"}
<1>1. /\ E \in [Ring!Thread -> {"try", "doze", "asleep", "ended"}]
      /\ E[t] = IF rounds[t] = 1 THEN "ended" ELSE "try"
      /\ \A u \in Ring!Thread : u # t => E[u] = place[u]
  BY DEF Ring!Ended
<1>2. place' \in IF Sleeping = {} THEN {E} ELSE {[E EXCEPT ![u] = "try"] : u \in Sleeping}
  BY DEF Ring!NotifiedOne
<1>3. side \subseteq Ring!Thread
  BY RingConstants
<1> HIDE DEF E
<1>4. Sleeping = Ring!At("asleep", side)
  BY <1>1, <1>3 DEF Ring!At
<1>5. CASE Sleeping = {}
  <2>1. place' = E
    BY <1>2, <1>5
  <2> QED BY <1>1, <1>3, <1>4, <1>5, <2>1 DEF Notified
<1>6. CASE Sleeping # {}
  <2>1. PICK u \in Sleeping : place' = [E EXCEPT ![u] = "try"]
    BY <1>2, <1>6
  <2>2. u \in side /\ place[u] = "asleep" /\ u \in Ring!Thread /\ u # t
    BY <1>1, <1>3, <2>1
  <2>3. place'[u] = "try" /\ \A v \in Ring!Thread : v # u => place'[v] = E[v]
    BY <1>1, <2>1, <2>2
  <2>4. \A v \in side \ {u} : place'[v] = place[v]
    BY <1>1, <1>3, <2>3
  <2>5. Notified(side)
    BY <2>2, <2>3, <2>4 DEF Notified
  <2> QED BY <1>1, <1>3, <2>1, <2>2, <2>3, <2>5
<1> QED BY <1>5, <1>6

\* The rounds of a thread that ends a call.
LEMMA RoundEnds ==
  ASSUME RingInv, NEW t \in Ring!Thread, place[t] = "try",
         rounds' = [rounds EXCEPT ![t] = @ - 1],
         place'[t] = IF rounds[t] = 1 THEN "ended" ELSE "try",
         \A u \in Ring!Thread \ {t} : place'[u] # "ended" => place[u] # "ended",
         \A u \in Producer \ {t} : place'[u] # "doze"
  PROVE  RoundsLeft' /\ rounds' \in [Ring!Thread -> Nat]
<1> USE RingConstants
<1>1. rounds \in [Ring!Thread -> Nat] /\ rounds[t] >= 1
  BY DEF RingInv, Ring!TypeOK, RoundsLeft
<1>2. rounds'[t] = rounds[t] - 1 /\ \A u \in Ring!Thread : u # t => rounds'[u] = rounds[u]
  BY <1>1
<1>3. rounds' \in [Ring!Thread -> Nat]
  BY <1>1
<1>4. \A u \in Ring!Thread : place'[u] # "ended" => rounds'[u] >= 1
  <2> TAKE u \in Ring!Thread
  <2>1. CASE u = t
    BY <1>1, <1>2, <2>1
  <2>2. CASE u # t
    BY <1>2, <2>2 DEF RingInv, RoundsLeft
  <2> QED BY <2>1, <2>2
<1>5. \A q \in Producer : rounds'[q] <= Supply /\ place'[q] # "doze"
  <2> TAKE q \in Producer
  <2>1. rounds[q] <= Supply /\ rounds[q] \in Nat
    BY <1>1 DEF RingInv, RoundsLeft
  <2>2. rounds'[q] = rounds[q] \/ rounds'[q] = rounds[q] - 1
    BY <1>2
  <2> QED BY <2>1, <2>2
<1> QED BY <1>3, <1>4, <1>5 DEF RoundsLeft

\* A value is put into the next place.
LEMMA ProduceKeeps ==
  ASSUME RingInv, NEW p \in Producer, Ring!Produce(p)
  PROVE  RingInv'
<1> USE RingConstants
<1>0. Ring!TypeOK /\ RoundsLeft /\ DoneAtTheEnd
  BY DEF RingInv
<1>1. /\ place[p] = "try" /\ \A c \in Consumer : place[c] # "doze"
      /\ count < Capacity
      /\ buffer' = [buffer EXCEPT ![write_pos] = <<p, Supply - rounds[p] + 1>>]
      /\ write_pos' = Ring!Advance(write_pos) /\ count' = count + 1
      /\ rounds' = [rounds EXCEPT ![p] = @ - 1]
      /\ UNCHANGED <<read_pos, done, got, demand, main>>
  BY DEF Ring!Produce, Ring!MutexFree, Ring!EndCall
<1>2. /\ place' \in [Ring!Thread -> {"try", "doze", "asleep", "ended"}]
      /\ place'[p] = IF rounds[p] = 1 THEN "ended" ELSE "try"
      /\ \A u \in Producer \ {p} : place'[u] = place[u]
      /\ Notified(Consumer)
  <2>1. /\ place' \in Ring!NotifiedOne(Ring!Ended(p), Consumer)
        /\ p \in Ring!Thread \ Consumer
        /\ place \in [Ring!Thread -> {"try", "doze", "asleep", "ended"}]
    BY <1>0 DEF Ring!Produce, Ring!TypeOK
  <2> QED BY <2>1, EndsAndNotifies
<1>3. \A c \in Consumer : place'[c] \in {place[c], "try"} /\ place'[c] # "doze"
  BY <1>1, <1>2 DEF Notified
<1>4. rounds[p] \in 1..Supply /\ rounds \in [Ring!Thread -> Nat]
  BY <1>0, <1>1 DEF Ring!TypeOK, RoundsLeft
<1>5. /\ read_pos \in 0..(Capacity - 1) /\ write_pos \in 0..(Capacity - 1)
      /\ count \in 0..Capacity /\ PositionsAgree
  BY DEF RingInv, Ring!TypeOK
<1>6. write_pos' = Wrapped(write_pos + 1) /\ write_pos' \in 0..(Capacity - 1)
  <2>1. write_pos + 1 \in 0..(2 * Capacity - 1)
    BY <1>5
  <2> QED BY <1>1, <1>5, <2>1, WrappedIsRemainder DEF Ring!Advance, Wrapped
<1>7. RoundsLeft' /\ rounds' \in [Ring!Thread -> Nat]
  <2>1. \A u \in Ring!Thread \ {p} : place'[u] # "ended" => place[u] # "ended"
    BY <1>2 DEF Notified
  <2>2. \A u \in Producer \ {p} : place'[u] # "doze"
    BY <1>0, <1>2 DEF RoundsLeft
  <2> QED BY <1>1, <1>2, <2>1, <2>2, RoundEnds
<1>8. Ring!TypeOK'
  <2>1. <<p, Supply - rounds[p] + 1>> \in Ring!Value
    BY <1>4 DEF Ring!Value
  <2>2. buffer' \in [0..(Capacity - 1) -> Ring!Value \cup {Ring!Default}]
    BY <1>0, <1>1, <2>1 DEF Ring!TypeOK
  <2>3. count' \in 0..Capacity
    BY <1>1, <1>5
  <2> QED BY <1>0, <1>1, <1>2, <1>6, <1>7, <2>2, <2>3 DEF Ring!TypeOK
<1>9. PositionsAgree'
  BY <1>1, <1>5, <1>6 DEF PositionsAgree, Wrapped
<1>10. OneDozes'
  BY <1>3 DEF OneDozes
<1>11. DoneAtTheEnd'
  BY <1>0, <1>1 DEF DoneAtTheEnd, Ring!AllEnded
<1>12. EnoughAwake'
  <2>1. Enough(Consumer, count) /\ Enough(Producer, Capacity - count)
    BY DEF RingInv, EnoughAwake
  <2>2. Ring!At("asleep", Consumer)' # {} => Awake(Consumer)' >= count + 1
    BY <1>2, <1>5, <2>1, SideNotified
  <2>3. Ring!At("asleep", Producer)' # {} => Awake(Producer)' >= Capacity - count - 1
    BY <1>2, <1>5, <2>1, SideMoves
  <2>4. Capacity - count' = Capacity - count - 1
    BY <1>1, <1>5
  <2> QED BY <1>1, <2>2, <2>3, <2>4 DEF EnoughAwake, Enough
<1> QED BY <1>7, <1>8, <1>9, <1>10, <1>11, <1>12 DEF RingInv

\* The oldest item is taken.
LEMMA ConsumeKeeps ==
  ASSUME RingInv, NEW c \in Consumer, Ring!Consume(c)
  PROVE  RingInv'
<1> USE RingConstants
<1>0. Ring!TypeOK /\ RoundsLeft /\ DoneAtTheEnd
  BY DEF RingInv
<1>1. /\ place[c] = "try" /\ \A d \in Consumer : place[d] # "doze"
      /\ count > 0
      /\ got' = [got EXCEPT ![c] = buffer[read_pos]]
      /\ read_pos' = Ring!Advance(read_pos) /\ count' = count - 1
      /\ rounds' = [rounds EXCEPT ![c] = @ - 1]
      /\ UNCHANGED <<buffer, write_pos, done, demand, main>>
  BY DEF Ring!Consume, Ring!MutexFree, Ring!EndCall, Ring!Read
<1>2. /\ place' \in [Ring!Thread -> {"try", "doze", "asleep", "ended"}]
      /\ place'[c] = IF rounds[c] = 1 THEN "ended" ELSE "try"
      /\ \A d \in Consumer \ {c} : place'[d] = place[d]
      /\ Notified(Producer)
  <2>1. /\ place' \in Ring!NotifiedOne(Ring!Ended(c), Producer)
        /\ c \in Ring!Thread \ Producer
        /\ place \in [Ring!Thread -> {"try", "doze", "asleep", "ended"}]
    BY <1>0 DEF Ring!Consume, Ring!TypeOK
  <2> QED BY <2>1, EndsAndNotifies
<1>3. \A p \in Producer : \/ place'[p] = place[p]
                          \/ /\ place[p] = "asleep"
                             /\ place'[p] = "try"
  BY <1>2 DEF Notified
<1>4. /\ read_pos \in 0..(Capacity - 1) /\ write_pos \in 0..(Capacity - 1)
      /\ count \in 0..Capacity /\ PositionsAgree
  BY DEF RingInv, Ring!TypeOK
<1>5. read_pos' = Wrapped(read_pos + 1) /\ read_pos' \in 0..(Capacity - 1)
  <2>1. read_pos + 1 \in 0..(2 * Capacity - 1)
    BY <1>4
  <2> QED BY <1>1, <1>4, <2>1, WrappedIsRemainder DEF Ring!Advance, Wrapped
<1>6. RoundsLeft' /\ rounds' \in [Ring!Thread -> Nat]
  <2>1. \A u \in Ring!Thread \ {c} : place'[u] # "ended" => place[u] # "ended"
    BY <1>2, <1>3
  <2>2. \A u \in Producer \ {c} : place'[u] # "doze"
    BY <1>0, <1>3 DEF RoundsLeft
  <2> QED BY <1>1, <1>2, <2>1, <2>2, RoundEnds
<1>7. Ring!TypeOK'
  <2>1. got' \in [Consumer -> Ring!Value \cup {Ring!Default}] /\ count' \in 0..Capacity
    BY <1>0, <1>1, <1>4 DEF Ring!TypeOK
  <2> QED BY <1>0, <1>1, <1>2, <1>5, <1>6, <2>1 DEF Ring!TypeOK
<1>8. PositionsAgree'
  BY <1>1, <1>4, <1>5 DEF PositionsAgree, Wrapped
<1>9. OneDozes'
  BY <1>1, <1>2 DEF OneDozes
<1>10. DoneAtTheEnd'
  <2>1. done \/ main # "join" => \A p \in Producer : place[p] = "ended"
    BY <1>0 DEF DoneAtTheEnd, Ring!AllEnded
  <2>2. done \/ main # "join" => \A p \in Producer : place'[p] = "ended"
    BY <1>3, <2>1
  <2> QED BY <1>1, <2>2 DEF DoneAtTheEnd, Ring!AllEnded
<1>11. EnoughAwake'
  <2>1. Enough(Consumer, count) /\ Enough(Producer, Capacity - count)
    BY DEF RingInv, EnoughAwake
  <2>2. Ring!At("asleep", Producer)' # {} => Awake(Producer)' >= Capacity - count + 1
    BY <1>2, <1>4, <2>1, SideNotified
  <2>3. Ring!At("asleep", Consumer)' # {} => Awake(Consumer)' >= count - 1
    BY <1>2, <1>4, <2>1, SideMoves
  <2>4. Capacity - count' = Capacity - count + 1
    BY <1>1, <1>4
  <2> QED BY <1>1, <2>2, <2>3, <2>4 DEF EnoughAwake, Enough
<1> QED BY <1>6, <1>7, <1>8, <1>9, <1>10, <1>11 DEF RingInv

\* A consumer gets nothing when nothing is left to come.
LEMMA ConsumeDefaultKeeps ==
  ASSUME RingInv, NEW c \in Consumer, Ring!ConsumeDefault(c)
  PROVE  RingInv'
<1> USE RingConstants
<1>0. Ring!TypeOK /\ RoundsLeft /\ DoneAtTheEnd
  BY DEF RingInv
<1>1. /\ place[c] = "try" /\ \A d \in Consumer : place[d] # "doze"
      /\ count = 0
      /\ got' = [got EXCEPT ![c] = Ring!Default]
      /\ place' = Ring!Ended(c)
      /\ rounds' = [rounds EXCEPT ![c] = @ - 1]
      /\ UNCHANGED <<buffer, write_pos, read_pos, count, done, demand, main>>
  BY DEF Ring!ConsumeDefault, Ring!MutexFree, Ring!EndCall, Ring!ring
<1>2. /\ place' \in [Ring!Thread -> {"try", "doze", "asleep", "ended"}]
      /\ place'[c] = IF rounds[c] = 1 THEN "ended" ELSE "try"
      /\ \A t \in Ring!Thread \ {c} : place'[t] = place[t]
  BY <1>0, <1>1 DEF Ring!TypeOK, Ring!Ended
<1>3. RoundsLeft' /\ rounds' \in [Ring!Thread -> Nat]
  <2>1. \A u \in Ring!Thread \ {c} : place'[u] # "ended" => place[u] # "ended"
    BY <1>2
  <2>2. \A u \in Producer \ {c} : place'[u] # "doze"
    BY <1>0, <1>2 DEF RoundsLeft
  <2> QED BY <1>1, <1>2, <2>1, <2>2, RoundEnds
<1>4. Ring!TypeOK'
  BY <1>0, <1>1, <1>2, <1>3 DEF Ring!TypeOK
<1>5. PositionsAgree' /\ OneDozes' /\ DoneAtTheEnd'
  BY <1>1, <1>2 DEF RingInv, PositionsAgree, Wrapped, OneDozes, DoneAtTheEnd, Ring!AllEnded
<1>6. EnoughAwake'
  <2>1. Enough(Consumer, count) /\ Enough(Producer, Capacity - count)
    BY DEF RingInv, EnoughAwake
  <2>2. Ring!At("asleep", Producer)' # {} => Awake(Producer)' >= Capacity - count
    BY <1>2, <2>1, SideStays
  <2>3. Awake(Consumer)' \in Nat
    <3>1. Ring!At("try", Consumer)' \in SUBSET Consumer
      BY DEF Ring!At
    <3> QED BY <3>1, FS_Subset, FS_CardinalityType DEF Awake
  <2> QED BY <1>1, <2>2, <2>3 DEF EnoughAwake, Enough
<1> QED BY <1>3, <1>4, <1>5, <1>6 DEF RingInv

\* A thread falls asleep beside a ring that is full or empty for it, or wakes up.
LEMMA RingWaitKeeps ==
  ASSUME RingInv, NEW t \in Ring!Thread,
         \/ t \in Producer /\ Ring!SleepToProduce(t)
         \/ t \in Consumer /\ (Ring!Doze(t) \/ Ring!FallAsleep(t))
         \/ Ring!SpuriousWake(t)
  PROVE  RingInv'
<1> USE RingConstants
<1>0. Ring!TypeOK /\ RoundsLeft /\ DoneAtTheEnd /\ OneDozes
  BY DEF RingInv
<1>1. /\ UNCHANGED <<buffer, write_pos, read_pos, count, done, rounds, demand, got, main>>
      /\ place[t] # "ended"
  BY DEF Ring!SleepToProduce, Ring!Doze, Ring!FallAsleep, Ring!SpuriousWake, Ring!ring
<1>2. PICK l \in {"asleep", "doze", "try"} : place' = [place EXCEPT ![t] = l]
  BY DEF Ring!SleepToProduce, Ring!Doze, Ring!FallAsleep, Ring!SpuriousWake
<1>3. /\ place' \in [Ring!Thread -> {"try", "doze", "asleep", "ended"}]
      /\ place'[t] = l
      /\ \A u \in Ring!Thread : u # t => place'[u] = place[u]
  BY <1>0, <1>2 DEF Ring!TypeOK
<1>4. /\ l = "doze" => /\ t \in Consumer /\ count = 0
                       /\ \A c \in Consumer : place[c] # "doze"
      /\ l = "asleep" => \/ t \in Producer /\ count = Capacity
                         \/ t \in Consumer /\ place[t] = "doze" /\ count = 0
      /\ l = "try" => place[t] = "asleep"
  <2> USE <1>0, <1>3 DEF Ring!TypeOK
  <2>1. CASE t \in Producer /\ Ring!SleepToProduce(t)
    BY <2>1 DEF Ring!SleepToProduce
  <2>2. CASE t \in Consumer /\ Ring!Doze(t)
    BY <2>2 DEF Ring!Doze, Ring!MutexFree
  <2>3. CASE t \in Consumer /\ Ring!FallAsleep(t)
    BY <2>3 DEF Ring!FallAsleep, OneDozes
  <2>4. CASE Ring!SpuriousWake(t)
    BY <2>4 DEF Ring!SpuriousWake
  <2> QED BY <2>1, <2>2, <2>3, <2>4
<1>5. Ring!TypeOK'
  BY <1>0, <1>1, <1>3 DEF Ring!TypeOK
<1>6. PositionsAgree'
  BY <1>1 DEF RingInv, PositionsAgree, Wrapped
<1>7. RoundsLeft'
  BY <1>0, <1>1, <1>3, <1>4 DEF RoundsLeft
<1>8. OneDozes'
  BY <1>0, <1>1, <1>3, <1>4 DEF OneDozes
<1>9. DoneAtTheEnd'
  BY <1>0, <1>1, <1>3 DEF DoneAtTheEnd, Ring!AllEnded
<1>10. EnoughAwake'
  <2>1. /\ Enough(Consumer, count) /\ Enough(Producer, Capacity - count)
        /\ count \in Nat
    BY DEF RingInv, EnoughAwake, Ring!TypeOK
  <2>2. ASSUME NEW side \in {Producer, Consumer}, NEW n \in Int, Enough(side, n),
               t \in side => n = 0 \/ l = "try"
        PROVE  Ring!At("asleep", side)' # {} => Awake(side)' >= n
    <3>1. CASE t \notin side
      <4>1. \A u \in side : place'[u] = place[u]
        BY <1>3, <3>1
      <4> QED BY <2>2, <4>1, SideStays
    <3>2. CASE t \in side /\ l = "try"
      <4>1. \A u \in side \ {t} : place'[u] = place[u]
        BY <1>3, <3>2
      <4> QED BY <1>3, <1>4, <2>2, <3>2, <4>1, SideMoves
    <3>3. CASE t \in side /\ n = 0
      <4>1. Ring!At("try", side)' \in SUBSET side
        BY DEF Ring!At
      <4>2. Awake(side)' \in Nat
        BY <4>1, FS_Subset, FS_CardinalityType DEF Awake
      <4> QED BY <3>3, <4>2
    <3> QED BY <2>2, <3>1, <3>2, <3>3
  <2>3. Ring!At("asleep", Consumer)' # {} => Awake(Consumer)' >= count
    BY <1>4, <2>1, <2>2
  <2>4. Ring!At("asleep", Producer)' # {} => Awake(Producer)' >= Capacity - count
    BY <1>4, <2>1, <2>2
  <2> QED BY <1>1, <2>3, <2>4 DEF EnoughAwake, Enough
<1> QED BY <1>5, <1>6, <1>7, <1>8, <1>9, <1>10 DEF RingInv

\* The steps of main: when it wakes the consumers, none sleeps any more.
LEMMA RingMainKeeps ==
  ASSUME RingInv, Ring!MainStep
  PROVE  RingInv'
<1> USE RingConstants
<1>0. Ring!TypeOK /\ RoundsLeft /\ DoneAtTheEnd /\ OneDozes
  BY DEF RingInv
<1>1. CASE Ring!NotifyAll
  <2>1. /\ place' = [t \in Ring!Thread |-> IF t \in Consumer /\ place[t] = "asleep"
                                           THEN "try" ELSE place[t]]
        /\ main = "notify" /\ main' = "joinConsumers"
        /\ UNCHANGED <<buffer, write_pos, read_pos, count, done, rounds, demand, got>>
    BY <1>1 DEF Ring!NotifyAll, Ring!ring
  <2>2. Ring!TypeOK'
    BY <1>0, <2>1 DEF Ring!TypeOK
  <2>3. PositionsAgree' /\ RoundsLeft' /\ OneDozes'
    BY <1>0, <2>1 DEF RingInv, PositionsAgree, Wrapped, RoundsLeft, OneDozes
  <2>4. \A p \in Producer : place'[p] = place[p]
    BY <2>1
  <2>5. DoneAtTheEnd'
    BY <1>0, <2>1, <2>4 DEF DoneAtTheEnd, Ring!AllEnded
  <2>6. EnoughAwake'
    <3>1. Ring!At("asleep", Consumer)' = {}
      BY <2>1 DEF Ring!At
    <3>2. Enough(Producer, Capacity - count)
      BY DEF RingInv, EnoughAwake
    <3>3. Ring!At("asleep", Producer)' # {} => Awake(Producer)' >= Capacity - count
      BY <2>4, <3>2, SideStays
    <3> QED BY <2>1, <3>1, <3>3 DEF EnoughAwake, Enough
  <2> QED BY <2>2, <2>3, <2>5, <2>6 DEF RingInv
<1>2. CASE Ring!SetDone \/ Ring!Return
  <2>1. /\ UNCHANGED <<buffer, write_pos, read_pos, count, place, rounds, demand, got>>
        /\ main = "join" => Ring!AllEnded(Producer)
        /\ done' \in BOOLEAN /\ main' \in {"notify", "returned"}
        /\ main = "join" \/ main = "joinConsumers"
    BY <1>0, <1>2 DEF Ring!SetDone, Ring!Return, Ring!ring, Ring!TypeOK
  <2>2. Ring!TypeOK'
    BY <1>0, <2>1 DEF Ring!TypeOK
  <2>3. PositionsAgree' /\ RoundsLeft' /\ OneDozes' /\ DoneAtTheEnd'
    BY <1>0, <2>1 DEF RingInv, PositionsAgree, Wrapped, RoundsLeft, OneDozes, DoneAtTheEnd,
                      Ring!AllEnded
  <2>4. EnoughAwake'
    BY <2>1 DEF RingInv, EnoughAwake, Enough, Awake, Ring!At
  <2> QED BY <2>2, <2>3, <2>4 DEF RingInv
<1> QED BY <1>1, <1>2 DEF Ring!MainStep

LEMMA RingNext == RingInv /\ Ring!Next => RingInv'
<1> SUFFICES ASSUME RingInv, Ring!Next PROVE RingInv'
  OBVIOUS
<1>1. CASE Ring!MainStep
  BY <1>1, RingMainKeeps
<1>2. ASSUME NEW p \in Producer, Ring!Producing(p)
      PROVE  RingInv'
  BY <1>2, RingConstants, ProduceKeeps, RingWaitKeeps DEF Ring!Producing
<1>3. ASSUME NEW c \in Consumer, Ring!Consuming(c)
      PROVE  RingInv'
  BY <1>3, RingConstants, ConsumeKeeps, ConsumeDefaultKeeps, RingWaitKeeps DEF Ring!Consuming
<1>4. ASSUME NEW t \in Ring!Thread, Ring!SpuriousWake(t)
      PROVE  RingInv'
  BY <1>4, RingWaitKeeps
<1> QED BY <1>1, <1>2, <1>3, <1>4 DEF Ring!Next

LEMMA RingStands == RingInv /\ UNCHANGED ringVars => RingInv'
  BY DEF RingInv, Ring!TypeOK, PositionsAgree, Wrapped, RoundsLeft, OneDozes, DoneAtTheEnd,
         EnoughAwake, Enough, Awake, Ring!At, Ring!AllEnded, ringVars

LEMMA RingInvariant == Spec => [](program = "RingBuffer" => RingInv)
<1>1. Init => (program = "RingBuffer" => RingInv)
  BY RingInit DEF Init
<1>2. (program = "RingBuffer" => RingInv) /\ [Next]_vars
        => (program = "RingBuffer" => RingInv)'
  BY RingNext, RingStands DEF Next, vars
<1> QED BY <1>1, <1>2, PTL DEF Spec

\* The ring of Seminar4 task3, for any number of producers and consumers and any size:
\* the positions and the count agree, one consumer at most is between its test and its
\* sleep, and nobody sleeps while nobody else sees to the item or place there is.
THEOREM RingAgrees == Spec => []RingConsistent
<1>1. (program = "RingBuffer" => RingInv) => RingConsistent
  BY RingImplies DEF RingConsistent
<1> QED BY <1>1, RingInvariant, PTL

\* The item that is i-th from the front, and the front itself.
ItemsInPlace ==
  /\ read_pos \in 0..(Capacity - 1) /\ count \in 0..Capacity
  /\ buffer \in [0..(Capacity - 1) -> Ring!Value \cup {Ring!Default}]
  /\ Ring!Items = [i \in 1..count |-> buffer[Wrapped(read_pos + i - 1)]]
  /\ Ring!Items \in Seq(Ring!Value \cup {Ring!Default}) /\ Len(Ring!Items) = count
  /\ count > 0 => Ring!Items[1] = buffer[read_pos]

LEMMA ItemsByPlace == RingInv => ItemsInPlace
<1> SUFFICES ASSUME RingInv PROVE ItemsInPlace
  OBVIOUS
<1>1. /\ read_pos \in 0..(Capacity - 1) /\ count \in 0..Capacity
      /\ buffer \in [0..(Capacity - 1) -> Ring!Value \cup {Ring!Default}]
      /\ Capacity \in Nat \ {0}
  BY RingConstants DEF RingInv, Ring!TypeOK
<1>2. ASSUME NEW i \in 1..count
      PROVE  /\ (read_pos + i - 1) % Capacity = Wrapped(read_pos + i - 1)
             /\ Wrapped(read_pos + i - 1) \in 0..(Capacity - 1)
  <2>1. read_pos + i - 1 \in 0..(2 * Capacity - 1)
    BY <1>1
  <2>2. (read_pos + i - 1) % Capacity = Wrapped(read_pos + i - 1)
    BY <2>1, WrappedIsRemainder
  <2>3. Wrapped(read_pos + i - 1) \in 0..(Capacity - 1)
    BY <1>1, <2>1 DEF Wrapped
  <2> QED BY <2>2, <2>3
<1>3. Ring!Items = [i \in 1..count |-> buffer[Wrapped(read_pos + i - 1)]]
  BY <1>2 DEF Ring!Items
<1>4. \A i \in 1..count : buffer[Wrapped(read_pos + i - 1)] \in Ring!Value \cup {Ring!Default}
  BY <1>1, <1>2
<1>5. Ring!Items \in Seq(Ring!Value \cup {Ring!Default}) /\ Len(Ring!Items) = count
  BY <1>1, <1>3, <1>4
<1>6. Wrapped(read_pos + 1 - 1) = read_pos
  BY <1>1 DEF Wrapped
<1> QED BY <1>1, <1>3, <1>5, <1>6 DEF ItemsInPlace

LEMMA ItemsByPlaceThen == RingInv' => ItemsInPlace'
  BY ItemsByPlace, PTL

\* A call that ends takes the oldest item, or nothing when the producers have ended.
THEOREM OldestIsReturned == Spec => ReturnsTheOldest
<1> DEFINE Oldest == \A c \in Consumer : rounds'[c] < rounds[c] =>
                       IF count > 0 THEN got'[c] = Ring!Items[1]
                       ELSE got'[c] = Ring!Default /\ Ring!AllEnded(Producer)
<1>1. ASSUME RingInv, Ring!Next PROVE Oldest
  <2> SUFFICES ASSUME NEW c \in Consumer, rounds'[c] < rounds[c]
               PROVE  IF count > 0 THEN got'[c] = Ring!Items[1]
                      ELSE got'[c] = Ring!Default /\ Ring!AllEnded(Producer)
    OBVIOUS
  <2>1. /\ rounds \in [Ring!Thread -> Nat] /\ c \in Ring!Thread /\ c \notin Producer
        /\ got \in [Consumer -> Ring!Value \cup {Ring!Default}]
    BY <1>1, RingConstants DEF RingInv, Ring!TypeOK
  <2>2. ~UNCHANGED rounds
    BY <2>1
  <2>3. ASSUME NEW p \in Producer PROVE ~Ring!Producing(p)
    BY <2>1, <2>2, <2>3 DEF Ring!Producing, Ring!Produce, Ring!SleepToProduce, Ring!EndCall
  <2>4. PICK d \in Consumer : Ring!ConsumeDefault(d) \/ Ring!Consume(d)
    BY <1>1, <2>2, <2>3 DEF Ring!Next, Ring!MainStep, Ring!SetDone, Ring!NotifyAll, Ring!Return,
                            Ring!Consuming, Ring!Doze, Ring!FallAsleep, Ring!SpuriousWake
  <2>5. c = d
    BY <2>1, <2>4 DEF Ring!ConsumeDefault, Ring!Consume, Ring!EndCall
  <2>6. CASE Ring!Consume(c)
    BY <1>1, <2>1, <2>6, ItemsByPlace DEF Ring!Consume, Ring!Read, ItemsInPlace
  <2>7. CASE Ring!ConsumeDefault(c)
    BY <1>1, <2>1, <2>7 DEF Ring!ConsumeDefault, RingInv, DoneAtTheEnd
  <2> QED BY <2>4, <2>5, <2>6, <2>7
<1>2. (program = "RingBuffer" => RingInv) /\ [Next]_vars => [Oldest]_ringVars
  <2> SUFFICES ASSUME program = "RingBuffer" => RingInv, [Next]_vars
               PROVE  Oldest \/ UNCHANGED ringVars
    OBVIOUS
  <2>1. CASE program = "RingBuffer" /\ Ring!Next
    BY <1>1, <2>1
  <2>2. CASE ~(program = "RingBuffer" /\ Ring!Next)
    BY <2>2 DEF Next, vars
  <2> QED BY <2>1, <2>2
<1>3. ReturnsTheOldest <=> [][Oldest]_ringVars
  BY DEF ReturnsTheOldest, Ring!ReturnsTheOldest, ringVars, Ring!ringVars
<1> HIDE DEF Oldest
<1> QED BY <1>2, <1>3, RingInvariant, PTL DEF Spec

\* A value that is produced comes after all that are there.
LEMMA ProduceAppends ==
  ASSUME RingInv, RingInv', NEW p \in Producer, Ring!Produce(p)
  PROVE  Ring!FIFO!Next
<1> USE RingConstants
<1> DEFINE v == <<p, Supply - rounds[p] + 1>>
<1>1. ItemsInPlace /\ ItemsInPlace'
  BY ItemsByPlace, ItemsByPlaceThen
<1>2. /\ count < Capacity /\ buffer' = [buffer EXCEPT ![write_pos] = v]
      /\ count' = count + 1 /\ read_pos' = read_pos
  BY DEF Ring!Produce
<1>3. write_pos = Wrapped(read_pos + count) /\ v \in Ring!Value
  <2>1. rounds[p] \in 1..Supply
    BY DEF RingInv, Ring!TypeOK, RoundsLeft, Ring!Produce
  <2> QED BY <2>1 DEF RingInv, PositionsAgree, Ring!Value
<1> HIDE DEF v
<1>4. write_pos \in 0..(Capacity - 1)
  BY <1>1, <1>2, <1>3 DEF ItemsInPlace, Wrapped
<1>5. ASSUME NEW i \in 1..(count + 1)
      PROVE  Ring!Items'[i] = Append(Ring!Items, v)[i]
  <2> DEFINE k == Wrapped(read_pos + i - 1)
  <2>1. Ring!Items'[i] = buffer'[k]
    BY <1>1, <1>2 DEF ItemsInPlace, Wrapped
  <2>2. k \in 0..(Capacity - 1) /\ (i <= count => k # write_pos) /\ (i = count + 1 => k = write_pos)
    BY <1>1, <1>2, <1>3 DEF ItemsInPlace, Wrapped
  <2>3. i <= count => Ring!Items[i] = buffer[k]
    BY <1>1 DEF ItemsInPlace
  <2> HIDE DEF k
  <2>4. CASE i <= count
    <3>1. buffer'[k] = buffer[k]
      BY <1>1, <1>2, <1>4, <2>2, <2>4 DEF ItemsInPlace
    <3>2. Append(Ring!Items, v)[i] = Ring!Items[i]
      BY <1>1, <2>4 DEF ItemsInPlace
    <3> QED BY <2>1, <2>3, <2>4, <3>1, <3>2
  <2>5. CASE i = count + 1
    <3>1. buffer'[k] = v
      BY <1>1, <1>2, <1>4, <2>2, <2>5 DEF ItemsInPlace
    <3>2. Append(Ring!Items, v)[i] = v
      BY <1>1, <2>5 DEF ItemsInPlace
    <3> QED BY <2>1, <3>1, <3>2
  <2> QED BY <1>1, <2>4, <2>5 DEF ItemsInPlace
<1>6. Ring!Items' = Append(Ring!Items, v)
  <2>1. /\ Append(Ring!Items, v) \in Seq(Ring!Value \cup {Ring!Default})
        /\ Len(Append(Ring!Items, v)) = count + 1
    BY <1>1, <1>3 DEF ItemsInPlace
  <2>2. Ring!Items' \in Seq(Ring!Value \cup {Ring!Default}) /\ Len(Ring!Items') = count + 1
    BY <1>1, <1>2 DEF ItemsInPlace
  <2> QED BY <1>5, <2>1, <2>2, SeqEqual
<1>7. Ring!FIFO!Put(0, v)
  BY <1>1, <1>2, <1>6 DEF Ring!FIFO!Put, ItemsInPlace
<1> QED BY <1>3, <1>7 DEF Ring!FIFO!Next

\* A value that is consumed was the first.
LEMMA ConsumeTakesTheFirst ==
  ASSUME RingInv, RingInv', NEW c \in Consumer, Ring!Consume(c)
  PROVE  Ring!FIFO!Next
<1> USE RingConstants
<1>1. ItemsInPlace /\ ItemsInPlace'
  BY ItemsByPlace, ItemsByPlaceThen
<1>2. count > 0 /\ count' = count - 1 /\ buffer' = buffer /\ read_pos' = Wrapped(read_pos + 1)
  <2>1. read_pos + 1 \in 0..(2 * Capacity - 1)
    BY <1>1 DEF ItemsInPlace
  <2> QED BY <2>1, WrappedIsRemainder DEF Ring!Consume, Ring!Advance
<1>3. ASSUME NEW i \in 1..(count - 1)
      PROVE  Ring!Items'[i] = Tail(Ring!Items)[i]
  <2>1. Ring!Items'[i] = buffer[Wrapped(read_pos' + i - 1)]
    BY <1>1, <1>2 DEF ItemsInPlace, Wrapped
  <2>2. Wrapped(read_pos' + i - 1) = Wrapped(read_pos + (i + 1) - 1)
    BY <1>1, <1>2 DEF ItemsInPlace, Wrapped
  <2>3. Ring!Items[i + 1] = buffer[Wrapped(read_pos + (i + 1) - 1)]
    BY <1>1 DEF ItemsInPlace
  <2>4. Tail(Ring!Items)[i] = Ring!Items[i + 1]
    BY <1>1 DEF ItemsInPlace
  <2> QED BY <2>1, <2>2, <2>3, <2>4
<1>4. Ring!Items # <<>>
  BY <1>1, <1>2 DEF ItemsInPlace
<1>5. Ring!Items' = Tail(Ring!Items)
  <2>1. /\ Tail(Ring!Items) \in Seq(Ring!Value \cup {Ring!Default})
        /\ Len(Tail(Ring!Items)) = count - 1
    BY <1>1, <1>4, HeadTailProperties DEF ItemsInPlace
  <2>2. Ring!Items' \in Seq(Ring!Value \cup {Ring!Default}) /\ Len(Ring!Items') = count - 1
    BY <1>1, <1>2 DEF ItemsInPlace
  <2> QED BY <1>3, <2>1, <2>2, SeqEqual
<1>6. Ring!FIFO!Get(0)
  BY <1>4, <1>5 DEF Ring!FIFO!Get
<1> QED BY <1>6 DEF Ring!FIFO!Next

\* Every step of the ring is a step of a channel or leaves the items alone.
LEMMA ChannelStep == RingInv /\ Ring!Next => Ring!FIFO!Next \/ UNCHANGED Ring!Items
<1> SUFFICES ASSUME RingInv, Ring!Next
             PROVE  Ring!FIFO!Next \/ UNCHANGED Ring!Items
  OBVIOUS
<1>1. RingInv'
  BY RingNext
<1>2. ASSUME NEW p \in Producer, Ring!Produce(p)
      PROVE  Ring!FIFO!Next
  BY <1>1, <1>2, ProduceAppends
<1>3. ASSUME NEW c \in Consumer, Ring!Consume(c)
      PROVE  Ring!FIFO!Next
  BY <1>1, <1>3, ConsumeTakesTheFirst
<1>4. \/ \E p \in Producer : Ring!Produce(p)
      \/ \E c \in Consumer : Ring!Consume(c)
      \/ UNCHANGED <<buffer, read_pos, count>>
  BY DEF Ring!Next, Ring!MainStep, Ring!SetDone, Ring!NotifyAll, Ring!Return, Ring!Producing,
         Ring!SleepToProduce, Ring!Consuming, Ring!Doze, Ring!FallAsleep, Ring!ConsumeDefault,
         Ring!SpuriousWake, Ring!ring
<1>5. UNCHANGED <<buffer, read_pos, count>> => UNCHANGED Ring!Items
  BY DEF Ring!Items
<1> QED BY <1>2, <1>3, <1>4, <1>5

\* The ring is a bounded first-in first-out channel: what is overwritten has been read,
\* and values are read in the order they were written in.
THEOREM RingImplementsChannel == Spec => RingIsChannel
<1>1. Init => Ring!FIFO!Init
  <2> SUFFICES ASSUME Init PROVE Ring!FIFO!Init
    OBVIOUS
  <2>1. count = 0
    BY DEF Init, Off, RingOff, Ring!Init
  <2>2. Ring!Items = <<>>
    BY <2>1 DEF Ring!Items
  <2> QED BY <2>2 DEF Ring!FIFO!Init
<1>2. (program = "RingBuffer" => RingInv) /\ [Next]_vars
        => [Ring!FIFO!Next]_([b \in {0} |-> Ring!Items])
  <2> SUFFICES ASSUME program = "RingBuffer" => RingInv, [Next]_vars
               PROVE  Ring!FIFO!Next \/ UNCHANGED [b \in {0} |-> Ring!Items]
    OBVIOUS
  <2>1. CASE program = "RingBuffer" /\ Ring!Next
    BY <2>1, ChannelStep
  <2>2. CASE ~(program = "RingBuffer" /\ Ring!Next)
    BY <2>2 DEF Next, vars, ringVars, Ring!Items
  <2> QED BY <2>1, <2>2
<1> QED BY <1>1, <1>2, RingInvariant, PTL DEF Spec, RingIsChannel, Ring!RingIsChannel, Ring!FIFO!Spec

(***************************************************************************)
(* Cache.  What is in the map was set.                                       *)
(***************************************************************************)
CacheTyped == /\ setCount \in [Caching!Setter -> Nat]
              /\ \A s \in Caching!Setter : setCount[s] <= Len(Sets[s])
              /\ getter \in [Caching!Getter -> {"test", "asleep", "ended", "off"}]
              /\ DOMAIN value = Caching!Getter

EntriesWereSet == \A e \in data : \E s \in Caching!Setter : \E n \in 1..setCount[s] : e = Sets[s][n]

CacheInv == CacheTyped /\ EntriesWereSet /\ Caching!CacheConsistent

LEMMA CacheConstants ==
  \A s \in Caching!Setter : /\ Len(Sets[s]) \in Nat
                            /\ \A n \in 1..Len(Sets[s]) : Sets[s][n] = <<Sets[s][n][1], Sets[s][n][2]>>
<1>1. Caching!CacheAssumption
  BY ExercisesAssumption, Zenon
<1> QED BY <1>1 DEF Caching!CacheAssumption

LEMMA CacheInit == Caching!Init => CacheInv
<1> SUFFICES ASSUME Caching!Init PROVE CacheInv
  OBVIOUS
<1>1. /\ data = {} /\ setCount = [s \in Caching!Setter |-> 0]
      /\ getter = [g \in Caching!Getter |-> "test"]
      /\ value = [g \in Caching!Getter |-> 0]
  BY DEF Caching!Init
<1>2. CacheTyped
  BY <1>1, CacheConstants DEF CacheTyped
<1>3. EntriesWereSet /\ Caching!CacheConsistent
  BY <1>1 DEF EntriesWereSet, Caching!CacheConsistent
<1> QED BY <1>2, <1>3 DEF CacheInv

\* A set: its key has one entry, and if the key is new nobody sleeps.
LEMMA SetKeeps ==
  ASSUME CacheInv, NEW s \in Caching!Setter, Caching!Set(s)
  PROVE  CacheInv'
<1> DEFINE entry == Sets[s][setCount[s] + 1]
<1>0. CacheTyped /\ EntriesWereSet /\ Caching!CacheConsistent
  BY DEF CacheInv
<1>1. /\ setCount[s] < Len(Sets[s]) /\ setCount' = [setCount EXCEPT ![s] = @ + 1]
      /\ data' = {e \in data : e[1] # entry[1]} \cup {entry}
      /\ getter' = IF Caching!Has(entry[1]) THEN getter
                   ELSE [g \in Caching!Getter |-> IF getter[g] = "asleep" THEN "test" ELSE getter[g]]
      /\ value' = value
  BY DEF Caching!Set, Caching!Put, Caching!AllWoken
<1>2. /\ setCount' \in [Caching!Setter -> Nat] /\ setCount[s] \in Nat /\ setCount'[s] = setCount[s] + 1
      /\ \A r \in Caching!Setter : setCount'[r] >= setCount[r] /\ setCount[r] \in Nat
      /\ \A r \in Caching!Setter : setCount'[r] <= Len(Sets[r])
  BY <1>0, <1>1, CacheConstants DEF CacheTyped
<1>3. CacheTyped'
  BY <1>0, <1>1, <1>2 DEF CacheTyped
<1> HIDE DEF entry
<1>4. EntriesWereSet'
  <2> SUFFICES ASSUME NEW e \in data'
               PROVE  \E r \in Caching!Setter : \E n \in 1..setCount'[r] : e = Sets[r][n]
    BY DEF EntriesWereSet
  <2>1. CASE e = entry
    BY <1>2, <2>1 DEF entry
  <2>2. CASE e \in data
    <3>0. PICK r \in Caching!Setter : \E n \in 1..setCount[r] : e = Sets[r][n]
      BY <1>0, <2>2 DEF EntriesWereSet
    <3>1. PICK n \in 1..setCount[r] : e = Sets[r][n]
      BY <3>0
    <3>2. n \in 1..setCount'[r]
      BY <1>2, <3>1
    <3> QED BY <3>1, <3>2
  <2> QED BY <1>1, <2>1, <2>2
<1>5. \A d, e \in data' : d[1] = e[1] => d = e
  BY <1>0, <1>1 DEF Caching!CacheConsistent
<1>6. ASSUME NEW g \in Caching!Getter, getter'[g] = "asleep"
      PROVE  ~\E e \in data' : e[1] = Gets[g]
  <2>1. getter[g] = "asleep" /\ Caching!Has(entry[1])
    BY <1>0, <1>1, <1>6 DEF CacheTyped
  <2>2. ~Caching!Has(Gets[g])
    BY <1>0, <2>1 DEF Caching!CacheConsistent
  <2> QED BY <1>1, <2>1, <2>2 DEF Caching!Has
<1>7. ASSUME NEW g \in Caching!Getter, getter'[g] = "ended"
      PROVE  \E r \in Caching!Setter : \E n \in 1..setCount'[r] : Sets[r][n] = <<Gets[g], value'[g]>>
  <2>1. getter[g] = "ended"
    BY <1>0, <1>1, <1>7 DEF CacheTyped
  <2>0. PICK r \in Caching!Setter : \E n \in 1..setCount[r] : Sets[r][n] = <<Gets[g], value[g]>>
    BY <1>0, <2>1 DEF Caching!CacheConsistent
  <2>2. PICK n \in 1..setCount[r] : Sets[r][n] = <<Gets[g], value[g]>>
    BY <2>0
  <2>3. n \in 1..setCount'[r]
    BY <1>2, <2>2
  <2> QED BY <1>1, <2>2, <2>3
<1>8. Caching!CacheConsistent'
  BY <1>5, <1>6, <1>7 DEF Caching!CacheConsistent, Caching!Has
<1> QED BY <1>3, <1>4, <1>8 DEF CacheInv

\* A getter that sleeps, wakes up or gets its value.
LEMMA GetterKeeps ==
  ASSUME CacheInv, NEW g \in Caching!Getter,
         Caching!Sleep(g) \/ Caching!SpuriousWake(g) \/ Caching!Get(g)
  PROVE  CacheInv'
<1>0. CacheTyped /\ EntriesWereSet /\ Caching!CacheConsistent
  BY DEF CacheInv
<1>1. data' = data /\ setCount' = setCount
  BY DEF Caching!Sleep, Caching!SpuriousWake, Caching!Get
<1>2. EntriesWereSet'
  BY <1>0, <1>1 DEF EntriesWereSet
<1>3. CASE Caching!Sleep(g) \/ Caching!SpuriousWake(g)
  <2>1. PICK l \in {"asleep", "test"} : getter' = [getter EXCEPT ![g] = l]
    BY <1>3 DEF Caching!Sleep, Caching!SpuriousWake
  <2>2. value' = value /\ (l = "asleep" => ~Caching!Has(Gets[g]))
    BY <1>0, <1>3, <2>1 DEF Caching!Sleep, Caching!SpuriousWake, CacheTyped
  <2>3. CacheTyped'
    BY <1>0, <1>1, <2>1, <2>2 DEF CacheTyped
  <2>4. Caching!CacheConsistent'
    BY <1>0, <1>1, <2>1, <2>2 DEF Caching!CacheConsistent, CacheTyped, Caching!Has
  <2> QED BY <1>2, <2>3, <2>4 DEF CacheInv
<1>4. CASE Caching!Get(g)
  <2>1. /\ getter' = [getter EXCEPT ![g] = "ended"]
        /\ value' = [value EXCEPT ![g] = Caching!Lookup(Gets[g])]
        /\ Caching!Has(Gets[g])
    BY <1>4 DEF Caching!Get
  <2>2. CacheTyped'
    BY <1>0, <1>1, <2>1 DEF CacheTyped
  <2>3. \E r \in Caching!Setter : \E n \in 1..setCount[r] :
          Sets[r][n] = <<Gets[g], Caching!Lookup(Gets[g])>>
    <3> DEFINE e == CHOOSE e \in data : e[1] = Gets[g]
    <3>1. e \in data /\ e[1] = Gets[g] /\ Caching!Lookup(Gets[g]) = e[2]
      BY <2>1 DEF Caching!Has, Caching!Lookup
    <3> HIDE DEF e
    <3>0. PICK r \in Caching!Setter : \E n \in 1..setCount[r] : e = Sets[r][n]
      BY <1>0, <3>1 DEF EntriesWereSet
    <3>2. PICK n \in 1..setCount[r] : e = Sets[r][n]
      BY <3>0
    <3>3. Sets[r][n] = <<Sets[r][n][1], Sets[r][n][2]>>
      BY <1>0, <3>2, CacheConstants DEF CacheTyped
    <3> QED BY <3>1, <3>2, <3>3
  <2>4. Caching!CacheConsistent'
    <3>1. \A h \in Caching!Getter : h # g => getter'[h] = getter[h] /\ value'[h] = value[h]
      BY <1>0, <2>1 DEF CacheTyped
    <3>2. getter'[g] = "ended" /\ value'[g] = Caching!Lookup(Gets[g])
      BY <1>0, <2>1 DEF CacheTyped
    <3>3. \A d, e \in data : d[1] = e[1] => d = e
      BY <1>0 DEF Caching!CacheConsistent
    <3>4. ASSUME NEW h \in Caching!Getter
          PROVE  /\ getter'[h] = "asleep" => ~Caching!Has(Gets[h])
                 /\ getter'[h] = "ended" =>
                      \E s \in Caching!Setter : \E n \in 1..setCount[s] :
                        Sets[s][n] = <<Gets[h], value'[h]>>
      <4>1. CASE h = g
        BY <2>3, <3>2, <4>1
      <4>2. CASE h # g
        BY <1>0, <3>1, <4>2 DEF Caching!CacheConsistent
      <4> QED BY <4>1, <4>2
    <3> QED BY <1>1, <3>3, <3>4 DEF Caching!CacheConsistent, Caching!Has
  <2> QED BY <1>2, <2>2, <2>4 DEF CacheInv
<1> QED BY <1>3, <1>4

LEMMA CacheStands ==
  CacheInv /\ UNCHANGED <<data, setCount, getter, value>> => CacheInv'
<1> SUFFICES ASSUME CacheInv, UNCHANGED <<data, setCount, getter, value>> PROVE CacheInv'
  OBVIOUS
<1>1. CacheTyped'
  BY DEF CacheInv, CacheTyped
<1>2. EntriesWereSet'
  BY DEF CacheInv, EntriesWereSet
<1>3. Caching!CacheConsistent'
  BY DEF CacheInv, Caching!CacheConsistent, Caching!Has
<1> QED BY <1>1, <1>2, <1>3 DEF CacheInv

LEMMA CacheNext == CacheInv /\ Caching!Next => CacheInv'
  BY SetKeeps, GetterKeeps, CacheStands DEF Caching!Next, Caching!PrintAll, Caching!ReturnFromMain

LEMMA CacheInvariant == Spec => [](program = "Cache" => CacheInv)
<1>1. Init => (program = "Cache" => CacheInv)
  BY CacheInit DEF Init
<1>2. (program = "Cache" => CacheInv) /\ [Next]_vars => (program = "Cache" => CacheInv)'
  BY CacheNext, CacheStands DEF Next, vars, cacheVars
<1> QED BY <1>1, <1>2, PTL DEF Spec

(***************************************************************************)
(* PriorityQueue.  Every value has been pushed once, and a consumer between its  *)
(* test and its sleep has the queue to itself, which stays empty.             *)
(***************************************************************************)
PQTyped == /\ pushed \in [PQ!PQProducer -> Nat]
           /\ popped \in Seq((PQ!PQProducer \X Nat) \cup {PQ!Nothing})
           /\ consumer \in [1..Consumers -> {"test", "doze", "asleep", "ended"}]
           /\ IsFiniteSet(pq)

PoppedOnce == /\ \A i, j \in 1..Len(popped) : popped[i] = popped[j] /\ i # j => popped[i] = PQ!Nothing
              /\ \A i \in 1..Len(popped) : popped[i] \notin pq

\* A value has been pushed exactly if it is in the queue or was popped.
QueuedOrPopped ==
  /\ \A v \in pq : v \in PQ!PQProducer \X Nat
  /\ \A p \in PQ!PQProducer, n \in Nat :
       (\/ <<p, n>> \in pq
        \/ \E i \in 1..Len(popped) : popped[i] = <<p, n>>) <=> n \in 1..pushed[p]

AllPushed == \A p \in PQ!PQProducer : pushed[p] = Len(Pushes[p])

NothingAtTheEnd == /\ pqDone \/ pqMain # "join" => AllPushed
                   /\ \A i \in 1..Len(popped) : popped[i] = PQ!Nothing => pq = {} /\ AllPushed

OneTests == /\ \A c, d \in 1..Consumers : consumer[c] = "doze" /\ consumer[d] = "doze" => c = d
            /\ \A c \in 1..Consumers : consumer[c] = "doze" => pq = {}

Testing == {c \in 1..Consumers : consumer[c] = "test"}

EnoughTest == (\E c \in 1..Consumers : consumer[c] = "asleep")
                => Cardinality(pq) <= Cardinality(Testing)

PQInv == /\ PQTyped /\ PoppedOnce /\ QueuedOrPopped /\ NothingAtTheEnd /\ OneTests
         /\ EnoughTest

LEMMA PQConstants == Consumers \in Nat /\ PQ!PQConsumer = 1..Consumers
<1>1. PQ!PQAssumption
  BY ExercisesAssumption, Zenon
<1> QED BY <1>1 DEF PQ!PQAssumption, PQ!PQConsumer

LEMMA SomeConsumers ==
  ASSUME NEW S \in SUBSET (1..Consumers)
  PROVE  IsFiniteSet(S) /\ Cardinality(S) \in Nat
<1>1. IsFiniteSet(1..Consumers)
  BY PQConstants, FS_Interval
<1>2. IsFiniteSet(S)
  BY <1>1, FS_Subset
<1> QED BY <1>2, FS_CardinalityType

LEMMA PQImplies == PQInv => PQ!PopsConsistent
<1> SUFFICES ASSUME PQInv PROVE PQ!PopsConsistent
  OBVIOUS
<1>0. PQTyped /\ PoppedOnce /\ QueuedOrPopped /\ NothingAtTheEnd /\ EnoughTest
  BY DEF PQInv
<1>1. DOMAIN popped = 1..Len(popped)
  BY <1>0 DEF PQTyped
<1>2. PQ!Range(popped) = {popped[i] : i \in 1..Len(popped)}
  BY <1>1 DEF PQ!Range
<1>3. \A i, j \in DOMAIN popped : popped[i] = popped[j] /\ i # j => popped[i] = PQ!Nothing
  BY <1>0, <1>1 DEF PoppedOnce
<1>4. pq \cap PQ!Popped = {}
  BY <1>0, <1>2 DEF PQ!Popped, PoppedOnce
<1>5. pq \cup PQ!Popped = PQ!Values
  <2>1. ASSUME NEW v \in pq \cup PQ!Popped PROVE v \in PQ!Values
    <3>1. v \in PQ!PQProducer \X Nat
      BY <1>0, <1>2, <2>1 DEF PQ!Popped, PQTyped, QueuedOrPopped
    <3>2. PICK p \in PQ!PQProducer, n \in Nat : v = <<p, n>>
      BY <3>1
    <3>3. n \in 1..pushed[p]
      BY <1>0, <1>2, <2>1, <3>2 DEF PQ!Popped, QueuedOrPopped
    <3> QED BY <3>2, <3>3 DEF PQ!Values
  <2>2. ASSUME NEW v \in PQ!Values PROVE v \in pq \cup PQ!Popped
    <3>1. PICK p \in PQ!PQProducer : \E n \in 1..pushed[p] : v = <<p, n>>
      BY <2>2 DEF PQ!Values
    <3>2. PICK n \in 1..pushed[p] : v = <<p, n>>
      BY <3>1
    <3>3. n \in Nat
      BY <1>0 DEF PQTyped
    <3>4. v # PQ!Nothing
      BY <3>2 DEF PQ!Nothing
    <3> QED BY <1>0, <1>2, <3>2, <3>3, <3>4 DEF PQ!Popped, QueuedOrPopped
  <2> QED BY <2>1, <2>2
<1>6. PQ!Nothing \in PQ!Range(popped) => /\ pq = {}
                                        /\ \A p \in PQ!PQProducer : pushed[p] = Len(Pushes[p])
  BY <1>0, <1>2 DEF NothingAtTheEnd, AllPushed
<1>7. PQ!Asleep # {} => Cardinality(pq) <= Cardinality({c \in PQ!PQConsumer : consumer[c] = "test"})
  BY <1>0, PQConstants DEF PQ!Asleep, EnoughTest, Testing
<1>8. PQ!Asleep # {} /\ pq # {} =>
        PQ!Cardinality(pq) <= PQ!Cardinality({c \in PQ!PQConsumer : consumer[c] = "test"})
  BY <1>7, SameSizes
<1> QED BY <1>3, <1>4, <1>5, <1>6, <1>8 DEF PQ!PopsConsistent

LEMMA PQInit == PQ!Init => PQInv
<1> SUFFICES ASSUME PQ!Init PROVE PQInv
  OBVIOUS
<1>1. /\ pq = {} /\ popped = <<>> /\ pqDone = FALSE /\ pqMain = "join"
      /\ pushed = [p \in PQ!PQProducer |-> 0]
      /\ consumer = [c \in 1..Consumers |-> "test"]
  BY PQConstants DEF PQ!Init
<1>2. PQTyped
  BY <1>1, FS_EmptySet DEF PQTyped
<1>3. PoppedOnce /\ NothingAtTheEnd /\ OneTests /\ EnoughTest
  BY <1>1 DEF PoppedOnce, NothingAtTheEnd, OneTests, EnoughTest
<1>4. QueuedOrPopped
  BY <1>1 DEF QueuedOrPopped
<1> QED BY <1>2, <1>3, <1>4 DEF PQInv

\* How many consumers are about to look into the queue, when c alone has moved.
LEMMA ConsumerMoves ==
  ASSUME NEW c \in 1..Consumers,
         \A d \in 1..Consumers : d # c => consumer'[d] = consumer[d]
  PROVE  /\ Cardinality(Testing) \in Nat /\ Cardinality(Testing') \in Nat
         /\ Cardinality(Testing') >= Cardinality(Testing) - 1
         /\ consumer[c] # "test" => Cardinality(Testing') >= Cardinality(Testing)
         /\ consumer[c] # "test" /\ consumer'[c] = "test"
              => Cardinality(Testing') = Cardinality(Testing) + 1
<1> DEFINE S == 1..Consumers
<1>1. Testing \in SUBSET S /\ Testing' \in SUBSET S
  BY DEF Testing
<1>2. IsFiniteSet(S)
  BY PQConstants, FS_Interval
<1>3. \A d \in S : d # c => (d \in Testing <=> d \in Testing')
  BY DEF Testing
<1> HIDE DEF S
<1>4. /\ Cardinality(Testing) \in Nat /\ Cardinality(Testing') \in Nat
      /\ Cardinality(Testing')
           = Cardinality(Testing) + (IF c \notin Testing /\ c \in Testing' THEN 1
                                     ELSE IF c \in Testing /\ c \notin Testing' THEN -1 ELSE 0)
  BY <1>1, <1>2, <1>3, OneMoves
<1> QED BY <1>4 DEF Testing

\* A value is pushed, and wakes a consumer if one sleeps.
LEMMA PushKeeps ==
  ASSUME PQInv, NEW p \in PQ!PQProducer, PQ!Push(p)
  PROVE  PQInv'
<1> DEFINE v == <<p, pushed[p] + 1>>
<1> USE PQConstants
<1>0. PQTyped /\ PoppedOnce /\ QueuedOrPopped /\ NothingAtTheEnd /\ OneTests /\ EnoughTest
  BY DEF PQInv
<1>1. /\ \A c \in 1..Consumers : consumer[c] # "doze"
      /\ pushed[p] < Len(Pushes[p]) /\ pushed' = [pushed EXCEPT ![p] = @ + 1]
      /\ pq' = pq \cup {<<p, pushed'[p]>>}
      /\ popped' = popped /\ pqDone' = pqDone /\ pqMain' = pqMain
  BY DEF PQ!Push, PQ!MtxFree
<1>2. /\ pushed' \in [PQ!PQProducer -> Nat] /\ pushed[p] \in Nat /\ pushed'[p] = pushed[p] + 1
      /\ \A q \in PQ!PQProducer : q # p => pushed'[q] = pushed[q]
      /\ pq' = pq \cup {v}
  BY <1>0, <1>1 DEF PQTyped
<1>3. \/ /\ \A c \in 1..Consumers : consumer[c] # "asleep"
         /\ consumer' = consumer
      \/ \E c \in 1..Consumers : consumer[c] = "asleep" /\ consumer' = [consumer EXCEPT ![c] = "test"]
  BY DEF PQ!Push, PQ!NotifyOne, PQ!Asleep
<1>4. v \notin pq /\ \A i \in 1..Len(popped) : popped[i] # v
  <2>1. pushed[p] + 1 \notin 1..pushed[p] /\ pushed[p] + 1 \in Nat
    BY <1>2
  <2> QED BY <1>0, <2>1 DEF QueuedOrPopped
<1>5. IsFiniteSet(pq') /\ Cardinality(pq') = Cardinality(pq) + 1 /\ Cardinality(pq) \in Nat
  BY <1>0, <1>2, <1>4, FS_AddElement, FS_CardinalityType DEF PQTyped
<1>6. PQTyped'
  BY <1>0, <1>1, <1>2, <1>3, <1>5 DEF PQTyped
<1>7. PoppedOnce'
  BY <1>0, <1>1, <1>2, <1>4 DEF PoppedOnce
<1>8. QueuedOrPopped'
  <2>1. \A u \in pq' : u \in PQ!PQProducer \X Nat
    BY <1>0, <1>2 DEF QueuedOrPopped
  <2>2. ASSUME NEW q \in PQ!PQProducer, NEW n \in Nat
        PROVE  (\/ <<q, n>> \in pq'
                \/ \E i \in 1..Len(popped) : popped[i] = <<q, n>>) <=> n \in 1..pushed'[q]
    <3>1. CASE q = p /\ n = pushed[p] + 1
      BY <1>2, <3>1
    <3>2. CASE ~(q = p /\ n = pushed[p] + 1)
      <4>1. <<q, n>> \in pq' <=> <<q, n>> \in pq
        BY <1>2, <3>2
      <4>2. n \in 1..pushed'[q] <=> n \in 1..pushed[q]
        BY <1>0, <1>2, <3>2 DEF PQTyped
      <4> QED BY <1>0, <4>1, <4>2 DEF QueuedOrPopped
    <3> QED BY <3>1, <3>2
  <2> QED BY <1>1, <2>1, <2>2 DEF QueuedOrPopped
<1>9. NothingAtTheEnd'
  <2>1. ~AllPushed
    BY <1>0, <1>1, <1>2 DEF AllPushed
  <2> QED BY <1>0, <1>1, <2>1 DEF NothingAtTheEnd
<1>10. OneTests'
  <2>1. \A c \in 1..Consumers : consumer'[c] # "doze"
    BY <1>0, <1>1, <1>3 DEF PQTyped
  <2> QED BY <2>1 DEF OneTests
<1>11. EnoughTest'
  <2>1. CASE consumer' = consumer /\ \A c \in 1..Consumers : consumer[c] # "asleep"
    BY <2>1 DEF EnoughTest
  <2>2. ASSUME NEW c \in 1..Consumers, consumer[c] = "asleep",
               consumer' = [consumer EXCEPT ![c] = "test"]
        PROVE  EnoughTest'
    <3>1. /\ consumer'[c] = "test" /\ consumer[c] # "test"
          /\ \A d \in 1..Consumers : d # c => consumer'[d] = consumer[d]
      BY <1>0, <2>2 DEF PQTyped
    <3>2. Cardinality(Testing') = Cardinality(Testing) + 1 /\ Cardinality(Testing) \in Nat
      BY <3>1, ConsumerMoves
    <3>3. Cardinality(pq) <= Cardinality(Testing)
      BY <1>0, <2>2 DEF EnoughTest
    <3> QED BY <1>5, <3>2, <3>3 DEF EnoughTest
  <2> QED BY <1>3, <2>1, <2>2
<1> QED BY <1>6, <1>7, <1>8, <1>9, <1>10, <1>11 DEF PQInv

\* What a pop that returns u to c leaves: u is the value v of the queue, or nothing.
LEMMA PopKeeps ==
  ASSUME PQInv, NEW c \in 1..Consumers, PQ!Pop(c)
  PROVE  PQInv'
<1> USE PQConstants
<1>0. PQTyped /\ PoppedOnce /\ QueuedOrPopped /\ NothingAtTheEnd /\ OneTests /\ EnoughTest
  BY DEF PQInv
<1>1. PICK v \in pq : pq' = pq \ {v} /\ PQ!Return(c, v)
  BY DEF PQ!Pop
<1>2. /\ consumer[c] = "test" /\ \A d \in 1..Consumers : consumer[d] # "doze"
      /\ popped' = Append(popped, v) /\ pushed' = pushed /\ pqDone' = pqDone /\ pqMain' = pqMain
      /\ consumer' = [consumer EXCEPT ![c] = IF calls[c] = 1 THEN "ended" ELSE "test"]
  BY <1>1 DEF PQ!Pop, PQ!MtxFree, PQ!Return
<1>3. PICK l \in {"ended", "test"} : consumer' = [consumer EXCEPT ![c] = l]
  BY <1>2
<1>4. /\ consumer' \in [1..Consumers -> {"test", "doze", "asleep", "ended"}]
      /\ consumer'[c] = l
      /\ \A d \in 1..Consumers : d # c => consumer'[d] = consumer[d]
  BY <1>0, <1>3 DEF PQTyped
<1>5. v \in PQ!PQProducer \X Nat /\ v # PQ!Nothing
  <2>1. v \in PQ!PQProducer \X Nat
    BY <1>0 DEF QueuedOrPopped
  <2> HIDE <1>1, PQConstants
  <2> QED BY <2>1 DEF PQ!Nothing
<1>6. /\ popped' \in Seq((PQ!PQProducer \X Nat) \cup {PQ!Nothing})
      /\ Len(popped) \in Nat /\ Len(popped') = Len(popped) + 1 /\ popped'[Len(popped) + 1] = v
      /\ \A i \in 1..Len(popped) : popped'[i] = popped[i]
  BY <1>0, <1>2, <1>5 DEF PQTyped
<1>7. IsFiniteSet(pq') /\ Cardinality(pq') = Cardinality(pq) - 1 /\ Cardinality(pq) \in Nat
  BY <1>0, <1>1, FS_RemoveElement, FS_CardinalityType DEF PQTyped
<1>8. PQTyped'
  BY <1>0, <1>2, <1>4, <1>6, <1>7 DEF PQTyped
<1>9. PoppedOnce'
  <2>1. ASSUME NEW i \in 1..Len(popped'), NEW j \in 1..Len(popped'), popped'[i] = popped'[j], i # j
        PROVE  popped'[i] = PQ!Nothing
    <3>1. CASE i \in 1..Len(popped) /\ j \in 1..Len(popped)
      BY <1>0, <1>6, <2>1, <3>1 DEF PoppedOnce
    <3>2. CASE i = Len(popped) + 1 \/ j = Len(popped) + 1
      BY <1>0, <1>6, <2>1, <3>2 DEF PoppedOnce
    <3> QED BY <1>6, <3>1, <3>2
  <2>2. ASSUME NEW i \in 1..Len(popped') PROVE popped'[i] \notin pq'
    <3>1. CASE i \in 1..Len(popped)
      BY <1>0, <1>1, <1>6, <3>1 DEF PoppedOnce
    <3>2. CASE i = Len(popped) + 1
      BY <1>1, <1>6, <3>2
    <3> QED BY <1>6, <3>1, <3>2
  <2> QED BY <2>1, <2>2 DEF PoppedOnce
<1>10. QueuedOrPopped'
  <2>1. \A u \in pq' : u \in PQ!PQProducer \X Nat
    BY <1>0, <1>1 DEF QueuedOrPopped
  <2>2. ASSUME NEW u
        PROVE  (u \in pq' \/ \E i \in 1..Len(popped') : popped'[i] = u)
                 <=> (u \in pq \/ \E i \in 1..Len(popped) : popped[i] = u)
    <3>1. CASE u = v
      BY <1>1, <1>6, <3>1
    <3>2. CASE u # v
      <4>1. u \in pq' <=> u \in pq
        BY <1>1, <3>2
      <4>2. (\E i \in 1..Len(popped') : popped'[i] = u) <=> (\E i \in 1..Len(popped) : popped[i] = u)
        BY <1>6, <3>2
      <4> QED BY <4>1, <4>2
    <3> QED BY <3>1, <3>2
  <2> QED BY <1>0, <1>2, <2>1, <2>2 DEF QueuedOrPopped
<1>11. NothingAtTheEnd'
  <2>1. AllPushed' <=> AllPushed
    BY <1>2 DEF AllPushed
  <2>2. \A i \in 1..Len(popped) : popped[i] # PQ!Nothing
    BY <1>0, <1>1 DEF NothingAtTheEnd
  <2>3. \A i \in 1..Len(popped') : popped'[i] # PQ!Nothing
    BY <1>5, <1>6, <2>2
  <2> QED BY <1>0, <1>2, <2>1, <2>3 DEF NothingAtTheEnd
<1>12. OneTests'
  BY <1>2, <1>4 DEF OneTests
<1>13. EnoughTest'
  <2>1. ASSUME NEW d \in 1..Consumers, consumer'[d] = "asleep"
        PROVE  Cardinality(pq') <= Cardinality(Testing')
    <3>1. consumer[d] = "asleep"
      BY <1>4, <2>1
    <3>2. Cardinality(pq) <= Cardinality(Testing)
      BY <1>0, <3>1 DEF EnoughTest
    <3>3. Cardinality(Testing') >= Cardinality(Testing) - 1 /\ Cardinality(Testing) \in Nat
          /\ Cardinality(Testing') \in Nat
      BY <1>4, ConsumerMoves
    <3> QED BY <1>7, <3>2, <3>3
  <2> QED BY <2>1 DEF EnoughTest
<1> QED BY <1>8, <1>9, <1>10, <1>11, <1>12, <1>13 DEF PQInv

\* Nothing is returned only of an empty queue into which all has been pushed.
LEMMA PopNothingKeeps ==
  ASSUME PQInv, NEW c \in 1..Consumers, PQ!PopNothing(c)
  PROVE  PQInv'
<1> USE PQConstants
<1>0. PQTyped /\ PoppedOnce /\ QueuedOrPopped /\ NothingAtTheEnd /\ OneTests /\ EnoughTest
  BY DEF PQInv
<1>1. /\ \A d \in 1..Consumers : consumer[d] # "doze"
      /\ pq = {} /\ pqDone /\ pq' = {}
      /\ popped' = Append(popped, PQ!Nothing)
      /\ pushed' = pushed /\ pqDone' = pqDone /\ pqMain' = pqMain
      /\ consumer' = [consumer EXCEPT ![c] = IF calls[c] = 1 THEN "ended" ELSE "test"]
  BY DEF PQ!PopNothing, PQ!MtxFree, PQ!Return
<1>2. PICK l \in {"ended", "test"} : consumer' = [consumer EXCEPT ![c] = l]
  BY <1>1
<1>3. /\ consumer' \in [1..Consumers -> {"test", "doze", "asleep", "ended"}]
      /\ consumer'[c] = l
      /\ \A d \in 1..Consumers : d # c => consumer'[d] = consumer[d]
  BY <1>0, <1>2 DEF PQTyped
<1>4. /\ popped' \in Seq((PQ!PQProducer \X Nat) \cup {PQ!Nothing})
      /\ Len(popped) \in Nat /\ Len(popped') = Len(popped) + 1
      /\ popped'[Len(popped) + 1] = PQ!Nothing
      /\ \A i \in 1..Len(popped) : popped'[i] = popped[i]
  BY <1>0, <1>1 DEF PQTyped
<1>5. PQTyped'
  BY <1>0, <1>1, <1>3, <1>4 DEF PQTyped
<1>6. PoppedOnce'
  <2>1. ASSUME NEW i \in 1..Len(popped'), NEW j \in 1..Len(popped'), popped'[i] = popped'[j], i # j
        PROVE  popped'[i] = PQ!Nothing
    <3>1. CASE i \in 1..Len(popped) /\ j \in 1..Len(popped)
      BY <1>0, <1>4, <2>1, <3>1 DEF PoppedOnce
    <3>2. CASE i = Len(popped) + 1 \/ j = Len(popped) + 1
      BY <1>4, <2>1, <3>2
    <3> QED BY <1>4, <3>1, <3>2
  <2> QED BY <1>1, <2>1 DEF PoppedOnce
<1>7. QueuedOrPopped'
  <2>1. ASSUME NEW p \in PQ!PQProducer, NEW n \in Nat
        PROVE  (\E i \in 1..Len(popped') : popped'[i] = <<p, n>>)
                 <=> (\E i \in 1..Len(popped) : popped[i] = <<p, n>>)
    <3>1. <<p, n>> # PQ!Nothing
      BY DEF PQ!Nothing
    <3>2. ASSUME NEW i \in 1..Len(popped'), popped'[i] = <<p, n>>
          PROVE  i \in 1..Len(popped) /\ popped[i] = <<p, n>>
      <4>1. i # Len(popped) + 1
        BY <1>4, <3>1, <3>2
      <4> QED BY <1>4, <3>2, <4>1
    <3>3. \A i \in 1..Len(popped) : i \in 1..Len(popped') /\ popped'[i] = popped[i]
      BY <1>4
    <3> QED BY <3>2, <3>3
  <2> QED BY <1>0, <1>1, <2>1 DEF QueuedOrPopped
<1>8. NothingAtTheEnd'
  <2>1. AllPushed' /\ AllPushed
    BY <1>0, <1>1 DEF NothingAtTheEnd, AllPushed
  <2> QED BY <1>1, <2>1 DEF NothingAtTheEnd
<1>9. OneTests'
  BY <1>1, <1>3 DEF OneTests
<1>10. EnoughTest'
  <2>1. Cardinality(pq') = 0 /\ Testing' \in SUBSET (1..Consumers)
    BY <1>1, FS_EmptySet DEF Testing
  <2>2. Cardinality(Testing') \in Nat
    BY <2>1, SomeConsumers
  <2> QED BY <2>1, <2>2 DEF EnoughTest
<1> QED BY <1>5, <1>6, <1>7, <1>8, <1>9, <1>10 DEF PQInv

\* A consumer falls asleep beside an empty queue, or wakes up.
LEMMA ConsumerWaitKeeps ==
  ASSUME PQInv, NEW c \in 1..Consumers,
         PQ!Doze(c) \/ PQ!FallAsleep(c) \/ PQ!SpuriousWake(c)
  PROVE  PQInv'
<1> USE PQConstants
<1>0. PQTyped /\ PoppedOnce /\ QueuedOrPopped /\ NothingAtTheEnd /\ OneTests /\ EnoughTest
  BY DEF PQInv
<1>1. UNCHANGED <<pq, pushed, popped, pqDone, calls, wanted, pqMain>>
  BY DEF PQ!Doze, PQ!FallAsleep, PQ!SpuriousWake
<1>2. PICK l \in {"doze", "asleep", "test"} : consumer' = [consumer EXCEPT ![c] = l]
  BY DEF PQ!Doze, PQ!FallAsleep, PQ!SpuriousWake
<1>3. /\ consumer' \in [1..Consumers -> {"test", "doze", "asleep", "ended"}]
      /\ consumer'[c] = l
      /\ \A d \in 1..Consumers : d # c => consumer'[d] = consumer[d]
  BY <1>0, <1>2 DEF PQTyped
<1>4. /\ l = "doze" => pq = {} /\ \A d \in 1..Consumers : consumer[d] # "doze"
      /\ l = "asleep" => pq = {}
      /\ l = "test" => consumer[c] = "asleep"
  <2>1. CASE PQ!Doze(c)
    BY <1>3, <2>1 DEF PQ!Doze, PQ!MtxFree
  <2>2. CASE PQ!FallAsleep(c)
    BY <1>0, <1>3, <2>2 DEF PQ!FallAsleep, OneTests
  <2>3. CASE PQ!SpuriousWake(c)
    BY <1>3, <2>3 DEF PQ!SpuriousWake
  <2> QED BY <2>1, <2>2, <2>3
<1>5. PQTyped'
  BY <1>0, <1>1, <1>3 DEF PQTyped
<1>6. PoppedOnce'
  BY <1>0, <1>1 DEF PoppedOnce
<1>7. QueuedOrPopped'
  BY <1>0, <1>1 DEF QueuedOrPopped
<1>8. NothingAtTheEnd'
  BY <1>0, <1>1 DEF NothingAtTheEnd, AllPushed
<1>9. OneTests'
  BY <1>0, <1>1, <1>3, <1>4 DEF OneTests
<1>10. EnoughTest'
  <2>1. CASE pq = {}
    <3>1. Cardinality(pq') = 0 /\ Testing' \in SUBSET (1..Consumers)
      BY <1>1, <2>1, FS_EmptySet DEF Testing
    <3>2. Cardinality(Testing') \in Nat
      BY <3>1, SomeConsumers
    <3> QED BY <3>1, <3>2 DEF EnoughTest
  <2>2. CASE pq # {}
    <3>1. consumer[c] = "asleep" /\ l = "test"
      BY <1>4, <2>2
    <3>2. Cardinality(Testing') = Cardinality(Testing) + 1 /\ Cardinality(Testing) \in Nat
      BY <1>3, <3>1, ConsumerMoves
    <3>3. Cardinality(pq) <= Cardinality(Testing) /\ Cardinality(pq) \in Nat
      BY <1>0, <3>1, FS_CardinalityType DEF EnoughTest, PQTyped
    <3> QED BY <1>1, <3>2, <3>3 DEF EnoughTest
  <2> QED BY <2>1, <2>2
<1> QED BY <1>5, <1>6, <1>7, <1>8, <1>9, <1>10 DEF PQInv

LEMMA PQMainKeeps ==
  ASSUME PQInv, PQ!PQMainStep
  PROVE  PQInv'
<1> USE PQConstants
<1>0. PQTyped /\ PoppedOnce /\ QueuedOrPopped /\ NothingAtTheEnd /\ OneTests /\ EnoughTest
  BY DEF PQInv
<1>1. UNCHANGED <<pq, pushed, popped>>
  BY DEF PQ!PQMainStep, PQ!SetDone, PQ!NotifyAll, PQ!ReturnFromMain
<1>2. PoppedOnce'
  BY <1>0, <1>1 DEF PoppedOnce
<1>3. QueuedOrPopped'
  BY <1>0, <1>1 DEF QueuedOrPopped
<1>4. AllPushed' <=> AllPushed
  BY <1>1 DEF AllPushed
<1>5. CASE PQ!SetDone \/ PQ!ReturnFromMain
  <2>1. /\ consumer' = consumer
        /\ (pqDone' = pqDone /\ pqMain # "join") \/ AllPushed
    BY <1>5 DEF PQ!SetDone, PQ!ReturnFromMain, AllPushed
  <2>2. PQTyped' /\ OneTests'
    BY <1>0, <1>1, <2>1 DEF PQTyped, OneTests
  <2>3. NothingAtTheEnd'
    BY <1>0, <1>1, <1>4, <2>1 DEF NothingAtTheEnd
  <2>4. EnoughTest'
    BY <1>0, <1>1, <2>1 DEF EnoughTest, Testing
  <2> QED BY <1>2, <1>3, <2>2, <2>3, <2>4 DEF PQInv
<1>6. CASE PQ!NotifyAll
  <2>1. /\ consumer' = [c \in 1..Consumers |-> IF consumer[c] = "asleep" THEN "test" ELSE consumer[c]]
        /\ pqDone' = pqDone /\ pqMain = "notify"
    BY <1>6 DEF PQ!NotifyAll, PQ!Asleep
  <2>2. PQTyped' /\ OneTests'
    BY <1>0, <1>1, <2>1 DEF PQTyped, OneTests
  <2>3. NothingAtTheEnd'
    BY <1>0, <1>1, <1>4, <2>1 DEF NothingAtTheEnd
  <2>4. EnoughTest'
    BY <2>1 DEF EnoughTest
  <2> QED BY <1>2, <1>3, <2>2, <2>3, <2>4 DEF PQInv
<1> QED BY <1>5, <1>6 DEF PQ!PQMainStep

LEMMA PQNext == PQInv /\ PQ!Next => PQInv'
<1> SUFFICES ASSUME PQInv, PQ!Next PROVE PQInv'
  OBVIOUS
<1>1. CASE PQ!PQMainStep
  BY <1>1, PQMainKeeps
<1>2. ASSUME NEW p \in PQ!PQProducer, PQ!Push(p)
      PROVE  PQInv'
  BY <1>2, PushKeeps
<1>3. ASSUME NEW c \in PQ!PQConsumer, PQ!ConsumerStep(c) \/ PQ!SpuriousWake(c)
      PROVE  PQInv'
  BY <1>3, PQConstants, ConsumerWaitKeeps, PopNothingKeeps, PopKeeps DEF PQ!ConsumerStep
<1> QED BY <1>1, <1>2, <1>3 DEF PQ!Next

LEMMA PQStands == PQInv /\ UNCHANGED pqVars => PQInv'
<1> SUFFICES ASSUME PQInv, UNCHANGED pqVars PROVE PQInv'
  OBVIOUS
<1>1. PQTyped' /\ PoppedOnce'
  BY DEF PQInv, PQTyped, PoppedOnce, pqVars
<1>2. QueuedOrPopped'
  BY DEF PQInv, QueuedOrPopped, pqVars
<1>3. NothingAtTheEnd' /\ OneTests' /\ EnoughTest'
  BY DEF PQInv, NothingAtTheEnd, AllPushed, OneTests, EnoughTest, Testing, pqVars
<1> QED BY <1>1, <1>2, <1>3 DEF PQInv

LEMMA PQInvariant == Spec => [](program = "PriorityQueue" => PQInv)
<1>1. Init => (program = "PriorityQueue" => PQInv)
  BY PQInit DEF Init
<1>2. (program = "PriorityQueue" => PQInv) /\ [Next]_vars
        => (program = "PriorityQueue" => PQInv)'
  BY PQNext, PQStands DEF Next, vars
<1> QED BY <1>1, <1>2, PTL DEF Spec

\* For any producers and consumers, values are popped once and none is lost, nothing is
\* returned before all has been pushed and popped, and nobody sleeps beside a value that
\* nobody is about to take; and in the cache nobody sleeps whose key is there, although a
\* set of a key that is there wakes nobody, and a getter returns what was set for its key.
THEOREM QueuesAgree == Spec => []QueuesConsistent
<1>1. (program = "PriorityQueue" => PQInv) /\ (program = "Cache" => CacheInv) => QueuesConsistent
  BY PQImplies DEF QueuesConsistent, CacheInv
<1> QED BY <1>1, PQInvariant, CacheInvariant, PTL
----------------------------------------------------------------------------
(***************************************************************************)
(* Bank.  A thread holds the accounts that the place where it stands tells; so   *)
(* two threads that hold one account and want another cannot form a circle.  The  *)
(* sums are those of Counting.                                               *)
(***************************************************************************)
Accounts == Banking!Account
Payer == DOMAIN plan
Low(t) == IF plan[t].from < plan[t].to THEN plan[t].from ELSE plan[t].to
High(t) == IF plan[t].from < plan[t].to THEN plan[t].to ELSE plan[t].from

Kept(t) == CASE stand[t] = "lock2" -> {Low(t)}
             [] stand[t] \in {"test", "deposit", "hung"} -> {plan[t].from, plan[t].to}
             [] stand[t] = "asleep" -> {plan[t].to}
             [] OTHER -> {}

Stand == {"begin", "lock1", "lock2", "test", "asleep", "deposit", "hung", "print", "ended"}

BankTyped == /\ plan \in Seq(Banking!Transfer)
             /\ balance \in [Accounts -> Nat]
             /\ owner \in [Accounts -> Nat]
             /\ stand \in [Payer -> Stand]

AcceptedOnly == \A t \in Payer :
  stand[t] \in {"begin", "print", "ended"} \/ plan[t].from # plan[t].to

OwnersStand == \A t \in Payer : \A a \in Accounts : owner[a] = t <=> a \in Kept(t)

InHand == {t \in Payer : stand[t] \in {"deposit", "hung"}}
Sums == [t \in Payer |-> plan[t].amount]

MoneyKept == Total(balance, Accounts) + Total(Sums, InHand) = Total(InitialBalance, Accounts)

BankInv == BankTyped /\ AcceptedOnly /\ OwnersStand /\ MoneyKept

LEMMA BankConstants == /\ Accounts = 1..Len(InitialBalance) /\ Len(InitialBalance) \in Nat
                       /\ InitialBalance \in [Accounts -> Nat]
                       /\ IsFiniteSet(Accounts)
                       /\ Plans \subseteq Seq(Banking!Transfer)
<1>1. Banking!BankAssumption
  BY ExercisesAssumption, Zenon
<1>2. Accounts = 1..Len(InitialBalance) /\ Len(InitialBalance) \in Nat
  BY <1>1 DEF Banking!BankAssumption, Accounts, Banking!Account
<1>3. IsFiniteSet(Accounts)
  BY <1>2, FS_Interval
<1>4. InitialBalance \in [Accounts -> Nat]
  BY <1>1, <1>2 DEF Banking!BankAssumption
<1> QED BY <1>1, <1>2, <1>3, <1>4 DEF Banking!BankAssumption

\* What the sums of the community modules are.
LEMMA BankSums ==
  ASSUME BankTyped
  PROVE  /\ Banking!SumFunction(balance) = Total(balance, Accounts)
         /\ Banking!SumFunction(InitialBalance) = Total(InitialBalance, Accounts)
<1>1. DOMAIN balance = Accounts /\ DOMAIN InitialBalance = Accounts
  BY DEF BankTyped, Accounts, Banking!Account
<1> QED BY <1>1 DEF Banking!SumFunction, Banking!SumFunctionOnSet, Banking!FoldFunctionOnSet, Banking!MapThenFoldSet, Total, IsSum, Taken

LEMMA HandSum ==
  ASSUME NEW S \in SUBSET Payer, IsFiniteSet(S)
  PROVE  Banking!MapThenSumSet(Banking!amount, S) = Total(Sums, S)
<1> DEFINE g == CHOOSE g : g = [s \in SUBSET S |-> IF s = {} THEN 0
                                  ELSE plan[Taken(s)].amount + g[s \ {Taken(s)}]]
<1>1. Banking!MapThenSumSet(Banking!amount, S) = g[S]
  BY DEF Banking!MapThenSumSet, Banking!MapThenFoldSet, Banking!amount, Taken
<1>2. PICK h : IsSum(h, Sums, S)
  BY SumExists
<1>3. \A s \in SUBSET S : s # {} => Sums[Taken(s)] = plan[Taken(s)].amount
  BY TakenIsMember DEF Sums
<1>4. h = [s \in SUBSET S |-> IF s = {} THEN 0
                               ELSE plan[Taken(s)].amount + h[s \ {Taken(s)}]]
  BY <1>2, <1>3 DEF IsSum
<1>5. g = [s \in SUBSET S |-> IF s = {} THEN 0
                               ELSE plan[Taken(s)].amount + g[s \ {Taken(s)}]]
  BY <1>4
<1>6. IsSum(g, Sums, S)
  <2> HIDE DEF g
  <2> QED BY <1>3, <1>5 DEF IsSum
<1>7. IsSum(CHOOSE k : IsSum(k, Sums, S), Sums, S)
  BY <1>2
<1> HIDE DEF g
<1>8. g[S] = (CHOOSE k : IsSum(k, Sums, S))[S]
  BY <1>6, <1>7, SumIsUnique
<1> QED BY <1>1, <1>8 DEF Total

\* The transfers of the threads that have one.
LEMMA Transfers ==
  ASSUME BankTyped
  PROVE  /\ Payer = 1..Len(plan) /\ Len(plan) \in Nat /\ IsFiniteSet(Payer)
         /\ \A t \in Payer : /\ plan[t].from \in Accounts /\ plan[t].to \in Accounts
                           /\ plan[t].amount \in Int /\ t \in Nat /\ t # 0
                           /\ plan[t].from \in Int /\ plan[t].to \in Int
<1>1. Payer = 1..Len(plan) /\ Len(plan) \in Nat
  BY DEF BankTyped, Payer
<1>2. ASSUME NEW t \in Payer
      PROVE  /\ plan[t].from \in Accounts /\ plan[t].to \in Accounts /\ plan[t].amount \in Int
             /\ t \in Nat /\ t # 0
  <2>1. plan[t] \in Banking!Transfer
    BY <1>1 DEF BankTyped
  <2> QED BY <1>1, <2>1 DEF Banking!Transfer, Accounts
<1>3. IsFiniteSet(Payer)
  BY <1>1, FS_Interval
<1> QED BY <1>1, <1>2, <1>3, BankConstants

\* The lower and the higher of two accounts.
LEMMA LowAndHigh ==
  ASSUME BankTyped, NEW t \in Payer
  PROVE  /\ Banking!Min({plan[t].from, plan[t].to}) = Low(t)
         /\ Banking!Max({plan[t].from, plan[t].to}) = High(t)
         /\ Low(t) \in Accounts /\ High(t) \in Accounts /\ Low(t) <= High(t)
         /\ Low(t) \in Int /\ High(t) \in Int
         /\ plan[t].from # plan[t].to => Low(t) # High(t)
         /\ {Low(t), High(t)} = {plan[t].from, plan[t].to}
<1> DEFINE a == plan[t].from
           b == plan[t].to
<1>1. /\ a \in Accounts /\ b \in Accounts /\ a \in Int /\ b \in Int
      /\ Low(t) = (IF a < b THEN a ELSE b) /\ High(t) = (IF a < b THEN b ELSE a)
  BY Transfers DEF Low, High
<1> HIDE DEF a, b
<1>2. Banking!Min({a, b}) = Low(t)
  BY <1>1 DEF Banking!Min
<1>3. Banking!Max({a, b}) = High(t)
  BY <1>1 DEF Banking!Max
<1>4. {Low(t), High(t)} = {a, b}
  BY <1>1
<1>5. /\ Low(t) \in Accounts /\ High(t) \in Accounts /\ Low(t) <= High(t)
      /\ Low(t) \in Int /\ High(t) \in Int
      /\ a # b => Low(t) # High(t)
  BY <1>1
<1>6. /\ Banking!Min({plan[t].from, plan[t].to}) = Low(t)
      /\ Banking!Max({plan[t].from, plan[t].to}) = High(t)
  BY <1>2, <1>3 DEF a, b
<1>7. /\ plan[t].from # plan[t].to => Low(t) # High(t)
      /\ {Low(t), High(t)} = {plan[t].from, plan[t].to}
  BY <1>4, <1>5 DEF a, b
<1> QED BY <1>5, <1>6, <1>7

LEMMA BankImplies == BankInv => Banking!BankConsistent
<1> SUFFICES ASSUME BankInv PROVE Banking!BankConsistent
  OBVIOUS
<1>0. BankTyped /\ AcceptedOnly /\ OwnersStand /\ MoneyKept
  BY DEF BankInv
<1>1. ASSUME NEW t \in Payer, NEW u \in Payer, Banking!Blocks(t, u), Banking!Blocks(u, t)
      PROVE  FALSE
  <2>1. PICK a \in Banking!Wanted(u) : owner[a] = t
    BY <1>1 DEF Banking!Blocks
  <2>2. PICK b \in Banking!Wanted(t) : owner[b] = u
    BY <1>1 DEF Banking!Blocks
  <2>3. \/ stand[u] = "lock1" /\ a = Low(u)
        \/ stand[u] = "lock2" /\ a = High(u)
    BY <1>0, <2>1, LowAndHigh DEF Banking!Wanted, Banking!from, Banking!to
  <2>4. \/ stand[t] = "lock1" /\ b = Low(t)
        \/ stand[t] = "lock2" /\ b = High(t)
    BY <1>0, <2>2, LowAndHigh DEF Banking!Wanted, Banking!from, Banking!to
  <2>8. a \in Accounts /\ b \in Accounts
    BY <1>0, <2>3, <2>4, LowAndHigh
  <2>5. a \in Kept(t) /\ b \in Kept(u)
    BY <1>0, <2>1, <2>2, <2>8 DEF OwnersStand
  <2>6. /\ stand[t] = "lock2" /\ a = Low(t) /\ b = High(t)
        /\ stand[u] = "lock2" /\ b = Low(u) /\ a = High(u)
    BY <2>3, <2>4, <2>5 DEF Kept
  <2>7. Low(t) # High(t)
    BY <1>0, <2>6, LowAndHigh DEF AcceptedOnly
  <2>9. /\ Low(t) <= High(t) /\ Low(u) <= High(u)
        /\ Low(t) \in Int /\ High(t) \in Int
    BY <1>0, LowAndHigh
  <2> QED BY <2>6, <2>7, <2>9
<1>2. \A a \in Accounts : balance[a] >= 0
  BY <1>0 DEF BankTyped
<1>3. Banking!MapThenSumSet(Banking!amount, InHand) = Total(Sums, InHand)
  <2>1. InHand \in SUBSET Payer
    BY DEF InHand
  <2>2. IsFiniteSet(InHand)
    BY <1>0, <2>1, Transfers, FS_Subset
  <2> QED BY <2>1, <2>2, HandSum
<1>4. Banking!SumFunction(balance) + Banking!MapThenSumSet(Banking!amount, InHand)
        = Banking!SumFunction(InitialBalance)
  BY <1>0, <1>3, BankSums DEF MoneyKept
<1>5. \A t, u \in Payer : ~(Banking!Blocks(t, u) /\ Banking!Blocks(u, t))
  BY <1>1
<1> QED BY <1>2, <1>4, <1>5 DEF Banking!BankConsistent, Banking!Client, Payer, Accounts, InHand

LEMMA BankInit == Banking!Init => BankInv
<1> SUFFICES ASSUME Banking!Init PROVE BankInv
  OBVIOUS
<1>1. /\ plan \in Plans /\ balance = InitialBalance /\ owner = [a \in Accounts |-> 0]
      /\ stand = [t \in Payer |-> "begin"]
  BY DEF Banking!Init, Accounts, Banking!Account, Payer, Banking!Client
<1>2. BankTyped
  BY <1>1, BankConstants DEF BankTyped, Stand
<1>3. AcceptedOnly
  BY <1>1 DEF AcceptedOnly
<1>4. OwnersStand
  BY <1>1, <1>2, Transfers DEF OwnersStand, Kept
<1>5. InHand = {}
  BY <1>1 DEF InHand
<1>6. Total(Sums, InHand) = 0
  BY <1>5, FS_EmptySet, TotalTakes
<1>7. Total(InitialBalance, Accounts) \in Int
  BY BankConstants, TotalIsInt
<1>8. MoneyKept
  BY <1>1, <1>6, <1>7 DEF MoneyKept
<1> QED BY <1>2, <1>3, <1>4, <1>8 DEF BankInv

\* A thread that goes on: what it keeps follows where it stands.
LEMMA TransferMoves ==
  ASSUME BankInv, NEW t \in Payer, NEW l \in Stand, plan' = plan,
         stand' = [stand EXCEPT ![t] = l], owner' \in [Accounts -> Nat],
         \A a \in Accounts : owner'[a] = t <=> a \in Kept(t)',
         \A a \in Accounts : \A u \in Payer : u # t => (owner'[a] = u <=> owner[a] = u),
         l \in {"begin", "print", "ended"} \/ plan[t].from # plan[t].to
  PROVE  /\ stand' \in [Payer' -> Stand] /\ AcceptedOnly' /\ OwnersStand'
         /\ Payer' = Payer /\ Sums' = Sums
<1>0. BankTyped /\ AcceptedOnly /\ OwnersStand
  BY DEF BankInv
<1>1. Payer' = Payer /\ Sums' = Sums
  BY DEF Payer, Sums
<1>2. /\ stand' \in [Payer -> Stand] /\ stand'[t] = l
      /\ \A u \in Payer : u # t => stand'[u] = stand[u]
  BY <1>0 DEF BankTyped
<1>3. AcceptedOnly'
  BY <1>0, <1>1, <1>2 DEF AcceptedOnly
<1>4. \A u \in Payer : u # t => Kept(u)' = Kept(u)
  BY <1>2 DEF Kept, Low, High
<1>5. OwnersStand'
  <2> SUFFICES ASSUME NEW u \in Payer, NEW a \in Accounts
               PROVE  owner'[a] = u <=> a \in Kept(u)'
    BY <1>1 DEF OwnersStand
  <2>1. CASE u = t
    BY <2>1
  <2>2. CASE u # t
    BY <1>0, <1>4, <2>2 DEF OwnersStand
  <2> QED BY <2>1, <2>2
<1> QED BY <1>1, <1>2, <1>3, <1>5

\* Money in hand when t alone goes on and the balances stay.
LEMMA MoneyStays ==
  ASSUME BankInv, balance' = balance, Payer' = Payer, Sums' = Sums,
         \A t \in Payer : stand[t] \in {"deposit", "hung"} <=> stand'[t] \in {"deposit", "hung"}
  PROVE  MoneyKept'
<1>1. InHand' = InHand
  BY DEF InHand
<1> QED BY <1>1 DEF BankInv, MoneyKept

\* Every step but the withdrawal leaves the money where it is.
LEMMA BankStepKeeps ==
  ASSUME BankInv, NEW t \in Payer,
         \/ Banking!Refuse(t) \/ Banking!Accept(t) \/ Banking!LockFirst(t)
         \/ Banking!LockSecond(t) \/ Banking!Wait(t) \/ Banking!WakeUp(t)
         \/ Banking!Deposit(t) \/ Banking!PrintResult(t)
  PROVE  BankInv'
<1>0. BankTyped /\ AcceptedOnly /\ OwnersStand /\ MoneyKept
  BY DEF BankInv
<1>1. plan' = plan /\ balance' = balance
  BY DEF Banking!Refuse, Banking!Accept, Banking!LockFirst, Banking!LockSecond, Banking!Wait,
         Banking!WakeUp, Banking!Lock, Banking!Deposit, Banking!PrintResult
<1>2. /\ plan[t].from \in Accounts /\ plan[t].to \in Accounts /\ t \in Nat /\ t # 0
      /\ Banking!Min({plan[t].from, plan[t].to}) = Low(t)
      /\ Banking!Max({plan[t].from, plan[t].to}) = High(t)
      /\ Low(t) \in Accounts /\ High(t) \in Accounts
      /\ {Low(t), High(t)} = {plan[t].from, plan[t].to}
      /\ plan[t].from # plan[t].to => Low(t) # High(t)
  BY <1>0, Transfers, LowAndHigh
<1>3. /\ Low(t)' = Low(t) /\ High(t)' = High(t)
      /\ \A u \in Payer : u \in Nat /\ u # 0
      /\ \A a \in Accounts : owner[a] \in Nat
  BY <1>0, <1>1, Transfers DEF Low, High, BankTyped
<1> DEFINE Ends(l) == /\ stand' = [stand EXCEPT ![t] = l]
                      /\ l \in Stand
                      /\ stand[t] \notin {"deposit", "hung"} <=> l \notin {"deposit", "hung"}
                      /\ owner' \in [Accounts -> Nat]
                      /\ \A a \in Accounts : owner'[a] = t <=> a \in Kept(t)'
                      /\ \A a \in Accounts : \A u \in Payer :
                           u # t => (owner'[a] = u <=> owner[a] = u)
                      /\ l \in {"begin", "print", "ended"} \/ plan[t].from # plan[t].to
<1>4. ASSUME NEW l, Ends(l)
      PROVE  BankInv'
  <2>1. /\ stand' \in [Payer' -> Stand] /\ AcceptedOnly' /\ OwnersStand'
        /\ Payer' = Payer /\ Sums' = Sums
    BY <1>1, <1>4, TransferMoves
  <2>2. BankTyped'
    BY <1>0, <1>1, <1>4, <2>1 DEF BankTyped
  <2>3. \A u \in Payer : stand[u] \in {"deposit", "hung"} <=> stand'[u] \in {"deposit", "hung"}
    BY <1>0, <1>4 DEF BankTyped
  <2>4. MoneyKept'
    BY <1>1, <2>1, <2>3, MoneyStays
  <2> QED BY <2>1, <2>2, <2>4 DEF BankInv
<1>5. CASE Banking!Refuse(t)
  <2>1. stand[t] = "begin" /\ stand' = [stand EXCEPT ![t] = "print"] /\ owner' = owner
    BY <1>5 DEF Banking!Refuse, Banking!Goto
  <2>2. Kept(t) = {} /\ Kept(t)' = {}
    BY <1>0, <2>1 DEF Kept, BankTyped
  <2>3. Ends("print")
    BY <1>0, <1>1, <2>1, <2>2 DEF BankTyped, OwnersStand, Stand
  <2> QED BY <1>4, <2>3
<1>6. CASE Banking!Accept(t)
  <2>1. /\ stand[t] = "begin" /\ stand' = [stand EXCEPT ![t] = "lock1"] /\ owner' = owner
        /\ plan[t].from # plan[t].to
    BY <1>6 DEF Banking!Accept, Banking!Goto, Banking!from, Banking!to
  <2>2. Kept(t) = {} /\ Kept(t)' = {}
    BY <1>0, <2>1 DEF Kept, BankTyped
  <2>3. Ends("lock1")
    BY <1>0, <1>1, <2>1, <2>2 DEF BankTyped, OwnersStand, Stand
  <2> QED BY <1>4, <2>3
<1>7. CASE Banking!PrintResult(t)
  <2>1. stand[t] = "print" /\ stand' = [stand EXCEPT ![t] = "ended"] /\ owner' = owner
    BY <1>7 DEF Banking!PrintResult, Banking!Goto
  <2>2. Kept(t) = {} /\ Kept(t)' = {}
    BY <1>0, <2>1 DEF Kept, BankTyped
  <2>3. Ends("ended")
    BY <1>0, <1>1, <2>1, <2>2 DEF BankTyped, OwnersStand, Stand
  <2> QED BY <1>4, <2>3
<1>8. CASE Banking!Deposit(t)
  <2>1. stand[t] = "deposit" /\ owner' = owner
    BY <1>8 DEF Banking!Deposit
  <2>2. PICK l \in {"deposit", "hung"} : stand' = [stand EXCEPT ![t] = l]
    BY <1>0, <1>8 DEF Banking!Deposit, Banking!Goto, BankTyped
  <2>3. Kept(t)' = Kept(t)
    BY <1>0, <1>1, <2>1, <2>2 DEF Kept, BankTyped
  <2>5. plan[t].from # plan[t].to
    BY <1>0, <2>1 DEF AcceptedOnly
  <2>6. /\ owner' \in [Accounts -> Nat]
        /\ \A a \in Accounts : owner'[a] = t <=> a \in Kept(t)'
        /\ \A a \in Accounts : \A u \in Payer : owner'[a] = u <=> owner[a] = u
    BY <1>0, <2>1, <2>3 DEF BankTyped, OwnersStand
  <2>7. l \in Stand
    BY DEF Stand
  <2>4. Ends(l)
    BY <2>1, <2>2, <2>5, <2>6, <2>7
  <2> QED BY <1>4, <2>4
<1>9. CASE Banking!Wait(t)
  <2>1. /\ stand[t] = "test" /\ stand' = [stand EXCEPT ![t] = "asleep"]
        /\ owner' = [owner EXCEPT ![plan[t].from] = 0]
    BY <1>9 DEF Banking!Wait, Banking!Goto, Banking!from
  <2>2. Kept(t) = {plan[t].from, plan[t].to} /\ Kept(t)' = {plan[t].to}
    BY <1>0, <1>1, <2>1 DEF Kept, BankTyped
  <2>3. plan[t].from # plan[t].to
    BY <1>0, <2>1 DEF AcceptedOnly
  <2>4. owner[plan[t].from] = t
    BY <1>0, <1>2, <2>2 DEF OwnersStand
  <2>5. owner' \in [Accounts -> Nat] /\ owner'[plan[t].from] = 0
    BY <1>0, <1>2, <2>1 DEF BankTyped
  <2>6. \A a \in Accounts : a # plan[t].from => owner'[a] = owner[a]
    BY <1>0, <2>1 DEF BankTyped
  <2>7. \A a \in Accounts : owner'[a] = t <=> a \in Kept(t)'
    BY <1>0, <1>2, <2>2, <2>3, <2>5, <2>6 DEF OwnersStand
  <2>8. \A a \in Accounts : \A u \in Payer : u # t => (owner'[a] = u <=> owner[a] = u)
    BY <1>3, <2>4, <2>5, <2>6
  <2>9. Ends("asleep")
    BY <2>1, <2>3, <2>5, <2>7, <2>8 DEF Stand
  <2> QED BY <1>4, <2>9
<1>10. ASSUME NEW c \in Accounts, NEW l \in Stand, Banking!Lock(t, c, l),
              stand[t] \in {"lock1", "lock2", "asleep"},
              l \in {"lock2", "test"}, Kept(t)' = Kept(t) \cup {c}
       PROVE  BankInv'
  <2>1. /\ owner[c] = 0 /\ owner' = [owner EXCEPT ![c] = t]
        /\ stand' = [stand EXCEPT ![t] = l]
    BY <1>10 DEF Banking!Lock, Banking!Goto
  <2>2. plan[t].from # plan[t].to
    BY <1>0, <1>10 DEF AcceptedOnly
  <2>3. /\ owner' \in [Accounts -> Nat] /\ owner'[c] = t
        /\ \A a \in Accounts : a # c => owner'[a] = owner[a]
    BY <1>0, <1>2, <1>10, <2>1 DEF BankTyped
  <2>4. \A a \in Accounts : owner'[a] = t <=> a \in Kept(t)'
    BY <1>0, <1>10, <2>3 DEF OwnersStand
  <2>5. \A a \in Accounts : \A u \in Payer : u # t => (owner'[a] = u <=> owner[a] = u)
    BY <1>3, <2>1, <2>3
  <2>6. Ends(l)
    BY <1>10, <2>1, <2>2, <2>3, <2>4, <2>5
  <2> QED BY <1>4, <2>6
<1> HIDE DEF Ends
<1>11. CASE Banking!LockFirst(t)
  <2>1. stand[t] = "lock1" /\ Banking!Lock(t, Low(t), "lock2")
    BY <1>2, <1>11 DEF Banking!LockFirst, Banking!from, Banking!to
  <2>2. stand' = [stand EXCEPT ![t] = "lock2"]
    BY <2>1 DEF Banking!Lock, Banking!Goto
  <2>3. Kept(t)' = Kept(t) \cup {Low(t)}
    BY <1>0, <1>3, <2>1, <2>2 DEF Kept, BankTyped
  <2> QED BY <1>2, <1>10, <2>1, <2>3 DEF Stand
<1>12. CASE Banking!LockSecond(t)
  <2>1. stand[t] = "lock2" /\ Banking!Lock(t, High(t), "test")
    BY <1>2, <1>12 DEF Banking!LockSecond, Banking!from, Banking!to
  <2>2. stand' = [stand EXCEPT ![t] = "test"]
    BY <2>1 DEF Banking!Lock, Banking!Goto
  <2>3. Kept(t) = {Low(t)} /\ Kept(t)' = {plan[t].from, plan[t].to}
    BY <1>0, <1>1, <2>1, <2>2 DEF Kept, BankTyped
  <2>4. Kept(t)' = Kept(t) \cup {High(t)}
    BY <1>2, <2>3
  <2> QED BY <1>2, <1>10, <2>1, <2>4 DEF Stand
<1>13. CASE Banking!WakeUp(t)
  <2>1. stand[t] = "asleep" /\ Banking!Lock(t, plan[t].from, "test")
    BY <1>13 DEF Banking!WakeUp, Banking!from
  <2>2. stand' = [stand EXCEPT ![t] = "test"]
    BY <2>1 DEF Banking!Lock, Banking!Goto
  <2>3. Kept(t)' = Kept(t) \cup {plan[t].from}
    BY <1>0, <1>1, <2>1, <2>2 DEF Kept, BankTyped
  <2> QED BY <1>2, <1>10, <2>1, <2>3 DEF Stand
<1> QED BY <1>5, <1>6, <1>7, <1>8, <1>9, <1>11, <1>12, <1>13

\* The withdrawal takes the money in hand.
LEMMA WithdrawKeeps ==
  ASSUME BankInv, NEW t \in Payer, Banking!Withdraw(t)
  PROVE  BankInv'
<1> DEFINE from == plan[t].from
           amount == plan[t].amount
<1>0. BankTyped /\ AcceptedOnly /\ OwnersStand /\ MoneyKept
  BY DEF BankInv
<1>1. /\ stand[t] = "test" /\ balance[from] >= amount
      /\ balance' = [balance EXCEPT ![from] = @ - amount]
      /\ stand' = [stand EXCEPT ![t] = "deposit"]
      /\ plan' = plan /\ owner' = owner
  BY DEF Banking!Withdraw, Banking!Goto, Banking!from, Banking!amount
<1>2. /\ from \in Accounts /\ amount \in Int /\ IsFiniteSet(Accounts) /\ IsFiniteSet(Payer)
      /\ \A u \in Payer : plan[u].amount \in Int
  BY <1>0, Transfers, BankConstants
<1>3. /\ stand' \in [Payer' -> Stand] /\ AcceptedOnly' /\ OwnersStand'
      /\ Payer' = Payer /\ Sums' = Sums
  <2>1. Kept(t)' = Kept(t)
    BY <1>0, <1>1 DEF Kept, BankTyped
  <2>2. /\ owner' \in [Accounts -> Nat]
        /\ \A a \in Accounts : owner'[a] = t <=> a \in Kept(t)'
    BY <1>0, <1>1, <2>1 DEF OwnersStand, BankTyped
  <2>3. plan[t].from # plan[t].to
    BY <1>0, <1>1 DEF AcceptedOnly
  <2>4. "deposit" \in Stand
    BY DEF Stand
  <2> QED BY <1>1, <2>2, <2>3, <2>4, TransferMoves
<1>4. /\ balance' \in [Accounts -> Nat] /\ balance'[from] = balance[from] - amount
      /\ balance[from] \in Nat /\ \A a \in Accounts \ {from} : balance'[a] = balance[a]
  BY <1>0, <1>1, <1>2 DEF BankTyped
<1>5. BankTyped'
  BY <1>0, <1>1, <1>3, <1>4 DEF BankTyped
<1> HIDE DEF from, amount
<1>6. /\ Total(balance, Accounts) \in Int
      /\ Total(balance', Accounts) = Total(balance, Accounts) + balance'[from] - balance[from]
  <2>1. \A a \in Accounts : balance[a] \in Int /\ balance'[a] \in Int
    BY <1>0, <1>4 DEF BankTyped
  <2>2. \A a \in Accounts \ {from} : balance[a] = balance'[a]
    BY <1>4
  <2> QED BY <1>2, <2>1, <2>2, TotalChanges
<1>7. /\ InHand' = InHand \cup {t} /\ t \notin InHand /\ InHand \in SUBSET Payer
  BY <1>0, <1>1, <1>3 DEF InHand, BankTyped
<1>8. /\ Total(Sums, InHand') = amount + Total(Sums, InHand)
      /\ Total(Sums, InHand) \in Int
  <2>1. /\ IsFiniteSet(InHand) /\ IsFiniteSet(InHand')
        /\ InHand' \in SUBSET Payer /\ InHand' \ {t} = InHand /\ t \in InHand'
    BY <1>2, <1>7, FS_Subset
  <2>2. /\ \A u \in InHand' : Sums[u] \in Int
        /\ \A u \in InHand : Sums[u] \in Int
        /\ Sums[t] = amount
    BY <1>2, <1>7, <2>1 DEF Sums, amount
  <2>3. Total(Sums, InHand) \in Int
    BY <2>1, <2>2, TotalIsInt
  <2>4. Total(Sums, InHand') = Sums[t] + Total(Sums, InHand' \ {t})
    BY <2>1, <2>2, TotalAdds
  <2> QED BY <2>1, <2>2, <2>3, <2>4
<1>9. Total(balance', Accounts) + Total(Sums, InHand') = Total(balance, Accounts) + Total(Sums, InHand)
  BY <1>2, <1>4, <1>6, <1>8
<1>10. MoneyKept'
  BY <1>0, <1>3, <1>9 DEF MoneyKept
<1> QED BY <1>3, <1>5, <1>10 DEF BankInv

LEMMA BankStands == BankInv /\ UNCHANGED <<plan, balance, owner, stand>> => BankInv'
<1> SUFFICES ASSUME BankInv, UNCHANGED <<plan, balance, owner, stand>> PROVE BankInv'
  OBVIOUS
<1>1. Payer' = Payer /\ Sums' = Sums /\ \A t : Kept(t)' = Kept(t)
  BY DEF Payer, Sums, Kept, Low, High
<1>2. BankTyped' /\ AcceptedOnly' /\ OwnersStand'
  BY <1>1 DEF BankInv, BankTyped, AcceptedOnly, OwnersStand
<1>3. MoneyKept'
  BY <1>1, MoneyStays
<1> QED BY <1>2, <1>3 DEF BankInv

LEMMA BankNext == BankInv /\ Banking!Next => BankInv'
<1> SUFFICES ASSUME BankInv, Banking!Next PROVE BankInv'
  OBVIOUS
<1>1. CASE Banking!PrintTotal
  BY <1>1, BankStands DEF Banking!PrintTotal
<1>2. CASE \E t \in Payer : Banking!TransferStep(t) \/ (Banking!Running /\ Banking!WakeUp(t))
  BY <1>2, BankStepKeeps, WithdrawKeeps DEF Banking!TransferStep
<1> QED BY <1>1, <1>2 DEF Banking!Next, Banking!Client, Payer

LEMMA BankInvariant == Spec => [](program = "Bank" => BankInv)
<1>1. Init => (program = "Bank" => BankInv)
  BY BankInit DEF Init
<1>2. (program = "Bank" => BankInv) /\ [Next]_vars => (program = "Bank" => BankInv)'
  BY BankNext, BankStands DEF Next, vars, bankVars
<1> QED BY <1>1, <1>2, PTL DEF Spec

\* In every state of the bank no two transfers wait for each other on their way into
\* the accounts, no account is overdrawn, and the balances and the sums in hand are
\* together what the accounts began with: for any accounts, threads and transfers.
THEOREM MoneyIsConserved == Spec => []BankConsistent
<1>1. (program = "Bank" => BankInv) => BankConsistent
  BY BankImplies DEF BankConsistent
<1> QED BY <1>1, BankInvariant, PTL
----------------------------------------------------------------------------
(***************************************************************************)
(* CoroutineBank.  Who has an operation on the strand is suspended, so the sums   *)
(* of a coroutine no longer change when it adds them to the totals.           *)
(***************************************************************************)
Coroutines == 1..Clients
Adding == {c \in Coroutines : phase[c] \in {"addWithdrawals", "done"}}
Added == {c \in Coroutines : phase[c] = "done"}

AccountTyped == /\ balance_ \in Nat
                /\ deposited \in [Coroutines -> Nat]
                /\ withdrawn \in [Coroutines -> Nat]
                /\ phase \in [Coroutines -> {"operate", "suspended", "addWithdrawals", "done"}]
                /\ strand \in Seq(Nat \X Nat)
                /\ pool \in BOOLEAN

PostedAreSuspended ==
  pool => /\ \A i \in 1..Len(strand) : /\ strand[i][1] \in Coroutines
                                       /\ phase[strand[i][1]] = "suspended"
          /\ \A i, j \in 1..Len(strand) : strand[i][1] = strand[j][1] => i = j

PoolEndsLast == ~pool => Added = Coroutines

TotalsFollow == /\ balance_ = Total(deposited, Coroutines) - Total(withdrawn, Coroutines)
                /\ total_deposited = Total(deposited, Adding)
                /\ total_withdrawn = Total(withdrawn, Added)

AccountInv == AccountTyped /\ PostedAreSuspended /\ PoolEndsLast /\ TotalsFollow

LEMMA AccountConstants == /\ Clients \in Nat /\ Amounts \subseteq Nat
                          /\ IsFiniteSet(Coroutines) /\ Account!Coroutine = Coroutines
<1>1. Account!AccountAssumption
  BY ExercisesAssumption, Zenon
<1>2. Clients \in Nat /\ Amounts \subseteq Nat /\ Account!Coroutine = Coroutines
  BY <1>1 DEF Account!AccountAssumption, Account!Coroutine, Coroutines
<1> QED BY <1>2, FS_Interval DEF Coroutines

\* The sums of some coroutines are natural numbers.
LEMMA SumsOfSome ==
  ASSUME AccountTyped, NEW S \in SUBSET Coroutines
  PROVE  /\ IsFiniteSet(S)
         /\ Total(deposited, S) \in Int /\ Total(withdrawn, S) \in Int
         /\ \A c \in Coroutines : deposited[c] \in Int /\ withdrawn[c] \in Int
<1>1. IsFiniteSet(S)
  BY AccountConstants, FS_Subset
<1>2. \A c \in Coroutines : deposited[c] \in Int /\ withdrawn[c] \in Int
  BY DEF AccountTyped
<1>3. Total(deposited, S) \in Int
  BY <1>1, <1>2, TotalIsInt
<1>4. Total(withdrawn, S) \in Int
  BY <1>1, <1>2, TotalIsInt
<1> QED BY <1>1, <1>2, <1>3, <1>4

LEMMA AccountImplies == AccountInv => Account!AccountConsistent
<1> SUFFICES ASSUME AccountInv PROVE Account!AccountConsistent
  OBVIOUS
<1>0. AccountTyped /\ PoolEndsLast /\ TotalsFollow
  BY DEF AccountInv
<1> DEFINE own == [c \in Coroutines |-> deposited[c] - withdrawn[c]]
           g == CHOOSE g : g = [s \in SUBSET Coroutines |-> IF s = {} THEN 0
                   ELSE deposited[Taken(s)] - withdrawn[Taken(s)] + g[s \ {Taken(s)}]]
<1>1. Account!MapThenSumSet(LAMBDA c : deposited[c] - withdrawn[c], Account!Coroutine)
        = g[Coroutines]
  BY DEF Account!MapThenSumSet, Account!MapThenFoldSet, Taken, Account!Coroutine, Coroutines
<1>2. PICK h : IsSum(h, own, Coroutines)
  BY AccountConstants, SumExists
<1>3. \A s \in SUBSET Coroutines :
        s # {} => own[Taken(s)] = deposited[Taken(s)] - withdrawn[Taken(s)]
  BY TakenIsMember
<1>4. h = [s \in SUBSET Coroutines |-> IF s = {} THEN 0
             ELSE deposited[Taken(s)] - withdrawn[Taken(s)] + h[s \ {Taken(s)}]]
  <2> HIDE DEF own
  <2> QED BY <1>2, <1>3 DEF IsSum
<1>5. g = [s \in SUBSET Coroutines |-> IF s = {} THEN 0
             ELSE deposited[Taken(s)] - withdrawn[Taken(s)] + g[s \ {Taken(s)}]]
  BY <1>4
<1>6. IsSum(g, own, Coroutines)
  <2> HIDE DEF g, own
  <2> QED BY <1>3, <1>5 DEF IsSum
<1>7. g[Coroutines] = Total(own, Coroutines)
  <2>1. IsSum(CHOOSE k : IsSum(k, own, Coroutines), own, Coroutines)
    BY <1>2
  <2> HIDE DEF g, own
  <2> QED BY <1>6, <2>1, AccountConstants, SumIsUnique DEF Total
<1>8. Total(own, Coroutines) = Total(deposited, Coroutines) - Total(withdrawn, Coroutines)
  <2>1. \A c \in Coroutines : /\ deposited[c] \in Int /\ withdrawn[c] \in Int
                              /\ own[c] = deposited[c] - withdrawn[c]
    BY <1>0, SumsOfSome
  <2> HIDE DEF own
  <2> QED BY <2>1, AccountConstants, TotalOfDifferences
<1>9. ~pool => Added = Coroutines /\ Adding = Coroutines
  BY <1>0 DEF PoolEndsLast, Added, Adding
<1> HIDE DEF g, own
<1>10. balance_ = g[Coroutines] /\ balance_ >= 0
  BY <1>0, <1>7, <1>8 DEF TotalsFollow, AccountTyped
<1>11. balance_ = Account!MapThenSumSet(LAMBDA c : deposited[c] - withdrawn[c], Account!Coroutine)
  BY <1>1, <1>10
<1>12. ~pool => balance_ = total_deposited - total_withdrawn
  BY <1>0, <1>9 DEF TotalsFollow
<1> QED BY <1>10, <1>11, <1>12 DEF Account!AccountConsistent

LEMMA AccountInit == Account!Init => AccountInv
<1> SUFFICES ASSUME Account!Init PROVE AccountInv
  OBVIOUS
<1>1. /\ strand = <<>> /\ balance_ = 0 /\ pool = TRUE
      /\ phase = [c \in Coroutines |-> "operate"]
      /\ deposited = [c \in Coroutines |-> 0] /\ withdrawn = [c \in Coroutines |-> 0]
      /\ total_deposited = 0 /\ total_withdrawn = 0
  BY AccountConstants DEF Account!Init
<1>2. AccountTyped /\ PostedAreSuspended /\ PoolEndsLast
  BY <1>1 DEF AccountTyped, PostedAreSuspended, PoolEndsLast
<1>3. Adding = {} /\ Added = {}
  BY <1>1 DEF Adding, Added
<1>4. Total(deposited, {}) = 0 /\ Total(withdrawn, {}) = 0
  BY FS_EmptySet, TotalTakes
<1>5. Total(deposited, Coroutines) = Total(withdrawn, Coroutines)
  BY <1>1
<1>6. Total(withdrawn, Coroutines) \in Int
  BY <1>2, SumsOfSome
<1>7. TotalsFollow
  BY <1>1, <1>3, <1>4, <1>5, <1>6 DEF TotalsFollow
<1> QED BY <1>2, <1>7 DEF AccountInv

\* A coroutine posts an operation and suspends itself.
LEMMA PostKeeps ==
  ASSUME AccountInv, NEW c \in Coroutines, Account!PostOperation(c)
  PROVE  AccountInv'
<1>0. AccountTyped /\ PostedAreSuspended /\ PoolEndsLast /\ TotalsFollow
  BY DEF AccountInv
<1>1. PICK amount \in Amounts : strand' = Append(strand, <<c, amount>>)
  BY DEF Account!PostOperation
<1>2. /\ phase[c] = "operate" /\ phase' = [phase EXCEPT ![c] = "suspended"]
      /\ UNCHANGED <<balance_, deposited, withdrawn, total_deposited, total_withdrawn, pool>>
  BY DEF Account!PostOperation
<1>3. pool
  BY <1>0, <1>2 DEF PoolEndsLast, Added
<1>4. c \in Nat /\ amount \in Nat
  BY AccountConstants DEF Coroutines
<1>5. /\ strand' \in Seq(Nat \X Nat) /\ Len(strand') = Len(strand) + 1 /\ Len(strand) \in Nat
      /\ strand'[Len(strand) + 1][1] = c
      /\ \A i \in 1..Len(strand) : strand'[i] = strand[i]
  BY <1>0, <1>1, <1>4 DEF AccountTyped
<1>6. AccountTyped'
  BY <1>0, <1>2, <1>5 DEF AccountTyped
<1>7. PostedAreSuspended'
  <2>1. \A i \in 1..Len(strand) : /\ strand[i][1] \in Coroutines /\ strand[i][1] # c
                                  /\ phase[strand[i][1]] = "suspended"
    BY <1>0, <1>2, <1>3 DEF PostedAreSuspended
  <2>2. \A i \in 1..Len(strand') : i \in 1..Len(strand) \/ i = Len(strand) + 1
    BY <1>5
  <2>3. phase'[c] = "suspended" /\ \A d \in Coroutines : d # c => phase'[d] = phase[d]
    BY <1>0, <1>2 DEF AccountTyped
  <2>4. \A i \in 1..Len(strand') : /\ strand'[i][1] \in Coroutines
                                   /\ phase'[strand'[i][1]] = "suspended"
    BY <1>5, <2>1, <2>2, <2>3
  <2>5. \A i, j \in 1..Len(strand') : strand'[i][1] = strand'[j][1] => i = j
    BY <1>0, <1>3, <1>5, <2>1, <2>2 DEF PostedAreSuspended
  <2> QED BY <2>4, <2>5 DEF PostedAreSuspended
<1>8. Adding' = Adding /\ Added' = Added
  BY <1>0, <1>2 DEF Adding, Added, AccountTyped
<1>9. PoolEndsLast' /\ TotalsFollow'
  BY <1>0, <1>2, <1>8 DEF PoolEndsLast, TotalsFollow
<1> QED BY <1>6, <1>7, <1>9 DEF AccountInv

\* The strand runs the operation of a coroutine, which is in no total yet.
LEMMA OperateKeeps ==
  ASSUME AccountInv, Account!RunStrand
  PROVE  AccountInv'
<1> DEFINE c == strand[1][1]
           amount == strand[1][2]
<1>0. AccountTyped /\ PostedAreSuspended /\ PoolEndsLast /\ TotalsFollow
  BY DEF AccountInv
<1>1. pool /\ strand # <<>> /\ strand' = Tail(strand)
  BY DEF Account!RunStrand
<1>2. /\ Len(strand) \in Nat /\ Len(strand) >= 1 /\ Head(strand) = strand[1]
      /\ strand' \in Seq(Nat \X Nat) /\ Len(strand') = Len(strand) - 1
      /\ \A i \in 1..Len(strand') : strand'[i] = strand[i + 1]
      /\ strand[1] \in Nat \X Nat
  BY <1>0, <1>1 DEF AccountTyped
<1>3. /\ c \in Coroutines /\ phase[c] = "suspended" /\ amount \in Nat /\ c # 0
  BY <1>0, <1>1, <1>2 DEF PostedAreSuspended, Coroutines
<1>4. /\ Account!Operate(c, amount)
      /\ UNCHANGED <<total_deposited, total_withdrawn, pool>>
  BY <1>2, <1>3 DEF Account!RunStrand, Account!Main
<1> HIDE DEF c, amount
<1>5. phase' = [phase EXCEPT ![c] = "operate"]
  BY <1>4 DEF Account!Operate
<1>6. \/ /\ balance_' = balance_ + amount /\ withdrawn' = withdrawn
         /\ deposited' = [deposited EXCEPT ![c] = @ + amount]
      \/ UNCHANGED <<balance_, deposited, withdrawn>>
      \/ /\ balance_' = balance_ - amount /\ balance_ >= amount /\ deposited' = deposited
         /\ withdrawn' = [withdrawn EXCEPT ![c] = @ + amount]
  <2>1. balance_ \in Nat
    BY <1>0 DEF AccountTyped
  <2>2. CASE Account!IsDeposit(c)
    BY <1>4, <2>2 DEF Account!Operate, Account!Deposit
  <2>3. CASE ~Account!IsDeposit(c)
    BY <1>3, <1>4, <2>1, <2>3 DEF Account!Operate, Account!Withdraw
  <2> QED BY <2>2, <2>3
<1>7. PICK d \in Nat, w \in Nat :
        /\ deposited' = [deposited EXCEPT ![c] = @ + d]
        /\ withdrawn' = [withdrawn EXCEPT ![c] = @ + w]
        /\ balance_' = balance_ + d - w /\ balance_' \in Nat
  <2>1. /\ balance_ \in Nat /\ deposited \in [Coroutines -> Nat] /\ withdrawn \in [Coroutines -> Nat]
    BY <1>0 DEF AccountTyped
  <2>2. /\ deposited = [deposited EXCEPT ![c] = @ + 0]
        /\ withdrawn = [withdrawn EXCEPT ![c] = @ + 0]
    BY <1>3, <2>1
  <2>3. CASE /\ balance_' = balance_ + amount /\ withdrawn' = withdrawn
             /\ deposited' = [deposited EXCEPT ![c] = @ + amount]
    <3>1. /\ withdrawn' = [withdrawn EXCEPT ![c] = @ + 0] /\ 0 \in Nat
          /\ balance_' = balance_ + amount - 0 /\ balance_' \in Nat
      BY <1>3, <2>1, <2>2, <2>3
    <3> QED BY <1>3, <2>3, <3>1
  <2>4. CASE UNCHANGED <<balance_, deposited, withdrawn>>
    <3>1. /\ withdrawn' = [withdrawn EXCEPT ![c] = @ + 0] /\ 0 \in Nat
          /\ deposited' = [deposited EXCEPT ![c] = @ + 0]
          /\ balance_' = balance_ + 0 - 0 /\ balance_' \in Nat
      BY <2>1, <2>2, <2>4
    <3> QED BY <3>1
  <2>5. CASE /\ balance_' = balance_ - amount /\ balance_ >= amount /\ deposited' = deposited
             /\ withdrawn' = [withdrawn EXCEPT ![c] = @ + amount]
    <3>1. /\ deposited' = [deposited EXCEPT ![c] = @ + 0] /\ 0 \in Nat
          /\ balance_' = balance_ + 0 - amount /\ balance_' \in Nat
      BY <1>3, <2>1, <2>2, <2>5
    <3> QED BY <1>3, <2>5, <3>1
  <2> QED BY <1>6, <2>3, <2>4, <2>5
<1>8. /\ deposited' \in [Coroutines -> Nat] /\ deposited'[c] = deposited[c] + d
      /\ withdrawn' \in [Coroutines -> Nat] /\ withdrawn'[c] = withdrawn[c] + w
      /\ deposited[c] \in Nat /\ withdrawn[c] \in Nat
      /\ \A e \in Coroutines \ {c} : deposited'[e] = deposited[e] /\ withdrawn'[e] = withdrawn[e]
      /\ phase'[c] = "operate" /\ \A e \in Coroutines \ {c} : phase'[e] = phase[e]
      /\ phase' \in [Coroutines -> {"operate", "suspended", "addWithdrawals", "done"}]
  BY <1>0, <1>3, <1>5, <1>7 DEF AccountTyped
<1>9. AccountTyped'
  BY <1>0, <1>2, <1>4, <1>7, <1>8 DEF AccountTyped
<1>10. PostedAreSuspended'
  <2>1. /\ \A i \in 1..Len(strand') : i + 1 \in 1..Len(strand) /\ i + 1 # 1 /\ i \in Nat
        /\ 1 \in 1..Len(strand)
    BY <1>2
  <2>2. \A i \in 1..Len(strand') : /\ strand'[i][1] \in Coroutines /\ strand'[i][1] # c
                                   /\ phase[strand'[i][1]] = "suspended"
    BY <1>0, <1>1, <1>2, <2>1 DEF PostedAreSuspended, c
  <2>3. \A i \in 1..Len(strand') : phase'[strand'[i][1]] = "suspended"
    BY <1>8, <2>2
  <2>4. ASSUME NEW i \in 1..Len(strand'), NEW j \in 1..Len(strand'),
               strand'[i][1] = strand'[j][1]
        PROVE  i = j
    <3>1. strand[i + 1][1] = strand[j + 1][1]
      BY <1>2, <2>4
    <3>2. i + 1 = j + 1
      BY <1>0, <1>1, <2>1, <3>1 DEF PostedAreSuspended
    <3> QED BY <2>1, <3>2
  <2> QED BY <2>2, <2>3, <2>4 DEF PostedAreSuspended
<1>11. Adding' = Adding /\ Added' = Added /\ c \notin Adding /\ c \notin Added
       /\ Adding \in SUBSET Coroutines /\ Added \in SUBSET Coroutines
  BY <1>0, <1>3, <1>8 DEF Adding, Added, AccountTyped
<1>12. PoolEndsLast'
  BY <1>1, <1>4 DEF PoolEndsLast
<1>13. /\ Total(deposited', Coroutines) = Total(deposited, Coroutines) + deposited'[c] - deposited[c]
       /\ Total(withdrawn', Coroutines) = Total(withdrawn, Coroutines) + withdrawn'[c] - withdrawn[c]
  <2>1. \A e \in Coroutines : /\ deposited[e] \in Int /\ deposited'[e] \in Int
                              /\ withdrawn[e] \in Int /\ withdrawn'[e] \in Int
    BY <1>0, <1>8 DEF AccountTyped
  <2>2. \A e \in Coroutines \ {c} : deposited[e] = deposited'[e] /\ withdrawn[e] = withdrawn'[e]
    BY <1>8
  <2>3. Total(deposited', Coroutines) = Total(deposited, Coroutines) + deposited'[c] - deposited[c]
    BY <1>3, <2>1, <2>2, AccountConstants, TotalChanges
  <2>4. Total(withdrawn', Coroutines) = Total(withdrawn, Coroutines) + withdrawn'[c] - withdrawn[c]
    BY <1>3, <2>1, <2>2, AccountConstants, TotalChanges
  <2> QED BY <2>3, <2>4
<1>14. /\ Total(deposited', Adding) = Total(deposited, Adding)
       /\ Total(withdrawn', Added) = Total(withdrawn, Added)
  <2>1. IsFiniteSet(Adding) /\ IsFiniteSet(Added)
    BY <1>11, AccountConstants, FS_Subset
  <2>2. /\ \A e \in Adding : deposited'[e] = deposited[e]
        /\ \A e \in Added : withdrawn'[e] = withdrawn[e]
    BY <1>8, <1>11
  <2>3. Total(deposited', Adding) = Total(deposited, Adding)
    BY <2>1, <2>2, TotalOfEquals
  <2>4. Total(withdrawn', Added) = Total(withdrawn, Added)
    BY <2>1, <2>2, TotalOfEquals
  <2> QED BY <2>3, <2>4
<1>15. balance_' = Total(deposited', Coroutines) - Total(withdrawn', Coroutines)
  <2>1. Total(deposited, Coroutines) \in Int /\ Total(withdrawn, Coroutines) \in Int
    BY <1>0, SumsOfSome
  <2>2. balance_ = Total(deposited, Coroutines) - Total(withdrawn, Coroutines)
    BY <1>0 DEF TotalsFollow
  <2> QED BY <1>7, <1>8, <1>13, <2>1, <2>2
<1>16. TotalsFollow'
  BY <1>0, <1>4, <1>11, <1>14, <1>15 DEF TotalsFollow
<1> QED BY <1>9, <1>10, <1>12, <1>16 DEF AccountInv

\* A coroutine adds one of its sums to the total.
LEMMA AddKeeps ==
  ASSUME AccountInv, NEW c \in Coroutines, Account!AddDeposits(c) \/ Account!AddWithdrawals(c)
  PROVE  AccountInv'
<1>0. AccountTyped /\ PostedAreSuspended /\ PoolEndsLast /\ TotalsFollow
  BY DEF AccountInv
<1>1. UNCHANGED <<strand, balance_, deposited, withdrawn, pool>>
  BY DEF Account!AddDeposits, Account!AddWithdrawals
<1>2. PICK l \in {"addWithdrawals", "done"} : phase' = [phase EXCEPT ![c] = l]
  BY DEF Account!AddDeposits, Account!AddWithdrawals
<1>3. phase[c] \in {"operate", "addWithdrawals"}
  BY DEF Account!AddDeposits, Account!AddWithdrawals
<1>4. /\ phase' \in [Coroutines -> {"operate", "suspended", "addWithdrawals", "done"}]
      /\ phase'[c] = l /\ \A e \in Coroutines : e # c => phase'[e] = phase[e]
  BY <1>0, <1>2 DEF AccountTyped
<1>5. pool
  BY <1>0, <1>3 DEF PoolEndsLast, Added
<1>6. AccountTyped' /\ PoolEndsLast'
  BY <1>0, <1>1, <1>4, <1>5 DEF AccountTyped, PoolEndsLast
<1>7. PostedAreSuspended'
  <2>1. \A i \in 1..Len(strand) : strand[i][1] # c
    BY <1>0, <1>3, <1>5 DEF PostedAreSuspended
  <2> QED BY <1>0, <1>1, <1>4, <1>5, <2>1 DEF PostedAreSuspended
<1>8. CASE Account!AddDeposits(c)
  <2>1. /\ phase[c] = "operate" /\ phase' = [phase EXCEPT ![c] = "addWithdrawals"]
        /\ total_deposited' = total_deposited + deposited[c] /\ total_withdrawn' = total_withdrawn
    BY <1>8 DEF Account!AddDeposits
  <2>2. /\ Added' = Added /\ Adding' \ {c} = Adding /\ c \in Adding'
        /\ Adding' \in SUBSET Coroutines /\ Adding \in SUBSET Coroutines
    BY <1>0, <2>1 DEF Adding, Added, AccountTyped
  <2>3. Total(deposited, Adding') = deposited[c] + Total(deposited, Adding' \ {c})
    <3>1. IsFiniteSet(Adding') /\ \A e \in Adding' : deposited[e] \in Int
      BY <1>0, <2>2, SumsOfSome
    <3> QED BY <2>2, <3>1, TotalAdds
  <2>4. Total(deposited, Adding) \in Int /\ deposited[c] \in Int
    BY <1>0, <2>2, SumsOfSome
  <2>5. total_deposited' = Total(deposited, Adding')
    <3>1. total_deposited = Total(deposited, Adding)
      BY <1>0 DEF TotalsFollow
    <3>2. Total(deposited, Adding') = deposited[c] + Total(deposited, Adding)
      BY <2>2, <2>3
    <3> QED BY <2>1, <2>4, <3>1, <3>2
  <2>6. TotalsFollow'
    BY <1>0, <1>1, <2>1, <2>2, <2>5 DEF TotalsFollow
  <2> QED BY <1>6, <1>7, <2>6 DEF AccountInv
<1>9. CASE Account!AddWithdrawals(c)
  <2>1. /\ phase[c] = "addWithdrawals" /\ phase' = [phase EXCEPT ![c] = "done"]
        /\ total_withdrawn' = total_withdrawn + withdrawn[c] /\ total_deposited' = total_deposited
    BY <1>9 DEF Account!AddWithdrawals
  <2>2. /\ Adding' = Adding /\ Added' \ {c} = Added /\ c \in Added'
        /\ Added' \in SUBSET Coroutines /\ Added \in SUBSET Coroutines
    BY <1>0, <2>1 DEF Adding, Added, AccountTyped
  <2>3. Total(withdrawn, Added') = withdrawn[c] + Total(withdrawn, Added' \ {c})
    <3>1. IsFiniteSet(Added') /\ \A e \in Added' : withdrawn[e] \in Int
      BY <1>0, <2>2, SumsOfSome
    <3> QED BY <2>2, <3>1, TotalAdds
  <2>4. Total(withdrawn, Added) \in Int /\ withdrawn[c] \in Int
    BY <1>0, <2>2, SumsOfSome
  <2>5. total_withdrawn' = Total(withdrawn, Added')
    <3>1. total_withdrawn = Total(withdrawn, Added)
      BY <1>0 DEF TotalsFollow
    <3>2. Total(withdrawn, Added') = withdrawn[c] + Total(withdrawn, Added)
      BY <2>2, <2>3
    <3> QED BY <2>1, <2>4, <3>1, <3>2
  <2>6. TotalsFollow'
    BY <1>0, <1>1, <2>1, <2>2, <2>5 DEF TotalsFollow
  <2> QED BY <1>6, <1>7, <2>6 DEF AccountInv
<1> QED BY <1>8, <1>9

\* The pool ends, and main asks when nobody is left to answer.
LEMMA PoolEndsKeeps ==
  ASSUME AccountInv, Account!PoolEnds \/ Account!Ask
  PROVE  AccountInv'
<1>0. AccountTyped /\ PostedAreSuspended /\ PoolEndsLast /\ TotalsFollow
  BY DEF AccountInv
<1>1. /\ UNCHANGED <<balance_, phase, deposited, withdrawn, total_deposited, total_withdrawn>>
      /\ pool' = FALSE
      /\ \A c \in Coroutines : phase[c] = "done"
      /\ strand' \in Seq(Nat \X Nat)
  <2>1. CASE Account!PoolEnds
    BY <1>0, <2>1, AccountConstants DEF Account!PoolEnds, AccountTyped
  <2>2. CASE Account!Ask
    <3>1. \A c \in Coroutines : phase[c] = "done"
      BY <1>0, <2>2 DEF Account!Ask, PoolEndsLast, Added
    <3>2. strand' = Append(strand, <<0, 0>>)
      BY <2>2 DEF Account!Ask, Account!Main
    <3>3. strand' \in Seq(Nat \X Nat)
      BY <1>0, <3>2 DEF AccountTyped
    <3> QED BY <1>0, <2>2, <3>1, <3>3 DEF Account!Ask, AccountTyped
  <2> QED BY <2>1, <2>2
<1>2. AccountTyped' /\ PostedAreSuspended'
  BY <1>0, <1>1 DEF AccountTyped, PostedAreSuspended
<1>3. Added' = Added /\ Adding' = Adding /\ Added = Coroutines
  BY <1>1 DEF Adding, Added
<1>4. PoolEndsLast' /\ TotalsFollow'
  BY <1>0, <1>1, <1>3 DEF PoolEndsLast, TotalsFollow
<1> QED BY <1>2, <1>4 DEF AccountInv

LEMMA AccountNext == AccountInv /\ Account!Next => AccountInv'
  BY OperateKeeps, PostKeeps, AddKeeps, PoolEndsKeeps, AccountConstants
  DEF Account!Next, Account!ClientStep

LEMMA AccountStands == AccountInv /\ UNCHANGED accountVars => AccountInv'
<1> SUFFICES ASSUME AccountInv, UNCHANGED accountVars PROVE AccountInv'
  OBVIOUS
<1>1. Adding' = Adding /\ Added' = Added
  BY DEF Adding, Added, accountVars
<1> QED BY <1>1 DEF AccountInv, AccountTyped, PostedAreSuspended, PoolEndsLast, TotalsFollow,
                    accountVars

LEMMA AccountInvariant == Spec => [](program = "CoroutineBank" => AccountInv)
<1>1. Init => (program = "CoroutineBank" => AccountInv)
  BY AccountInit DEF Init
<1>2. (program = "CoroutineBank" => AccountInv) /\ [Next]_vars
        => (program = "CoroutineBank" => AccountInv)'
  BY AccountNext, AccountStands DEF Next, vars
<1> QED BY <1>1, <1>2, PTL DEF Spec
----------------------------------------------------------------------------
(***************************************************************************)
(* Multiplexer.  Only a socket that is not known to be closed is read, and a      *)
(* read that got nothing found its server gone and nothing left.  So what a      *)
(* read holds beside the winner's is lost in a race, before `raced' is set.      *)
(***************************************************************************)
MuxTyped == /\ posts \in [Mux!Source -> Nat]
            /\ fetched \in [Mux!Source -> Nat]
            /\ raced \in [Mux!Source -> Nat]
            /\ mock \in [Mux!Source -> {"accept", "send", "closed"}]
            /\ read \in [Mux!Source -> {"none", "pending", "ready"}]
            /\ DOMAIN chunk = Mux!Source /\ DOMAIN shown = Mux!Source
            /\ open \subseteq Mux!Source

\* Where the messages of source i are, which reads have taken.
MessagesOf(i) == /\ shown[i] \cup chunk[i] \subseteq 1..fetched[i]
                 /\ shown[i] \cap chunk[i] = {}
                 /\ Mux!Lost(i) \subseteq 1..raced[i]

AtTheEndOf(i) == /\ fetched[i] <= posts[i] /\ posts[i] <= MessageCount[i]
                 /\ mock[i] = "closed" => posts[i] = MessageCount[i]
                 /\ read[i] # "ready" => chunk[i] = {}
                 /\ read[i] # "none" => i \in open
                 /\ read[i] = "ready" /\ chunk[i] = {} =>
                      mock[i] = "closed" /\ fetched[i] = MessageCount[i]
                 /\ i \notin open => mock[i] = "closed" /\ fetched[i] = MessageCount[i]

\* A race that i loses has a winner.
WonByOther == \A i, j \in Mux!Source :
                i # j /\ Mux!Lost(i) # {} => shown[j] # {} \/ j \notin open

MuxInv == /\ MuxTyped
          /\ \A i \in Mux!Source : MessagesOf(i) /\ AtTheEndOf(i)
          /\ WonByOther

LEMMA MuxConstants == Mux!Source = {1, 2} /\ \A i \in Mux!Source : MessageCount[i] \in Nat
<1>1. Mux!MultiplexerAssumption
  BY ExercisesAssumption, Zenon
<1> QED BY <1>1 DEF Mux!MultiplexerAssumption

LEMMA MuxImplies == MuxInv => Mux!MessagesAccountedFor
  BY DEF MuxInv, MessagesOf, AtTheEndOf, WonByOther, Mux!MessagesAccountedFor

LEMMA MuxInit == Mux!Init => MuxInv
<1> SUFFICES ASSUME Mux!Init PROVE MuxInv
  OBVIOUS
<1>1. /\ mock = [i \in Mux!Source |-> "accept"] /\ read = [i \in Mux!Source |-> "none"]
      /\ posts = [i \in Mux!Source |-> 0] /\ fetched = [i \in Mux!Source |-> 0]
      /\ chunk = [i \in Mux!Source |-> {}] /\ shown = [i \in Mux!Source |-> {}]
      /\ raced = [i \in Mux!Source |-> 0] /\ open = Mux!Source
  BY DEF Mux!Init
<1>2. MuxTyped
  BY <1>1 DEF MuxTyped
<1>3. \A i \in Mux!Source : Mux!Lost(i) = {}
  BY <1>1 DEF Mux!Lost
<1>4. \A i \in Mux!Source : MessagesOf(i)
  BY <1>1, <1>3 DEF MessagesOf
<1>5. \A i \in Mux!Source : AtTheEndOf(i)
  BY <1>1, MuxConstants DEF AtTheEndOf
<1> QED BY <1>2, <1>3, <1>4, <1>5 DEF MuxInv, WonByOther

\* A step of a server, or of the multiplexer with it.
LEMMA ServerKeeps ==
  ASSUME MuxInv, NEW i \in Mux!Source,
         Mux!Connect(i) \/ Mux!SendMessage(i) \/ Mux!Close(i)
  PROVE  MuxInv'
<1>0. MuxTyped /\ (\A j \in Mux!Source : MessagesOf(j) /\ AtTheEndOf(j)) /\ WonByOther
  BY DEF MuxInv
<1>1. UNCHANGED <<fetched, read, chunk, open, shown, raced>>
  BY DEF Mux!Connect, Mux!SendMessage, Mux!Close
<1>2. (\A j \in Mux!Source : MessagesOf(j)') /\ WonByOther'
  BY <1>0, <1>1 DEF MessagesOf, WonByOther, Mux!Lost
<1>3. CASE Mux!Connect(i)
  <2>1. mock[i] = "accept" /\ mock' = [mock EXCEPT ![i] = "send"] /\ posts' = posts
    BY <1>3 DEF Mux!Connect
  <2>2. MuxTyped'
    BY <1>0, <1>1, <2>1 DEF MuxTyped
  <2>3. \A j \in Mux!Source : mock'[j] = "closed" <=> mock[j] = "closed"
    BY <1>0, <2>1 DEF MuxTyped
  <2>4. \A j \in Mux!Source : AtTheEndOf(j)'
    BY <1>0, <1>1, <2>1, <2>3 DEF AtTheEndOf
  <2> QED BY <1>2, <2>2, <2>4 DEF MuxInv
<1>4. CASE Mux!SendMessage(i)
  <2>1. /\ mock[i] = "send" /\ posts[i] < MessageCount[i]
        /\ posts' = [posts EXCEPT ![i] = @ + 1] /\ mock' = mock
    BY <1>4 DEF Mux!SendMessage
  <2>2. /\ MuxTyped' /\ posts[i] \in Nat /\ posts'[i] = posts[i] + 1
        /\ \A j \in Mux!Source : j # i => posts'[j] = posts[j]
    BY <1>0, <1>1, <2>1 DEF MuxTyped
  <2>3. ASSUME NEW j \in Mux!Source PROVE AtTheEndOf(j)'
    <3>1. fetched[j] \in Nat /\ posts[j] \in Nat /\ MessageCount[j] \in Nat
      BY <1>0, MuxConstants DEF MuxTyped
    <3>2. CASE j = i
      BY <1>0, <1>1, <2>1, <2>2, <3>1, <3>2 DEF AtTheEndOf
    <3>3. CASE j # i
      BY <1>0, <1>1, <2>1, <2>2, <3>3 DEF AtTheEndOf
    <3> QED BY <3>2, <3>3
  <2> QED BY <1>2, <2>2, <2>3 DEF MuxInv
<1>5. CASE Mux!Close(i)
  <2>1. /\ mock[i] = "send" /\ posts[i] = MessageCount[i]
        /\ mock' = [mock EXCEPT ![i] = "closed"] /\ posts' = posts
    BY <1>5 DEF Mux!Close
  <2>2. MuxTyped' /\ mock'[i] = "closed" /\ \A j \in Mux!Source : j # i => mock'[j] = mock[j]
    BY <1>0, <1>1, <2>1 DEF MuxTyped
  <2>3. ASSUME NEW j \in Mux!Source PROVE AtTheEndOf(j)'
    <3>1. CASE j = i
      BY <1>0, <1>1, <2>1, <2>2, <3>1 DEF AtTheEndOf
    <3>2. CASE j # i
      BY <1>0, <1>1, <2>1, <2>2, <3>2 DEF AtTheEndOf
    <3> QED BY <3>1, <3>2
  <2> QED BY <1>2, <2>2, <2>3 DEF MuxInv
<1> QED BY <1>3, <1>4, <1>5

\* A read that completes takes what has come since the last: nothing more is lost.
LEMMA CompleteReadKeeps ==
  ASSUME MuxInv, NEW i \in Mux!Source, Mux!CompleteRead(i)
  PROVE  MuxInv'
<1>0. MuxTyped /\ (\A j \in Mux!Source : MessagesOf(j) /\ AtTheEndOf(j)) /\ WonByOther
  BY DEF MuxInv
<1>1. /\ read[i] = "pending"
      /\ (posts[i] > fetched[i] \/ mock[i] = "closed")
      /\ chunk' = [chunk EXCEPT ![i] = (fetched[i] + 1)..posts[i]]
      /\ fetched' = [fetched EXCEPT ![i] = posts[i]]
      /\ read' = [read EXCEPT ![i] = "ready"]
      /\ UNCHANGED <<mock, posts, open, shown, raced>>
  BY DEF Mux!CompleteRead
<1>2. /\ posts[i] \in Nat /\ fetched[i] \in Nat /\ fetched[i] <= posts[i] /\ chunk[i] = {}
      /\ i \in open /\ posts[i] <= MessageCount[i]
      /\ mock[i] = "closed" => posts[i] = MessageCount[i]
  BY <1>0, <1>1 DEF MuxTyped, AtTheEndOf
<1>3. /\ chunk'[i] = (fetched[i] + 1)..posts[i] /\ fetched'[i] = posts[i] /\ read'[i] = "ready"
      /\ \A j \in Mux!Source : j # i => /\ chunk'[j] = chunk[j] /\ fetched'[j] = fetched[j]
                                      /\ read'[j] = read[j]
  BY <1>0, <1>1 DEF MuxTyped
<1>4. MuxTyped'
  BY <1>0, <1>1, <1>2 DEF MuxTyped
<1>5. /\ 1..posts[i] = 1..fetched[i] \cup (fetched[i] + 1)..posts[i]
      /\ 1..fetched[i] \cap (fetched[i] + 1)..posts[i] = {}
  BY <1>2
<1>6. Mux!Lost(i)' = Mux!Lost(i)
  <2>1. Mux!Lost(i)' = (1..posts[i]) \ (shown[i] \cup (fetched[i] + 1)..posts[i])
    BY <1>1, <1>3 DEF Mux!Lost
  <2>2. Mux!Lost(i) = (1..fetched[i]) \ shown[i]
    BY <1>2 DEF Mux!Lost
  <2> QED BY <1>5, <2>1, <2>2
<1>7. \A j \in Mux!Source : j # i => Mux!Lost(j)' = Mux!Lost(j)
  BY <1>1, <1>3 DEF Mux!Lost
<1>8. WonByOther'
  <2>1. \A j \in Mux!Source : Mux!Lost(j)' = Mux!Lost(j)
    BY <1>6, <1>7
  <2> QED BY <1>0, <1>1, <2>1 DEF WonByOther
<1>9. ASSUME NEW j \in Mux!Source PROVE MessagesOf(j)'
  <2>1. CASE j = i
    <3>1. shown[i] \subseteq 1..fetched[i] /\ Mux!Lost(i) \subseteq 1..raced[i]
      BY <1>0 DEF MessagesOf
    <3>2. /\ shown'[i] \cup chunk'[i] \subseteq 1..fetched'[i]
          /\ shown'[i] \cap chunk'[i] = {}
      BY <1>1, <1>3, <1>5, <3>1
    <3>3. Mux!Lost(i)' \subseteq 1..raced'[i]
      BY <1>1, <1>6, <3>1
    <3> QED BY <2>1, <3>2, <3>3 DEF MessagesOf
  <2>2. CASE j # i
    BY <1>0, <1>1, <1>3, <1>7, <2>2 DEF MessagesOf
  <2> QED BY <2>1, <2>2
<1>10. ASSUME NEW j \in Mux!Source PROVE AtTheEndOf(j)'
  <2>1. CASE j = i
    <3>1. chunk'[i] = {} => mock[i] = "closed"
      <4>1. posts[i] > fetched[i] => posts[i] \in chunk'[i]
        BY <1>2, <1>3
      <4> QED BY <1>1, <4>1
    <3>2. MessageCount[i] \in Nat
      BY MuxConstants
    <3> QED BY <1>1, <1>2, <1>3, <2>1, <3>1, <3>2 DEF AtTheEndOf
  <2>2. CASE j # i
    BY <1>0, <1>1, <1>3, <2>2 DEF AtTheEndOf
  <2> QED BY <2>1, <2>2
<1> QED BY <1>4, <1>8, <1>9, <1>10 DEF MuxInv

\* The multiplexer takes the first read.  The other loses what it holds only in a race,
\* since a socket known to be closed is not read.
LEMMA TakeFirstKeeps ==
  ASSUME MuxInv, NEW i \in Mux!Source, Mux!TakeFirst(i)
  PROVE  MuxInv'
<1>0. MuxTyped /\ (\A j \in Mux!Source : MessagesOf(j) /\ AtTheEndOf(j)) /\ WonByOther
  BY DEF MuxInv
<1>1. /\ read[i] = "ready"
      /\ raced' = IF open = Mux!Source THEN fetched ELSE raced
      /\ read' = [j \in Mux!Source |-> "none"] /\ chunk' = [j \in Mux!Source |-> {}]
      /\ UNCHANGED <<mock, posts, fetched>>
  BY DEF Mux!TakeFirst
<1>2. \/ chunk[i] = {} /\ open' = open \ {i} /\ shown' = shown
      \/ chunk[i] # {} /\ shown' = [shown EXCEPT ![i] = @ \cup chunk[i]] /\ open' = open
  BY DEF Mux!TakeFirst
<1>3. /\ shown'[i] = shown[i] \cup chunk[i]
      /\ \A j \in Mux!Source : j # i => shown'[j] = shown[j]
      /\ \A j \in Mux!Source : chunk'[j] = {} /\ read'[j] = "none"
      /\ DOMAIN shown' = Mux!Source
  BY <1>0, <1>1, <1>2 DEF MuxTyped
<1>4. MuxTyped'
  BY <1>0, <1>1, <1>2, <1>3 DEF MuxTyped
<1>5. shown'[i] # {} \/ i \notin open'
  BY <1>2, <1>3
<1>6. Mux!Lost(i)' = Mux!Lost(i)
  BY <1>1, <1>3 DEF Mux!Lost
<1>7. ASSUME open # Mux!Source, NEW j \in Mux!Source PROVE Mux!Lost(j)' = Mux!Lost(j)
  <2>1. CASE j = i
    BY <1>6, <2>1
  <2>2. CASE j # i
    <3>1. i \in open
      BY <1>0, <1>1 DEF AtTheEndOf
    <3>2. j \notin open
      <4>1. open \subseteq {1, 2} /\ i \in {1, 2} /\ j \in {1, 2}
        BY <1>0, MuxConstants DEF MuxTyped
      <4>2. j \in open => open = {1, 2}
        BY <2>2, <3>1, <4>1
      <4> QED BY <1>7, <4>2, MuxConstants
    <3>3. chunk[j] = {}
      BY <1>0, <3>2 DEF AtTheEndOf
    <3> QED BY <1>1, <1>3, <2>2, <3>3 DEF Mux!Lost
  <2> QED BY <2>1, <2>2
<1>8. ASSUME NEW j \in Mux!Source PROVE Mux!Lost(j)' \subseteq 1..raced'[j]
  <2>1. CASE open = Mux!Source
    BY <1>1, <2>1 DEF Mux!Lost
  <2>2. CASE open # Mux!Source
    BY <1>0, <1>1, <1>7, <2>2 DEF MessagesOf
  <2> QED BY <2>1, <2>2
<1>9. ASSUME NEW j \in Mux!Source PROVE MessagesOf(j)'
  <2>1. shown[j] \cup chunk[j] \subseteq 1..fetched[j]
    BY <1>0 DEF MessagesOf
  <2>2. shown'[j] \subseteq shown[j] \cup chunk[j] /\ chunk'[j] = {} /\ fetched'[j] = fetched[j]
    BY <1>1, <1>3
  <2> QED BY <1>8, <2>1, <2>2 DEF MessagesOf
<1>10. ASSUME NEW j \in Mux!Source PROVE AtTheEndOf(j)'
  <2>1. j \notin open' => mock[j] = "closed" /\ fetched[j] = MessageCount[j]
    BY <1>0, <1>1, <1>2 DEF AtTheEndOf
  <2> QED BY <1>0, <1>1, <1>3, <2>1 DEF AtTheEndOf
<1>11. WonByOther'
  <2> SUFFICES ASSUME NEW j \in Mux!Source, NEW k \in Mux!Source, j # k, Mux!Lost(j)' # {}
               PROVE  shown'[k] # {} \/ k \notin open'
    BY DEF WonByOther
  <2>1. CASE k = i
    BY <1>5, <2>1
  <2>2. CASE k # i
    <3>1. j = i
      BY <2>2, MuxConstants
    <3>2. shown[k] # {} \/ k \notin open
      BY <1>0, <1>6, <3>1 DEF WonByOther
    <3> QED BY <1>2, <1>3, <2>2, <3>2
  <2> QED BY <2>1, <2>2
<1> QED BY <1>4, <1>9, <1>10, <1>11 DEF MuxInv

\* The multiplexer starts the reads, or ends.
LEMMA StartOrEndKeeps ==
  ASSUME MuxInv, Mux!StartReads \/ Mux!EndDemo
  PROVE  MuxInv'
<1>0. MuxTyped /\ (\A j \in Mux!Source : MessagesOf(j) /\ AtTheEndOf(j)) /\ WonByOther
  BY DEF MuxInv
<1>1. /\ UNCHANGED <<mock, posts, fetched, chunk, open, shown, raced>>
      /\ read' \in [Mux!Source -> {"none", "pending", "ready"}]
      /\ \A j \in Mux!Source : read'[j] = "pending" => j \in open \/ read[j] = "pending"
      /\ \A j \in Mux!Source : read'[j] = "ready" <=> read[j] = "ready"
  BY <1>0 DEF Mux!StartReads, Mux!EndDemo, MuxTyped
<1>2. MuxTyped'
  BY <1>0, <1>1 DEF MuxTyped
<1>3. (\A j \in Mux!Source : MessagesOf(j)') /\ WonByOther'
  BY <1>0, <1>1 DEF MessagesOf, WonByOther, Mux!Lost
<1>4. \A j \in Mux!Source : AtTheEndOf(j)'
  BY <1>0, <1>1, <1>2 DEF AtTheEndOf
<1> QED BY <1>2, <1>3, <1>4 DEF MuxInv

LEMMA MuxNext == MuxInv /\ Mux!Next => MuxInv'
  BY ServerKeeps, CompleteReadKeeps, TakeFirstKeeps, StartOrEndKeeps
  DEF Mux!Next, Mux!MuxStep, Mux!SourceStep

LEMMA MuxStands == MuxInv /\ UNCHANGED muxVars => MuxInv'
<1> SUFFICES ASSUME MuxInv, UNCHANGED muxVars PROVE MuxInv'
  OBVIOUS
<1>1. MuxTyped'
  BY DEF MuxInv, MuxTyped, muxVars
<1>2. (\A i \in Mux!Source : MessagesOf(i)') /\ WonByOther'
  BY DEF MuxInv, MessagesOf, WonByOther, Mux!Lost, muxVars
<1>3. \A i \in Mux!Source : AtTheEndOf(i)'
  BY DEF MuxInv, AtTheEndOf, muxVars
<1> QED BY <1>1, <1>2, <1>3 DEF MuxInv

LEMMA MuxInvariant == Spec => [](program = "Multiplexer" => MuxInv)
<1>1. Init => (program = "Multiplexer" => MuxInv)
  BY MuxInit DEF Init
<1>2. (program = "Multiplexer" => MuxInv) /\ [Next]_vars => (program = "Multiplexer" => MuxInv)'
  BY MuxNext, MuxStands DEF Next, vars
<1> QED BY <1>1, <1>2, PTL DEF Spec
----------------------------------------------------------------------------
(***************************************************************************)
(* EchoServer.  The session on the strand is the only one between the load and    *)
(* the store of the count, and the count it has loaded is still the count.      *)
(***************************************************************************)
EchoTyped == /\ sent \in [Echo!Peer -> Nat] /\ taken \in [Echo!Peer -> Nat]
             /\ echoed \in [Echo!Peer -> Nat]
             /\ session \in [Echo!Peer -> {"connecting", "read", "count", "write", "ended"}]
             /\ onStrand \in Nat /\ global_message_count \in Nat /\ reads \in Nat

OneOnStrand == /\ \A s \in Echo!Peer : session[s] = "count" <=> s = onStrand
               /\ server = "coroutine" => onStrand = 0
               /\ onStrand # 0 => onStrand \in Echo!Peer /\ loaded = global_message_count

CountFollows == server = "strand" =>
                  reads = global_message_count + (IF onStrand = 0 THEN 0 ELSE 1)

EchoesFollow == \A s \in Echo!Peer : /\ echoed[s] <= taken[s] /\ taken[s] <= sent[s]
                                     /\ session[s] \in {"connecting", "read"} => echoed[s] = taken[s]

EchoInv == EchoTyped /\ OneOnStrand /\ CountFollows /\ EchoesFollow

LEMMA EchoConstants == /\ Sessions \in Nat /\ Echo!Peer = 1..Sessions
                       /\ \A s \in Echo!Peer : s \in Nat /\ s # 0
<1>1. Echo!EchoAssumption
  BY ExercisesAssumption, Zenon
<1> QED BY <1>1 DEF Echo!EchoAssumption, Echo!Peer

LEMMA EchoImplies == EchoInv => Echo!EchoConsistent
<1> SUFFICES ASSUME EchoInv PROVE Echo!EchoConsistent
  OBVIOUS
<1>0. EchoTyped /\ OneOnStrand /\ CountFollows /\ EchoesFollow
  BY DEF EchoInv
<1> DEFINE InHandler == {s \in Echo!Peer : session[s] = "count"}
<1>1. CASE onStrand = 0
  <2>1. InHandler = {}
    BY <1>0, <1>1, EchoConstants DEF OneOnStrand
  <2> HIDE DEF InHandler
  <2>2. Echo!Cardinality(InHandler) = 0
    BY <2>1, SameSizes, FS_EmptySet
  <2>3. server = "strand" => global_message_count + Echo!Cardinality(InHandler) = reads
    BY <1>0, <1>1, <2>2 DEF CountFollows, EchoTyped
  <2> QED BY <1>0, <2>3 DEF Echo!EchoConsistent, EchoesFollow, InHandler
<1>2. CASE onStrand # 0
  <2>1. InHandler = {onStrand}
    BY <1>0, <1>2 DEF OneOnStrand
  <2> HIDE DEF InHandler
  <2>2. Echo!Cardinality(InHandler) = 1
    BY <2>1, SameSizes, FS_Singleton
  <2>3. server = "strand" => global_message_count + Echo!Cardinality(InHandler) = reads
    BY <1>0, <1>2, <2>2 DEF CountFollows, EchoTyped
  <2> QED BY <1>0, <2>3 DEF Echo!EchoConsistent, EchoesFollow, InHandler
<1> QED BY <1>1, <1>2

LEMMA EchoInit == Echo!Init => EchoInv
<1> SUFFICES ASSUME Echo!Init PROVE EchoInv
  OBVIOUS
<1>1. /\ sent = [s \in Echo!Peer |-> 0] /\ taken = sent /\ echoed = sent
      /\ session = [s \in Echo!Peer |-> "connecting"]
      /\ onStrand = 0 /\ global_message_count = 0 /\ reads = 0
  BY DEF Echo!Init
<1>2. EchoTyped /\ CountFollows /\ EchoesFollow
  BY <1>1 DEF EchoTyped, CountFollows, EchoesFollow
<1>3. OneOnStrand
  BY <1>1, EchoConstants DEF OneOnStrand
<1> QED BY <1>2, <1>3 DEF EchoInv

\* A step that neither begins nor ends a handler that counts.
LEMMA OffStrandKeeps ==
  ASSUME EchoInv, NEW s \in Echo!Peer,
         \/ Echo!AcceptOnStrand(s) \/ Echo!AcceptCoroutine(s) \/ Echo!ClientSends(s)
         \/ Echo!WrittenOnStrand(s) \/ Echo!WrittenCoroutine(s)
         \/ Echo!StartThrows(s) \/ Echo!FailOnStrand(s) \/ Echo!FailCoroutine(s)
  PROVE  EchoInv'
<1>0. EchoTyped /\ OneOnStrand /\ CountFollows /\ EchoesFollow
  BY DEF EchoInv
<1>1. /\ UNCHANGED <<taken, onStrand, loaded, global_message_count, reads>>
      /\ server' = server \/ server' = "terminated"
  BY DEF Echo!AcceptOnStrand, Echo!AcceptCoroutine, Echo!ClientSends, Echo!WrittenOnStrand,
         Echo!WrittenCoroutine, Echo!StartThrows, Echo!FailOnStrand, Echo!FailCoroutine
<1>2. \/ session' = session
      \/ \E l \in {"read", "ended"} : session' = [session EXCEPT ![s] = l] /\ session[s] # "count"
  <2>1. CASE Echo!ClientSends(s) \/ Echo!StartThrows(s)
    BY <2>1 DEF Echo!ClientSends, Echo!StartThrows
  <2>2. CASE ~(Echo!ClientSends(s) \/ Echo!StartThrows(s))
    BY <2>2 DEF Echo!AcceptOnStrand, Echo!AcceptCoroutine, Echo!WrittenOnStrand,
         Echo!WrittenCoroutine, Echo!FailOnStrand, Echo!FailCoroutine, Echo!Goto
  <2> QED BY <2>1, <2>2
<1>3. /\ session' \in [Echo!Peer -> {"connecting", "read", "count", "write", "ended"}]
      /\ \A r \in Echo!Peer : session'[r] = "count" <=> session[r] = "count"
      /\ \A r \in Echo!Peer : r # s => session'[r] = session[r]
  BY <1>0, <1>2 DEF EchoTyped
<1>4. OneOnStrand' /\ CountFollows'
  BY <1>0, <1>1, <1>3 DEF OneOnStrand, CountFollows
<1>5. EchoTyped' /\ EchoesFollow'
  <2>1. CASE Echo!ClientSends(s)
    <3>1. sent' = [sent EXCEPT ![s] = @ + 1] /\ echoed' = echoed /\ session' = session
      BY <2>1 DEF Echo!ClientSends
    <3>2. sent' \in [Echo!Peer -> Nat] /\ \A r \in Echo!Peer : sent'[r] >= sent[r] /\ sent[r] \in Nat
      BY <1>0, <3>1 DEF EchoTyped
    <3>3. \A r \in Echo!Peer : taken[r] \in Nat /\ echoed[r] \in Nat
      BY <1>0 DEF EchoTyped
    <3>4. EchoesFollow'
      BY <1>0, <1>1, <3>1, <3>2, <3>3 DEF EchoesFollow
    <3> QED BY <1>0, <1>1, <3>1, <3>2, <3>4 DEF EchoTyped
  <2>2. CASE Echo!WrittenOnStrand(s) \/ Echo!WrittenCoroutine(s)
    <3>1. sent' = sent /\ echoed' = [echoed EXCEPT ![s] = taken[s]]
      BY <2>2 DEF Echo!WrittenOnStrand, Echo!WrittenCoroutine
    <3>2. /\ echoed' \in [Echo!Peer -> Nat] /\ echoed'[s] = taken[s]
          /\ \A r \in Echo!Peer : r # s => echoed'[r] = echoed[r]
          /\ \A r \in Echo!Peer : taken[r] \in Nat
      BY <1>0, <3>1 DEF EchoTyped
    <3>3. EchoesFollow'
      BY <1>0, <1>1, <1>3, <3>1, <3>2 DEF EchoesFollow
    <3> QED BY <1>0, <1>1, <1>3, <3>1, <3>2, <3>3 DEF EchoTyped
  <2>3. CASE Echo!StartThrows(s)
    <3>1. UNCHANGED <<sent, echoed, session>>
      BY <2>3 DEF Echo!StartThrows
    <3> QED BY <1>0, <1>1, <3>1 DEF EchoTyped, EchoesFollow
  <2>4. CASE \/ Echo!AcceptOnStrand(s) \/ Echo!AcceptCoroutine(s)
             \/ Echo!FailOnStrand(s) \/ Echo!FailCoroutine(s)
    <3>1. sent' = sent /\ echoed' = echoed
      BY <2>4 DEF Echo!AcceptOnStrand, Echo!AcceptCoroutine, Echo!FailOnStrand, Echo!FailCoroutine
    <3>2. session'[s] = "ended" \/ session[s] = "connecting"
      BY <1>0, <2>4 DEF Echo!AcceptOnStrand, Echo!AcceptCoroutine, Echo!FailOnStrand,
                        Echo!FailCoroutine, Echo!Goto, EchoTyped
    <3>3. EchoesFollow'
      BY <1>0, <1>1, <1>3, <3>1, <3>2 DEF EchoesFollow
    <3> QED BY <1>0, <1>1, <1>3, <3>1, <3>3 DEF EchoTyped
  <2> QED BY <2>1, <2>2, <2>3, <2>4
<1> QED BY <1>4, <1>5 DEF EchoInv

\* A read that succeeds: on the strand it is counted in two steps.
LEMMA ReadKeeps ==
  ASSUME EchoInv, NEW s \in Echo!Peer, NEW n \in 1..ToSend,
         Echo!ReadOnStrand(s, n) \/ Echo!ReadCoroutine(s, n)
  PROVE  EchoInv'
<1>0. EchoTyped /\ OneOnStrand /\ CountFollows /\ EchoesFollow
  BY DEF EchoInv
<1>1. /\ n \in (taken[s] + 1)..sent[s] /\ taken' = [taken EXCEPT ![s] = n]
      /\ reads' = reads + 1 /\ session[s] = "read"
      /\ UNCHANGED <<server, sent, echoed, global_message_count>>
  BY DEF Echo!ReadOnStrand, Echo!ReadCoroutine
<1>2. PICK l \in {"count", "write"} : session' = [session EXCEPT ![s] = l]
  BY DEF Echo!ReadOnStrand, Echo!ReadCoroutine, Echo!Goto
<1>3. /\ sent[s] \in Nat /\ taken[s] \in Nat /\ echoed[s] \in Nat /\ n \in Nat /\ reads \in Nat
      /\ n > taken[s] /\ n <= sent[s]
  BY <1>0, <1>1 DEF EchoTyped
<1>4. /\ taken' \in [Echo!Peer -> Nat] /\ taken'[s] = n
      /\ \A r \in Echo!Peer : r # s => taken'[r] = taken[r] /\ session'[r] = session[r]
      /\ session'[s] = l
      /\ session' \in [Echo!Peer -> {"connecting", "read", "count", "write", "ended"}]
  BY <1>0, <1>1, <1>2, <1>3 DEF EchoTyped
<1>5. EchoesFollow'
  <2>1. echoed[s] <= n
    BY <1>0, <1>3 DEF EchoesFollow
  <2> QED BY <1>0, <1>1, <1>3, <1>4, <2>1 DEF EchoesFollow
<1>6. CASE Echo!ReadOnStrand(s, n)
  <2>1. /\ server = "strand" /\ onStrand = 0 /\ onStrand' = s /\ loaded' = global_message_count
        /\ session'[s] = "count"
    BY <1>0, <1>6 DEF Echo!ReadOnStrand, Echo!StrandFree, Echo!Goto, EchoTyped
  <2>2. OneOnStrand'
    BY <1>0, <1>1, <1>4, <2>1, EchoConstants DEF OneOnStrand
  <2>3. CountFollows'
    BY <1>0, <1>1, <1>3, <2>1, EchoConstants DEF CountFollows, EchoTyped
  <2>4. EchoTyped'
    BY <1>0, <1>1, <1>3, <1>4, <2>1, EchoConstants DEF EchoTyped
  <2> QED BY <1>5, <2>2, <2>3, <2>4 DEF EchoInv
<1>7. CASE Echo!ReadCoroutine(s, n)
  <2>1. /\ server = "coroutine" /\ onStrand' = onStrand /\ loaded' = loaded
        /\ session'[s] = "write"
    BY <1>0, <1>7 DEF Echo!ReadCoroutine, Echo!Goto, EchoTyped
  <2>2. OneOnStrand'
    BY <1>0, <1>1, <1>4, <2>1 DEF OneOnStrand
  <2>3. CountFollows'
    BY <1>1, <2>1 DEF CountFollows
  <2>4. EchoTyped'
    BY <1>0, <1>1, <1>3, <1>4, <2>1 DEF EchoTyped
  <2> QED BY <1>5, <2>2, <2>3, <2>4 DEF EchoInv
<1> QED BY <1>6, <1>7

LEMMA CountKeeps ==
  ASSUME EchoInv, NEW s \in Echo!Peer, Echo!Count(s)
  PROVE  EchoInv'
<1>0. EchoTyped /\ OneOnStrand /\ CountFollows /\ EchoesFollow
  BY DEF EchoInv
<1>1. /\ server = "strand" /\ session[s] = "count" /\ session' = [session EXCEPT ![s] = "write"]
      /\ global_message_count' = loaded + 1 /\ onStrand' = 0
      /\ UNCHANGED <<server, sent, taken, echoed, loaded, reads>>
  BY DEF Echo!Count, Echo!Goto
<1>2. onStrand = s /\ s # 0 /\ loaded = global_message_count /\ server = "strand"
  BY <1>0, <1>1, EchoConstants DEF OneOnStrand
<1>3. /\ session' \in [Echo!Peer -> {"connecting", "read", "count", "write", "ended"}]
      /\ session'[s] = "write" /\ \A r \in Echo!Peer : r # s => session'[r] = session[r]
  BY <1>0, <1>1 DEF EchoTyped
<1>4. EchoTyped' /\ CountFollows'
  BY <1>0, <1>1, <1>2, <1>3 DEF EchoTyped, CountFollows
<1>5. OneOnStrand'
  BY <1>0, <1>1, <1>2, <1>3, EchoConstants DEF OneOnStrand
<1>6. EchoesFollow'
  BY <1>0, <1>1, <1>3 DEF EchoesFollow
<1> QED BY <1>4, <1>5, <1>6 DEF EchoInv

LEMMA EchoNext == EchoInv /\ Echo!Next => EchoInv'
  BY OffStrandKeeps, ReadKeeps, CountKeeps DEF Echo!Next, Echo!Serve, Echo!Environment

LEMMA EchoStands == EchoInv /\ UNCHANGED echoVars => EchoInv'
  BY DEF EchoInv, EchoTyped, OneOnStrand, CountFollows, EchoesFollow, echoVars

LEMMA EchoInvariant == Spec => [](program = "EchoServer" => EchoInv)
<1>1. Init => (program = "EchoServer" => EchoInv)
  BY EchoInit DEF Init
<1>2. (program = "EchoServer" => EchoInv) /\ [Next]_vars => (program = "EchoServer" => EchoInv)'
  BY EchoNext, EchoStands DEF Next, vars
<1> QED BY <1>1, <1>2, PTL DEF Spec

(***************************************************************************)
(* ChatClient.  While the io thread runs every line was sent early; a read       *)
(* follows a write that was confirmed.                                       *)
(***************************************************************************)
ClientTyped == /\ typed \in Nat /\ readers \in Nat /\ delivered \in Nat /\ echoes \in Nat
               /\ write \in [Chat!Line -> {"none", "ok", "error", "handled"}]
               /\ confirmed \subseteq Chat!Line

SentInOrder == /\ \A n \in Chat!Line : write[n] # "none" => n <= typed
               /\ \A n \in early : n \in Chat!Line /\ n <= typed /\ write[n] # "none"
               /\ io = "runs" => \A n \in Chat!Line : n <= typed => n \in early

ClientInv == /\ ClientTyped /\ SentInOrder /\ Chat!ClientConsistent
             /\ readers > 0 => confirmed # {}

LEMMA ClientConstants == MaxLines \in Nat /\ Chat!Line = 1..MaxLines
<1>1. Chat!ClientAssumption
  BY ExercisesAssumption, Zenon
<1> QED BY <1>1 DEF Chat!ClientAssumption, Chat!Line

LEMMA ClientInit == Chat!Init => ClientInv
<1> SUFFICES ASSUME Chat!Init PROVE ClientInv
  OBVIOUS
<1>1. /\ io = "runs" /\ typed = 0 /\ write = [n \in Chat!Line |-> "none"]
      /\ delivered = 0 /\ readers = 0 /\ confirmed = {} /\ echoes = 0 /\ early = {}
  BY DEF Chat!Init
<1>2. ClientTyped /\ Chat!ClientConsistent
  BY <1>1 DEF ClientTyped, Chat!ClientConsistent
<1>3. SentInOrder
  BY <1>1, ClientConstants DEF SentInOrder
<1> QED BY <1>1, <1>2, <1>3 DEF ClientInv

\* main sends a line.
LEMMA SendKeeps ==
  ASSUME ClientInv, Chat!SendMessage
  PROVE  ClientInv'
<1> USE ClientConstants
<1>0. ClientTyped /\ SentInOrder /\ Chat!ClientConsistent
  BY DEF ClientInv
<1>1. /\ typed < MaxLines /\ typed' = typed + 1
      /\ early' = IF io = "runs" THEN early \cup {typed'} ELSE early
      /\ UNCHANGED <<connection, connecting, io, readers, confirmed, echoes>>
      /\ delivered' = delivered + 1 \/ delivered' = delivered
  BY DEF Chat!SendMessage
<1>2. PICK l \in {"ok", "error"} : write' = [write EXCEPT ![typed'] = l]
  BY DEF Chat!SendMessage
<1>3. /\ typed \in Nat /\ delivered \in Nat /\ echoes \in Nat /\ typed' \in Chat!Line
      /\ delivered' \in Nat /\ delivered' >= delivered
      /\ \A n \in Chat!Line : n \in Nat
  BY <1>0, <1>1 DEF ClientTyped
<1>4. /\ write' \in [Chat!Line -> {"none", "ok", "error", "handled"}] /\ write'[typed'] = l
      /\ \A n \in Chat!Line : n # typed' => write'[n] = write[n]
  BY <1>0, <1>2, <1>3 DEF ClientTyped
<1>5. ClientTyped'
  BY <1>0, <1>1, <1>3, <1>4 DEF ClientTyped
<1>6. SentInOrder'
  BY <1>0, <1>1, <1>3, <1>4 DEF SentInOrder
<1>7. Chat!ClientConsistent'
  <2>1. confirmed' \subseteq early' /\ (echoes' > 0 => confirmed' # {}) /\ echoes' <= delivered'
    BY <1>0, <1>1, <1>3 DEF Chat!ClientConsistent
  <2>2. io' = "idle" => /\ ~connecting' /\ readers' = 0
                        /\ \A n \in early' : write'[n] = "handled"
    BY <1>0, <1>1, <1>3, <1>4 DEF Chat!ClientConsistent, SentInOrder
  <2> QED BY <2>1, <2>2 DEF Chat!ClientConsistent
<1>8. readers' > 0 => confirmed' # {}
  BY <1>1 DEF ClientInv
<1> QED BY <1>5, <1>6, <1>7, <1>8 DEF ClientInv

\* The handler of a write, which starts a read if the line was sent.
LEMMA WriteHandlerKeeps ==
  ASSUME ClientInv, NEW n \in Chat!Line, Chat!WriteHandler(n)
  PROVE  ClientInv'
<1> USE ClientConstants
<1>0. ClientTyped /\ SentInOrder /\ Chat!ClientConsistent
  BY DEF ClientInv
<1>1. /\ io = "runs" /\ write[n] \in {"ok", "error"}
      /\ write' = [write EXCEPT ![n] = "handled"]
      /\ UNCHANGED <<connection, connecting, io, typed, delivered, echoes, early>>
  BY DEF Chat!WriteHandler
<1>2. \/ confirmed' = confirmed \cup {n} /\ readers' = readers + 1
      \/ UNCHANGED <<confirmed, readers>>
  BY DEF Chat!WriteHandler
<1>3. n \in early
  BY <1>0, <1>1 DEF SentInOrder
<1>4. /\ write' \in [Chat!Line -> {"none", "ok", "error", "handled"}] /\ write'[n] = "handled"
      /\ \A m \in Chat!Line : m # n => write'[m] = write[m]
  BY <1>0, <1>1 DEF ClientTyped
<1>5. ClientTyped'
  <2>0. readers \in Nat /\ confirmed \subseteq Chat!Line
    BY <1>0 DEF ClientTyped
  <2>1. readers' \in Nat /\ confirmed' \subseteq Chat!Line
    <3> HIDE ClientConstants
    <3>1. CASE confirmed' = confirmed \cup {n} /\ readers' = readers + 1
      BY <2>0, <3>1
    <3>2. CASE UNCHANGED <<confirmed, readers>>
      BY <2>0, <3>2
    <3> QED BY <1>2, <3>1, <3>2
  <2> QED BY <1>0, <1>1, <1>4, <2>1 DEF ClientTyped
<1>6. SentInOrder'
  BY <1>0, <1>1, <1>4 DEF SentInOrder
<1>7. Chat!ClientConsistent'
  BY <1>0, <1>1, <1>2, <1>3 DEF Chat!ClientConsistent
<1>8. readers' > 0 => confirmed' # {}
  BY <1>2 DEF ClientInv
<1> QED BY <1>5, <1>6, <1>7, <1>8 DEF ClientInv

LEMMA OtherClientStepKeeps ==
  ASSUME ClientInv,
         \/ Chat!Connected \/ Chat!Broken \/ Chat!Quit \/ Chat!ConnectHandler
         \/ Chat!ReadHandler \/ Chat!RunReturns
  PROVE  ClientInv'
<1>0. ClientTyped /\ SentInOrder /\ Chat!ClientConsistent
  BY DEF ClientInv
<1>1. UNCHANGED <<typed, write, delivered, confirmed, early>>
  BY DEF Chat!Connected, Chat!Broken, Chat!Quit, Chat!ConnectHandler, Chat!ReadHandler,
         Chat!RunReturns
<1>2. CASE Chat!ReadHandler
  <2>1. /\ io = "runs" /\ readers > 0 /\ readers' = readers - 1
        /\ io' = io /\ connecting' = connecting
    BY <1>2 DEF Chat!ReadHandler
  <2>2. \/ echoes' \in (echoes + 1)..delivered
        \/ echoes' = echoes
    BY <1>2 DEF Chat!ReadHandler
  <2>3. /\ echoes \in Nat /\ delivered \in Nat /\ readers \in Nat
    BY <1>0 DEF ClientTyped
  <2>4. echoes' \in Nat /\ echoes' <= delivered /\ readers' \in Nat
    BY <1>0, <2>1, <2>2, <2>3 DEF Chat!ClientConsistent
  <2>5. ClientTyped' /\ SentInOrder'
    BY <1>0, <1>1, <2>1, <2>4 DEF ClientTyped, SentInOrder
  <2>6. confirmed # {}
    BY <2>1 DEF ClientInv
  <2>7. Chat!ClientConsistent'
    BY <1>0, <1>1, <2>1, <2>4, <2>6 DEF Chat!ClientConsistent
  <2> QED BY <1>1, <2>5, <2>6, <2>7 DEF ClientInv
<1>3. CASE Chat!RunReturns
  <2>1. /\ io = "runs" /\ io' = "idle" /\ ~connecting /\ ~(readers > 0)
        /\ \A n \in Chat!Line : write[n] \notin {"ok", "error"}
        /\ UNCHANGED <<connecting, readers, echoes>>
    BY <1>3 DEF Chat!RunReturns, Chat!Outstanding
  <2>2. readers = 0
    BY <1>0, <2>1 DEF ClientTyped
  <2>3. \A n \in early : write[n] = "handled"
    BY <1>0, <2>1 DEF SentInOrder, ClientTyped
  <2>4. ClientTyped' /\ SentInOrder'
    BY <1>0, <1>1, <2>1 DEF ClientTyped, SentInOrder
  <2>5. Chat!ClientConsistent'
    BY <1>0, <1>1, <2>1, <2>2, <2>3 DEF Chat!ClientConsistent
  <2> QED BY <1>1, <2>1, <2>4, <2>5 DEF ClientInv
<1>4. CASE Chat!Connected \/ Chat!Broken \/ Chat!Quit \/ Chat!ConnectHandler
  <2>1. /\ UNCHANGED <<readers, echoes>>
        /\ io' = io \/ io' = "stopped"
        /\ connecting' = connecting \/ ~connecting'
    BY <1>4 DEF Chat!Connected, Chat!Broken, Chat!Quit, Chat!ConnectHandler
  <2>2. ClientTyped' /\ SentInOrder'
    BY <1>0, <1>1, <2>1 DEF ClientTyped, SentInOrder
  <2>3. Chat!ClientConsistent'
    BY <1>0, <1>1, <2>1 DEF Chat!ClientConsistent
  <2> QED BY <1>1, <2>1, <2>2, <2>3 DEF ClientInv
<1> QED BY <1>2, <1>3, <1>4

LEMMA ClientNext == ClientInv /\ Chat!Next => ClientInv'
  BY SendKeeps, WriteHandlerKeeps, OtherClientStepKeeps DEF Chat!Next, Chat!IoStep

LEMMA ClientStands == ClientInv /\ UNCHANGED clientVars => ClientInv'
<1> SUFFICES ASSUME ClientInv, UNCHANGED clientVars PROVE ClientInv'
  OBVIOUS
<1>1. ClientTyped' /\ SentInOrder'
  BY DEF ClientInv, ClientTyped, SentInOrder, clientVars
<1>2. Chat!ClientConsistent'
  BY DEF ClientInv, Chat!ClientConsistent, clientVars
<1> QED BY <1>1, <1>2 DEF ClientInv, clientVars

LEMMA ClientInvariant == Spec => [](program = "ChatClient" => ClientInv)
<1>1. Init => (program = "ChatClient" => ClientInv)
  BY ClientInit DEF Init
<1>2. (program = "ChatClient" => ClientInv) /\ [Next]_vars => (program = "ChatClient" => ClientInv)'
  BY ClientNext, ClientStands DEF Next, vars
<1> QED BY <1>1, <1>2, PTL DEF Spec

\* However many sessions the server has and whatever it schedules, no increment of its
\* count is lost; and the client confirms nothing that was sent when its thread had ended.
THEOREM NetworkAgrees == Spec => []NetworkConsistent
<1>1. (program = "EchoServer" => EchoInv) /\ (program = "ChatClient" => ClientInv) => NetworkConsistent
  BY EchoImplies DEF NetworkConsistent, ClientInv
<1> QED BY <1>1, EchoInvariant, ClientInvariant, PTL

\* A message of the servers is printed once, still under way, or lost to a race of the two
\* sockets that the other has won, never once one socket alone is read; and the account that
\* is asked for its balance at the end says what the totals of its clients say.
THEOREM CoroutinesAgree == Spec => []CoroutinesConsistent
<1>1. (program = "Multiplexer" => MuxInv) /\ (program = "CoroutineBank" => AccountInv) => CoroutinesConsistent
  BY MuxImplies, AccountImplies DEF CoroutinesConsistent
<1> QED BY <1>1, MuxInvariant, AccountInvariant, PTL
----------------------------------------------------------------------------
(***************************************************************************)
(* ParallelSum.  The segments cut the elements into pieces that meet at their   *)
(* ends; the sum is that of the segments which have been added, and who has      *)
(* counted itself has added its segment before.                              *)
(***************************************************************************)
Elements == [j \in Sum!Index |-> Sum!data(j)]

HasAdded == {t \in Sum!Thread : worker[t] \in {"count", "notify", "ended"}}
HasCounted == {t \in Sum!Thread : worker[t] \in {"notify", "ended"}}
Covered(T) == {j \in Sum!Index : \E t \in T : j \in Sum!Segment(t)}

SegmentsHandled ==
  \A t \in Sum!Thread : \A j \in Sum!Segment(t) :
    handled[j] = IF worker[t] \in {"new", "handle"} THEN 0 ELSE 1

StartsAll == caller = "start" => started < NThreads
SumFollows == total_sum = Total(Elements, Covered(HasAdded))
TallyFollows == completed_threads = Cardinality(HasCounted)
ReturnsLast == caller = "returned" => completed_threads = NThreads /\ result = total_sum

SumInv == /\ Sum!TypeOK
          /\ SegmentsHandled /\ StartsAll /\ SumFollows /\ TallyFollows /\ ReturnsLast

LEMMA SumConstants == /\ Size \in Nat /\ NThreads \in Nat /\ NThreads > 0
                      /\ Sum!Index = 0..(Size - 1) /\ Sum!Thread = 0..(NThreads - 1)
                      /\ IsFiniteSet(Sum!Index) /\ IsFiniteSet(Sum!Thread)
                      /\ Cardinality(Sum!Thread) = NThreads
<1>1. Sum!SumAssumption
  BY ExercisesAssumption, Zenon
<1>2. /\ Size \in Nat /\ NThreads \in Nat /\ NThreads > 0
      /\ Sum!Index = 0..(Size - 1) /\ Sum!Thread = 0..(NThreads - 1)
  BY <1>1 DEF Sum!SumAssumption, Sum!Index, Sum!Thread
<1>3. IsFiniteSet(Sum!Index)
  BY <1>2, FS_Interval
<1>4. IsFiniteSet(Sum!Thread) /\ Cardinality(Sum!Thread) = NThreads
  BY <1>2, FS_Interval
<1> QED BY <1>2, <1>3, <1>4

\* How the quotient and the remainder make up the size.
LEMMA Quotient == /\ Sum!segment_size \in Nat /\ Sum!remainder \in Nat
                  /\ Sum!remainder < NThreads
                  /\ NThreads * Sum!segment_size + Sum!remainder = Size
BY SumConstants, SMTT(30) DEF Sum!segment_size, Sum!remainder

\* A segment ends where the next one starts, the first one starts at zero and the
\* last one ends at the size; and a later segment starts later.
LEMMA Segments ==
  /\ \A t \in Nat : Sum!SegmentStart(t) \in Nat /\ Sum!SegmentEnd(t) = Sum!SegmentStart(t + 1)
  /\ Sum!SegmentStart(0) = 0 /\ Sum!SegmentStart(NThreads) = Size
  /\ \A t, u \in Nat : t <= u => Sum!SegmentStart(t) <= Sum!SegmentStart(u)
<1> DEFINE s == Sum!segment_size
           r == Sum!remainder
           least(t) == IF t < r THEN t ELSE r
<1>1. s \in Nat /\ r \in Nat /\ r < NThreads /\ NThreads * s + r = Size
  BY Quotient
<1>2. \A t : /\ Sum!SegmentStart(t) = t * s + least(t)
             /\ Sum!SegmentEnd(t) = Sum!SegmentStart(t) + s + (IF t < r THEN 1 ELSE 0)
  BY DEF Sum!SegmentStart, Sum!SegmentEnd
<1>3. NThreads \in Nat
  BY SumConstants
<1> HIDE DEF s, r
<1>4. ASSUME NEW t \in Nat
      PROVE  Sum!SegmentStart(t) \in Nat /\ Sum!SegmentEnd(t) = Sum!SegmentStart(t + 1)
  <2>1. t * s \in Nat /\ (t + 1) * s = t * s + s
    BY <1>1
  <2>2. least(t) \in Nat /\ least(t + 1) = least(t) + (IF t < r THEN 1 ELSE 0)
    BY <1>1
  <2>3. /\ Sum!SegmentStart(t) = t * s + least(t)
        /\ Sum!SegmentStart(t + 1) = (t + 1) * s + least(t + 1)
        /\ Sum!SegmentEnd(t) = Sum!SegmentStart(t) + s + (IF t < r THEN 1 ELSE 0)
    BY <1>2
  <2> DEFINE p == t * s
             q == (t + 1) * s
  <2> HIDE DEF p, q
  <2> QED BY <1>1, <2>1, <2>2, <2>3 DEF p, q
<1>5. Sum!SegmentStart(0) = 0
  <2>1. 0 * s = 0 /\ least(0) = 0
    BY <1>1
  <2> QED BY <1>2, <2>1
<1>6. Sum!SegmentStart(NThreads) = Size
  <2>1. least(NThreads) = r
    BY <1>1, <1>3
  <2> QED BY <1>1, <1>2, <2>1
<1>7. ASSUME NEW t \in Nat, NEW u \in Nat, t <= u
      PROVE  Sum!SegmentStart(t) <= Sum!SegmentStart(u)
  <2>1. t * s \in Nat /\ u * s \in Nat /\ t * s <= u * s
    <3> DEFINE d == u - t
    <3>1. d \in Nat /\ u = t + d
      BY <1>7
    <3> HIDE DEF d
    <3>2. t * s \in Nat /\ d * s \in Nat /\ (t + d) * s = t * s + d * s
      BY <1>1, <3>1
    <3> QED BY <3>1, <3>2
  <2>2. least(t) \in Nat /\ least(u) \in Nat /\ least(t) <= least(u)
    BY <1>1, <1>7
  <2>3. Sum!SegmentStart(t) = t * s + least(t) /\ Sum!SegmentStart(u) = u * s + least(u)
    BY <1>2
  <2> DEFINE p == t * s
             q == u * s
  <2> HIDE DEF p, q, least
  <2> QED BY <2>1, <2>2, <2>3 DEF p, q
<1> QED BY <1>4, <1>5, <1>6, <1>7

LEMMA SegmentsApart ==
  /\ \A t \in Sum!Thread : Sum!Segment(t) \subseteq Sum!Index
  /\ \A t, u \in Sum!Thread : t # u => Sum!Segment(t) \cap Sum!Segment(u) = {}
<1> USE SumConstants
<1>1. \A t \in Sum!Thread : t \in Nat /\ t + 1 \in Nat /\ t + 1 <= NThreads
  OBVIOUS
<1>2. ASSUME NEW t \in Sum!Thread, NEW j \in Sum!Segment(t)
      PROVE  /\ j \in Int /\ Sum!SegmentStart(t) <= j /\ j < Sum!SegmentStart(t + 1)
             /\ Sum!SegmentStart(t) \in Nat /\ Sum!SegmentStart(t + 1) \in Nat
  <2>1. /\ Sum!SegmentStart(t) \in Nat /\ Sum!SegmentStart(t + 1) \in Nat
        /\ Sum!SegmentEnd(t) = Sum!SegmentStart(t + 1)
    BY <1>1, Segments
  <2> QED BY <2>1 DEF Sum!Segment
<1>3. ASSUME NEW t \in Sum!Thread, NEW j \in Sum!Segment(t)
      PROVE  j \in Sum!Index
  <2>1. Sum!SegmentStart(t + 1) <= Size
    BY <1>1, Segments
  <2> QED BY <1>2, <2>1
<1>4. ASSUME NEW t \in Sum!Thread, NEW u \in Sum!Thread, t < u,
             NEW j \in Sum!Segment(t), j \in Sum!Segment(u)
      PROVE  FALSE
  <2>1. Sum!SegmentStart(t + 1) <= Sum!SegmentStart(u)
    <3>1. t + 1 \in Nat /\ u \in Nat /\ t + 1 <= u
      BY <1>1, <1>4
    <3> QED BY <3>1, Segments
  <2>2. j < Sum!SegmentStart(t + 1) /\ Sum!SegmentStart(u) <= j /\ j \in Int
    BY <1>2, <1>4
  <2>3. Sum!SegmentStart(t + 1) \in Nat /\ Sum!SegmentStart(u) \in Nat
    BY <1>1, Segments
  <2> QED BY <2>1, <2>2, <2>3
<1>5. \A t, u \in Sum!Thread : t # u => t < u \/ u < t
  OBVIOUS
<1> QED BY <1>3, <1>4, <1>5

\* The segments leave no element out.
LEMMA SegmentsCover == \A j \in Sum!Index : \E t \in Sum!Thread : j \in Sum!Segment(t)
<1> USE SumConstants
<1> TAKE j \in Sum!Index
<1> DEFINE T == {t \in Sum!Thread : Sum!SegmentStart(t) <= j}
           Above == {q \in T \X T : q[1] > q[2]}
<1>1. 0 \in T
  BY Segments
<1>2. IsFiniteSet(T)
  BY FS_Subset
<1>3. T \subseteq Nat
  OBVIOUS
<1>4. /\ \A t \in T : <<t, t>> \notin Above
      /\ \A t, u, v \in T : <<t, u>> \in Above /\ <<u, v>> \in Above => <<t, v>> \in Above
      /\ \A t, u \in T : <<u, t>> \in Above <=> u > t
  <2> HIDE DEF T
  <2> QED BY <1>3
<1>5. PICK t \in T : \A u \in T : <<u, t>> \notin Above
  <2> HIDE DEF T, Above
  <2> QED BY <1>1, <1>2, <1>4, FirstOfFinite
<1>6. j < Sum!SegmentStart(t + 1)
  <2>1. t \in Nat /\ t + 1 \in Nat /\ Sum!SegmentStart(t + 1) \in Nat
    BY Segments
  <2>2. CASE t + 1 = NThreads
    <3>1. Sum!SegmentStart(t + 1) = Size
      BY <2>2, Segments, Zenon
    <3> HIDE DEF T, Above
    <3> QED BY <3>1
  <2>3. CASE t + 1 # NThreads
    <3>1. t + 1 \in Sum!Thread
      BY <2>3
    <3>2. t + 1 \notin T
      <4> HIDE DEF T, Above
      <4>1. t + 1 > t
        BY <2>1
      <4> QED BY <1>4, <1>5, <4>1
    <3> QED BY <2>1, <3>1, <3>2
  <2> QED BY <2>2, <2>3
<1>7. t \in Sum!Thread /\ Sum!SegmentStart(t) <= j
  OBVIOUS
<1>8. Sum!SegmentStart(t) \in Nat /\ Sum!SegmentEnd(t) = Sum!SegmentStart(t + 1)
      /\ Sum!SegmentStart(t + 1) \in Nat
  BY Segments
<1>9. j \in Sum!Segment(t)
  BY <1>6, <1>7, <1>8 DEF Sum!Segment
<1> QED BY <1>7, <1>9

\* What the sum of the community modules is.
LEMMA ElementSum ==
  ASSUME NEW S \in SUBSET Sum!Index
  PROVE  IsFiniteSet(S) /\ Sum!MapThenSumSet(Sum!data, S) = Total(Elements, S)
<1>0. IsFiniteSet(S)
  BY SumConstants, FS_Subset
<1> DEFINE g == CHOOSE g : g = [s \in SUBSET S |-> IF s = {} THEN 0
                                  ELSE Taken(s) + 1 + g[s \ {Taken(s)}]]
<1>1. Sum!MapThenSumSet(Sum!data, S) = g[S]
  BY DEF Sum!MapThenSumSet, Sum!MapThenFoldSet, Sum!data, Taken
<1>2. PICK h : IsSum(h, Elements, S)
  BY <1>0, SumExists
<1>3. \A s \in SUBSET S : s # {} => Elements[Taken(s)] = Taken(s) + 1
  <2>1. \A j \in S : Elements[j] = j + 1
    BY DEF Elements, Sum!data
  <2>2. \A s \in SUBSET S : s # {} => Taken(s) \in S
    BY TakenIsMember
  <2> QED BY <2>1, <2>2
<1>4. h = [s \in SUBSET S |-> IF s = {} THEN 0
                               ELSE Taken(s) + 1 + h[s \ {Taken(s)}]]
  BY <1>2, <1>3 DEF IsSum
<1>5. g = [s \in SUBSET S |-> IF s = {} THEN 0
                               ELSE Taken(s) + 1 + g[s \ {Taken(s)}]]
  BY <1>4
<1>6. IsSum(g, Elements, S)
  <2> HIDE DEF g
  <2> QED BY <1>3, <1>5 DEF IsSum
<1>7. IsSum(CHOOSE k : IsSum(k, Elements, S), Elements, S)
  BY <1>2
<1> HIDE DEF g
<1>8. g[S] = (CHOOSE k : IsSum(k, Elements, S))[S]
  BY <1>0, <1>6, <1>7, SumIsUnique
<1> QED BY <1>0, <1>1, <1>8 DEF Total

LEMMA CoveredGrows ==
  ASSUME NEW T \in SUBSET Sum!Thread, NEW t \in Sum!Thread, t \notin T
  PROVE  /\ Total(Elements, Covered(T)) \in Nat
         /\ Total(Elements, Covered(T \cup {t}))
              = Total(Elements, Covered(T)) + Total(Elements, Sum!Segment(t))
         /\ Total(Elements, Sum!Segment(t)) \in Nat
<1>1. /\ Covered(T) \in SUBSET Sum!Index /\ Sum!Segment(t) \in SUBSET Sum!Index
      /\ Covered(T \cup {t}) = Covered(T) \cup Sum!Segment(t)
      /\ Covered(T) \cap Sum!Segment(t) = {}
  BY SegmentsApart DEF Covered
<1>2. IsFiniteSet(Covered(T)) /\ IsFiniteSet(Sum!Segment(t))
  BY <1>1, SumConstants, FS_Subset
<1>3. \A j \in Sum!Index : Elements[j] \in Nat
  BY SumConstants DEF Elements, Sum!data
<1>4. Total(Elements, Covered(T)) \in Nat /\ Total(Elements, Sum!Segment(t)) \in Nat
  BY <1>1, <1>2, <1>3, TotalIsNat
<1>5. \A j \in Covered(T) \cup Sum!Segment(t) : Elements[j] \in Int
  BY <1>1, <1>3
<1>6. Total(Elements, Covered(T) \cup Sum!Segment(t))
        = Total(Elements, Covered(T)) + Total(Elements, Sum!Segment(t))
  BY <1>1, <1>2, <1>5, TotalOfUnion
<1> QED BY <1>1, <1>4, <1>6

\* When all have counted themselves, all of the elements are in the sum.
LEMMA SumImplies == SumInv => Sum!SumConsistent
<1> SUFFICES ASSUME SumInv PROVE Sum!SumConsistent
  OBVIOUS
<1>0. /\ Sum!TypeOK /\ SegmentsHandled /\ SumFollows /\ TallyFollows /\ ReturnsLast
  BY DEF SumInv
<1>1. ASSUME caller = "returned"
      PROVE  /\ result = Sum!MapThenSumSet(Sum!data, Sum!Index)
             /\ \A j \in Sum!Index : handled[j] = 1
  <2>1. Cardinality(HasCounted) = Cardinality(Sum!Thread)
    BY <1>0, <1>1, SumConstants DEF TallyFollows, ReturnsLast
  <2>2. HasCounted = Sum!Thread
    <3>1. HasCounted \subseteq Sum!Thread
      BY DEF HasCounted
    <3> QED BY <2>1, <3>1, SumConstants, FS_Subset
  <2>3. \A t \in Sum!Thread : worker[t] \in {"notify", "ended"}
    BY <2>2 DEF HasCounted
  <2>4. Covered(HasAdded) = Sum!Index
    <3>1. HasAdded = Sum!Thread
      BY <2>3 DEF HasAdded
    <3> QED BY <3>1, SegmentsCover DEF Covered
  <2>5. result = Total(Elements, Sum!Index)
    BY <1>0, <1>1, <2>4 DEF SumFollows, ReturnsLast
  <2>6. \A j \in Sum!Index : handled[j] = 1
    <3> TAKE j \in Sum!Index
    <3>1. PICK t \in Sum!Thread : j \in Sum!Segment(t)
      BY SegmentsCover
    <3> QED BY <1>0, <2>3, <3>1 DEF SegmentsHandled
  <2> QED BY <2>5, <2>6, ElementSum
<1> QED BY <1>0, <1>1 DEF Sum!SumConsistent, Sum!SumIsComplete

LEMMA SumInit == Sum!Init => SumInv
<1> SUFFICES ASSUME Sum!Init PROVE SumInv
  OBVIOUS
<1>1. /\ total_sum = 0 /\ completed_threads = 0 /\ handled = [j \in Sum!Index |-> 0]
      /\ started = 0 /\ worker = [t \in Sum!Thread |-> "new"] /\ caller = "start" /\ result = 0
  BY DEF Sum!Init
<1>2. Sum!TypeOK /\ StartsAll /\ ReturnsLast
  BY <1>1, SumConstants DEF Sum!TypeOK, StartsAll, ReturnsLast
<1>3. SegmentsHandled
  BY <1>1, SegmentsApart DEF SegmentsHandled
<1>4. HasAdded = {} /\ HasCounted = {} /\ Covered({}) = {}
  BY <1>1 DEF HasAdded, HasCounted, Covered
<1>5. SumFollows
  <2>1. Total(Elements, {}) = 0
    BY FS_EmptySet, TotalTakes
  <2> QED BY <1>1, <1>4, <2>1 DEF SumFollows
<1>6. TallyFollows
  BY <1>1, <1>4, FS_EmptySet DEF TallyFollows
<1> QED BY <1>2, <1>3, <1>5, <1>6 DEF SumInv

\* Who neither counts itself nor adds its segment leaves the sum and the count as they are.
LEMMA CallerKeeps ==
  ASSUME SumInv, Sum!CallerStep \/ Sum!SpuriousWake
  PROVE  SumInv'
<1>0. /\ Sum!TypeOK /\ SegmentsHandled /\ StartsAll /\ SumFollows /\ TallyFollows /\ ReturnsLast
  BY DEF SumInv
<1> USE SumConstants
<1>1. CASE Sum!StartThread
  <2>1. /\ caller = "start" /\ worker[started] = "new"
        /\ worker' = [worker EXCEPT ![started] = "handle"] /\ started' = started + 1
        /\ caller' = (IF started' = NThreads THEN "test" ELSE "start")
        /\ UNCHANGED <<total_sum, completed_threads, handled, result>>
    BY <1>1 DEF Sum!StartThread, Sum!Goto
  <2>2. started < NThreads /\ started \in Sum!Thread
    BY <1>0, <2>1 DEF StartsAll, Sum!TypeOK
  <2>3. Sum!TypeOK' /\ StartsAll' /\ ReturnsLast'
    BY <1>0, <2>1, <2>2 DEF Sum!TypeOK, StartsAll, ReturnsLast
  <2>4. SegmentsHandled'
    BY <1>0, <2>1, <2>2 DEF SegmentsHandled, Sum!TypeOK
  <2>5. HasAdded' = HasAdded /\ HasCounted' = HasCounted
    BY <1>0, <2>1, <2>2 DEF HasAdded, HasCounted, Sum!TypeOK
  <2>6. SumFollows' /\ TallyFollows'
    BY <1>0, <2>1, <2>5 DEF SumFollows, TallyFollows
  <2> QED BY <2>3, <2>4, <2>6 DEF SumInv
<1>2. CASE Sum!Doze \/ Sum!FallAsleep \/ Sum!SpuriousWake \/ Sum!Return
  <2>1. /\ caller # "start" /\ caller' \in {"test", "doze", "asleep", "returned"}
        /\ UNCHANGED <<total_sum, completed_threads, handled, started, worker>>
    BY <1>2 DEF Sum!Doze, Sum!FallAsleep, Sum!SpuriousWake, Sum!Return, Sum!CallerTo
  <2>2. \/ caller' # "returned" /\ result' = result
        \/ completed_threads = NThreads /\ result' = total_sum
    BY <1>2 DEF Sum!Doze, Sum!FallAsleep, Sum!SpuriousWake, Sum!Return, Sum!CallerTo
  <2>3. Sum!TypeOK' /\ StartsAll' /\ ReturnsLast'
    BY <1>0, <2>1, <2>2 DEF Sum!TypeOK, StartsAll, ReturnsLast
  <2>4. SegmentsHandled'
    BY <1>0, <2>1 DEF SegmentsHandled
  <2>5. SumFollows' /\ TallyFollows'
    BY <1>0, <2>1 DEF SumFollows, TallyFollows, HasAdded, HasCounted
  <2> QED BY <2>3, <2>4, <2>5 DEF SumInv
<1> QED BY <1>1, <1>2 DEF Sum!CallerStep

LEMMA WorkerKeeps ==
  ASSUME SumInv, NEW t \in Sum!Thread, Sum!WorkerStep(t)
  PROVE  SumInv'
<1>0. /\ Sum!TypeOK /\ SegmentsHandled /\ StartsAll /\ SumFollows /\ TallyFollows /\ ReturnsLast
  BY DEF SumInv
<1> USE SumConstants
<1>1. /\ HasCounted \subseteq Sum!Thread /\ HasAdded \subseteq Sum!Thread
      /\ worker \in [Sum!Thread -> {"new", "handle", "add", "count", "notify", "ended"}]
  BY <1>0 DEF HasCounted, HasAdded, Sum!TypeOK
\* Nobody adds or counts when all have counted themselves.
<1>2. completed_threads = NThreads => worker[t] \in {"notify", "ended"}
  <2>1. completed_threads = NThreads => HasCounted = Sum!Thread
    BY <1>0, <1>1, FS_Subset DEF TallyFollows
  <2> QED BY <2>1 DEF HasCounted
<1>3. CASE Sum!Handle(t)
  <2>1. /\ worker[t] = "handle" /\ worker' = [worker EXCEPT ![t] = "add"]
        /\ handled' = [j \in Sum!Index |-> handled[j] + (IF j \in Sum!Segment(t) THEN 1 ELSE 0)]
        /\ UNCHANGED <<total_sum, completed_threads, started, caller, result>>
    BY <1>3 DEF Sum!Handle, Sum!Goto
  <2>2. Sum!TypeOK' /\ StartsAll' /\ ReturnsLast'
    BY <1>0, <2>1 DEF Sum!TypeOK, StartsAll, ReturnsLast
  <2>3. SegmentsHandled'
    <3> SUFFICES ASSUME NEW u \in Sum!Thread, NEW j \in Sum!Segment(u)
                 PROVE  handled'[j] = IF worker'[u] \in {"new", "handle"} THEN 0 ELSE 1
      BY DEF SegmentsHandled
    <3>1. j \in Sum!Index /\ (u # t => j \notin Sum!Segment(t))
      BY SegmentsApart
    <3>2. handled[j] = IF worker[u] \in {"new", "handle"} THEN 0 ELSE 1
      BY <1>0 DEF SegmentsHandled
    <3> QED BY <1>1, <2>1, <3>1, <3>2
  <2>4. HasAdded' = HasAdded /\ HasCounted' = HasCounted
    BY <1>1, <2>1 DEF HasAdded, HasCounted
  <2>5. SumFollows' /\ TallyFollows'
    BY <1>0, <2>1, <2>4 DEF SumFollows, TallyFollows
  <2> QED BY <2>2, <2>3, <2>5 DEF SumInv
<1>4. CASE Sum!Add(t)
  <2>1. /\ worker[t] = "add" /\ worker' = [worker EXCEPT ![t] = "count"]
        /\ total_sum' = total_sum + Sum!MapThenSumSet(Sum!data, Sum!Segment(t))
        /\ UNCHANGED <<completed_threads, handled, started, caller, result>>
    BY <1>4 DEF Sum!Add, Sum!Goto
  <2>2. t \notin HasAdded /\ HasAdded' = HasAdded \cup {t} /\ HasCounted' = HasCounted
    BY <1>1, <2>1 DEF HasAdded, HasCounted
  <2>3. total_sum' = total_sum + Total(Elements, Sum!Segment(t))
    BY <2>1, SegmentsApart, ElementSum
  <2>4. total_sum' = Total(Elements, Covered(HasAdded \cup {t})) /\ total_sum' \in Nat
    <3>1. total_sum = Total(Elements, Covered(HasAdded))
      BY <1>0 DEF SumFollows
    <3>2. HasAdded \in SUBSET Sum!Thread
      BY <1>1
    <3>3. /\ Total(Elements, Covered(HasAdded)) \in Nat
          /\ Total(Elements, Covered(HasAdded \cup {t}))
               = Total(Elements, Covered(HasAdded)) + Total(Elements, Sum!Segment(t))
          /\ Total(Elements, Sum!Segment(t)) \in Nat
      BY <2>2, <3>2, CoveredGrows
    <3> QED BY <2>3, <3>1, <3>3
  <2>5. SumFollows' /\ TallyFollows'
    BY <1>0, <2>1, <2>2, <2>4 DEF SumFollows, TallyFollows, Covered, Elements
  <2>6. caller # "returned"
    BY <1>0, <1>2, <2>1 DEF ReturnsLast
  <2>7. Sum!TypeOK' /\ StartsAll' /\ ReturnsLast'
    BY <1>0, <2>1, <2>4, <2>6 DEF Sum!TypeOK, StartsAll, ReturnsLast
  <2>8. SegmentsHandled'
    BY <1>0, <1>1, <2>1 DEF SegmentsHandled
  <2> QED BY <2>5, <2>7, <2>8 DEF SumInv
<1>5. CASE Sum!CountDone(t)
  <2>1. PICK l \in {"notify", "ended"} :
          /\ worker[t] = "count" /\ worker' = [worker EXCEPT ![t] = l]
          /\ completed_threads' = completed_threads + 1
          /\ UNCHANGED <<total_sum, handled, started, caller, result>>
    BY <1>5 DEF Sum!CountDone, Sum!Goto
  <2>2. t \notin HasCounted /\ HasCounted' = HasCounted \cup {t} /\ HasAdded' = HasAdded
    BY <1>1, <2>1 DEF HasAdded, HasCounted
  <2>3. /\ Cardinality(HasCounted \cup {t}) = Cardinality(HasCounted) + 1
        /\ Cardinality(HasCounted \cup {t}) <= NThreads
    <3>1. IsFiniteSet(HasCounted)
      BY <1>1, FS_Subset
    <3>2. Cardinality(HasCounted \cup {t}) = Cardinality(HasCounted) + 1
      BY <2>2, <3>1, FS_AddElement
    <3>3. Cardinality(HasCounted \cup {t}) <= Cardinality(Sum!Thread)
      <4>1. HasCounted \cup {t} \subseteq Sum!Thread
        BY <1>1
      <4> QED BY <4>1, FS_Subset
    <3> QED BY <3>2, <3>3
  <2>4. SumFollows' /\ TallyFollows'
    BY <1>0, <2>1, <2>2, <2>3 DEF SumFollows, TallyFollows
  <2>5. caller # "returned"
    BY <1>0, <1>2, <2>1 DEF ReturnsLast
  <2>6. completed_threads' \in 0..NThreads
    BY <1>0, <2>1, <2>3 DEF TallyFollows, Sum!TypeOK
  <2>7. Sum!TypeOK' /\ StartsAll' /\ ReturnsLast'
    BY <1>0, <2>1, <2>5, <2>6 DEF Sum!TypeOK, StartsAll, ReturnsLast
  <2>8. SegmentsHandled'
    BY <1>0, <1>1, <2>1 DEF SegmentsHandled
  <2> QED BY <2>4, <2>7, <2>8 DEF SumInv
<1>6. CASE Sum!NotifyOne(t)
  <2>1. /\ worker[t] = "notify" /\ worker' = [worker EXCEPT ![t] = "ended"]
        /\ caller' = (IF caller = "asleep" THEN "test" ELSE caller)
        /\ UNCHANGED <<total_sum, completed_threads, handled, started, result>>
    BY <1>6 DEF Sum!NotifyOne, Sum!Goto
  <2>2. HasAdded' = HasAdded /\ HasCounted' = HasCounted
    BY <1>1, <2>1 DEF HasAdded, HasCounted
  <2>3. SumFollows' /\ TallyFollows'
    BY <1>0, <2>1, <2>2 DEF SumFollows, TallyFollows
  <2>4. Sum!TypeOK' /\ StartsAll' /\ ReturnsLast'
    BY <1>0, <2>1 DEF Sum!TypeOK, StartsAll, ReturnsLast
  <2>5. SegmentsHandled'
    BY <1>0, <1>1, <2>1 DEF SegmentsHandled
  <2> QED BY <2>3, <2>4, <2>5 DEF SumInv
<1> QED BY <1>3, <1>4, <1>5, <1>6 DEF Sum!WorkerStep

LEMMA SumNext == SumInv /\ Sum!Next => SumInv'
  BY CallerKeeps, WorkerKeeps DEF Sum!Next

LEMMA SumStands == SumInv /\ UNCHANGED sumVars => SumInv'
<1> SUFFICES ASSUME SumInv, UNCHANGED sumVars PROVE SumInv'
  OBVIOUS
<1>1. Sum!TypeOK' /\ StartsAll' /\ ReturnsLast'
  BY DEF SumInv, Sum!TypeOK, StartsAll, ReturnsLast, sumVars
<1>2. SegmentsHandled' /\ SumFollows' /\ TallyFollows'
  BY DEF SumInv, SegmentsHandled, SumFollows, TallyFollows, HasAdded, HasCounted, sumVars
<1> QED BY <1>1, <1>2 DEF SumInv

LEMMA SumInvariant == Spec => [](program = "ParallelSum" => SumInv)
<1>1. Init => (program = "ParallelSum" => SumInv)
  BY SumInit DEF Init
<1>2. (program = "ParallelSum" => SumInv) /\ [Next]_vars => (program = "ParallelSum" => SumInv)'
  BY SumNext, SumStands DEF Next, vars
<1> QED BY <1>1, <1>2, PTL DEF Spec

\* For any number of elements and threads, divisible or not: the segments cover every
\* element once, and when compute_sum returns its result is the sum of all of them.
THEOREM SumIsReturnedWhole == Spec => []SumConsistent
<1>1. (program = "ParallelSum" => SumInv) => SumConsistent
  BY SumImplies DEF SumConsistent
<1> QED BY <1>1, SumInvariant, PTL

(***************************************************************************)
(* Logger.  What the threads have printed follows from who holds the mutex.  *)
(***************************************************************************)
Pieces == [line : 0..Writers, part : {"prefix", "message"}]
Messages == {piece \in Pieces : piece.line # 0 /\ piece.part = "message"}
LineOf == [piece \in Pieces |-> piece.line]

\* The lines printed by the first k of the n pieces of seq.
PrintedUpTo(seq, n, k) ==
  (CHOOSE h : h = [r \in SUBSET (1..n) |-> IF r = {} THEN <<>>
                     ELSE IF seq[Largest(r)].line # 0 /\ seq[Largest(r)].part = "message"
                          THEN Append(h[r \ {Largest(r)}], seq[Largest(r)].line)
                          ELSE h[r \ {Largest(r)}]])[1..k]

LEMMA PrintedSteps ==
  ASSUME NEW n \in Nat, NEW seq, \A i \in 1..n : seq[i] \in Pieces
  PROVE  /\ PrintedUpTo(seq, n, 0) = <<>>
         /\ \A k \in 1..n : PrintedUpTo(seq, n, k)
                            = IF seq[k].line # 0 /\ seq[k].part = "message"
                              THEN Append(PrintedUpTo(seq, n, k - 1), seq[k].line)
                              ELSE PrintedUpTo(seq, n, k - 1)
<1> DEFINE Rule(h) == h = [r \in SUBSET (1..n) |-> IF r = {} THEN <<>>
                            ELSE IF seq[Largest(r)].line # 0 /\ seq[Largest(r)].part = "message"
                                 THEN Append(h[r \ {Largest(r)}], seq[Largest(r)].line)
                                 ELSE h[r \ {Largest(r)}]]
           g == CHOOSE h : Rule(h)
<1> DEFINE Numbers == 0..Writers
<1>1. LineOf \in [Pieces -> Numbers] /\ Members(seq, n, Pieces)
  BY DEF Pieces, LineOf, Members
<1>2. PICK h : Chooses(h, seq, n, Messages, LineOf)
  <2> HIDE DEF Numbers
  <2> QED BY <1>1, ChoosingUp
<1>3. \A i \in 1..n : /\ seq[i] \in Messages <=> seq[i].line # 0 /\ seq[i].part = "message"
                      /\ LineOf[seq[i]] = seq[i].line
  BY DEF Messages, LineOf
<1>4. \A r \in SUBSET (1..n) : r # {} => Largest(r) \in 1..n
  <2> SUFFICES ASSUME NEW r \in SUBSET (1..n), r # {} PROVE Largest(r) \in 1..n
    OBVIOUS
  <2> DEFINE S == 1..n
  <2>0. S \in SUBSET Int /\ IsFiniteSet(S) /\ r \in SUBSET S
    BY FS_Interval
  <2> HIDE DEF S
  <2>1. IsFiniteSet(r) /\ r \in SUBSET Int
    BY <2>0, FS_Subset
  <2> QED BY <2>1, LargestIsMember
<1>5. Rule(h)
  BY <1>2, <1>3, <1>4 DEF Chooses
<1>6. Rule(g)
  <2> HIDE DEF Rule
  <2> QED BY <1>5
<1>7. \A k : PrintedUpTo(seq, n, k) = g[1..k]
  BY DEF PrintedUpTo
<1> HIDE DEF g
<1>8. Chooses(g, seq, n, Messages, LineOf)
  BY <1>3, <1>4, <1>6 DEF Chooses
<1>9. /\ g[1..0] = <<>>
      /\ \A k \in 1..n : g[1..k] = IF seq[k] \in Messages
                                   THEN Append(g[1..(k - 1)], LineOf[seq[k]])
                                   ELSE g[1..(k - 1)]
  BY <1>8, ChosenSteps
<1>10. \A k \in 1..n : g[1..k] = IF seq[k].line # 0 /\ seq[k].part = "message"
                                THEN Append(g[1..(k - 1)], seq[k].line) ELSE g[1..(k - 1)]
  BY <1>3, <1>9
<1> QED BY <1>7, <1>9, <1>10

LEMMA PrintedIs ==
  ASSUME console \in Seq(Pieces)
  PROVE  Log!Printed = PrintedUpTo(console, Len(console), Len(console))
<1>1. DOMAIN console = 1..Len(console)
  BY LenProperties
<1> QED BY <1>1 DEF Log!Printed, Log!MapThenFoldSet, Log!Max, Largest, PrintedUpTo

\* One more piece prints one more line or none.
LEMMA PrintedMore ==
  ASSUME NEW s \in Seq(Pieces), NEW x \in Pieces
  PROVE  LET n == Len(s)
             old == PrintedUpTo(s, n, n)
             new == PrintedUpTo(Append(s, x), n + 1, n + 1)
         IN  new = IF x.line # 0 /\ x.part = "message" THEN Append(old, x.line) ELSE old
<1> DEFINE n == Len(s)
           t == Append(s, x)
           F(k) == PrintedUpTo(s, n, k)
           G(k) == PrintedUpTo(t, n + 1, k)
           Bad == {k \in 0..n : F(k) # G(k)}
<1>1. /\ n \in Nat /\ \A i \in 1..n : s[i] \in Pieces
      /\ \A i \in 1..(n + 1) : t[i] \in Pieces
      /\ \A i \in 1..n : t[i] = s[i]
      /\ t[n + 1] = x
  <2>1. n \in Nat /\ \A i \in 1..n : s[i] \in Pieces
    BY LenProperties
  <2>2. t \in Seq(Pieces) /\ Len(t) = n + 1 /\ (\A i \in 1..n : t[i] = s[i]) /\ t[n + 1] = x
    BY AppendProperties
  <2> HIDE DEF t, n
  <2>3. \A i \in 1..(n + 1) : t[i] \in Pieces
    BY <2>2, LenProperties
  <2> QED BY <2>1, <2>2, <2>3
<1> HIDE DEF t, n
<1>2. F(0) = <<>> /\ \A k \in 1..n : F(k) = IF s[k].line # 0 /\ s[k].part = "message"
                                            THEN Append(F(k - 1), s[k].line) ELSE F(k - 1)
  BY <1>1, PrintedSteps
<1>3. G(0) = <<>> /\ \A k \in 1..(n + 1) : G(k) = IF t[k].line # 0 /\ t[k].part = "message"
                                                  THEN Append(G(k - 1), t[k].line) ELSE G(k - 1)
  <2>1. n + 1 \in Nat
    BY <1>1
  <2> DEFINE m == n + 1
  <2> HIDE DEF m
  <2>2. m \in Nat /\ \A i \in 1..m : t[i] \in Pieces
    BY <1>1, <2>1 DEF m
  <2>3. /\ PrintedUpTo(t, m, 0) = <<>>
        /\ \A k \in 1..m : PrintedUpTo(t, m, k)
                            = IF t[k].line # 0 /\ t[k].part = "message"
                              THEN Append(PrintedUpTo(t, m, k - 1), t[k].line)
                              ELSE PrintedUpTo(t, m, k - 1)
    BY <2>2, PrintedSteps
  <2> QED BY <2>3 DEF m
<1> HIDE DEF F, G
<1>4. Bad = {}
  <2> SUFFICES ASSUME Bad # {} PROVE FALSE
    OBVIOUS
  <2>1. PICK k \in Bad : \A j \in Bad : k <= j
    <3>1. Bad \in SUBSET (0..n)
      OBVIOUS
    <3> HIDE DEF Bad
    <3> QED BY <1>1, <3>1, SmallestNumber
  <2>2. k # 0
    BY <1>2, <1>3
  <2>3. k \in 1..n /\ k - 1 \in 0..n /\ ~(k <= k - 1) /\ k \in 1..(n + 1)
    BY <1>1, <2>2
  <2>4. F(k - 1) = G(k - 1)
    BY <2>1, <2>3
  <2>5. F(k) = G(k)
    BY <1>1, <1>2, <1>3, <2>3, <2>4
  <2> QED BY <2>1, <2>5
<1>5. F(n) = G(n)
  BY <1>1, <1>4
<1>6. n + 1 \in 1..(n + 1) /\ (n + 1) - 1 = n
  BY <1>1
<1>7. G(n + 1) = IF x.line # 0 /\ x.part = "message" THEN Append(F(n), x.line) ELSE F(n)
  BY <1>1, <1>3, <1>5, <1>6
<1> QED BY <1>7 DEF F, G, n, t

LogTyped ==
  /\ writer \in [Log!Writer -> {"begin", "prefix", "message", "file", "ended"}]
  /\ holder \in 0..Writers /\ console \in Seq(Pieces) /\ log_file \in Seq(0..Writers)
  /\ is_open \in BOOLEAN

\* The thread that holds the mutex is between its lock and its unlock, and no other.
HolderStands == \A t \in Log!Writer : writer[t] \in {"prefix", "message", "file"} <=> holder = t

\* The last thread's piece of s is the prefix of line t.
PrefixIsLast(s, t) ==
  \E j \in 1..Len(s) : /\ s[j] = Log!Piece(t, "prefix")
                       /\ \A m \in (j + 1)..Len(s) : s[m].line = 0

MessagesFollow(s) ==
  \A i \in 1..Len(s) :
    s[i].line # 0 /\ s[i].part = "message" =>
      \E j \in 1..(i - 1) : /\ s[j] = Log!Piece(s[i].line, "prefix")
                            /\ \A m \in (j + 1)..(i - 1) : s[m].line = 0

\* s is how t begins.
Begins(s, t) == Len(s) <= Len(t) /\ s = SubSeq(t, 1, Len(s))

\* While the file is open it lacks the message of a thread that has just printed it.
FileFollows ==
  /\ Log!Printed \in Seq(0..Writers)
  /\ \A t \in Log!Writer : writer[t] = "file" /\ is_open => Log!Printed = Append(log_file, t)
  /\ is_open /\ (\A t \in Log!Writer : writer[t] # "file") => Log!Printed = log_file
  /\ ~is_open => Begins(log_file, Log!Printed)

LogInv == /\ LogTyped /\ HolderStands /\ MessagesFollow(console) /\ FileFollows
          /\ \A t \in Log!Writer : writer[t] = "message" => PrefixIsLast(console, t)

LEMMA PrefixOfSelf ==
  ASSUME NEW T, NEW s \in Seq(T)
  PROVE  Begins(s, s)
<1>1. Len(s) \in Nat /\ s = [i \in 1..Len(s) |-> s[i]]
  BY LenProperties
<1>2. SubSeq(s, 1, Len(s)) = [i \in 1..Len(s) |-> s[i]]
  BY <1>1
<1> QED BY <1>1, <1>2 DEF Begins

LEMMA PrefixOfLonger ==
  ASSUME NEW T, NEW s \in Seq(T), NEW u \in Seq(T), NEW x \in T, Begins(s, u)
  PROVE  Begins(s, Append(u, x))
<1> DEFINE v == Append(u, x)
           n == Len(s)
           m == Len(u)
<1>1. n \in Nat /\ m \in Nat /\ n <= m /\ s = SubSeq(u, 1, n)
  BY LenProperties DEF Begins
<1>2. v \in Seq(T) /\ Len(v) = m + 1 /\ \A i \in 1..m : v[i] = u[i]
  BY AppendProperties
<1> HIDE DEF v, n, m
<1>3. SubSeq(v, 1, n) = [i \in 1..n |-> v[1 + i - 1]]
  BY <1>1, <1>2
<1>4. SubSeq(u, 1, n) = [i \in 1..n |-> u[1 + i - 1]]
  BY <1>1
<1>5. \A i \in 1..n : v[1 + i - 1] = u[1 + i - 1]
  BY <1>1, <1>2
<1>6. SubSeq(v, 1, n) = SubSeq(u, 1, n)
  BY <1>3, <1>4, <1>5
<1> QED BY <1>1, <1>2, <1>6 DEF Begins, n, v

LEMMA LogImplies == LogInv => Log!LinesWhole
<1> SUFFICES ASSUME LogInv PROVE Log!LinesWhole
  OBVIOUS
<1>1. DOMAIN console = 1..Len(console)
  BY LenProperties DEF LogInv, LogTyped
<1>2. \A i \in DOMAIN console :
        console[i].line # 0 /\ console[i].part = "message" =>
          \E j \in 1..(i - 1) : /\ console[j] = Log!Piece(console[i].line, "prefix")
                                /\ \A m \in (j + 1)..(i - 1) : console[m].line = 0
  BY <1>1 DEF LogInv, MessagesFollow
<1> DEFINE p == Log!Printed
           f == log_file
           T == 0..Writers
<1>3. f \in Seq(T) /\ p \in Seq(T) /\ Len(f) \in Nat
  BY LenProperties DEF LogInv, LogTyped, FileFollows
<1>4. ASSUME NEW t \in Log!Writer, writer[t] = "file", is_open
      PROVE  Begins(f, p) /\ Len(p) - Len(f) = 1
  <2>1. p = Append(f, t) /\ t \in T
    BY <1>4 DEF LogInv, FileFollows, Log!Writer
  <2> HIDE DEF p, f, T
  <2>2. Len(p) = Len(f) + 1
    BY <1>3, <2>1, AppendProperties
  <2>3. Begins(f, p)
    BY <1>3, <2>1, PrefixOfSelf, PrefixOfLonger
  <2> QED BY <1>3, <2>2, <2>3
<1>5. ASSUME is_open, \A t \in Log!Writer : writer[t] # "file"
      PROVE  Begins(f, p) /\ Len(p) - Len(f) = 0
  <2>1. p = f
    BY <1>5 DEF LogInv, FileFollows
  <2> HIDE DEF p, f, T
  <2> QED BY <1>3, <2>1, PrefixOfSelf
<1>6. ~is_open => Begins(f, p)
  BY DEF LogInv, FileFollows
<1>7. Begins(f, p)
  BY <1>4, <1>5, <1>6
<1>8. is_open => Len(p) - Len(f) = (IF \E t \in Log!Writer : writer[t] = "file" THEN 1 ELSE 0)
  BY <1>4, <1>5
<1> QED BY <1>2, <1>7, <1>8 DEF Log!LinesWhole, Begins

LEMMA LogInit == Log!Init => LogInv
<1> SUFFICES ASSUME Log!Init PROVE LogInv
  OBVIOUS
<1>1. /\ writer = [t \in Log!Writer |-> "begin"] /\ holder = 0 /\ console = <<>>
      /\ log_file = <<>> /\ is_open = TRUE
  BY DEF Log!Init
<1>2. Writers \in Nat
  BY ExercisesAssumption, Zenon DEF Log!LoggerAssumption
<1>3. LogTyped /\ HolderStands
  BY <1>1, <1>2 DEF LogTyped, HolderStands, Log!Writer
<1>4. console \in Seq(Pieces) /\ Len(console) = 0
  BY <1>1
<1>5. Log!Printed = <<>>
  <2>1. Log!Printed = PrintedUpTo(console, 0, 0)
    BY <1>4, PrintedIs
  <2>2. \A i \in 1..0 : console[i] \in Pieces
    OBVIOUS
  <2> QED BY <2>1, <2>2, PrintedSteps
<1>6. FileFollows
  BY <1>1, <1>5 DEF FileFollows
<1>7. MessagesFollow(console)
  BY <1>4 DEF MessagesFollow
<1> QED BY <1>1, <1>3, <1>6, <1>7 DEF LogInv

\* What one more piece changes.
LEMMA PiecesFollow ==
  ASSUME NEW s \in Seq(Pieces), NEW x \in Pieces, MessagesFollow(s),
         x.line # 0 /\ x.part = "message" => PrefixIsLast(s, x.line)
  PROVE  /\ Append(s, x) \in Seq(Pieces)
         /\ MessagesFollow(Append(s, x))
         /\ \A t : PrefixIsLast(s, t) /\ x.line = 0 => PrefixIsLast(Append(s, x), t)
         /\ \A t : x = Log!Piece(t, "prefix") => PrefixIsLast(Append(s, x), t)
<1> DEFINE u == Append(s, x)
           n == Len(s)
<1>1. n \in Nat
  BY LenProperties
<1>2. u \in Seq(Pieces) /\ Len(u) = n + 1 /\ (\A i \in 1..n : u[i] = s[i]) /\ u[n + 1] = x
  BY AppendProperties
<1> HIDE DEF u
<1>3. MessagesFollow(u)
  <2> SUFFICES ASSUME NEW i \in 1..(n + 1), u[i].line # 0, u[i].part = "message"
               PROVE  \E j \in 1..(i - 1) : /\ u[j] = Log!Piece(u[i].line, "prefix")
                                            /\ \A m \in (j + 1)..(i - 1) : u[m].line = 0
    BY <1>2 DEF MessagesFollow
  <2>1. CASE i \in 1..n
    <3>1. u[i] = s[i]
      BY <1>2, <2>1
    <3>2. PICK j \in 1..(i - 1) : /\ s[j] = Log!Piece(s[i].line, "prefix")
                                  /\ \A m \in (j + 1)..(i - 1) : s[m].line = 0
      BY <2>1, <3>1 DEF MessagesFollow
    <3>3. j \in 1..n /\ \A m \in (j + 1)..(i - 1) : m \in 1..n
      BY <1>1, <2>1
    <3> QED BY <1>2, <3>1, <3>2, <3>3
  <2>2. CASE i = n + 1
    <3>1. u[i] = x
      BY <1>2, <2>2
    <3>2. PICK j \in 1..n : /\ s[j] = Log!Piece(x.line, "prefix")
                            /\ \A m \in (j + 1)..n : s[m].line = 0
      BY <3>1 DEF PrefixIsLast
    <3>3. (i - 1) = n /\ \A m \in (j + 1)..n : m \in 1..n
      BY <1>1, <2>2
    <3> QED BY <1>2, <3>1, <3>2, <3>3
  <2> QED BY <1>1, <2>1, <2>2
<1>4. ASSUME NEW t, PrefixIsLast(s, t), x.line = 0
      PROVE  PrefixIsLast(u, t)
  <2>1. PICK j \in 1..n : /\ s[j] = Log!Piece(t, "prefix")
                          /\ \A m \in (j + 1)..n : s[m].line = 0
    BY <1>4 DEF PrefixIsLast
  <2>2. j \in 1..(n + 1) /\ \A m \in (j + 1)..(n + 1) :
                            (m \in 1..n /\ m \in (j + 1)..n) \/ m = n + 1
    BY <1>1
  <2> QED BY <1>2, <1>4, <2>1, <2>2 DEF PrefixIsLast
<1>5. ASSUME NEW t, x = Log!Piece(t, "prefix")
      PROVE  PrefixIsLast(u, t)
  <2>1. n + 1 \in 1..(n + 1) /\ (n + 1 + 1)..(n + 1) = {}
    BY <1>1
  <2> QED BY <1>2, <1>5, <2>1 DEF PrefixIsLast
<1> QED BY <1>2, <1>3, <1>4, <1>5 DEF u

LEMMA ConsoleGrows ==
  ASSUME LogInv, NEW x \in Pieces, console' = Append(console, x)
  PROVE  /\ Log!Printed \in Seq(0..Writers)
         /\ Log!Printed' = IF x.line # 0 /\ x.part = "message"
                           THEN Append(Log!Printed, x.line) ELSE Log!Printed
<1> DEFINE n == Len(console)
           c == console
<1>1. c \in Seq(Pieces) /\ n \in Nat
  BY LenProperties DEF LogInv, LogTyped
<1>2. Append(c, x) \in Seq(Pieces) /\ Len(Append(c, x)) = n + 1
  BY <1>1, AppendProperties
<1>3. DOMAIN console' = 1..(n + 1)
  BY <1>2, LenProperties
<1>4. Log!Printed' = PrintedUpTo(Append(c, x), n + 1, n + 1)
  BY <1>3 DEF Log!Printed, Log!MapThenFoldSet, Log!Max, Largest, PrintedUpTo
<1>5. Log!Printed = PrintedUpTo(c, n, n)
  BY <1>1, PrintedIs
<1>6. PrintedUpTo(Append(c, x), n + 1, n + 1)
      = IF x.line # 0 /\ x.part = "message" THEN Append(PrintedUpTo(c, n, n), x.line)
        ELSE PrintedUpTo(c, n, n)
  BY <1>1, PrintedMore
<1> QED BY <1>4, <1>5, <1>6 DEF LogInv, FileFollows

LEMMA PrintedStands ==
  ASSUME console' = console
  PROVE  Log!Printed' = Log!Printed
BY DEF Log!Printed, Log!MapThenFoldSet, Log!Max

LEMMA LockKeeps ==
  ASSUME LogInv, NEW t \in Log!Writer, Log!Lock(t) \/ Log!WriteFile(t)
  PROVE  LogInv'
<1>1. /\ LogTyped /\ HolderStands /\ FileFollows /\ MessagesFollow(console)
      /\ \A u \in Log!Writer : writer[u] = "message" => PrefixIsLast(console, u)
      /\ t \in 1..Writers /\ Writers \in Nat
  BY ExercisesAssumption, Zenon DEF LogInv, Log!Writer, Log!LoggerAssumption
<1>2. console' = console /\ is_open' = is_open /\ Log!Printed' = Log!Printed
  <2>1. console' = console /\ is_open' = is_open
    BY DEF Log!Lock, Log!WriteFile
  <2> QED BY <2>1, PrintedStands
<1>3. CASE Log!Lock(t)
  <2>1. /\ writer' = [writer EXCEPT ![t] = "prefix"] /\ holder' = t /\ log_file' = log_file
        /\ holder = 0 /\ writer[t] = "begin"
    BY <1>3 DEF Log!Lock, Log!Goto
  <2>2. LogTyped' /\ HolderStands'
    BY <1>1, <1>2, <2>1 DEF LogTyped, HolderStands, Log!Writer
  <2>3. FileFollows'
    BY <1>1, <1>2, <2>1 DEF FileFollows, LogTyped, Log!Writer, Begins
  <2>4. \A u \in Log!Writer : writer'[u] = "message" => writer[u] = "message"
    BY <1>1, <2>1 DEF LogTyped
  <2> QED BY <1>1, <1>2, <2>2, <2>3, <2>4 DEF LogInv, Log!Writer
<1>4. CASE Log!WriteFile(t)
  <2>1. /\ writer' = [writer EXCEPT ![t] = "ended"] /\ holder' = 0 /\ writer[t] = "file"
        /\ log_file' = IF is_open THEN Append(log_file, t) ELSE log_file
    BY <1>4 DEF Log!WriteFile, Log!Goto
  <2>2. log_file' \in Seq(0..Writers)
    <3>1. Append(log_file, t) \in Seq(0..Writers)
      BY <1>1, AppendProperties DEF LogTyped
    <3> QED BY <1>1, <2>1, <3>1 DEF LogTyped
  <2>3. LogTyped' /\ HolderStands'
    BY <1>1, <1>2, <2>1, <2>2 DEF LogTyped, HolderStands, Log!Writer
  <2>4. FileFollows'
    <3>1. \A u \in Log!Writer : writer'[u] # "file"
      BY <1>1, <2>1 DEF LogTyped, HolderStands, Log!Writer
    <3>2. is_open => log_file' = Log!Printed
      BY <1>1, <2>1 DEF FileFollows, Log!Writer
    <3>3. ~is_open => Begins(log_file, Log!Printed) /\ log_file' = log_file
      BY <1>1, <2>1 DEF FileFollows
    <3>4. Log!Printed \in Seq(0..Writers)
      BY <1>1 DEF FileFollows
    <3> QED BY <1>2, <3>1, <3>2, <3>3, <3>4 DEF FileFollows, Log!Writer, Begins
  <2>5. \A u \in Log!Writer : writer'[u] = "message" => writer[u] = "message"
    BY <1>1, <2>1 DEF LogTyped
  <2> QED BY <1>1, <1>2, <2>3, <2>4, <2>5 DEF LogInv, Log!Writer
<1> QED BY <1>3, <1>4

LEMMA PrefixKeeps ==
  ASSUME LogInv, NEW t \in Log!Writer, Log!PrintPrefix(t)
  PROVE  LogInv'
<1> DEFINE x == Log!Piece(t, "prefix")
           c == console
<1>1. /\ LogTyped /\ HolderStands /\ FileFollows /\ MessagesFollow(c) /\ c \in Seq(Pieces)
      /\ t \in 1..Writers /\ Writers \in Nat
  BY ExercisesAssumption, Zenon DEF LogInv, LogTyped, Log!Writer, Log!LoggerAssumption
<1>2. /\ writer[t] = "prefix" /\ writer' = [writer EXCEPT ![t] = "message"]
      /\ console' = Append(c, x) /\ holder' = holder /\ log_file' = log_file
      /\ is_open' = is_open
  BY DEF Log!PrintPrefix, Log!Goto
<1>3. x \in Pieces /\ x.line = t /\ x.part = "prefix"
  BY <1>1 DEF Pieces, Log!Piece
<1>4. /\ Append(c, x) \in Seq(Pieces) /\ MessagesFollow(Append(c, x))
      /\ PrefixIsLast(Append(c, x), t)
  BY <1>1, <1>3, PiecesFollow
<1>5. Log!Printed' = Log!Printed
  BY <1>2, <1>3, ConsoleGrows
<1>6. LogTyped' /\ HolderStands'
  BY <1>1, <1>2, <1>4 DEF LogTyped, HolderStands, Log!Writer
<1>7. FileFollows'
  BY <1>1, <1>2, <1>5 DEF FileFollows, LogTyped, Log!Writer, Begins
<1>8. \A u \in Log!Writer : writer'[u] = "message" => u = t
  BY <1>1, <1>2 DEF LogTyped, HolderStands
<1> HIDE DEF x
<1> QED BY <1>2, <1>4, <1>6, <1>7, <1>8 DEF LogInv, Log!Writer

LEMMA MessageKeeps ==
  ASSUME LogInv, NEW t \in Log!Writer, Log!PrintMessage(t)
  PROVE  LogInv'
<1> DEFINE x == Log!Piece(t, "message")
           c == console
           p == Log!Printed
           f == log_file
           T == 0..Writers
<1>1. /\ LogTyped /\ HolderStands /\ FileFollows /\ MessagesFollow(c) /\ c \in Seq(Pieces)
      /\ t \in 1..Writers /\ Writers \in Nat /\ p \in Seq(T) /\ f \in Seq(T)
  BY ExercisesAssumption, Zenon DEF LogInv, LogTyped, FileFollows, Log!Writer, Log!LoggerAssumption
<1>2. /\ writer[t] = "message" /\ writer' = [writer EXCEPT ![t] = "file"]
      /\ console' = Append(c, x) /\ holder' = holder /\ log_file' = log_file
      /\ is_open' = is_open
  BY DEF Log!PrintMessage, Log!Goto
<1>3. x \in Pieces /\ x.line = t /\ x.part = "message" /\ t # 0
  BY <1>1 DEF Pieces, Log!Piece
<1>4. PrefixIsLast(c, t)
  BY <1>2 DEF LogInv
<1>5. Append(c, x) \in Seq(Pieces) /\ MessagesFollow(Append(c, x))
  BY <1>1, <1>3, <1>4, PiecesFollow
<1>6. Log!Printed' = Append(p, t)
  BY <1>2, <1>3, ConsoleGrows
<1>7. LogTyped' /\ HolderStands'
  BY <1>1, <1>2, <1>5 DEF LogTyped, HolderStands, Log!Writer
<1>8. FileFollows'
  <2>1. \A u \in Log!Writer : /\ writer[u] # "file"
                              /\ writer'[u] = "file" <=> u = t
    BY <1>1, <1>2 DEF LogTyped, HolderStands
  <2>2. is_open => p = f
    BY <1>1, <2>1 DEF FileFollows
  <2>3. Append(p, t) \in Seq(T)
    BY <1>1, AppendProperties
  <2>4. ~is_open => Begins(f, Append(p, t))
    <3>1. ~is_open => Begins(f, p)
      BY <1>1 DEF FileFollows
    <3>2. t \in T
      BY <1>1
    <3> HIDE DEF p, f, T
    <3> QED BY <1>1, <3>1, <3>2, PrefixOfLonger
  <2> HIDE DEF p
  <2> QED BY <1>2, <1>6, <2>1, <2>2, <2>3, <2>4 DEF FileFollows, Log!Writer, Begins
<1>9. \A u \in Log!Writer : writer'[u] # "message"
  BY <1>1, <1>2 DEF LogTyped, HolderStands
<1> HIDE DEF x, c
<1> QED BY <1>2, <1>5, <1>7, <1>8, <1>9 DEF LogInv, Log!Writer

LEMMA MainPrintsKeeps ==
  ASSUME LogInv, Log!MainPrints
  PROVE  LogInv'
<1> DEFINE x == Log!Piece(0, IF logged % 2 = 0 THEN "prefix" ELSE "message")
           c == console
<1>1. /\ LogTyped /\ HolderStands /\ FileFollows /\ MessagesFollow(c) /\ c \in Seq(Pieces)
      /\ Writers \in Nat
  BY ExercisesAssumption, Zenon DEF LogInv, LogTyped, Log!LoggerAssumption
<1>2. /\ console' = Append(c, x) /\ writer' = writer /\ holder' = holder
      /\ log_file' = log_file /\ is_open' = is_open
  BY DEF Log!MainPrints
<1>3. x \in Pieces /\ x.line = 0
  BY <1>1 DEF Pieces, Log!Piece
<1> HIDE DEF x
<1>4. /\ Append(c, x) \in Seq(Pieces) /\ MessagesFollow(Append(c, x))
      /\ \A u : PrefixIsLast(c, u) => PrefixIsLast(Append(c, x), u)
  BY <1>1, <1>3, PiecesFollow
<1>5. Log!Printed' = Log!Printed
  BY <1>2, <1>3, ConsoleGrows
<1>6. LogTyped' /\ HolderStands'
  BY <1>1, <1>2, <1>4 DEF LogTyped, HolderStands, Log!Writer
<1>7. FileFollows'
  BY <1>1, <1>2, <1>5 DEF FileFollows, Log!Writer, Begins
<1>8. \A u \in Log!Writer : writer[u] = "message" => PrefixIsLast(c, u)
  BY DEF LogInv
<1> QED BY <1>2, <1>4, <1>6, <1>7, <1>8 DEF LogInv, Log!Writer

\* main closes the file, ends, or does nothing.
LEMMA ReturnKeeps ==
  ASSUME LogInv, writer' = writer, holder' = holder, console' = console,
         log_file' = log_file, is_open' = is_open \/ is_open' = FALSE
  PROVE  LogInv'
<1>1. /\ LogTyped /\ HolderStands /\ FileFollows /\ MessagesFollow(console)
      /\ \A u \in Log!Writer : writer[u] = "message" => PrefixIsLast(console, u)
  BY DEF LogInv
<1>2. Log!Printed' = Log!Printed /\ Begins(log_file, Log!Printed)
  BY PrintedStands, LogImplies DEF Log!LinesWhole, Begins
<1>3. LogTyped' /\ HolderStands'
  BY <1>1 DEF LogTyped, HolderStands, Log!Writer
<1>4. FileFollows'
  BY <1>1, <1>2 DEF FileFollows, Log!Writer, Begins
<1> QED BY <1>1, <1>3, <1>4 DEF LogInv, Log!Writer

LEMMA LogNext == LogInv /\ Log!Next => LogInv'
<1> SUFFICES ASSUME LogInv, Log!Next PROVE LogInv'
  OBVIOUS
<1>1. CASE Log!MainPrints
  BY <1>1, MainPrintsKeeps
<1>2. CASE Log!Destroy \/ Log!Exit
  <2>1. /\ writer' = writer /\ holder' = holder /\ console' = console /\ log_file' = log_file
        /\ is_open' = is_open \/ is_open' = FALSE
    BY <1>2 DEF Log!Destroy, Log!Exit
  <2> QED BY <2>1, ReturnKeeps
<1>3. ASSUME NEW t \in Log!Writer,
             Log!Lock(t) \/ Log!PrintPrefix(t) \/ Log!PrintMessage(t) \/ Log!WriteFile(t)
      PROVE  LogInv'
  BY <1>3, LockKeeps, PrefixKeeps, MessageKeeps
<1> QED BY <1>1, <1>2, <1>3 DEF Log!Next

LEMMA LogInvariant == Spec => [](program = "Logger" => LogInv)
<1>1. Init => (program = "Logger" => LogInv)
  BY LogInit DEF Init
<1>2. (program = "Logger" => LogInv) /\ [Next]_vars => (program = "Logger" => LogInv)'
  <2> SUFFICES ASSUME program = "Logger" => LogInv, [Next]_vars, program' = "Logger"
               PROVE  LogInv'
    OBVIOUS
  <2>1. CASE program = "Logger" /\ Log!Next
    BY <2>1, LogNext
  <2>2. CASE program = "Logger" /\ UNCHANGED logVars
    BY <2>2, ReturnKeeps DEF logVars
  <2> QED BY <2>1, <2>2 DEF Next, vars
<1> QED BY <1>1, <1>2, PTL DEF Spec

(***************************************************************************)
(* GroupMenu.  An address is used once, so the students that are owned differ.  *)
(***************************************************************************)
MenuInv ==
  /\ nextStudent \in Nat /\ choice \in {"menu", "ended"}
  /\ \A a \in DOMAIN heap : a \in Nat /\ a < nextStudent
  /\ Owns(allStudents, {allStudents[i] : i \in 1..Len(allStudents)})
  /\ Owns(group, {group[i] : i \in 1..Len(group)})
  /\ saved = <<>> \/ \E name : \E students :
                       /\ saved = <<name, students>> /\ Len(students) \in Nat
                       /\ DOMAIN students = 1..Len(students)
  /\ choice = "menu" => /\ {allStudents[i] : i \in 1..Len(allStudents)} = DOMAIN heap
                        /\ {group[i] : i \in 1..Len(group)} \subseteq DOMAIN heap
  /\ choice = "ended" => DOMAIN heap = {}

LEMMA OwnedOnce ==
  ASSUME NEW s, NEW S, Owns(s, S)
  PROVE  Menu!IsInjective(s) /\ Menu!Range(s) = S
<1>1. DOMAIN s = 1..Len(s)
  BY LenProperties DEF Owns
<1> QED BY <1>1 DEF Owns, Menu!IsInjective, Menu!Range

LEMMA MenuImplies == MenuInv => Menu!OwnershipConsistent
<1> SUFFICES ASSUME MenuInv PROVE Menu!OwnershipConsistent
  OBVIOUS
<1> DEFINE A == {allStudents[i] : i \in 1..Len(allStudents)}
           G == {group[i] : i \in 1..Len(group)}
<1>1. Owns(allStudents, A) /\ Owns(group, G)
  BY DEF MenuInv
<1>2. /\ choice = "menu" => A = DOMAIN heap /\ G \subseteq DOMAIN heap
      /\ choice = "ended" => DOMAIN heap = {}
  BY DEF MenuInv
<1> HIDE DEF A, G
<1> QED BY <1>1, <1>2, OwnedOnce DEF Menu!OwnershipConsistent

LEMMA OwnsRest ==
  ASSUME NEW s, NEW S, Owns(s, S), NEW i \in 1..Len(s)
  PROVE  OwnsPart(SubSeq(s, 1, i - 1) \o SubSeq(s, i + 1, Len(s)), S)
<1> DEFINE n == Len(s)
           a == SubSeq(s, 1, i - 1)
           b == SubSeq(s, i + 1, n)
           u == a \o b
           p == [j \in 1..(n - 1) |-> IF j < i THEN j ELSE j + 1]
<1>1. s \in Seq(Nat) /\ n \in Nat /\ i \in 1..n /\ \A j \in 1..n : s[j] \in Nat
  BY LenProperties DEF Owns
<1>2. /\ a \in Seq(Nat) /\ Len(a) = i - 1
      /\ \A j \in 1..(i - 1) : a[j] = s[j]
  <2> HIDE DEF n
  <2>1. \A j \in 1..(i - 1) : s[j] \in Nat
    BY <1>1
  <2>2. a = [j \in 1..(i - 1) |-> s[1 + j - 1]]
    BY <1>1
  <2>3. \A j \in 1..(i - 1) : s[1 + j - 1] = s[j]
    BY <1>1
  <2>4. a = [j \in 1..(i - 1) |-> s[j]]
    BY <2>2, <2>3
  <2> HIDE DEF a
  <2> QED BY <1>1, <2>1, <2>4
<1>3. /\ b \in Seq(Nat) /\ Len(b) = n - i
      /\ \A j \in 1..(n - i) : b[j] = s[i + j]
  <2> HIDE DEF n
  <2>1. \A j \in 1..(n - i) : s[i + j] \in Nat
    BY <1>1
  <2>2. b = [j \in 1..(n - i) |-> s[i + 1 + j - 1]]
    BY <1>1
  <2>3. \A j \in 1..(n - i) : s[i + 1 + j - 1] = s[i + j]
    BY <1>1
  <2>4. b = [j \in 1..(n - i) |-> s[i + j]]
    BY <2>2, <2>3
  <2>5. n - i \in Nat
    BY <1>1
  <2> HIDE DEF b
  <2> QED BY <1>1, <2>1, <2>4, <2>5
<1> HIDE DEF a, b
<1>4. /\ u \in Seq(Nat) /\ Len(u) = Len(a) + Len(b)
      /\ \A j \in 1..(Len(a) + Len(b)) : u[j] = IF j <= Len(a) THEN a[j] ELSE b[j - Len(a)]
  BY <1>2, <1>3, ConcatProperties
<1> HIDE DEF u, n
<1>5. /\ n - 1 \in Nat /\ Len(u) = n - 1
      /\ \A j \in 1..(n - 1) : u[j] = IF j <= i - 1 THEN a[j] ELSE b[j - (i - 1)]
  BY <1>1, <1>2, <1>3, <1>4
<1>6. \A j \in 1..(n - 1) : p[j] \in 1..n
  BY <1>1
<1>7. \A j \in 1..(n - 1) : u[j] = s[p[j]]
  <2> SUFFICES ASSUME NEW j \in 1..(n - 1) PROVE u[j] = s[p[j]]
    OBVIOUS
  <2>1. CASE j < i
    <3>1. j \in 1..(i - 1) /\ j <= i - 1
      BY <1>1, <2>1
    <3> QED BY <1>2, <1>5, <2>1, <3>1
  <2>2. CASE ~(j < i)
    <3>1. j - (i - 1) \in 1..(n - i) /\ ~(j <= i - 1) /\ i + (j - (i - 1)) = j + 1
      BY <1>1, <2>2
    <3> QED BY <1>3, <1>5, <2>2, <3>1
  <2> QED BY <2>1, <2>2
<1>8. \A j, k \in 1..(n - 1) : p[j] = p[k] => j = k
  BY <1>1
<1> HIDE DEF p
<1> DEFINE m == n - 1
<1>9. m \in Nat /\ Len(u) = m /\ Selects(p, u, m, s)
  BY <1>5, <1>6, <1>7, <1>8 DEF n, Selects
<1> HIDE DEF m
<1>10. OwnsPart(u, S)
  BY <1>4, <1>9, OwnsFewer
<1> QED BY <1>10 DEF u, a, b, n

\* The students among the first k of s whose average is not below the threshold.
Below(a, threshold) == heap[a][2] < threshold
KeptUpTo(s, threshold, n, k) ==
  (CHOOSE h : h = [r \in SUBSET (1..n) |-> IF r = {} THEN <<>>
                     ELSE IF Below(s[Largest(r)], threshold) THEN h[r \ {Largest(r)}]
                          ELSE Append(h[r \ {Largest(r)}], s[Largest(r)])])[1..k]

LEMMA KeptSteps ==
  ASSUME NEW n \in Nat, NEW s, Members(s, n, Nat), NEW threshold
  PROVE  /\ KeptUpTo(s, threshold, n, 0) = <<>>
         /\ \A k \in 1..n : KeptUpTo(s, threshold, n, k)
                            = IF Below(s[k], threshold) THEN KeptUpTo(s, threshold, n, k - 1)
                              ELSE Append(KeptUpTo(s, threshold, n, k - 1), s[k])
<1> DEFINE Rule(h) == h = [r \in SUBSET (1..n) |-> IF r = {} THEN <<>>
                            ELSE IF Below(s[Largest(r)], threshold) THEN h[r \ {Largest(r)}]
                                 ELSE Append(h[r \ {Largest(r)}], s[Largest(r)])]
           g == CHOOSE h : Rule(h)
           K == {a \in Nat : ~(Below(a, threshold))}
           f == [a \in Nat |-> a]
<1>1. f \in [Nat -> Nat]
  OBVIOUS
<1>2. PICK h : Chooses(h, s, n, K, f)
  <2> HIDE DEF K, f
  <2> QED BY <1>1, ChoosingUp
<1>3. \A i \in 1..n : /\ s[i] \in K <=> ~(Below(s[i], threshold))
                      /\ f[s[i]] = s[i]
  BY DEF Members
<1> HIDE DEF K, f
<1>4. \A r \in SUBSET (1..n) : r # {} => Largest(r) \in 1..n
  <2> SUFFICES ASSUME NEW r \in SUBSET (1..n), r # {} PROVE Largest(r) \in 1..n
    OBVIOUS
  <2> DEFINE S == 1..n
  <2>0. S \in SUBSET Int /\ IsFiniteSet(S) /\ r \in SUBSET S
    BY FS_Interval
  <2> HIDE DEF S
  <2>1. IsFiniteSet(r) /\ r \in SUBSET Int
    BY <2>0, FS_Subset
  <2> QED BY <2>0, <2>1, LargestIsMember DEF S
<1>5. Rule(h)
  <2> DEFINE H(r) == IF r = {} THEN <<>>
                     ELSE IF s[Largest(r)] \in K THEN Append(h[r \ {Largest(r)}], f[s[Largest(r)]])
                          ELSE h[r \ {Largest(r)}]
             G(r) == IF r = {} THEN <<>>
                     ELSE IF Below(s[Largest(r)], threshold) THEN h[r \ {Largest(r)}]
                          ELSE Append(h[r \ {Largest(r)}], s[Largest(r)])
  <2>1. h = [r \in SUBSET (1..n) |-> H(r)]
    BY <1>2 DEF Chooses
  <2>2. \A r \in SUBSET (1..n) : H(r) = G(r)
    BY <1>3, <1>4
  <2> HIDE DEF H
  <2>3. h = [r \in SUBSET (1..n) |-> G(r)]
    BY <2>1, <2>2
  <2> QED BY <2>3
<1>6. Rule(g)
  <2> HIDE DEF Rule
  <2> QED BY <1>5
<1>7. \A k : KeptUpTo(s, threshold, n, k) = g[1..k]
  BY DEF KeptUpTo
<1> HIDE DEF g
<1>8. Chooses(g, s, n, K, f)
  BY <1>3, <1>4, <1>6 DEF Chooses
<1>9. /\ g[1..0] = <<>>
      /\ \A k \in 1..n : g[1..k] = IF s[k] \in K THEN Append(g[1..(k - 1)], f[s[k]])
                                   ELSE g[1..(k - 1)]
  BY <1>8, ChosenSteps
<1>10. \A k \in 1..n : g[1..k] = IF Below(s[k], threshold) THEN g[1..(k - 1)]
                                 ELSE Append(g[1..(k - 1)], s[k])
  BY <1>3, <1>9
<1> QED BY <1>7, <1>9, <1>10

LEMMA OwnsKept ==
  ASSUME NEW s, NEW S, Owns(s, S), NEW threshold
  PROVE  OwnsPart(KeptUpTo(s, threshold, Len(s), Len(s)), S)
<1> DEFINE n == Len(s)
           F(k) == KeptUpTo(s, threshold, n, k)
           Upto(k) == {s[i] : i \in 1..k}
           Bad == {k \in 0..n : ~OwnsPart(F(k), Upto(k))}
<1>1. s \in Seq(Nat) /\ n \in Nat /\ \A i \in 1..n : s[i] \in Nat
  BY LenProperties DEF Owns
<1>2. (\A i, j \in 1..n : s[i] = s[j] => i = j) /\ S = Upto(n)
  BY DEF Owns
<1> HIDE DEF n
<1>3. F(0) = <<>> /\ \A k \in 1..n : F(k) = IF Below(s[k], threshold) THEN F(k - 1)
                                            ELSE Append(F(k - 1), s[k])
  <2>1. Members(s, n, Nat)
    BY <1>1 DEF Members
  <2> QED BY <1>1, <2>1, KeptSteps
<1> HIDE DEF F
<1>4. Bad = {}
  <2> SUFFICES ASSUME Bad # {} PROVE FALSE
    OBVIOUS
  <2>1. PICK k \in Bad : \A j \in Bad : k <= j
    <3>1. Bad \in SUBSET (0..n)
      OBVIOUS
    <3> HIDE DEF Bad
    <3> QED BY <1>1, <3>1, SmallestNumber
  <2>2. k # 0
    <3>1. OwnsPart(<<>>, Upto(0))
      BY DEF OwnsPart, Owns
    <3> QED BY <1>3, <2>1, <3>1
  <2>3. k \in 1..n /\ k - 1 \in 0..n /\ ~(k <= k - 1)
    BY <1>1, <2>2
  <2> DEFINE u == F(k - 1)
             U == {u[i] : i \in 1..Len(u)}
             a == s[k]
  <2>4. Owns(u, U) /\ U \subseteq Upto(k - 1)
    BY <2>1, <2>3 DEF OwnsPart
  <2>5. a \in Nat /\ a \notin Upto(k - 1) /\ Upto(k) = Upto(k - 1) \cup {a}
    <3>1. k \in Nat /\ k # 0 /\ \A i \in 1..k : i \in 1..(k - 1) \/ i = k
      BY <2>3
    <3>2. \A i \in 1..(k - 1) : i \in 1..n /\ i # k /\ i \in 1..k
      BY <1>1, <2>3
    <3>3. k \in 1..k
      BY <2>3
    <3> QED BY <1>1, <1>2, <2>3, <3>1, <3>2, <3>3
  <2> HIDE DEF Upto, U
  <2>6. Owns(Append(u, a), U \cup {a}) /\ U \cup {a} \subseteq Upto(k)
    <3> HIDE DEF u, a
    <3>1. a \notin U
      BY <2>4, <2>5
    <3> QED BY <2>4, <2>5, <3>1, OwnsMore
  <2>7. OwnsPart(Append(u, a), Upto(k))
    BY <2>6 DEF OwnsPart, Owns
  <2>8. OwnsPart(u, Upto(k))
    BY <2>4, <2>5 DEF OwnsPart, Owns
  <2>9. F(k) = u \/ F(k) = Append(u, a)
    BY <1>3, <2>3
  <2> QED BY <2>1, <2>7, <2>8, <2>9
<1>5. OwnsPart(F(n), Upto(n))
  BY <1>1, <1>4
<1> QED BY <1>2, <1>5 DEF F, n

LEMMA FilteredIs ==
  ASSUME group \in Seq(Nat), NEW threshold
  PROVE  Menu!MapThenFoldSet(LAMBDA s, kept : IF Menu!Average(s) < threshold THEN kept
                                               ELSE Append(kept, s),
                              <<>>, LAMBDA i : group[i], Menu!Max, DOMAIN group)
         = KeptUpTo(group, threshold, Len(group), Len(group))
<1>1. DOMAIN group = 1..Len(group)
  BY LenProperties
<1> QED BY <1>1 DEF Menu!MapThenFoldSet, Menu!Max, Menu!Average, Below, Largest, KeptUpTo

\* What MenuInv says, with the members named.
AllMembers == {allStudents[i] : i \in 1..Len(allStudents)}
GroupMembers == {group[i] : i \in 1..Len(group)}
SavedStands == saved = <<>> \/ \E name : \E students :
                                 /\ saved = <<name, students>> /\ Len(students) \in Nat
                                 /\ DOMAIN students = 1..Len(students)

LEMMA MenuInit == Menu!Init => MenuInv
<1> SUFFICES ASSUME Menu!Init PROVE MenuInv
  OBVIOUS
<1> DEFINE n == Len(Preset)
           u == [i \in 1..n |-> i]
<1>1. Preset \in Seq(STRING \X Int)
  BY ExercisesAssumption, Zenon DEF Menu!MenuAssumption
<1>2. n \in Nat /\ DOMAIN Preset = 1..n
  BY <1>1, LenProperties
<1>3. /\ heap = Preset /\ nextStudent = n + 1 /\ allStudents = u /\ group = u
      /\ saved = <<>> /\ choice = "menu"
  BY <1>2 DEF Menu!Init
<1> HIDE DEF n
<1>4. u = [i \in 1..n |-> 0 + i]
  BY <1>2
<1> HIDE DEF u
<1>5. Owns(u, (0 + 1)..(0 + n)) /\ Len(u) = n
  BY <1>2, <1>4, OwnsNumbered
<1>6. Owns(u, 1..n) /\ {u[i] : i \in 1..Len(u)} = 1..n
  BY <1>2, <1>5 DEF Owns
<1>7. nextStudent \in Nat /\ \A a \in DOMAIN heap : a \in Nat /\ a < nextStudent
  BY <1>2, <1>3
<1> QED BY <1>2, <1>3, <1>6, <1>7 DEF MenuInv

\* The group may become any part of what it was.
LEMMA GroupChanges ==
  ASSUME MenuInv, UNCHANGED <<heap, nextStudent, allStudents, choice>>,
         SavedStands', OwnsPart(group', GroupMembers)
  PROVE  MenuInv'
<1>1. GroupMembers' \subseteq GroupMembers /\ Owns(group', GroupMembers')
  BY DEF OwnsPart, GroupMembers
<1>2. AllMembers' = AllMembers
  BY DEF AllMembers
<1>3. /\ nextStudent \in Nat /\ choice \in {"menu", "ended"}
      /\ \A a \in DOMAIN heap : a \in Nat /\ a < nextStudent
      /\ Owns(allStudents, AllMembers)
      /\ choice = "menu" => AllMembers = DOMAIN heap /\ GroupMembers \subseteq DOMAIN heap
      /\ choice = "ended" => DOMAIN heap = {}
  BY DEF MenuInv, AllMembers, GroupMembers
<1>4. MenuInv' <=>
        /\ nextStudent' \in Nat /\ choice' \in {"menu", "ended"}
        /\ \A a \in DOMAIN heap' : a \in Nat /\ a < nextStudent'
        /\ Owns(allStudents', AllMembers') /\ Owns(group', GroupMembers')
        /\ SavedStands'
        /\ choice' = "menu" => AllMembers' = DOMAIN heap' /\ GroupMembers' \subseteq DOMAIN heap'
        /\ choice' = "ended" => DOMAIN heap' = {}
  BY Zenon DEF MenuInv, AllMembers, GroupMembers, SavedStands, Owns
<1> QED BY <1>1, <1>2, <1>3, <1>4

LEMMA AddStudentKeeps ==
  ASSUME MenuInv, NEW student, Menu!AddStudent(student)
  PROVE  MenuInv'
<1> DEFINE a == nextStudent
<1>1. /\ a \in Nat /\ choice = "menu" /\ \A s \in DOMAIN heap : s \in Nat /\ s < a
      /\ Owns(allStudents, AllMembers) /\ Owns(group, GroupMembers) /\ SavedStands
      /\ AllMembers = DOMAIN heap /\ GroupMembers \subseteq DOMAIN heap
  BY DEF MenuInv, AllMembers, GroupMembers, SavedStands, Menu!AddStudent
<1>2. /\ DOMAIN heap' = DOMAIN heap \cup {a} /\ nextStudent' = a + 1 /\ choice' = "menu"
      /\ allStudents' = Append(allStudents, a) /\ group' = Append(group, a) /\ saved' = saved
  BY <1>1 DEF Menu!AddStudent
<1> HIDE DEF a
<1>3. a \notin DOMAIN heap
  BY <1>1
<1>4. Owns(allStudents', AllMembers \cup {a}) /\ Owns(group', GroupMembers \cup {a})
  BY <1>1, <1>2, <1>3, OwnsMore
<1>5. AllMembers' = AllMembers \cup {a} /\ GroupMembers' = GroupMembers \cup {a}
  BY <1>4 DEF Owns, AllMembers, GroupMembers
<1>6. nextStudent' \in Nat /\ \A s \in DOMAIN heap' : s \in Nat /\ s < nextStudent'
  BY <1>1, <1>2
<1>7. SavedStands'
  BY <1>1, <1>2 DEF SavedStands
<1>8. /\ Owns(allStudents', AllMembers') /\ Owns(group', GroupMembers')
      /\ AllMembers' = DOMAIN heap' /\ GroupMembers' \subseteq DOMAIN heap'
  BY <1>1, <1>2, <1>4, <1>5
<1> QED BY <1>2, <1>6, <1>7, <1>8 DEF MenuInv, AllMembers, GroupMembers, SavedStands, Owns

LEMMA RemoveStudentKeeps ==
  ASSUME MenuInv, NEW name, Menu!RemoveStudent(name)
  PROVE  MenuInv'
<1> DEFINE found == {i \in DOMAIN group : Menu!Name(group[i]) = name}
           n == Len(group)
           i == Menu!Min(found)
<1>1. /\ group \in Seq(Nat) /\ n \in Nat /\ DOMAIN group = 1..n /\ SavedStands
      /\ Owns(group, GroupMembers)
  BY LenProperties DEF MenuInv, Owns, SavedStands, GroupMembers
<1>2. /\ UNCHANGED <<heap, nextStudent, allStudents, choice, saved>>
      /\ group' = IF found = {} THEN group
                  ELSE SubSeq(group, 1, i - 1) \o SubSeq(group, i + 1, Len(group))
  BY DEF Menu!RemoveStudent
<1>3. found # {} => i \in 1..n
  <2> SUFFICES ASSUME found # {} PROVE i \in 1..n
    OBVIOUS
  <2>1. found \in SUBSET (0..n) /\ found \in SUBSET (1..n)
    BY <1>1
  <2> HIDE DEF found, n
  <2>2. \E x \in found : \A y \in found : x <= y
    BY <1>1, <2>1, SmallestNumber
  <2>3. i \in found
    BY <2>2 DEF Menu!Min
  <2> QED BY <2>1, <2>3
<1> HIDE DEF found, i
<1>4. OwnsPart(group', GroupMembers)
  <2>1. CASE found = {}
    BY <1>1, <1>2, <2>1 DEF OwnsPart, GroupMembers
  <2>2. CASE found # {}
    BY <1>1, <1>2, <1>3, <2>2, OwnsRest
  <2> QED BY <2>1, <2>2
<1>5. SavedStands'
  BY <1>1, <1>2 DEF SavedStands
<1> QED BY <1>2, <1>4, <1>5, GroupChanges

LEMMA SortStudentsKeeps == ASSUME MenuInv, Menu!SortStudents PROVE MenuInv'
<1> DEFINE n == Len(group)
<1>1. /\ group \in Seq(Nat) /\ n \in Nat /\ DOMAIN group = 1..n /\ SavedStands
      /\ \A i \in 1..n : group[i] \in Nat
  BY LenProperties DEF MenuInv, Owns, SavedStands
<1>2. UNCHANGED <<heap, nextStudent, allStudents, choice, saved>>
  BY DEF Menu!SortStudents
<1>3. Menu!Range(group) = GroupMembers
  BY <1>1 DEF Menu!Range, GroupMembers
<1>4. group' \in [1..n -> GroupMembers] /\ Menu!IsInjective(group')
  <2>1. group' \in {g \in [DOMAIN group -> Menu!Range(group)] :
                      Menu!IsInjective(g) /\ Menu!Sorted(g)}
    BY Zenon DEF Menu!SortStudents
  <2> QED BY <1>1, <1>3, <2>1
<1>5. \A i, j \in 1..n : group'[i] = group'[j] => i = j
  BY <1>4 DEF Menu!IsInjective
<1>6. GroupMembers \in SUBSET Nat
  BY <1>1 DEF GroupMembers
<1> HIDE DEF n
<1>7. group' \in Seq(Nat) /\ Len(group') = n
  <2>1. group' = [i \in 1..n |-> group'[i]] /\ \A i \in 1..n : group'[i] \in Nat
    BY <1>4, <1>6
  <2> QED BY <1>1, <2>1
<1>8. OwnsPart(group', GroupMembers)
  BY <1>4, <1>5, <1>7 DEF OwnsPart, Owns
<1>9. SavedStands'
  BY <1>1, <1>2 DEF SavedStands
<1> QED BY <1>2, <1>8, <1>9, GroupChanges

LEMMA FilterKeeps ==
  ASSUME MenuInv, NEW threshold, Menu!FilterByThreshold(threshold)
  PROVE  MenuInv'
<1>1. group \in Seq(Nat) /\ Owns(group, GroupMembers) /\ SavedStands
  BY DEF MenuInv, Owns, SavedStands, GroupMembers
<1>2. UNCHANGED <<heap, nextStudent, allStudents, choice, saved>>
  BY DEF Menu!FilterByThreshold
<1>3. group' = KeptUpTo(group, threshold, Len(group), Len(group))
  BY <1>1, FilteredIs DEF Menu!FilterByThreshold
<1>4. OwnsPart(group', GroupMembers)
  BY <1>1, <1>3, OwnsKept
<1>5. SavedStands'
  BY <1>1, <1>2 DEF SavedStands
<1> QED BY <1>2, <1>4, <1>5, GroupChanges

LEMMA SaveGroupKeeps == ASSUME MenuInv, Menu!SaveGroup PROVE MenuInv'
<1> DEFINE n == Len(group)
           students == [i \in 1..n |-> heap[group[i]]]
<1>1. /\ n \in Nat /\ DOMAIN group = 1..n
      /\ Owns(group, GroupMembers)
  BY LenProperties DEF MenuInv, Owns, GroupMembers
<1>2. /\ UNCHANGED <<heap, nextStudent, allStudents, choice, group>>
      /\ saved' = <<groupName, students>>
  BY <1>1 DEF Menu!SaveGroup
<1>3. OwnsPart(group', GroupMembers)
  BY <1>1, <1>2 DEF OwnsPart, GroupMembers
<1>4. DOMAIN students = 1..n /\ Len(students) = n
  BY <1>1
<1> HIDE DEF students
<1>5. SavedStands'
  BY <1>1, <1>2, <1>4 DEF SavedStands
<1> QED BY <1>2, <1>3, <1>5, GroupChanges

LEMMA LoadGroupKeeps == ASSUME MenuInv, Menu!LoadGroup PROVE MenuInv'
<1> DEFINE students == saved[2]
           n == Len(students)
           a == nextStudent - 1
           u == [i \in 1..n |-> nextStudent + i - 1]
<1>1. /\ choice = "menu" /\ nextStudent \in Nat /\ SavedStands /\ saved # <<>>
      /\ Owns(allStudents, AllMembers)
      /\ AllMembers = DOMAIN heap /\ \A s \in DOMAIN heap : s \in Nat /\ s < nextStudent
  BY DEF MenuInv, AllMembers, SavedStands, Menu!LoadGroup
<1>2. n \in Nat /\ DOMAIN students = 1..n
  BY <1>1 DEF SavedStands
<1>3. /\ DOMAIN heap' = Menu!Range(u) /\ nextStudent' = nextStudent + n
      /\ allStudents' = u /\ group' = u /\ saved' = saved /\ choice' = "menu"
  BY <1>1, <1>2 DEF Menu!LoadGroup, Menu!TakeOver
<1> HIDE DEF n, students
<1>4. DOMAIN u = 1..n /\ Len(u) = n
  BY <1>2
<1>5. \A i \in 1..n : u[i] \in Nat /\ u[i] >= nextStudent /\ u[i] < nextStudent + n
  BY <1>1, <1>2
<1>6. \A i, j \in 1..n : u[i] = u[j] => i = j
  BY <1>1, <1>2
<1>7. u \in Seq(Nat)
  BY <1>2, <1>5
<1>8. Menu!Range(u) = {u[i] : i \in 1..Len(u)}
  BY <1>4 DEF Menu!Range
<1> HIDE DEF u
<1>9. Owns(u, {u[i] : i \in 1..Len(u)})
  BY <1>4, <1>6, <1>7 DEF Owns
<1>10. nextStudent' \in Nat /\ \A s \in DOMAIN heap' : s \in Nat /\ s < nextStudent'
  BY <1>1, <1>2, <1>3, <1>4, <1>5, <1>8
<1>11. SavedStands'
  BY <1>1, <1>3 DEF SavedStands
<1> QED BY <1>3, <1>8, <1>9, <1>10, <1>11 DEF MenuInv, SavedStands, Owns

LEMMA LeaveKeeps == ASSUME MenuInv, Menu!Leave PROVE MenuInv'
<1>1. /\ choice = "menu" /\ nextStudent \in Nat /\ SavedStands
      /\ Owns(allStudents, AllMembers) /\ Owns(group, GroupMembers)
      /\ AllMembers = DOMAIN heap
  BY DEF MenuInv, AllMembers, GroupMembers, SavedStands, Menu!Leave
<1>2. Menu!Range(allStudents) = AllMembers
  BY <1>1, OwnedOnce
<1>3. /\ UNCHANGED <<nextStudent, allStudents, group, saved>> /\ choice' = "ended"
      /\ DOMAIN heap' = {}
  BY <1>1, <1>2 DEF Menu!Leave
<1>4. Owns(allStudents', AllMembers') /\ Owns(group', GroupMembers') /\ SavedStands'
  BY <1>1, <1>3 DEF AllMembers, GroupMembers, SavedStands
<1> QED BY <1>1, <1>3, <1>4 DEF MenuInv, AllMembers, GroupMembers, SavedStands, Owns

LEMMA MenuNext == MenuInv /\ Menu!Next => MenuInv'
<1> SUFFICES ASSUME MenuInv, Menu!Next PROVE MenuInv'
  OBVIOUS
<1>1. \/ \E student \in Newcomers : Menu!AddStudent(student) \/ Menu!RemoveStudent(student[1])
      \/ Menu!SortStudents
      \/ \E threshold \in Thresholds : Menu!FilterByThreshold(threshold)
      \/ Menu!SaveGroup \/ Menu!LoadGroup \/ Menu!Leave
  BY Zenon DEF Menu!Next
<1> QED BY <1>1, AddStudentKeeps, RemoveStudentKeeps, SortStudentsKeeps, FilterKeeps,
           SaveGroupKeeps, LoadGroupKeeps, LeaveKeeps, Zenon

LEMMA MenuInvariant == Spec => [](program = "GroupMenu" => MenuInv)
<1>1. Init => (program = "GroupMenu" => MenuInv)
  BY MenuInit DEF Init
<1>2. (program = "GroupMenu" => MenuInv) /\ [Next]_vars => (program = "GroupMenu" => MenuInv)'
  <2> SUFFICES ASSUME program = "GroupMenu" => MenuInv, [Next]_vars, program' = "GroupMenu"
               PROVE  MenuInv'
    OBVIOUS
  <2>1. CASE program = "GroupMenu" /\ Menu!Next
    BY <2>1, MenuNext
  <2>2. CASE program = "GroupMenu" /\ UNCHANGED menuVars
    BY <2>2 DEF menuVars, MenuInv, Owns
  <2> QED BY <2>1, <2>2 DEF Next, vars
<1> QED BY <1>1, <1>2, PTL DEF Spec

(***************************************************************************)
(* GradeFile.  The file holds the rows one after the other; those that are whole *)
(* are the first ones.                                                          *)
(***************************************************************************)
LEMMA FlattenedIs ==
  ASSUME NEW s \in Seq(Seq(Int))
  PROVE  Grades!FlattenSeq(s) = FlatUpTo(s, Len(s))
BY EmptySeq DEF Grades!FlattenSeq, FlatUpTo

Width == IF table = <<>> THEN 0 ELSE Len(table[1])
Header == [signature : BOOLEAN, version : Versions \cup {0, 1}, studentCount : Nat,
           subjectCount : Nat]

\* What loadFromFile has done: refused the header, or read the rows that are whole.
Refused == ~Grades!HeaderAccepted /\ loadedGrades = <<>> /\ succeeded = FALSE
Loaded == /\ Grades!HeaderAccepted
          /\ loadedGrades = [i \in 1..Grades!WholeRows |-> Grades!Row(i)]
          /\ succeeded = (Grades!WholeRows = header.studentCount)

GradesInv ==
  /\ table \in Seq(Seq(Int)) /\ cells \in Seq(Int) /\ header \in Header
  /\ doing \in {"save", "verify", "load", "done"}
  /\ doing # "save" => /\ header.studentCount = Len(table) /\ header.subjectCount = Width
                       /\ Len(cells) <= Len(Grades!FlattenSeq(table))
  /\ doing \in {"load", "done"} =>
       verified = (header.signature /\ Len(cells) = Grades!ExpectedCells)
  /\ doing # "done" => loadedGrades = <<>>
  /\ doing = "done" => Refused \/ Loaded

\* The rows of a rectangular table, as they lie in the file.
LEMMA RectangularFlat ==
  ASSUME GradesInv, Grades!Rectangular
  PROVE  /\ Width \in Nat /\ Even(table, Width)
         /\ CellsPlaced(Grades!FlattenSeq(table), table, Width, Len(table))
<1> DEFINE n == Len(table)
           w == Width
<1>1. table \in Seq(Seq(Int)) /\ n \in Nat /\ DOMAIN table = 1..n
      /\ \A i \in 1..n : table[i] \in Seq(Int)
  BY LenProperties DEF GradesInv
<1>2. table # <<>> => n # 0
  BY <1>1, EmptySeq
<1>3. w \in Nat
  <2>1. CASE table = <<>>
    BY <2>1 DEF Width
  <2>2. CASE table # <<>>
    <3>1. 1 \in 1..n
      BY <1>1, <1>2, <2>2
    <3>2. Len(table[1]) \in Nat
      BY <1>1, <3>1, LenProperties
    <3> QED BY <2>2, <3>2 DEF Width
  <2> QED BY <2>1, <2>2
<1>4. Even(table, w)
  <2> SUFFICES ASSUME NEW i \in 1..n PROVE Len(table[i]) = w
    BY DEF Even
  <2>1. table # <<>>
    BY <1>1
  <2> QED BY <1>1, <2>1 DEF Width, Grades!Rectangular
<1> HIDE DEF w
<1>5. \A k \in 0..n : CellsPlaced(FlatUpTo(table, k), table, w, k)
  BY <1>1, <1>3, <1>4, FlatOfEven
<1>6. n \in 0..n
  BY <1>1
<1>7. Grades!FlattenSeq(table) = FlatUpTo(table, n)
  BY <1>1, FlattenedIs
<1> QED BY <1>3, <1>4, <1>5, <1>6, <1>7 DEF w

\* What the rows that are read are, and how many.
LEMMA LoadedRows ==
  ASSUME GradesInv, doing = "done", Loaded
  PROVE  \E m \in 0..header.studentCount :
           /\ Grades!WholeRows = m /\ m * header.subjectCount <= Len(cells)
           /\ header.studentCount * header.subjectCount <= Len(cells)
                => m = header.studentCount
           /\ loadedGrades = [i \in 1..m |-> RowOf(cells, header.subjectCount, i)]
           /\ loadedGrades \in Seq(Seq(Int)) /\ Len(loadedGrades) = m
           /\ Even(loadedGrades, header.subjectCount)
           /\ Grades!FlattenSeq(loadedGrades) = SubSeq(cells, 1, m * header.subjectCount)
<1> DEFINE n == header.studentCount
           w == header.subjectCount
           L == Len(cells)
           s == loadedGrades
<1>1. n \in Nat /\ w \in Nat /\ cells \in Seq(Int)
  BY DEF GradesInv, Header
<1>2. L \in Nat
  BY <1>1, LenProperties
<1>3. Grades!WholeRows = Cardinality({i \in 1..n : i * w <= L})
  BY DEF Grades!WholeRows, Grades!Cardinality, Grades!IsFiniteSet, Cardinality, IsFiniteSet
<1>4. loadedGrades = [i \in 1..Grades!WholeRows |-> RowOf(cells, w, i)]
  BY DEF Loaded, Grades!Row, RowOf
<1> HIDE DEF n, w
<1>5. PICK m \in 0..n : /\ Cardinality({i \in 1..n : i * w <= L}) = m
                        /\ m * w <= L /\ (n * w <= L => m = n)
  <2> HIDE DEF L
  <2> QED BY <1>1, <1>2, FirstRows
<1>6. Grades!WholeRows = m
  BY <1>3, <1>5
<1>7. m \in Nat /\ RowsOf(s, cells, w, m) /\ m * w <= Len(cells)
  BY <1>1, <1>4, <1>5, <1>6 DEF RowsOf
<1> HIDE DEF s
<1>8. /\ s \in Seq(Seq(Int)) /\ Len(s) = m /\ Even(s, w)
      /\ FlatUpTo(s, m) = SubSeq(cells, 1, m * w)
  BY <1>1, <1>7, FlatOfRows
<1>9. Grades!FlattenSeq(s) = FlatUpTo(s, m)
  BY <1>8, FlattenedIs
<1> QED BY <1>5, <1>6, <1>7, <1>8, <1>9 DEF n, w, s, RowsOf

LEMMA RefusedImplies ==
  ASSUME GradesInv, doing = "done", Refused
  PROVE  Grades!LoadedAsSaved
<1>1. ~Grades!HeaderAccepted /\ loadedGrades = <<>> /\ succeeded = FALSE
  BY DEF Refused
<1>2. ~Grades!Undamaged
  BY <1>1 DEF Grades!Undamaged, Grades!Saved, Grades!HeaderAccepted
<1>3. verified => header.signature
  BY DEF GradesInv
<1>4. ~(verified /\ header.version = Grades!CurrentVersion)
  BY <1>1, <1>3 DEF Grades!HeaderAccepted
<1>5. Grades!FlattenSeq(loadedGrades) = <<>>
  BY <1>1 DEF Grades!FlattenSeq
<1>6. cells \in Seq(Int) /\ Len(cells) \in Nat
  BY LenProperties DEF GradesInv
<1>7. Grades!IsPrefix(<<>>, cells)
  <2>1. SubSeq(<<>>, 1, 0) = <<>> /\ SubSeq(cells, 1, 0) = <<>>
    BY SubSeqEmpty
  <2> QED BY <1>6, <2>1 DEF Grades!IsPrefix
<1> QED BY <1>1, <1>2, <1>4, <1>5, <1>7 DEF Grades!LoadedAsSaved, Grades!CellsOf

LEMMA LoadedImplies ==
  ASSUME GradesInv, doing = "done", Loaded
  PROVE  Grades!LoadedAsSaved
<1> DEFINE n == header.studentCount
           w == header.subjectCount
           L == Len(cells)
           F == Grades!FlattenSeq(loadedGrades)
           G == Grades!FlattenSeq(table)
<1>1. /\ n \in Nat /\ w \in Nat /\ cells \in Seq(Int) /\ table \in Seq(Seq(Int))
      /\ n = Len(table) /\ w = Width /\ L <= Len(G)
      /\ verified = (header.signature /\ L = Grades!ExpectedCells)
  BY DEF GradesInv, Header
<1>2. /\ Grades!HeaderAccepted /\ header.signature /\ succeeded = (Grades!WholeRows = n)
  BY DEF Loaded, Grades!HeaderAccepted
<1>3. PICK m \in 0..n :
           /\ Grades!WholeRows = m /\ m * w <= L /\ (n * w <= L => m = n)
           /\ loadedGrades = [i \in 1..m |-> RowOf(cells, w, i)]
           /\ loadedGrades \in Seq(Seq(Int)) /\ Len(loadedGrades) = m
           /\ Even(loadedGrades, w) /\ F = SubSeq(cells, 1, m * w)
  BY LoadedRows
<1>4. L \in Nat /\ \A i \in 1..L : cells[i] \in Int
  BY <1>1, LenProperties
<1>5. m * w \in Nat /\ n * w \in Nat /\ m \in Nat
  BY <1>1, <1>3, RowEnds
<1>6. Grades!Rectangular => Even(table, w) /\ CellsPlaced(G, table, w, n)
  BY <1>1, RectangularFlat
<1>7. DOMAIN loadedGrades = 1..m /\ \A i \in 1..m : Len(loadedGrades[i]) = w
  BY <1>3, LenProperties DEF Even
<1>8. succeeded => /\ Len(loadedGrades) = n
                   /\ \A i \in DOMAIN loadedGrades : Len(loadedGrades[i]) = w
  BY <1>2, <1>3, <1>7
<1>9. Grades!IsPrefix(F, cells)
  <2> DEFINE k == m * w
  <2>1. Len(F) = k /\ \A i \in 1..k : F[i] = cells[i]
    <3>1. F = SubSeq(cells, 1, k) /\ k \in Nat /\ k <= L
      BY <1>3, <1>5
    <3> HIDE DEF F, k
    <3>2. /\ \A i \in 1..k : cells[i] \in Int
          /\ 1 \in Int /\ k \in Int
      BY <1>4, <3>1
    <3>3. /\ Len(SubSeq(cells, 1, k)) = IF 1 <= k THEN k - 1 + 1 ELSE 0
          /\ \A i \in 1..(k - 1 + 1) : SubSeq(cells, 1, k)[i] = cells[1 + i - 1]
      BY <3>2, SubSeqProperties
    <3>4. (IF 1 <= k THEN k - 1 + 1 ELSE 0) = k
      BY <3>1
    <3>5. \A i \in 1..k : i \in 1..(k - 1 + 1) /\ 1 + i - 1 = i
      BY <3>1
    <3> QED BY <3>1, <3>3, <3>4, <3>5
  <2>2. F = SubSeq(cells, 1, k) /\ k \in Nat /\ k <= L
    BY <1>3, <1>5
  <2>3. F \in Seq(Int)
    <3> HIDE DEF F, k
    <3>1. \A i \in 1..k : cells[i] \in Int
      BY <1>4, <2>2
    <3> QED BY <2>2, <3>1, SubSeqProperties
  <2> HIDE DEF F, k
  <2>4. SubSeq(F, 1, Len(F)) = F
    BY <2>3, SubSeqFull
  <2> QED BY <2>1, <2>2, <2>4 DEF Grades!IsPrefix
<1>10. n * w < Modulus => Grades!ExpectedCells = n * w
  <2> DEFINE x == n * w
             b == Modulus
  <2> SUFFICES ASSUME x < b PROVE x % b = x
    BY DEF Grades!ExpectedCells
  <2>1. b \in Nat /\ x \in Nat
    BY <1>5, ExercisesAssumption, Zenon DEF Grades!GradesAssumption
  <2> HIDE DEF x, b
  <2>2. x \in 0..(b - 1) /\ x \in Int /\ 0 \in Int /\ x = b * 0 + x
    BY <2>1
  <2> QED BY <2>1, <2>2, RemainderIs
<1>11. ASSUME verified, n * w < Modulus
       PROVE  succeeded
  <2>1. L = n * w
    BY <1>1, <1>10, <1>11
  <2>2. n * w <= L
    BY <1>4, <2>1
  <2> QED BY <1>2, <1>3, <2>2
<1>12. ASSUME succeeded, Grades!Rectangular, n * w < Modulus
       PROVE  verified
  <2>1. m = n /\ Len(G) = n * w
    BY <1>2, <1>3, <1>6, <1>12 DEF CellsPlaced
  <2>2. L = n * w
    <3> DEFINE x == n * w
    <3>1. x \in Nat /\ x <= L /\ L <= x
      BY <1>1, <1>3, <1>5, <2>1
    <3> HIDE DEF x
    <3>2. L = x
      BY <1>4, <3>1
    <3> QED BY <3>2 DEF x
  <2> QED BY <1>1, <1>2, <1>10, <1>12, <2>2
<1>13. ASSUME Grades!Undamaged, Grades!Rectangular
       PROVE  succeeded /\ loadedGrades = table
  <2>1. cells = G /\ L = n * w
    BY <1>6, <1>13 DEF Grades!Undamaged, CellsPlaced
  <2>2. m = n
    BY <1>3, <1>4, <2>1
  <2>3. \A i \in 1..n : \A j \in 1..w : cells[(i - 1) * w + j] = table[i][j]
    BY <1>6, <1>13, <2>1 DEF CellsPlaced
  <2>4. \A i \in 1..n : table[i] \in Seq(Int) /\ Len(table[i]) = w
    BY <1>1, <1>6, <1>13, LenProperties DEF Even
  <2>5. ASSUME NEW i \in 1..n
        PROVE  RowOf(cells, w, i) = table[i]
    <3> DEFINE x == (i - 1) * w
               a == x + 1
               b == i * w
               r == SubSeq(cells, a, b)
    <3>1. i \in Nat /\ i # 0 /\ i <= n
      BY <1>1
    <3>2. x \in Nat /\ b \in Nat /\ b = x + w /\ b <= L
      <4> DEFINE z == n * w
      <4>1. x \in Nat /\ b \in Nat /\ b <= z /\ x + w = b /\ z = L
        BY <1>1, <2>1, <3>1, RowEnds
      <4> HIDE DEF x, b, z
      <4> QED BY <1>4, <4>1
    <3>3. \A j \in 1..w : cells[x + j] = table[i][j]
      BY <2>3
    <3> HIDE DEF x, b
    <3>4. a \in Int /\ b \in Int /\ \A j \in a..b : cells[j] \in Int
      BY <1>4, <3>2
    <3>5. /\ r \in Seq(Int) /\ Len(r) = IF a <= b THEN b - a + 1 ELSE 0
          /\ \A j \in 1..(b - a + 1) : r[j] = cells[a + j - 1]
      BY <3>4, SubSeqProperties
    <3>6. Len(r) = w
      <4>1. w \in Nat /\ x \in Nat /\ b = x + w /\ a = x + 1
        BY <1>1, <3>2
      <4>2. Len(r) = IF a <= b THEN b - a + 1 ELSE 0
        BY <3>5
      <4> HIDE DEF a, r, w
      <4>3. CASE a <= b
        BY <4>1, <4>2, <4>3
      <4>4. CASE ~(a <= b)
        BY <4>1, <4>2, <4>4
      <4> QED BY <4>3, <4>4
    <3>7. \A j \in 1..w : j \in 1..(b - a + 1) /\ a + j - 1 = x + j
      BY <1>1, <3>2
    <3>8. \A j \in 1..Len(r) : r[j] = table[i][j]
      BY <3>3, <3>5, <3>6, <3>7
    <3>9. table[i] \in Seq(Int) /\ Len(r) = Len(table[i])
      BY <2>4, <3>6
    <3> HIDE DEF r, a
    <3>10. r = table[i]
      BY <3>5, <3>8, <3>9, SeqEqual
    <3> QED BY <3>10 DEF r, a, x, b, RowOf
  <2>6. loadedGrades = [i \in 1..n |-> table[i]]
    BY <1>3, <2>2, <2>5
  <2>7. table = [i \in 1..n |-> table[i]]
    BY <1>1, LenProperties
  <2> QED BY <1>2, <1>3, <2>2, <2>6, <2>7
<1> HIDE DEF F, n, w, L
<1>14. /\ Grades!Undamaged /\ Grades!Rectangular => succeeded /\ loadedGrades = table
       /\ succeeded => /\ Len(loadedGrades) = n
                       /\ \A i \in DOMAIN loadedGrades : Len(loadedGrades[i]) = w
       /\ Grades!IsPrefix(F, cells)
       /\ verified /\ header.version = Grades!CurrentVersion /\ n * w < Modulus => succeeded
       /\ succeeded /\ Grades!Rectangular /\ n * w < Modulus => verified
  BY <1>8, <1>9, <1>11, <1>12, <1>13
<1> QED BY <1>14 DEF n, w, F, Grades!LoadedAsSaved, Grades!CellsOf

LEMMA GradesImplies == GradesInv => Grades!LoadedAsSaved
<1>1. GradesInv /\ doing # "done" => Grades!LoadedAsSaved
  BY DEF Grades!LoadedAsSaved
<1>2. GradesInv /\ doing = "done" => Refused \/ Loaded
  BY DEF GradesInv
<1> QED BY <1>1, <1>2, RefusedImplies, LoadedImplies

LEMMA GradesInit == Grades!Init => GradesInv
<1> SUFFICES ASSUME Grades!Init PROVE GradesInv
  OBVIOUS
<1>1. Tables \subseteq Seq(Seq(Int))
  BY ExercisesAssumption, Zenon DEF Grades!GradesAssumption
<1> QED BY <1>1 DEF GradesInv, Header, Grades!Init

\* The file between the save and its verification.
LEMMA SaveKeeps == ASSUME GradesInv, Grades!SaveToFile PROVE GradesInv'
<1> DEFINE G == Grades!FlattenSeq(table)
           n == Len(table)
           w == Width
<1>1. /\ table \in Seq(Seq(Int)) /\ loadedGrades = <<>>
      /\ header' = Grades!Saved /\ cells' = G /\ doing' = "verify"
      /\ UNCHANGED <<table, loadedGrades>>
  BY DEF GradesInv, Grades!SaveToFile
<1>2. n \in Nat /\ G = FlatUpTo(table, n) /\ \A i \in 1..n : table[i] \in Seq(Int)
  BY <1>1, LenProperties, FlattenedIs
<1>3. G \in Seq(Int) /\ Len(G) \in Nat
  <2>1. n \in 0..n
    BY <1>2
  <2>2. G \in Seq(Int)
    BY <1>1, <1>2, <2>1, FlatSteps
  <2> HIDE DEF G
  <2> QED BY <2>2, LenProperties
<1>4. w \in Nat
  <2>1. CASE table = <<>>
    BY <2>1 DEF Width
  <2>2. CASE table # <<>>
    <3>1. 1 \in 1..n
      BY <1>1, <1>2, <2>2, EmptySeq
    <3>2. Len(table[1]) \in Nat
      BY <1>2, <3>1, LenProperties
    <3> QED BY <2>2, <3>2 DEF Width
  <2> QED BY <2>1, <2>2
<1>5. Width' = w /\ Grades!FlattenSeq(table)' = G
  BY <1>1 DEF Width, Grades!FlattenSeq
<1>6. Grades!Saved = [signature |-> TRUE, version |-> 1, studentCount |-> n, subjectCount |-> w]
  BY DEF Grades!Saved, Grades!CurrentVersion, Width
<1> HIDE DEF G, w, n
<1>7. header' \in Header /\ header'.studentCount = n /\ header'.subjectCount = w
  BY <1>1, <1>2, <1>4, <1>6 DEF Header
<1> QED BY <1>1, <1>3, <1>5, <1>7 DEF GradesInv, n

LEMMA DamageKeeps == ASSUME GradesInv, Grades!Damage PROVE GradesInv'
<1> DEFINE L == Len(cells)
           G == Grades!FlattenSeq(table)
<1>1. /\ table \in Seq(Seq(Int)) /\ cells \in Seq(Int) /\ header \in Header /\ doing = "verify"
      /\ header.studentCount = Len(table) /\ header.subjectCount = Width
      /\ L <= Len(G) /\ loadedGrades = <<>>
      /\ UNCHANGED <<table, loadedGrades, doing>>
  BY DEF GradesInv, Grades!Damage
<1>2. L \in Nat /\ \A i \in 1..L : cells[i] \in Int
  BY <1>1, LenProperties
<1>3. Len(G) \in Nat
  <2>1. Len(table) \in 0..Len(table)
    BY <1>1, LenProperties
  <2>2. G \in Seq(Int)
    BY <1>1, <2>1, FlatSteps, FlattenedIs
  <2> HIDE DEF G
  <2> QED BY <2>2, LenProperties
<1>4. Width' = Width /\ Grades!FlattenSeq(table)' = G
  BY <1>1 DEF Width, Grades!FlattenSeq
<1> HIDE DEF G
<1>5. CASE header' = header /\ \E n \in 0..(L - 1) : cells' = SubSeq(cells, 1, n)
  <2>1. PICK n \in 0..(L - 1) : cells' = SubSeq(cells, 1, n)
    BY <1>5
  <2> HIDE DEF L
  <2>2. n \in Int /\ 1 \in Int /\ \A i \in 1..n : cells[i] \in Int
    BY <1>2
  <2>3. /\ SubSeq(cells, 1, n) \in Seq(Int)
        /\ Len(SubSeq(cells, 1, n)) = IF 1 <= n THEN n - 1 + 1 ELSE 0
    BY <2>2, SubSeqProperties
  <2>4. cells' \in Seq(Int) /\ Len(cells') <= Len(G)
    BY <1>1, <1>2, <1>3, <2>1, <2>3
  <2> QED BY <1>1, <1>4, <1>5, <2>4 DEF GradesInv
<1>6. ASSUME NEW v \in Versions, header' = [header EXCEPT !.version = v], cells' = cells
      PROVE  GradesInv'
  <2>1. /\ header' \in Header /\ header'.studentCount = header.studentCount
        /\ header'.subjectCount = header.subjectCount
    BY <1>1, <1>6 DEF Header
  <2> QED BY <1>1, <1>4, <1>6, <2>1 DEF GradesInv
<1>7. CASE header' = [header EXCEPT !.signature = FALSE] /\ cells' = cells
  <2>1. /\ header' \in Header /\ header'.studentCount = header.studentCount
        /\ header'.subjectCount = header.subjectCount
    BY <1>1, <1>7 DEF Header
  <2> QED BY <1>1, <1>4, <1>7, <2>1 DEF GradesInv
<1> QED BY <1>5, <1>6, <1>7 DEF Grades!Damage

\* After it the file stays as it is.
LEMMA FileStands ==
  ASSUME UNCHANGED <<table, header, cells>>
  PROVE  /\ Width' = Width /\ Grades!FlattenSeq(table)' = Grades!FlattenSeq(table)
         /\ Grades!ExpectedCells' = Grades!ExpectedCells
         /\ Grades!HeaderAccepted' = Grades!HeaderAccepted
         /\ Grades!WholeRows' = Grades!WholeRows
         /\ \A i : Grades!Row(i)' = Grades!Row(i)
BY DEF Width, Grades!FlattenSeq, Grades!ExpectedCells, Grades!HeaderAccepted, Grades!WholeRows,
       Grades!Row, Grades!Cardinality, Grades!IsFiniteSet

LEMMA VerifyKeeps == ASSUME GradesInv, Grades!VerifyFile PROVE GradesInv'
<1>1. /\ UNCHANGED <<table, header, cells, loadedGrades>> /\ doing = "verify" /\ doing' = "load"
      /\ verified' = (header.signature /\ Len(cells) = Grades!ExpectedCells)
  BY DEF Grades!VerifyFile
<1>2. /\ Width' = Width /\ Grades!FlattenSeq(table)' = Grades!FlattenSeq(table)
      /\ Grades!ExpectedCells' = Grades!ExpectedCells
  BY <1>1, FileStands
<1> QED BY <1>1, <1>2 DEF GradesInv

LEMMA LoadKeeps ==
  ASSUME GradesInv, Grades!RefuseHeader \/ Grades!LoadFromFile
  PROVE  GradesInv'
<1>1. /\ UNCHANGED <<table, header, cells, verified>> /\ doing = "load" /\ doing' = "done"
  BY DEF Grades!RefuseHeader, Grades!LoadFromFile
<1>2. /\ Width' = Width /\ Grades!FlattenSeq(table)' = Grades!FlattenSeq(table)
      /\ Grades!ExpectedCells' = Grades!ExpectedCells
      /\ Grades!HeaderAccepted' = Grades!HeaderAccepted
      /\ Grades!WholeRows' = Grades!WholeRows
      /\ \A i : Grades!Row(i)' = Grades!Row(i)
  BY <1>1, FileStands
<1>3. Grades!RefuseHeader => Refused'
  <2>1. Grades!RefuseHeader => /\ ~Grades!HeaderAccepted /\ loadedGrades' = loadedGrades
                               /\ succeeded' = FALSE
    BY DEF Grades!RefuseHeader
  <2> QED BY <1>1, <1>2, <2>1 DEF Refused, GradesInv
<1>4. Grades!LoadFromFile => Loaded'
  <2> DEFINE m == Grades!WholeRows
  <2>1. Grades!LoadFromFile => /\ Grades!HeaderAccepted
                               /\ loadedGrades' = [i \in 1..m |-> Grades!Row(i)]
                               /\ succeeded' = (m = header.studentCount)
    BY DEF Grades!LoadFromFile
  <2> HIDE DEF m
  <2>2. Loaded' <=> /\ Grades!HeaderAccepted'
                    /\ loadedGrades' = [i \in 1..m' |-> Grades!Row(i)']
                    /\ succeeded' = (m' = header.studentCount)
    BY <1>1 DEF Loaded, m
  <2>3. m' = m
    BY <1>2 DEF m
  <2> QED BY <1>2, <2>1, <2>2, <2>3
<1>5. Refused' \/ Loaded'
  BY <1>3, <1>4
<1> QED BY <1>1, <1>2, <1>5 DEF GradesInv

LEMMA GradesNext == GradesInv /\ Grades!Next => GradesInv'
BY SaveKeeps, DamageKeeps, VerifyKeeps, LoadKeeps, Zenon DEF Grades!Next

LEMMA GradesInvariant == Spec => [](program = "GradeFile" => GradesInv)
<1>1. Init => (program = "GradeFile" => GradesInv)
  BY GradesInit DEF Init
<1>2. (program = "GradeFile" => GradesInv) /\ [Next]_vars => (program = "GradeFile" => GradesInv)'
  <2> SUFFICES ASSUME program = "GradeFile" => GradesInv, [Next]_vars, program' = "GradeFile"
               PROVE  GradesInv'
    OBVIOUS
  <2>1. CASE program = "GradeFile" /\ Grades!Next
    BY <2>1, GradesNext
  <2>2. CASE program = "GradeFile" /\ UNCHANGED fileVars
    <3>1. /\ UNCHANGED <<table, header, cells, verified, loadedGrades, succeeded, doing>>
          /\ GradesInv
      BY <2>2 DEF fileVars
    <3>2. /\ Width' = Width /\ Grades!FlattenSeq(table)' = Grades!FlattenSeq(table)
          /\ Grades!ExpectedCells' = Grades!ExpectedCells
          /\ Grades!HeaderAccepted' = Grades!HeaderAccepted
          /\ Grades!WholeRows' = Grades!WholeRows
          /\ \A i : Grades!Row(i)' = Grades!Row(i)
      BY <3>1, FileStands
    <3>3. Refused => Refused'
      BY <3>1, <3>2 DEF Refused
    <3>4. Loaded => Loaded'
      BY <3>1, <3>2 DEF Loaded
    <3> QED BY <3>1, <3>2, <3>3, <3>4 DEF GradesInv
  <2> QED BY <2>1, <2>2 DEF Next, vars
<1> QED BY <1>1, <1>2, PTL DEF Spec

(***************************************************************************)
(* LineSession.  Every line that is complete is in one place, and has the kind of *)
(* line that is there.                                                          *)
(***************************************************************************)
In(s) == {s[i] : i \in 1..Len(s)}
Armed(r) == {r} \ {0}
Lined(c) == {n \in 1..c : lines[n] # "empty"}

\* W answered, P posted, D due, A armed and C cancelled are the first c lines.
Placement(W, P, D, A, C, c) ==
  /\ W \cup P \cup D \cup A \cup C = Lined(c)
  /\ W \cap P = {} /\ (W \cup P) \cap D = {} /\ (W \cup P \cup D) \cap A = {}
  /\ (W \cup P \cup D \cup A) \cap C = {}
Kinds(W, P, D, A, C, c) ==
  /\ \A n \in P : lines[n] = "number"
  /\ \A n \in D \cup A \cup C : lines[n] = "wait"
  /\ \A n \in C : \E m \in (n + 1)..c : lines[m] = "wait"
  /\ \A m \in W : \A n \in P : lines[m] = "number" => m < n

Alike(m, n) == /\ lines[m] # "wait" /\ lines[n] # "wait"
               /\ Session!Immediate(m) <=> Session!Immediate(n)
Ordered(w) == \A i, j \in 1..Len(w) : i < j /\ Alike(w[i], w[j]) => w[i] < w[j]

StandsAt(w, p, r, D, C, c) ==
  /\ Owns(w, In(w)) /\ Owns(p, In(p)) /\ r \in Nat
  /\ Placement(In(w), In(p), D, Armed(r), C, c)
  /\ Kinds(In(w), In(p), D, Armed(r), C, c)
  /\ Ordered(w) /\ Ordered(p)

SessionInv ==
  /\ lines \in Seq(Session!Kind) /\ received \in 0..(2 * Len(lines)) /\ readUpTo \in 0..received
  /\ accumulator = IF readUpTo % 2 = 1 THEN <<Session!Symbol(readUpTo)>> ELSE <<>>
  /\ StandsAt(written, posted, armed, due, cancelled, Session!Complete)

LEMMA OwnsIn ==
  ASSUME NEW s, NEW S, Owns(s, S)
  PROVE  /\ In(s) = S /\ Owns(s, In(s)) /\ DOMAIN s = 1..Len(s) /\ Len(s) \in Nat
         /\ Session!Range(s) = S /\ Session!IsInjective(s)
<1>1. DOMAIN s = 1..Len(s) /\ Len(s) \in Nat
  BY LenProperties DEF Owns
<1> QED BY <1>1 DEF Owns, In, Session!IsInjective, Session!Range

LEMMA SessionImplies == SessionInv => Session!LinesAnsweredOnce
<1> SUFFICES ASSUME SessionInv PROVE Session!LinesAnsweredOnce
  OBVIOUS
<1> DEFINE W == In(written)
           P == In(posted)
           A == Armed(armed)
           c == Session!Complete
<1>1. /\ Owns(written, W) /\ Owns(posted, P)
      /\ Placement(W, P, due, A, cancelled, c) /\ Kinds(W, P, due, A, cancelled, c)
      /\ Ordered(written)
  BY DEF SessionInv, StandsAt
<1>2. /\ Session!Range(written) = W /\ Session!Range(posted) = P
      /\ Session!IsInjective(written) /\ DOMAIN written = 1..Len(written)
  BY <1>1, OwnsIn
<1>3. Session!Pending = P \cup due \cup A
  BY <1>2 DEF Session!Pending, Armed
<1> HIDE DEF W, P, A
<1>4. /\ W \cup Session!Pending \cup cancelled = Lined(c)
      /\ W \cap (Session!Pending \cup cancelled) = {} /\ Session!Pending \cap cancelled = {}
  BY <1>1, <1>3 DEF Placement
<1>5. /\ \A n \in cancelled : lines[n] = "wait" /\ \E m \in (n + 1)..c : lines[m] = "wait"
      /\ Lined(c) = {n \in 1..c : lines[n] # "empty"}
  BY <1>1 DEF Kinds, Lined
<1>6. \A i, j \in DOMAIN written :
        i < j /\ lines[written[i]] # "wait"
          /\ (Session!Immediate(written[i]) <=> Session!Immediate(written[j]))
          /\ lines[written[j]] # "wait" => written[i] < written[j]
  BY <1>1, <1>2 DEF Ordered, Alike
<1> HIDE DEF c
<1> QED BY <1>2, <1>4, <1>5, <1>6, Zenon DEF Session!LinesAnsweredOnce, c

\* A line behind all others of its kind keeps the order.
LEMMA OrderedMore ==
  ASSUME NEW w, NEW S, Owns(w, S), Ordered(w), NEW n \in Nat,
         \A m \in S : Alike(m, n) => m < n
  PROVE  Ordered(Append(w, n))
<1> DEFINE u == Append(w, n)
           l == Len(w)
<1>1. w \in Seq(Nat) /\ l \in Nat /\ \A i \in 1..l : w[i] \in S
  BY LenProperties DEF Owns
<1>2. Len(u) = l + 1 /\ (\A i \in 1..l : u[i] = w[i]) /\ u[l + 1] = n
  BY <1>1, AppendProperties
<1>3. \A i, j \in 1..l : i < j /\ Alike(w[i], w[j]) => w[i] < w[j]
  BY DEF Ordered
<1> HIDE DEF u, l
<1>4. \A i, j \in 1..(l + 1) : i < j => i \in 1..l /\ (j \in 1..l \/ j = l + 1)
  BY <1>1
<1>5. ASSUME NEW i \in 1..(l + 1), NEW j \in 1..(l + 1), i < j, Alike(u[i], u[j])
      PROVE  u[i] < u[j]
  <2>1. CASE j \in 1..l
    BY <1>2, <1>3, <1>4, <1>5, <2>1
  <2>2. CASE j = l + 1
    BY <1>1, <1>2, <1>4, <1>5, <2>2
  <2> QED BY <1>4, <1>5, <2>1, <2>2
<1> QED BY <1>2, <1>5 DEF Ordered, u

\* process_request puts the next line where its kind belongs.
Answers == [written : Seq(Nat), posted : Seq(Nat), armed : Nat, cancelled : SUBSET Nat]
Good(s, c) == s \in Answers /\ StandsAt(s.written, s.posted, s.armed, due, s.cancelled, c)

LEMMA AnswerIs ==
  ASSUME NEW s \in Answers, NEW n \in Nat, lines[n] \in Session!Kind
  PROVE  /\ Session!Answer(s, n) \in Answers
         /\ lines[n] \in {"text", "numbers"} =>
              Session!Answer(s, n) = [s EXCEPT !.written = Append(s.written, n)]
         /\ lines[n] = "number" =>
              Session!Answer(s, n) = [s EXCEPT !.posted = Append(s.posted, n)]
         /\ lines[n] = "empty" => Session!Answer(s, n) = s
         /\ lines[n] = "wait" =>
              Session!Answer(s, n) = [s EXCEPT !.armed = n,
                                               !.cancelled = s.cancelled \cup Armed(s.armed)]
<1> DEFINE w == Append(s.written, n)
           p == Append(s.posted, n)
           C == IF s.armed = 0 THEN s.cancelled ELSE s.cancelled \cup {s.armed}
<1>1. /\ s.written \in Seq(Nat) /\ s.posted \in Seq(Nat) /\ s.armed \in Nat
      /\ s.cancelled \in SUBSET Nat
  BY DEF Answers
<1>2. w \in Seq(Nat) /\ p \in Seq(Nat)
  BY <1>1, AppendProperties
<1>3. C = s.cancelled \cup Armed(s.armed) /\ C \in SUBSET Nat
  BY <1>1 DEF Armed
<1>4. /\ lines[n] \in {"text", "numbers"} => Session!Answer(s, n) = [s EXCEPT !.written = w]
      /\ lines[n] = "number" => Session!Answer(s, n) = [s EXCEPT !.posted = p]
      /\ lines[n] = "empty" => Session!Answer(s, n) = s
      /\ lines[n] = "wait" => Session!Answer(s, n) = [s EXCEPT !.armed = n, !.cancelled = C]
  BY DEF Session!Answer, Session!Kind, Answers
<1> HIDE DEF w, p, C
<1>5. /\ [s EXCEPT !.written = w] \in Answers /\ [s EXCEPT !.posted = p] \in Answers
      /\ [s EXCEPT !.armed = n, !.cancelled = C] \in Answers
  BY <1>1, <1>2, <1>3 DEF Answers
<1>6. \/ lines[n] \in {"text", "numbers"} \/ lines[n] = "number" \/ lines[n] = "empty"
      \/ lines[n] = "wait"
  BY DEF Session!Kind
<1>7. Session!Answer(s, n) \in Answers
  BY <1>4, <1>5, <1>6
<1> QED BY <1>3, <1>4, <1>7 DEF w, p

\* Where the line n goes, as sets.
Beyond(n, S) == n \notin S /\ \A m \in S : m \in Nat /\ m < n /\ m # 0

LEMMA NextLine ==
  ASSUME NEW c \in Nat, NEW n, n = c + 1, NEW W, NEW P, NEW D, NEW A, NEW C,
         Placement(W, P, D, A, C, c), Kinds(W, P, D, A, C, c)
  PROVE  /\ Beyond(n, W \cup P \cup D \cup A \cup C)
         /\ lines[n] \in {"text", "numbers"} => /\ Placement(W \cup {n}, P, D, A, C, n)
                                                /\ Kinds(W \cup {n}, P, D, A, C, n)
         /\ lines[n] = "number" => /\ Placement(W, P \cup {n}, D, A, C, n)
                                   /\ Kinds(W, P \cup {n}, D, A, C, n)
         /\ lines[n] = "empty" => Placement(W, P, D, A, C, n) /\ Kinds(W, P, D, A, C, n)
         /\ lines[n] = "wait" => /\ Placement(W, P, D, {n}, C \cup A, n)
                                 /\ Kinds(W, P, D, {n}, C \cup A, n)
<1> DEFINE All == W \cup P \cup D \cup A \cup C
<1>1. All = Lined(c)
  BY DEF Placement
<1>2. Lined(n) = IF lines[n] = "empty" THEN Lined(c) ELSE Lined(c) \cup {n}
  <2>1. 1..n = (1..c) \cup {n}
    OBVIOUS
  <2> QED BY <2>1 DEF Lined
<1>3. \A m \in Lined(c) : m \in Nat /\ m < n /\ m # 0
  BY DEF Lined
<1>4. n \notin Lined(c)
  BY DEF Lined
<1>5. /\ W \cap P = {} /\ (W \cup P) \cap D = {} /\ (W \cup P \cup D) \cap A = {}
      /\ (W \cup P \cup D \cup A) \cap C = {}
  BY DEF Placement
<1>6. \A m \in C : \E l \in (m + 1)..n : lines[l] = "wait"
  <2> SUFFICES ASSUME NEW m \in C PROVE \E l \in (m + 1)..n : lines[l] = "wait"
    OBVIOUS
  <2>1. PICK l \in (m + 1)..c : lines[l] = "wait"
    BY DEF Kinds
  <2>2. m \in Nat
    BY <1>1, <1>3
  <2>3. l \in (m + 1)..n
    BY <2>2
  <2> QED BY <2>1, <2>3
<1>7. lines[n] = "wait" => \A m \in A : \E l \in (m + 1)..n : lines[l] = "wait"
  <2>1. \A m \in A : n \in (m + 1)..n
    BY <1>1, <1>3
  <2> QED BY <2>1
<1>8. /\ \A m \in P : lines[m] = "number"
      /\ \A m \in D \cup A \cup C : lines[m] = "wait"
      /\ \A l \in W : \A m \in P : lines[l] = "number" => l < m
  BY DEF Kinds
<1>9. \A m \in All : m < n
  BY <1>1, <1>3
<1>10. lines[n] \in {"text", "numbers"}
         => Placement(W \cup {n}, P, D, A, C, n) /\ Kinds(W \cup {n}, P, D, A, C, n)
  <2> SUFFICES ASSUME lines[n] \in {"text", "numbers"}
               PROVE  Placement(W \cup {n}, P, D, A, C, n) /\ Kinds(W \cup {n}, P, D, A, C, n)
    OBVIOUS
  <2>1. Placement(W \cup {n}, P, D, A, C, n)
    BY <1>1, <1>2, <1>4, <1>5 DEF Placement
  <2>2. Kinds(W \cup {n}, P, D, A, C, n)
    BY <1>6, <1>8 DEF Kinds
  <2> QED BY <2>1, <2>2
<1>11. lines[n] = "number"
         => Placement(W, P \cup {n}, D, A, C, n) /\ Kinds(W, P \cup {n}, D, A, C, n)
  <2> SUFFICES ASSUME lines[n] = "number"
               PROVE  Placement(W, P \cup {n}, D, A, C, n) /\ Kinds(W, P \cup {n}, D, A, C, n)
    OBVIOUS
  <2>1. Placement(W, P \cup {n}, D, A, C, n)
    BY <1>1, <1>2, <1>4, <1>5 DEF Placement
  <2>2. Kinds(W, P \cup {n}, D, A, C, n)
    BY <1>6, <1>8, <1>9 DEF Kinds
  <2> QED BY <2>1, <2>2
<1>12. lines[n] = "empty" => Placement(W, P, D, A, C, n) /\ Kinds(W, P, D, A, C, n)
  <2>1. lines[n] = "empty" => Placement(W, P, D, A, C, n)
    BY <1>1, <1>2, <1>5 DEF Placement
  <2>2. Kinds(W, P, D, A, C, n)
    BY <1>6, <1>8 DEF Kinds
  <2> QED BY <2>1, <2>2
<1>13. lines[n] = "wait"
         => Placement(W, P, D, {n}, C \cup A, n) /\ Kinds(W, P, D, {n}, C \cup A, n)
  <2> SUFFICES ASSUME lines[n] = "wait"
               PROVE  Placement(W, P, D, {n}, C \cup A, n) /\ Kinds(W, P, D, {n}, C \cup A, n)
    OBVIOUS
  <2>1. Placement(W, P, D, {n}, C \cup A, n)
    BY <1>1, <1>2, <1>4, <1>5 DEF Placement
  <2>2. Kinds(W, P, D, {n}, C \cup A, n)
    BY <1>6, <1>7, <1>8 DEF Kinds
  <2> QED BY <2>1, <2>2
<1>14. Beyond(n, All)
  BY <1>1, <1>3, <1>4 DEF Beyond
<1> QED BY <1>10, <1>11, <1>12, <1>13, <1>14

LEMMA AnswerGood ==
  ASSUME lines \in Seq(Session!Kind), NEW c \in Nat, NEW n, n = c + 1, n \in 1..Len(lines),
         NEW s, Good(s, c)
  PROVE  Good(Session!Answer(s, n), n)
<1> DEFINE w == s.written
           p == s.posted
           r == s.armed
           C == s.cancelled
           t == Session!Answer(s, n)
           W == In(w)
           P == In(p)
           A == Armed(r)
<1>1. /\ s \in Answers /\ n \in Nat /\ lines[n] \in Session!Kind
  <2> DEFINE l == lines
  <2>1. lines[n] \in Session!Kind
    <3> DEFINE K == Session!Kind
    <3>1. l \in Seq(K) /\ n \in 1..Len(l)
      OBVIOUS
    <3> HIDE DEF K, l
    <3>2. l[n] \in K
      BY <3>1, ElementOfSeq
    <3> QED BY <3>2 DEF K, l
  <2> QED BY <2>1 DEF Good
<1>2. /\ w \in Seq(Nat) /\ p \in Seq(Nat) /\ r \in Nat /\ C \in SUBSET Nat
  BY <1>1 DEF Answers
<1>3. /\ Owns(w, W) /\ Owns(p, P) /\ Placement(W, P, due, A, C, c)
      /\ Kinds(W, P, due, A, C, c) /\ Ordered(w) /\ Ordered(p)
  BY DEF Good, StandsAt
<1>4. t \in Answers
  BY <1>1, AnswerIs
<1>5. CASE lines[n] \in {"text", "numbers"}
  <2> DEFINE u == Append(w, n)
  <2>1. /\ t.written = u /\ t.posted = p /\ t.armed = r /\ t.cancelled = C
    <3>1. t = [s EXCEPT !.written = u]
      BY <1>1, <1>5, AnswerIs
    <3> HIDE DEF t, u
    <3> QED BY <1>1, <3>1 DEF Answers
  <2> HIDE DEF W, P, A, t, w, p, C, r
  <2>2. /\ n \notin W /\ \A m \in W : m < n
        /\ Placement(W \cup {n}, P, due, A, C, n) /\ Kinds(W \cup {n}, P, due, A, C, n)
    <3>1. Beyond(n, W \cup P \cup due \cup A \cup C)
      BY <1>3, NextLine
    <3>2. Placement(W \cup {n}, P, due, A, C, n) /\ Kinds(W \cup {n}, P, due, A, C, n)
      BY <1>3, <1>5, NextLine
    <3> QED BY <3>1, <3>2 DEF Beyond
  <2>3. Owns(u, W \cup {n}) /\ Ordered(u)
    BY <1>1, <1>3, <2>2, OwnsMore, OrderedMore
  <2>4. In(u) = W \cup {n} /\ Owns(u, In(u))
    BY <2>3, OwnsIn
  <2>5. StandsAt(u, p, r, due, C, n)
    BY <1>2, <1>3, <2>2, <2>3, <2>4 DEF StandsAt, W, P, A
  <2> QED BY <1>4, <2>1, <2>5 DEF Good, t
<1>6. CASE lines[n] = "number"
  <2> DEFINE u == Append(p, n)
  <2>1. /\ t.written = w /\ t.posted = u /\ t.armed = r /\ t.cancelled = C
    <3>1. t = [s EXCEPT !.posted = u]
      BY <1>1, <1>6, AnswerIs
    <3> HIDE DEF t, u
    <3> QED BY <1>1, <3>1 DEF Answers
  <2> HIDE DEF W, P, A, t, w, p, C, r
  <2>2. /\ n \notin P /\ \A m \in P : m < n
        /\ Placement(W, P \cup {n}, due, A, C, n) /\ Kinds(W, P \cup {n}, due, A, C, n)
    <3>1. Beyond(n, W \cup P \cup due \cup A \cup C)
      BY <1>3, NextLine
    <3>2. Placement(W, P \cup {n}, due, A, C, n) /\ Kinds(W, P \cup {n}, due, A, C, n)
      BY <1>3, <1>6, NextLine
    <3> QED BY <3>1, <3>2 DEF Beyond
  <2>3. Owns(u, P \cup {n}) /\ Ordered(u)
    BY <1>1, <1>3, <2>2, OwnsMore, OrderedMore
  <2>4. In(u) = P \cup {n} /\ Owns(u, In(u))
    BY <2>3, OwnsIn
  <2>5. StandsAt(w, u, r, due, C, n)
    BY <1>2, <1>3, <2>2, <2>3, <2>4 DEF StandsAt, W, P, A
  <2> QED BY <1>4, <2>1, <2>5 DEF Good, t
<1>7. CASE lines[n] = "empty"
  <2>1. t = s
    BY <1>1, <1>7, AnswerIs
  <2> HIDE DEF W, P, A, t, w, p, C, r
  <2>2. Placement(W, P, due, A, C, n) /\ Kinds(W, P, due, A, C, n)
    BY <1>3, <1>7, NextLine
  <2>3. StandsAt(w, p, r, due, C, n)
    BY <1>2, <1>3, <2>2 DEF StandsAt, W, P, A
  <2> QED BY <1>1, <2>1, <2>3 DEF Good, t, w, p, r, C
<1>8. CASE lines[n] = "wait"
  <2> DEFINE B == C \cup A
  <2>1. /\ t.written = w /\ t.posted = p /\ t.armed = n /\ t.cancelled = B
    <3>1. t = [s EXCEPT !.armed = n, !.cancelled = B]
      BY <1>1, <1>8, AnswerIs
    <3> HIDE DEF t, B
    <3> QED BY <1>1, <3>1 DEF Answers
  <2> HIDE DEF W, P, A, t, w, p, C, r
  <2>2. Placement(W, P, due, {n}, B, n) /\ Kinds(W, P, due, {n}, B, n)
    BY <1>3, <1>8, NextLine
  <2>3. Armed(n) = {n}
    BY DEF Armed
  <2>4. StandsAt(w, p, n, due, B, n)
    BY <1>1, <1>3, <2>2, <2>3 DEF StandsAt, W, P
  <2> QED BY <1>4, <2>1, <2>4 DEF Good, t
<1> QED BY <1>1, <1>5, <1>6, <1>7, <1>8 DEF Session!Kind

(***************************************************************************)
(* What do_read makes of the symbols, one after the other.                       *)
(***************************************************************************)
AnsweredUpTo(s, text, n, k) ==
  (CHOOSE h : h = [r \in SUBSET (1..n) |-> IF r = {} THEN s
     ELSE IF Largest(r) > 1
             /\ text[Largest(r)] = Session!Newline
          THEN Session!Answer(h[r \ {Largest(r)}], text[Largest(r) - 1])
          ELSE h[r \ {Largest(r)}]])[1..k]

LEMMA AnswerLinesIs ==
  ASSUME NEW s, NEW text \in Seq(Nat)
  PROVE  Session!AnswerLines(s, text) = AnsweredUpTo(s, text, Len(text), Len(text))
<1>1. DOMAIN text = 1..Len(text)
  BY LenProperties
<1> QED BY <1>1 DEF Session!AnswerLines, Session!MapThenFoldSet, Session!Max, Largest, AnsweredUpTo

\* The symbols that end a line have a text before them.
Answerable(text, n) == \A i \in 1..n : i > 1 /\ text[i] = 0 =>
                         /\ text[i - 1] \in Nat /\ lines[text[i - 1]] \in Session!Kind

LEMMA AnsweredSteps ==
  ASSUME NEW n \in Nat, NEW text, Answerable(text, n), NEW s \in Answers
  PROVE  /\ AnsweredUpTo(s, text, n, 0) = s
         /\ \A k \in 1..n : AnsweredUpTo(s, text, n, k)
                            = IF k > 1 /\ text[k] = 0
                              THEN Session!Answer(AnsweredUpTo(s, text, n, k - 1), text[k - 1])
                              ELSE AnsweredUpTo(s, text, n, k - 1)
<1> DEFINE S == 1..n
           id == [i \in S |-> i]
           E(i) == i > 1 /\ text[i] = 0
           Ends == {i \in S : E(i)}
           A(v, i) == Session!Answer(v, text[i - 1])
           V == Answers
           step == [p \in V \X S |-> IF p[2] \in Ends THEN A(p[1], p[2]) ELSE p[1]]
           h == Fold(step, s, id, S)
           Rule(f) == f = [r \in SUBSET (1..n) |-> IF r = {} THEN s
                        ELSE IF Largest(r) > 1
                                /\ text[Largest(r)] = Session!Newline
                             THEN Session!Answer(f[r \ {Largest(r)}],
                                                 text[Largest(r) - 1])
                             ELSE f[r \ {Largest(r)}]]
           g == CHOOSE f : Rule(f)
<1>1. \A k : AnsweredUpTo(s, text, n, k) = g[1..k]
  BY DEF AnsweredUpTo
<1>2. ASSUME NEW v \in V, NEW i \in Ends PROVE A(v, i) \in V
  <2>1. text[i - 1] \in Nat /\ lines[text[i - 1]] \in Session!Kind
    BY DEF Answerable
  <2> QED BY <2>1, AnswerIs
<1>3. Steps(step, V, S)
  <2> HIDE DEF Ends, A, V, S
  <2>1. \A p \in V \X S : (IF p[2] \in Ends THEN A(p[1], p[2]) ELSE p[1]) \in V
    BY <1>2
  <2> QED BY <2>1 DEF Steps
<1>4. \A v \in V : \A i \in S : step[<<v, i>>] = IF i \in Ends THEN A(v, i) ELSE v
  <2> HIDE DEF Ends, A, V, S
  <2> QED OBVIOUS
<1>5. /\ S \in SUBSET Int /\ IsFiniteSet(S) /\ (\A i \in S : id[i] = i /\ id[i] \in S)
      /\ s \in V
  BY FS_Interval
<1>6. \A i \in S : i \in Ends <=> i > 1 /\ text[i] = 0
  OBVIOUS
<1> HIDE DEF g, Ends, V, id, step
<1>8. IsFold(h, step, s, id, S)
  <2> HIDE DEF S
  <2> QED BY <1>5, FoldExists
<1>9. \A r \in SUBSET S : /\ h[r] \in V
                          /\ r # {} => /\ Largest(r) \in S /\ h[r \ {Largest(r)}] \in V
  <2>1. \A r \in SUBSET S : /\ h[r] \in V
                            /\ r # {} => /\ Largest(r) \in r /\ id[Largest(r)] \in S
                                         /\ h[r \ {Largest(r)}] \in V
    <3> HIDE DEF S
    <3> QED BY <1>3, <1>5, FoldTyped
  <2> QED BY <2>1
<1> HIDE DEF h
<1>10. Rule(h)
  <2> DEFINE H(r) == IF r = {} THEN s ELSE step[<<h[r \ {Largest(r)}], id[Largest(r)]>>]
             G(r) == IF r = {} THEN s
                     ELSE IF Largest(r) > 1
                             /\ text[Largest(r)] = Session!Newline
                          THEN Session!Answer(h[r \ {Largest(r)}],
                                              text[Largest(r) - 1])
                          ELSE h[r \ {Largest(r)}]
  <2>1. h = [r \in SUBSET (1..n) |-> H(r)]
    BY <1>8 DEF IsFold
  <2>2. ASSUME NEW r \in SUBSET (1..n) PROVE H(r) = G(r)
    <3>1. CASE r = {}
      BY <3>1
    <3>2. CASE r # {}
      <4> DEFINE m == Largest(r)
                 v == h[r \ {m}]
      <4>1. m \in S /\ v \in V /\ id[m] = m
        BY <1>5, <1>9, <3>2
      <4>2. H(r) = step[<<v, m>>]
        BY <3>2, <4>1
      <4>3. G(r) = IF m > 1 /\ text[m] = Session!Newline
                   THEN Session!Answer(v, text[m - 1]) ELSE v
        BY <3>2, <4>1
      <4> HIDE DEF m, v, H, G
      <4>4. step[<<v, m>>] = IF m \in Ends THEN A(v, m) ELSE v
        BY <1>4, <4>1
      <4>5. m \in Ends <=> m > 1 /\ text[m] = Session!Newline
        BY <1>6, <4>1 DEF Session!Newline
      <4> QED BY <4>2, <4>3, <4>4, <4>5
    <3> QED BY <3>1, <3>2
  <2> HIDE DEF H
  <2>3. h = [r \in SUBSET (1..n) |-> G(r)]
    BY <2>1, <2>2
  <2> QED BY <2>3
<1>11. Rule(g)
  <2> HIDE DEF Rule
  <2> QED BY <1>10 DEF g
<1>12. \A r \in SUBSET S : g[r] = IF r = {} THEN s
                        ELSE IF Largest(r) > 1
                                /\ text[Largest(r)] = Session!Newline
                             THEN Session!Answer(g[r \ {Largest(r)}],
                                                 text[Largest(r) - 1])
                             ELSE g[r \ {Largest(r)}]
  BY <1>11
<1>13. g[1..0] = s
  <2>1. 1..0 = {} /\ 1..0 \in SUBSET S
    OBVIOUS
  <2> QED BY <1>12, <2>1
<1>14. ASSUME NEW k \in 1..n
       PROVE  g[1..k] = IF k > 1 /\ text[k] = 0 THEN Session!Answer(g[1..(k - 1)], text[k - 1])
                        ELSE g[1..(k - 1)]
  <2>1. k \in Nat /\ k # 0
    OBVIOUS
  <2>2. Largest(1..k) = k /\ (1..k) \ {k} = 1..(k - 1) /\ 1..k # {}
    BY <2>1, LargestUpTo
  <2>3. 1..k \in SUBSET S /\ [i \in 1..n |-> i][k] = k
    OBVIOUS
  <2> QED BY <1>12, <2>2, <2>3 DEF Session!Newline
<1> QED BY <1>1, <1>13, <1>14

\* Symbols of the conversation from that of the line a + 1 on, and the numbers of
\* lines among them.
Symbols(text, a, n) == text \in Seq(Nat) /\ Len(text) = n
                       /\ \A i \in 1..n : text[i] = Session!Symbol(2 * a + i)

LEMMA SymbolIs ==
  ASSUME NEW a \in Nat, NEW i \in Nat, i # 0
  PROVE  \E h \in Nat \ {0} :
           \/ /\ i = 2 * h /\ Session!Symbol(2 * a + i) = 0
              /\ Session!Symbol(2 * a + (i - 1)) = a + h /\ i > 1
              /\ i \div 2 = h /\ (i - 1) \div 2 = h - 1
           \/ /\ i = 2 * h - 1 /\ Session!Symbol(2 * a + i) = a + h
              /\ i \div 2 = h - 1 /\ (i - 1) \div 2 = h - 1
<1> DEFINE h == (i + 1) \div 2
<1>1. h \in Nat /\ h # 0 /\ (i = 2 * h \/ i = 2 * h - 1)
  OBVIOUS
<1> HIDE DEF h
<1>2. CASE i = 2 * h
  <2>1. (2 * a + i) % 2 = 0 /\ (2 * a + (i - 1)) % 2 = 1
    BY <1>1, <1>2
  <2>2. (2 * a + (i - 1) + 1) \div 2 = a + h
    BY <1>1, <1>2
  <2>3. i \div 2 = h /\ (i - 1) \div 2 = h - 1 /\ i > 1
    BY <1>1, <1>2
  <2> QED BY <1>1, <1>2, <2>1, <2>2, <2>3 DEF Session!Symbol, Session!Newline
<1>3. CASE i = 2 * h - 1
  <2>1. (2 * a + i) % 2 = 1
    BY <1>1, <1>3
  <2>2. (2 * a + i + 1) \div 2 = a + h
    BY <1>1, <1>3
  <2>3. i \div 2 = h - 1 /\ (i - 1) \div 2 = h - 1
    BY <1>1, <1>3
  <2> QED BY <1>1, <1>3, <2>1, <2>2, <2>3 DEF Session!Symbol
<1> QED BY <1>1, <1>2, <1>3

LEMMA AnswerLinesGood ==
  ASSUME lines \in Seq(Session!Kind), NEW a \in Nat, NEW n \in Nat, 2 * a + n <= 2 * Len(lines),
         NEW text, Symbols(text, a, n), NEW s, Good(s, a)
  PROVE  Good(Session!AnswerLines(s, text), a + n \div 2)
<1> DEFINE F(k) == AnsweredUpTo(s, text, n, k)
           c(k) == a + k \div 2
           L == Len(lines)
           Bad == {k \in 0..n : ~Good(F(k), c(k))}
<1>1. /\ text \in Seq(Nat) /\ Len(text) = n
      /\ \A i \in 1..n : text[i] = Session!Symbol(2 * a + i)
  BY DEF Symbols
<1>2. L \in Nat /\ \A m \in 1..L : lines[m] \in Session!Kind
  <2> DEFINE K == Session!Kind
  <2>1. lines \in Seq(K)
    OBVIOUS
  <2> HIDE DEF K
  <2>2. L \in Nat /\ \A m \in 1..L : lines[m] \in K
    BY <2>1, LenProperties
  <2> QED BY <2>2 DEF K
<1>3. s \in Answers
  BY DEF Good
<1> HIDE DEF L
<1>4. ASSUME NEW i \in 1..n
      PROVE  \E h \in Nat \ {0} :
               \/ /\ i = 2 * h /\ text[i] = 0 /\ i - 1 \in 1..n /\ text[i - 1] = a + h
                  /\ i > 1 /\ a + h \in 1..L /\ c(i) = a + h /\ c(i - 1) = a + h - 1
               \/ text[i] # 0 /\ c(i) = c(i - 1)
  <2>1. i \in Nat /\ i # 0
    OBVIOUS
  <2>2. PICK h \in Nat \ {0} :
           \/ /\ i = 2 * h /\ Session!Symbol(2 * a + i) = 0
              /\ Session!Symbol(2 * a + (i - 1)) = a + h /\ i > 1
              /\ i \div 2 = h /\ (i - 1) \div 2 = h - 1
           \/ /\ i = 2 * h - 1 /\ Session!Symbol(2 * a + i) = a + h
              /\ i \div 2 = h - 1 /\ (i - 1) \div 2 = h - 1
    BY <2>1, SymbolIs
  <2>3. CASE i = 2 * h /\ Session!Symbol(2 * a + i) = 0
              /\ Session!Symbol(2 * a + (i - 1)) = a + h /\ i > 1
              /\ i \div 2 = h /\ (i - 1) \div 2 = h - 1
    <3>1. i - 1 \in 1..n
      BY <2>3
    <3>2. a + h \in 1..L
      <4>1. 2 * a + n <= 2 * L
        BY DEF L
      <4>2. 2 * a + 2 * h <= 2 * L
        BY <1>2, <2>3, <4>1
      <4> QED BY <1>2, <4>2
    <3>3. text[i] = 0 /\ text[i - 1] = a + h
      BY <1>1, <2>3, <3>1
    <3>4. c(i) = a + h /\ c(i - 1) = a + h - 1
      BY <2>3
    <3> QED BY <2>3, <3>1, <3>2, <3>3, <3>4
  <2>4. CASE i = 2 * h - 1 /\ Session!Symbol(2 * a + i) = a + h
              /\ i \div 2 = h - 1 /\ (i - 1) \div 2 = h - 1
    <3>1. text[i] # 0
      <4>1. text[i] = a + h
        BY <1>1, <2>4
      <4>2. a + h # 0
        OBVIOUS
      <4> QED BY <4>1, <4>2
    <3>2. c(i) = c(i - 1)
      BY <2>4
    <3> QED BY <3>1, <3>2
  <2> QED BY <2>2, <2>3, <2>4
<1>5. c(0) = a /\ \A k \in 0..n : c(k) \in Nat
  OBVIOUS
<1> HIDE DEF c
<1>6. Answerable(text, n)
  <2> SUFFICES ASSUME NEW i \in 1..n, i > 1, text[i] = 0
               PROVE  text[i - 1] \in Nat /\ lines[text[i - 1]] \in Session!Kind
    BY DEF Answerable
  <2>1. PICK h \in Nat \ {0} : text[i - 1] = a + h /\ a + h \in 1..L
    BY <1>4
  <2> QED BY <1>2, <2>1
<1>7. /\ F(0) = s
      /\ \A k \in 1..n : F(k) = IF k > 1 /\ text[k] = 0
                                THEN Session!Answer(F(k - 1), text[k - 1]) ELSE F(k - 1)
  BY <1>3, <1>6, AnsweredSteps
<1> HIDE DEF F
<1>8. Bad = {}
  <2> SUFFICES ASSUME Bad # {} PROVE FALSE
    OBVIOUS
  <2>1. PICK k \in Bad : \A j \in Bad : k <= j
    <3>1. Bad \in SUBSET (0..n)
      OBVIOUS
    <3> HIDE DEF Bad
    <3> QED BY <3>1, SmallestNumber
  <2>2. k # 0
    BY <1>5, <1>7, <2>1
  <2>3. k \in 1..n /\ k - 1 \in 0..n /\ ~(k <= k - 1)
    BY <2>2
  <2>4. Good(F(k - 1), c(k - 1))
    BY <2>1, <2>3
  <2>5. PICK h \in Nat \ {0} :
           \/ /\ text[k] = 0 /\ text[k - 1] = a + h /\ k > 1
              /\ a + h \in 1..L /\ c(k) = a + h /\ c(k - 1) = a + h - 1
           \/ text[k] # 0 /\ c(k) = c(k - 1)
    BY <1>4, <2>3
  <2>6. CASE text[k] # 0 /\ c(k) = c(k - 1)
    BY <1>7, <2>1, <2>3, <2>4, <2>6
  <2>7. CASE /\ text[k] = 0 /\ text[k - 1] = a + h /\ k > 1
             /\ a + h \in 1..L /\ c(k) = a + h /\ c(k - 1) = a + h - 1
    <3> DEFINE b == a + h - 1
               m == a + h
               t == F(k - 1)
    <3>1. b \in Nat /\ m = b + 1 /\ m \in 1..Len(lines)
      BY <2>7 DEF L
    <3>2. Good(t, b)
      BY <2>4, <2>7
    <3>3. F(k) = Session!Answer(t, m)
      BY <1>7, <2>3, <2>7
    <3>4. c(k) = m
      BY <2>7
    <3> HIDE DEF b, m, t
    <3>5. Good(Session!Answer(t, m), m)
      BY <3>1, <3>2, AnswerGood
    <3> QED BY <2>1, <3>3, <3>4, <3>5
  <2> QED BY <2>5, <2>6, <2>7
<1>9. Good(F(n), c(n))
  <2>1. n \in 0..n
    OBVIOUS
  <2> QED BY <1>8, <2>1
<1>10. Session!AnswerLines(s, text) = F(n)
  BY <1>1, AnswerLinesIs DEF F
<1> QED BY <1>9, <1>10 DEF c

LEMMA SessionInit == Session!Init => SessionInv
<1> SUFFICES ASSUME Session!Init PROVE SessionInv
  OBVIOUS
<1>1. Conversations \subseteq Seq(Session!Kind)
  BY ExercisesAssumption, Zenon DEF Session!SessionAssumption
<1>2. /\ lines \in Seq(Session!Kind) /\ received = 0 /\ readUpTo = 0 /\ accumulator = <<>>
      /\ posted = <<>> /\ armed = 0 /\ due = {} /\ cancelled = {} /\ written = <<>>
  BY <1>1, Zenon DEF Session!Init
<1>3. Len(lines) \in Nat
  <2> DEFINE K == Session!Kind
  <2>1. lines \in Seq(K)
    BY <1>2
  <2> HIDE DEF K
  <2> QED BY <2>1, LenProperties
<1>4. Session!Complete = 0
  BY <1>2 DEF Session!Complete
<1>5. Owns(<<>>, {}) /\ In(<<>>) = {}
  BY DEF Owns, In
<1>6. Lined(0) = {} /\ Armed(0) = {} /\ Ordered(<<>>)
  BY DEF Lined, Armed, Ordered
<1>7. StandsAt(<<>>, <<>>, 0, {}, {}, 0)
  BY <1>5, <1>6 DEF StandsAt, Placement, Kinds
<1>8. received \in 0..(2 * Len(lines)) /\ readUpTo \in 0..received /\ readUpTo % 2 # 1
  BY <1>2, <1>3
<1> QED BY <1>2, <1>4, <1>7, <1>8 DEF SessionInv

\* What stands of the new state, when the lines are the same.
LEMMA StandsPrimed ==
  ASSUME lines' = lines,
         StandsAt(written', posted', armed', due', cancelled', Session!Complete')
  PROVE  StandsAt(written, posted, armed, due, cancelled, Session!Complete)'
<1> DEFINE W == In(written)
           P == In(posted)
           A == Armed(armed)
           c == Session!Complete
<1>1. /\ In(written') = W' /\ In(posted') = P' /\ Armed(armed') = A'
  BY DEF In, Armed
<1>2. Lined(c') = Lined(c)'
  BY DEF Lined
<1>3. /\ Owns(written', W') /\ Owns(posted', P') /\ armed' \in Nat
      /\ Placement(W', P', due', A', cancelled', c') /\ Kinds(W', P', due', A', cancelled', c')
      /\ Ordered(written') /\ Ordered(posted')
  BY <1>1 DEF StandsAt
<1> HIDE DEF W, P, A, c
<1>4. Owns(written, W)' /\ Owns(posted, P)'
  BY <1>3 DEF Owns
<1>5. Placement(W, P, due, A, cancelled, c)'
  BY <1>2, <1>3 DEF Placement
<1>6. Kinds(W, P, due, A, cancelled, c)'
  BY <1>3 DEF Kinds
<1>7. Ordered(written)' /\ Ordered(posted)'
  BY <1>3 DEF Ordered, Alike, Session!Immediate
<1> QED BY <1>3, <1>4, <1>5, <1>6, <1>7 DEF StandsAt, W, P, A, c

LEMMA SessionReadKeeps ==
  ASSUME SessionInv, NEW upTo \in Nat, Session!Read(upTo)
  PROVE  SessionInv'
<1> DEFINE a == readUpTo \div 2
           m == upTo - readUpTo
           more == [i \in 1..m |-> Session!Symbol(readUpTo + i)]
           text == accumulator \o more
           n == upTo - 2 * a
           s == [written |-> written, posted |-> posted, armed |-> armed, cancelled |-> cancelled]
           t == Session!AnswerLines(s, text)
           L == Len(lines)
<1>1. /\ lines \in Seq(Session!Kind) /\ received \in 0..(2 * L) /\ readUpTo \in 0..received
      /\ accumulator = IF readUpTo % 2 = 1 THEN <<Session!Symbol(readUpTo)>> ELSE <<>>
      /\ StandsAt(written, posted, armed, due, cancelled, a)
  BY DEF SessionInv, Session!Complete
<1>2. /\ readUpTo < upTo /\ upTo <= received
      /\ accumulator' = Session!Rest(text) /\ written' = t.written /\ posted' = t.posted
      /\ armed' = t.armed /\ cancelled' = t.cancelled
      /\ readUpTo' = upTo /\ UNCHANGED <<lines, received, due>>
  BY DEF Session!Read
<1>3. L \in Nat
  <2> DEFINE K == Session!Kind
  <2>1. lines \in Seq(K)
    BY <1>1
  <2> HIDE DEF K
  <2> QED BY <2>1, LenProperties
<1> HIDE DEF L
<1>4. /\ a \in Nat /\ m \in Nat /\ m # 0 /\ n \in Nat /\ n # 0 /\ 2 * a + n = upTo
      /\ upTo <= 2 * L /\ readUpTo \in Nat
  BY <1>1, <1>2, <1>3
<1>5. \A i \in Nat : Session!Symbol(i) \in Nat
  BY DEF Session!Symbol, Session!Newline
<1>6. more \in Seq(Nat) /\ Len(more) = m /\ \A i \in 1..m : more[i] = Session!Symbol(readUpTo + i)
  <2>1. \A i \in 1..m : Session!Symbol(readUpTo + i) \in Nat
    BY <1>4, <1>5
  <2> QED BY <1>4, <2>1
<1>7. \/ readUpTo = 2 * a /\ accumulator = <<>> /\ m = n
      \/ /\ readUpTo = 2 * a + 1 /\ accumulator = <<Session!Symbol(readUpTo)>> /\ n = m + 1
  BY <1>1, <1>2, <1>4
<1> HIDE DEF more
<1>8. Symbols(text, a, n)
  <2>1. CASE readUpTo = 2 * a /\ accumulator = <<>> /\ m = n
    <3>1. text = more
      BY <1>6, <2>1, ConcatEmptySeq
    <3> HIDE DEF text
    <3> QED BY <1>6, <2>1, <3>1 DEF Symbols
  <2>2. CASE readUpTo = 2 * a + 1 /\ accumulator = <<Session!Symbol(readUpTo)>> /\ n = m + 1
    <3> DEFINE z == Session!Symbol(readUpTo)
    <3>1. /\ <<z>> \in Seq(Nat) /\ Len(<<z>>) = 1 /\ <<z>>[1] = z
      BY <1>4, <1>5
    <3>2. /\ text \in Seq(Nat) /\ Len(text) = 1 + m
          /\ \A i \in 1..(1 + m) : text[i] = IF i <= 1 THEN <<z>>[i] ELSE more[i - 1]
      <4> DEFINE y == <<z>>
      <4>1. y \in Seq(Nat) /\ Len(y) = 1 /\ text = y \o more
        BY <2>2, <3>1
      <4> HIDE DEF y, m, text
      <4>2. more \in Seq(Nat) /\ Len(more) = m
        BY <1>6
      <4>3. /\ text \in Seq(Nat) /\ Len(text) = Len(y) + Len(more)
            /\ \A i \in 1..(Len(y) + Len(more)) :
                 text[i] = IF i <= Len(y) THEN y[i] ELSE more[i - Len(y)]
        BY <4>1, <4>2, ConcatProperties
      <4> QED BY <4>1, <4>2, <4>3 DEF y
    <3>3. ASSUME NEW i \in 1..n PROVE text[i] = Session!Symbol(2 * a + i)
      <4>1. CASE i = 1
        <5>1. text[i] = z /\ readUpTo = 2 * a + i
          BY <1>4, <2>2, <3>1, <3>2, <4>1
        <5> QED BY <5>1
      <4>2. CASE i # 1
        <5>1. i - 1 \in 1..m /\ ~(i <= 1) /\ i \in 1..(1 + m) /\ readUpTo + (i - 1) = 2 * a + i
          BY <1>4, <2>2, <4>2
        <5>2. text[i] = more[i - 1]
          BY <3>2, <5>1
        <5>3. more[i - 1] = Session!Symbol(readUpTo + (i - 1))
          BY <1>6, <5>1
        <5> QED BY <5>1, <5>2, <5>3
      <4> QED BY <4>1, <4>2
    <3> HIDE DEF text
    <3>4. text \in Seq(Nat) /\ Len(text) = n
      BY <1>4, <2>2, <3>2
    <3> QED BY <3>3, <3>4 DEF Symbols
  <2> QED BY <1>7, <2>1, <2>2
<1>9. Good(s, a)
  <2>1. /\ written \in Seq(Nat) /\ posted \in Seq(Nat) /\ armed \in Nat /\ cancelled \in SUBSET Nat
    BY <1>1 DEF StandsAt, Owns, Placement, Lined
  <2> QED BY <1>1, <2>1 DEF Good, Answers
<1> HIDE DEF a, n, text, s, m
<1>10. Good(t, a + n \div 2)
  <2>1. 2 * a + n <= 2 * Len(lines)
    BY <1>4 DEF L
  <2> QED BY <1>1, <1>4, <1>8, <1>9, <2>1, AnswerLinesGood
<1> HIDE DEF t
<1>11. Session!Complete' = a + n \div 2
  <2>1. Session!Complete' = upTo \div 2
    BY <1>2 DEF Session!Complete
  <2>2. upTo \div 2 = a + n \div 2
    BY <1>4
  <2> QED BY <2>1, <2>2
<1>12. StandsAt(written, posted, armed, due, cancelled, Session!Complete)'
  <2>1. StandsAt(t.written, t.posted, t.armed, due, t.cancelled, a + n \div 2)
    BY <1>10 DEF Good
  <2>2. StandsAt(written', posted', armed', due', cancelled', Session!Complete')
    BY <1>2, <1>11, <2>1
  <2> QED BY <1>2, <2>2, StandsPrimed
<1>13. accumulator' = IF upTo % 2 = 1 THEN <<Session!Symbol(upTo)>> ELSE <<>>
  <2>1. text \in Seq(Nat) /\ Len(text) = n /\ text # <<>> /\ text[n] = Session!Symbol(upTo)
    BY <1>4, <1>8 DEF Symbols
  <2>2. Session!Rest(text) = IF Session!Symbol(upTo) # 0 THEN <<Session!Symbol(upTo)>> ELSE <<>>
    BY <2>1 DEF Session!Rest, Session!Newline
  <2>3. Session!Symbol(upTo) # 0 <=> upTo % 2 = 1
    <3>1. upTo % 2 = 1 => (upTo + 1) \div 2 # 0
      BY <1>4
    <3> QED BY <3>1 DEF Session!Symbol, Session!Newline
  <2> QED BY <1>2, <2>2, <2>3
<1>14. received' \in 0..(2 * Len(lines')) /\ readUpTo' \in 0..received'
  BY <1>1, <1>2, <1>4 DEF L
<1>15. accumulator' = (IF readUpTo % 2 = 1 THEN <<Session!Symbol(readUpTo)>> ELSE <<>>)'
  BY <1>2, <1>13 DEF Session!Symbol, Session!Newline
<1> QED BY <1>1, <1>2, <1>12, <1>14, <1>15 DEF SessionInv

\* The other handlers move one line from one place to another.
LEMMA PlacesMove ==
  ASSUME SessionInv, UNCHANGED <<lines, received, readUpTo, accumulator>>,
         StandsAt(written', posted', armed', due', cancelled', Session!Complete)
  PROVE  SessionInv'
<1>1. Session!Complete' = Session!Complete
  BY DEF Session!Complete
<1>2. StandsAt(written, posted, armed, due, cancelled, Session!Complete)'
  BY <1>1, StandsPrimed
<1>3. accumulator' = (IF readUpTo % 2 = 1 THEN <<Session!Symbol(readUpTo)>> ELSE <<>>)'
  BY DEF SessionInv, Session!Symbol, Session!Newline
<1> QED BY <1>2, <1>3 DEF SessionInv

\* A job is taken from the front of the strand.
LEMMA OwnsTail ==
  ASSUME NEW p, NEW P, Owns(p, P), Ordered(p), p # <<>>
  PROVE  /\ Head(p) \in P /\ Head(p) \in Nat
         /\ Owns(Tail(p), P \ {Head(p)}) /\ Ordered(Tail(p))
         /\ \A m \in P : m # Head(p) /\ Alike(Head(p), m) => Head(p) < m
<1> DEFINE l == Len(p)
           u == Tail(p)
           h == Head(p)
<1>1. /\ p \in Seq(Nat) /\ l \in Nat /\ (\A i, j \in 1..l : p[i] = p[j] => i = j)
      /\ P = {p[i] : i \in 1..l} /\ \A i, j \in 1..l : i < j /\ Alike(p[i], p[j]) => p[i] < p[j]
  BY LenProperties DEF Owns, Ordered
<1>2. /\ u \in Seq(Nat) /\ Len(u) = l - 1 /\ (\A i \in 1..Len(u) : u[i] = p[i + 1])
      /\ h \in Nat /\ h = p[1] /\ l # 0
  BY <1>1, HeadTailProperties, EmptySeq
<1> HIDE DEF u, l, h
<1>3. \A i \in 1..(l - 1) : i + 1 \in 1..l /\ i + 1 # 1 /\ u[i] = p[i + 1]
  BY <1>1, <1>2
<1>4. 1 \in 1..l /\ \A i \in 1..l : i # 1 => i - 1 \in 1..(l - 1) /\ (i - 1) + 1 = i /\ 1 < i
  BY <1>1, <1>2
<1>5. h \in P
  BY <1>1, <1>2, <1>4
<1>6. \A i, j \in 1..(l - 1) : u[i] = u[j] => i = j
  BY <1>1, <1>3
<1>7. {u[i] : i \in 1..(l - 1)} = P \ {h}
  <2>1. ASSUME NEW i \in 1..(l - 1) PROVE u[i] \in P \ {h}
    <3>1. i + 1 \in 1..l /\ i + 1 # 1 /\ u[i] = p[i + 1]
      BY <1>3
    <3>2. p[i + 1] # p[1]
      BY <1>1, <1>4, <3>1
    <3> QED BY <1>1, <1>2, <3>1, <3>2
  <2>2. ASSUME NEW x \in P \ {h} PROVE \E i \in 1..(l - 1) : u[i] = x
    <3>1. PICK i \in 1..l : x = p[i]
      BY <1>1
    <3>2. i # 1
      BY <1>2, <3>1
    <3> QED BY <1>3, <1>4, <3>1, <3>2
  <2> QED BY <2>1, <2>2
<1>8. \A i, j \in 1..(l - 1) : i < j /\ Alike(u[i], u[j]) => u[i] < u[j]
  <2> SUFFICES ASSUME NEW i \in 1..(l - 1), NEW j \in 1..(l - 1), i < j, Alike(u[i], u[j])
               PROVE  u[i] < u[j]
    OBVIOUS
  <2>1. i + 1 < j + 1
    OBVIOUS
  <2> QED BY <1>1, <1>3, <2>1
<1>9. \A m \in P : m # h /\ Alike(h, m) => h < m
  <2> SUFFICES ASSUME NEW m \in P, m # h, Alike(h, m) PROVE h < m
    OBVIOUS
  <2>1. PICK i \in 1..l : m = p[i]
    BY <1>1
  <2>2. i # 1
    BY <1>2, <2>1
  <2> QED BY <1>1, <1>2, <1>4, <2>1, <2>2
<1> QED BY <1>2, <1>5, <1>6, <1>7, <1>8, <1>9 DEF Owns, Ordered, u, h

LEMMA FactorialKeeps == ASSUME SessionInv, Session!ComputeFactorial PROVE SessionInv'
<1> DEFINE w == written
           p == posted
           W == In(w)
           P == In(p)
           A == Armed(armed)
           C == cancelled
           c == Session!Complete
           h == Head(p)
           u == Tail(p)
           v == Append(w, h)
<1>1. /\ Owns(w, W) /\ Owns(p, P) /\ armed \in Nat /\ Placement(W, P, due, A, C, c)
      /\ Kinds(W, P, due, A, C, c) /\ Ordered(w) /\ Ordered(p)
  BY DEF SessionInv, StandsAt
<1>2. /\ p # <<>> /\ written' = v /\ posted' = u
      /\ UNCHANGED <<lines, received, readUpTo, accumulator, armed, due, cancelled>>
  BY DEF Session!ComputeFactorial
<1> HIDE DEF c, A, u, h, v
<1>3. /\ h \in P /\ h \in Nat /\ Owns(u, P \ {h}) /\ Ordered(u)
      /\ \A m \in P : m # h /\ Alike(h, m) => h < m
  <2> HIDE DEF P, p
  <2> QED BY <1>1, <1>2, OwnsTail DEF h, u
<1> HIDE DEF W, P, w, p, C
<1>4. lines[h] = "number" /\ h \notin W
  BY <1>1, <1>3 DEF Kinds, Placement
<1>5. \A m \in W : m \in Nat /\ lines[m] # "empty"
  BY <1>1 DEF Placement, Lined
<1>6. \A m \in W : Alike(m, h) => m < h
  <2> SUFFICES ASSUME NEW m \in W, Alike(m, h) PROVE m < h
    OBVIOUS
  <2>1. lines[m] = "number"
    <3>1. m \in 1..c
      BY <1>1 DEF Placement, Lined
    <3>2. lines[m] \in Session!Kind
      <4>1. m \in 1..Len(lines)
        <5>1. received \in 0..(2 * Len(lines)) /\ readUpTo \in 0..received /\ c = readUpTo \div 2
          BY DEF SessionInv, Session!Complete, c
        <5>2. Len(lines) \in Nat
          <6> DEFINE K == Session!Kind
          <6>1. lines \in Seq(K)
            BY DEF SessionInv
          <6> HIDE DEF K
          <6> QED BY <6>1, LenProperties
        <5> QED BY <3>1, <5>1, <5>2
      <4> DEFINE K == Session!Kind
      <4>2. lines \in Seq(K)
        BY DEF SessionInv
      <4> HIDE DEF K
      <4>3. lines[m] \in K
        BY <4>1, <4>2, ElementOfSeq
      <4> QED BY <4>3 DEF K
    <3> QED BY <1>4, <1>5, <3>2 DEF Alike, Session!Immediate, Session!Kind
  <2> QED BY <1>1, <1>3, <2>1 DEF Kinds
<1>7. Owns(v, W \cup {h}) /\ Ordered(v)
  BY <1>1, <1>3, <1>4, <1>6, OwnsMore, OrderedMore DEF v
<1>8. In(v) = W \cup {h} /\ Owns(v, In(v)) /\ In(u) = P \ {h} /\ Owns(u, In(u))
  BY <1>3, <1>7, OwnsIn
<1>9. Placement(W \cup {h}, P \ {h}, due, A, C, c)
  BY <1>1, <1>3 DEF Placement
<1>10. Kinds(W \cup {h}, P \ {h}, due, A, C, c)
  <2>1. \A m \in P \ {h} : lines[m] = "number" /\ h < m
    BY <1>1, <1>3, <1>4 DEF Kinds, Alike, Session!Immediate
  <2> QED BY <1>1, <2>1 DEF Kinds
<1>11. StandsAt(v, u, armed, due, C, c)
  BY <1>1, <1>3, <1>7, <1>8, <1>9, <1>10 DEF StandsAt, A
<1>12. StandsAt(written', posted', armed', due', cancelled', c)
  BY <1>2, <1>11 DEF C
<1> QED BY <1>2, <1>12, PlacesMove DEF c

LEMMA ExpireKeeps == ASSUME SessionInv, Session!Expire PROVE SessionInv'
<1> DEFINE W == In(written)
           P == In(posted)
           A == Armed(armed)
           c == Session!Complete
           D == due \cup {armed}
<1>1. /\ Owns(written, W) /\ Owns(posted, P) /\ armed \in Nat
      /\ Placement(W, P, due, A, cancelled, c)
      /\ Kinds(W, P, due, A, cancelled, c) /\ Ordered(written) /\ Ordered(posted)
  BY DEF SessionInv, StandsAt
<1>2. /\ armed # 0 /\ due' = D /\ armed' = 0
      /\ UNCHANGED <<lines, received, readUpTo, accumulator, posted, cancelled, written>>
  BY DEF Session!Expire
<1>3. A = {armed} /\ Armed(0) = {}
  BY <1>2 DEF Armed
<1> HIDE DEF W, P, A, c
<1>4. Placement(W, P, D, {}, cancelled, c)
  BY <1>1, <1>3 DEF Placement
<1>5. Kinds(W, P, D, {}, cancelled, c)
  BY <1>1, <1>3 DEF Kinds
<1> HIDE DEF D
<1>6. StandsAt(written, posted, 0, D, cancelled, c)
  BY <1>1, <1>3, <1>4, <1>5 DEF StandsAt, W, P
<1>7. StandsAt(written', posted', armed', due', cancelled', c)
  BY <1>2, <1>6
<1> QED BY <1>2, <1>7, PlacesMove DEF c

LEMMA DelayedKeeps ==
  ASSUME SessionInv, NEW n, Session!DelayedResponse(n)
  PROVE  SessionInv'
<1> DEFINE W == In(written)
           P == In(posted)
           A == Armed(armed)
           c == Session!Complete
           D == due \ {n}
           v == Append(written, n)
<1>1. /\ Owns(written, W) /\ Owns(posted, P) /\ armed \in Nat
      /\ Placement(W, P, due, A, cancelled, c)
      /\ Kinds(W, P, due, A, cancelled, c) /\ Ordered(written) /\ Ordered(posted)
  BY DEF SessionInv, StandsAt
<1>2. /\ n \in due /\ due' = D /\ written' = v
      /\ UNCHANGED <<lines, received, readUpTo, accumulator, posted, cancelled, armed>>
  BY DEF Session!DelayedResponse
<1> HIDE DEF W, P, A, c, v
<1>3. n \in Nat /\ n \notin W /\ lines[n] = "wait"
  BY <1>1, <1>2 DEF Placement, Kinds, Lined
<1>4. \A m \in W : Alike(m, n) => m < n
  BY <1>3 DEF Alike
<1>5. Owns(v, W \cup {n}) /\ Ordered(v)
  BY <1>1, <1>3, <1>4, OwnsMore, OrderedMore DEF v
<1>6. In(v) = W \cup {n} /\ Owns(v, In(v))
  BY <1>5, OwnsIn
<1>7. Placement(W \cup {n}, P, D, A, cancelled, c)
  BY <1>1, <1>2 DEF Placement
<1>8. Kinds(W \cup {n}, P, D, A, cancelled, c)
  BY <1>1, <1>3 DEF Kinds
<1> HIDE DEF D
<1>9. StandsAt(v, posted, armed, D, cancelled, c)
  BY <1>1, <1>5, <1>6, <1>7, <1>8 DEF StandsAt, P, A
<1>10. StandsAt(written', posted', armed', due', cancelled', c)
  BY <1>2, <1>9
<1> QED BY <1>2, <1>10, PlacesMove DEF c

\* The network delivers a symbol, the session reads no more, or nothing happens.
LEMMA LinesStay ==
  ASSUME SessionInv,
         UNCHANGED <<lines, readUpTo, accumulator, posted, armed, due, cancelled, written>>,
         received' = received \/ (received' = received + 1 /\ received < 2 * Len(lines))
  PROVE  SessionInv'
<1>1. Session!Complete' = Session!Complete
  BY DEF Session!Complete
<1>2. StandsAt(written', posted', armed', due', cancelled', Session!Complete')
  BY <1>1 DEF SessionInv
<1>3. StandsAt(written, posted, armed, due, cancelled, Session!Complete)'
  BY <1>2, StandsPrimed
<1>4. accumulator' = (IF readUpTo % 2 = 1 THEN <<Session!Symbol(readUpTo)>> ELSE <<>>)'
  BY DEF SessionInv, Session!Symbol, Session!Newline
<1>5. Len(lines) \in Nat /\ lines \in Seq(Session!Kind)
  <2> DEFINE K == Session!Kind
  <2>1. lines \in Seq(K)
    BY DEF SessionInv
  <2> HIDE DEF K
  <2>2. Len(lines) \in Nat
    BY <2>1, LenProperties
  <2> QED BY <2>1, <2>2 DEF K
<1>6. received \in 0..(2 * Len(lines)) /\ readUpTo \in 0..received
  BY DEF SessionInv
<1>7. received' \in 0..(2 * Len(lines')) /\ readUpTo' \in 0..received'
  BY <1>5, <1>6
<1> QED BY <1>3, <1>4, <1>5, <1>7 DEF SessionInv

LEMMA SessionNext == SessionInv /\ Session!Next => SessionInv'
<1> SUFFICES ASSUME SessionInv, Session!Next PROVE SessionInv'
  OBVIOUS
<1>1. CASE Session!Deliver \/ Session!ReadError
  <2>1. /\ UNCHANGED <<lines, readUpTo, accumulator, posted, armed, due, cancelled, written>>
        /\ received' = received \/ (received' = received + 1 /\ received < 2 * Len(lines))
    BY <1>1 DEF Session!Deliver, Session!ReadError
  <2> QED BY <2>1, LinesStay
<1>2. CASE Session!Expire
  BY <1>2, ExpireKeeps
<1>3. CASE Session!Handlers
  <2>1. ASSUME NEW n \in 1..(2 * Len(lines)), Session!Read(n) PROVE SessionInv'
    <3>1. n \in Nat
      OBVIOUS
    <3> QED BY <2>1, <3>1, SessionReadKeeps
  <2>2. CASE Session!ComputeFactorial
    BY <2>2, FactorialKeeps
  <2>3. ASSUME NEW n \in DOMAIN lines, Session!DelayedResponse(n) PROVE SessionInv'
    BY <2>3, DelayedKeeps
  <2> QED BY <1>3, <2>1, <2>2, <2>3 DEF Session!Handlers
<1> QED BY <1>1, <1>2, <1>3 DEF Session!Next

LEMMA SessionInvariant == Spec => [](program = "LineSession" => SessionInv)
<1>1. Init => (program = "LineSession" => SessionInv)
  BY SessionInit DEF Init
<1>2. (program = "LineSession" => SessionInv) /\ [Next]_vars
        => (program = "LineSession" => SessionInv)'
  <2> SUFFICES ASSUME program = "LineSession" => SessionInv, [Next]_vars,
                      program' = "LineSession"
               PROVE  SessionInv'
    OBVIOUS
  <2>1. CASE program = "LineSession" /\ Session!Next
    BY <2>1, SessionNext
  <2>2. CASE program = "LineSession" /\ UNCHANGED sessionVars
    BY <2>2, LinesStay DEF sessionVars
  <2> QED BY <2>1, <2>2 DEF Next, vars
<1> QED BY <1>1, <1>2, PTL DEF Spec
----------------------------------------------------------------------------
\* Lines and records, for every conversation, group, table and number of threads, and
\* wherever the bytes are cut: a session answers every complete line once, keeps it
\* pending or has cancelled it (LineSession); a student is owned and freed once, and the
\* group holds none that is freed (GroupMenu); a file is loaded as it was saved, and a
\* cut one leaves whole rows (GradeFile); lines of one Logger are whole, and its file
\* agrees with the console (Logger).
THEOREM RecordsAgree == Spec => []FilesConsistent
<1>1. /\ (program = "LineSession" => SessionInv)
            => (program = "LineSession" => Session!LinesAnsweredOnce)
      /\ (program = "GroupMenu" => MenuInv) => (program = "GroupMenu" => Menu!OwnershipConsistent)
      /\ (program = "GradeFile" => GradesInv) => (program = "GradeFile" => Grades!LoadedAsSaved)
      /\ (program = "Logger" => LogInv) => (program = "Logger" => Log!LinesWhole)
  BY SessionImplies, MenuImplies, GradesImplies, LogImplies
<1>2. /\ program = "LineSession" => Session!LinesAnsweredOnce
      /\ program = "GroupMenu" => Menu!OwnershipConsistent
      /\ program = "GradeFile" => Grades!LoadedAsSaved
      /\ program = "Logger" => Log!LinesWhole
      => FilesConsistent
  BY DEF FilesConsistent
<1> QED BY <1>1, <1>2, SessionInvariant, MenuInvariant, GradesInvariant, LogInvariant, PTL
=============================================================================
