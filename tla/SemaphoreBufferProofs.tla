------------------------ MODULE SemaphoreBufferProofs ------------------------
(***************************************************************************)
(* Proofs about SemaphoreBuffer, for any producers and consumers, any number  *)
(* of buffers and any capacity: places, items and permits agree.            *)
(***************************************************************************)
EXTENDS SemaphoreBuffer, Counting

\* What BuffersConsistent needs besides itself to be inductive: only producers push
\* and announce items, and what a producer is about to push is a value.
Rounds == \A t \in Thread :
            /\ pc[t] \in {"push", "announceItem"} => t \in Producer
            /\ t \in Producer /\ pc[t] # "idle" => local[t].value \in Value

IInv == BuffersConsistent /\ Rounds

\* How much thread t counts among those that stand at label, in buffer b.
Here(t, label, b) == IF pc[t] = label /\ at(t) = b THEN 1 ELSE 0

\* A step of one thread changes each count by that thread at most.
LEMMA OneThreadMoves ==
  ASSUME NEW t \in Thread, NEW label, NEW b,
         \A u \in Thread \ {t} : pc'[u] = pc[u] /\ local'[u] = local[u]
  PROVE  /\ Cardinality(At(label, b)) \in Nat
         /\ Cardinality(At(label, b)') \in Nat
         /\ Cardinality(At(label, b)')
              = Cardinality(At(label, b)) + Here(t, label, b)' - Here(t, label, b)
<1> DEFINE A == {u \in Thread : pc[u] = label /\ at(u) = b}
           B == {u \in Thread : pc'[u] = label /\ at(u)' = b}
<1>1. IsFiniteSet(A)
  <2>1. A \subseteq Thread
    OBVIOUS
  <2> QED BY <2>1, BufferAssumption, FS_Subset
<1>2. A \ {t} = B \ {t}
  BY DEF at
<1>3. /\ Cardinality(A) \in Nat /\ Cardinality(B) \in Nat
      /\ Cardinality(B) = Cardinality(A) + Change(A, B, t)
  BY <1>1, <1>2, OneElementChanges
<1>4. Change(A, B, t) = Here(t, label, b)' - Here(t, label, b)
  BY DEF Change, Here
<1>5. At(label, b) = A /\ At(label, b)' = B
  BY DEF At
<1> QED BY <1>3, <1>4, <1>5

\* A count is at least what one thread adds to it.
LEMMA CountedHere ==
  ASSUME NEW t \in Thread, NEW label, NEW b, Here(t, label, b) = 1
  PROVE  Cardinality(At(label, b)) >= 1
<1>1. t \in At(label, b)
  BY DEF Here, At
<1>2. IsFiniteSet(At(label, b))
  <2>1. At(label, b) \subseteq Thread
    BY DEF At
  <2> QED BY <2>1, BufferAssumption, FS_Subset
<1>3. Cardinality(At(label, b)) \in Nat /\ Cardinality(At(label, b)) # 0
  BY <1>1, <1>2, FS_CardinalityType, FS_EmptySet
<1> QED BY <1>3

\* The parts of the invariant for one buffer b.
Places(b) == empty[b] + Cardinality(At("push", b)) + Len(buffers[b])
               + Cardinality(At("announcePlace", b)) = Capacity
Items(b) == full[b] + Cardinality(At("pop", b)) + Cardinality(At("announceItem", b))
              = Len(buffers[b])

LEMMA Parts ==
  IInv <=> TypeOK /\ Rounds /\ \A b \in Buffer : Places(b) /\ Items(b)
  BY DEF IInv, BuffersConsistent, PlacesAccountedFor, ItemsAccountedFor, Places, Items

LEMMA RoundsTyped == NoRound \in Local /\ Buffer # {} /\ \A b \in Buffer : b \in Nat
<1>1. 0 \in Buffer /\ 0 \in 0..Buffers
  BY BufferAssumption DEF Buffer
<1> QED BY <1>1 DEF NoRound, Local, Buffer

\* The initial state.
LEMMA InitIInv == Init => IInv
<1> SUFFICES ASSUME Init PROVE IInv
  OBVIOUS
<1>1. TypeOK
  <2>1. <<>> \in Seq(Value) /\ Capacity \in 0..Capacity /\ 0 \in 0..Capacity
    BY BufferAssumption
  <2>2. \A t \in Thread : NoRound \in Local
    BY RoundsTyped
  <2> QED BY <2>1, <2>2 DEF Init, TypeOK
<1>2. Rounds
  BY DEF Init, Rounds
<1>3. ASSUME NEW b \in Buffer
      PROVE  Places(b) /\ Items(b)
  <2>1. /\ At("push", b) = {} /\ At("announcePlace", b) = {}
        /\ At("pop", b) = {} /\ At("announceItem", b) = {}
    BY DEF Init, At
  <2>2. Cardinality({}) = 0
    BY FS_EmptySet
  <2>3. empty[b] = Capacity /\ full[b] = 0 /\ buffers[b] = <<>>
    BY DEF Init
  <2>4. Len(buffers[b]) = 0
    BY <2>3
  <2>5. /\ Cardinality(At("push", b)) = 0 /\ Cardinality(At("announcePlace", b)) = 0
        /\ Cardinality(At("pop", b)) = 0 /\ Cardinality(At("announceItem", b)) = 0
    BY <2>1, <2>2, Zenon
  <2>6. Places(b)
    BY <2>3, <2>4, <2>5, BufferAssumption DEF Places
  <2>7. Items(b)
    BY <2>3, <2>4, <2>5 DEF Items
  <2> QED BY <2>6, <2>7
<1> QED BY <1>1, <1>2, <1>3, Parts

\* What a thread that moves from one label to another leaves to prove: the other
\* threads are where they were.
Moves(t, from, to) == /\ pc[t] = from
                      /\ pc' = [pc EXCEPT ![t] = to]
                      /\ \A u \in Thread \ {t} : local'[u] = local[u]

\* The counts of b that such a step changes.
LEMMA Counts ==
  ASSUME TypeOK, NEW t \in Thread, NEW from, NEW to, Moves(t, from, to),
         NEW label, NEW b
  PROVE  /\ Cardinality(At(label, b)) \in Nat
         /\ Cardinality(At(label, b)') \in Nat
         /\ Cardinality(At(label, b)') = Cardinality(At(label, b))
              + (IF label = to /\ at(t)' = b THEN 1 ELSE 0)
              - (IF label = from /\ at(t) = b THEN 1 ELSE 0)
         /\ label = from /\ at(t) = b => Cardinality(At(label, b)) >= 1
<1>1. pc[t] = from /\ pc'[t] = to
  BY DEF Moves, TypeOK
<1>2. \A u \in Thread \ {t} : pc'[u] = pc[u] /\ local'[u] = local[u]
  BY DEF Moves, TypeOK
<1>3. /\ Here(t, label, b) = (IF label = from /\ at(t) = b THEN 1 ELSE 0)
      /\ Here(t, label, b)' = (IF label = to /\ at(t)' = b THEN 1 ELSE 0)
  BY <1>1 DEF Here
<1>4. label = from /\ at(t) = b => Cardinality(At(label, b)) >= 1
  BY <1>3, CountedHere
<1> QED BY <1>2, <1>3, <1>4, OneThreadMoves

\* A step that changes the permits and the deque by as much as it changes the counts.
Shift(t, from, to, b, l) == (IF l = to /\ at(t)' = b THEN 1 ELSE 0)
                                - (IF l = from /\ at(t) = b THEN 1 ELSE 0)

\* The sums by which the parts are kept.
LEMMA Conserved ==
  ASSUME NEW e \in Int, NEW d \in Int, NEW l \in Int, NEW m \in Int,
         NEW p \in Int, NEW q \in Int, NEW x \in Int, NEW y \in Int
  PROVE  /\ d + m + x + y = e + l
             => d + (p + x) + m + (q + y) = e + p + l + q
         /\ d + x + y - m = e - l /\ e + p + q = l
             => d + (p + x) + (q + y) = m
  OBVIOUS

LEMMA Balanced ==
  ASSUME IInv, NEW t \in Thread, NEW from, NEW to, Moves(t, from, to), NEW b \in Buffer,
         empty'[b] \in Int, full'[b] \in Int, Len(buffers'[b]) \in Nat,
         empty'[b] + Len(buffers'[b]) + Shift(t, from, to, b, "push")
           + Shift(t, from, to, b, "announcePlace") = empty[b] + Len(buffers[b]),
         full'[b] + Shift(t, from, to, b, "pop") + Shift(t, from, to, b, "announceItem")
           - Len(buffers'[b]) = full[b] - Len(buffers[b])
  PROVE  Places(b)' /\ Items(b)'
<1>1. TypeOK /\ Places(b) /\ Items(b)
  BY Parts
<1>2. empty[b] \in Int /\ full[b] \in Int /\ Len(buffers[b]) \in Nat
  BY <1>1 DEF TypeOK
<1>3. ASSUME NEW label
      PROVE  /\ Cardinality(At(label, b)) \in Nat
             /\ Cardinality(At(label, b)') \in Nat
             /\ Shift(t, from, to, b, label) \in Int
             /\ Cardinality(At(label, b)')
                  = Cardinality(At(label, b)) + Shift(t, from, to, b, label)
  BY <1>1, Counts DEF Shift
<1>4. Places(b)'
  <2> DEFINE p == Cardinality(At("push", b))
             q == Cardinality(At("announcePlace", b))
             x == Shift(t, from, to, b, "push")
             y == Shift(t, from, to, b, "announcePlace")
  <2>1. /\ p \in Nat /\ x \in Int /\ p' = p + x
        /\ q \in Nat /\ y \in Int /\ q' = q + y
    BY <1>3
  <2>2. empty[b] + p + Len(buffers[b]) + q = Capacity
    BY <1>1 DEF Places
  <2>3. empty'[b] + Len(buffers'[b]) + x + y = empty[b] + Len(buffers[b])
    OBVIOUS
  <2>4. Capacity \in Int
    BY BufferAssumption
  <2>5. empty'[b] + (p + x) + Len(buffers'[b]) + (q + y) = Capacity
    <3> DEFINE e == empty[b]
               d == empty'[b]
               l == Len(buffers[b])
               m == Len(buffers'[b])
    <3>1. e \in Int /\ d \in Int /\ l \in Int /\ m \in Int
      BY <1>2
    <3>2. p \in Int /\ q \in Int /\ x \in Int /\ y \in Int
      BY <2>1
    <3>3. d + m + x + y = e + l
      BY <2>3
    <3>4. e + p + l + q = Capacity
      BY <2>2
    <3> HIDE DEF p, q, x, y, e, d, l, m
    <3>5. d + (p + x) + m + (q + y) = e + p + l + q
      BY <3>1, <3>2, <3>3, Conserved
    <3>6. d + (p + x) + m + (q + y) = Capacity
      BY <3>4, <3>5
    <3> QED BY <3>6 DEF d, m
  <2>6. empty'[b] + p' + Len(buffers'[b]) + q' = Capacity
    BY <2>1, <2>5
  <2> QED BY <2>6 DEF Places
<1>5. Items(b)'
  <2> DEFINE p == Cardinality(At("pop", b))
             q == Cardinality(At("announceItem", b))
             x == Shift(t, from, to, b, "pop")
             y == Shift(t, from, to, b, "announceItem")
  <2>1. /\ p \in Nat /\ x \in Int /\ p' = p + x
        /\ q \in Nat /\ y \in Int /\ q' = q + y
    BY <1>3
  <2>2. full[b] + p + q = Len(buffers[b])
    BY <1>1 DEF Items
  <2>3. full'[b] + x + y - Len(buffers'[b]) = full[b] - Len(buffers[b])
    OBVIOUS
  <2>5. full'[b] + (p + x) + (q + y) = Len(buffers'[b])
    <3> DEFINE e == full[b]
               d == full'[b]
               l == Len(buffers[b])
               m == Len(buffers'[b])
    <3>1. e \in Int /\ d \in Int /\ l \in Int /\ m \in Int
      BY <1>2
    <3>2. p \in Int /\ q \in Int /\ x \in Int /\ y \in Int
      BY <2>1
    <3>3. d + x + y - m = e - l
      BY <2>3
    <3>4. e + p + q = l
      BY <2>2
    <3> HIDE DEF p, q, x, y, e, d, l, m
    <3>5. d + (p + x) + (q + y) = m
      BY <3>1, <3>2, <3>3, <3>4, Conserved
    <3> QED BY <3>5 DEF d, m
  <2>6. full'[b] + p' + q' = Len(buffers'[b])
    BY <2>1, <2>5
  <2> QED BY <2>6 DEF Items
<1> QED BY <1>4, <1>5

\* What the counts say of the buffer a thread is at: there is a permit to give back,
\* and an item to pop.
LEMMA Room ==
  ASSUME IInv, NEW t \in Thread
  PROVE  /\ at(t) \in Buffer
         /\ pc[t] = "announcePlace" => empty[at(t)] + 1 \in 0..Capacity
         /\ pc[t] = "announceItem" => full[at(t)] + 1 \in 0..Capacity
         /\ pc[t] = "pop" => buffers[at(t)] # <<>>
<1> DEFINE b == at(t)
<1>1. TypeOK /\ b \in Buffer
  BY Parts DEF TypeOK, Local, at
<1>2. /\ empty[b] \in Nat /\ full[b] \in Nat /\ Len(buffers[b]) \in Nat
      /\ Capacity \in Nat
  BY <1>1, BufferAssumption DEF TypeOK
<1>3. Places(b) /\ Items(b)
  BY <1>1, Parts
<1>4. ASSUME NEW label
      PROVE  /\ Cardinality(At(label, b)) \in Nat
             /\ pc[t] = label => Cardinality(At(label, b)) >= 1
  <2>1. IsFiniteSet(At(label, b))
    <3>1. At(label, b) \subseteq Thread
      BY DEF At
    <3> QED BY <3>1, BufferAssumption, FS_Subset
  <2>2. pc[t] = label => Here(t, label, b) = 1
    BY DEF Here
  <2> QED BY <2>1, <2>2, CountedHere, FS_CardinalityType
<1> DEFINE e == empty[b]
           f == full[b]
           l == Len(buffers[b])
           p == Cardinality(At("push", b))
           q == Cardinality(At("announcePlace", b))
           x == Cardinality(At("pop", b))
           y == Cardinality(At("announceItem", b))
<1>5. /\ e \in Nat /\ f \in Nat /\ l \in Nat /\ Capacity \in Nat
      /\ p \in Nat /\ q \in Nat /\ x \in Nat /\ y \in Nat
      /\ e + p + l + q = Capacity
      /\ f + x + y = l
  BY <1>2, <1>3, <1>4 DEF Places, Items
<1>6. /\ pc[t] = "announcePlace" => q >= 1
      /\ pc[t] = "announceItem" => y >= 1
      /\ pc[t] = "pop" => x >= 1
  BY <1>4
<1> HIDE DEF e, f, l, p, q, x, y
<1>7. /\ pc[t] = "announcePlace" => e + 1 \in 0..Capacity
      /\ pc[t] = "announceItem" => f + 1 \in 0..Capacity
      /\ pc[t] = "pop" => l # 0
  <2>1. q >= 1 => e + 1 <= Capacity
    BY <1>5
  <2>2. y >= 1 => f + 1 <= Capacity
    BY <1>5
  <2>3. x >= 1 => l # 0
    BY <1>5
  <2> QED BY <1>5, <1>6, <2>1, <2>2, <2>3
<1>8. l # 0 => buffers[b] # <<>>
  BY DEF l
<1> QED BY <1>1, <1>7, <1>8 DEF e, f

\* A step from label to label keeps the round of its thread well formed.
LEMMA RoundKept ==
  ASSUME IInv, NEW t \in Thread, NEW from, NEW to, Moves(t, from, to),
         to \in {"idle", "try", "push", "announceItem", "pop", "announcePlace"},
         local' \in [Thread -> Local],
         to \in {"push", "announceItem"} => t \in Producer,
         t \in Producer /\ to # "idle" => local'[t].value \in Value
  PROVE  /\ pc' \in [Thread -> {"idle", "try", "push", "announceItem", "pop",
                                "announcePlace"}]
         /\ Rounds'
<1>1. TypeOK /\ Rounds
  BY Parts
<1>2. pc' \in [Thread -> {"idle", "try", "push", "announceItem", "pop", "announcePlace"}]
  BY <1>1 DEF TypeOK, Moves
<1>3. Rounds'
  <2> SUFFICES ASSUME NEW u \in Thread
               PROVE  /\ pc'[u] \in {"push", "announceItem"} => u \in Producer
                      /\ u \in Producer /\ pc'[u] # "idle" => local'[u].value \in Value
    BY DEF Rounds
  <2>1. CASE u = t
    BY <1>1, <2>1 DEF TypeOK, Moves
  <2>2. CASE u # t
    BY <1>1, <2>2 DEF TypeOK, Moves, Rounds
  <2> QED BY <2>1, <2>2
<1> QED BY <1>2, <1>3

\* A step from label to label keeps the invariant when it changes the permits and the
\* deque of each buffer by as much as it changes the counts.
StoreKept == /\ buffers' \in [Buffer -> Seq(Value)]
             /\ empty' \in [Buffer -> 0..Capacity]
             /\ full' \in [Buffer -> 0..Capacity]
             /\ stop' \in BOOLEAN

RoundOK(t, to) ==
  /\ to \in {"idle", "try", "push", "announceItem", "pop", "announcePlace"}
  /\ local' \in [Thread -> Local]
  /\ to \in {"push", "announceItem"} => t \in Producer
  /\ t \in Producer /\ to # "idle" => local'[t].value \in Value

Balance(t, from, to, b) ==
  /\ empty'[b] + Len(buffers'[b]) + Shift(t, from, to, b, "push")
       + Shift(t, from, to, b, "announcePlace") = empty[b] + Len(buffers[b])
  /\ full'[b] + Shift(t, from, to, b, "pop") + Shift(t, from, to, b, "announceItem")
       - Len(buffers'[b]) = full[b] - Len(buffers[b])

LEMMA StepKept ==
  ASSUME IInv, NEW t \in Thread, NEW from, NEW to, Moves(t, from, to),
         RoundOK(t, to), StoreKept, \A b \in Buffer : Balance(t, from, to, b)
  PROVE  IInv'
<1>1. /\ pc' \in [Thread -> {"idle", "try", "push", "announceItem", "pop",
                             "announcePlace"}]
      /\ Rounds'
  BY RoundKept DEF RoundOK
<1>2. TypeOK'
  BY <1>1 DEF TypeOK, RoundOK, StoreKept
<1>3. ASSUME NEW b \in Buffer
      PROVE  Places(b)' /\ Items(b)'
  <2>1. empty'[b] \in Int /\ full'[b] \in Int /\ Len(buffers'[b]) \in Nat
    BY BufferAssumption DEF StoreKept
  <2>2. Balance(t, from, to, b)
    OBVIOUS
  <2> QED BY <2>1, <2>2, Balanced DEF Balance
<1>4. Rounds' /\ \A b \in Buffer : Places(b)' /\ Items(b)'
  BY <1>1, <1>3
<1> QED BY <1>2, <1>4
        DEF IInv, BuffersConsistent, PlacesAccountedFor, ItemsAccountedFor, Places, Items

\* What is typed before a step, for the thread that takes it and its buffer.
LEMMA Typed ==
  ASSUME IInv, NEW t \in Thread
  PROVE  /\ buffers \in [Buffer -> Seq(Value)]
         /\ empty \in [Buffer -> 0..Capacity]
         /\ full \in [Buffer -> 0..Capacity]
         /\ stop \in BOOLEAN
         /\ local \in [Thread -> Local]
         /\ pc \in [Thread -> {"idle", "try", "push", "announceItem", "pop",
                               "announcePlace"}]
         /\ Capacity \in Nat
         /\ at(t) \in Buffer
         /\ t \in Producer /\ pc[t] # "idle" => local[t].value \in Value
         /\ pc[t] \in {"push", "announceItem"} => t \in Producer
BY Parts, BufferAssumption DEF TypeOK, Rounds, Local, at

\* The sums by which a step is balanced: nothing moves, a push, a pop.
LEMMA Sums ==
  \A e, f, l \in Int : /\ e + l + 0 + 0 = e + l /\ f + 0 + 0 - l = f - l
                       /\ e + (l + 1) + (-1) + 0 = e + l /\ f + 0 + 1 - (l + 1) = f - l
                       /\ e + (l - 1) + 0 + 1 = e + l /\ f + (-1) + 0 - (l - 1) = f - l
  OBVIOUS

\* A thread that begins, tries again or gives up counts nowhere.
LEMMA NoShift ==
  ASSUME IInv, NEW t, NEW from \in {"idle", "try"}, NEW to \in {"idle", "try"},
         NEW b \in Buffer, UNCHANGED <<buffers, empty, full>>
  PROVE  Balance(t, from, to, b)
<1>1. /\ Shift(t, from, to, b, "push") = 0
      /\ Shift(t, from, to, b, "announcePlace") = 0
      /\ Shift(t, from, to, b, "announceItem") = 0
      /\ Shift(t, from, to, b, "pop") = 0
  BY DEF Shift
<1>2. Len(buffers[b]) \in Int /\ empty[b] \in Int /\ full[b] \in Int
  BY Parts, BufferAssumption DEF TypeOK
<1>3. /\ empty[b] + Len(buffers[b]) + 0 + 0 = empty[b] + Len(buffers[b])
      /\ full[b] + 0 + 0 - Len(buffers[b]) = full[b] - Len(buffers[b])
  BY <1>2, Sums
<1>4. buffers' = buffers /\ empty' = empty /\ full' = full
  OBVIOUS
<1> QED BY <1>1, <1>3, <1>4, Zenon DEF Balance

\* produce reserves: a permit becomes a thread on its way.
LEMMA ReserveKeeps ==
  ASSUME IInv, NEW t \in Thread, Reserve(t)
  PROVE  IInv'
<1>1. Moves(t, "try", "push") /\ RoundOK(t, "push")
  BY Typed DEF Reserve, Step, Moves, RoundOK
<1>2. StoreKept
  BY Typed DEF Reserve, Step, StoreKept
<1>3. ASSUME NEW b \in Buffer
      PROVE  Balance(t, "try", "push", b)
  <2>1. /\ Len(buffers[b]) \in Nat /\ full[b] \in Int /\ empty[b] \in Int
        /\ buffers'[b] = buffers[b] /\ full'[b] = full[b]
        /\ empty'[b] = empty[b] - (IF at(t) = b THEN 1 ELSE 0)
    BY Typed DEF Reserve, Step
  <2>2. /\ Shift(t, "try", "push", b, "push") = (IF at(t) = b THEN 1 ELSE 0)
        /\ Shift(t, "try", "push", b, "announcePlace") = 0
        /\ Shift(t, "try", "push", b, "announceItem") = 0
        /\ Shift(t, "try", "push", b, "pop") = 0
    BY DEF Shift, Reserve, at
  <2> QED BY <2>1, <2>2 DEF Balance
<1> QED BY <1>1, <1>2, <1>3, StepKept

\* consume claims an item: a permit becomes a thread on its way.
LEMMA ClaimKeeps ==
  ASSUME IInv, NEW t \in Thread, Claim(t)
  PROVE  IInv'
<1>1. Moves(t, "try", "pop") /\ RoundOK(t, "pop")
  BY Typed, RoundsTyped DEF Claim, Step, Moves, RoundOK, EndRound
<1>2. StoreKept
  BY Typed, Room DEF Claim, Step, StoreKept
<1>3. ASSUME NEW b \in Buffer
      PROVE  Balance(t, "try", "pop", b)
  <2>1. /\ Len(buffers[b]) \in Nat /\ full[b] \in Int /\ empty[b] \in Int
        /\ buffers'[b] = buffers[b] /\ empty'[b] = empty[b]
        /\ full'[b] = full[b] - (IF at(t) = b THEN 1 ELSE 0)
    BY Typed DEF Claim, Step
  <2>2. /\ Shift(t, "try", "pop", b, "push") = 0
        /\ Shift(t, "try", "pop", b, "announcePlace") = 0
        /\ Shift(t, "try", "pop", b, "announceItem") = 0
        /\ Shift(t, "try", "pop", b, "pop") = (IF at(t) = b THEN 1 ELSE 0)
    BY Typed DEF Shift, Claim, at, Step, EndRound, Local
  <2> QED BY <2>1, <2>2 DEF Balance
<1> QED BY <1>1, <1>2, <1>3, StepKept

\* produce announces its item: a thread on its way becomes a permit.
LEMMA AnnounceItemKeeps ==
  ASSUME IInv, NEW t \in Thread, AnnounceItem(t)
  PROVE  IInv'
<1>1. Moves(t, "announceItem", "idle") /\ RoundOK(t, "idle")
  BY Typed, RoundsTyped DEF AnnounceItem, Step, Moves, RoundOK, EndRound
<1>2. StoreKept
  BY Typed, Room DEF AnnounceItem, Step, StoreKept
<1>3. ASSUME NEW b \in Buffer
      PROVE  Balance(t, "announceItem", "idle", b)
  <2>1. /\ Len(buffers[b]) \in Nat /\ full[b] \in Int /\ empty[b] \in Int
        /\ buffers'[b] = buffers[b] /\ empty'[b] = empty[b]
        /\ full'[b] = full[b] + (IF at(t) = b THEN 1 ELSE 0)
    BY Typed DEF AnnounceItem, Step
  <2>2. /\ Shift(t, "announceItem", "idle", b, "push") = 0
        /\ Shift(t, "announceItem", "idle", b, "announcePlace") = 0
        /\ Shift(t, "announceItem", "idle", b, "announceItem") = (IF at(t) = b THEN -1 ELSE 0)
        /\ Shift(t, "announceItem", "idle", b, "pop") = 0
    BY Typed DEF Shift, AnnounceItem, at, Step, EndRound, Local
  <2> QED BY <2>1, <2>2 DEF Balance
<1> QED BY <1>1, <1>2, <1>3, StepKept

\* consume announces the place it left: a thread on its way becomes a permit.
LEMMA AnnouncePlaceKeeps ==
  ASSUME IInv, NEW t \in Thread, AnnouncePlace(t)
  PROVE  IInv'
<1>1. Moves(t, "announcePlace", "idle") /\ RoundOK(t, "idle")
  BY Typed, RoundsTyped DEF AnnouncePlace, Step, Moves, RoundOK, EndRound
<1>2. StoreKept
  BY Typed, Room DEF AnnouncePlace, Step, StoreKept
<1>3. ASSUME NEW b \in Buffer
      PROVE  Balance(t, "announcePlace", "idle", b)
  <2>1. /\ Len(buffers[b]) \in Nat /\ full[b] \in Int /\ empty[b] \in Int
        /\ buffers'[b] = buffers[b] /\ full'[b] = full[b]
        /\ empty'[b] = empty[b] + (IF at(t) = b THEN 1 ELSE 0)
    BY Typed DEF AnnouncePlace, Step
  <2>2. /\ Shift(t, "announcePlace", "idle", b, "push") = 0
        /\ Shift(t, "announcePlace", "idle", b, "announcePlace") = (IF at(t) = b THEN -1 ELSE 0)
        /\ Shift(t, "announcePlace", "idle", b, "announceItem") = 0
        /\ Shift(t, "announcePlace", "idle", b, "pop") = 0
    BY Typed DEF Shift, AnnouncePlace, at, Step, EndRound, Local
  <2> QED BY <2>1, <2>2 DEF Balance
<1> QED BY <1>1, <1>2, <1>3, StepKept

\* produce pushes: the place that was reserved is used by an item to announce.
LEMMA PushKeeps ==
  ASSUME IInv, NEW t \in Thread, Push(t)
  PROVE  IInv'
<1>1. Moves(t, "push", "announceItem") /\ RoundOK(t, "announceItem")
  BY Typed, RoundsTyped DEF Push, Step, Moves, RoundOK, EndRound
<1>2. StoreKept
  BY Typed, Room DEF Push, Step, StoreKept
<1>3. ASSUME NEW b \in Buffer
      PROVE  Balance(t, "push", "announceItem", b)
  <2>1. /\ Len(buffers[b]) \in Nat /\ full[b] \in Int /\ empty[b] \in Int
        /\ empty'[b] = empty[b] /\ full'[b] = full[b]
        /\ Len(buffers'[b]) = Len(buffers[b]) + (IF at(t) = b THEN 1 ELSE 0)
    <3>1. buffers'[b] = IF at(t) = b THEN Append(buffers[b], local[t].value) ELSE buffers[b]
      BY Typed DEF Push, Step
    <3>2. /\ buffers[b] \in Seq(Value) /\ full[b] \in Int /\ empty[b] \in Int
          /\ empty'[b] = empty[b] /\ full'[b] = full[b]
      BY Typed DEF Push, Step
    <3>3. Len(buffers[b]) \in Nat
      BY <3>2
    <3>4. at(t) = b => Len(Append(buffers[b], local[t].value)) = Len(buffers[b]) + 1
      BY <3>2, Typed DEF Push, Step
    <3>5. Len(buffers'[b]) = Len(buffers[b]) + (IF at(t) = b THEN 1 ELSE 0)
      <4>1. CASE at(t) = b
        BY <4>1, <3>1, <3>4
      <4>2. CASE at(t) # b
        BY <4>2, <3>1, <3>3
      <4> QED BY <4>1, <4>2
    <3> QED BY <3>2, <3>3, <3>5
  <2>2. /\ Shift(t, "push", "announceItem", b, "push") = (IF at(t) = b THEN -1 ELSE 0)
        /\ Shift(t, "push", "announceItem", b, "announcePlace") = 0
        /\ Shift(t, "push", "announceItem", b, "announceItem") = (IF at(t) = b THEN 1 ELSE 0)
        /\ Shift(t, "push", "announceItem", b, "pop") = 0
    BY Typed DEF Shift, Push, at, Step, EndRound, Local
  <2>3. Len(buffers[b]) \in Int /\ full[b] \in Int /\ empty[b] \in Int
    BY <2>1
  <2>4. empty'[b] = empty[b] /\ full'[b] = full[b]
    BY <2>1
  <2>5. CASE at(t) = b
    <3>1. /\ Shift(t, "push", "announceItem", b, "push") = -1
          /\ Shift(t, "push", "announceItem", b, "announcePlace") = 0
          /\ Shift(t, "push", "announceItem", b, "announceItem") = 1
          /\ Shift(t, "push", "announceItem", b, "pop") = 0
          /\ Len(buffers'[b]) = Len(buffers[b]) + 1
      BY <2>1, <2>2, <2>5
    <3>2. /\ empty[b] + (Len(buffers[b]) + 1) + (-1) + 0 = empty[b] + Len(buffers[b])
          /\ full[b] + 0 + 1 - (Len(buffers[b]) + 1) = full[b] - Len(buffers[b])
      BY <2>3, Sums
    <3> QED BY <2>4, <3>1, <3>2, Zenon DEF Balance
  <2>6. CASE at(t) # b
    <3>1. /\ Shift(t, "push", "announceItem", b, "push") = 0
          /\ Shift(t, "push", "announceItem", b, "announcePlace") = 0
          /\ Shift(t, "push", "announceItem", b, "announceItem") = 0
          /\ Shift(t, "push", "announceItem", b, "pop") = 0
          /\ Len(buffers'[b]) = Len(buffers[b])
      BY <2>1, <2>2, <2>6
    <3>2. /\ empty[b] + Len(buffers[b]) + 0 + 0 = empty[b] + Len(buffers[b])
          /\ full[b] + 0 + 0 - Len(buffers[b]) = full[b] - Len(buffers[b])
      BY <2>3, Sums
    <3> QED BY <2>4, <3>1, <3>2, Zenon DEF Balance
  <2> QED BY <2>5, <2>6
<1> QED BY <1>1, <1>2, <1>3, StepKept

\* consume pops: the deque is not empty, and the place is to be announced.
LEMMA PopKeeps ==
  ASSUME IInv, NEW t \in Thread, Pop(t)
  PROVE  IInv'
<1>1. Moves(t, "pop", "announcePlace") /\ RoundOK(t, "announcePlace")
  <2>1. /\ buffers[at(t)] \in Seq(Value) /\ buffers[at(t)] # <<>>
        /\ local[t] \in Local
    BY Typed, Room DEF Pop, Step
  <2>2. Head(buffers[at(t)]) \in Value
    BY <2>1
  <2>3. /\ local' = [local EXCEPT ![t].value = Head(buffers[at(t)])]
        /\ pc[t] = "pop" /\ pc' = [pc EXCEPT ![t] = "announcePlace"]
    BY DEF Pop, Step
  <2>4. [local[t] EXCEPT !.value = Head(buffers[at(t)])] \in Local
    BY <2>1, <2>2 DEF Local
  <2>5. local' \in [Thread -> Local] /\ local'[t].value = Head(buffers[at(t)])
    BY <2>1, <2>3, <2>4, Typed DEF Local
  <2>6. \A u \in Thread \ {t} : local'[u] = local[u]
    BY <2>3, Typed
  <2> QED BY <2>2, <2>3, <2>5, <2>6 DEF Moves, RoundOK
<1>2. StoreKept
  BY Typed, Room DEF Pop, Step, StoreKept
<1>3. ASSUME NEW b \in Buffer
      PROVE  Balance(t, "pop", "announcePlace", b)
  <2>1. /\ Len(buffers[b]) \in Nat /\ full[b] \in Int /\ empty[b] \in Int
        /\ empty'[b] = empty[b] /\ full'[b] = full[b]
        /\ Len(buffers'[b]) = Len(buffers[b]) - (IF at(t) = b THEN 1 ELSE 0)
    <3>1. buffers'[b] = IF at(t) = b THEN Tail(buffers[b]) ELSE buffers[b]
      BY Typed DEF Pop, Step
    <3>2. /\ buffers[b] \in Seq(Value) /\ full[b] \in Int /\ empty[b] \in Int
          /\ empty'[b] = empty[b] /\ full'[b] = full[b]
      BY Typed DEF Pop, Step
    <3>3. Len(buffers[b]) \in Nat
      BY <3>2
    <3>4. at(t) = b => Len(Tail(buffers[b])) = Len(buffers[b]) - 1
      BY <3>2, Room DEF Pop, Step
    <3>5. Len(buffers'[b]) = Len(buffers[b]) - (IF at(t) = b THEN 1 ELSE 0)
      <4>1. CASE at(t) = b
        BY <4>1, <3>1, <3>4
      <4>2. CASE at(t) # b
        BY <4>2, <3>1, <3>3
      <4> QED BY <4>1, <4>2
    <3> QED BY <3>2, <3>3, <3>5
  <2>2. /\ Shift(t, "pop", "announcePlace", b, "push") = 0
        /\ Shift(t, "pop", "announcePlace", b, "announcePlace") = (IF at(t) = b THEN 1 ELSE 0)
        /\ Shift(t, "pop", "announcePlace", b, "announceItem") = 0
        /\ Shift(t, "pop", "announcePlace", b, "pop") = (IF at(t) = b THEN -1 ELSE 0)
    BY Typed DEF Shift, Pop, at, Step, EndRound, Local
  <2>3. Len(buffers[b]) \in Int /\ full[b] \in Int /\ empty[b] \in Int
    BY <2>1
  <2>4. empty'[b] = empty[b] /\ full'[b] = full[b]
    BY <2>1
  <2>5. CASE at(t) = b
    <3>1. /\ Shift(t, "pop", "announcePlace", b, "push") = 0
          /\ Shift(t, "pop", "announcePlace", b, "announcePlace") = 1
          /\ Shift(t, "pop", "announcePlace", b, "announceItem") = 0
          /\ Shift(t, "pop", "announcePlace", b, "pop") = -1
          /\ Len(buffers'[b]) = Len(buffers[b]) - 1
      BY <2>1, <2>2, <2>5
    <3>2. /\ empty[b] + (Len(buffers[b]) - 1) + 0 + 1 = empty[b] + Len(buffers[b])
          /\ full[b] + (-1) + 0 - (Len(buffers[b]) - 1) = full[b] - Len(buffers[b])
      BY <2>3, Sums
    <3> QED BY <2>4, <3>1, <3>2, Zenon DEF Balance
  <2>6. CASE at(t) # b
    <3>1. /\ Shift(t, "pop", "announcePlace", b, "push") = 0
          /\ Shift(t, "pop", "announcePlace", b, "announcePlace") = 0
          /\ Shift(t, "pop", "announcePlace", b, "announceItem") = 0
          /\ Shift(t, "pop", "announcePlace", b, "pop") = 0
          /\ Len(buffers'[b]) = Len(buffers[b])
      BY <2>1, <2>2, <2>6
    <3>2. /\ empty[b] + Len(buffers[b]) + 0 + 0 = empty[b] + Len(buffers[b])
          /\ full[b] + 0 + 0 - Len(buffers[b]) = full[b] - Len(buffers[b])
      BY <2>3, Sums
    <3> QED BY <2>4, <3>1, <3>2, Zenon DEF Balance
  <2> QED BY <2>5, <2>6
<1> QED BY <1>1, <1>2, <1>3, StepKept

\* A round begins: the thread counts nowhere.
LEMMA BeginKeeps ==
  ASSUME IInv, NEW t \in Thread, BeginSome(t)
  PROVE  IInv'
<1>1. PICK b0 \in Buffer, v \in Value : Begin(t, b0, v)
  BY DEF BeginSome
<1> DEFINE round == [at |-> b0, tries |-> 0, value |-> IF t \in Producer THEN v ELSE 0]
<1>2. round \in Local
  BY <1>1, BufferAssumption DEF Local
<1>3. /\ pc[t] = "idle" /\ pc' = [pc EXCEPT ![t] = "try"] /\ stop' = stop
      /\ local' = [local EXCEPT ![t] = round]
      /\ buffers' = buffers /\ empty' = empty /\ full' = full
  BY <1>1 DEF Begin, Step
<1>4. Moves(t, "idle", "try") /\ RoundOK(t, "try")
  BY <1>2, <1>3, Typed DEF Moves, RoundOK
<1>5. StoreKept
  BY <1>3, Typed DEF StoreKept
<1>6. ASSUME NEW b \in Buffer
      PROVE  Balance(t, "idle", "try", b)
  BY <1>3, NoShift
<1> QED BY <1>4, <1>5, <1>6, StepKept

\* An attempt times out: the thread counts nowhere, at its next buffer or idle.
LEMMA TimeOutKeeps ==
  ASSUME IInv, NEW t \in Thread, TimeOut(t)
  PROVE  IInv'
<1>1. /\ stop' = stop /\ buffers' = buffers /\ empty' = empty /\ full' = full
      /\ pc[t] = "try"
  BY DEF TimeOut, Step
<1>2. StoreKept
  BY <1>1, Typed DEF StoreKept
<1>3. CASE local[t].tries + 1 < Buffers
  <2> DEFINE round == [local[t] EXCEPT !.tries = @ + 1, !.at = (@ + 1) % Buffers]
  <2>1. round \in Local
    <3>1. /\ local[t].at \in 0..(Buffers - 1) /\ local[t].tries \in 0..Buffers
          /\ local[t] \in Local /\ Buffers \in Nat \ {0}
      BY Typed, BufferAssumption DEF Local, Buffer
    <3>2. (local[t].at + 1) % Buffers \in 0..(Buffers - 1)
      BY <3>1
    <3>3. local[t].tries + 1 \in 0..Buffers
      BY <3>1, <1>3
    <3> QED BY <3>1, <3>2, <3>3 DEF Local, Buffer
  <2>2. pc' = [pc EXCEPT ![t] = "try"] /\ local' = [local EXCEPT ![t] = round]
    BY <1>3 DEF TimeOut, Step
  <2>3. round.value = local[t].value
    BY Typed DEF Local
  <2>4. Moves(t, "try", "try") /\ RoundOK(t, "try")
    BY <1>1, <2>1, <2>2, <2>3, Typed DEF Moves, RoundOK
  <2>5. ASSUME NEW b \in Buffer
        PROVE  Balance(t, "try", "try", b)
    BY <1>1, NoShift
  <2> QED BY <1>2, <2>4, <2>5, StepKept
<1>4. CASE ~(local[t].tries + 1 < Buffers)
  <2>1. Step(t, "try", "idle") /\ EndRound(t)
    BY <1>4 DEF TimeOut
  <2>2. Moves(t, "try", "idle") /\ RoundOK(t, "idle")
    BY <2>1, Typed, RoundsTyped DEF Step, EndRound, Moves, RoundOK
  <2>3. ASSUME NEW b \in Buffer
        PROVE  Balance(t, "try", "idle", b)
    BY <1>1, NoShift
  <2> QED BY <1>2, <2>2, <2>3, StepKept
<1> QED BY <1>3, <1>4

\* What leaves every thread where it is keeps the invariant.
LEMMA StandsStill ==
  ASSUME IInv, UNCHANGED <<buffers, empty, full, pc, local>>, stop' \in BOOLEAN
  PROVE  IInv'
<1>1. \A label, b : At(label, b)' = At(label, b)
  BY DEF At, at
<1>2. TypeOK' /\ Rounds'
  BY Parts DEF TypeOK, Rounds
<1>3. \A b \in Buffer : Places(b)' /\ Items(b)'
  BY <1>1, Parts DEF Places, Items
<1> QED BY <1>2, <1>3
        DEF IInv, BuffersConsistent, PlacesAccountedFor, ItemsAccountedFor, Places, Items

LEMMA NextKeeps == IInv /\ [Next]_vars => IInv'
<1> SUFFICES ASSUME IInv, [Next]_vars PROVE IInv'
  OBVIOUS
<1>1. CASE Stop
  BY <1>1, StandsStill DEF Stop
<1>2. ASSUME NEW t \in Thread, BeginSome(t)
      PROVE  IInv'
  BY <1>2, BeginKeeps
<1>3. ASSUME NEW t \in Thread, InCall(t)
      PROVE  IInv'
  BY <1>3, TimeOutKeeps, ReserveKeeps, PushKeeps, AnnounceItemKeeps, ClaimKeeps,
     PopKeeps, AnnouncePlaceKeeps DEF InCall
<1>4. CASE UNCHANGED vars
  <2>1. stop' \in BOOLEAN
    BY <1>4, Parts DEF vars, TypeOK
  <2> QED BY <1>4, <2>1, StandsStill DEF vars
<1> QED BY <1>1, <1>2, <1>3, <1>4 DEF Next

\* Places, items and permits agree in every state of every run, for any producers and
\* consumers, any number of buffers and any capacity (produce and consume).
THEOREM BuffersAgree == Spec => []BuffersConsistent
<1>1. IInv => BuffersConsistent
  BY DEF IInv
<1> QED BY InitIInv, NextKeeps, <1>1, PTL DEF Spec

----------------------------------------------------------------------------
\* A producer that has reserved a place finds the deque below its capacity, although
\* the push is a step of its own.
LEMMA PlaceReserved ==
  ASSUME IInv, NEW t \in Thread, pc[t] = "push"
  PROVE  Len(buffers[at(t)]) < Capacity
<1> DEFINE b == at(t)
           e == empty[b]
           l == Len(buffers[b])
           p == Cardinality(At("push", b))
           q == Cardinality(At("announcePlace", b))
<1>1. b \in Buffer /\ e \in Nat /\ l \in Nat /\ Capacity \in Nat
  BY Typed
<1>2. \A label : Cardinality(At(label, b)) \in Nat
  <2> TAKE label
  <2>1. At(label, b) \subseteq Thread
    BY DEF At
  <2> QED BY <2>1, BufferAssumption, FS_Subset, FS_CardinalityType
<1>3. p >= 1
  BY CountedHere DEF Here
<1>4. p \in Nat /\ q \in Nat /\ e + p + l + q = Capacity
  BY <1>1, <1>2, Parts DEF Places
<1> HIDE DEF e, l, p, q
<1>5. l < Capacity
  BY <1>1, <1>3, <1>4
<1> QED BY <1>5 DEF l

\* Every step is a step of the channels or leaves the deques alone: a push puts a value
\* into a deque with room, a pop gets the first item of one that is not empty.
LEMMA ChannelStep == IInv /\ [Next]_vars => [Channels!Next]_buffers
<1> SUFFICES ASSUME IInv, [Next]_vars PROVE Channels!Next \/ UNCHANGED buffers
  OBVIOUS
<1>1. CASE Stop \/ UNCHANGED vars
  BY <1>1 DEF Stop, vars
<1>2. ASSUME NEW t \in Thread, BeginSome(t)
      PROVE  UNCHANGED buffers
  BY <1>2 DEF BeginSome, Begin
<1>3. ASSUME NEW t \in Thread, Push(t)
      PROVE  Channels!Next
  <2>1. at(t) \in Buffer /\ local[t].value \in Value
    BY <1>3, Typed DEF Push, Step
  <2>2. Len(buffers[at(t)]) < Capacity
    BY <1>3, PlaceReserved DEF Push, Step
  <2>3. Channels!Put(at(t), local[t].value)
    BY <1>3, <2>2 DEF Push, Channels!Put
  <2> QED BY <2>1, <2>3 DEF Channels!Next
<1>4. ASSUME NEW t \in Thread, Pop(t)
      PROVE  Channels!Next
  <2>1. at(t) \in Buffer /\ buffers[at(t)] # <<>>
    BY <1>4, Room DEF Pop, Step
  <2>2. Channels!Get(at(t))
    BY <1>4, <2>1 DEF Pop, Channels!Get
  <2> QED BY <2>1, <2>2 DEF Channels!Next
<1>5. ASSUME NEW t \in Thread,
             TimeOut(t) \/ Reserve(t) \/ AnnounceItem(t) \/ Claim(t) \/ AnnouncePlace(t)
      PROVE  UNCHANGED buffers
  BY <1>5 DEF TimeOut, Reserve, AnnounceItem, Claim, AnnouncePlace
<1> QED BY <1>1, <1>2, <1>3, <1>4, <1>5 DEF Next, InCall

\* Each deque is a bounded first-in first-out channel, for any producers and consumers
\* that reach it in different steps of produce and consume.
THEOREM BuffersImplementChannels == Spec => BuffersAreChannels
<1>1. Init => Channels!Init
  BY DEF Init, Channels!Init
<1> QED BY <1>1, InitIInv, NextKeeps, ChannelStep, PTL
        DEF Spec, BuffersAreChannels, Channels!Spec
=============================================================================
