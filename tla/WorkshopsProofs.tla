--------------------------- MODULE WorkshopsProofs ---------------------------
(***************************************************************************)
(* Proofs about the laboratory programs, for any number of processes, files,  *)
(* workers, machines, blanks, employees, turnstiles and orders.              *)
(***************************************************************************)
EXTENDS Workshops, Sequences, Counting, SequenceTheorems

\* The size of a set is the same in each of the programs.
LEMMA SameSizes == \A S : /\ Barrier!Cardinality(S) = Cardinality(S)
                          /\ Archive!Cardinality(S) = Cardinality(S)
                          /\ Shop!Cardinality(S) = Cardinality(S)
                          /\ Store!Cardinality(S) = Cardinality(S)
                          /\ Gate!Cardinality(S) = Cardinality(S)
                          /\ Line!Cardinality(S) = Cardinality(S)
  BY Zenon DEF Barrier!Cardinality, Archive!Cardinality, Shop!Cardinality,
               Store!Cardinality, Gate!Cardinality, Line!Cardinality, Cardinality

\* The actors of every program are numbered, and a set of them is finite.
LEMMA SomeOf ==
  ASSUME NEW n \in Nat, NEW S \in SUBSET (1..n)
  PROVE  IsFiniteSet(S) /\ Cardinality(S) \in Nat
<1>1. IsFiniteSet(1..n)
  BY FS_Interval
<1>2. IsFiniteSet(S)
  BY <1>1, FS_Subset
<1> QED BY <1>2, FS_CardinalityType

LEMMA UpTo == ASSUME NEW n \in Nat PROVE Cardinality(1..n) = n
  BY FS_Interval

\* How many actors are at certain places, A and later B, when only w has moved.
LEMMA OneMoves ==
  ASSUME NEW n \in Nat, NEW A \in SUBSET (1..n), NEW B \in SUBSET (1..n), NEW w \in 1..n,
         \A v \in 1..n : v # w => (v \in A <=> v \in B)
  PROVE  /\ Cardinality(A) \in Nat /\ Cardinality(B) \in Nat
         /\ Cardinality(B) = Cardinality(A) + (IF w \notin A /\ w \in B THEN 1
                                              ELSE IF w \in A /\ w \notin B THEN -1 ELSE 0)
<1>1. IsFiniteSet(A) /\ Cardinality(A) \in Nat /\ Cardinality(B) \in Nat
  BY SomeOf
<1>2. A \ {w} = B \ {w}
  OBVIOUS
<1>3. Cardinality(B) = Cardinality(A) + Change(A, B, w)
  BY <1>1, <1>2, OneElementChanges
<1> QED BY <1>1, <1>3 DEF Change

(***************************************************************************)
(* MachineShop.  Both properties are inductive together with the types.      *)
(***************************************************************************)
ShopTyped == /\ free_machines \in Nat
             /\ shopPlace \in [1..Workers -> {"try", "asleep", "working", "notify", "ended"}]

ShopInv == ShopTyped /\ Shop!MachinesConserved /\ Shop!NobodySleptOver

LEMMA ShopConstants == Machines \in Nat /\ Workers \in Nat /\ Shop!ShopWorker = 1..Workers
  BY WorkshopsAssumption DEF Shop!ShopAssumption, Shop!ShopWorker

AtMachines == {w \in 1..Workers : shopPlace[w] \in {"working"}}
Working == Cardinality(AtMachines)

LEMMA ShopByNumber == Shop!MachinesConserved <=> free_machines + Working = Machines
  BY SameSizes, ShopConstants DEF Shop!MachinesConserved, Shop!At, Working, AtMachines

LEMMA ShopInit == Shop!Init => ShopInv
<1> SUFFICES ASSUME Shop!Init PROVE ShopInv
  OBVIOUS
<1>1. /\ free_machines = Machines /\ shopPlace = [w \in 1..Workers |-> "try"]
  BY ShopConstants DEF Shop!Init
<1>2. ShopTyped
  BY <1>1, ShopConstants DEF ShopTyped
<1>3. AtMachines = {}
  BY <1>1 DEF AtMachines
<1>4. Working = 0
  BY <1>3, FS_EmptySet DEF Working
<1>5. Shop!MachinesConserved
  BY <1>1, <1>4, ShopConstants, ShopByNumber
<1>6. Shop!NobodySleptOver
  BY <1>1, ShopConstants DEF Shop!NobodySleptOver, Shop!At
<1> QED BY <1>2, <1>5, <1>6 DEF ShopInv

\* A worker that moves alone.
LEMMA ShopStepKeeps ==
  ASSUME ShopInv, NEW w \in Shop!ShopWorker,
         Shop!Sleep(w) \/ Shop!Take(w) \/ Shop!Free(w) \/ Shop!SpuriousWake(w)
  PROVE  ShopInv'
<1> USE ShopConstants
<1>1. ShopTyped'
  BY DEF ShopInv, ShopTyped, Shop!Sleep, Shop!Take, Shop!Free, Shop!SpuriousWake, Shop!Goto
<1>2. /\ Working \in Nat /\ Working' \in Nat
      /\ Working' = Working + (IF w \notin AtMachines /\ w \in AtMachines' THEN 1
                               ELSE IF w \in AtMachines /\ w \notin AtMachines' THEN -1 ELSE 0)
  <2>1. \A v \in 1..Workers : v # w => (v \in AtMachines <=> v \in AtMachines')
    BY DEF ShopInv, ShopTyped, Shop!Sleep, Shop!Take, Shop!Free, Shop!SpuriousWake, Shop!Goto,
           AtMachines
  <2>2. AtMachines \in SUBSET (1..Workers) /\ AtMachines' \in SUBSET (1..Workers)
    BY DEF AtMachines
  <2> QED BY <2>1, <2>2, OneMoves DEF Working
<1>3. free_machines' + Working' = Machines
  <2>1. free_machines + Working = Machines /\ free_machines \in Nat
    BY ShopByNumber DEF ShopInv, ShopTyped
  <2>2. CASE Shop!Sleep(w) \/ Shop!SpuriousWake(w)
    BY <1>2, <2>1, <2>2 DEF Shop!Sleep, Shop!SpuriousWake, Shop!Goto, ShopInv, ShopTyped, AtMachines
  <2>3. CASE Shop!Take(w)
    BY <1>2, <2>1, <2>3 DEF Shop!Take, Shop!Goto, ShopInv, ShopTyped, AtMachines
  <2>4. CASE Shop!Free(w)
    BY <1>2, <2>1, <2>4 DEF Shop!Free, Shop!Goto, ShopInv, ShopTyped, AtMachines
  <2> QED BY <2>2, <2>3, <2>4
<1>4. Shop!MachinesConserved'
  BY <1>3, SameSizes DEF Shop!MachinesConserved, Shop!At, Working, AtMachines
<1>5. Shop!NobodySleptOver'
  <2> USE DEF ShopInv, ShopTyped, Shop!NobodySleptOver, Shop!At, Shop!Goto
  <2>1. CASE Shop!Sleep(w)
    BY <2>1 DEF Shop!Sleep
  <2>2. CASE Shop!Take(w)
    BY <2>2 DEF Shop!Take
  <2>3. CASE Shop!Free(w)
    BY <2>3 DEF Shop!Free
  <2>4. CASE Shop!SpuriousWake(w)
    BY <2>4 DEF Shop!SpuriousWake
  <2> QED BY <2>1, <2>2, <2>3, <2>4
<1> QED BY <1>1, <1>4, <1>5 DEF ShopInv

\* A notification wakes all that sleep; nobody's work begins or ends.
LEMMA ShopNotifyKeeps ==
  ASSUME ShopInv, NEW w \in Shop!ShopWorker, Shop!NotifyAll(w)
  PROVE  ShopInv'
<1> USE ShopConstants
<1>1. /\ shopPlace[w] = "notify" /\ free_machines' = free_machines
      /\ shopPlace' = [v \in 1..Workers |->
                         IF v = w THEN "ended"
                         ELSE IF shopPlace[v] = "asleep" THEN "try" ELSE shopPlace[v]]
  BY DEF Shop!NotifyAll
<1>2. ShopTyped'
  BY <1>1 DEF ShopInv, ShopTyped
<1>3. {v \in 1..Workers : shopPlace'[v] \in {"working"}}
        = {v \in 1..Workers : shopPlace[v] \in {"working"}}
  BY <1>1 DEF ShopInv, ShopTyped
<1>4. Shop!MachinesConserved'
  BY <1>1, <1>3, SameSizes DEF ShopInv, Shop!MachinesConserved, Shop!At
<1>5. Shop!NobodySleptOver'
  BY <1>1, <1>2 DEF ShopTyped, Shop!NobodySleptOver, Shop!At
<1> QED BY <1>2, <1>4, <1>5 DEF ShopInv

LEMMA ShopStands == ShopInv /\ UNCHANGED <<free_machines, shopPlace>> => ShopInv'
  BY SameSizes DEF ShopInv, ShopTyped, Shop!MachinesConserved, Shop!NobodySleptOver, Shop!At

LEMMA ShopNext == ShopInv /\ Shop!Next => ShopInv'
<1> SUFFICES ASSUME ShopInv, Shop!Next PROVE ShopInv'
  OBVIOUS
<1>1. CASE Shop!Join
  BY <1>1, ShopStands DEF Shop!Join
<1>2. ASSUME NEW w \in Shop!ShopWorker, Shop!Worker(w) \/ Shop!SpuriousWake(w) PROVE ShopInv'
  BY <1>2, ShopStepKeeps, ShopNotifyKeeps DEF Shop!Worker
<1> QED BY <1>1, <1>2 DEF Shop!Next

LEMMA ShopInvariant == Spec => [](program = "Shop" => ShopInv)
<1>1. Init => (program = "Shop" => ShopInv)
  BY ShopInit DEF Init
<1>2. (program = "Shop" => ShopInv) /\ [Next]_vars => (program = "Shop" => ShopInv)'
  BY ShopNext, ShopStands DEF Next, vars, shopVars
<1> QED BY <1>1, <1>2, PTL DEF Spec

(***************************************************************************)
(* BlankStore.  Besides the property itself: whoever has drawn too high a     *)
(* number knows that all numbers are drawn, and main joins workers that have  *)
(* ended.  One worker at least is needed for the blanks to be processed.     *)
(***************************************************************************)
StoreTyped ==
  /\ blank_sem \in Nat /\ machine_sem \in Nat /\ numbered \in Nat
  /\ step \in [1..BlankWorkers -> {"blank_wait", "draw", "return_permit", "machine_wait",
                                   "working", "machine_post", "blank_post", "ended"}]
  /\ current \in [1..BlankWorkers -> Nat]
  /\ allJoined \in BOOLEAN

AllDrawn == /\ \A w \in 1..BlankWorkers :
                 step[w] \in {"return_permit", "ended"} => numbered >= Blanks
            /\ allJoined => \A w \in 1..BlankWorkers : step[w] = "ended"

WithMachine == Store!In({"working", "machine_post"})

StoreInv == StoreTyped /\ AllDrawn /\ Store!StorePermits /\ Store!EveryBlankOnce

LEMMA StoreConstants == /\ Blanks \in Nat /\ BlankMachines \in Nat
                        /\ BlankWorkers \in Nat /\ BlankWorkers > 0
                        /\ Store!StoreWorker = 1..BlankWorkers
  BY WorkshopsAssumption DEF Store!StoreAssumption, Store!StoreWorker

LEMMA StoreByNumber ==
  Store!StorePermits <=> /\ blank_sem + Cardinality(Store!HoldsPermit) = Blanks
                         /\ machine_sem + Cardinality(WithMachine) = BlankMachines
  BY SameSizes DEF Store!StorePermits, WithMachine

\* When all have ended, no blank is under way and all numbers are drawn.
LEMMA StoreImplies == StoreInv => Store!StoreConsistent
<1> SUFFICES ASSUME StoreInv, allJoined PROVE finished = 0..(Blanks - 1)
  BY DEF StoreInv, Store!StoreConsistent
<1>1. \A w \in 1..BlankWorkers : step[w] = "ended"
  BY DEF StoreInv, AllDrawn
<1>2. Store!HoldsBlank = {}
  BY <1>1, StoreConstants DEF Store!HoldsBlank, Store!In
<1>3. numbered \in Nat /\ numbered >= Blanks
  BY <1>1, StoreConstants DEF StoreInv, AllDrawn, StoreTyped
<1>4. finished = {b \in 0..(Blanks - 1) : b < numbered}
  BY <1>2 DEF StoreInv, Store!EveryBlankOnce
<1> QED BY <1>3, <1>4, StoreConstants

LEMMA StoreInit == Store!Init => StoreInv
<1> SUFFICES ASSUME Store!Init PROVE StoreInv
  OBVIOUS
<1>1. /\ blank_sem = Blanks /\ machine_sem = BlankMachines /\ numbered = 0 /\ finished = {}
      /\ step = [w \in 1..BlankWorkers |-> "blank_wait"]
      /\ current = [w \in 1..BlankWorkers |-> 0] /\ allJoined = FALSE
  BY StoreConstants DEF Store!Init
<1>2. StoreTyped /\ AllDrawn
  BY <1>1, StoreConstants DEF StoreTyped, AllDrawn
<1>3. Store!HoldsPermit = {} /\ WithMachine = {} /\ Store!HoldsBlank = {}
  BY <1>1, StoreConstants DEF Store!HoldsPermit, WithMachine, Store!HoldsBlank, Store!In
<1>4. Store!StorePermits
  BY <1>1, <1>3, FS_EmptySet, StoreConstants, StoreByNumber
<1>5. Store!EveryBlankOnce
  BY <1>1, <1>3, StoreConstants DEF Store!EveryBlankOnce
<1> QED BY <1>2, <1>4, <1>5 DEF StoreInv

\* What is counted of the workers, when w goes from one place to another.
LEMMA StoreMoves ==
  ASSUME StoreTyped, NEW w \in 1..BlankWorkers, NEW l, Store!GoOn(w, l)
  PROVE  /\ Cardinality(Store!HoldsPermit) \in Nat /\ Cardinality(WithMachine) \in Nat
         /\ Cardinality(Store!HoldsPermit') = Cardinality(Store!HoldsPermit)
              + (IF w \notin Store!HoldsPermit /\ w \in Store!HoldsPermit' THEN 1
                 ELSE IF w \in Store!HoldsPermit /\ w \notin Store!HoldsPermit' THEN -1 ELSE 0)
         /\ Cardinality(WithMachine') = Cardinality(WithMachine)
              + (IF w \notin WithMachine /\ w \in WithMachine' THEN 1
                 ELSE IF w \in WithMachine /\ w \notin WithMachine' THEN -1 ELSE 0)
<1> USE StoreConstants DEF Store!In, Store!GoOn, StoreTyped
<1>1. \A v \in 1..BlankWorkers : v # w => step[v] = step'[v]
  OBVIOUS
<1>2. /\ Store!HoldsPermit \in SUBSET (1..BlankWorkers)
      /\ Store!HoldsPermit' \in SUBSET (1..BlankWorkers)
      /\ \A v \in 1..BlankWorkers :
           v # w => (v \in Store!HoldsPermit <=> v \in Store!HoldsPermit')
  BY <1>1 DEF Store!HoldsPermit
<1>3. /\ WithMachine \in SUBSET (1..BlankWorkers) /\ WithMachine' \in SUBSET (1..BlankWorkers)
      /\ \A v \in 1..BlankWorkers : v # w => (v \in WithMachine <=> v \in WithMachine')
  BY <1>1 DEF WithMachine
<1>4. BlankWorkers \in Nat
  OBVIOUS
<1> HIDE StoreConstants DEF Store!In, Store!GoOn, StoreTyped
<1> QED BY <1>2, <1>3, <1>4, OneMoves

\* Types, permits and drawn numbers, whatever a worker does.
LEMMA StoreCountsKept ==
  ASSUME StoreInv, NEW w \in 1..BlankWorkers, Store!BlankStep(w)
  PROVE  StoreTyped' /\ AllDrawn' /\ Store!StorePermits'
<1> USE StoreConstants
<1>1. PICK l \in {"blank_wait", "draw", "return_permit", "machine_wait",
                  "working", "machine_post", "blank_post", "ended"} : Store!GoOn(w, l)
  <2>1. CASE Store!Draw(w) /\ numbered >= Blanks
    <3>1. Store!GoOn(w, "return_permit")
      BY <2>1 DEF Store!Draw
    <3> QED BY <3>1
  <2>2. CASE Store!Draw(w) /\ ~(numbered >= Blanks)
    <3>1. Store!GoOn(w, "machine_wait")
      BY <2>2 DEF Store!Draw
    <3> QED BY <3>1
  <2>3. CASE ~Store!Draw(w)
    BY <2>3 DEF Store!BlankStep, Store!TakePermit, Store!ReturnPermit, Store!TakeMachine,
                Store!Process, Store!PostMachine, Store!PostBlank
  <2> QED BY <2>1, <2>2, <2>3
<1>2. step' = [step EXCEPT ![w] = l] /\ StoreTyped /\ AllDrawn
  BY <1>1 DEF Store!GoOn, StoreInv
<1>3. step' \in [1..BlankWorkers -> {"blank_wait", "draw", "return_permit", "machine_wait",
                                     "working", "machine_post", "blank_post", "ended"}]
  BY <1>2 DEF StoreTyped
<1>4. StoreTyped'
  <2>1. /\ blank_sem' \in Nat /\ machine_sem' \in Nat /\ allJoined' \in BOOLEAN
        /\ numbered' \in Nat /\ current' \in [1..BlankWorkers -> Nat]
    <3>1. CASE Store!TakePermit(w) \/ Store!TakeMachine(w)
      BY <1>2, <3>1 DEF StoreTyped, Store!TakePermit, Store!TakeMachine
    <3>2. CASE Store!Draw(w)
      BY <1>2, <3>2 DEF StoreTyped, Store!Draw
    <3>3. CASE Store!ReturnPermit(w) \/ Store!PostMachine(w) \/ Store!PostBlank(w)
      BY <1>2, <3>3 DEF StoreTyped, Store!ReturnPermit, Store!PostMachine, Store!PostBlank
    <3>4. CASE Store!Process(w)
      BY <1>2, <3>4 DEF StoreTyped, Store!Process
    <3> QED BY <3>1, <3>2, <3>3, <3>4 DEF Store!BlankStep
  <2> QED BY <1>3, <2>1 DEF StoreTyped
<1>5. AllDrawn'
  BY <1>2 DEF StoreTyped, AllDrawn, Store!BlankStep, Store!TakePermit, Store!Draw, Store!GoOn,
     Store!ReturnPermit, Store!TakeMachine, Store!Process, Store!PostMachine, Store!PostBlank
<1>6. /\ Cardinality(Store!HoldsPermit) \in Nat /\ Cardinality(WithMachine) \in Nat
      /\ Cardinality(Store!HoldsPermit') = Cardinality(Store!HoldsPermit)
           + (IF w \notin Store!HoldsPermit /\ w \in Store!HoldsPermit' THEN 1
              ELSE IF w \in Store!HoldsPermit /\ w \notin Store!HoldsPermit' THEN -1 ELSE 0)
      /\ Cardinality(WithMachine') = Cardinality(WithMachine)
           + (IF w \notin WithMachine /\ w \in WithMachine' THEN 1
              ELSE IF w \in WithMachine /\ w \notin WithMachine' THEN -1 ELSE 0)
  BY <1>1, <1>2, StoreMoves
<1>7. /\ blank_sem \in Nat /\ machine_sem \in Nat
      /\ blank_sem + Cardinality(Store!HoldsPermit) = Blanks
      /\ machine_sem + Cardinality(WithMachine) = BlankMachines
  BY <1>2, StoreByNumber DEF StoreInv, StoreTyped
<1>8. /\ blank_sem' + Cardinality(Store!HoldsPermit') = Blanks
      /\ machine_sem' + Cardinality(WithMachine') = BlankMachines
  <2> USE DEF Store!HoldsPermit, WithMachine, Store!In, Store!GoOn, StoreTyped
  <2>1. CASE Store!TakePermit(w)
    BY <1>2, <1>6, <1>7, <2>1 DEF Store!TakePermit
  <2>2. CASE Store!Draw(w)
    BY <1>2, <1>6, <1>7, <2>2 DEF Store!Draw
  <2>3. CASE Store!ReturnPermit(w)
    BY <1>2, <1>6, <1>7, <2>3 DEF Store!ReturnPermit
  <2>4. CASE Store!TakeMachine(w)
    BY <1>2, <1>6, <1>7, <2>4 DEF Store!TakeMachine
  <2>5. CASE Store!Process(w)
    BY <1>2, <1>6, <1>7, <2>5 DEF Store!Process
  <2>6. CASE Store!PostMachine(w)
    BY <1>2, <1>6, <1>7, <2>6 DEF Store!PostMachine
  <2>7. CASE Store!PostBlank(w)
    BY <1>2, <1>6, <1>7, <2>7 DEF Store!PostBlank
  <2> QED BY <2>1, <2>2, <2>3, <2>4, <2>5, <2>6, <2>7 DEF Store!BlankStep
<1>9. Store!StorePermits'
  BY <1>8, SameSizes DEF Store!StorePermits, WithMachine
<1> QED BY <1>4, <1>5, <1>9

\* A blank is drawn once, and done by whom it was drawn.
LEMMA StoreBlanksKept ==
  ASSUME StoreInv, NEW w \in 1..BlankWorkers, Store!BlankStep(w)
  PROVE  Store!EveryBlankOnce'
<1> USE StoreConstants DEF Store!HoldsBlank, Store!In, Store!GoOn
<1>1. StoreTyped /\ Store!EveryBlankOnce
  BY DEF StoreInv
<1>2. CASE Store!TakePermit(w) \/ Store!ReturnPermit(w) \/ Store!TakeMachine(w)
             \/ Store!PostMachine(w) \/ Store!PostBlank(w)
  <2>1. /\ Store!HoldsBlank' = Store!HoldsBlank
        /\ UNCHANGED <<numbered, current, finished>>
    BY <1>1, <1>2 DEF StoreTyped, Store!TakePermit, Store!ReturnPermit, Store!TakeMachine,
                      Store!PostMachine, Store!PostBlank
  <2> HIDE DEF Store!HoldsBlank
  <2> QED BY <1>1, <2>1 DEF Store!EveryBlankOnce
<1>3. CASE Store!Draw(w) /\ numbered >= Blanks
  <2>1. /\ w \notin Store!HoldsBlank /\ Store!HoldsBlank' = Store!HoldsBlank
        /\ finished' = finished /\ numbered' = numbered + 1 /\ numbered \in Nat
        /\ \A v \in Store!HoldsBlank : current'[v] = current[v]
    BY <1>1, <1>3 DEF StoreTyped, Store!Draw
  <2>2. {b \in 0..(Blanks - 1) : b < numbered'} = {b \in 0..(Blanks - 1) : b < numbered}
    BY <1>3, <2>1
  <2> HIDE DEF Store!HoldsBlank
  <2>3. {current'[v] : v \in Store!HoldsBlank'} = {current[v] : v \in Store!HoldsBlank}
    BY <2>1
  <2> QED BY <1>1, <2>1, <2>2, <2>3 DEF Store!EveryBlankOnce
<1>4. CASE Store!Draw(w) /\ numbered < Blanks
  <2>1. /\ w \notin Store!HoldsBlank /\ Store!HoldsBlank' = Store!HoldsBlank \cup {w}
        /\ finished' = finished /\ numbered' = numbered + 1 /\ numbered \in Nat
        /\ \A v \in Store!HoldsBlank : current'[v] = current[v]
        /\ current'[w] = numbered
    BY <1>1, <1>4 DEF StoreTyped, Store!Draw
  <2>2. {b \in 0..(Blanks - 1) : b < numbered'}
          = {b \in 0..(Blanks - 1) : b < numbered} \cup {numbered}
    BY <1>4, <2>1
  <2> HIDE DEF Store!HoldsBlank
  <2>3. {current'[v] : v \in Store!HoldsBlank'}
          = {current[v] : v \in Store!HoldsBlank} \cup {numbered}
    BY <2>1
  <2>4. /\ numbered \notin finished
        /\ \A v \in Store!HoldsBlank : current[v] # numbered
    BY <1>1, <2>1 DEF Store!EveryBlankOnce
  <2> QED BY <1>1, <2>1, <2>2, <2>3, <2>4 DEF Store!EveryBlankOnce
<1>5. CASE Store!Process(w)
  <2>1. /\ w \in Store!HoldsBlank /\ Store!HoldsBlank' = Store!HoldsBlank \ {w}
        /\ finished' = finished \cup {current[w]}
        /\ UNCHANGED <<numbered, current>>
    BY <1>1, <1>5 DEF StoreTyped, Store!Process
  <2> HIDE DEF Store!HoldsBlank
  <2>2. finished' \cup {current'[v] : v \in Store!HoldsBlank'}
          = finished \cup {current[v] : v \in Store!HoldsBlank}
    BY <2>1
  <2> QED BY <1>1, <2>1, <2>2 DEF Store!EveryBlankOnce
<1> QED BY <1>1, <1>2, <1>3, <1>4, <1>5 DEF Store!BlankStep, StoreTyped

LEMMA StoreStands == StoreInv /\ UNCHANGED storeVars => StoreInv'
  BY SameSizes DEF StoreInv, StoreTyped, AllDrawn, Store!StorePermits, Store!EveryBlankOnce,
                   Store!HoldsPermit, Store!HoldsBlank, Store!In, storeVars

LEMMA StoreNext == StoreInv /\ Store!Next => StoreInv'
<1> SUFFICES ASSUME StoreInv, Store!Next PROVE StoreInv'
  OBVIOUS
<1>1. CASE Store!JoinAll
  <2>1. StoreTyped' /\ AllDrawn'
    BY <1>1, StoreConstants DEF StoreInv, StoreTyped, AllDrawn, Store!JoinAll
  <2>2. Store!StorePermits' /\ Store!EveryBlankOnce'
    BY <1>1, SameSizes DEF Store!JoinAll, StoreInv, Store!StorePermits, Store!EveryBlankOnce,
                           Store!HoldsPermit, Store!HoldsBlank, Store!In
  <2> QED BY <2>1, <2>2 DEF StoreInv
<1>2. ASSUME NEW w \in Store!StoreWorker, Store!BlankStep(w) PROVE StoreInv'
  BY <1>2, StoreConstants, StoreCountsKept, StoreBlanksKept DEF StoreInv
<1> QED BY <1>1, <1>2 DEF Store!Next

LEMMA StoreInvariant == Spec => [](program = "Store" => StoreInv)
<1>1. Init => (program = "Store" => StoreInv)
  BY StoreInit DEF Init
<1>2. (program = "Store" => StoreInv) /\ [Next]_vars => (program = "Store" => StoreInv)'
  BY StoreNext, StoreStands DEF Next, vars
<1> QED BY <1>1, <1>2, PTL DEF Spec

(***************************************************************************)
(* Turnstiles.  Both properties are inductive together with the types and     *)
(* with the fact that nothing is lost before the breakdown.                  *)
(***************************************************************************)
GatePlaces == {"arriving", "arrived", "waiting", "asleep", "entered", "passing", "released",
               "inside"}

GateTyped == /\ slots \in Nat /\ extra \in Nat /\ lost \in Nat
             /\ gate \in [1..Employees -> GatePlaces]
             /\ breakdown = "pending" => lost = 0

WithSlot == Gate!At({"entered", "passing"})
Queued == Gate!At({"arrived", "waiting", "asleep"})
SlotsCounted == slots + Cardinality(WithSlot) + lost = Initial + extra

GateInv == /\ GateTyped /\ SlotsCounted /\ inLine = Queued
           /\ Gate!NextNotSleptOver

LEMMA GateConstants == /\ Employees \in Nat /\ Initial \in Nat /\ Gate!Employee = 1..Employees
  BY WorkshopsAssumption DEF Gate!GateAssumption, Gate!Employee

LEMMA GateImplies == GateInv => Gate!SlotsConserved /\ Gate!NextNotSleptOver
  BY SameSizes DEF GateInv, SlotsCounted, WithSlot, Queued, Gate!SlotsConserved

\* Who notifies, and where it goes on.
LEMMA Notifiers ==
  /\ DOMAIN Gate!AfterNotify = {"arrived", "entered", "released"}
  /\ Gate!AfterNotify["arrived"] = "waiting"
  /\ Gate!AfterNotify["entered"] = "passing"
  /\ Gate!AfterNotify["released"] = "inside"
  BY DEF Gate!AfterNotify

LEMMA GateInit == Gate!Init => GateInv
<1> SUFFICES ASSUME Gate!Init PROVE GateInv
  OBVIOUS
<1>1. /\ slots = Initial /\ extra = 0 /\ inLine = {} /\ lost = 0
      /\ gate = [e \in 1..Employees |-> "arriving"]
  BY GateConstants DEF Gate!Init
<1>2. GateTyped
  BY <1>1, GateConstants DEF GateTyped, GatePlaces
<1>3. WithSlot = {} /\ Queued = {} /\ Gate!At({"asleep"}) = {}
  BY <1>1, GateConstants DEF WithSlot, Queued, Gate!At
<1>4. SlotsCounted
  BY <1>1, <1>3, FS_EmptySet, GateConstants DEF SlotsCounted
<1> QED BY <1>1, <1>2, <1>3, <1>4 DEF GateInv, Gate!NextNotSleptOver

\* What is counted of the employees, when e goes from one place to another.
LEMMA GateMoves ==
  ASSUME GateTyped, NEW e \in 1..Employees, NEW l, Gate!Goto(e, l)
  PROVE  /\ Cardinality(WithSlot) \in Nat
         /\ Cardinality(WithSlot') = Cardinality(WithSlot)
              + (IF e \notin WithSlot /\ e \in WithSlot' THEN 1
                 ELSE IF e \in WithSlot /\ e \notin WithSlot' THEN -1 ELSE 0)
<1>1. \A d \in 1..Employees : d # e => gate[d] = gate'[d]
  BY DEF Gate!Goto, GateTyped
<1>2. /\ WithSlot \in SUBSET (1..Employees) /\ WithSlot' \in SUBSET (1..Employees)
      /\ \A d \in 1..Employees : d # e => (d \in WithSlot <=> d \in WithSlot')
  BY <1>1, GateConstants DEF WithSlot, Gate!At
<1> QED BY <1>2, GateConstants, OneMoves

\* An employee that moves alone.
LEMMA GateStepKeeps ==
  ASSUME GateInv, NEW e \in 1..Employees,
         \/ Gate!Arrive(e) \/ Gate!Sleep(e) \/ Gate!SpuriousWake(e)
         \/ Gate!Enter(e) \/ Gate!Release(e)
  PROVE  GateInv'
<1> USE GateConstants
<1>1. PICK l \in GatePlaces : gate' = [gate EXCEPT ![e] = l]
  BY DEF Gate!Arrive, Gate!Sleep, Gate!SpuriousWake, Gate!Enter, Gate!Release, Gate!Goto,
         GatePlaces
<1>2. /\ GateTyped /\ SlotsCounted /\ inLine = Queued /\ Gate!NextNotSleptOver
      /\ slots \in Nat /\ extra \in Nat /\ lost \in Nat
  BY DEF GateInv, GateTyped
<1>3. /\ gate' \in [1..Employees -> GatePlaces] /\ gate'[e] = l
      /\ \A d \in 1..Employees : d # e => gate'[d] = gate[d]
  BY <1>1, <1>2 DEF GateTyped
<1>4. /\ Cardinality(WithSlot) \in Nat
      /\ Cardinality(WithSlot') = Cardinality(WithSlot)
           + (IF e \notin WithSlot /\ e \in WithSlot' THEN 1
              ELSE IF e \in WithSlot /\ e \notin WithSlot' THEN -1 ELSE 0)
  BY <1>1, <1>2, GateMoves DEF Gate!Goto
<1>9. Cardinality(WithSlot) \in Nat
  BY <1>4
<1>5. CASE Gate!Arrive(e)
  <2>1. /\ gate[e] = "arriving" /\ inLine' = inLine \cup {e} /\ gate'[e] = "arrived"
        /\ breakdown' = breakdown /\ lost' = lost
        /\ \/ extra' = extra + 1 /\ slots' = slots + 1
           \/ extra' = extra /\ slots' = slots
    BY <1>2, <1>5 DEF Gate!Arrive, Gate!Goto, GateTyped
  <2>2. GateTyped'
    BY <1>2, <1>3, <2>1 DEF GateTyped
  <2>3. Cardinality(WithSlot') = Cardinality(WithSlot)
    BY <1>3, <1>4, <2>1 DEF WithSlot, Gate!At
  <2>4. SlotsCounted'
    BY <1>2, <1>9, <2>1, <2>3 DEF SlotsCounted
  <2>5. inLine' = Queued'
    BY <1>2, <1>3, <2>1 DEF Queued, Gate!At
  <2>6. e \in Gate!At(DOMAIN Gate!AfterNotify)'
    BY <2>1, Notifiers DEF Gate!At
  <2> QED BY <2>2, <2>4, <2>5, <2>6 DEF GateInv, Gate!NextNotSleptOver
<1>6. CASE Gate!Sleep(e) \/ Gate!SpuriousWake(e)
  <2>1. /\ UNCHANGED <<slots, extra, inLine, breakdown, lost>>
        /\ \/ gate[e] = "waiting" /\ gate'[e] = "asleep" /\ ~(slots > 0 /\ Gate!IsTop(e))
           \/ gate[e] = "asleep" /\ gate'[e] = "waiting"
    BY <1>2, <1>6 DEF Gate!Sleep, Gate!SpuriousWake, Gate!Goto, GateTyped
  <2>2. GateTyped'
    BY <1>2, <1>3, <2>1 DEF GateTyped
  <2>3. Cardinality(WithSlot') = Cardinality(WithSlot)
    BY <1>3, <1>4, <2>1 DEF WithSlot, Gate!At
  <2>4. SlotsCounted'
    BY <1>2, <1>9, <2>1, <2>3 DEF SlotsCounted
  <2>5. inLine' = Queued'
    BY <1>2, <1>3, <2>1 DEF Queued, Gate!At
  <2>6. /\ Gate!At(DOMAIN Gate!AfterNotify)' = Gate!At(DOMAIN Gate!AfterNotify)
        /\ \A d \in Gate!At({"asleep"})' : d = e \/ d \in Gate!At({"asleep"})
        /\ e \in Gate!At({"asleep"})' => ~(slots > 0 /\ Gate!IsTop(e))
    BY <1>3, <2>1, Notifiers DEF Gate!At
  <2>7. \A d \in Gate!At({"asleep"})' : Gate!IsTop(d)' <=> Gate!IsTop(d)
    BY <2>1 DEF Gate!IsTop
  <2>8. Gate!NextNotSleptOver'
    BY <1>2, <2>1, <2>6, <2>7 DEF Gate!NextNotSleptOver
  <2> QED BY <2>2, <2>4, <2>5, <2>8 DEF GateInv
<1>7. CASE Gate!Enter(e)
  <2>1. /\ gate[e] = "waiting" /\ inLine' = inLine \ {e} /\ gate'[e] = "entered"
        /\ UNCHANGED <<extra, breakdown, lost>> /\ slots > 0 /\ slots' = slots - 1
    BY <1>2, <1>7 DEF Gate!Enter, Gate!Goto, GateTyped
  <2>2. GateTyped'
    BY <1>2, <1>3, <2>1 DEF GateTyped
  <2>3. Cardinality(WithSlot') = Cardinality(WithSlot) + 1
    BY <1>3, <1>4, <2>1 DEF WithSlot, Gate!At
  <2>4. SlotsCounted'
    BY <1>2, <1>9, <2>1, <2>3 DEF SlotsCounted
  <2>5. inLine' = Queued'
    BY <1>2, <1>3, <2>1 DEF Queued, Gate!At
  <2>6. e \in Gate!At(DOMAIN Gate!AfterNotify)'
    BY <2>1, Notifiers DEF Gate!At
  <2> QED BY <2>2, <2>4, <2>5, <2>6 DEF GateInv, Gate!NextNotSleptOver
<1>8. CASE Gate!Release(e)
  <2>1. /\ gate[e] = "passing" /\ gate'[e] = "released" /\ slots' = slots + 1
        /\ UNCHANGED <<extra, inLine, breakdown, lost>>
    BY <1>2, <1>8 DEF Gate!Release, Gate!Goto, GateTyped
  <2>2. GateTyped'
    BY <1>2, <1>3, <2>1 DEF GateTyped
  <2>3. Cardinality(WithSlot') = Cardinality(WithSlot) - 1
    BY <1>3, <1>4, <2>1 DEF WithSlot, Gate!At
  <2>4. SlotsCounted'
    BY <1>2, <1>9, <2>1, <2>3 DEF SlotsCounted
  <2>5. inLine' = Queued'
    BY <1>2, <1>3, <2>1 DEF Queued, Gate!At
  <2>6. e \in Gate!At(DOMAIN Gate!AfterNotify)'
    BY <2>1, Notifiers DEF Gate!At
  <2> QED BY <2>2, <2>4, <2>5, <2>6 DEF GateInv, Gate!NextNotSleptOver
<1> QED BY <1>5, <1>6, <1>7, <1>8

\* Whoever notifies wakes all that sleep; nobody gets or gives a slot.
LEMMA GateNotifyKeeps ==
  ASSUME GateInv, Gate!NotifyBroken \/ \E e \in 1..Employees : Gate!Notify(e)
  PROVE  GateInv'
<1> USE GateConstants
<1>1. /\ GateTyped /\ SlotsCounted /\ inLine = Queued
      /\ gate \in [1..Employees -> GatePlaces]
  BY DEF GateInv, GateTyped
<1>2. /\ UNCHANGED <<slots, extra, inLine, lost>>
      /\ breakdown' = "pending" => breakdown = "pending"
  BY DEF Gate!NotifyBroken, Gate!Notify
<1> DEFINE Kept(d) == /\ gate'[d] \in {"entered", "passing"} <=> gate[d] \in {"entered", "passing"}
                      /\ gate'[d] \in {"arrived", "waiting", "asleep"}
                           <=> gate[d] \in {"arrived", "waiting", "asleep"}
                      /\ gate'[d] # "asleep"
<1>3. gate' \in [1..Employees -> GatePlaces] /\ \A d \in 1..Employees : Kept(d)
  <2>1. /\ Gate!AllWoken(gate) \in [1..Employees -> GatePlaces]
        /\ \A d \in 1..Employees :
             Gate!AllWoken(gate)[d] = IF gate[d] = "asleep" THEN "waiting" ELSE gate[d]
    BY <1>1 DEF Gate!AllWoken, GatePlaces
  <2>2. CASE Gate!NotifyBroken
    BY <2>1, <2>2 DEF Gate!NotifyBroken
  <2>3. ASSUME NEW e \in 1..Employees, Gate!Notify(e)
        PROVE  gate' \in [1..Employees -> GatePlaces] /\ \A d \in 1..Employees : Kept(d)
    <3>1. /\ gate[e] \in {"arrived", "entered", "released"}
          /\ gate' = [Gate!AllWoken(gate) EXCEPT ![e] = Gate!AfterNotify[gate[e]]]
      BY <2>3, Notifiers DEF Gate!Notify
    <3>2. Gate!AfterNotify[gate[e]] = CASE gate[e] = "arrived" -> "waiting"
                                        [] gate[e] = "entered" -> "passing"
                                        [] gate[e] = "released" -> "inside"
      BY <3>1, Notifiers
    <3> QED BY <2>1, <3>1, <3>2 DEF GatePlaces
  <2> QED BY <2>2, <2>3
<1>4. GateTyped'
  BY <1>1, <1>2, <1>3 DEF GateTyped
<1>5. WithSlot' = WithSlot /\ Queued' = Queued /\ Gate!At({"asleep"})' = {}
  BY <1>3 DEF WithSlot, Queued, Gate!At
<1>6. SlotsCounted' /\ inLine' = Queued'
  BY <1>1, <1>2, <1>5 DEF SlotsCounted
<1> QED BY <1>4, <1>5, <1>6 DEF GateInv, Gate!NextNotSleptOver

\* The breakdown takes at most one slot, and it is about to notify.
LEMMA GateBreakKeeps ==
  ASSUME GateInv, Gate!Break
  PROVE  GateInv'
<1> USE GateConstants
<1>1. /\ GateTyped /\ SlotsCounted /\ inLine = Queued /\ lost = 0 /\ slots \in Nat
      /\ UNCHANGED <<extra, inLine, gate>> /\ breakdown' = "broken"
      /\ \/ slots > 0 /\ slots' = slots - 1 /\ lost' = 1
         \/ slots' = slots /\ lost' = lost
  BY DEF GateInv, GateTyped, Gate!Break
<1>2. WithSlot' = WithSlot /\ Queued' = Queued /\ Cardinality(WithSlot) \in Nat
  <2>1. WithSlot' = WithSlot /\ Queued' = Queued /\ WithSlot \in SUBSET (1..Employees)
    BY <1>1 DEF WithSlot, Queued, Gate!At
  <2> QED BY <2>1, SomeOf
<1>3. GateTyped'
  BY <1>1 DEF GateTyped
<1>4. SlotsCounted' /\ inLine' = Queued'
  BY <1>1, <1>2 DEF SlotsCounted, GateTyped
<1> QED BY <1>1, <1>3, <1>4 DEF GateInv, Gate!NextNotSleptOver

LEMMA GateStands ==
  GateInv /\ UNCHANGED <<slots, extra, inLine, gate, breakdown, lost>> => GateInv'
  BY DEF GateInv, GateTyped, SlotsCounted, WithSlot, Queued, Gate!NextNotSleptOver, Gate!At,
         Gate!IsTop

LEMMA GateNext == GateInv /\ Gate!Next => GateInv'
<1> SUFFICES ASSUME GateInv, Gate!Next PROVE GateInv'
  OBVIOUS
<1>1. CASE Gate!JoinEveryone
  BY <1>1, GateStands DEF Gate!JoinEveryone
<1>2. ASSUME NEW e \in Gate!Employee, Gate!EmployeeStep(e) \/ Gate!SpuriousWake(e)
      PROVE  GateInv'
  BY <1>2, GateConstants, GateStepKeeps, GateNotifyKeeps DEF Gate!EmployeeStep
<1> QED BY <1>1, <1>2, GateNotifyKeeps, GateBreakKeeps DEF Gate!Next, Gate!Other

LEMMA GateInvariant == Spec => [](program = "Gate" => GateInv)
<1>1. Init => (program = "Gate" => GateInv)
  BY GateInit DEF Init
<1>2. (program = "Gate" => GateInv) /\ [Next]_vars => (program = "Gate" => GateInv)'
  BY GateNext, GateStands DEF Next, vars, gateVars
<1> QED BY <1>1, <1>2, PTL DEF Spec

(***************************************************************************)
(* What the run checks of the three, for any number of workers, machines,     *)
(* blanks, employees and turnstiles.                                         *)
(***************************************************************************)
\* Machines, permits, blanks and slots are conserved (the counts of task1.cpp and
\* task2.cpp of RK1 and of task1 of Laba2).
THEOREM ResourcesAreConserved == Spec => []ResourcesConserved
<1>1. /\ program = "Shop" => ShopInv
      /\ program = "Store" => StoreInv
      /\ program = "Gate" => GateInv
      => ResourcesConserved
  BY StoreImplies, GateImplies DEF ResourcesConserved, ShopInv
<1> QED BY <1>1, ShopInvariant, StoreInvariant, GateInvariant, PTL

\* Nobody sleeps beside a free machine, and the next employee beside no free slot,
\* without a notification on its way.
THEOREM NobodyIsSleptOver == Spec => []NobodySleptOver
<1>1. /\ program = "Shop" => ShopInv
      /\ program = "Gate" => GateInv
      => NobodySleptOver
  BY GateImplies DEF NobodySleptOver, ShopInv
<1> QED BY <1>1, ShopInvariant, GateInvariant, PTL

(***************************************************************************)
(* ProductionLine.  Besides the property itself: where a machine is says      *)
(* whether it has an order, no two have the same, and only the machine that   *)
(* breaks down stops before all the orders are done.                         *)
(***************************************************************************)
LinePlaces == {"start", "fetch", "look", "give_back", "check", "work", "stopped"}

LineTyped == /\ orderQueue \subseteq Line!Order /\ completed \subseteq Line!Order
             /\ machineDown \subseteq {Broken}
             /\ at \in [1..LineMachines -> LinePlaces]
             /\ order \in [1..LineMachines -> Line!Order \cup {0}]
             /\ added \in 0..Len(Priority)

OrdersApart ==
  /\ \A o \in Line!Order :
       /\ o <= added <=> \/ o \in orderQueue \/ o \in completed
                         \/ \E m \in 1..LineMachines : order[m] = o
       /\ o \in orderQueue => o \notin completed
  /\ \A m \in 1..LineMachines : order[m] \notin orderQueue /\ order[m] \notin completed
  /\ \A l, m \in 1..LineMachines : order[l] = order[m] => l = m \/ order[m] = 0

WithOrder == {"look", "give_back", "check", "work"}

MachinesPlaced ==
  \A m \in 1..LineMachines : /\ at[m] \in WithOrder <=> order[m] # 0
                             /\ at[m] = "stopped" => m = Broken \/ completed = Line!Order

Reported == manager = "reported" => \A m \in 1..LineMachines : at[m] = "stopped"

LineInv == /\ LineTyped /\ OrdersApart /\ MachinesPlaced /\ Reported
           /\ doneOrders = Cardinality(completed)

LEMMA LineConstants ==
  /\ LineMachines \in Nat /\ Broken \in 1..LineMachines
  /\ Len(Priority) \in Nat /\ Line!Order = 1..Len(Priority)
  /\ Line!LineMachine = 1..LineMachines /\ 0 \notin Line!Order /\ Line!NoOrder = 0
  BY WorkshopsAssumption DEF Line!LineAssumption, Line!Order, Line!LineMachine, Line!NoOrder

\* Sets of orders are finite; one that has them all is the set of orders.
LEMMA SomeOrders ==
  ASSUME NEW S \in SUBSET Line!Order
  PROVE  /\ IsFiniteSet(S) /\ Cardinality(S) \in Nat
         /\ Cardinality(S) >= Cardinality(Line!Order) => S = Line!Order
<1>1. IsFiniteSet(Line!Order) /\ Cardinality(Line!Order) \in Nat
  BY LineConstants, SomeOf
<1>2. IsFiniteSet(S) /\ Cardinality(S) \in Nat /\ Cardinality(S) <= Cardinality(Line!Order)
  BY <1>1, FS_Subset, FS_CardinalityType
<1>3. Cardinality(S) = Cardinality(Line!Order) => S = Line!Order
  BY <1>1, FS_Subset
<1> QED BY <1>1, <1>2, <1>3

LEMMA LineImplies == LineInv => Line!OrdersAccountedFor
<1> SUFFICES ASSUME LineInv PROVE Line!OrdersAccountedFor
  OBVIOUS
<1> USE LineConstants
<1>1. LineTyped /\ OrdersApart /\ MachinesPlaced /\ Reported
  BY DEF LineInv
<1>2. \A o \in Line!Order : Line!Holders(o) # {} <=> \E m \in 1..LineMachines : order[m] = o
  BY DEF Line!Holders
<1>3. \A o \in Line!Order : o <= added <=> o \in 1..added
  BY <1>1 DEF LineTyped
<1>4. 1..added \subseteq Line!Order
  BY <1>1 DEF LineTyped
<1>5. orderQueue \cup completed \cup {o \in Line!Order : Line!Holders(o) # {}} = 1..added
  <2>1. \A o \in Line!Order :
          o \in orderQueue \cup completed \cup {p \in Line!Order : Line!Holders(p) # {}}
            <=> o \in 1..added
    BY <1>1, <1>2, <1>3 DEF OrdersApart
  <2>2. orderQueue \cup completed \cup {o \in Line!Order : Line!Holders(o) # {}}
          \subseteq Line!Order
    BY <1>1 DEF LineTyped
  <2> QED BY <1>4, <2>1, <2>2
<1>6. orderQueue \cap completed = {}
  BY <1>1 DEF LineTyped, OrdersApart
<1>7. ASSUME NEW o \in Line!Order
      PROVE  /\ Cardinality(Line!Holders(o)) <= 1
             /\ Line!Holders(o) # {} => o \notin orderQueue \cup completed
  <2>1. CASE Line!Holders(o) = {}
    BY <2>1, FS_EmptySet
  <2>2. CASE Line!Holders(o) # {}
    <3>1. PICK m \in 1..LineMachines : order[m] = o
      BY <1>2, <2>2
    <3>2. Line!Holders(o) = {m}
      BY <1>1, <3>1 DEF OrdersApart, Line!Holders
    <3>3. Cardinality(Line!Holders(o)) = 1
      BY <3>2, FS_Singleton
    <3> QED BY <1>1, <3>1, <3>3 DEF OrdersApart
  <2> QED BY <2>1, <2>2
<1>8. ASSUME manager = "reported", LineMachines > 1
      PROVE  completed = Line!Order
  <2>1. PICK m \in 1..LineMachines : m # Broken
    <3>1. 1 \in 1..LineMachines /\ 2 \in 1..LineMachines /\ 1 # 2
      BY <1>8
    <3> QED BY <3>1
  <2> QED BY <1>1, <1>8, <2>1 DEF Reported, MachinesPlaced
<1>9. \A m \in Line!LineMachine : at[m] = "stopped" => order[m] = Line!NoOrder
  BY <1>1 DEF MachinesPlaced, WithOrder
<1>10. doneOrders = Cardinality(completed)
  BY DEF LineInv
<1> HIDE LineConstants
<1>11. doneOrders = Line!Cardinality(completed)
       /\ \A o \in Line!Order : Line!Cardinality(Line!Holders(o)) <= 1
  BY <1>7, <1>10, SameSizes
<1> QED BY <1>5, <1>6, <1>7, <1>8, <1>9, <1>11 DEF Line!OrdersAccountedFor

LEMMA LineInit == Line!Init => LineInv
<1> SUFFICES ASSUME Line!Init PROVE LineInv
  OBVIOUS
<1>1. /\ orderQueue = {} /\ completed = {} /\ machineDown = {} /\ added = 0
      /\ at = [m \in 1..LineMachines |-> "start"] /\ order = [m \in 1..LineMachines |-> 0]
      /\ doneOrders = 0 /\ manager = "add"
  BY LineConstants DEF Line!Init
<1>2. doneOrders = Cardinality(completed)
  BY <1>1, FS_EmptySet
<1>3. LineTyped
  BY <1>1, LineConstants DEF LineTyped, LinePlaces
<1>4. OrdersApart /\ MachinesPlaced /\ Reported
  BY <1>1, LineConstants DEF OrdersApart, MachinesPlaced, Reported, WithOrder
<1> QED BY <1>2, <1>3, <1>4 DEF LineInv

\* A machine whose orders do not change goes on.
LEMMA LineGoesOn ==
  ASSUME LineInv, NEW m \in 1..LineMachines, NEW l \in LinePlaces,
         at[m] # "stopped", at' = [at EXCEPT ![m] = l],
         at[m] \in WithOrder <=> l \in WithOrder,
         l = "stopped" => m = Broken \/ completed = Line!Order,
         UNCHANGED <<orderQueue, doneOrders, order, completed, machineDown, added, manager>>
  PROVE  LineInv'
<1> USE LineConstants
<1>1. LineTyped'
  BY DEF LineInv, LineTyped
<1>2. OrdersApart'
  BY DEF LineInv, OrdersApart
<1>3. /\ at'[m] = l
      /\ \A k \in 1..LineMachines : k # m => at'[k] = at[k]
  BY DEF LineInv, LineTyped
<1>4. MachinesPlaced'
  BY <1>3 DEF LineInv, MachinesPlaced
<1>5. Reported'
  BY <1>3 DEF LineInv, Reported
<1> QED BY <1>1, <1>2, <1>4, <1>5 DEF LineInv

\* The steps that leave every order where it is.
LEMMA LineLooksKeep ==
  ASSUME LineInv, NEW m \in 1..LineMachines,
         \/ Line!StopIfDown(m) \/ Line!FindNone(m) \/ Line!LookForUrgent(m) \/ Line!Begin(m)
         \/ Line!WorkASecond(m)
  PROVE  LineInv'
<1> USE LineConstants DEF Line!Goto, Line!mainVars
<1>1. CASE Line!StopIfDown(m)
  <2>1. PICK l \in {"stopped", "fetch"} : at' = [at EXCEPT ![m] = l]
                                          /\ (l = "stopped" => m \in machineDown)
    BY <1>1 DEF Line!StopIfDown
  <2>2. l \in LinePlaces /\ l \notin WithOrder /\ at[m] = "start" /\ "start" \notin WithOrder
    BY <1>1, <2>1 DEF Line!StopIfDown, LinePlaces, WithOrder
  <2>3. l = "stopped" => m = Broken
    BY <2>1 DEF LineInv, LineTyped
  <2> QED BY <1>1, <2>1, <2>2, <2>3, LineGoesOn DEF Line!StopIfDown
<1>2. CASE Line!FindNone(m)
  <2>1. PICK l \in {"stopped", "start"} :
          /\ at' = [at EXCEPT ![m] = l]
          /\ l = "stopped" => doneOrders >= Line!Cardinality(Line!Order)
    BY <1>2 DEF Line!FindNone
  <2>2. l \in LinePlaces /\ l \notin WithOrder /\ at[m] = "fetch" /\ "fetch" \notin WithOrder
    BY <1>2, <2>1 DEF Line!FindNone, LinePlaces, WithOrder
  <2>3. l = "stopped" => completed = Line!Order
    BY <2>1, SameSizes, SomeOrders DEF LineInv, LineTyped
  <2> QED BY <1>2, <2>1, <2>2, <2>3, LineGoesOn DEF Line!FindNone
<1>3. CASE Line!LookForUrgent(m)
  <2>1. PICK l \in {"give_back", "check"} : at' = [at EXCEPT ![m] = l]
    BY <1>3 DEF Line!LookForUrgent
  <2>2. /\ l \in LinePlaces /\ l \in WithOrder /\ at[m] = "look" /\ "look" \in WithOrder
        /\ l # "stopped"
    BY <1>3, <2>1 DEF Line!LookForUrgent, LinePlaces, WithOrder
  <2> QED BY <1>3, <2>1, <2>2, LineGoesOn DEF Line!LookForUrgent
<1>4. CASE Line!Begin(m)
  <2>1. at' = [at EXCEPT ![m] = "work"] /\ at[m] = "check"
    BY <1>4 DEF Line!Begin
  <2>2. "work" \in LinePlaces /\ "work" \in WithOrder /\ "check" \in WithOrder
    BY DEF LinePlaces, WithOrder
  <2> QED BY <1>4, <2>1, <2>2, LineGoesOn DEF Line!Begin
<1>5. CASE Line!WorkASecond(m)
  BY <1>5 DEF Line!WorkASecond, LineInv, LineTyped, OrdersApart, MachinesPlaced, Reported
<1> QED BY <1>1, <1>2, <1>3, <1>4, <1>5

\* A machine takes an order of the queue.
LEMMA LineTakesKeep ==
  ASSUME LineInv, NEW m \in 1..LineMachines, Line!TakeTop(m)
  PROVE  LineInv'
<1> USE LineConstants
<1>1. PICK o \in Line!Top : /\ order' = [order EXCEPT ![m] = o]
                            /\ orderQueue' = orderQueue \ {o}
                            /\ Line!Goto(m, IF Priority[o] > Line!Urgent THEN "look" ELSE "check")
  BY DEF Line!TakeTop
<1>2. PICK l \in {"look", "check"} : at' = [at EXCEPT ![m] = l]
  BY <1>1 DEF Line!Goto
<1>3. /\ o \in orderQueue /\ o \in Line!Order /\ o # 0 /\ at[m] = "fetch"
      /\ UNCHANGED <<doneOrders, completed, machineDown, added, manager>>
      /\ l \in LinePlaces /\ l \in WithOrder /\ l # "stopped" /\ "fetch" \notin WithOrder
  BY <1>1, <1>2 DEF Line!Top, Line!TakeTop, LineInv, LineTyped, Line!mainVars, LinePlaces,
                    WithOrder
<1>4. /\ at'[m] = l /\ order'[m] = o /\ order[m] = 0
      /\ \A k \in 1..LineMachines : k # m => at'[k] = at[k] /\ order'[k] = order[k]
  BY <1>1, <1>2, <1>3 DEF LineInv, LineTyped, MachinesPlaced
<1>5. LineTyped'
  BY <1>1, <1>2, <1>3 DEF LineInv, LineTyped
<1>6. OrdersApart'
  BY <1>1, <1>3, <1>4 DEF LineInv, OrdersApart
<1>7. MachinesPlaced'
  BY <1>3, <1>4 DEF LineInv, MachinesPlaced
<1>8. Reported'
  BY <1>3, <1>4 DEF LineInv, Reported
<1> QED BY <1>3, <1>5, <1>6, <1>7, <1>8 DEF LineInv

\* A machine gives its order back, and starts again or stops.
LEMMA LineGivesBackKeep ==
  ASSUME LineInv, NEW m \in 1..LineMachines, Line!MakeWay(m) \/ Line!Abandon(m)
  PROVE  LineInv'
<1> USE LineConstants
<1>1. PICK l \in {"start", "stopped"} :
        /\ Line!GiveBack(m, l) /\ at[m] \in WithOrder /\ (l = "stopped" => m \in machineDown)
  BY DEF Line!MakeWay, Line!Abandon, WithOrder
<1>2. /\ at' = [at EXCEPT ![m] = l] /\ order' = [order EXCEPT ![m] = 0]
      /\ orderQueue' = orderQueue \cup {order[m]}
      /\ UNCHANGED <<doneOrders, completed, machineDown, added, manager>>
  BY <1>1 DEF Line!GiveBack, Line!Goto, Line!mainVars
<1>3. /\ order[m] \in Line!Order /\ order[m] # 0 /\ at[m] # "stopped"
      /\ l \in LinePlaces /\ l \notin WithOrder /\ (l = "stopped" => m = Broken)
  BY <1>1 DEF LineInv, LineTyped, MachinesPlaced, LinePlaces, WithOrder
<1>4. /\ at'[m] = l /\ order'[m] = 0
      /\ \A k \in 1..LineMachines : k # m => at'[k] = at[k] /\ order'[k] = order[k]
  BY <1>2 DEF LineInv, LineTyped
<1>5. LineTyped'
  BY <1>2, <1>3 DEF LineInv, LineTyped
<1>6. OrdersApart'
  <2>1. ASSUME NEW o \in Line!Order
        PROVE  /\ o <= added' <=> \/ o \in orderQueue' \/ o \in completed'
                                  \/ \E k \in 1..LineMachines : order'[k] = o
               /\ o \in orderQueue' => o \notin completed'
    BY <1>2, <1>3, <1>4 DEF LineInv, OrdersApart
  <2>2. \A k \in 1..LineMachines : order'[k] \notin orderQueue' /\ order'[k] \notin completed'
    BY <1>2, <1>3, <1>4 DEF LineInv, LineTyped, OrdersApart
  <2>3. \A j, k \in 1..LineMachines : order'[j] = order'[k] => j = k \/ order'[k] = 0
    BY <1>4 DEF LineInv, OrdersApart
  <2> QED BY <2>1, <2>2, <2>3 DEF OrdersApart
<1>7. MachinesPlaced'
  BY <1>2, <1>3, <1>4 DEF LineInv, MachinesPlaced
<1>8. Reported'
  BY <1>2, <1>3, <1>4 DEF LineInv, Reported
<1> QED BY <1>2, <1>5, <1>6, <1>7, <1>8 DEF LineInv

\* An order is done: it is counted once.
LEMMA LineCompletesKeep ==
  ASSUME LineInv, NEW m \in 1..LineMachines, Line!Complete(m)
  PROVE  LineInv'
<1> USE LineConstants
<1>1. /\ at' = [at EXCEPT ![m] = "start"] /\ order' = [order EXCEPT ![m] = 0]
      /\ completed' = completed \cup {order[m]} /\ doneOrders' = doneOrders + 1
      /\ UNCHANGED <<orderQueue, machineDown, added, manager>> /\ at[m] = "work"
  BY DEF Line!Complete, Line!Goto, Line!mainVars
<1>2. order[m] \in Line!Order /\ order[m] # 0 /\ order[m] \notin completed
  BY <1>1 DEF LineInv, LineTyped, MachinesPlaced, OrdersApart, WithOrder
<1>3. /\ at'[m] = "start" /\ order'[m] = 0
      /\ \A k \in 1..LineMachines : k # m => at'[k] = at[k] /\ order'[k] = order[k]
  BY <1>1 DEF LineInv, LineTyped
<1>4. LineTyped'
  BY <1>1, <1>2 DEF LineInv, LineTyped, LinePlaces
<1>5. OrdersApart'
  <2>1. ASSUME NEW o \in Line!Order
        PROVE  /\ o <= added' <=> \/ o \in orderQueue' \/ o \in completed'
                                  \/ \E k \in 1..LineMachines : order'[k] = o
               /\ o \in orderQueue' => o \notin completed'
    BY <1>1, <1>2, <1>3 DEF LineInv, OrdersApart
  <2>2. \A k \in 1..LineMachines : order'[k] \notin orderQueue' /\ order'[k] \notin completed'
    BY <1>1, <1>2, <1>3 DEF LineInv, LineTyped, OrdersApart
  <2>3. \A j, k \in 1..LineMachines : order'[j] = order'[k] => j = k \/ order'[k] = 0
    BY <1>3 DEF LineInv, OrdersApart
  <2> QED BY <2>1, <2>2, <2>3 DEF OrdersApart
<1>6. MachinesPlaced'
  <2>1. completed = Line!Order => FALSE
    BY <1>2
  <2> QED BY <1>1, <1>3, <2>1 DEF LineInv, MachinesPlaced, WithOrder
<1>7. Reported'
  BY <1>1, <1>3 DEF LineInv, Reported
<1>8. Cardinality(completed') = Cardinality(completed) + 1
  BY <1>1, <1>2, SomeOrders, FS_AddElement DEF LineInv, LineTyped
<1> QED BY <1>1, <1>4, <1>5, <1>6, <1>7, <1>8 DEF LineInv

\* What main does.
LEMMA LineManagerKeeps ==
  ASSUME LineInv, Line!ManagerStep
  PROVE  LineInv'
<1> USE LineConstants DEF Line!workVars
<1>1. CASE Line!Add
  <2>1. /\ added' = added + 1 /\ orderQueue' = orderQueue \cup {added + 1}
        /\ added < Line!Cardinality(Line!Order) /\ manager' # "reported"
        /\ UNCHANGED <<machineDown, doneOrders, at, order, completed>>
    BY <1>1 DEF Line!Add
  <2>2. Line!Cardinality(Line!Order) = Len(Priority)
    <3>1. Cardinality(1..Len(Priority)) = Len(Priority)
      BY UpTo
    <3> QED BY <3>1, SameSizes
  <2>3. added \in Nat /\ added + 1 \in Line!Order /\ added' \in 0..Len(Priority)
    BY <2>1, <2>2 DEF LineInv, LineTyped
  <2>4. LineTyped'
    BY <2>1, <2>3 DEF LineInv, LineTyped
  <2>5. /\ added + 1 \notin orderQueue /\ added + 1 \notin completed
        /\ \A m \in 1..LineMachines : order[m] # added + 1
    BY <2>3 DEF LineInv, OrdersApart
  <2>6. OrdersApart'
    BY <2>1, <2>3, <2>5 DEF LineInv, OrdersApart
  <2>7. MachinesPlaced' /\ Reported'
    BY <2>1 DEF LineInv, MachinesPlaced, Reported
  <2> QED BY <2>1, <2>4, <2>6, <2>7 DEF LineInv
<1>2. CASE Line!BreakDown
  BY <1>2 DEF Line!BreakDown, LineInv, LineTyped, OrdersApart, MachinesPlaced, Reported
<1>3. CASE Line!AllAdded
  BY <1>3 DEF Line!AllAdded, LineInv, LineTyped, OrdersApart, MachinesPlaced, Reported
<1>4. CASE Line!Report
  BY <1>4 DEF Line!Report, LineInv, LineTyped, OrdersApart, MachinesPlaced, Reported
<1> QED BY <1>1, <1>2, <1>3, <1>4 DEF Line!ManagerStep

LEMMA LineStands == LineInv /\ UNCHANGED lineVars => LineInv'
  BY DEF lineVars, LineInv, LineTyped, OrdersApart, MachinesPlaced, Reported

LEMMA LineNext == LineInv /\ Line!Next => LineInv'
<1> SUFFICES ASSUME LineInv, Line!Next PROVE LineInv'
  OBVIOUS
<1>1. ASSUME NEW m \in Line!LineMachine, Line!MachineStep(m) PROVE LineInv'
  BY <1>1, LineConstants, LineLooksKeep, LineTakesKeep, LineGivesBackKeep, LineCompletesKeep
     DEF Line!MachineStep
<1> QED BY <1>1, LineManagerKeeps DEF Line!Next

LEMMA LineInvariant == Spec => [](program = "Line" => LineInv)
<1>1. Init => (program = "Line" => LineInv)
  BY LineInit DEF Init
<1>2. (program = "Line" => LineInv) /\ [Next]_vars => (program = "Line" => LineInv)'
  BY LineNext, LineStands DEF Next, vars
<1> QED BY <1>1, <1>2, PTL DEF Spec

\* Every order is in one place, and main reports all of them done, however the
\* machines give orders back and break down (task2 of Laba2).
THEOREM OrdersAreAccountedFor == Spec => []OrdersAccountedFor
<1>1. (program = "Line" => LineInv) => OrdersAccountedFor
  BY LineImplies DEF OrdersAccountedFor
<1> QED BY <1>1, LineInvariant, PTL

(***************************************************************************)
(* ProcessBarrier.  Besides the property itself: the numbers the children     *)
(* draw at the barrier are different and no larger than the number of those   *)
(* who have come; so one child at most is the last, and there is one only     *)
(* when all have come; and nothing is posted or passed before the last one    *)
(* has opened the barrier.  All of this holds when children die, too.        *)
(***************************************************************************)
ChildPlaces == {"unborn", "work", "arrived", "sem_wait", "sem_post", "passed", "stored",
                "exited", "dead"}

BarrierTyped == /\ forked \in 0..Children
                /\ parent \in {"fork", "failed", "wait", "done"}
                /\ reaped \subseteq Barrier!Child
                /\ pc \in [Barrier!Child -> ChildPlaces]
                /\ cnt \in [Barrier!Child -> 0..Children]
                /\ posts \in [Barrier!Child -> 0..(Children - 1)]
                /\ barrier_count \in 0..Children
                /\ sem_barrier \in 0..(Children - 1)

ResultsStored ==
  /\ DOMAIN workResults = Barrier!Child
  /\ \A i \in Barrier!Child : Barrier!CellOf(i)
  /\ parent # "done" => total = 0

ChildrenBorn == \A i \in Barrier!Child : pc[i] = "unborn" <=> i >= forked

Came == {i \in Barrier!Child : cnt[i] > 0}
Opener(i) == cnt[i] = Children /\ pc[i] # "arrived"

ArrivalsCounted ==
  /\ \A i \in Barrier!Child :
       /\ pc[i] \in {"unborn", "work"} => cnt[i] = 0
       /\ pc[i] \in {"arrived", "sem_wait", "sem_post", "passed", "stored", "exited"} => cnt[i] > 0
       /\ cnt[i] <= Cardinality(Came)
  /\ \A i, j \in Barrier!Child : cnt[i] = cnt[j] => i = j \/ cnt[i] = 0
  /\ \/ barrier_count = Cardinality(Came)
     \/ barrier_count = 0 /\ Came = Barrier!Child

OpenedByTheLast ==
  /\ \A i \in Barrier!Child :
       /\ pc[i] = "sem_post" => cnt[i] = Children
       /\ pc[i] = "sem_wait" => cnt[i] # Children
       /\ posts[i] > 0 => Opener(i)
       /\ pc[i] \in {"passed", "stored", "exited"} => \E j \in Barrier!Child : Opener(j)
       /\ cnt[i] = Children => sem_barrier + posts[i] <= Children - 1
  /\ sem_barrier > 0 => \E i \in Barrier!Child : Opener(i)

BeforeTheBarrier == {j \in Barrier!Child : pc[j] \in {"arrived", "sem_wait"} /\ cnt[j] < Children}
NobodyDead == \A i \in Barrier!Child : pc[i] # "dead"

PostsCounted ==
  NobodyDead =>
    \A i \in Barrier!Child : Opener(i) =>
      /\ sem_barrier + posts[i] = Cardinality(BeforeTheBarrier)
      /\ \A j \in Barrier!Child \ {i} : posts[j] = 0
      /\ barrier_count = 0

BarrierInv == /\ BarrierTyped /\ ResultsStored /\ ChildrenBorn
              /\ ArrivalsCounted /\ OpenedByTheLast /\ PostsCounted

LEMMA BarrierConstants == /\ Children \in Nat /\ Children > 0
                          /\ Barrier!Child = 0..(Children - 1)
                          /\ IsFiniteSet(Barrier!Child)
                          /\ Cardinality(Barrier!Child) = Children
<1>1. Children \in Nat /\ Children > 0 /\ Barrier!Child = 0..(Children - 1)
  BY WorkshopsAssumption DEF Barrier!BarrierAssumption, Barrier!Child
<1>2. IsFiniteSet(0..(Children - 1)) /\ Cardinality(0..(Children - 1)) = Children
  BY <1>1, FS_Interval
<1> QED BY <1>1, <1>2

LEMMA SomeChildren ==
  ASSUME NEW S \in SUBSET Barrier!Child
  PROVE  /\ IsFiniteSet(S) /\ Cardinality(S) \in Nat /\ Cardinality(S) <= Children
         /\ Cardinality(S) = Children => S = Barrier!Child
         /\ S # Barrier!Child => Cardinality(S) < Children
<1>1. /\ IsFiniteSet(S) /\ Cardinality(S) <= Children
      /\ Cardinality(S) = Children => S = Barrier!Child
  BY BarrierConstants, FS_Subset
<1>2. Cardinality(S) \in Nat
  BY <1>1, FS_CardinalityType
<1> QED BY <1>1, <1>2, BarrierConstants

\* Who is last knows that all have come; there is one last only.
LEMMA TheLast ==
  ASSUME BarrierTyped, ArrivalsCounted, NEW i \in Barrier!Child, cnt[i] = Children
  PROVE  /\ Came = Barrier!Child
         /\ \A j \in Barrier!Child : cnt[j] > 0 /\ (cnt[j] = Children => j = i)
<1>1. Came \in SUBSET Barrier!Child
  BY DEF Came
<1>2. Cardinality(Came) >= Children
  BY DEF ArrivalsCounted
<1>3. Came = Barrier!Child
  BY <1>1, <1>2, SomeChildren, BarrierConstants
<1>4. \A j \in Barrier!Child : cnt[j] > 0
  BY <1>3 DEF Came
<1>5. \A j \in Barrier!Child : cnt[j] = cnt[i] => j = i \/ cnt[j] = 0
  BY DEF ArrivalsCounted
<1> QED BY <1>3, <1>4, <1>5, BarrierConstants

LEMMA BarrierImplies == BarrierInv => Barrier!BarrierConsistent /\ Barrier!NobodyPassesEarly
<1> SUFFICES ASSUME BarrierInv
             PROVE  Barrier!BarrierConsistent /\ Barrier!NobodyPassesEarly
  OBVIOUS
<1>1. Barrier!TypeOK
  BY DEF BarrierInv, BarrierTyped, ResultsStored, ChildPlaces, Barrier!TypeOK
<1>2. Barrier!NobodyPassesEarly
  BY TheLast DEF BarrierInv, OpenedByTheLast, Opener, Barrier!NobodyPassesEarly,
                 Barrier!Passed, Barrier!At
<1>3. ASSUME Barrier!Dead = {}, NEW i \in Barrier!Child, cnt[i] = Children, pc[i] # "arrived"
      PROVE  /\ sem_barrier + posts[i]
                  = Barrier!Cardinality({j \in Barrier!At({"arrived", "sem_wait"}) :
                                           cnt[j] < Children})
             /\ \A j \in Barrier!Child \ {i} : posts[j] = 0
             /\ barrier_count = 0
  <2>1. {j \in Barrier!At({"arrived", "sem_wait"}) : cnt[j] < Children} = BeforeTheBarrier
    BY DEF Barrier!At, BeforeTheBarrier
  <2>2. NobodyDead
    BY <1>3 DEF NobodyDead, Barrier!Dead
  <2> QED BY <1>3, <2>1, <2>2, SameSizes DEF BarrierInv, PostsCounted, Opener
<1> QED BY <1>1, <1>2, <1>3 DEF Barrier!BarrierConsistent, Barrier!PostsMatchWaits

LEMMA BarrierInit == Barrier!Init => BarrierInv
<1> SUFFICES ASSUME Barrier!Init PROVE BarrierInv
  OBVIOUS
<1> USE BarrierConstants
<1>1. /\ forked = 0 /\ parent = "fork" /\ reaped = {} /\ barrier_count = 0
      /\ sem_barrier = 0 /\ total = 0
      /\ pc = [i \in Barrier!Child |-> "unborn"] /\ cnt = [i \in Barrier!Child |-> 0]
      /\ posts = [i \in Barrier!Child |-> 0] /\ workResults = [i \in Barrier!Child |-> 0]
  BY DEF Barrier!Init
<1>2. BarrierTyped
  BY <1>1 DEF BarrierTyped, ChildPlaces
<1>3. ResultsStored /\ ChildrenBorn
  BY <1>1 DEF ResultsStored, ChildrenBorn, Barrier!CellOf
<1>4. Came = {} /\ Cardinality(Came) = 0
  <2>1. Came = {}
    BY <1>1 DEF Came
  <2> QED BY <2>1, FS_EmptySet
<1>5. ArrivalsCounted
  <2>1. \A i \in Barrier!Child : cnt[i] = 0 /\ cnt[i] <= Cardinality(Came) /\ pc[i] = "unborn"
    BY <1>1, <1>4
  <2>2. barrier_count = Cardinality(Came)
    BY <1>1, <1>4
  <2> HIDE BarrierConstants
  <2> QED BY <2>1, <2>2 DEF ArrivalsCounted
<1>6. OpenedByTheLast /\ PostsCounted
  BY <1>1 DEF OpenedByTheLast, PostsCounted, Opener
<1> QED BY <1>2, <1>3, <1>5, <1>6 DEF BarrierInv

\* The parent's steps other than a fork touch nothing that the children share.
LEMMA BarrierParentKeeps ==
  ASSUME BarrierInv,
         \/ Barrier!ForkFails \/ Barrier!StartWaiting \/ Barrier!AddUp
         \/ \E i \in Barrier!Child : Barrier!WaitFor(i)
  PROVE  BarrierInv'
<1>1. /\ BarrierTyped /\ ResultsStored /\ ChildrenBorn /\ ArrivalsCounted
      /\ OpenedByTheLast /\ PostsCounted
  BY DEF BarrierInv
<1>2. /\ UNCHANGED <<forked, pc, cnt, posts, barrier_count, workResults, sem_barrier>>
      /\ parent' \in {"fork", "failed", "wait", "done"} /\ reaped' \subseteq Barrier!Child
      /\ parent' # "done" => parent # "done" /\ total' = total
  BY <1>1 DEF BarrierTyped, Barrier!ForkFails, Barrier!StartWaiting, Barrier!AddUp,
              Barrier!WaitFor, Barrier!sharedVars
<1>3. BarrierTyped' /\ ResultsStored' /\ ChildrenBorn'
  BY <1>1, <1>2 DEF BarrierTyped, ResultsStored, ChildrenBorn, Barrier!CellOf
<1>4. ArrivalsCounted' /\ OpenedByTheLast' /\ PostsCounted'
  BY <1>1, <1>2 DEF ArrivalsCounted, OpenedByTheLast, PostsCounted, Came, Opener, NobodyDead,
                    BeforeTheBarrier
<1> QED BY <1>3, <1>4 DEF BarrierInv

\* A child is born: it has not come yet, so the barrier is closed.
LEMMA ForkKeeps ==
  ASSUME BarrierInv, Barrier!Fork
  PROVE  BarrierInv'
<1> USE BarrierConstants
<1>1. /\ BarrierTyped /\ ResultsStored /\ ChildrenBorn /\ ArrivalsCounted
      /\ OpenedByTheLast /\ PostsCounted
  BY DEF BarrierInv
<1>2. /\ forked \in Barrier!Child /\ forked' = forked + 1
      /\ pc' = [pc EXCEPT ![forked] = "work"]
      /\ UNCHANGED <<parent, reaped, total, cnt, posts, barrier_count, workResults,
                     sem_barrier>>
  BY <1>1 DEF Barrier!Fork, Barrier!Goto, Barrier!sharedVars, BarrierTyped
<1>3. /\ pc[forked] = "unborn" /\ cnt[forked] = 0 /\ pc'[forked] = "work"
      /\ \A i \in Barrier!Child : i # forked => pc'[i] = pc[i]
  BY <1>1, <1>2 DEF ChildrenBorn, ArrivalsCounted, BarrierTyped
<1>4. \A i \in Barrier!Child : cnt[i] # Children
  BY <1>1, <1>2, <1>3, TheLast
<1>5. BarrierTyped'
  <2>1. forked' \in 0..Children
    BY <1>2
  <2>2. pc' \in [Barrier!Child -> ChildPlaces]
    BY <1>1, <1>2 DEF BarrierTyped, ChildPlaces
  <2> HIDE BarrierConstants
  <2> QED BY <1>1, <1>2, <2>1, <2>2 DEF BarrierTyped
<1>6. ResultsStored'
  BY <1>1, <1>2, <1>3 DEF ResultsStored, Barrier!CellOf
<1>7. ChildrenBorn'
  <2> SUFFICES ASSUME NEW i \in Barrier!Child PROVE pc'[i] = "unborn" <=> i >= forked'
    BY DEF ChildrenBorn
  <2>1. pc[i] = "unborn" <=> i >= forked
    BY <1>1 DEF ChildrenBorn
  <2>2. i \in Int /\ forked \in Int
    BY <1>2
  <2>3. CASE i = forked
    BY <1>2, <1>3, <2>2, <2>3
  <2>4. CASE i # forked
    BY <1>2, <1>3, <2>1, <2>2, <2>4
  <2> QED BY <2>3, <2>4
<1>8. ArrivalsCounted'
  BY <1>1, <1>2, <1>3 DEF ArrivalsCounted, Came
<1>9. OpenedByTheLast' /\ PostsCounted'
  BY <1>1, <1>2, <1>3, <1>4 DEF OpenedByTheLast, PostsCounted, Opener
<1> QED BY <1>5, <1>6, <1>7, <1>8, <1>9 DEF BarrierInv

\* A child comes to the barrier: it draws the next number.
LEMMA ArriveKeeps ==
  ASSUME BarrierInv, NEW i \in Barrier!Child, Barrier!Arrive(i)
  PROVE  BarrierInv'
<1> USE BarrierConstants
<1>1. /\ BarrierTyped /\ ResultsStored /\ ChildrenBorn /\ ArrivalsCounted
      /\ OpenedByTheLast /\ PostsCounted
  BY DEF BarrierInv
<1>2. /\ pc[i] = "work" /\ pc' = [pc EXCEPT ![i] = "arrived"]
      /\ barrier_count' = barrier_count + 1
      /\ cnt' = [cnt EXCEPT ![i] = barrier_count + 1]
      /\ UNCHANGED <<forked, parent, reaped, total, posts, workResults, sem_barrier>>
  BY DEF Barrier!Arrive, Barrier!Goto, Barrier!parentVars
<1>3. cnt[i] = 0 /\ i \notin Came /\ Came \in SUBSET Barrier!Child
  BY <1>1, <1>2 DEF ArrivalsCounted, Came
<1>4. /\ barrier_count = Cardinality(Came) /\ barrier_count < Children
      /\ Cardinality(Came) \in Nat /\ IsFiniteSet(Came)
  BY <1>1, <1>3, SomeChildren DEF ArrivalsCounted
<1>5. \A j \in Barrier!Child : cnt[j] # Children
  BY <1>1, <1>3, TheLast
<1>6. /\ pc'[i] = "arrived" /\ cnt'[i] = barrier_count + 1
      /\ \A j \in Barrier!Child : j # i => pc'[j] = pc[j] /\ cnt'[j] = cnt[j]
  BY <1>1, <1>2 DEF BarrierTyped
<1>7. Came' = Came \cup {i} /\ Cardinality(Came') = Cardinality(Came) + 1
  <2>1. Came' = Came \cup {i}
    BY <1>4, <1>6 DEF Came
  <2> QED BY <1>3, <1>4, <2>1, FS_AddElement
<1>8. BarrierTyped'
  <2>1. barrier_count + 1 \in 0..Children
    BY <1>4
  <2>2. pc' \in [Barrier!Child -> ChildPlaces] /\ cnt' \in [Barrier!Child -> 0..Children]
    BY <1>1, <1>2, <2>1 DEF BarrierTyped, ChildPlaces
  <2> HIDE BarrierConstants
  <2> QED BY <1>1, <1>2, <2>1, <2>2 DEF BarrierTyped
<1>9. ResultsStored' /\ ChildrenBorn'
  <2>1. ResultsStored'
    BY <1>1, <1>2, <1>6 DEF ResultsStored, Barrier!CellOf
  <2>2. ChildrenBorn'
    BY <1>1, <1>2, <1>6 DEF ChildrenBorn
  <2> QED BY <2>1, <2>2
<1>10. ArrivalsCounted'
  <2>1. \A j \in Barrier!Child : cnt[j] \in Nat /\ cnt[j] <= Cardinality(Came)
    <3>1. \A j \in Barrier!Child : cnt[j] \in 0..Children
      BY <1>1 DEF BarrierTyped
    <3>2. \A j \in Barrier!Child : cnt[j] <= Cardinality(Came)
      BY <1>1 DEF ArrivalsCounted
    <3> QED BY <3>1, <3>2
  <2>2. ASSUME NEW j \in Barrier!Child
        PROVE  /\ pc'[j] \in {"unborn", "work"} => cnt'[j] = 0
               /\ pc'[j] \in {"arrived", "sem_wait", "sem_post", "passed", "stored", "exited"}
                    => cnt'[j] > 0
               /\ cnt'[j] <= Cardinality(Came')
    BY <1>1, <1>4, <1>6, <1>7, <2>1 DEF ArrivalsCounted
  <2>3. \A j, k \in Barrier!Child : cnt'[j] = cnt'[k] => j = k \/ cnt'[j] = 0
    BY <1>1, <1>4, <1>6, <2>1 DEF ArrivalsCounted
  <2>4. barrier_count' = Cardinality(Came')
    BY <1>2, <1>4, <1>7
  <2> HIDE BarrierConstants
  <2> QED BY <2>2, <2>3, <2>4 DEF ArrivalsCounted
<1>11. \A j \in Barrier!Child : ~Opener(j) /\ ~Opener(j)'
  BY <1>5, <1>6 DEF Opener
<1>12. OpenedByTheLast'
  <2>1. sem_barrier = 0 /\ \A j \in Barrier!Child : posts[j] = 0
    BY <1>1, <1>11 DEF OpenedByTheLast, BarrierTyped
  <2> QED BY <1>1, <1>2, <1>6, <1>11, <2>1 DEF OpenedByTheLast
<1>13. PostsCounted'
  BY <1>11 DEF PostsCounted
<1> QED BY <1>8, <1>9, <1>10, <1>12, <1>13 DEF BarrierInv

\* What a child that has been born does not disturb when it goes from one place to
\* another: the births, the numbers drawn and the results of the others.
LEMMA ChildGoesOn ==
  ASSUME BarrierInv, NEW i \in Barrier!Child,
         NEW l \in ChildPlaces \ {"unborn", "work"},
         pc[i] \notin {"unborn", "exited", "dead"}, l = "dead" \/ cnt[i] > 0,
         l = "dead" \/ (l = "exited" <=> pc[i] = "stored"),
         pc' = [pc EXCEPT ![i] = l],
         workResults' = IF l = "stored"
                        THEN [workResults EXCEPT ![i] = Barrier!DoWork(i)] ELSE workResults,
         \/ barrier_count' = barrier_count
         \/ barrier_count' = 0 /\ Came = Barrier!Child,
         UNCHANGED <<forked, parent, reaped, total, cnt>>
  PROVE  /\ pc' \in [Barrier!Child -> ChildPlaces] /\ pc'[i] = l
         /\ \A j \in Barrier!Child : j # i => pc'[j] = pc[j]
         /\ ResultsStored' /\ ChildrenBorn' /\ ArrivalsCounted'
<1>1. BarrierTyped /\ ResultsStored /\ ChildrenBorn /\ ArrivalsCounted
  BY DEF BarrierInv
<1>2. /\ pc' \in [Barrier!Child -> ChildPlaces] /\ pc'[i] = l
      /\ \A j \in Barrier!Child : j # i => pc'[j] = pc[j]
  BY <1>1 DEF BarrierTyped
<1>3. ChildrenBorn'
  <2>1. l # "unborn"
    OBVIOUS
  <2> QED BY <1>1, <1>2, <2>1 DEF ChildrenBorn
<1>4. ResultsStored'
  <2>1. /\ DOMAIN workResults' = Barrier!Child /\ (parent' # "done" => total' = 0)
        /\ \A j \in Barrier!Child : j # i => workResults'[j] = workResults[j]
        /\ workResults'[i] = IF l = "stored" THEN Barrier!DoWork(i) ELSE workResults[i]
    BY <1>1 DEF ResultsStored
  <2>2. \A j \in Barrier!Child : j # i => Barrier!CellOf(j)'
    BY <1>1, <1>2, <2>1 DEF ResultsStored, Barrier!CellOf
  <2>3. Barrier!CellOf(i)'
    BY <1>1, <1>2, <2>1 DEF ResultsStored, Barrier!CellOf
  <2> QED BY <2>1, <2>2, <2>3 DEF ResultsStored
<1>5. ArrivalsCounted'
  <2>1. Came' = Came
    BY DEF Came
  <2>2. \A j \in Barrier!Child :
          /\ pc'[j] \in {"unborn", "work"} => cnt[j] = 0
          /\ pc'[j] \in {"arrived", "sem_wait", "sem_post", "passed", "stored", "exited"} => cnt[j] > 0
          /\ cnt[j] <= Cardinality(Came)
    BY <1>1, <1>2 DEF ArrivalsCounted
  <2>3. \A j, k \in Barrier!Child : cnt[j] = cnt[k] => j = k \/ cnt[j] = 0
    BY <1>1 DEF ArrivalsCounted
  <2>4. \/ barrier_count' = Cardinality(Came)
        \/ barrier_count' = 0 /\ Came = Barrier!Child
    BY <1>1 DEF ArrivalsCounted
  <2> QED BY <2>1, <2>2, <2>3, <2>4 DEF ArrivalsCounted
<1> QED BY <1>2, <1>3, <1>4, <1>5

\* A child that is not the last is about to wait.
LEMMA BlockKeeps ==
  ASSUME BarrierInv, NEW i \in Barrier!Child, Barrier!Block(i)
  PROVE  BarrierInv'
<1>1. /\ BarrierTyped /\ OpenedByTheLast /\ PostsCounted /\ ArrivalsCounted
  BY DEF BarrierInv
<1>2. /\ pc[i] = "arrived" /\ cnt[i] # Children /\ pc' = [pc EXCEPT ![i] = "sem_wait"]
      /\ UNCHANGED <<forked, parent, reaped, total, cnt, posts, barrier_count, workResults,
                     sem_barrier>>
  BY DEF Barrier!Block, Barrier!IsLast, Barrier!Goto, Barrier!parentVars, Barrier!sharedVars
<1>3. cnt[i] > 0 /\ "sem_wait" \in ChildPlaces \ {"unborn", "work"}
  BY <1>1, <1>2 DEF ArrivalsCounted, ChildPlaces
<1>4. /\ pc' \in [Barrier!Child -> ChildPlaces] /\ pc'[i] = "sem_wait"
      /\ \A j \in Barrier!Child : j # i => pc'[j] = pc[j]
      /\ ResultsStored' /\ ChildrenBorn' /\ ArrivalsCounted'
  BY <1>2, <1>3, ChildGoesOn
<1>5. BarrierTyped'
  BY <1>1, <1>2, <1>4 DEF BarrierTyped
<1>6. \A j \in Barrier!Child : Opener(j)' <=> Opener(j)
  BY <1>2, <1>4 DEF Opener
<1>7. OpenedByTheLast'
  BY <1>1, <1>2, <1>4, <1>6 DEF OpenedByTheLast
<1>8. PostsCounted'
  <2>1. BeforeTheBarrier' = BeforeTheBarrier /\ NobodyDead' = NobodyDead
    BY <1>2, <1>4 DEF BeforeTheBarrier, NobodyDead
  <2> QED BY <1>1, <1>2, <1>6, <2>1 DEF PostsCounted
<1> QED BY <1>4, <1>5, <1>7, <1>8 DEF BarrierInv

\* The last child opens the barrier: everybody else is before it.
LEMMA ResetCountKeeps ==
  ASSUME BarrierInv, NEW i \in Barrier!Child, Barrier!ResetCount(i)
  PROVE  BarrierInv'
<1>1. /\ BarrierTyped /\ OpenedByTheLast /\ PostsCounted /\ ArrivalsCounted
  BY DEF BarrierInv
<1>2. /\ pc[i] = "arrived" /\ cnt[i] = Children /\ pc' = [pc EXCEPT ![i] = "sem_post"]
      /\ barrier_count' = 0 /\ posts' = [posts EXCEPT ![i] = Children - 1]
      /\ UNCHANGED <<forked, parent, reaped, total, cnt, workResults, sem_barrier>>
  BY DEF Barrier!ResetCount, Barrier!IsLast, Barrier!Goto, Barrier!parentVars
<1>3. cnt[i] > 0 /\ "sem_post" \in ChildPlaces \ {"unborn", "work"}
  BY <1>1, <1>2 DEF ArrivalsCounted, ChildPlaces
<1>4. Came = Barrier!Child /\ \A j \in Barrier!Child : cnt[j] > 0 /\ (cnt[j] = Children => j = i)
  BY <1>1, <1>2, TheLast
<1>5. /\ pc' \in [Barrier!Child -> ChildPlaces] /\ pc'[i] = "sem_post"
      /\ \A j \in Barrier!Child : j # i => pc'[j] = pc[j]
      /\ ResultsStored' /\ ChildrenBorn' /\ ArrivalsCounted'
  BY <1>2, <1>3, <1>4, ChildGoesOn
<1>6. Children - 1 \in 0..(Children - 1) /\ 0 \in 0..Children
  BY BarrierConstants
<1>7. BarrierTyped'
  BY <1>1, <1>2, <1>5, <1>6 DEF BarrierTyped
<1>8. /\ sem_barrier = 0
      /\ \A j \in Barrier!Child : ~Opener(j) /\ posts[j] = 0
      /\ \A j \in Barrier!Child : pc[j] \notin {"passed", "stored", "exited", "sem_post"}
  <2>1. \A j \in Barrier!Child : ~Opener(j)
    BY <1>2, <1>4 DEF Opener
  <2>2. sem_barrier \in 0..(Children - 1) /\ posts \in [Barrier!Child -> 0..(Children - 1)]
    BY <1>1 DEF BarrierTyped
  <2>3. /\ ~(sem_barrier > 0)
        /\ \A j \in Barrier!Child : ~(posts[j] > 0) /\ pc[j] \notin {"passed", "stored", "exited"}
    BY <1>1, <2>1 DEF OpenedByTheLast
  <2>4. \A j \in Barrier!Child : pc[j] # "sem_post"
    BY <1>1, <1>2, <1>4 DEF OpenedByTheLast
  <2> QED BY <2>1, <2>2, <2>3, <2>4, BarrierConstants
<1>9. /\ \A j \in Barrier!Child : Opener(j)' <=> j = i
      /\ posts'[i] = Children - 1 /\ \A j \in Barrier!Child : j # i => posts'[j] = 0
  BY <1>1, <1>2, <1>4, <1>5, <1>8 DEF Opener, BarrierTyped
<1>10. OpenedByTheLast'
  <2>1. \A j \in Barrier!Child :
          /\ pc'[j] = "sem_post" => cnt'[j] = Children
          /\ pc'[j] = "sem_wait" => cnt'[j] # Children
          /\ posts'[j] > 0 => Opener(j)'
    BY <1>1, <1>2, <1>5, <1>9 DEF OpenedByTheLast
  <2>2. \A j \in Barrier!Child : cnt'[j] = Children => sem_barrier' + posts'[j] <= Children - 1
    BY <1>2, <1>4, <1>8, <1>9, BarrierConstants
  <2>3. \E j \in Barrier!Child : Opener(j)'
    BY <1>9
  <2> QED BY <2>1, <2>2, <2>3 DEF OpenedByTheLast
<1>11. PostsCounted'
  <2> SUFFICES ASSUME NobodyDead'
               PROVE  /\ sem_barrier' + posts'[i] = Cardinality(BeforeTheBarrier')
                      /\ \A j \in Barrier!Child \ {i} : posts'[j] = 0
                      /\ barrier_count' = 0
    BY <1>9 DEF PostsCounted
  <2>1. BeforeTheBarrier' = Barrier!Child \ {i}
    <3>1. ASSUME NEW j \in Barrier!Child, j # i
          PROVE  pc'[j] \in {"arrived", "sem_wait"} /\ cnt'[j] < Children
      <4>1. cnt[j] > 0 /\ cnt[j] # Children /\ cnt[j] \in 0..Children
        BY <1>1, <1>4, <3>1 DEF BarrierTyped
      <4>2. pc[j] \notin {"unborn", "work", "dead", "sem_post", "passed", "stored", "exited"}
        <5>1. pc[j] # "dead"
          BY <1>5, <3>1 DEF NobodyDead
        <5>2. pc[j] \notin {"unborn", "work"}
          BY <1>1, <4>1 DEF ArrivalsCounted
        <5> QED BY <1>8, <5>1, <5>2
      <4>3. pc[j] \in ChildPlaces
        BY <1>1 DEF BarrierTyped
      <4>4. pc[j] \in {"arrived", "sem_wait"}
        BY <4>2, <4>3 DEF ChildPlaces
      <4> QED BY <1>2, <1>5, <3>1, <4>1, <4>4, BarrierConstants
    <3>2. i \notin BeforeTheBarrier'
      BY <1>5 DEF BeforeTheBarrier
    <3> QED BY <3>1, <3>2 DEF BeforeTheBarrier
  <2>2. Cardinality(BeforeTheBarrier') = Children - 1
    BY <2>1, BarrierConstants, FS_RemoveElement
  <2> QED BY <1>2, <1>8, <1>9, <2>2, BarrierConstants
<1> QED BY <1>5, <1>7, <1>10, <1>11 DEF BarrierInv

\* The last child posts once more.
LEMMA PostOneKeeps ==
  ASSUME BarrierInv, NEW i \in Barrier!Child, Barrier!PostOne(i)
  PROVE  BarrierInv'
<1>1. /\ BarrierTyped /\ OpenedByTheLast /\ PostsCounted /\ ArrivalsCounted
      /\ ResultsStored /\ ChildrenBorn
  BY DEF BarrierInv
<1>2. /\ pc[i] = "sem_post" /\ posts[i] > 0
      /\ sem_barrier' = sem_barrier + 1 /\ posts' = [posts EXCEPT ![i] = posts[i] - 1]
      /\ UNCHANGED <<forked, parent, reaped, total, pc, cnt, barrier_count, workResults>>
  BY DEF Barrier!PostOne, Barrier!parentVars
<1>3. /\ sem_barrier \in 0..(Children - 1) /\ posts[i] \in 0..(Children - 1)
      /\ cnt[i] = Children /\ Opener(i) /\ sem_barrier + posts[i] <= Children - 1
  BY <1>1, <1>2 DEF BarrierTyped, OpenedByTheLast
<1>4. \A j \in Barrier!Child : cnt[j] = Children => j = i
  BY <1>1, <1>3, TheLast
<1>5. /\ posts'[i] = posts[i] - 1 /\ posts[i] - 1 \in 0..(Children - 1)
      /\ sem_barrier + 1 \in 0..(Children - 1)
      /\ (sem_barrier + 1) + (posts[i] - 1) = sem_barrier + posts[i]
      /\ \A j \in Barrier!Child : j # i => posts'[j] = posts[j]
  <2>1. posts'[i] = posts[i] - 1 /\ \A j \in Barrier!Child : j # i => posts'[j] = posts[j]
    BY <1>1, <1>2 DEF BarrierTyped
  <2> QED BY <1>2, <1>3, <2>1, BarrierConstants
<1>6. BarrierTyped'
  <2>1. posts' \in [Barrier!Child -> 0..(Children - 1)]
    BY <1>1, <1>2, <1>5 DEF BarrierTyped
  <2> QED BY <1>1, <1>2, <1>5, <2>1 DEF BarrierTyped
<1>7. ResultsStored' /\ ChildrenBorn' /\ ArrivalsCounted'
  BY <1>1, <1>2 DEF ResultsStored, ChildrenBorn, ArrivalsCounted, Came, Barrier!CellOf
<1>8. \A j \in Barrier!Child : Opener(j)' <=> Opener(j)
  BY <1>2 DEF Opener
<1>9. OpenedByTheLast'
  <2>1. \A j \in Barrier!Child : posts'[j] > 0 => Opener(j)'
    BY <1>1, <1>3, <1>5, <1>8 DEF OpenedByTheLast
  <2>2. \A j \in Barrier!Child : cnt'[j] = Children => sem_barrier' + posts'[j] <= Children - 1
    BY <1>2, <1>3, <1>4, <1>5
  <2>3. \A j \in Barrier!Child :
          /\ pc'[j] = "sem_post" => cnt'[j] = Children
          /\ pc'[j] = "sem_wait" => cnt'[j] # Children
          /\ pc'[j] \in {"passed", "stored", "exited"} => \E k \in Barrier!Child : Opener(k)'
    BY <1>1, <1>2, <1>8 DEF OpenedByTheLast
  <2>4. \E k \in Barrier!Child : Opener(k)'
    BY <1>3, <1>8
  <2> QED BY <2>1, <2>2, <2>3, <2>4 DEF OpenedByTheLast
<1>10. PostsCounted'
  <2>1. BeforeTheBarrier' = BeforeTheBarrier /\ NobodyDead' = NobodyDead
    BY <1>2 DEF BeforeTheBarrier, NobodyDead
  <2> SUFFICES ASSUME NobodyDead, NEW j \in Barrier!Child, Opener(j)
               PROVE  /\ sem_barrier' + posts'[j] = Cardinality(BeforeTheBarrier)
                      /\ \A k \in Barrier!Child \ {j} : posts'[k] = 0
                      /\ barrier_count' = 0
    BY <1>8, <2>1 DEF PostsCounted
  <2>2. j = i
    BY <1>4 DEF Opener
  <2>3. /\ sem_barrier + posts[i] = Cardinality(BeforeTheBarrier)
        /\ \A k \in Barrier!Child \ {i} : posts[k] = 0
        /\ barrier_count = 0
    BY <1>1, <1>3 DEF PostsCounted
  <2> QED BY <1>2, <1>5, <2>2, <2>3
<1> QED BY <1>6, <1>7, <1>9, <1>10 DEF BarrierInv

\* The last child passes when it has posted for all, and a child that has passed
\* stores its result and exits.
LEMMA PassLastAndStoreKeep ==
  ASSUME BarrierInv, NEW i \in Barrier!Child,
         Barrier!PassLast(i) \/ Barrier!StoreResult(i) \/ Barrier!Exit(i)
  PROVE  BarrierInv'
<1>1. /\ BarrierTyped /\ OpenedByTheLast /\ PostsCounted /\ ArrivalsCounted
  BY DEF BarrierInv
<1>2. PICK l \in {"passed", "stored", "exited"} :
        /\ \/ l = "passed" /\ pc[i] = "sem_post"
           \/ l = "stored" /\ pc[i] = "passed"
           \/ l = "exited" /\ pc[i] = "stored"
        /\ pc' = [pc EXCEPT ![i] = l]
        /\ workResults' = IF l = "stored"
                          THEN [workResults EXCEPT ![i] = Barrier!DoWork(i)] ELSE workResults
        /\ UNCHANGED <<forked, parent, reaped, total, cnt, posts, barrier_count, sem_barrier>>
  <2>1. CASE Barrier!PassLast(i)
    BY <2>1 DEF Barrier!PassLast, Barrier!Goto, Barrier!parentVars, Barrier!sharedVars
  <2>2. CASE Barrier!StoreResult(i)
    BY <2>2 DEF Barrier!StoreResult, Barrier!Goto, Barrier!parentVars
  <2>3. CASE Barrier!Exit(i)
    BY <2>3 DEF Barrier!Exit, Barrier!Goto, Barrier!parentVars, Barrier!sharedVars
  <2> QED BY <2>1, <2>2, <2>3
<1>3. /\ cnt[i] > 0 /\ l \in ChildPlaces \ {"unborn", "work"}
      /\ pc[i] \notin {"unborn", "exited", "dead"} /\ (l = "exited" <=> pc[i] = "stored")
  BY <1>1, <1>2 DEF ArrivalsCounted, ChildPlaces
<1>4. /\ pc' \in [Barrier!Child -> ChildPlaces] /\ pc'[i] = l
      /\ \A j \in Barrier!Child : j # i => pc'[j] = pc[j]
      /\ ResultsStored' /\ ChildrenBorn' /\ ArrivalsCounted'
  BY <1>2, <1>3, ChildGoesOn
<1>5. BarrierTyped'
  BY <1>1, <1>2, <1>4 DEF BarrierTyped
<1>6. \A j \in Barrier!Child : Opener(j)' <=> Opener(j)
  BY <1>2, <1>4 DEF Opener
<1>7. \E j \in Barrier!Child : Opener(j)
  BY <1>1, <1>2 DEF OpenedByTheLast, Opener
<1>8. OpenedByTheLast'
  <2>1. \A j \in Barrier!Child :
          /\ pc'[j] = "sem_post" => cnt'[j] = Children
          /\ pc'[j] = "sem_wait" => cnt'[j] # Children
          /\ posts'[j] > 0 => Opener(j)'
          /\ cnt'[j] = Children => sem_barrier' + posts'[j] <= Children - 1
    BY <1>1, <1>2, <1>4, <1>6 DEF OpenedByTheLast
  <2>2. \E j \in Barrier!Child : Opener(j)'
    BY <1>6, <1>7
  <2> QED BY <2>1, <2>2 DEF OpenedByTheLast
<1>9. PostsCounted'
  <2>1. BeforeTheBarrier' = BeforeTheBarrier /\ NobodyDead' = NobodyDead
    BY <1>2, <1>4 DEF BeforeTheBarrier, NobodyDead
  <2> QED BY <1>1, <1>2, <1>6, <2>1 DEF PostsCounted
<1> QED BY <1>4, <1>5, <1>8, <1>9 DEF BarrierInv

\* A child takes a post and passes.
LEMMA PassKeeps ==
  ASSUME BarrierInv, NEW i \in Barrier!Child, Barrier!Pass(i)
  PROVE  BarrierInv'
<1>1. /\ BarrierTyped /\ OpenedByTheLast /\ PostsCounted /\ ArrivalsCounted
  BY DEF BarrierInv
<1>2. /\ pc[i] = "sem_wait" /\ pc' = [pc EXCEPT ![i] = "passed"]
      /\ sem_barrier > 0 /\ sem_barrier' = sem_barrier - 1
      /\ UNCHANGED <<forked, parent, reaped, total, cnt, posts, barrier_count, workResults>>
  BY DEF Barrier!Pass, Barrier!Goto, Barrier!parentVars
<1>3. /\ cnt[i] > 0 /\ cnt[i] # Children /\ cnt[i] \in 0..Children
      /\ "passed" \in ChildPlaces \ {"unborn", "work"}
  BY <1>1, <1>2 DEF ArrivalsCounted, OpenedByTheLast, BarrierTyped, ChildPlaces
<1>4. /\ pc' \in [Barrier!Child -> ChildPlaces] /\ pc'[i] = "passed"
      /\ \A j \in Barrier!Child : j # i => pc'[j] = pc[j]
      /\ ResultsStored' /\ ChildrenBorn' /\ ArrivalsCounted'
  BY <1>2, <1>3, ChildGoesOn
<1>5. sem_barrier \in 0..(Children - 1) /\ sem_barrier - 1 \in 0..(Children - 1)
  BY <1>1, <1>2, BarrierConstants DEF BarrierTyped
<1>6. BarrierTyped'
  BY <1>1, <1>2, <1>4, <1>5 DEF BarrierTyped
<1>7. \A j \in Barrier!Child : Opener(j)' <=> Opener(j)
  BY <1>2, <1>3, <1>4 DEF Opener
<1>8. PICK k \in Barrier!Child : Opener(k)
  BY <1>1, <1>2 DEF OpenedByTheLast
<1>9. OpenedByTheLast'
  <2>1. \A j \in Barrier!Child :
          /\ pc'[j] = "sem_post" => cnt'[j] = Children
          /\ pc'[j] = "sem_wait" => cnt'[j] # Children
          /\ posts'[j] > 0 => Opener(j)'
    BY <1>1, <1>2, <1>4, <1>7 DEF OpenedByTheLast
  <2>2. ASSUME NEW j \in Barrier!Child, cnt'[j] = Children
        PROVE  sem_barrier' + posts'[j] <= Children - 1
    <3>1. sem_barrier + posts[j] <= Children - 1 /\ posts[j] \in 0..(Children - 1)
      BY <1>1, <1>2, <2>2 DEF OpenedByTheLast, BarrierTyped
    <3> QED BY <1>2, <1>5, <3>1, BarrierConstants
  <2>3. \E j \in Barrier!Child : Opener(j)'
    BY <1>7, <1>8
  <2> QED BY <2>1, <2>2, <2>3 DEF OpenedByTheLast
<1>10. PostsCounted'
  <2> SUFFICES ASSUME NobodyDead', NEW j \in Barrier!Child, Opener(j)
               PROVE  /\ sem_barrier' + posts'[j] = Cardinality(BeforeTheBarrier')
                      /\ \A m \in Barrier!Child \ {j} : posts'[m] = 0
                      /\ barrier_count' = 0
    BY <1>7 DEF PostsCounted
  <2>1. NobodyDead
    BY <1>2, <1>4 DEF NobodyDead
  <2>2. /\ sem_barrier + posts[j] = Cardinality(BeforeTheBarrier)
        /\ \A m \in Barrier!Child \ {j} : posts[m] = 0
        /\ barrier_count = 0
    BY <1>1, <2>1 DEF PostsCounted
  <2>3. /\ i \in BeforeTheBarrier /\ BeforeTheBarrier' = BeforeTheBarrier \ {i}
        /\ BeforeTheBarrier \in SUBSET Barrier!Child
    BY <1>2, <1>3, <1>4, BarrierConstants DEF BeforeTheBarrier
  <2>4. Cardinality(BeforeTheBarrier') = Cardinality(BeforeTheBarrier) - 1
    BY <2>3, SomeChildren, FS_RemoveElement
  <2>5. posts[j] \in 0..(Children - 1)
    BY <1>1 DEF BarrierTyped
  <2>6. sem_barrier' + posts'[j] = Cardinality(BeforeTheBarrier')
    BY <1>2, <1>5, <2>2, <2>4, <2>5, BarrierConstants
  <2> QED BY <1>2, <2>2, <2>6
<1> QED BY <1>4, <1>6, <1>9, <1>10 DEF BarrierInv

\* A child dies: what it has done stays done, and what it has not is not promised.
LEMMA DieKeeps ==
  ASSUME BarrierInv, NEW i \in Barrier!Child, Barrier!Die(i)
  PROVE  BarrierInv'
<1>1. /\ BarrierTyped /\ OpenedByTheLast /\ PostsCounted /\ ArrivalsCounted
  BY DEF BarrierInv
<1>2. /\ pc[i] \notin {"unborn", "exited", "dead"} /\ pc' = [pc EXCEPT ![i] = "dead"]
      /\ UNCHANGED <<forked, parent, reaped, total, cnt, posts, barrier_count, workResults,
                     sem_barrier>>
  BY DEF Barrier!Die, Barrier!Goto, Barrier!parentVars, Barrier!sharedVars
<1>3. "dead" \in ChildPlaces \ {"unborn", "work"} /\ pc[i] \notin {"unborn", "exited", "dead"}
  BY <1>2 DEF ChildPlaces
<1>4. /\ pc' \in [Barrier!Child -> ChildPlaces] /\ pc'[i] = "dead"
      /\ \A j \in Barrier!Child : j # i => pc'[j] = pc[j]
      /\ ResultsStored' /\ ChildrenBorn' /\ ArrivalsCounted'
  BY <1>2, <1>3, ChildGoesOn
<1>5. BarrierTyped'
  BY <1>1, <1>2, <1>4 DEF BarrierTyped
<1>6. \A j \in Barrier!Child : Opener(j) => Opener(j)'
  BY <1>2, <1>4 DEF Opener
<1>7. OpenedByTheLast'
  <2>1. \A j \in Barrier!Child :
          /\ pc'[j] = "sem_post" => cnt'[j] = Children
          /\ pc'[j] = "sem_wait" => cnt'[j] # Children
          /\ posts'[j] > 0 => Opener(j)'
          /\ pc'[j] \in {"passed", "stored", "exited"} => \E k \in Barrier!Child : Opener(k)'
          /\ cnt'[j] = Children => sem_barrier' + posts'[j] <= Children - 1
    BY <1>1, <1>2, <1>4, <1>6 DEF OpenedByTheLast
  <2>2. sem_barrier' > 0 => \E k \in Barrier!Child : Opener(k)'
    BY <1>1, <1>2, <1>6 DEF OpenedByTheLast
  <2> QED BY <2>1, <2>2 DEF OpenedByTheLast
<1>8. PostsCounted'
  BY <1>4 DEF PostsCounted, NobodyDead
<1> QED BY <1>4, <1>5, <1>7, <1>8 DEF BarrierInv

LEMMA BarrierStands == BarrierInv /\ UNCHANGED barrierVars => BarrierInv'
  BY DEF barrierVars, BarrierInv, BarrierTyped, ResultsStored, ChildrenBorn, ArrivalsCounted,
         Barrier!CellOf, OpenedByTheLast, PostsCounted, Came, Opener, BeforeTheBarrier, NobodyDead

LEMMA BarrierNext == BarrierInv /\ Barrier!Next => BarrierInv'
<1> SUFFICES ASSUME BarrierInv, Barrier!Next PROVE BarrierInv'
  OBVIOUS
<1>1. CASE Barrier!ParentStep
  BY <1>1, ForkKeeps, BarrierParentKeeps DEF Barrier!ParentStep
<1>2. ASSUME NEW i \in Barrier!Child, Barrier!ChildStep(i) \/ Barrier!Die(i)
      PROVE  BarrierInv'
  BY <1>2, ArriveKeeps, BlockKeeps, ResetCountKeeps, PostOneKeeps, PassLastAndStoreKeep,
     PassKeeps, DieKeeps DEF Barrier!ChildStep
<1> QED BY <1>1, <1>2 DEF Barrier!Next

LEMMA BarrierInvariant == Spec => [](program = "Barrier" => BarrierInv)
<1>1. Init => (program = "Barrier" => BarrierInv)
  BY BarrierInit DEF Init
<1>2. (program = "Barrier" => BarrierInv) /\ [Next]_vars => (program = "Barrier" => BarrierInv)'
  BY BarrierNext, BarrierStands DEF Next, vars
<1> QED BY <1>1, <1>2, PTL DEF Spec

\* The barrier of TaskBarrier is consistent and holds everybody back until all have
\* come, whichever children die.
THEOREM BarrierHolds == Spec => []BarrierConsistent
<1>1. (program = "Barrier" => BarrierInv) => BarrierConsistent
  BY BarrierImplies DEF BarrierConsistent
<1> QED BY <1>1, BarrierInvariant, PTL

(***************************************************************************)
(* Archiver.  Besides the property itself: nothing is queued, taken or        *)
(* listed before main has filled the queue, and a thread of the pool ends     *)
(* only when the filled queue is empty.                                      *)
(***************************************************************************)
PoolMax == Archive!Max(Cores \cup {FileCount})
PoolPlaces == {"wait", "asleep", "process", "count", "ended"}

ArchiveTyped == /\ cores \in Nat
                /\ queue \in Seq(Archive!File)
                /\ place \in [1..PoolMax -> PoolPlaces]
                /\ file \in [1..PoolMax -> 0..FileCount]
                /\ results \in Seq(Archive!ToSet(results))
                /\ processed \in Nat

BeforeTheFill == /\ main = "fill" <=> ~all_pushed
                 /\ ~all_pushed => /\ queue = <<>> /\ results = <<>>
                                   /\ \A t \in 1..PoolMax : place[t] \notin {"process", "count"}

Processing == {t \in 1..PoolMax : place[t] = "process"}
AboutToCount == {t \in 1..PoolMax : place[t] = "count"}
Names == {r.filename : r \in Archive!ToSet(results)}
InProcess == {file[t] : t \in Processing}

FilesCounted ==
  /\ all_pushed => /\ Archive!ToSet(queue) \cup InProcess \cup Names = Archive!File
                   /\ Len(queue) + Cardinality(Processing) + Len(results) = FileCount
  /\ processed + Cardinality(AboutToCount) = Len(results)

EndsAtTheEnd == /\ \A t \in 1..PoolMax :
                     t <= Archive!PoolSize /\ place[t] = "ended" => all_pushed /\ queue = <<>>
                /\ main = "reported" => \A t \in 1..PoolMax : place[t] = "ended"

ArchiveInv == ArchiveTyped /\ BeforeTheFill /\ FilesCounted /\ EndsAtTheEnd

LEMMA ArchiveConstants ==
  /\ FileCount \in Nat /\ FileCount > 0 /\ Archive!File = 1..FileCount
  /\ Cores \subseteq Nat
  /\ PoolMax \in Nat /\ PoolMax >= FileCount /\ Archive!Thread = 1..PoolMax
<1> DEFINE S == Cores \cup {FileCount}
           R == {p \in S \X S : p[1] > p[2]}
<1>1. /\ FileCount \in Nat /\ FileCount > 0 /\ Archive!File = 1..FileCount
      /\ Cores \subseteq Nat /\ IsFiniteSet(Cores)
  BY WorkshopsAssumption DEF Archive!ArchiverAssumption, Archive!File, Archive!IsFiniteSet,
                             IsFiniteSet
<1>2. S \subseteq Nat /\ S # {} /\ IsFiniteSet(S) /\ FileCount \in S
  BY <1>1, FS_AddElement
<1>3. \A x, y \in S : <<x, y>> \in R <=> x > y
  OBVIOUS
<1> HIDE DEF S, R
<1>4. /\ \A x \in S : <<x, x>> \notin R
      /\ \A x, y, z \in S : <<x, y>> \in R /\ <<y, z>> \in R => <<x, z>> \in R
  BY <1>2, <1>3
<1>5. PICK x \in S : \A y \in S : <<y, x>> \notin R
  BY <1>2, <1>4, FirstOfFinite
<1>6. ASSUME NEW y \in S PROVE x >= y
  <2>1. x \in Nat /\ y \in Nat /\ ~(y > x)
    BY <1>2, <1>3, <1>5
  <2> QED BY <2>1
<1>7. Archive!Max(S) \in S /\ \A y \in S : Archive!Max(S) >= y
  BY <1>6 DEF Archive!Max
<1>8. PoolMax \in Nat /\ PoolMax >= FileCount
  BY <1>2, <1>7 DEF PoolMax, S
<1> QED BY <1>1, <1>8 DEF Archive!Thread, PoolMax

\* The pool has as many threads as there are files, or cores when these are fewer.
LEMMA PoolHasThreads ==
  ASSUME cores \in Nat
  PROVE  Archive!PoolSize \in Nat
<1>1. CASE FileCount <= cores
  <2>1. \E x \in {FileCount, cores} : \A y \in {FileCount, cores} : x <= y
    BY <1>1, ArchiveConstants
  <2>2. Archive!Min({FileCount, cores}) \in {FileCount, cores}
    BY <2>1 DEF Archive!Min
  <2> QED BY <2>2, ArchiveConstants DEF Archive!PoolSize
<1>2. CASE ~(FileCount <= cores)
  <2>1. \E x \in {FileCount, cores} : \A y \in {FileCount, cores} : x <= y
    BY <1>2, ArchiveConstants
  <2>2. Archive!Min({FileCount, cores}) \in {FileCount, cores}
    BY <2>1 DEF Archive!Min
  <2> QED BY <2>2, ArchiveConstants DEF Archive!PoolSize
<1> QED BY <1>1, <1>2

LEMMA ArchiveImplies == ArchiveInv => Archive!ArchiverConsistent
<1> SUFFICES ASSUME ArchiveInv PROVE Archive!ArchiverConsistent
  OBVIOUS
<1>1. /\ Archive!Taken = InProcess
      /\ {t \in Archive!Thread : place[t] = "process"} = Processing
      /\ {t \in Archive!Thread : place[t] = "count"} = AboutToCount
  BY ArchiveConstants DEF Archive!Taken, InProcess, Processing, AboutToCount
<1>2. Archive!FilesAccountedFor
  BY <1>1, SameSizes DEF ArchiveInv, FilesCounted, Names, Archive!FilesAccountedFor
<1>3. ASSUME main = "reported", Archive!PoolSize > 0
      PROVE  processed = FileCount /\ queue = <<>>
  <2>1. /\ ArchiveTyped /\ BeforeTheFill /\ FilesCounted /\ EndsAtTheEnd
    BY DEF ArchiveInv
  <2>2. 1 \in 1..PoolMax /\ 1 <= Archive!PoolSize
    BY <1>3, <2>1, PoolHasThreads, ArchiveConstants DEF ArchiveTyped
  <2>3. all_pushed /\ queue = <<>> /\ \A t \in 1..PoolMax : place[t] = "ended"
    BY <1>3, <2>1, <2>2 DEF EndsAtTheEnd
  <2>4. Processing = {} /\ AboutToCount = {} /\ Len(queue) = 0
    BY <2>3 DEF Processing, AboutToCount
  <2>5. Cardinality(Processing) = 0 /\ Cardinality(AboutToCount) = 0
    BY <2>4, FS_EmptySet
  <2>6. Len(results) \in Nat /\ processed \in Nat
    BY <2>1, LenProperties DEF ArchiveTyped
  <2> QED BY <2>1, <2>3, <2>4, <2>5, <2>6 DEF FilesCounted
<1> QED BY <1>2, <1>3 DEF Archive!ArchiverConsistent

LEMMA ArchiveInit == Archive!Init => ArchiveInv
<1> SUFFICES ASSUME Archive!Init PROVE ArchiveInv
  OBVIOUS
<1>1. /\ cores \in Nat /\ queue = <<>> /\ all_pushed = FALSE /\ results = <<>>
      /\ processed = 0 /\ main = "fill"
      /\ place = [t \in 1..PoolMax |-> IF t <= Archive!PoolSize THEN "wait" ELSE "ended"]
      /\ file = [t \in 1..PoolMax |-> 0]
  BY ArchiveConstants DEF Archive!Init
<1>2. ArchiveTyped
  <2>1. queue \in Seq(Archive!File) /\ results \in Seq(Archive!ToSet(results))
    BY <1>1, EmptySeq
  <2>2. place \in [1..PoolMax -> PoolPlaces] /\ file \in [1..PoolMax -> 0..FileCount]
    BY <1>1, ArchiveConstants DEF PoolPlaces
  <2> QED BY <1>1, <2>1, <2>2 DEF ArchiveTyped
<1>3. BeforeTheFill
  BY <1>1 DEF BeforeTheFill
<1>4. FilesCounted
  <2>1. AboutToCount = {} /\ Len(results) = 0
    BY <1>1 DEF AboutToCount
  <2> QED BY <1>1, <2>1, FS_EmptySet DEF FilesCounted
<1>5. EndsAtTheEnd
  <2>1. Archive!PoolSize \in Nat
    BY <1>1, PoolHasThreads
  <2> QED BY <1>1, <2>1 DEF EndsAtTheEnd
<1> QED BY <1>2, <1>3, <1>4, <1>5 DEF ArchiveInv

\* What is in a sequence one of whose ends changes.
LEMMA QueueEnds ==
  ASSUME NEW S, NEW s \in Seq(S), s # <<>>
  PROVE  /\ Head(s) \in S /\ Tail(s) \in Seq(S) /\ Len(Tail(s)) = Len(s) - 1 /\ Len(s) \in Nat
         /\ Archive!ToSet(s) = Archive!ToSet(Tail(s)) \cup {Head(s)}
<1>1. /\ Head(s) \in S /\ Tail(s) \in Seq(S) /\ Len(Tail(s)) = Len(s) - 1
      /\ \A i \in 1..Len(Tail(s)) : Tail(s)[i] = s[i + 1]
  BY HeadTailProperties
<1>2. /\ Len(s) \in Nat \ {0} /\ DOMAIN s = 1..Len(s) /\ Head(s) = s[1]
      /\ DOMAIN Tail(s) = 1..Len(Tail(s))
  BY <1>1, LenProperties, EmptySeq
<1> DEFINE r == Tail(s)
           h == Head(s)
           n == Len(s)
<1>3. /\ n \in Nat \ {0} /\ DOMAIN s = 1..n /\ DOMAIN r = 1..(n - 1) /\ h = s[1]
      /\ \A i \in 1..(n - 1) : r[i] = s[i + 1]
  BY <1>1, <1>2
<1> HIDE DEF r, h, n
<1>4. {s[i] : i \in 1..n} = {r[i] : i \in 1..(n - 1)} \cup {h}
  <2>1. ASSUME NEW i \in 1..n PROVE s[i] \in {r[j] : j \in 1..(n - 1)} \cup {h}
    <3>1. CASE i = 1
      BY <1>3, <3>1
    <3>2. CASE i # 1
      <4>1. i - 1 \in 1..(n - 1) /\ (i - 1) + 1 = i
        BY <1>3, <3>2
      <4>2. r[i - 1] = s[i]
        BY <1>3, <4>1
      <4> QED BY <4>1, <4>2
    <3> QED BY <3>1, <3>2
  <2>2. ASSUME NEW j \in 1..(n - 1) PROVE r[j] \in {s[i] : i \in 1..n}
    <3>1. j + 1 \in 1..n
      BY <1>3
    <3> QED BY <1>3, <3>1
  <2>3. h \in {s[i] : i \in 1..n}
    BY <1>3
  <2> QED BY <2>1, <2>2, <2>3
<1>5. Archive!ToSet(s) = {s[i] : i \in 1..n} /\ Archive!ToSet(r) = {r[i] : i \in 1..(n - 1)}
  BY <1>3 DEF Archive!ToSet
<1> QED BY <1>1, <1>2, <1>4, <1>5 DEF r, h

LEMMA ListGrows ==
  ASSUME NEW s, s \in Seq(Archive!ToSet(s)), NEW x
  PROVE  /\ Append(s, x) \in Seq(Archive!ToSet(Append(s, x)))
         /\ Len(Append(s, x)) = Len(s) + 1 /\ Len(s) \in Nat
         /\ Archive!ToSet(Append(s, x)) = Archive!ToSet(s) \cup {x}
<1> DEFINE S == Archive!ToSet(s) \cup {x}
           n == Len(s)
<1>1. n \in Nat /\ DOMAIN s = 1..n /\ s \in [1..n -> Archive!ToSet(s)]
  BY LenProperties
<1>2. s \in Seq(S)
  <2>1. s \in [1..n -> S]
    BY <1>1
  <2> HIDE DEF S, n
  <2> QED BY <1>1, <2>1, SeqDef
<1>3. /\ Append(s, x) \in Seq(S) /\ Len(Append(s, x)) = n + 1
      /\ \A i \in 1..n : Append(s, x)[i] = s[i]
      /\ Append(s, x)[n + 1] = x
  BY <1>2, AppendProperties
<1> DEFINE a == Append(s, x)
<1>4. DOMAIN a = 1..(n + 1) /\ \A i \in 1..n : a[i] = s[i] /\ a[n + 1] = x
  BY <1>3, LenProperties
<1> HIDE DEF a, n
<1>5. {a[i] : i \in 1..(n + 1)} = {s[i] : i \in 1..n} \cup {x}
  <2>1. a[n + 1] = x
    BY <1>3 DEF a, n
  <2>2. \A i \in 1..(n + 1) : i \in 1..n \/ i = n + 1
    BY <1>1
  <2>3. 1..n \subseteq 1..(n + 1) /\ n + 1 \in 1..(n + 1)
    BY <1>1
  <2> QED BY <1>4, <2>1, <2>2, <2>3
<1>6. Archive!ToSet(a) = S
  BY <1>1, <1>4, <1>5 DEF Archive!ToSet
<1> QED BY <1>1, <1>3, <1>6 DEF a, n

\* One thread moves from a place to the place l.
LEMMA ThreadMoves ==
  ASSUME ArchiveTyped, NEW t \in 1..PoolMax, NEW l \in PoolPlaces, Archive!Goto(t, l)
  PROVE  /\ place' \in [1..PoolMax -> PoolPlaces]
         /\ place'[t] = l /\ \A u \in 1..PoolMax : u # t => place'[u] = place[u]
         /\ Cardinality(Processing) \in Nat /\ Cardinality(Processing') \in Nat
         /\ Cardinality(Processing') =
              Cardinality(Processing) + (IF place[t] # "process" /\ l = "process" THEN 1
                                         ELSE IF place[t] = "process" /\ l # "process" THEN -1
                                         ELSE 0)
         /\ Cardinality(AboutToCount) \in Nat /\ Cardinality(AboutToCount') \in Nat
         /\ Cardinality(AboutToCount') =
              Cardinality(AboutToCount) + (IF place[t] # "count" /\ l = "count" THEN 1
                                           ELSE IF place[t] = "count" /\ l # "count" THEN -1
                                           ELSE 0)
<1>1. /\ place' \in [1..PoolMax -> PoolPlaces]
      /\ place'[t] = l /\ \A u \in 1..PoolMax : u # t => place'[u] = place[u]
  BY DEF ArchiveTyped, Archive!Goto
<1>2. PoolMax \in Nat
  BY ArchiveConstants
<1>3. /\ Processing \in SUBSET (1..PoolMax) /\ Processing' \in SUBSET (1..PoolMax)
      /\ \A u \in 1..PoolMax : u # t => (u \in Processing <=> u \in Processing')
      /\ t \in Processing <=> place[t] = "process"
      /\ t \in Processing' <=> l = "process"
  BY <1>1 DEF Processing
<1>4. /\ AboutToCount \in SUBSET (1..PoolMax) /\ AboutToCount' \in SUBSET (1..PoolMax)
      /\ \A u \in 1..PoolMax : u # t => (u \in AboutToCount <=> u \in AboutToCount')
      /\ t \in AboutToCount <=> place[t] = "count"
      /\ t \in AboutToCount' <=> l = "count"
  BY <1>1 DEF AboutToCount
<1>5. /\ Cardinality(Processing) \in Nat /\ Cardinality(Processing') \in Nat
      /\ Cardinality(Processing') =
           Cardinality(Processing) + (IF t \notin Processing /\ t \in Processing' THEN 1
                                      ELSE IF t \in Processing /\ t \notin Processing' THEN -1
                                      ELSE 0)
  BY <1>2, <1>3, OneMoves
<1>6. /\ Cardinality(AboutToCount) \in Nat /\ Cardinality(AboutToCount') \in Nat
      /\ Cardinality(AboutToCount') =
           Cardinality(AboutToCount) + (IF t \notin AboutToCount /\ t \in AboutToCount' THEN 1
                                        ELSE IF t \in AboutToCount /\ t \notin AboutToCount'
                                             THEN -1 ELSE 0)
  BY <1>2, <1>4, OneMoves
<1> QED BY <1>1, <1>3, <1>4, <1>5, <1>6

\* The thread that takes a step has not ended: main has not reported.
LEMMA StillAtWork ==
  ASSUME ArchiveInv, NEW t \in 1..PoolMax, place[t] # "ended"
  PROVE  main # "reported"
  BY DEF ArchiveInv, EndsAtTheEnd

\* Sleep, SpuriousWake and Quit only move a thread that has no file.
LEMMA ArchiveWaitKeeps ==
  ASSUME ArchiveInv, NEW t \in Archive!Thread,
         Archive!Sleep(t) \/ Archive!SpuriousWake(t) \/ Archive!Quit(t)
  PROVE  ArchiveInv'
<1>1. /\ ArchiveTyped /\ BeforeTheFill /\ FilesCounted /\ EndsAtTheEnd
      /\ t \in 1..PoolMax
  BY ArchiveConstants DEF ArchiveInv
<1>2. PICK l \in {"wait", "asleep", "ended"} :
        /\ Archive!Goto(t, l)
        /\ l = "ended" => all_pushed /\ queue = <<>>
  BY DEF Archive!Sleep, Archive!SpuriousWake, Archive!Quit
<1>3. /\ place[t] \in {"wait", "asleep"}
      /\ UNCHANGED <<cores, queue, all_pushed, file, results, processed, main>>
  BY DEF Archive!Sleep, Archive!SpuriousWake, Archive!Quit
<1>4. /\ place' \in [1..PoolMax -> PoolPlaces]
      /\ place'[t] = l /\ \A u \in 1..PoolMax : u # t => place'[u] = place[u]
  <2>1. l \in PoolPlaces /\ Archive!Goto(t, l)
    BY <1>2 DEF PoolPlaces
  <2> QED BY <1>1, <2>1, ThreadMoves
<1>5. Processing' = Processing /\ AboutToCount' = AboutToCount /\ InProcess' = InProcess
  BY <1>1, <1>3, <1>4 DEF Processing, AboutToCount, InProcess
<1>6. main # "reported"
  BY <1>1, <1>3, StillAtWork
<1>7. ArchiveTyped'
  BY <1>1, <1>3, <1>4 DEF ArchiveTyped
<1>8. BeforeTheFill'
  BY <1>1, <1>3, <1>4 DEF BeforeTheFill
<1>9. FilesCounted'
  BY <1>1, <1>3, <1>5 DEF FilesCounted, Names
<1>10. EndsAtTheEnd'
  <2>1. Archive!PoolSize' = Archive!PoolSize
    BY <1>3 DEF Archive!PoolSize
  <2>2. ASSUME NEW u \in 1..PoolMax, u <= Archive!PoolSize, place'[u] = "ended"
        PROVE  all_pushed' /\ queue' = <<>>
    BY <1>1, <1>2, <1>3, <1>4, <2>2 DEF EndsAtTheEnd
  <2> QED BY <1>3, <1>6, <2>1, <2>2 DEF EndsAtTheEnd
<1> QED BY <1>7, <1>8, <1>9, <1>10 DEF ArchiveInv

\* The file at the head of the queue goes to the thread.
LEMMA TakeFileKeeps ==
  ASSUME ArchiveInv, NEW t \in Archive!Thread, Archive!TakeFile(t)
  PROVE  ArchiveInv'
<1>1. /\ ArchiveTyped /\ BeforeTheFill /\ FilesCounted /\ EndsAtTheEnd
      /\ t \in 1..PoolMax
  BY ArchiveConstants DEF ArchiveInv
<1>2. /\ place[t] = "wait" /\ queue # <<>> /\ queue' = Tail(queue)
      /\ file' = [file EXCEPT ![t] = Head(queue)] /\ Archive!Goto(t, "process")
      /\ UNCHANGED <<cores, all_pushed, results, processed, main>>
  BY DEF Archive!TakeFile
<1>3. /\ Head(queue) \in 1..FileCount /\ queue' \in Seq(Archive!File)
      /\ Len(queue') = Len(queue) - 1 /\ Len(queue) \in Nat
      /\ Archive!ToSet(queue) = Archive!ToSet(queue') \cup {Head(queue)}
  BY <1>1, <1>2, QueueEnds, ArchiveConstants DEF ArchiveTyped
<1>4. /\ place' \in [1..PoolMax -> PoolPlaces]
      /\ place'[t] = "process" /\ \A u \in 1..PoolMax : u # t => place'[u] = place[u]
      /\ Cardinality(Processing) \in Nat
      /\ Cardinality(Processing') = Cardinality(Processing) + 1
      /\ Cardinality(AboutToCount) \in Nat
      /\ Cardinality(AboutToCount') = Cardinality(AboutToCount)
  BY <1>1, <1>2, ThreadMoves DEF PoolPlaces
<1>5. /\ file' \in [1..PoolMax -> 0..FileCount]
      /\ file'[t] = Head(queue) /\ \A u \in 1..PoolMax : u # t => file'[u] = file[u]
  BY <1>1, <1>2, <1>3, ArchiveConstants DEF ArchiveTyped
<1>6. InProcess' = InProcess \cup {Head(queue)}
  <2>1. Processing' = Processing \cup {t} /\ t \notin Processing
    BY <1>1, <1>2, <1>4 DEF Processing
  <2>2. \A u \in Processing : u \in 1..PoolMax
    BY DEF Processing
  <2>3. InProcess' = {file'[u] : u \in Processing'}
    BY DEF InProcess
  <2> QED BY <1>5, <2>1, <2>2, <2>3 DEF InProcess
<1>7. main # "reported" /\ all_pushed
  BY <1>1, <1>2, StillAtWork DEF BeforeTheFill
<1>8. ArchiveTyped'
  BY <1>1, <1>2, <1>3, <1>4, <1>5 DEF ArchiveTyped
<1>9. BeforeTheFill'
  BY <1>1, <1>2, <1>7 DEF BeforeTheFill
<1>10. FilesCounted'
  <2>1. Archive!ToSet(queue') \cup InProcess' \cup Names = Archive!File
    BY <1>1, <1>3, <1>6, <1>7 DEF FilesCounted
  <2>2. Len(results) \in Nat
    BY <1>1, LenProperties DEF ArchiveTyped
  <2>3. Len(queue') + Cardinality(Processing') + Len(results) = FileCount
    BY <1>1, <1>3, <1>4, <1>7, <2>2 DEF FilesCounted
  <2> QED BY <1>1, <1>2, <1>4, <1>7, <2>1, <2>3 DEF FilesCounted, Names
<1>11. EndsAtTheEnd'
  BY <1>1, <1>2, <1>4, <1>7 DEF EndsAtTheEnd, Archive!PoolSize
<1> QED BY <1>8, <1>9, <1>10, <1>11 DEF ArchiveInv

\* What a file's result is called.
LEMMA NamedByFile == \A f : Archive!ProcessFile(f).filename = f
  BY DEF Archive!ProcessFile

\* The result of the thread's file is listed.
LEMMA PushResultKeeps ==
  ASSUME ArchiveInv, NEW t \in Archive!Thread, Archive!PushResult(t)
  PROVE  ArchiveInv'
<1>1. /\ ArchiveTyped /\ BeforeTheFill /\ FilesCounted /\ EndsAtTheEnd
      /\ t \in 1..PoolMax
  BY ArchiveConstants DEF ArchiveInv
<1> DEFINE r == Archive!ProcessFile(file[t])
<1>2. /\ place[t] = "process" /\ Archive!Goto(t, "count") /\ results' = Append(results, r)
      /\ UNCHANGED <<cores, queue, all_pushed, file, processed, main>>
  BY DEF Archive!PushResult
<1>3. r.filename = file[t]
  BY NamedByFile
<1> HIDE DEF r
<1>4. /\ place' \in [1..PoolMax -> PoolPlaces]
      /\ place'[t] = "count" /\ \A u \in 1..PoolMax : u # t => place'[u] = place[u]
      /\ Cardinality(Processing) \in Nat
      /\ Cardinality(Processing') = Cardinality(Processing) - 1
      /\ Cardinality(AboutToCount) \in Nat
      /\ Cardinality(AboutToCount') = Cardinality(AboutToCount) + 1
  <2>1. "count" \in PoolPlaces /\ "process" # "count"
    BY DEF PoolPlaces
  <2>2. Cardinality(Processing) \in Nat /\ Cardinality(Processing') = Cardinality(Processing) + (-1)
    BY <1>1, <1>2, <2>1, ThreadMoves
  <2> QED BY <1>1, <1>2, <2>1, <2>2, ThreadMoves
<1>5. /\ results' \in Seq(Archive!ToSet(results'))
      /\ Len(results') = Len(results) + 1 /\ Len(results) \in Nat
      /\ Archive!ToSet(results') = Archive!ToSet(results) \cup {r}
  BY <1>1, <1>2, ListGrows DEF ArchiveTyped
<1>6. Names' = Names \cup {file[t]}
  BY <1>3, <1>5 DEF Names
<1>7. InProcess = InProcess' \cup {file[t]}
  <2>1. Processing = Processing' \cup {t}
    BY <1>1, <1>2, <1>4 DEF Processing
  <2>2. InProcess' = {file[u] : u \in Processing'}
    BY <1>2 DEF InProcess
  <2> QED BY <2>1, <2>2 DEF InProcess
<1>8. main # "reported" /\ all_pushed
  BY <1>1, <1>2, StillAtWork DEF BeforeTheFill
<1>9. ArchiveTyped'
  BY <1>1, <1>2, <1>4, <1>5 DEF ArchiveTyped
<1>10. BeforeTheFill'
  BY <1>1, <1>2, <1>8 DEF BeforeTheFill
<1>11. FilesCounted'
  <2>1. Archive!ToSet(queue) \cup InProcess' \cup Names' = Archive!File
    BY <1>1, <1>6, <1>7, <1>8 DEF FilesCounted
  <2>2. Len(queue) \in Nat /\ processed \in Nat
    BY <1>1, LenProperties DEF ArchiveTyped
  <2> DEFINE p == Cardinality(Processing)
             c == Cardinality(AboutToCount)
  <2>3. Len(queue) + p + Len(results) = FileCount /\ processed + c = Len(results)
    BY <1>1, <1>8 DEF FilesCounted
  <2>4. p \in Nat /\ Cardinality(Processing') = p - 1
    BY <1>4
  <2>5. c \in Nat /\ Cardinality(AboutToCount') = c + 1
    BY <1>4
  <2> HIDE DEF p, c
  <2>6. Len(queue) + Cardinality(Processing') + Len(results') = FileCount
    BY <1>5, <2>2, <2>3, <2>4
  <2>7. processed + Cardinality(AboutToCount') = Len(results')
    BY <1>5, <2>2, <2>3, <2>5
  <2> QED BY <1>2, <2>1, <2>6, <2>7 DEF FilesCounted
<1>12. EndsAtTheEnd'
  BY <1>1, <1>2, <1>4, <1>8 DEF EndsAtTheEnd, Archive!PoolSize
<1> QED BY <1>9, <1>10, <1>11, <1>12 DEF ArchiveInv

\* The thread counts the file it has listed.
LEMMA CountFileKeeps ==
  ASSUME ArchiveInv, NEW t \in Archive!Thread, Archive!CountFile(t)
  PROVE  ArchiveInv'
<1>1. /\ ArchiveTyped /\ BeforeTheFill /\ FilesCounted /\ EndsAtTheEnd
      /\ t \in 1..PoolMax
  BY ArchiveConstants DEF ArchiveInv
<1>2. /\ place[t] = "count" /\ Archive!Goto(t, "wait") /\ processed' = processed + 1
      /\ file' = [file EXCEPT ![t] = 0]
      /\ UNCHANGED <<cores, queue, all_pushed, results, main>>
  BY DEF Archive!CountFile
<1>3. /\ place' \in [1..PoolMax -> PoolPlaces]
      /\ place'[t] = "wait" /\ \A u \in 1..PoolMax : u # t => place'[u] = place[u]
      /\ Cardinality(AboutToCount) \in Nat
      /\ Cardinality(AboutToCount') = Cardinality(AboutToCount) - 1
  <2>1. "wait" \in PoolPlaces /\ "wait" # "count"
    BY DEF PoolPlaces
  <2>2. /\ Cardinality(AboutToCount) \in Nat
        /\ Cardinality(AboutToCount') = Cardinality(AboutToCount) + (-1)
    BY <1>1, <1>2, <2>1, ThreadMoves
  <2> QED BY <1>1, <1>2, <2>1, <2>2, ThreadMoves
<1>4. /\ file' \in [1..PoolMax -> 0..FileCount]
      /\ \A u \in 1..PoolMax : u # t => file'[u] = file[u]
  BY <1>1, <1>2, ArchiveConstants DEF ArchiveTyped
<1>5. Processing' = Processing /\ t \notin Processing
  BY <1>1, <1>2, <1>3 DEF Processing
<1>6. InProcess' = InProcess
  <2>1. \A u \in Processing : u \in 1..PoolMax /\ u # t
    BY <1>5 DEF Processing
  <2> QED BY <1>4, <1>5, <2>1 DEF InProcess
<1>7. main # "reported" /\ all_pushed
  BY <1>1, <1>2, StillAtWork DEF BeforeTheFill
<1>8. ArchiveTyped'
  BY <1>1, <1>2, <1>3, <1>4 DEF ArchiveTyped
<1>9. BeforeTheFill'
  BY <1>1, <1>2, <1>7 DEF BeforeTheFill
<1>10. FilesCounted'
  <2>1. processed' + Cardinality(AboutToCount') = processed + Cardinality(AboutToCount)
    BY <1>1, <1>2, <1>3 DEF ArchiveTyped
  <2> QED BY <1>1, <1>2, <1>5, <1>6, <2>1 DEF FilesCounted, Names
<1>11. EndsAtTheEnd'
  BY <1>1, <1>2, <1>3, <1>7 DEF EndsAtTheEnd, Archive!PoolSize
<1> QED BY <1>8, <1>9, <1>10, <1>11 DEF ArchiveInv

\* main fills the queue with the files of the command line.
LEMMA FillQueueKeeps ==
  ASSUME ArchiveInv, Archive!FillQueue
  PROVE  ArchiveInv'
<1>1. ArchiveTyped /\ BeforeTheFill /\ FilesCounted /\ EndsAtTheEnd
  BY DEF ArchiveInv
<1>2. /\ main = "fill" /\ queue' = [f \in 1..FileCount |-> f] /\ all_pushed' = TRUE
      /\ main' = "notify"
      /\ UNCHANGED <<cores, place, file, results, processed>>
  BY ArchiveConstants DEF Archive!FillQueue
<1>3. /\ ~all_pushed /\ results = <<>>
      /\ \A t \in 1..PoolMax : place[t] \notin {"process", "count"}
  BY <1>1, <1>2 DEF BeforeTheFill
<1>4. queue' \in Seq(Archive!File) /\ Len(queue') = FileCount
  <2>1. queue' \in [1..FileCount -> Archive!File]
    BY <1>2, ArchiveConstants
  <2>2. FileCount \in Nat
    BY ArchiveConstants
  <2>3. queue' \in Seq(Archive!File)
    BY <2>1, <2>2, SeqDef
  <2> QED BY <2>2, <2>3, <1>2, LenProperties
<1>5. Archive!ToSet(queue') = Archive!File
  BY <1>2, ArchiveConstants DEF Archive!ToSet
<1>6. Processing' = {} /\ InProcess' = {}
  BY <1>2, <1>3 DEF Processing, InProcess
<1>7. Len(results) = 0 /\ Archive!ToSet(results) = {}
  BY <1>3 DEF Archive!ToSet
<1>8. ArchiveTyped'
  BY <1>1, <1>2, <1>4 DEF ArchiveTyped
<1>9. BeforeTheFill'
  BY <1>2 DEF BeforeTheFill
<1>10. FilesCounted'
  <2>1. Archive!ToSet(queue') \cup InProcess' \cup Names' = Archive!File
    BY <1>2, <1>5, <1>6, <1>7 DEF Names
  <2>2. Len(queue') + Cardinality(Processing') + Len(results') = FileCount
    BY <1>2, <1>4, <1>6, <1>7, FS_EmptySet, ArchiveConstants
  <2>3. AboutToCount' = AboutToCount
    BY <1>2 DEF AboutToCount
  <2> QED BY <1>1, <1>2, <2>1, <2>2, <2>3 DEF FilesCounted
<1>11. EndsAtTheEnd'
  <2>1. \A t \in 1..PoolMax : ~(t <= Archive!PoolSize /\ place[t] = "ended")
    BY <1>1, <1>3 DEF EndsAtTheEnd
  <2> QED BY <1>2, <2>1 DEF EndsAtTheEnd, Archive!PoolSize
<1> QED BY <1>8, <1>9, <1>10, <1>11 DEF ArchiveInv

\* main wakes every sleeper, and reports when all threads have ended.
LEMMA NotifyAndReportKeep ==
  ASSUME ArchiveInv, Archive!NotifyAll \/ Archive!Report
  PROVE  ArchiveInv'
<1>1. ArchiveTyped /\ BeforeTheFill /\ FilesCounted /\ EndsAtTheEnd
  BY DEF ArchiveInv
<1>2. CASE Archive!NotifyAll
  <2>1. /\ main = "notify" /\ main' = "join"
        /\ place' = [t \in 1..PoolMax |-> IF place[t] = "asleep" THEN "wait" ELSE place[t]]
        /\ UNCHANGED <<cores, queue, all_pushed, file, results, processed>>
    BY <1>2, ArchiveConstants DEF Archive!NotifyAll
  <2>2. /\ place' \in [1..PoolMax -> PoolPlaces]
        /\ \A t \in 1..PoolMax : \A l \in {"process", "count", "ended"} :
             place'[t] = l <=> place[t] = l
    BY <1>1, <2>1 DEF ArchiveTyped, PoolPlaces
  <2>3. Processing' = Processing /\ AboutToCount' = AboutToCount /\ InProcess' = InProcess
    BY <2>1, <2>2 DEF Processing, AboutToCount, InProcess
  <2>4. ArchiveTyped'
    BY <1>1, <2>1, <2>2 DEF ArchiveTyped
  <2>5. BeforeTheFill'
    BY <1>1, <2>1, <2>2 DEF BeforeTheFill
  <2>6. FilesCounted'
    BY <1>1, <2>1, <2>3 DEF FilesCounted, Names
  <2>7. EndsAtTheEnd'
    BY <1>1, <2>1, <2>2 DEF EndsAtTheEnd, Archive!PoolSize
  <2> QED BY <2>4, <2>5, <2>6, <2>7 DEF ArchiveInv
<1>3. CASE Archive!Report
  <2>1. /\ main = "join" /\ main' = "reported"
        /\ \A t \in 1..PoolMax : place[t] = "ended"
        /\ UNCHANGED <<cores, queue, all_pushed, place, file, results, processed>>
    BY <1>3, ArchiveConstants DEF Archive!Report
  <2>2. Processing' = Processing /\ AboutToCount' = AboutToCount /\ InProcess' = InProcess
    BY <2>1 DEF Processing, AboutToCount, InProcess
  <2>3. ArchiveTyped'
    BY <1>1, <2>1 DEF ArchiveTyped
  <2>4. BeforeTheFill'
    BY <1>1, <2>1 DEF BeforeTheFill
  <2>5. FilesCounted'
    BY <1>1, <2>1, <2>2 DEF FilesCounted, Names
  <2>6. EndsAtTheEnd'
    BY <1>1, <2>1 DEF EndsAtTheEnd, Archive!PoolSize
  <2> QED BY <2>3, <2>4, <2>5, <2>6 DEF ArchiveInv
<1> QED BY <1>2, <1>3

LEMMA ArchiveStands == ArchiveInv /\ UNCHANGED archiverVars => ArchiveInv'
<1> SUFFICES ASSUME ArchiveInv, UNCHANGED archiverVars PROVE ArchiveInv'
  OBVIOUS
<1>1. /\ Processing' = Processing /\ AboutToCount' = AboutToCount
      /\ InProcess' = InProcess /\ Names' = Names
  BY DEF archiverVars, Processing, AboutToCount, InProcess, Names
<1>2. ArchiveTyped' /\ BeforeTheFill' /\ EndsAtTheEnd'
  BY DEF archiverVars, ArchiveInv, ArchiveTyped, BeforeTheFill, EndsAtTheEnd, Archive!PoolSize
<1>3. FilesCounted'
  BY <1>1 DEF archiverVars, ArchiveInv, FilesCounted
<1> QED BY <1>2, <1>3 DEF ArchiveInv

LEMMA ArchiveNext == ArchiveInv /\ Archive!Next => ArchiveInv'
<1> SUFFICES ASSUME ArchiveInv, Archive!Next PROVE ArchiveInv'
  OBVIOUS
<1>1. CASE Archive!MainStep
  BY <1>1, FillQueueKeeps, NotifyAndReportKeep DEF Archive!MainStep
<1>2. ASSUME NEW t \in Archive!Thread, Archive!Worker(t) \/ Archive!SpuriousWake(t)
      PROVE  ArchiveInv'
  BY <1>2, ArchiveWaitKeeps, TakeFileKeeps, PushResultKeeps, CountFileKeeps DEF Archive!Worker
<1> QED BY <1>1, <1>2 DEF Archive!Next

LEMMA ArchiveInvariant == Spec => [](program = "Archiver" => ArchiveInv)
<1>1. Init => (program = "Archiver" => ArchiveInv)
  BY ArchiveInit DEF Init
<1>2. (program = "Archiver" => ArchiveInv) /\ [Next]_vars
        => (program = "Archiver" => ArchiveInv)'
  BY ArchiveNext, ArchiveStands DEF Next, vars
<1> QED BY <1>1, <1>2, PTL DEF Spec

\* No file of the Archiver is lost or listed twice, whatever the number of files and
\* cores, and main reports all of them unless the pool has no thread.
THEOREM FilesAreAccountedFor == Spec => []ArchiverConsistent
<1>1. (program = "Archiver" => ArchiveInv) => ArchiverConsistent
  BY ArchiveImplies DEF ArchiverConsistent
<1> QED BY <1>1, ArchiveInvariant, PTL

(***************************************************************************)
(* BlurFilter.  Every cell has one item that loads it; when the barrier is     *)
(* open, the nine cells around an inner pixel hold its neighbours.            *)
(***************************************************************************)
Loaded(i) == \A d \in Filter!Loads(i) :
               localData[Filter!Plus(Filter!LocalCell(i), d)] = Filter!Fetch(Filter!Global(i), d)

BlurTyped == /\ tile \in Int \X Int
             /\ phase \in [Filter!Item -> {"load", "barrier", "ended"}]
             /\ DOMAIN localData = Filter!Cell /\ DOMAIN accOut = Filter!InTile

CellsLoaded == \A i \in Filter!Item : phase[i] # "load" => Loaded(i)
OpenForAll == (\E i \in Filter!Item : phase[i] = "ended") => Filter!BarrierOpen

BlurInv == BlurTyped /\ CellsLoaded /\ OpenForAll /\ Filter!BlurRight

LEMMA BlurConstants == /\ TS \in Nat /\ TS > 0 /\ HEIGHT \in Nat /\ WIDTH \in Nat
                       /\ Filter!Item = (0..(TS - 1)) \X (0..(TS - 1))
                       /\ Filter!Cell = (0..(TS + 1)) \X (0..(TS + 1))
                       /\ Filter!Offset = (-1..1) \X (-1..1)
<1>1. Filter!BlurAssumption
  BY WorkshopsAssumption, Zenon
<1> QED BY <1>1 DEF Filter!BlurAssumption, Filter!Item, Filter!Cell, Filter!Offset

\* In one direction: where a pixel may be beyond the item that loads it.
Beyond(a, b) == b = 0 \/ (b = -1 /\ a = 0) \/ (b = 1 /\ a = TS - 1)

LEMMA BeyondOnce ==
  ASSUME NEW a \in 0..(TS - 1), NEW x \in 0..(TS - 1), NEW b \in -1..1, NEW y \in -1..1,
         Beyond(a, b), Beyond(x, y), a + b = x + y
  PROVE  a = x /\ b = y
BY BlurConstants DEF Beyond

LEMMA BeyondSome ==
  ASSUME NEW a \in 0..(TS - 1), NEW b \in -1..1
  PROVE  \E x \in 0..(TS - 1) : \E y \in -1..1 : Beyond(x, y) /\ a + b = x + y
<1> USE BlurConstants DEF Beyond
<1>1. CASE a + b = -1
  BY <1>1
<1>2. CASE a + b = TS
  BY <1>2
<1>3. CASE a + b \in 0..(TS - 1)
  BY <1>3
<1> QED BY <1>1, <1>2, <1>3

\* Items, cells and offsets are pairs of numbers.
LEMMA Pairs ==
  /\ \A i \in Filter!Item : i = <<i[1], i[2]>> /\ i[1] \in 0..(TS - 1) /\ i[2] \in 0..(TS - 1)
  /\ \A d \in Filter!Offset : d = <<d[1], d[2]>> /\ d[1] \in -1..1 /\ d[2] \in -1..1
  /\ \A i, d : Filter!Plus(Filter!LocalCell(i), d) = <<i[1] + 1 + d[1], i[2] + 1 + d[2]>>
  /\ \A i, d : d \in Filter!Loads(i)
                 <=> d \in Filter!Offset /\ Beyond(i[1], d[1]) /\ Beyond(i[2], d[2])
<1>1. \A i \in Filter!Item : i = <<i[1], i[2]>> /\ i[1] \in 0..(TS - 1) /\ i[2] \in 0..(TS - 1)
  BY BlurConstants
<1>2. \A d \in Filter!Offset : d = <<d[1], d[2]>> /\ d[1] \in -1..1 /\ d[2] \in -1..1
  BY BlurConstants
<1>3. \A i, d : Filter!Plus(Filter!LocalCell(i), d) = <<i[1] + 1 + d[1], i[2] + 1 + d[2]>>
  BY DEF Filter!Plus, Filter!LocalCell
<1>4. ASSUME NEW i, NEW d
      PROVE  d \in Filter!Loads(i)
               <=> d \in Filter!Offset /\ Beyond(i[1], d[1]) /\ Beyond(i[2], d[2])
  <2>1. (\A n \in 1..2 : Beyond(i[n], d[n])) <=> Beyond(i[1], d[1]) /\ Beyond(i[2], d[2])
    <3>1. 1..2 = {1, 2}
      OBVIOUS
    <3> QED BY <3>1, Zenon
  <2> QED BY <2>1, Zenon DEF Filter!Loads, Beyond
<1> QED BY <1>1, <1>2, <1>3, <1>4

\* A cell is loaded by one item, and every cell around an item by some.
LEMMA OneLoader ==
  ASSUME NEW i \in Filter!Item, NEW j \in Filter!Item,
         NEW d \in Filter!Loads(i), NEW e \in Filter!Loads(j),
         Filter!Plus(Filter!LocalCell(i), d) = Filter!Plus(Filter!LocalCell(j), e)
  PROVE  i = j /\ d = e
<1>1. /\ i[1] + 1 + d[1] = j[1] + 1 + e[1]
      /\ i[2] + 1 + d[2] = j[2] + 1 + e[2]
  BY Pairs
<1>2. /\ d \in Filter!Offset /\ Beyond(i[1], d[1]) /\ Beyond(i[2], d[2])
      /\ e \in Filter!Offset /\ Beyond(j[1], e[1]) /\ Beyond(j[2], e[2])
  BY Pairs
<1>3. /\ i[1] \in 0..(TS - 1) /\ i[2] \in 0..(TS - 1) /\ j[1] \in 0..(TS - 1) /\ j[2] \in 0..(TS - 1)
      /\ d[1] \in -1..1 /\ d[2] \in -1..1 /\ e[1] \in -1..1 /\ e[2] \in -1..1
  BY <1>2, Pairs
<1>4. i[1] + d[1] = j[1] + e[1] /\ i[2] + d[2] = j[2] + e[2]
  BY <1>1, <1>3, BlurConstants
<1>5. i[1] = j[1] /\ d[1] = e[1]
  BY <1>2, <1>3, <1>4, BeyondOnce, Zenon
<1>6. i[2] = j[2] /\ d[2] = e[2]
  <2>1. i[2] + d[2] = j[2] + e[2] /\ Beyond(i[2], d[2]) /\ Beyond(j[2], e[2])
    BY <1>2, <1>4
  <2>2. /\ i[2] \in 0..(TS - 1) /\ j[2] \in 0..(TS - 1) /\ d[2] \in -1..1 /\ e[2] \in -1..1
    BY <1>3
  <2> DEFINE a == i[2]
             b == d[2]
             x == j[2]
             y == e[2]
  <2> HIDE DEF a, b, x, y
  <2>3. a = x /\ b = y
    BY <2>1, <2>2, BeyondOnce DEF a, b, x, y
  <2> QED BY <2>3 DEF a, b, x, y
<1> QED BY <1>2, <1>5, <1>6, Pairs

LEMMA SomeLoader ==
  ASSUME NEW i \in Filter!Item, NEW d \in Filter!Offset, tile \in Int \X Int
  PROVE  \E j \in Filter!Item : \E e \in Filter!Loads(j) :
           /\ Filter!Plus(Filter!LocalCell(i), d) = Filter!Plus(Filter!LocalCell(j), e)
           /\ Filter!Plus(Filter!Global(i), d) = Filter!Plus(Filter!Global(j), e)
<1>1. /\ i[1] \in 0..(TS - 1) /\ i[2] \in 0..(TS - 1) /\ d[1] \in -1..1 /\ d[2] \in -1..1
  BY Pairs
<1>2. PICK x1 \in 0..(TS - 1), y1 \in -1..1 : Beyond(x1, y1) /\ i[1] + d[1] = x1 + y1
  BY <1>1, BeyondSome, Zenon
<1>3. PICK x2 \in 0..(TS - 1), y2 \in -1..1 : Beyond(x2, y2) /\ i[2] + d[2] = x2 + y2
  BY <1>1, BeyondSome, Zenon
<1> DEFINE j == <<x1, x2>>
           e == <<y1, y2>>
<1>4. j \in Filter!Item /\ e \in Filter!Offset
  BY BlurConstants
<1>5. e \in Filter!Loads(j)
  BY <1>2, <1>3, <1>4, Pairs
<1>6. Filter!Plus(Filter!LocalCell(i), d) = Filter!Plus(Filter!LocalCell(j), e)
  <2>1. i[1] + 1 + d[1] = x1 + 1 + y1 /\ i[2] + 1 + d[2] = x2 + 1 + y2
    BY <1>1, <1>2, <1>3, BlurConstants
  <2> QED BY <2>1, Pairs
<1>7. Filter!Plus(Filter!Global(i), d) = Filter!Plus(Filter!Global(j), e)
  <2> DEFINE a == tile[1] * TS
             b == tile[2] * TS
  <2>1. a \in Int /\ b \in Int
    BY BlurConstants
  <2>2. /\ Filter!Plus(Filter!Global(i), d) = <<a + i[1] + d[1], b + i[2] + d[2]>>
        /\ Filter!Plus(Filter!Global(j), e) = <<a + x1 + y1, b + x2 + y2>>
    BY DEF Filter!Plus, Filter!Global
  <2> HIDE DEF a, b
  <2>3. a + i[1] + d[1] = a + x1 + y1 /\ b + i[2] + d[2] = b + x2 + y2
    BY <1>1, <1>2, <1>3, <2>1, BlurConstants
  <2> QED BY <2>2, <2>3
<1> QED BY <1>4, <1>5, <1>6, <1>7

\* The places of the items of a tile differ.
LEMMA PlacesDiffer ==
  ASSUME NEW i \in Filter!Item, NEW j \in Filter!Item, tile \in Int \X Int,
         Filter!Global(i) = Filter!Global(j)
  PROVE  i = j
<1> DEFINE a == tile[1] * TS
           b == tile[2] * TS
<1>1. a \in Int /\ b \in Int
  BY BlurConstants
<1>2. a + i[1] = a + j[1] /\ b + i[2] = b + j[2]
  BY DEF Filter!Plus, Filter!Global
<1> HIDE DEF a, b
<1>3. i[1] \in Int /\ i[2] \in Int /\ j[1] \in Int /\ j[2] \in Int
  BY Pairs, BlurConstants
<1> DEFINE i1 == i[1]
           i2 == i[2]
           j1 == j[1]
           j2 == j[2]
<1>4. a + i1 = a + j1 /\ b + i2 = b + j2 /\ i1 \in Int /\ i2 \in Int /\ j1 \in Int /\ j2 \in Int
  BY <1>2, <1>3
<1> HIDE DEF i1, i2, j1, j2
<1>5. i1 = j1 /\ i2 = j2
  BY <1>1, <1>4
<1> QED BY <1>5, Pairs DEF i1, i2, j1, j2

\* With all cells loaded, those around an inner pixel are its neighbours.
LEMMA NeighboursLoaded ==
  ASSUME NEW i \in Filter!Item, tile \in Int \X Int, Filter!Inner(Filter!Global(i)),
         \A j \in Filter!Item : Loaded(j)
  PROVE  [d \in Filter!Offset |-> localData[Filter!Plus(Filter!LocalCell(i), d)]]
           = Filter!Mean(Filter!Global(i))
<1>1. ASSUME NEW d \in Filter!Offset
      PROVE  localData[Filter!Plus(Filter!LocalCell(i), d)] = Filter!Plus(Filter!Global(i), d)
  <2>1. PICK j \in Filter!Item : \E e \in Filter!Loads(j) :
           /\ Filter!Plus(Filter!LocalCell(i), d) = Filter!Plus(Filter!LocalCell(j), e)
           /\ Filter!Plus(Filter!Global(i), d) = Filter!Plus(Filter!Global(j), e)
    BY SomeLoader
  <2>2. PICK e \in Filter!Loads(j) :
           /\ Filter!Plus(Filter!LocalCell(i), d) = Filter!Plus(Filter!LocalCell(j), e)
           /\ Filter!Plus(Filter!Global(i), d) = Filter!Plus(Filter!Global(j), e)
    BY <2>1
  <2>3. localData[Filter!Plus(Filter!LocalCell(j), e)] = Filter!Fetch(Filter!Global(j), e)
    BY DEF Loaded
  <2>4. Filter!Plus(Filter!Global(i), d) \in Filter!Pixel
    <3> DEFINE p == Filter!Global(i)
    <3>1. p[1] \in 1..(HEIGHT - 2) /\ p[2] \in 1..(WIDTH - 2)
      BY DEF Filter!Inner
    <3>2. d[1] \in -1..1 /\ d[2] \in -1..1
      BY Pairs
    <3>3. Filter!Plus(p, d) = <<p[1] + d[1], p[2] + d[2]>>
      BY DEF Filter!Plus
    <3> HIDE DEF p
    <3>4. p[1] + d[1] \in 0..(HEIGHT - 1) /\ p[2] + d[2] \in 0..(WIDTH - 1)
      BY <3>1, <3>2, BlurConstants
    <3> QED BY <3>3, <3>4 DEF Filter!Pixel, p
  <2> QED BY <2>2, <2>3, <2>4 DEF Filter!Fetch
<1> QED BY <1>1 DEF Filter!Mean

LEMMA BlurInit == Filter!Init => BlurInv
<1> SUFFICES ASSUME Filter!Init PROVE BlurInv
  OBVIOUS
<1>1. /\ tile \in Filter!Tile /\ localData = [c \in Filter!Cell |-> Filter!Unset]
      /\ phase = [i \in Filter!Item |-> "load"] /\ accOut = [p \in Filter!InTile |-> <<>>]
      /\ verdict = "none"
  BY DEF Filter!Init
<1>2. BlurTyped
  <2>1. tile \in Int \X Int
    BY <1>1 DEF Filter!Tile
  <2> QED BY <1>1, <2>1 DEF BlurTyped
<1>3. CellsLoaded /\ OpenForAll
  BY <1>1 DEF CellsLoaded, OpenForAll
<1>4. Filter!BlurRight
  <2>1. \A i \in Filter!Item : Filter!Global(i) \in Filter!InTile
    BY DEF Filter!InTile
  <2>2. \A i \in Filter!Item : phase[i] # "ended" /\ accOut[Filter!Global(i)] = <<>>
    BY <1>1, <2>1
  <2>3. verdict # "bad"
    BY <1>1
  <2>4. ASSUME NEW i \in Filter!Item
        PROVE  accOut[Filter!Global(i)] =
                 IF phase[i] # "ended" THEN <<>>
                   ELSE IF Filter!Inner(Filter!Global(i)) THEN Filter!Mean(Filter!Global(i))
                   ELSE [d \in {<<0, 0>>} |-> Filter!Global(i)]
    BY <2>2, Zenon
  <2> QED BY <2>3, <2>4 DEF Filter!BlurRight
<1> QED BY <1>2, <1>3, <1>4 DEF BlurInv

LEMMA LoadKeeps ==
  ASSUME BlurInv, NEW i \in Filter!Item, Filter!Load(i)
  PROVE  BlurInv'
<1>1. /\ phase[i] = "load" /\ phase' = [phase EXCEPT ![i] = "barrier"]
      /\ UNCHANGED <<tile, accOut, verdict>>
      /\ localData' = [c \in Filter!Cell |->
            IF <<c[1] - i[1] - 1, c[2] - i[2] - 1>> \in Filter!Loads(i)
            THEN Filter!Fetch(Filter!Global(i), <<c[1] - i[1] - 1, c[2] - i[2] - 1>>)
            ELSE localData[c]]
  BY DEF Filter!Load
<1>2. BlurTyped /\ CellsLoaded /\ OpenForAll /\ Filter!BlurRight
  BY DEF BlurInv
<1>3. BlurTyped'
  BY <1>1, <1>2 DEF BlurTyped, Filter!InTile, Filter!Global
<1>4. OpenForAll'
  BY <1>1, <1>2 DEF OpenForAll, Filter!BarrierOpen, BlurTyped
<1>5. Filter!BlurRight'
  <2>1. \A j \in Filter!Item : phase'[j] = "ended" <=> phase[j] = "ended"
    BY <1>1, <1>2 DEF BlurTyped
  <2> QED BY <1>1, <1>2, <2>1 DEF Filter!BlurRight, Filter!Inner, Filter!Mean, Filter!Global
<1>6. ASSUME NEW j \in Filter!Item, NEW e \in Filter!Loads(j), j = i \/ phase[j] # "load"
      PROVE  localData'[Filter!Plus(Filter!LocalCell(j), e)] = Filter!Fetch(Filter!Global(j), e)
  <2> DEFINE c == Filter!Plus(Filter!LocalCell(j), e)
             d == <<c[1] - i[1] - 1, c[2] - i[2] - 1>>
  <2>1. /\ e \in Filter!Offset /\ e = <<e[1], e[2]>> /\ e[1] \in -1..1 /\ e[2] \in -1..1
        /\ j[1] \in 0..(TS - 1) /\ j[2] \in 0..(TS - 1)
        /\ i[1] \in 0..(TS - 1) /\ i[2] \in 0..(TS - 1)
        /\ c = <<j[1] + 1 + e[1], j[2] + 1 + e[2]>>
    BY Pairs
  <2>2. c \in Filter!Cell /\ c[1] \in Int /\ c[2] \in Int
    <3>1. j[1] + 1 + e[1] \in 0..(TS + 1) /\ j[2] + 1 + e[2] \in 0..(TS + 1)
      BY <2>1, BlurConstants
    <3> HIDE DEF c
    <3> QED BY <2>1, <3>1, BlurConstants
  <2>3. CASE j = i
    <3>1. d = e
      <4>1. c[1] = i[1] + 1 + e[1] /\ c[2] = i[2] + 1 + e[2]
        BY <2>1, <2>3
      <4> HIDE DEF c
      <4>2. c[1] - i[1] - 1 = e[1] /\ c[2] - i[2] - 1 = e[2]
        BY <2>1, <4>1, BlurConstants
      <4> QED BY <2>1, <4>2
    <3> HIDE DEF c, d
    <3> QED BY <1>1, <2>2, <2>3, <3>1 DEF d, c
  <2>4. CASE j # i
    <3>1. d \notin Filter!Loads(i)
      <4> SUFFICES ASSUME d \in Filter!Loads(i) PROVE FALSE
        OBVIOUS
      <4>1. Filter!Plus(Filter!LocalCell(i), d) = c
        <5>1. Filter!Plus(Filter!LocalCell(i), d) = <<i[1] + 1 + d[1], i[2] + 1 + d[2]>>
          BY Pairs
        <5>2. i[1] + 1 + d[1] = c[1] /\ i[2] + 1 + d[2] = c[2]
          <6>1. d[1] = c[1] - i[1] - 1 /\ d[2] = c[2] - i[2] - 1
            OBVIOUS
          <6> HIDE DEF c, d
          <6> QED BY <2>1, <2>2, <6>1, BlurConstants
        <5>3. c = <<c[1], c[2]>>
          BY <2>1
        <5> HIDE DEF c, d
        <5> QED BY <5>1, <5>2, <5>3
      <4> HIDE DEF d
      <4> QED BY <2>4, <4>1, OneLoader
    <3>2. localData[c] = Filter!Fetch(Filter!Global(j), e)
      BY <1>2, <1>6, <2>4 DEF CellsLoaded, Loaded
    <3>3. localData'[c] = IF d \in Filter!Loads(i) THEN Filter!Fetch(Filter!Global(i), d) ELSE localData[c]
      <4> HIDE DEF c
      <4> QED BY <1>1, <2>2
    <3> HIDE DEF c, d
    <3> QED BY <3>1, <3>2, <3>3 DEF c
  <2> QED BY <2>3, <2>4
<1>7. CellsLoaded'
  <2>1. tile' = tile
    BY <1>1
  <2>2. \A j \in Filter!Item : phase'[j] # "load" => j = i \/ phase[j] # "load"
    BY <1>1, <1>2 DEF BlurTyped
  <2>3. \A j \in Filter!Item : phase'[j] # "load" => \A e \in Filter!Loads(j) :
           localData'[Filter!Plus(Filter!LocalCell(j), e)] = Filter!Fetch(Filter!Global(j), e)
    BY <1>6, <2>2
  <2> QED BY <2>1, <2>3 DEF CellsLoaded, Loaded, Filter!Fetch, Filter!Global
<1> QED BY <1>3, <1>4, <1>5, <1>7 DEF BlurInv

LEMMA BlurKeeps ==
  ASSUME BlurInv, NEW i \in Filter!Item, Filter!Blur(i)
  PROVE  BlurInv'
<1> DEFINE p == Filter!Global(i)
           v == IF Filter!Inner(p) THEN [d \in Filter!Offset |-> localData[Filter!Plus(Filter!LocalCell(i), d)]]
                ELSE [d \in {<<0, 0>>} |-> p]
<1>1. /\ phase[i] = "barrier" /\ Filter!BarrierOpen
      /\ accOut' = [accOut EXCEPT ![p] = v]
      /\ phase' = [phase EXCEPT ![i] = "ended"]
      /\ UNCHANGED <<tile, localData, verdict>>
  BY DEF Filter!Blur
<1>2. BlurTyped /\ CellsLoaded /\ OpenForAll /\ Filter!BlurRight
  BY DEF BlurInv
<1>3. v = IF Filter!Inner(p) THEN Filter!Mean(p) ELSE [d \in {<<0, 0>>} |-> p]
  <2>1. \A j \in Filter!Item : Loaded(j)
    BY <1>1, <1>2 DEF Filter!BarrierOpen, CellsLoaded
  <2>2. tile \in Int \X Int
    BY <1>2 DEF BlurTyped
  <2> QED BY <2>1, <2>2, NeighboursLoaded
<1>4. p \in Filter!InTile
  BY DEF Filter!InTile
<1> HIDE DEF v
<1>5. BlurTyped'
  BY <1>1, <1>2 DEF BlurTyped, Filter!InTile, Filter!Global
<1>6. OpenForAll' /\ CellsLoaded'
  <2>1. \A j \in Filter!Item : phase'[j] # "load"
    BY <1>1, <1>2 DEF Filter!BarrierOpen, BlurTyped
  <2>2. \A j \in Filter!Item : Loaded(j)'
    BY <1>1, <1>2 DEF Filter!BarrierOpen, CellsLoaded, Loaded, Filter!Fetch, Filter!Global
  <2> QED BY <2>1, <2>2 DEF OpenForAll, Filter!BarrierOpen, CellsLoaded
<1>7. ASSUME NEW j \in Filter!Item
      PROVE  accOut'[Filter!Global(j)] =
               IF phase'[j] # "ended" THEN <<>>
                 ELSE IF Filter!Inner(Filter!Global(j)) THEN Filter!Mean(Filter!Global(j))
                 ELSE [d \in {<<0, 0>>} |-> Filter!Global(j)]
  <2>1. CASE j = i
    <3>1. accOut'[p] = v /\ phase'[i] = "ended"
      BY <1>1, <1>2, <1>4 DEF BlurTyped
    <3> QED BY <1>3, <2>1, <3>1
  <2>2. CASE j # i
    <3>1. Filter!Global(j) # p
      BY <1>2, <2>2, PlacesDiffer DEF BlurTyped
    <3>2. accOut'[Filter!Global(j)] = accOut[Filter!Global(j)] /\ phase'[j] = phase[j]
      <4> HIDE DEF p
      <4>1. Filter!Global(j) \in Filter!InTile
        BY DEF Filter!InTile
      <4> QED BY <1>1, <1>2, <2>2, <3>1, <4>1 DEF BlurTyped
    <3>3. accOut[Filter!Global(j)] =
               IF phase[j] # "ended" THEN <<>>
                 ELSE IF Filter!Inner(Filter!Global(j)) THEN Filter!Mean(Filter!Global(j))
                 ELSE [d \in {<<0, 0>>} |-> Filter!Global(j)]
      BY <1>2 DEF Filter!BlurRight
    <3> QED BY <3>2, <3>3
  <2> QED BY <2>1, <2>2
<1>8. Filter!BlurRight'
  <2>1. verdict' # "bad"
    BY <1>1, <1>2 DEF Filter!BlurRight
  <2> QED BY <1>1, <1>7, <2>1 DEF Filter!BlurRight, Filter!Inner, Filter!Mean, Filter!Global
<1> QED BY <1>5, <1>6, <1>8 DEF BlurInv

LEMMA CompareKeeps ==
  ASSUME BlurInv, Filter!Compare
  PROVE  BlurInv'
<1>1. /\ \A i \in Filter!Item : phase[i] = "ended"
      /\ verdict' = (IF \A p \in Filter!InTile : Filter!Inner(p) => accOut[p] = Filter!Mean(p)
                     THEN "good" ELSE "bad")
      /\ UNCHANGED <<tile, localData, phase, accOut>>
  BY DEF Filter!Compare
<1>2. BlurTyped /\ CellsLoaded /\ OpenForAll /\ Filter!BlurRight
  BY DEF BlurInv
<1>3. verdict' = "good"
  <2>1. ASSUME NEW p \in Filter!InTile, Filter!Inner(p)
        PROVE  accOut[p] = Filter!Mean(p)
    <3>1. PICK i \in Filter!Item : p = Filter!Global(i)
      BY DEF Filter!InTile
    <3> QED BY <1>1, <1>2, <2>1, <3>1 DEF Filter!BlurRight
  <2> QED BY <1>1, <2>1
<1>4. BlurTyped' /\ OpenForAll'
  BY <1>1, <1>2 DEF BlurTyped, OpenForAll, Filter!BarrierOpen, Filter!InTile, Filter!Global
<1>5. CellsLoaded'
  BY <1>1, <1>2 DEF CellsLoaded, Loaded, Filter!Fetch, Filter!Global
<1>6. Filter!BlurRight'
  BY <1>1, <1>2, <1>3 DEF Filter!BlurRight, Filter!Inner, Filter!Mean, Filter!Global
<1> QED BY <1>4, <1>5, <1>6 DEF BlurInv

LEMMA BlurNext == BlurInv /\ Filter!Next => BlurInv'
  BY LoadKeeps, BlurKeeps, CompareKeeps DEF Filter!Next

LEMMA BlurStands == BlurInv /\ UNCHANGED blurVars => BlurInv'
<1> SUFFICES ASSUME BlurInv, UNCHANGED blurVars PROVE BlurInv'
  OBVIOUS
<1>1. BlurTyped' /\ OpenForAll'
  BY DEF BlurInv, BlurTyped, OpenForAll, Filter!BarrierOpen, Filter!InTile, Filter!Global, blurVars
<1>2. CellsLoaded'
  BY DEF BlurInv, CellsLoaded, Loaded, Filter!Fetch, Filter!Global, blurVars
<1>3. Filter!BlurRight'
  BY DEF BlurInv, Filter!BlurRight, Filter!Inner, Filter!Mean, Filter!Global, blurVars
<1> QED BY <1>1, <1>2, <1>3 DEF BlurInv

LEMMA BlurInvariant == Spec => [](program = "Blur" => BlurInv)
<1>1. Init => (program = "Blur" => BlurInv)
  BY BlurInit DEF Init
<1>2. (program = "Blur" => BlurInv) /\ [Next]_vars => (program = "Blur" => BlurInv)'
  BY BlurNext, BlurStands DEF Next, vars
<1> QED BY <1>1, <1>2, PTL DEF Spec

\* The blur of Laba4 gives every pixel the mean of its neighbours whatever the size of
\* the picture and of the tiles: none is taken before it was loaded, or from a cell that
\* another item wrote over.
THEOREM BlurIsRight == Spec => [](program = "Blur" => Filter!BlurRight)
<1>1. (program = "Blur" => BlurInv) => (program = "Blur" => Filter!BlurRight)
  BY DEF BlurInv
<1> QED BY <1>1, BlurInvariant, PTL

(***************************************************************************)
(* RangeSum.  The ranges are laid end to end; what the result holds is the sum *)
(* of the ranges that ended, or of some elements that were passed.           *)
(***************************************************************************)
Summers == Sums!SumThread

SumsTyped ==
  /\ variant \in {"mutex", "atomic", "race"} /\ nums \in Seq(Nat) /\ K \in Ks
  /\ spawned \in 0..K /\ currentStart \in Nat /\ remainder \in Nat
  /\ range \in [Summers -> Int \X Int]
  /\ stage \in [Summers -> {"unborn", "add", "loaded", "ended"}]
  /\ index \in [Summers -> Int] /\ seen \in [Summers -> Int]
  /\ sum \in Int /\ summed \in BOOLEAN

RangesAbut ==
  /\ currentStart + (K - spawned) * (Len(nums) \div K) + remainder = Len(nums)
  /\ remainder <= K - spawned
  /\ \A t \in Summers : t >= spawned => stage[t] = "unborn" /\ range[t] = <<0, -1>>
  /\ \A t \in Summers : t < spawned => /\ stage[t] # "unborn" /\ range[t][1] >= 0
                                       /\ range[t][1] <= range[t][2] + 1
                                       /\ range[t][2] < currentStart
                                       /\ index[t] >= range[t][1]
  /\ \A t, u \in Summers : t < u /\ u < spawned => range[t][2] < range[u][1]
  /\ \A j \in 0..(currentStart - 1) :
       \E t \in Summers : t < spawned /\ j >= range[t][1] /\ j <= range[t][2]

StagesFollow ==
  /\ \A t \in Summers : stage[t] = "loaded" => variant = "race"
  /\ summed => spawned = K /\ \A t \in 0..(K - 1) : stage[t] = "ended"

\* The elements of the ranges of threads that have ended.
Ended == {i \in 1..Len(nums) : \E t \in Summers : /\ stage[t] = "ended"
                                                  /\ i - 1 >= range[t][1] /\ i - 1 <= range[t][2]}

\* A value some elements add up to, none of which a thread has still to come to.
Passed(w) ==
  \E kept \in SUBSET (1..Len(nums)) :
    /\ w = Sums!Wrap(Total(nums, kept))
    /\ \A i \in kept : /\ i - 1 < currentStart
                       /\ \A t \in Summers : t < spawned => i - 1 < index[t] \/ i - 1 > range[t][2]

ResultFollows ==
  /\ variant = "mutex" => sum = Sums!Wrap(Total(nums, Ended))
  /\ variant = "atomic" => /\ Sums!Wrap(sum) = Sums!Wrap(Total(nums, Ended))
                           /\ Total(nums, 1..Len(nums)) < Half => sum = Total(nums, Ended)
  /\ variant = "race" => Passed(sum) /\ \A t \in Summers : stage[t] = "loaded" => Passed(seen[t])

SumsInv == SumsTyped /\ RangesAbut /\ StagesFollow /\ ResultFollows

LEMMA SumsConstants ==
  /\ Half \in Nat /\ Half > 0 /\ Arrays \subseteq Seq(Nat) /\ Ks \subseteq Nat \ {0}
  /\ \A k \in Ks : 0..(k - 1) \subseteq Summers
  /\ Summers \subseteq Nat
<1>1. Sums!RangeAssumption
  BY WorkshopsAssumption, Zenon
<1>2. /\ Half \in Nat /\ Half > 0 /\ Arrays \subseteq Seq(Nat) /\ Ks \subseteq Nat \ {0}
      /\ IsFiniteSet(Ks)
  <2>1. Sums!IsFiniteSet(Ks) => IsFiniteSet(Ks)
    BY Zenon DEF Sums!IsFiniteSet, IsFiniteSet
  <2> QED BY <1>1, <2>1 DEF Sums!RangeAssumption
<1>6. Ks \subseteq Nat \ {0} /\ IsFiniteSet(Ks)
  BY <1>2
<1>3. Summers = 0..(Largest(Ks) - 1)
  BY DEF Summers, Sums!SumThread, Sums!Max, Largest
<1>4. ASSUME NEW k \in Ks
      PROVE  0..(k - 1) \subseteq Summers
  <2>1. Largest(Ks) \in Ks /\ Largest(Ks) >= k
    <3>1. Ks \in SUBSET Int /\ Ks # {}
      BY <1>6
    <3> QED BY <1>6, <3>1, LargestIsMember
  <2>2. \A x \in Ks : x \in Int
    BY <1>6
  <2>3. Largest(Ks) \in Int /\ k \in Int
    BY <2>1, <2>2, Zenon
  <2> QED BY <1>3, <2>1, <2>3
<1>5. Summers \subseteq Nat
  BY <1>3
<1> QED BY <1>2, <1>4, <1>5

\* Wrapping around may be left to the end.
LEMMA WrapSum ==
  ASSUME NEW a \in Int, NEW b \in Int
  PROVE  /\ Sums!Wrap(a) \in Int
         /\ Sums!Wrap(Sums!Wrap(a) + b) = Sums!Wrap(a + b)
<1> DEFINE m == 2 * Half
           c == a + Half
           r == c % m
<1>1. m \in Nat /\ m # 0 /\ c \in Int /\ Half \in Int
  BY SumsConstants
<1>2. r \in Int /\ Sums!Wrap(a) = r - Half
  <2>1. r \in Int
    <3> HIDE DEF m, c
    <3> QED BY <1>1, Division
  <2> QED BY <2>1 DEF Sums!Wrap
<1>3. (r + b) % m = (c + b) % m
  <2> HIDE DEF m, c
  <2> QED BY <1>1, RemainderOfSum
<1>4. Sums!Wrap(a) + b + Half = r + b
  <2> HIDE DEF m, c, r
  <2> QED BY <1>1, <1>2
<1>5. a + b + Half = c + b
  BY <1>1
<1>6. /\ Sums!Wrap(Sums!Wrap(a) + b) = ((Sums!Wrap(a) + b + Half) % m) - Half
      /\ Sums!Wrap(a + b) = ((a + b + Half) % m) - Half
  BY DEF Sums!Wrap
<1> HIDE DEF m, c, r
<1>7. Sums!Wrap(a) \in Int
  BY <1>1, <1>2
<1>8. Sums!Wrap(Sums!Wrap(a) + b) = Sums!Wrap(a + b)
  BY <1>3, <1>4, <1>5, <1>6
<1> QED BY <1>7, <1>8

\* and a number that fits is not changed by it.
LEMMA WrapFits ==
  ASSUME NEW a \in 0..(Half - 1)
  PROVE  Sums!Wrap(a) = a
<1> DEFINE m == 2 * Half
           c == a + Half
<1>1. m \in Nat /\ c \in 0..(m - 1) /\ c \in Int /\ c = m * 0 + c
  BY SumsConstants
<1>2. Sums!Wrap(a) = (c % m) - Half
  BY DEF Sums!Wrap
<1>3. c % m = c
  <2> HIDE DEF m, c
  <2> QED BY <1>1, RemainderIs
<1> QED BY <1>2, <1>3, SumsConstants

LEMMA WrapZero == Sums!Wrap(0) = 0
<1>1. 0 \in 0..(Half - 1)
  BY SumsConstants
<1> QED BY <1>1, WrapFits

\* Adding up the first n elements of s is a fold.
LEMMA AddingUp ==
  ASSUME NEW n \in Nat, NEW s, \A i \in 1..n : s[i] \in Int
  PROVE  \E h : h = [r \in SUBSET (1..n) |-> IF r = {} THEN 0
                       ELSE Sums!Wrap(h[r \ {Largest(r)}] + s[Largest(r)])]
<1> DEFINE S == 1..n
           adder == [p \in Int \X Int |-> Sums!Wrap(p[1] + p[2])]
           h == Fold(adder, 0, s, S)
<1>1. Steps(adder, Int, Int)
  <2>1. \A p \in Int \X Int : Sums!Wrap(p[1] + p[2]) \in Int
    BY WrapSum
  <2> QED BY <2>1 DEF Steps
<1>2. S \in SUBSET Int /\ IsFiniteSet(S) /\ 0 \in Int /\ \A i \in S : s[i] \in Int
  BY FS_Interval
<1>3. \A x, y \in Int : adder[<<x, y>>] = Sums!Wrap(x + y)
  OBVIOUS
<1> HIDE DEF adder, S
<1>4. IsFold(h, adder, 0, s, S)
  BY <1>2, FoldExists
<1>5. \A r \in SUBSET S : /\ h[r] \in Int
                          /\ r # {} => /\ Largest(r) \in r /\ s[Largest(r)] \in Int
                                       /\ h[r \ {Largest(r)}] \in Int
  BY <1>1, <1>2, FoldTyped
<1> HIDE DEF h
<1>6. h = [r \in SUBSET S |-> IF r = {} THEN 0
                              ELSE Sums!Wrap(h[r \ {Largest(r)}] + s[Largest(r)])]
  BY <1>3, <1>4, <1>5 DEF IsFold
<1> QED BY <1>6 DEF S

\* The n elements of s are those of f from the one after a on.
Copies(s, n, f, a) ==
  DOMAIN s = 1..n /\ \A i \in 1..n : s[i] = f[a + i] /\ s[i] \in Int

\* The loops add up what they are to add up: the elements f[a + 1], f[a + 2], ...
LEMMA IntSumIs ==
  ASSUME NEW n \in Nat, NEW s, NEW a \in Int, NEW f, Copies(s, n, f, a)
  PROVE  Sums!IntSum(s) = Sums!Wrap(Total(f, (a + 1)..(a + n)))
<1> DEFINE g == CHOOSE g : g = [r \in SUBSET (DOMAIN s) |-> IF r = {} THEN 0
                                  ELSE Sums!Wrap(g[r \ {Largest(r)}] + s[Largest(r)])]
           T(k) == SumOf(f, a, k)
<1>1. Sums!IntSum(s) = g[1..n]
  BY DEF Sums!IntSum, Sums!FoldLeft, Sums!MapThenFoldSet, Sums!Max, Largest, Copies
<1>2. \E h : h = [r \in SUBSET (1..n) |-> IF r = {} THEN 0
                    ELSE Sums!Wrap(h[r \ {Largest(r)}] + s[Largest(r)])]
  BY AddingUp DEF Copies
<1>3. g = [r \in SUBSET (1..n) |-> IF r = {} THEN 0
                                   ELSE Sums!Wrap(g[r \ {Largest(r)}] + s[Largest(r)])]
  BY <1>2 DEF Copies
<1> HIDE DEF g
<1>4. g[1..0] = 0
  BY <1>3
<1>5. ASSUME NEW k \in 1..n
      PROVE  g[1..k] = Sums!Wrap(g[1..(k - 1)] + s[k])
  <2>1. k \in Nat /\ k # 0
    OBVIOUS
  <2>2. Largest(1..k) = k /\ (1..k) \ {k} = 1..(k - 1) /\ 1..k # {}
    BY <2>1, LargestUpTo
  <2>3. 1..k \in SUBSET (1..n)
    OBVIOUS
  <2> QED BY <1>3, <2>2, <2>3
<1>6. \A i \in (a + 1)..(a + n) : f[i] \in Int
  <2> SUFFICES ASSUME NEW i \in (a + 1)..(a + n) PROVE f[i] \in Int
    OBVIOUS
  <2>1. i - a \in 1..n /\ a + (i - a) = i
    OBVIOUS
  <2> QED BY <2>1 DEF Copies
<1>7. /\ T(0) = 0
      /\ \A k \in 0..n : T(k) \in Int
      /\ \A k \in 1..n : T(k) = T(k - 1) + f[a + k]
  BY <1>6, TotalUpTo
<1> HIDE DEF T
<1>8. \A k \in 0..n : g[1..k] = Sums!Wrap(T(k))
  <2> DEFINE Bad == {k \in 0..n : g[1..k] # Sums!Wrap(T(k))}
  <2> SUFFICES ASSUME Bad # {} PROVE FALSE
    OBVIOUS
  <2>1. PICK k \in Bad : \A j \in Bad : k <= j
    <3>1. Bad \in SUBSET (0..n)
      OBVIOUS
    <3> HIDE DEF Bad
    <3> QED BY <3>1, SmallestNumber
  <2>2. k # 0
    BY <1>4, <1>7, WrapZero
  <2>3. k \in 1..n /\ k - 1 \in 0..n /\ ~(k <= k - 1)
    BY <2>2
  <2>4. g[1..(k - 1)] = Sums!Wrap(T(k - 1))
    BY <2>1, <2>3
  <2>5. T(k - 1) \in Int /\ s[k] \in Int /\ f[a + k] = s[k]
    BY <1>7, <2>3 DEF Copies
  <2>6. g[1..k] = Sums!Wrap(Sums!Wrap(T(k - 1)) + s[k])
    BY <1>5, <2>3, <2>4
  <2>7. T(k) = T(k - 1) + s[k]
    BY <1>7, <2>3, <2>5
  <2>8. g[1..k] = Sums!Wrap(T(k - 1) + s[k])
    BY <2>5, <2>6, WrapSum
  <2> QED BY <2>1, <2>7, <2>8
<1>9. g[1..n] = Sums!Wrap(T(n))
  BY <1>8
<1> QED BY <1>1, <1>9 DEF T, SumOf

LEMMA WrapBoth ==
  ASSUME NEW a \in Int, NEW b \in Int
  PROVE  /\ Sums!Wrap(a) \in Int /\ Sums!Wrap(b) \in Int
         /\ Sums!Wrap(Sums!Wrap(a) + Sums!Wrap(b)) = Sums!Wrap(a + b)
         /\ Sums!Wrap(a + Sums!Wrap(b)) = Sums!Wrap(a + b)
<1> DEFINE x == Sums!Wrap(a)
           y == Sums!Wrap(b)
<1>1. x \in Int /\ y \in Int
  BY WrapSum
<1>2. Sums!Wrap(x + y) = Sums!Wrap(a + y)
  BY <1>1, WrapSum
<1>3. Sums!Wrap(y + a) = Sums!Wrap(b + a)
  BY <1>1, WrapSum
<1> HIDE DEF x, y
<1>4. y + a = a + y /\ b + a = a + b
  BY <1>1
<1>5. Sums!Wrap(a + y) = Sums!Wrap(a + b)
  BY <1>3, <1>4
<1> QED BY <1>1, <1>2, <1>5 DEF x, y

\* The elements of the array: some of them, all of them, a slice.
LEMMA Numbers ==
  ASSUME nums \in Seq(Nat)
  PROVE  /\ Len(nums) \in Nat /\ DOMAIN nums = 1..Len(nums)
         /\ \A i \in 1..Len(nums) : nums[i] \in Nat
         /\ \A I \in SUBSET (1..Len(nums)) : IsFiniteSet(I) /\ Total(nums, I) \in Nat
<1> DEFINE n == Len(nums)
<1>1. n \in Nat /\ DOMAIN nums = 1..n /\ \A i \in 1..n : nums[i] \in Nat
  BY LenProperties
<1> HIDE DEF n
<1>2. \A I \in SUBSET (1..n) : IsFiniteSet(I)
  <2>1. IsFiniteSet(1..n)
    BY <1>1, FS_Interval
  <2> QED BY <2>1, FS_Subset
<1>3. ASSUME NEW I \in SUBSET (1..n)
      PROVE  Total(nums, I) \in Nat
  <2>1. \A i \in I : nums[i] \in Nat
    BY <1>1
  <2>2. IsFiniteSet(I)
    BY <1>2
  <2> QED BY <2>1, <2>2, TotalIsNat
<1> QED BY <1>1, <1>2, <1>3 DEF n

LEMMA ElementsAre ==
  ASSUME nums \in Seq(Nat), NEW I \in SUBSET (1..Len(nums))
  PROVE  Sums!Elements(I) = Total(nums, I)
<1> DEFINE g == CHOOSE g : g = [s \in SUBSET I |-> IF s = {} THEN 0
                                  ELSE nums[Taken(s)] + g[s \ {Taken(s)}]]
<1>0. IsFiniteSet(I)
  BY Numbers
<1>1. Sums!Elements(I) = g[I]
  BY DEF Sums!Elements, Sums!MapThenSumSet, Sums!MapThenFoldSet, Taken
<1>2. PICK h : IsSum(h, nums, I)
  BY <1>0, SumExists
<1>3. h = [s \in SUBSET I |-> IF s = {} THEN 0 ELSE nums[Taken(s)] + h[s \ {Taken(s)}]]
  BY <1>2 DEF IsSum
<1>4. g = [s \in SUBSET I |-> IF s = {} THEN 0 ELSE nums[Taken(s)] + g[s \ {Taken(s)}]]
  BY <1>3
<1> HIDE DEF g
<1>5. IsSum(g, nums, I)
  BY <1>4 DEF IsSum
<1>6. IsSum(CHOOSE k : IsSum(k, nums, I), nums, I)
  BY <1>2
<1>7. g[I] = (CHOOSE k : IsSum(k, nums, I))[I]
  BY <1>0, <1>5, <1>6, SumIsUnique
<1> QED BY <1>1, <1>7 DEF Total

LEMMA SliceSum ==
  ASSUME nums \in Seq(Nat), NEW lo \in Nat, NEW hi \in Int, lo <= hi + 1, hi < Len(nums)
  PROVE  Sums!IntSum(Sums!Slice(lo, hi)) = Sums!Wrap(Total(nums, (lo + 1)..(hi + 1)))
<1> DEFINE s == SubSeq(nums, lo + 1, hi + 1)
           n == hi - lo + 1
<1>1. s = Sums!Slice(lo, hi)
  BY DEF Sums!Slice
<1>2. /\ Len(nums) \in Nat /\ \A i \in 1..Len(nums) : nums[i] \in Nat
  BY Numbers
<1>3. /\ n \in Nat /\ lo + n = hi + 1
  OBVIOUS
<1>4. \A i \in (lo + 1)..(hi + 1) : nums[i] \in Nat
  BY <1>2
<1>5. /\ s \in Seq(Nat) /\ Len(s) = n
      /\ \A i \in 1..n : s[i] = nums[lo + i]
  <2>1. /\ s \in Seq(Nat)
        /\ Len(s) = (IF lo + 1 <= hi + 1 THEN (hi + 1) - (lo + 1) + 1 ELSE 0)
        /\ \A i \in 1..((hi + 1) - (lo + 1) + 1) : s[i] = nums[lo + 1 + i - 1]
    BY <1>4, SubSeqProperties
  <2>2. (hi + 1) - (lo + 1) + 1 = n /\ (lo + 1 > hi + 1 => n = 0)
    OBVIOUS
  <2>3. \A i \in 1..n : lo + 1 + i - 1 = lo + i
    OBVIOUS
  <2> HIDE DEF s
  <2> QED BY <2>1, <2>2, <2>3
<1>6. DOMAIN s = 1..n
  <2> HIDE DEF s, n
  <2> QED BY <1>5, LenProperties
<1>7. \A i \in 1..n : s[i] \in Int
  <2> SUFFICES ASSUME NEW i \in 1..n PROVE s[i] \in Int
    OBVIOUS
  <2>1. lo + i \in (lo + 1)..(hi + 1)
    OBVIOUS
  <2> HIDE DEF s, n
  <2>2. s[i] = nums[lo + i] /\ nums[lo + i] \in Nat
    BY <1>4, <1>5, <2>1
  <2> QED BY <2>2
<1> HIDE DEF s, n
<1>8. Copies(s, n, nums, lo)
  BY <1>5, <1>6, <1>7 DEF Copies
<1>9. Sums!IntSum(s) = Sums!Wrap(Total(nums, (lo + 1)..(lo + n)))
  BY <1>3, <1>8, IntSumIs
<1> QED BY <1>1, <1>3, <1>9

LEMMA WholeSum ==
  ASSUME nums \in Seq(Nat)
  PROVE  Sums!IntSum(nums) = Sums!Wrap(Total(nums, 1..Len(nums)))
<1> DEFINE n == Len(nums)
<1>1. n \in Nat /\ DOMAIN nums = 1..n /\ \A i \in 1..n : nums[i] \in Nat
  BY Numbers
<1> HIDE DEF n
<1>2. Copies(nums, n, nums, 0)
  BY <1>1 DEF Copies
<1>3. Sums!IntSum(nums) = Sums!Wrap(Total(nums, (0 + 1)..(0 + n)))
  BY <1>1, <1>2, IntSumIs
<1>4. (0 + 1)..(0 + n) = 1..n
  BY <1>1
<1> QED BY <1>3, <1>4 DEF n

\* How far the ranges have come: not beyond the array, and to its end with the last.
LEMMA RangesReach ==
  ASSUME SumsTyped, RangesAbut
  PROVE  /\ K \in Nat /\ K > 0 /\ Len(nums) \in Nat /\ Len(nums) \div K \in Nat
         /\ currentStart <= Len(nums) /\ (spawned = K => currentStart = Len(nums))
<1> DEFINE n == Len(nums)
           q == n \div K
           r == n % K
           d == K - spawned
<1>1. K \in Nat /\ K # 0 /\ n \in Nat /\ spawned \in 0..K /\ currentStart \in Nat
      /\ remainder \in Nat
  BY SumsConstants, Numbers DEF SumsTyped
<1>2. q \in Int /\ r \in 0..(K - 1) /\ n = K * q + r
  <2> HIDE DEF n
  <2> QED BY <1>1, Division
<1>3. currentStart + d * q + remainder = n /\ remainder <= d /\ d \in Nat
  BY <1>1 DEF RangesAbut
<1> HIDE DEF n, q, r, d
<1>4. q >= 0
  <2> SUFFICES ASSUME q <= -1 PROVE FALSE
    BY <1>2
  <2>1. K * q <= -K
    BY <1>1, <1>2
  <2> QED BY <1>1, <1>2, <2>1
<1>5. d * q >= 0
  BY <1>2, <1>3, <1>4
<1>6. currentStart <= n
  <2>1. d * q \in Int
    BY <1>2, <1>3
  <2> DEFINE p == d * q
  <2> HIDE DEF p
  <2>2. p \in Int /\ p >= 0 /\ currentStart + p + remainder = n
    BY <1>3, <1>5, <2>1 DEF p
  <2> QED BY <1>1, <2>2
<1>7. d = 0 => currentStart = n
  <2> SUFFICES ASSUME d = 0 PROVE currentStart = n
    OBVIOUS
  <2>1. d * q = 0
    BY <1>2
  <2> QED BY <1>1, <1>3, <2>1
<1>8. spawned = K => d = 0
  BY <1>1 DEF d
<1> QED BY <1>1, <1>2, <1>4, <1>6, <1>7, <1>8 DEF n, q

LEMMA SumsImplies == SumsInv => Sums!SumsConsistent
<1> SUFFICES ASSUME SumsInv PROVE Sums!SumsConsistent
  OBVIOUS
<1> DEFINE n == Len(nums)
<1>1. /\ nums \in Seq(Nat) /\ variant \in {"mutex", "atomic", "race"} /\ sum \in Int
      /\ range \in [Summers -> Int \X Int] /\ Summers \subseteq Nat
  BY SumsConstants DEF SumsInv, SumsTyped
<1>2. /\ n \in Nat /\ DOMAIN nums = 1..n
      /\ \A I \in SUBSET (1..n) : IsFiniteSet(I) /\ Total(nums, I) \in Nat
  BY <1>1, Numbers
<1>3. K \in Nat /\ K > 0 /\ currentStart <= n /\ (spawned = K => currentStart = n)
  BY RangesReach DEF SumsInv
<1>4. /\ \A t \in Summers : t >= spawned => range[t] = <<0, -1>>
      /\ \A t \in Summers : t < spawned => /\ range[t][1] >= 0 /\ range[t][2] < currentStart
      /\ \A t, u \in Summers : t < u /\ u < spawned => range[t][2] < range[u][1]
      /\ \A j \in 0..(currentStart - 1) :
           \E t \in Summers : t < spawned /\ j >= range[t][1] /\ j <= range[t][2]
      /\ spawned \in Int /\ currentStart \in Nat
  BY <1>3 DEF SumsInv, SumsTyped, RangesAbut
<1>5. \A t \in Summers : range[t][1] \in Int /\ range[t][2] \in Int
  BY <1>1
<1> HIDE DEF n
<1>6. Sums!RangesPartition
  <2> SUFFICES ASSUME spawned = K
               PROVE  /\ UNION {Sums!Indices(t) : t \in Summers} = 0..(n - 1)
                      /\ \A t, u \in Summers : t # u => Sums!Indices(t) \cap Sums!Indices(u) = {}
    BY DEF Sums!RangesPartition, Summers, n
  <2>1. currentStart = n
    BY <1>3
  <2>2. \A t \in Summers : \A j : j \in Sums!Indices(t) <=> /\ j \in Int /\ t < spawned
                                                           /\ j >= range[t][1] /\ j <= range[t][2]
    <3> SUFFICES ASSUME NEW t \in Summers, NEW j
                 PROVE  j \in Sums!Indices(t) <=> /\ j \in Int /\ t < spawned
                                                 /\ j >= range[t][1] /\ j <= range[t][2]
      OBVIOUS
    <3>1. j \in Sums!Indices(t) <=> j \in Int /\ j >= range[t][1] /\ j <= range[t][2]
      BY <1>5 DEF Sums!Indices
    <3>2. t \in Int
      BY <1>1
    <3>3. CASE t < spawned
      BY <3>1, <3>3
    <3>4. CASE ~(t < spawned)
      <4>1. range[t][1] = 0 /\ range[t][2] = -1
        BY <1>4, <3>2, <3>4
      <4> QED BY <3>1, <3>4, <4>1
    <3> QED BY <3>3, <3>4
  <2>3. ASSUME NEW t \in Summers, NEW u \in Summers, t < u
        PROVE  Sums!Indices(t) \cap Sums!Indices(u) = {}
    <3> SUFFICES ASSUME NEW j, j \in Sums!Indices(t), j \in Sums!Indices(u) PROVE FALSE
      OBVIOUS
    <3>1. j \in Int /\ u < spawned /\ j <= range[t][2] /\ j >= range[u][1]
      BY <2>2
    <3>2. range[t][2] < range[u][1]
      BY <1>4, <2>3, <3>1
    <3> QED BY <1>5, <3>1, <3>2
  <2>4. ASSUME NEW t \in Summers, NEW u \in Summers, t # u
        PROVE  Sums!Indices(t) \cap Sums!Indices(u) = {}
    <3>1. t < u \/ u < t
      BY <1>1, <2>4
    <3> QED BY <2>3, <3>1
  <2>5. ASSUME NEW j
        PROVE  j \in UNION {Sums!Indices(t) : t \in Summers} <=> j \in 0..(n - 1)
    <3>1. j \in UNION {Sums!Indices(t) : t \in Summers} <=> \E t \in Summers : j \in Sums!Indices(t)
      OBVIOUS
    <3>2. ASSUME NEW t \in Summers, j \in Sums!Indices(t)
          PROVE  j \in 0..(n - 1)
      <4>1. j \in Int /\ t < spawned /\ j >= range[t][1] /\ j <= range[t][2]
        BY <2>2, <3>2
      <4>2. range[t][1] >= 0 /\ range[t][2] < n
        BY <1>4, <2>1, <4>1
      <4> QED BY <1>2, <1>5, <4>1, <4>2
    <3>3. ASSUME j \in 0..(n - 1)
          PROVE  \E t \in Summers : j \in Sums!Indices(t)
      <4>1. PICK t \in Summers : t < spawned /\ j >= range[t][1] /\ j <= range[t][2]
        BY <1>4, <2>1, <3>3
      <4>2. j \in Int
        BY <1>2, <3>3
      <4> QED BY <2>2, <4>1, <4>2
    <3> QED BY <3>1, <3>2, <3>3
  <2> QED BY <2>4, <2>5
<1>7. ASSUME summed
      PROVE  Ended = 1..n /\ Sums!ExpectedSum = Sums!Wrap(Total(nums, 1..n))
  <2>1. spawned = K /\ \A t \in 0..(K - 1) : stage[t] = "ended"
    BY <1>7 DEF SumsInv, StagesFollow
  <2>2. ASSUME NEW i \in 1..n
        PROVE  i \in Ended
    <3>1. i - 1 \in 0..(currentStart - 1)
      BY <1>2, <1>3, <2>1
    <3>2. PICK t \in Summers : t < spawned /\ i - 1 >= range[t][1] /\ i - 1 <= range[t][2]
      BY <1>4, <3>1
    <3>3. t \in 0..(K - 1)
      BY <1>1, <1>3, <2>1, <3>2
    <3> QED BY <2>1, <3>2, <3>3 DEF Ended, n
  <2>3. Ended \subseteq 1..n
    BY DEF Ended, n
  <2> QED BY <1>1, <2>2, <2>3, WholeSum DEF Sums!ExpectedSum, n
<1>8. Sums!ResultAsFarAsSynchronised
  <2> SUFFICES ASSUME summed
               PROVE  /\ variant = "mutex" => sum = Sums!ExpectedSum
                      /\ variant = "atomic" => /\ Sums!Wrap(sum) = Sums!ExpectedSum
                                               /\ Sums!FitsInt => sum = Sums!ExpectedSum
                      /\ variant = "race" => \E kept \in SUBSET (DOMAIN nums) :
                                               sum = Sums!Wrap(Sums!Elements(kept))
    BY <1>1 DEF Sums!ResultAsFarAsSynchronised
  <2> DEFINE T == Total(nums, 1..n)
  <2>1. Ended = 1..n /\ Sums!ExpectedSum = Sums!Wrap(T) /\ T \in Nat
    BY <1>2, <1>7
  <2>2. CASE variant = "mutex"
    BY <2>1, <2>2 DEF SumsInv, ResultFollows
  <2>3. CASE variant = "atomic"
    <3>1. /\ Sums!Wrap(sum) = Sums!Wrap(Total(nums, Ended))
          /\ Total(nums, 1..n) < Half => sum = Total(nums, Ended)
      BY <2>3 DEF SumsInv, ResultFollows, n
    <3>2. Sums!FitsInt => T < Half
      BY <1>1, <1>2, ElementsAre DEF Sums!FitsInt, n
    <3>3. T < Half => Sums!Wrap(T) = T
      <4> HIDE DEF T
      <4> SUFFICES ASSUME T < Half PROVE T \in 0..(Half - 1)
        BY WrapFits
      <4> QED BY <2>1, SumsConstants
    <3> QED BY <2>1, <2>3, <3>1, <3>2, <3>3
  <2>4. CASE variant = "race"
    <3>1. PICK kept \in SUBSET (1..n) : sum = Sums!Wrap(Total(nums, kept))
      BY <2>4 DEF SumsInv, ResultFollows, Passed, n
    <3>2. Sums!Elements(kept) = Total(nums, kept)
      BY <1>1, ElementsAre DEF n
    <3> QED BY <1>2, <2>4, <3>1, <3>2
  <2> QED BY <1>1, <2>2, <2>3, <2>4
<1> QED BY <1>6, <1>8 DEF Sums!SumsConsistent

LEMMA SumsInit == Sums!Init => SumsInv
<1> SUFFICES ASSUME Sums!Init PROVE SumsInv
  OBVIOUS
<1>1. /\ variant \in {"mutex", "atomic", "race"}
      /\ nums \in Arrays /\ K \in Ks
      /\ spawned = 0 /\ currentStart = 0 /\ remainder = Len(nums) % K
      /\ range = [t \in Summers |-> <<0, -1>>]
      /\ stage = [t \in Summers |-> "unborn"]
      /\ index = [t \in Summers |-> 0] /\ seen = [t \in Summers |-> 0]
      /\ sum = 0 /\ summed = FALSE
  BY DEF Sums!Init, Summers
<1>2. nums \in Seq(Nat) /\ K \in Nat /\ K # 0 /\ Summers \subseteq Nat
  BY <1>1, SumsConstants
<1>3. Len(nums) \in Nat
  BY <1>2, Numbers
<1> DEFINE n == Len(nums)
           q == n \div K
           r == n % K
<1>4. q \in Int /\ r \in 0..(K - 1) /\ n = K * q + r
  <2> HIDE DEF n
  <2> QED BY <1>2, <1>3, Division DEF n
<1>5. SumsTyped
  <2>1. remainder \in Nat
    BY <1>1, <1>2, <1>4
  <2>2. spawned \in 0..K /\ currentStart \in Nat /\ sum \in Int
    BY <1>1, <1>2
  <2>3. range \in [Summers -> Int \X Int]
    BY <1>1
  <2>4. stage \in [Summers -> {"unborn", "add", "loaded", "ended"}]
    BY <1>1
  <2>5. index \in [Summers -> Int] /\ seen \in [Summers -> Int]
    BY <1>1
  <2> QED BY <1>1, <1>2, <2>1, <2>2, <2>3, <2>4, <2>5 DEF SumsTyped
<1>6. currentStart + (K - spawned) * q + remainder = n /\ remainder <= K - spawned
  <2>1. K - spawned = K /\ remainder = r
    BY <1>1, <1>2
  <2> HIDE DEF n, q, r
  <2> QED BY <1>1, <1>2, <1>4, <2>1
<1>7. \A t \in Summers : ~(t < spawned)
  BY <1>1, <1>2
<1>8. RangesAbut
  BY <1>1, <1>6, <1>7 DEF RangesAbut
<1>9. StagesFollow
  BY <1>1 DEF StagesFollow
<1>10. Ended = {}
  BY <1>1 DEF Ended
<1>11. Total(nums, {}) = 0 /\ Sums!Wrap(0) = 0
  BY FS_EmptySet, TotalTakes, WrapZero
<1>12. Passed(0)
  BY <1>11 DEF Passed
<1>13. ResultFollows
  BY <1>1, <1>10, <1>11, <1>12 DEF ResultFollows
<1> QED BY <1>5, <1>8, <1>9, <1>13 DEF SumsInv

\* The loop that creates the threads lays the next range behind the last one.
LEMMA SpawnKeeps == SumsInv /\ Sums!Spawn => SumsInv'
<1> SUFFICES ASSUME SumsInv, Sums!Spawn PROVE SumsInv'
  OBVIOUS
<1> DEFINE q == Len(nums) \div K
           more == IF remainder > 0 THEN 1 ELSE 0
           end == currentStart + q - 1 + more
           t == spawned
<1>1. /\ SumsTyped /\ RangesAbut /\ StagesFollow /\ ResultFollows
      /\ K \in Nat /\ K > 0 /\ q \in Nat
  BY RangesReach DEF SumsInv
<1>2. /\ t < K /\ t \in Nat /\ currentStart \in Nat /\ remainder \in Nat /\ more \in {0, 1}
      /\ end \in Int /\ Summers \subseteq Nat
  BY <1>1, SumsConstants DEF SumsTyped, Sums!Spawn
<1>3. t \in Summers
  <2>1. t \in 0..(K - 1)
    BY <1>1, <1>2
  <2> QED BY <1>1, <2>1, SumsConstants DEF SumsTyped
<1>4. /\ range' = [range EXCEPT ![t] = <<currentStart, end>>]
      /\ stage' = [stage EXCEPT ![t] = "add"]
      /\ index' = [index EXCEPT ![t] = currentStart]
      /\ remainder' = remainder - more /\ currentStart' = end + 1 /\ spawned' = t + 1
      /\ variant' = variant /\ nums' = nums /\ K' = K /\ seen' = seen /\ sum' = sum
      /\ summed' = summed
  BY DEF Sums!Spawn, Sums!Input
<1>5. end + 1 >= currentStart
  BY <1>1, <1>2
<1>6. remainder - more \in Nat /\ remainder - more <= K - (t + 1)
  BY <1>1, <1>2 DEF RangesAbut
<1>7. (end + 1) + (K - (t + 1)) * q + (remainder - more) = Len(nums)
  <2> DEFINE d == K - t
             n == Len(nums)
  <2>1. currentStart + d * q + remainder = n /\ d \in Int /\ n \in Int
    BY <1>1, <1>2, RangesReach DEF RangesAbut
  <2>2. K - (t + 1) = d - 1 /\ end + 1 = currentStart + q + more
    BY <1>1, <1>2
  <2> HIDE DEF d, n, q, more, end
  <2>3. (d - 1) * q = d * q - q
    BY <1>1, <2>1
  <2> DEFINE p == d * q
  <2>4. p \in Int
    BY <1>1, <2>1
  <2> HIDE DEF p
  <2>5. (d - 1) * q = p - q /\ currentStart + p + remainder = n
    BY <2>1, <2>3 DEF p
  <2>6. (end + 1) + (d - 1) * q + (remainder - more) = n
    BY <1>1, <1>2, <2>1, <2>2, <2>4, <2>5
  <2> QED BY <2>2, <2>6 DEF n
<1> HIDE DEF q, more, end, t
<1>8. /\ range'[t] = <<currentStart, end>> /\ stage'[t] = "add" /\ index'[t] = currentStart
      /\ \A u \in Summers : u # t => /\ range'[u] = range[u] /\ stage'[u] = stage[u]
                                     /\ index'[u] = index[u]
  BY <1>1, <1>3, <1>4 DEF SumsTyped
<1>9. SumsTyped'
  <2>1. spawned' \in 0..K' /\ currentStart' \in Nat /\ remainder' \in Nat
    BY <1>1, <1>2, <1>4, <1>5, <1>6
  <2>2. range' \in [Summers -> Int \X Int]
    BY <1>1, <1>2, <1>3, <1>4 DEF SumsTyped
  <2>3. stage' \in [Summers -> {"unborn", "add", "loaded", "ended"}]
    BY <1>1, <1>3, <1>4 DEF SumsTyped
  <2>4. index' \in [Summers -> Int]
    BY <1>1, <1>2, <1>3, <1>4 DEF SumsTyped
  <2> QED BY <1>1, <1>4, <2>1, <2>2, <2>3, <2>4 DEF SumsTyped, Summers, Sums!SumThread
<1>10. \A u \in Summers : u < t + 1 <=> u < t \/ u = t
  BY <1>2
<1>11. \A u \in Summers : range[u][1] \in Int /\ range[u][2] \in Int
  BY <1>1 DEF SumsTyped
<1>12. RangesAbut'
  <2>1. \A u \in Summers : u >= t + 1 => stage'[u] = "unborn" /\ range'[u] = <<0, -1>>
    BY <1>1, <1>2, <1>8 DEF RangesAbut, t
  <2>2. ASSUME NEW u \in Summers, u < t + 1
        PROVE  /\ stage'[u] # "unborn" /\ range'[u][1] >= 0
               /\ range'[u][1] <= range'[u][2] + 1
               /\ range'[u][2] < end + 1
               /\ index'[u] >= range'[u][1]
    <3>1. CASE u = t
      BY <1>2, <1>5, <1>8, <3>1
    <3>2. CASE u < t
      <4>1. /\ stage[u] # "unborn" /\ range[u][1] >= 0
            /\ range[u][1] <= range[u][2] + 1
            /\ range[u][2] < currentStart
            /\ index[u] >= range[u][1]
        BY <1>1, <3>2 DEF RangesAbut, t
      <4>2. u # t
        BY <1>2, <3>2
      <4> QED BY <1>2, <1>5, <1>8, <1>11, <4>1, <4>2
    <3> QED BY <1>10, <2>2, <3>1, <3>2
  <2>3. ASSUME NEW u \in Summers, NEW v \in Summers, u < v, v < t + 1
        PROVE  range'[u][2] < range'[v][1]
    <3>1. u < t /\ u # t
      BY <1>2, <2>3
    <3>2. CASE v = t
      <4>1. range[u][2] < currentStart
        BY <1>1, <3>1 DEF RangesAbut, t
      <4> QED BY <1>8, <3>1, <3>2, <4>1
    <3>3. CASE v < t
      <4>1. range[u][2] < range[v][1] /\ v # t
        BY <1>1, <1>2, <2>3, <3>3 DEF RangesAbut, t
      <4> QED BY <1>8, <3>1, <4>1
    <3> QED BY <1>10, <2>3, <3>2, <3>3
  <2>4. ASSUME NEW j \in 0..end
        PROVE  \E u \in Summers : u < t + 1 /\ j >= range'[u][1] /\ j <= range'[u][2]
    <3>1. CASE j < currentStart
      <4>1. j \in 0..(currentStart - 1)
        BY <1>2, <3>1
      <4>2. PICK u \in Summers : u < t /\ j >= range[u][1] /\ j <= range[u][2]
        BY <1>1, <4>1 DEF RangesAbut, t
      <4>3. u # t /\ u < t + 1
        BY <1>2, <4>2
      <4> QED BY <1>8, <4>2, <4>3
    <3>2. CASE j >= currentStart
      <4>1. t < t + 1 /\ j <= end
        BY <1>2
      <4> QED BY <1>3, <1>8, <3>2, <4>1
    <3> QED BY <1>2, <3>1, <3>2
  <2>5. end = (end + 1) - 1
    BY <1>2
  <2>6. Summers' = Summers
    BY DEF Summers, Sums!SumThread
  <2>7. currentStart' + (K' - spawned') * (Len(nums') \div K') + remainder' = Len(nums')
    BY <1>4, <1>7 DEF q
  <2>8. remainder' <= K' - spawned'
    BY <1>4, <1>6
  <2>9. \A j \in 0..(currentStart' - 1) :
          \E u \in Summers : u < spawned' /\ j >= range'[u][1] /\ j <= range'[u][2]
    BY <1>4, <2>4, <2>5
  <2>10. \A u, v \in Summers : u < v /\ v < spawned' => range'[u][2] < range'[v][1]
    BY <1>4, <2>3
  <2>11. /\ \A u \in Summers : u >= spawned' => stage'[u] = "unborn" /\ range'[u] = <<0, -1>>
         /\ \A u \in Summers : u < spawned' => /\ stage'[u] # "unborn" /\ range'[u][1] >= 0
                                               /\ range'[u][1] <= range'[u][2] + 1
                                               /\ range'[u][2] < currentStart'
                                               /\ index'[u] >= range'[u][1]
    BY <1>4, <2>1, <2>2
  <2> QED BY <2>6, <2>7, <2>8, <2>9, <2>10, <2>11 DEF RangesAbut
<1>13. StagesFollow'
  <2>1. ~summed
    <3>1. summed => t = K
      BY <1>1 DEF StagesFollow, t
    <3> QED BY <1>1, <1>2, <3>1
  <2> QED BY <1>1, <1>4, <1>8, <2>1 DEF StagesFollow, Summers, Sums!SumThread
<1>14. stage[t] = "unborn"
  <2>1. t >= spawned
    BY <1>2 DEF t
  <2> QED BY <1>1, <1>3, <2>1 DEF RangesAbut
<1>15. Ended' = Ended
  BY <1>4, <1>8, <1>14 DEF Ended, Summers, Sums!SumThread
<1>16. ASSUME NEW w, Passed(w)
       PROVE  Passed(w)'
  <2>1. PICK kept \in SUBSET (1..Len(nums)) :
          /\ w = Sums!Wrap(Total(nums, kept))
          /\ \A i \in kept :
               /\ i - 1 < currentStart
               /\ \A u \in Summers : u < t => i - 1 < index[u] \/ i - 1 > range[u][2]
    BY <1>16 DEF Passed, t
  <2>2. ASSUME NEW i \in kept
        PROVE  /\ i - 1 < end + 1
               /\ \A u \in Summers : u < t + 1 => i - 1 < index'[u] \/ i - 1 > range'[u][2]
    <3>1. i \in Int /\ i - 1 < currentStart
      BY <2>1, <1>1, RangesReach
    <3>2. i - 1 < end + 1
      BY <1>2, <1>5, <3>1
    <3>3. ASSUME NEW u \in Summers, u < t + 1
          PROVE  i - 1 < index'[u] \/ i - 1 > range'[u][2]
      <4>1. CASE u = t
        BY <1>8, <3>1, <4>1
      <4>2. CASE u < t
        <5>1. u # t
          BY <1>2, <4>2
        <5> QED BY <1>8, <2>1, <4>2, <5>1
      <4> QED BY <1>10, <3>3, <4>1, <4>2
    <3> QED BY <3>2, <3>3
  <2> QED BY <1>4, <2>1, <2>2 DEF Passed, Summers, Sums!SumThread, Sums!Wrap
<1>17. ResultFollows'
  <2>1. CASE variant = "race"
    <3>1. Passed(sum)'
      <4>1. Passed(sum)
        BY <1>1, <2>1 DEF ResultFollows
      <4> QED BY <1>4, <1>16, <4>1
    <3> QED BY <1>1, <1>4, <1>8, <1>16, <2>1, <3>1 DEF ResultFollows, Summers, Sums!SumThread
  <2>2. CASE variant # "race"
    BY <1>1, <1>4, <1>15, <2>2 DEF ResultFollows, Sums!Wrap
  <2> QED BY <2>1, <2>2
<1> QED BY <1>9, <1>12, <1>13, <1>17 DEF SumsInv

\* A step of one thread leaves the ranges alone.
LEMMA SummerMoves ==
  ASSUME SumsInv, NEW t \in Summers, NEW l \in {"add", "loaded", "ended"},
         stage[t] \in {"add", "loaded"}, stage' = [stage EXCEPT ![t] = l],
         l = "loaded" => variant = "race",
         index' \in [Summers -> Int], \A u \in Summers : index'[u] >= index[u],
         seen' \in [Summers -> Int], sum' \in Int,
         UNCHANGED <<variant, nums, K, spawned, currentStart, remainder, range, summed>>
  PROVE  SumsTyped' /\ RangesAbut' /\ StagesFollow'
<1>1. /\ SumsTyped /\ RangesAbut /\ StagesFollow
      /\ variant' = variant /\ nums' = nums /\ K' = K /\ spawned' = spawned
      /\ currentStart' = currentStart /\ remainder' = remainder /\ range' = range
      /\ summed' = summed
  BY DEF SumsInv
<1>2. /\ stage'[t] = l /\ \A u \in Summers : u # t => stage'[u] = stage[u]
      /\ stage' \in [Summers -> {"unborn", "add", "loaded", "ended"}]
  BY <1>1 DEF SumsTyped
<1>3. Summers' = Summers
  BY DEF Summers, Sums!SumThread
<1>4. SumsTyped'
  BY <1>1, <1>2, <1>3 DEF SumsTyped
<1>5. RangesAbut'
  <2>1. \A u \in Summers : u >= spawned => stage'[u] = "unborn"
    BY <1>1, <1>2 DEF RangesAbut
  <2>2. ASSUME NEW u \in Summers, u < spawned
        PROVE  stage'[u] # "unborn" /\ index'[u] >= range[u][1]
    <3>1. stage[u] # "unborn" /\ index[u] >= range[u][1] /\ index'[u] >= index[u]
      BY <1>1, <2>2 DEF RangesAbut
    <3>2. range[u][1] \in Int /\ index[u] \in Int /\ index'[u] \in Int
      BY <1>1 DEF SumsTyped
    <3> QED BY <1>2, <3>1, <3>2
  <2> QED BY <1>1, <1>3, <2>1, <2>2 DEF RangesAbut
<1>6. StagesFollow'
  <2>1. ~summed
    <3> SUFFICES ASSUME summed PROVE FALSE
      OBVIOUS
    <3>1. spawned = K /\ \A u \in 0..(K - 1) : stage[u] = "ended"
      BY <1>1 DEF StagesFollow
    <3>2. K \in Int /\ t \in Nat
      BY <1>1, SumsConstants DEF SumsTyped
    <3>3. t \in 0..(K - 1) \/ t >= spawned
      BY <3>1, <3>2
    <3> QED BY <1>1, <3>1, <3>3 DEF RangesAbut
  <2> QED BY <1>1, <1>2, <1>3, <2>1 DEF StagesFollow
<1> QED BY <1>4, <1>5, <1>6

\* Where the range of a thread lies that has been created.
LEMMA RangeOf ==
  ASSUME SumsInv, NEW t \in Summers, stage[t] # "unborn"
  PROVE  /\ t < spawned /\ nums \in Seq(Nat) /\ Len(nums) \in Nat
         /\ range[t][1] \in Nat /\ range[t][2] \in Int /\ range[t][1] <= range[t][2] + 1
         /\ range[t][2] < Len(nums) /\ range[t][2] < currentStart /\ currentStart \in Nat
         /\ index[t] \in Int /\ index[t] >= range[t][1] /\ seen[t] \in Int /\ sum \in Int
         /\ (range[t][1] + 1)..(range[t][2] + 1) \in SUBSET (1..Len(nums))
<1>1. SumsTyped /\ RangesAbut
  BY DEF SumsInv
<1>2. t \in Nat /\ spawned \in Int
  BY <1>1, SumsConstants DEF SumsTyped
<1>3. t < spawned
  BY <1>1, <1>2 DEF RangesAbut
<1>4. /\ range[t][1] \in Int /\ range[t][2] \in Int /\ index[t] \in Int /\ seen[t] \in Int
      /\ sum \in Int /\ currentStart \in Nat /\ nums \in Seq(Nat)
  BY <1>1 DEF SumsTyped
<1>5. /\ range[t][1] >= 0 /\ range[t][1] <= range[t][2] + 1
      /\ range[t][2] < currentStart /\ index[t] >= range[t][1]
  BY <1>1, <1>3 DEF RangesAbut
<1>6. currentStart <= Len(nums) /\ Len(nums) \in Nat
  BY <1>1, RangesReach
<1>7. range[t][2] < Len(nums)
  BY <1>4, <1>5, <1>6
<1>8. (range[t][1] + 1)..(range[t][2] + 1) \in SUBSET (1..Len(nums))
  BY <1>4, <1>5, <1>6, <1>7
<1> QED BY <1>3, <1>4, <1>5, <1>6, <1>7, <1>8

\* What a thread adds by ending: the elements of its range, which nobody else has.
LEMMA EndedGrows ==
  ASSUME SumsInv, NEW t \in Summers, stage[t] = "add", stage' = [stage EXCEPT ![t] = "ended"],
         nums' = nums, range' = range
  PROVE  LET mine == (range[t][1] + 1)..(range[t][2] + 1)
         IN  /\ mine \in SUBSET (1..Len(nums))
             /\ Total(nums, Ended) \in Nat /\ Total(nums, mine) \in Nat
             /\ Total(nums', Ended') = Total(nums, Ended) + Total(nums, mine)
             /\ Total(nums, mine) <= Total(nums, 1..Len(nums))
             /\ Total(nums, 1..Len(nums)) \in Nat
<1> DEFINE mine == (range[t][1] + 1)..(range[t][2] + 1)
           n == Len(nums)
<1>1. /\ t < spawned /\ nums \in Seq(Nat) /\ n \in Nat
      /\ range[t][1] \in Int /\ range[t][2] \in Int /\ mine \in SUBSET (1..n)
  BY RangeOf
<1>2. SumsTyped /\ RangesAbut /\ Summers \subseteq Nat
  BY SumsConstants DEF SumsInv
<1>3. \A i \in 1..n : i \in mine <=> i - 1 >= range[t][1] /\ i - 1 <= range[t][2]
  BY <1>1
<1>4. \A I \in SUBSET (1..n) : IsFiniteSet(I) /\ Total(nums, I) \in Nat
  BY <1>1, Numbers
<1>5. \A i \in 1..n : nums[i] \in Nat
  BY <1>1, Numbers
<1>6. Ended \subseteq 1..n
  BY DEF Ended, n
<1>7. \A u \in Summers : stage'[u] = "ended" <=> stage[u] = "ended" \/ u = t
  BY <1>2 DEF SumsTyped
<1>8. Summers' = Summers
  BY DEF Summers, Sums!SumThread
<1> HIDE DEF mine
<1>9. Ended' = Ended \cup mine
  <2>1. Ended' = {i \in 1..n : \E u \in Summers : /\ stage'[u] = "ended"
                                                  /\ i - 1 >= range[u][1] /\ i - 1 <= range[u][2]}
    BY <1>8 DEF Ended, n
  <2>2. Ended = {i \in 1..n : \E u \in Summers : /\ stage[u] = "ended"
                                                 /\ i - 1 >= range[u][1] /\ i - 1 <= range[u][2]}
    BY DEF Ended, n
  <2> HIDE DEF n
  <2>3. \A i \in 1..n : i \in Ended' <=> i \in Ended \/ i \in mine
    BY <1>3, <1>7, <2>1, <2>2
  <2>4. Ended' \subseteq 1..n
    BY <2>1
  <2> QED BY <1>1, <1>6, <2>3, <2>4
<1>10. Ended \cap mine = {}
  <2> SUFFICES ASSUME NEW i \in Ended, i \in mine PROVE FALSE
    OBVIOUS
  <2>1. PICK u \in Summers : stage[u] = "ended" /\ i - 1 >= range[u][1] /\ i - 1 <= range[u][2]
    BY DEF Ended
  <2>2. i \in Int /\ i - 1 >= range[t][1] /\ i - 1 <= range[t][2]
    BY <1>1, <1>3, <1>6
  <2>3. u # t /\ u < spawned
    <3>1. u \in Int /\ spawned \in Int
      BY <1>2 DEF SumsTyped
    <3> QED BY <1>2, <2>1, <3>1 DEF RangesAbut
  <2>4. range[u][1] \in Int /\ range[u][2] \in Int
    BY <1>2 DEF SumsTyped
  <2>5. u < t \/ t < u
    BY <1>2, <2>3
  <2>6. range[u][2] < range[t][1] \/ range[t][2] < range[u][1]
    BY <1>1, <1>2, <2>3, <2>5 DEF RangesAbut
  <2> QED BY <1>1, <2>1, <2>2, <2>4, <2>6
<1>11. Total(nums, Ended \cup mine) = Total(nums, Ended) + Total(nums, mine)
  <2>1. IsFiniteSet(Ended) /\ IsFiniteSet(mine)
    BY <1>1, <1>4, <1>6
  <2>2. \A i \in Ended \cup mine : nums[i] \in Int
    BY <1>1, <1>5, <1>6
  <2> QED BY <1>10, <2>1, <2>2, TotalOfUnion
<1>12. Total(nums, mine) <= Total(nums, 1..n)
  <2> DEFINE rest == (1..n) \ mine
  <2>1. IsFiniteSet(mine) /\ IsFiniteSet(rest) /\ rest \in SUBSET (1..n)
    BY <1>1, <1>4
  <2>2. \A i \in mine \cup rest : nums[i] \in Int
    BY <1>1, <1>5
  <2>3. mine \cap rest = {} /\ mine \cup rest = 1..n
    BY <1>1
  <2> HIDE DEF rest
  <2>4. Total(nums, mine \cup rest) = Total(nums, mine) + Total(nums, rest)
    BY <2>1, <2>2, <2>3, TotalOfUnion
  <2> DEFINE a == Total(nums, mine)
             b == Total(nums, rest)
             c == Total(nums, 1..n)
  <2>5. a \in Nat /\ b \in Nat /\ c = a + b
    BY <1>1, <1>4, <2>1, <2>3, <2>4
  <2> HIDE DEF a, b, c
  <2>6. a <= c
    BY <2>5
  <2> QED BY <2>6 DEF a, c
<1>13. Total(nums, Ended) \in Nat /\ Total(nums, mine) \in Nat /\ Total(nums, 1..n) \in Nat
  BY <1>1, <1>4, <1>6
<1> QED BY <1>1, <1>9, <1>11, <1>12, <1>13 DEF mine, n

LEMMA AddUnderMutexKeeps ==
  ASSUME SumsInv, NEW t \in Summers, Sums!AddUnderMutex(t)
  PROVE  SumsInv'
<1> DEFINE lo == range[t][1]
           hi == range[t][2]
           a == Total(nums, Ended)
           b == Total(nums, (lo + 1)..(hi + 1))
<1>1. /\ variant = "mutex" /\ stage[t] = "add"
      /\ sum' = Sums!Wrap(sum + Sums!IntSum(Sums!Slice(lo, hi)))
      /\ stage' = [stage EXCEPT ![t] = "ended"]
      /\ variant' = variant /\ nums' = nums /\ K' = K /\ spawned' = spawned
      /\ currentStart' = currentStart /\ remainder' = remainder /\ range' = range
      /\ index' = index /\ seen' = seen /\ summed' = summed
  BY DEF Sums!AddUnderMutex, Sums!Input
<1>2. /\ lo \in Nat /\ hi \in Int /\ lo <= hi + 1 /\ hi < Len(nums) /\ nums \in Seq(Nat)
      /\ sum \in Int
  BY <1>1, RangeOf
<1>3. Sums!IntSum(Sums!Slice(lo, hi)) = Sums!Wrap(b)
  <2> HIDE DEF lo, hi
  <2> QED BY <1>2, SliceSum
<1>4. a \in Nat /\ b \in Nat /\ Total(nums', Ended') = a + b
  BY <1>1, EndedGrows
<1>5. sum = Sums!Wrap(a)
  BY <1>1 DEF SumsInv, ResultFollows
<1> HIDE DEF a, b
<1>6. sum' = Sums!Wrap(a + b) /\ sum' \in Int
  <2>1. a \in Int /\ b \in Int /\ a + b \in Int
    BY <1>4
  <2>2. sum' = Sums!Wrap(Sums!Wrap(a) + Sums!Wrap(b))
    BY <1>1, <1>3, <1>5
  <2> QED BY <2>1, <2>2, WrapBoth, WrapSum
<1>7. SumsTyped' /\ RangesAbut' /\ StagesFollow'
  <2>1. /\ index \in [Summers -> Int] /\ seen \in [Summers -> Int]
        /\ \A u \in Summers : index[u] >= index[u]
    BY DEF SumsInv, SumsTyped
  <2> QED BY <1>1, <1>6, <2>1, SummerMoves
<1>8. ResultFollows'
  BY <1>1, <1>4, <1>6 DEF ResultFollows, Sums!Wrap
<1> QED BY <1>7, <1>8 DEF SumsInv

LEMMA AddAtomicallyKeeps ==
  ASSUME SumsInv, NEW t \in Summers, Sums!AddAtomically(t)
  PROVE  SumsInv'
<1> DEFINE lo == range[t][1]
           hi == range[t][2]
           a == Total(nums, Ended)
           b == Total(nums, (lo + 1)..(hi + 1))
           all == Total(nums, 1..Len(nums))
<1>1. /\ variant = "atomic" /\ stage[t] = "add"
      /\ sum' = sum + Sums!IntSum(Sums!Slice(lo, hi))
      /\ stage' = [stage EXCEPT ![t] = "ended"]
      /\ variant' = variant /\ nums' = nums /\ K' = K /\ spawned' = spawned
      /\ currentStart' = currentStart /\ remainder' = remainder /\ range' = range
      /\ index' = index /\ seen' = seen /\ summed' = summed
  BY DEF Sums!AddAtomically, Sums!Input
<1>2. /\ lo \in Nat /\ hi \in Int /\ lo <= hi + 1 /\ hi < Len(nums) /\ nums \in Seq(Nat)
      /\ sum \in Int
  BY <1>1, RangeOf
<1>3. Sums!IntSum(Sums!Slice(lo, hi)) = Sums!Wrap(b)
  <2> HIDE DEF lo, hi
  <2> QED BY <1>2, SliceSum
<1>4. a \in Nat /\ b \in Nat /\ Total(nums', Ended') = a + b /\ b <= all /\ all \in Nat
  BY <1>1, EndedGrows
<1>5. Sums!Wrap(sum) = Sums!Wrap(a) /\ (all < Half => sum = a)
  BY <1>1 DEF SumsInv, ResultFollows
<1> HIDE DEF a, b
<1>6. sum' = sum + Sums!Wrap(b) /\ Sums!Wrap(b) \in Int /\ sum' \in Int
  <2>1. Sums!Wrap(b) \in Int
    BY <1>4, WrapSum
  <2> QED BY <1>1, <1>2, <1>3, <2>1
<1>7. Sums!Wrap(sum') = Sums!Wrap(a + b)
  <2>1. a \in Int /\ b \in Int
    BY <1>4
  <2>2. Sums!Wrap(sum + Sums!Wrap(b)) = Sums!Wrap(Sums!Wrap(sum) + Sums!Wrap(b))
    <3>1. Sums!Wrap(sum + Sums!Wrap(b)) = Sums!Wrap(sum + b)
      BY <1>2, <2>1, WrapBoth
    <3>2. Sums!Wrap(Sums!Wrap(sum) + Sums!Wrap(b)) = Sums!Wrap(sum + b)
      BY <1>2, <2>1, WrapBoth
    <3> QED BY <3>1, <3>2
  <2>3. Sums!Wrap(Sums!Wrap(a) + Sums!Wrap(b)) = Sums!Wrap(a + b)
    BY <2>1, WrapBoth
  <2> QED BY <1>5, <1>6, <2>2, <2>3
<1>8. all < Half => sum' = a + b
  <2> SUFFICES ASSUME all < Half PROVE sum' = a + b
    OBVIOUS
  <2>1. b \in 0..(Half - 1)
    <3> HIDE DEF all
    <3> QED BY <1>4, SumsConstants
  <2>2. Sums!Wrap(b) = b
    BY <2>1, WrapFits
  <2> QED BY <1>5, <1>6, <2>2
<1>9. SumsTyped' /\ RangesAbut' /\ StagesFollow'
  <2>1. /\ index \in [Summers -> Int] /\ seen \in [Summers -> Int]
        /\ \A u \in Summers : index[u] >= index[u]
    BY DEF SumsInv, SumsTyped
  <2> QED BY <1>1, <1>6, <2>1, SummerMoves
<1>10. ResultFollows'
  BY <1>1, <1>4, <1>7, <1>8 DEF ResultFollows, Sums!Wrap
<1> QED BY <1>9, <1>10 DEF SumsInv

LEMMA LoadResultKeeps ==
  ASSUME SumsInv, NEW t \in Summers, Sums!Load(t)
  PROVE  SumsInv'
<1>1. /\ variant = "race" /\ stage[t] = "add"
      /\ seen' = [seen EXCEPT ![t] = sum]
      /\ stage' = [stage EXCEPT ![t] = "loaded"]
      /\ variant' = variant /\ nums' = nums /\ K' = K /\ spawned' = spawned
      /\ currentStart' = currentStart /\ remainder' = remainder /\ range' = range
      /\ index' = index /\ sum' = sum /\ summed' = summed
  BY DEF Sums!Load, Sums!Input
<1>2. /\ SumsTyped /\ seen \in [Summers -> Int] /\ sum \in Int
      /\ stage \in [Summers -> {"unborn", "add", "loaded", "ended"}]
  BY DEF SumsInv, SumsTyped
<1>3. SumsTyped' /\ RangesAbut' /\ StagesFollow'
  <2>1. /\ index \in [Summers -> Int] /\ seen' \in [Summers -> Int]
        /\ \A u \in Summers : index[u] >= index[u]
    BY <1>1, <1>2 DEF SumsTyped
  <2> QED BY <1>1, <1>2, <2>1, SummerMoves
<1>4. ASSUME NEW w, Passed(w)
      PROVE  Passed(w)'
  BY <1>1, <1>4 DEF Passed, Summers, Sums!SumThread, Sums!Wrap
<1>5. Passed(sum) /\ \A u \in Summers : stage[u] = "loaded" => Passed(seen[u])
  BY <1>1 DEF SumsInv, ResultFollows
<1>6. Passed(sum)'
  BY <1>1, <1>4, <1>5
<1>7. ASSUME NEW u \in Summers, stage'[u] = "loaded"
      PROVE  Passed(seen[u])'
  <2>1. seen'[u] = IF u = t THEN sum ELSE seen[u]
    BY <1>1, <1>2
  <2>2. u # t => stage[u] = "loaded"
    BY <1>1, <1>2, <1>7
  <2>3. Passed(IF u = t THEN sum ELSE seen[u])
    BY <1>5, <2>2
  <2>4. PICK w : w = IF u = t THEN sum ELSE seen[u]
    OBVIOUS
  <2>5. Passed(w)'
    BY <1>4, <2>3, <2>4
  <2>6. seen'[u] = w
    BY <2>1, <2>4
  <2> QED BY <2>5, <2>6
<1>8. ResultFollows'
  BY <1>1, <1>6, <1>7 DEF ResultFollows, Summers, Sums!SumThread
<1> QED BY <1>3, <1>8 DEF SumsInv

\* What a thread stores is what it loaded and the elements it has come past since:
\* what others have added in between is lost, and nothing is added twice.
LEMMA StoreAfterKeeps ==
  ASSUME SumsInv, NEW t \in Summers, NEW last, Sums!StoreAfter(t, last)
  PROVE  SumsInv'
<1> DEFINE lo == index[t]
           end == range[t][2]
           mine == (lo + 1)..(last + 1)
           n == Len(nums)
<1>1. /\ variant = "race" /\ stage[t] = "loaded" /\ last \in lo..end
      /\ sum' = Sums!Wrap(seen[t] + Sums!IntSum(Sums!Slice(lo, last)))
      /\ index' = [index EXCEPT ![t] = last + 1]
      /\ stage' = [stage EXCEPT ![t] = "add"]
      /\ variant' = variant /\ nums' = nums /\ K' = K /\ spawned' = spawned
      /\ currentStart' = currentStart /\ remainder' = remainder /\ range' = range
      /\ seen' = seen /\ summed' = summed
  BY DEF Sums!StoreAfter, Sums!Input
<1>2. /\ SumsTyped /\ RangesAbut /\ Summers \subseteq Nat
      /\ stage \in [Summers -> {"unborn", "add", "loaded", "ended"}]
      /\ index \in [Summers -> Int] /\ seen \in [Summers -> Int]
      /\ range \in [Summers -> Int \X Int] /\ spawned \in Int
  <2>1. SumsTyped /\ RangesAbut /\ Summers \subseteq Nat
    BY SumsConstants DEF SumsInv
  <2>2. /\ stage \in [Summers -> {"unborn", "add", "loaded", "ended"}]
        /\ index \in [Summers -> Int] /\ seen \in [Summers -> Int]
        /\ range \in [Summers -> Int \X Int] /\ spawned \in 0..K
    BY <2>1 DEF SumsTyped
  <2>3. spawned \in Int
    BY <2>2
  <2> QED BY <2>1, <2>2, <2>3
<1>3. /\ t < spawned /\ nums \in Seq(Nat) /\ n \in Nat
      /\ range[t][1] \in Nat /\ end \in Int /\ end < n /\ end < currentStart
      /\ currentStart \in Nat /\ lo \in Int /\ lo >= range[t][1] /\ seen[t] \in Int
  BY <1>1, RangeOf
<1>4. lo \in Nat /\ last \in Int /\ last >= lo /\ last <= end /\ last < n
  BY <1>1, <1>3
<1>5. /\ index'[t] = last + 1
      /\ \A u \in Summers : u # t => index'[u] = index[u] /\ stage'[u] = stage[u]
      /\ \A u \in Summers : index'[u] >= index[u]
      /\ index' \in [Summers -> Int]
      /\ stage'[t] = "add"
  <2>1. /\ index'[t] = last + 1 /\ stage'[t] = "add"
        /\ \A u \in Summers : u # t => index'[u] = index[u] /\ stage'[u] = stage[u]
    BY <1>1, <1>2
  <2>2. last + 1 \in Int /\ last + 1 >= index[t]
    BY <1>4
  <2>3. \A u \in Summers : index'[u] >= index[u]
    <3> HIDE DEF lo
    <3> QED BY <1>2, <2>1, <2>2
  <2>4. index' \in [Summers -> Int]
    BY <1>1, <1>2, <2>2
  <2> QED BY <2>1, <2>3, <2>4
<1>6. ASSUME NEW w, Passed(w)
      PROVE  Passed(w)'
  <2>1. PICK kept \in SUBSET (1..n) :
          /\ w = Sums!Wrap(Total(nums, kept))
          /\ \A i \in kept :
               /\ i - 1 < currentStart
               /\ \A u \in Summers : u < spawned => i - 1 < index[u] \/ i - 1 > range[u][2]
    BY <1>6 DEF Passed, n
  <2>2. ASSUME NEW i \in kept, NEW u \in Summers, u < spawned
        PROVE  i - 1 < index'[u] \/ i - 1 > range[u][2]
    <3>1. i \in Int /\ index[u] \in Int /\ index'[u] \in Int /\ index'[u] >= index[u]
      BY <1>2, <1>3, <1>5
    <3>2. i - 1 < index[u] \/ i - 1 > range[u][2]
      BY <2>1, <2>2
    <3> QED BY <3>1, <3>2
  <2> QED BY <1>1, <2>1, <2>2 DEF Passed, Summers, Sums!SumThread, Sums!Wrap, n
<1>7. Passed(sum)'
  <2>1. Passed(seen[t])
    BY <1>1 DEF SumsInv, ResultFollows
  <2>2. PICK kept \in SUBSET (1..n) :
          /\ seen[t] = Sums!Wrap(Total(nums, kept))
          /\ \A i \in kept :
               /\ i - 1 < currentStart
               /\ \A u \in Summers : u < spawned => i - 1 < index[u] \/ i - 1 > range[u][2]
    BY <2>1 DEF Passed, n
  <2>3. mine \in SUBSET (1..n) /\ \A i \in mine : i \in Int /\ i - 1 >= lo /\ i - 1 <= last
    BY <1>3, <1>4
  <2>4. Sums!IntSum(Sums!Slice(lo, last)) = Sums!Wrap(Total(nums, mine))
    <3>1. lo <= last + 1
      BY <1>4
    <3> HIDE DEF lo
    <3> QED BY <1>3, <1>4, <3>1, SliceSum DEF n
  <2> HIDE DEF mine
  <2>5. \A i \in kept : i \in Int /\ (i - 1 < lo \/ i - 1 > end)
    BY <1>3, <2>2
  <2>6. kept \cap mine = {}
    <3> SUFFICES ASSUME NEW i \in kept, i \in mine PROVE FALSE
      OBVIOUS
    <3>1. i \in Int /\ (i - 1 < lo \/ i - 1 > end) /\ i - 1 >= lo /\ i - 1 <= last
      BY <2>3, <2>5
    <3> HIDE DEF lo, end
    <3> QED BY <1>3, <1>4, <3>1
  <2> DEFINE a == Total(nums, kept)
             b == Total(nums, mine)
             all == kept \cup mine
  <2>7. a \in Nat /\ b \in Nat /\ IsFiniteSet(kept) /\ IsFiniteSet(mine)
        /\ \A i \in kept \cup mine : nums[i] \in Nat
    BY <1>3, <2>3, Numbers DEF n
  <2>8. Total(nums, all) = a + b
    <3>1. \A i \in kept \cup mine : nums[i] \in Int
      BY <2>7
    <3> QED BY <2>6, <2>7, <3>1, TotalOfUnion
  <2>9. sum' = Sums!Wrap(Total(nums, all))
    <3>1. a \in Int /\ b \in Int
      BY <2>7
    <3>2. sum' = Sums!Wrap(Sums!Wrap(a) + Sums!Wrap(b))
      BY <1>1, <2>2, <2>4
    <3> HIDE DEF a, b, all
    <3> QED BY <2>8, <3>1, <3>2, WrapBoth
  <2>10. ASSUME NEW i \in all
         PROVE  /\ i - 1 < currentStart
                /\ \A u \in Summers : u < spawned => i - 1 < index'[u] \/ i - 1 > range[u][2]
    <3>1. CASE i \in kept
      <4>1. i \in Int /\ i - 1 < currentStart
        BY <2>2, <2>5, <3>1
      <4>2. ASSUME NEW u \in Summers, u < spawned
            PROVE  i - 1 < index'[u] \/ i - 1 > range[u][2]
        <5>1. index[u] \in Int /\ index'[u] \in Int /\ index'[u] >= index[u]
          BY <1>2, <1>5
        <5>2. i - 1 < index[u] \/ i - 1 > range[u][2]
          BY <2>2, <3>1, <4>2
        <5> QED BY <4>1, <5>1, <5>2
      <4> QED BY <4>1, <4>2
    <3>2. CASE i \in mine
      <4>1. i \in Int /\ i - 1 >= lo /\ i - 1 <= last
        BY <2>3, <3>2
      <4>2. i - 1 < currentStart
        BY <1>3, <1>4, <4>1
      <4>3. ASSUME NEW u \in Summers, u < spawned
            PROVE  i - 1 < index'[u] \/ i - 1 > range[u][2]
        <5>1. CASE u = t
          BY <1>4, <1>5, <4>1, <5>1
        <5>2. CASE u < t
          <6>1. range[u][2] < range[t][1] /\ range[u][2] \in Int
            BY <1>2, <1>3, <5>2 DEF RangesAbut
          <6> QED BY <1>3, <4>1, <6>1
        <5>3. CASE t < u
          <6>1. /\ range[t][2] < range[u][1] /\ range[u][1] <= index[u]
                /\ range[u][1] \in Int /\ index[u] \in Int /\ index'[u] = index[u]
            BY <1>2, <1>5, <4>3, <5>3 DEF RangesAbut
          <6> QED BY <1>3, <1>4, <4>1, <6>1
        <5>4. u \in Nat /\ t \in Nat
          BY <1>2
        <5> QED BY <5>1, <5>2, <5>3, <5>4
      <4> QED BY <4>2, <4>3
    <3> QED BY <2>10, <3>1, <3>2
  <2>11. all \in SUBSET (1..n)
    BY <2>3
  <2> HIDE DEF all
  <2> QED BY <1>1, <2>9, <2>10, <2>11 DEF Passed, Summers, Sums!SumThread, Sums!Wrap, n
<1>8. SumsTyped' /\ RangesAbut' /\ StagesFollow'
  <2>1. sum' \in Int
    <3>1. \A x \in Int : Sums!Wrap(x) \in Int
      BY WrapSum
    <3>2. PICK kept : sum' = Sums!Wrap(Total(nums, kept)) /\ kept \in SUBSET (1..n)
      BY <1>1, <1>7 DEF Passed, Sums!Wrap, n
    <3>3. Total(nums, kept) \in Int
      <4>1. Total(nums, kept) \in Nat
        BY <1>3, <3>2, Numbers DEF n
      <4> QED BY <4>1
    <3> QED BY <3>1, <3>2, <3>3
  <2>2. seen' \in [Summers -> Int]
    BY <1>1, <1>2
  <2> QED BY <1>1, <1>5, <2>1, <2>2, SummerMoves
<1>9. ASSUME NEW u \in Summers, stage'[u] = "loaded"
      PROVE  Passed(seen[u])'
  <2>1. u # t /\ stage[u] = "loaded"
    BY <1>5, <1>9
  <2>2. Passed(seen[u])
    BY <1>1, <2>1 DEF SumsInv, ResultFollows
  <2>3. PICK w : w = seen[u]
    OBVIOUS
  <2>4. Passed(w)'
    BY <1>6, <2>2, <2>3
  <2>5. seen'[u] = w
    BY <1>1, <2>3
  <2> QED BY <2>4, <2>5
<1>10. ResultFollows'
  BY <1>1, <1>7, <1>9 DEF ResultFollows, Summers, Sums!SumThread
<1> QED BY <1>8, <1>10 DEF SumsInv

LEMMA EndLoopKeeps ==
  ASSUME SumsInv, NEW t \in Summers, Sums!EndLoop(t)
  PROVE  SumsInv'
<1>1. /\ variant = "race" /\ stage[t] = "add"
      /\ stage' = [stage EXCEPT ![t] = "ended"]
      /\ variant' = variant /\ nums' = nums /\ K' = K /\ spawned' = spawned
      /\ currentStart' = currentStart /\ remainder' = remainder /\ range' = range
      /\ index' = index /\ seen' = seen /\ sum' = sum /\ summed' = summed
  BY DEF Sums!EndLoop, Sums!Input
<1>2. /\ SumsTyped /\ stage \in [Summers -> {"unborn", "add", "loaded", "ended"}]
  BY DEF SumsInv, SumsTyped
<1>3. SumsTyped' /\ RangesAbut' /\ StagesFollow'
  <2>1. /\ index \in [Summers -> Int] /\ seen \in [Summers -> Int] /\ sum \in Int
        /\ \A u \in Summers : index[u] >= index[u]
    BY <1>2 DEF SumsTyped
  <2> QED BY <1>1, <2>1, SummerMoves
<1>4. ASSUME NEW w, Passed(w)
      PROVE  Passed(w)'
  BY <1>1, <1>4 DEF Passed, Summers, Sums!SumThread, Sums!Wrap
<1>5. Passed(sum) /\ \A u \in Summers : stage[u] = "loaded" => Passed(seen[u])
  BY <1>1 DEF SumsInv, ResultFollows
<1>6. \A u \in Summers : stage'[u] = "loaded" => stage[u] = "loaded"
  BY <1>1, <1>2
<1>7. ResultFollows'
  BY <1>1, <1>4, <1>5, <1>6 DEF ResultFollows, Summers, Sums!SumThread
<1> QED BY <1>3, <1>7 DEF SumsInv

LEMMA SumsJoinKeeps == SumsInv /\ Sums!JoinAll => SumsInv'
<1> SUFFICES ASSUME SumsInv, Sums!JoinAll PROVE SumsInv'
  OBVIOUS
<1>1. /\ spawned = K /\ \A t \in 0..(K - 1) : stage[t] = "ended"
      /\ summed' = TRUE
      /\ variant' = variant /\ nums' = nums /\ K' = K /\ spawned' = spawned
      /\ currentStart' = currentStart /\ remainder' = remainder /\ range' = range
      /\ stage' = stage /\ index' = index /\ seen' = seen /\ sum' = sum
  BY DEF Sums!JoinAll, Sums!Input
<1>2. SumsTyped'
  BY <1>1 DEF SumsInv, SumsTyped, Summers, Sums!SumThread
<1>3. RangesAbut' /\ StagesFollow'
  BY <1>1 DEF SumsInv, RangesAbut, StagesFollow, Summers, Sums!SumThread
<1>4. ResultFollows'
  BY <1>1 DEF SumsInv, ResultFollows, Passed, Ended, Summers, Sums!SumThread, Sums!Wrap
<1> QED BY <1>2, <1>3, <1>4 DEF SumsInv
LEMMA SumsNext == SumsInv /\ Sums!Next => SumsInv'
<1> SUFFICES ASSUME SumsInv, Sums!Next PROVE SumsInv'
  OBVIOUS
<1>1. CASE Sums!Spawn
  BY <1>1, SpawnKeeps
<1>2. CASE Sums!JoinAll
  BY <1>2, SumsJoinKeeps
<1>3. ASSUME NEW t \in Summers, Sums!SumStep(t)
      PROVE  SumsInv'
  <2>1. CASE Sums!AddUnderMutex(t)
    BY <2>1, AddUnderMutexKeeps
  <2>2. CASE Sums!AddAtomically(t)
    BY <2>2, AddAtomicallyKeeps
  <2>3. CASE Sums!Load(t)
    BY <2>3, LoadResultKeeps
  <2>4. CASE \E last \in DOMAIN nums \cup {0} : Sums!StoreAfter(t, last)
    BY <2>4, StoreAfterKeeps
  <2>5. CASE Sums!EndLoop(t)
    BY <2>5, EndLoopKeeps
  <2> QED BY <1>3, <2>1, <2>2, <2>3, <2>4, <2>5 DEF Sums!SumStep
<1> QED BY <1>1, <1>2, <1>3 DEF Sums!Next, Summers

LEMMA SumsStands == SumsInv /\ UNCHANGED sumVars => SumsInv'
<1> SUFFICES ASSUME SumsInv, UNCHANGED sumVars PROVE SumsInv'
  OBVIOUS
<1>1. /\ variant' = variant /\ nums' = nums /\ K' = K /\ spawned' = spawned
      /\ currentStart' = currentStart /\ remainder' = remainder /\ range' = range
      /\ stage' = stage /\ index' = index /\ seen' = seen /\ sum' = sum /\ summed' = summed
  BY DEF sumVars
<1>2. SumsTyped'
  BY <1>1 DEF SumsInv, SumsTyped, Summers, Sums!SumThread
<1>3. RangesAbut' /\ StagesFollow'
  BY <1>1 DEF SumsInv, RangesAbut, StagesFollow, Summers, Sums!SumThread
<1>4. ResultFollows'
  BY <1>1 DEF SumsInv, ResultFollows, Passed, Ended, Summers, Sums!SumThread, Sums!Wrap
<1> QED BY <1>2, <1>3, <1>4 DEF SumsInv

LEMMA SumsInvariant == Spec => [](program = "Sums" => SumsInv)
<1>1. Init => (program = "Sums" => SumsInv)
  BY SumsInit DEF Init
<1>2. (program = "Sums" => SumsInv) /\ [Next]_vars => (program = "Sums" => SumsInv)'
  BY SumsNext, SumsStands DEF Next, vars
<1> QED BY <1>1, <1>2, PTL DEF Spec

\* Laba1's ranges are a partition of the array whatever the number of threads, and the
\* result is as right as the program's synchronisation makes it: the expected sum under
\* the mutex, the same but for the width of int with the atomic, and the sum of some of
\* the elements, none of them counted twice, with neither.
THEOREM SumsAreRight == Spec => [](program = "Sums" => Sums!SumsConsistent)
<1>1. (program = "Sums" => SumsInv) => (program = "Sums" => Sums!SumsConsistent)
  BY SumsImplies
<1> QED BY <1>1, SumsInvariant, PTL
----------------------------------------------------------------------------
(***************************************************************************)
(* PrimeSearch.  The ranges are laid end to end; what has been found is the    *)
(* primes that no thread has still to come to.                              *)
(***************************************************************************)
Searchers == Search!PrimeThread

SearchTyped ==
  /\ N \in Ns /\ threads \in PrimeKs
  /\ created \in 0..threads /\ start \in Nat \ {0} /\ spare \in Nat
  /\ work \in [Searchers -> {<<>>} \cup (Int \X Int)]
  /\ primes \in Seq(Nat)

WorkAbuts ==
  /\ start + (threads - created) * (N \div threads) + spare = N + 1
  /\ spare <= threads - created
  /\ \A t \in Searchers : t > created => work[t] = <<>>
  /\ \A t \in Searchers : work[t] # <<>> => /\ work[t] \in Int \X Int /\ work[t][1] >= 1
                                            /\ work[t][1] <= work[t][2] + 1
                                            /\ work[t][2] < start
  /\ \A t, u \in Searchers :
       t < u /\ work[t] # <<>> /\ work[u] # <<>> => work[t][2] < work[u][1]

\* The primes of the ranges that have been laid out, but for those of the threads
\* that have still to append theirs.
Pending(n) == \E t \in Searchers : work[t] # <<>> /\ n >= work[t][1] /\ n <= work[t][2]
Sought == {n \in 1..(start - 1) : Search!IsPrime(n) /\ ~Pending(n)}

\* What a sequence of numbers holds without repetitions.
Lists(s, S) == /\ s \in Seq(Nat) /\ \A i, j \in 1..Len(s) : s[i] = s[j] => i = j
               /\ {s[i] : i \in 1..Len(s)} = S

FoundIsSought == Lists(primes, Sought)

CountedAll == counted # <<>> => /\ counted = <<Len(primes)>>
                                /\ created = threads /\ \A t \in Searchers : work[t] = <<>>

SearchInv == SearchTyped /\ WorkAbuts /\ FoundIsSought /\ CountedAll

LEMMA SearchConstants ==
  /\ Ns \subseteq Nat \ {0} /\ PrimeKs \subseteq Nat \ {0}
  /\ \A k \in PrimeKs : 1..k \subseteq Searchers
  /\ Searchers \subseteq Nat \ {0}
<1>1. Search!PrimeAssumption
  BY WorkshopsAssumption, Zenon
<1>2. /\ Ns \subseteq Nat \ {0} /\ PrimeKs \subseteq Nat \ {0} /\ IsFiniteSet(PrimeKs)
  <2>1. Search!IsFiniteSet(PrimeKs) => IsFiniteSet(PrimeKs)
    BY Zenon DEF Search!IsFiniteSet, IsFiniteSet
  <2> QED BY <1>1, <2>1 DEF Search!PrimeAssumption
<1>3. Searchers = 1..Largest(PrimeKs)
  BY DEF Searchers, Search!PrimeThread, Search!Max, Largest
<1>4. ASSUME NEW k \in PrimeKs
      PROVE  1..k \subseteq Searchers
  <2>1. Largest(PrimeKs) \in PrimeKs /\ Largest(PrimeKs) >= k
    <3>1. PrimeKs \in SUBSET Int /\ PrimeKs # {}
      BY <1>2
    <3> QED BY <1>2, <3>1, LargestIsMember
  <2>2. \A x \in PrimeKs : x \in Int
    BY <1>2
  <2>3. Largest(PrimeKs) \in Int /\ k \in Int
    BY <2>1, <2>2, Zenon
  <2> QED BY <1>3, <2>1, <2>3
<1>5. Searchers \subseteq Nat \ {0}
  BY <1>3
<1> QED BY <1>2, <1>4, <1>5

\* isPrime tries 2, 3 and the neighbours of the multiples of 6 up to the square root:
\* the smallest divisor of a number is among them.
LEMMA TestFinds ==
  ASSUME NEW n \in Nat, n > 3, n % 2 # 0, n % 3 # 0, NEW d0 \in 2..(n - 1), n % d0 = 0
  PROVE  \E k \in 0..n : /\ (5 + 6 * k) * (5 + 6 * k) <= n
                         /\ n % (5 + 6 * k) = 0 \/ n % (7 + 6 * k) = 0
<1> DEFINE Ds == {d \in 2..(n - 1) : n % d = 0}
<1>1. PICK d \in Ds : \A c \in Ds : d <= c
  <2>1. Ds \in SUBSET (0..n)
    OBVIOUS
  <2>2. d0 \in Ds
    OBVIOUS
  <2> HIDE DEF Ds
  <2> QED BY <2>1, <2>2, SmallestNumber
<1>2. d \in Nat /\ d >= 2 /\ d < n /\ n % d = 0
  OBVIOUS
<1> DEFINE e == n \div d
<1>3. e \in Int /\ n = d * e
  <2>1. e \in Int /\ n = d * e + 0 /\ d * e \in Int
    BY <1>2, Division
  <2> HIDE DEF e
  <2> DEFINE x == d * e
  <2>2. x \in Int /\ n = x + 0
    BY <2>1
  <2> HIDE DEF x
  <2>3. n = x
    BY <2>2
  <2> QED BY <2>1, <2>3 DEF x
<1> HIDE DEF e
<1>4. e >= 2
  <2> SUFFICES ASSUME e <= 1 PROVE FALSE
    BY <1>3
  <2>1. d * e <= d
    BY <1>2, <1>3
  <2> QED BY <1>2, <1>3, <2>1
<1>5. e < n
  <2>1. d * e >= 2 * e
    BY <1>2, <1>3, <1>4
  <2> QED BY <1>3, <1>4, <2>1
<1>6. n % e = 0
  <2>1. e \in Nat /\ e # 0
    BY <1>3, <1>4
  <2> HIDE DEF Ds
  <2> QED BY <1>2, <1>3, <2>1, OtherFactorDivides
<1>7. d <= e
  <2>1. e \in Ds
    BY <1>3, <1>4, <1>5, <1>6
  <2> HIDE DEF Ds
  <2> QED BY <1>1, <2>1
<1>8. d * d <= n
  <2>1. d * d <= d * e
    BY <1>2, <1>3, <1>7
  <2> QED BY <1>3, <2>1
<1>9. d % 2 # 0 /\ d % 3 # 0
  <2>1. ASSUME NEW c \in Nat, c # 0, d % c = 0 PROVE n % c = 0
    <3>1. d # 0
      BY <1>2
    <3> HIDE DEF Ds
    <3> QED BY <1>2, <2>1, <3>1, DividesThrough
  <2>2. 2 \in Nat /\ 3 \in Nat /\ 2 # 0 /\ 3 # 0
    OBVIOUS
  <2> QED BY <2>1, <2>2
<1>10. PICK k \in 0..d : d = 5 + 6 * k \/ d = 7 + 6 * k
  BY <1>2, <1>9, NextToSix
<1> DEFINE i == 5 + 6 * k
<1>11. i \in Nat /\ i <= d /\ (d = i \/ d = i + 2) /\ 7 + 6 * k = i + 2 /\ k \in 0..n
  BY <1>2, <1>10
<1>12. i * i <= n
  <2> HIDE DEF i
  <2>1. i * i <= d * d
    BY <1>2, <1>11
  <2>2. i * i \in Int /\ d * d \in Int
    BY <1>2, <1>11
  <2> QED BY <1>8, <2>1, <2>2
<1>13. n % i = 0 \/ n % (7 + 6 * k) = 0
  BY <1>2, <1>11
<1> QED BY <1>11, <1>12, <1>13

LEMMA TestIsRight ==
  ASSUME NEW n \in Nat
  PROVE  Search!IsPrime(n) <=> Search!Prime(n)
<1>1. CASE n <= 3
  <2>1. Search!IsPrime(n) <=> n > 1
    BY <1>1 DEF Search!IsPrime
  <2>2. n = 2 \/ n = 3 => \A d \in 2..(n - 1) : n % d # 0
    <3>1. ASSUME n = 2, NEW d \in 2..(n - 1) PROVE FALSE
      BY <3>1
    <3>2. ASSUME n = 3, NEW d \in 2..(n - 1) PROVE n % d # 0
      <4>1. d = 2
        BY <3>2
      <4>2. n % 2 = 1
        <5>1. 1 \in 0..(2 - 1) /\ n = 2 * 1 + 1
          BY <3>2
        <5> QED BY <5>1, RemainderIs
      <4> QED BY <4>1, <4>2
    <3> QED BY <3>1, <3>2
  <2> QED BY <1>1, <2>1, <2>2 DEF Search!Prime
<1>2. CASE n > 3
  <2>1. Search!IsPrime(n) <=> /\ n % 2 # 0 /\ n % 3 # 0
                              /\ \A k \in 0..n : (5 + 6 * k) * (5 + 6 * k) <= n
                                   => n % (5 + 6 * k) # 0 /\ n % (5 + 6 * k + 2) # 0
    BY <1>2 DEF Search!IsPrime
  <2>2. \A k \in 0..n : 5 + 6 * k + 2 = 7 + 6 * k
    OBVIOUS
  <2>3. ASSUME Search!IsPrime(n) PROVE Search!Prime(n)
    <3> SUFFICES ASSUME NEW d \in 2..(n - 1), n % d = 0 PROVE FALSE
      BY <1>2 DEF Search!Prime
    <3>1. n % 2 # 0 /\ n % 3 # 0
      BY <2>1, <2>3
    <3>2. PICK k \in 0..n : /\ (5 + 6 * k) * (5 + 6 * k) <= n
                            /\ n % (5 + 6 * k) = 0 \/ n % (7 + 6 * k) = 0
      BY <1>2, <3>1, TestFinds
    <3>3. n % (5 + 6 * k) # 0 /\ n % (5 + 6 * k + 2) # 0
      BY <2>1, <2>3, <3>2
    <3> QED BY <2>2, <3>2, <3>3
  <2>4. ASSUME Search!Prime(n) PROVE Search!IsPrime(n)
    <3>1. \A d \in 2..(n - 1) : n % d # 0
      BY <2>4 DEF Search!Prime
    <3>2. n % 2 # 0 /\ n % 3 # 0
      <4>1. 2 \in 2..(n - 1) /\ 3 \in 2..(n - 1)
        BY <1>2
      <4> QED BY <3>1, <4>1
    <3>3. ASSUME NEW k \in 0..n, (5 + 6 * k) * (5 + 6 * k) <= n
          PROVE  n % (5 + 6 * k) # 0 /\ n % (5 + 6 * k + 2) # 0
      <4> DEFINE i == 5 + 6 * k
      <4>1. i \in Nat /\ i >= 5 /\ i * i <= n
        BY <3>3
      <4> HIDE DEF i
      <4>2. i * i >= 5 * i
        BY <4>1
      <4>3. i * i \in Int
        BY <4>1
      <4> DEFINE x == i * i
      <4>4. x \in Int /\ x >= 5 * i /\ x <= n
        BY <4>1, <4>2, <4>3
      <4> HIDE DEF x
      <4>5. i \in 2..(n - 1) /\ i + 2 \in 2..(n - 1)
        BY <4>1, <4>4
      <4>6. n % i # 0 /\ n % (i + 2) # 0
        BY <3>1, <4>5
      <4> QED BY <4>6 DEF i
    <3> QED BY <2>1, <3>2, <3>3
  <2> QED BY <2>3, <2>4
<1> QED BY <1>1, <1>2

\* Appending the primes among the first n numbers of seq is a fold.
LEMMA AppendingUp ==
  ASSUME NEW n \in Nat, NEW seq, \A i \in 1..n : seq[i] \in Nat
  PROVE  \E h : h = [r \in SUBSET (1..n) |-> IF r = {} THEN <<>>
                       ELSE IF Search!IsPrime(seq[Largest(r)])
                            THEN Append(h[r \ {Largest(r)}], seq[Largest(r)])
                            ELSE h[r \ {Largest(r)}]]
<1> DEFINE S == 1..n
           V == Seq(Nat)
           adder == [p \in V \X Nat |-> IF Search!IsPrime(p[2]) THEN Append(p[1], p[2]) ELSE p[1]]
           h == Fold(adder, <<>>, seq, S)
<1>1. Steps(adder, V, Nat)
  <2>1. ASSUME NEW p \in V \X Nat
        PROVE  (IF Search!IsPrime(p[2]) THEN Append(p[1], p[2]) ELSE p[1]) \in V
    <3>1. p[1] \in Seq(Nat) /\ p[2] \in Nat
      OBVIOUS
    <3>2. Append(p[1], p[2]) \in Seq(Nat)
      BY <3>1, AppendProperties
    <3> QED BY <3>1, <3>2
  <2> QED BY <2>1 DEF Steps
<1>2. S \in SUBSET Int /\ IsFiniteSet(S) /\ \A i \in S : seq[i] \in Nat
  BY FS_Interval
<1>3. <<>> \in V
  OBVIOUS
<1>4. \A x \in V : \A y \in Nat : adder[<<x, y>>] = IF Search!IsPrime(y) THEN Append(x, y) ELSE x
  OBVIOUS
<1> HIDE DEF adder, S, V
<1>5. IsFold(h, adder, <<>>, seq, S)
  BY <1>2, FoldExists
<1>6. \A r \in SUBSET S : /\ h[r] \in V
                          /\ r # {} => /\ Largest(r) \in r /\ seq[Largest(r)] \in Nat
                                       /\ h[r \ {Largest(r)}] \in V
  BY <1>1, <1>2, <1>3, FoldTyped
<1> HIDE DEF h
<1>7. h = [r \in SUBSET S |-> IF r = {} THEN <<>>
                              ELSE IF Search!IsPrime(seq[Largest(r)])
                                   THEN Append(h[r \ {Largest(r)}], seq[Largest(r)])
                                   ELSE h[r \ {Largest(r)}]]
  BY <1>4, <1>5, <1>6 DEF IsFold
<1> QED BY <1>7 DEF S

LEMMA ListsMore ==
  ASSUME NEW s, NEW S, Lists(s, S), NEW n \in Nat, n \notin S
  PROVE  Lists(Append(s, n), S \cup {n})
<1> DEFINE t == Append(s, n)
           l == Len(s)
<1>1. /\ s \in Seq(Nat) /\ l \in Nat /\ \A i, j \in 1..l : s[i] = s[j] => i = j
      /\ {s[i] : i \in 1..l} = S
  BY LenProperties DEF Lists
<1>2. /\ t \in Seq(Nat) /\ Len(t) = l + 1 /\ \A i \in 1..l : t[i] = s[i]
      /\ t[l + 1] = n
  BY <1>1, AppendProperties
<1> HIDE DEF t, l
<1>3. \A i \in 1..(l + 1) : i \in 1..l \/ i = l + 1
  BY <1>1
<1>4. \A i \in 1..l : i \in 1..(l + 1) /\ s[i] # n /\ i # l + 1
  BY <1>1
<1>5. l + 1 \in 1..(l + 1)
  BY <1>1
<1>6. \A i, j \in 1..(l + 1) : t[i] = t[j] => i = j
  BY <1>1, <1>2, <1>3, <1>4
<1>7. {t[i] : i \in 1..(l + 1)} = S \cup {n}
  BY <1>1, <1>2, <1>3, <1>4, <1>5
<1> QED BY <1>2, <1>6, <1>7 DEF Lists, t

LEMMA ListsBoth ==
  ASSUME NEW s, NEW S, Lists(s, S), NEW t, NEW T, Lists(t, T), S \cap T = {}
  PROVE  Lists(s \o t, S \cup T)
<1> DEFINE u == s \o t
           l == Len(s)
           m == Len(t)
<1>1. /\ s \in Seq(Nat) /\ l \in Nat /\ \A i, j \in 1..l : s[i] = s[j] => i = j
      /\ {s[i] : i \in 1..l} = S
  BY LenProperties DEF Lists
<1>2. /\ t \in Seq(Nat) /\ m \in Nat /\ \A i, j \in 1..m : t[i] = t[j] => i = j
      /\ {t[i] : i \in 1..m} = T
  BY LenProperties DEF Lists
<1>3. /\ u \in Seq(Nat) /\ Len(u) = l + m
      /\ \A i \in 1..(l + m) : u[i] = IF i <= l THEN s[i] ELSE t[i - l]
  BY <1>1, <1>2, ConcatProperties
<1> HIDE DEF u, l, m
<1>4. ASSUME NEW i \in 1..(l + m)
      PROVE  \/ i \in 1..l /\ u[i] = s[i] /\ u[i] \in S
             \/ i \in Int /\ i - l \in 1..m /\ u[i] = t[i - l] /\ u[i] \in T
  <2>1. CASE i <= l
    <3>1. i \in 1..l
      BY <1>1, <2>1
    <3> QED BY <1>1, <1>3, <2>1, <3>1
  <2>2. CASE ~(i <= l)
    <3>1. i \in Int /\ i - l \in 1..m
      BY <1>1, <1>2, <2>2
    <3> QED BY <1>2, <1>3, <2>2, <3>1
  <2> QED BY <2>1, <2>2
<1>5. ASSUME NEW i \in 1..(l + m), NEW j \in 1..(l + m), u[i] = u[j]
      PROVE  i = j
  <2>1. CASE i \in 1..l /\ u[i] = s[i] /\ u[i] \in S
    <3>1. j \in 1..l /\ u[j] = s[j]
      BY <1>4, <1>5, <2>1
    <3> QED BY <1>1, <1>5, <2>1, <3>1
  <2>2. CASE i \in Int /\ i - l \in 1..m /\ u[i] = t[i - l] /\ u[i] \in T
    <3>1. j \in Int /\ j - l \in 1..m /\ u[j] = t[j - l]
      BY <1>4, <1>5, <2>2
    <3>2. i - l = j - l
      BY <1>2, <1>5, <2>2, <3>1
    <3> QED BY <1>1, <2>2, <3>1, <3>2
  <2> QED BY <1>4, <2>1, <2>2
<1>6. \A i \in 1..l : i \in 1..(l + m) /\ u[i] = s[i]
  BY <1>1, <1>2, <1>3
<1>7. ASSUME NEW i \in 1..m
      PROVE  l + i \in 1..(l + m) /\ u[l + i] = t[i]
  <2>1. l + i \in 1..(l + m) /\ ~(l + i <= l) /\ (l + i) - l = i
    BY <1>1, <1>2
  <2> QED BY <1>3, <2>1
<1>8. {u[i] : i \in 1..(l + m)} = S \cup T
  <2>1. \A i \in 1..(l + m) : u[i] \in S \cup T
    BY <1>4
  <2>2. ASSUME NEW x \in S PROVE \E i \in 1..(l + m) : u[i] = x
    BY <1>1, <1>6
  <2>3. ASSUME NEW x \in T PROVE \E i \in 1..(l + m) : u[i] = x
    BY <1>2, <1>7
  <2> QED BY <2>1, <2>2, <2>3
<1> QED BY <1>3, <1>5, <1>8 DEF Lists, u

LEMMA ListsSize ==
  ASSUME NEW s, NEW S, Lists(s, S)
  PROVE  /\ IsFiniteSet(S) /\ Cardinality(S) = Len(s)
         /\ Search!IsInjective(s) /\ Search!ToSet(s) = S
<1>1. /\ s \in Seq(Nat) /\ Len(s) \in Nat /\ DOMAIN s = 1..Len(s)
      /\ \A i, j \in 1..Len(s) : s[i] = s[j] => i = j
      /\ {s[i] : i \in 1..Len(s)} = S
  BY LenProperties DEF Lists
<1>2. Search!IsInjective(s) /\ Search!ToSet(s) = S
  BY <1>1 DEF Search!IsInjective, Search!ToSet
<1>3. IsFiniteSet(S) /\ Cardinality(S) = Len(s)
  <2> DEFINE n == Len(s)
  <2>1. n \in Nat /\ \A i, j \in 1..n : s[i] = s[j] => i = j
    BY <1>1
  <2> HIDE DEF n
  <2>2. IsFiniteSet({s[i] : i \in 1..n}) /\ Cardinality({s[i] : i \in 1..n}) = n
    BY <2>1, SizeOfImage
  <2> QED BY <1>1, <2>2 DEF n
<1> QED BY <1>2, <1>3

\* What a thread finds in its range.
LEMMA FoundIn ==
  ASSUME NEW first \in Nat, NEW last \in Int, first <= last + 1
  PROVE  Lists(Search!PrimesIn(first, last), {n \in first..last : Search!IsPrime(n)})
<1> DEFINE n == last + 1 - first
           s == [j \in 1..n |-> first + j - 1]
           g == CHOOSE g : g = [r \in SUBSET (1..n) |-> IF r = {} THEN <<>>
                       ELSE IF Search!IsPrime(s[Largest(r)])
                            THEN Append(g[r \ {Largest(r)}], s[Largest(r)])
                            ELSE g[r \ {Largest(r)}]]
           Found(k) == {i \in first..(first + k - 1) : Search!IsPrime(i)}
<1>1. n \in Nat
  OBVIOUS
<1>2. DOMAIN s = 1..n /\ \A j \in 1..n : s[j] = first + j - 1 /\ s[j] \in Nat
  OBVIOUS
<1>3. Search!PrimesIn(first, last) = g[1..n]
  BY DEF Search!PrimesIn, Search!FoldLeft, Search!MapThenFoldSet, Search!Max, Largest
<1> HIDE DEF s
<1>4. \E h : h = [r \in SUBSET (1..n) |-> IF r = {} THEN <<>>
                       ELSE IF Search!IsPrime(s[Largest(r)])
                            THEN Append(h[r \ {Largest(r)}], s[Largest(r)])
                            ELSE h[r \ {Largest(r)}]]
  <2> HIDE DEF n
  <2> QED BY <1>1, <1>2, AppendingUp
<1>5. g = [r \in SUBSET (1..n) |-> IF r = {} THEN <<>>
                       ELSE IF Search!IsPrime(s[Largest(r)])
                            THEN Append(g[r \ {Largest(r)}], s[Largest(r)])
                            ELSE g[r \ {Largest(r)}]]
  BY <1>4
<1> HIDE DEF g, n
<1>6. g[1..0] = <<>>
  BY <1>5
<1>7. ASSUME NEW k \in 1..n
      PROVE  g[1..k] = IF Search!IsPrime(s[k]) THEN Append(g[1..(k - 1)], s[k]) ELSE g[1..(k - 1)]
  <2>1. k \in Nat /\ k # 0
    OBVIOUS
  <2>2. Largest(1..k) = k /\ (1..k) \ {k} = 1..(k - 1) /\ 1..k # {}
    BY <2>1, LargestUpTo
  <2>3. 1..k \in SUBSET (1..n)
    BY <1>1
  <2> QED BY <1>5, <2>2, <2>3
<1>8. Lists(<<>>, Found(0))
  <2>1. Found(0) = {}
    OBVIOUS
  <2>2. <<>> \in Seq(Nat) /\ Len(<<>>) = 0 /\ 1..0 = {}
    OBVIOUS
  <2> QED BY <2>1, <2>2 DEF Lists
<1>9. \A k \in 0..n : Lists(g[1..k], Found(k))
  <2> DEFINE Bad == {k \in 0..n : ~Lists(g[1..k], Found(k))}
  <2> SUFFICES ASSUME Bad # {} PROVE FALSE
    OBVIOUS
  <2>1. PICK k \in Bad : \A j \in Bad : k <= j
    <3>1. Bad \in SUBSET (0..n)
      OBVIOUS
    <3> HIDE DEF Bad
    <3> QED BY <1>1, <3>1, SmallestNumber
  <2>2. k # 0
    BY <1>6, <1>8
  <2>3. k \in 1..n /\ k - 1 \in 0..n /\ ~(k <= k - 1)
    BY <1>1, <2>2
  <2>4. Lists(g[1..(k - 1)], Found(k - 1))
    BY <2>1, <2>3
  <2> DEFINE x == first + k - 1
  <2>5. s[k] = x /\ x \in Nat
    BY <1>2, <2>3
  <2>6. x \notin Found(k - 1)
    BY <2>3
  <2>7. Found(k) = IF Search!IsPrime(x) THEN Found(k - 1) \cup {x} ELSE Found(k - 1)
    <3>1. \A i : i \in first..(first + k - 1) <=> i \in first..(first + (k - 1) - 1) \/ i = x
      BY <2>3
    <3> QED BY <3>1
  <2> HIDE DEF Found, x
  <2>8. Lists(g[1..k], Found(k))
    <3>1. CASE Search!IsPrime(x)
      <4>1. Lists(Append(g[1..(k - 1)], x), Found(k - 1) \cup {x})
        BY <2>4, <2>5, <2>6, ListsMore
      <4> QED BY <1>7, <2>3, <2>5, <2>7, <3>1, <4>1
    <3>2. CASE ~Search!IsPrime(x)
      BY <1>7, <2>3, <2>4, <2>5, <2>7, <3>2
    <3> QED BY <3>1, <3>2
  <2> QED BY <2>1, <2>8
<1>10. Lists(g[1..n], Found(n))
  <2>1. n \in 0..n
    BY <1>1
  <2> HIDE DEF Found
  <2> QED BY <1>9, <2>1
<1>11. first + n - 1 = last
  BY DEF n
<1> QED BY <1>3, <1>10, <1>11

\* How far the ranges have come: not beyond N, and to N with the last.
LEMMA WorkReaches ==
  ASSUME SearchTyped, WorkAbuts
  PROVE  /\ threads \in Nat /\ threads > 0 /\ N \in Nat /\ N \div threads \in Nat
         /\ created \in Nat /\ start \in Nat /\ start >= 1 /\ start <= N + 1
         /\ (created = threads => start = N + 1)
<1> DEFINE q == N \div threads
           r == N % threads
           d == threads - created
<1>1. threads \in Nat /\ threads # 0 /\ N \in Nat /\ created \in 0..threads /\ start \in Nat
      /\ start # 0 /\ spare \in Nat
  BY SearchConstants DEF SearchTyped
<1>2. q \in Int /\ r \in 0..(threads - 1) /\ N = threads * q + r
  BY <1>1, Division
<1>3. start + d * q + spare = N + 1 /\ spare <= d /\ d \in Nat
  BY <1>1 DEF WorkAbuts
<1>8. created = threads => d = 0
  BY <1>1
<1> HIDE DEF q, r, d
<1>4. q >= 0
  <2> SUFFICES ASSUME q <= -1 PROVE FALSE
    BY <1>2
  <2>1. threads * q <= -threads
    BY <1>1, <1>2
  <2> QED BY <1>1, <1>2, <2>1
<1>5. d * q >= 0
  BY <1>2, <1>3, <1>4
<1>6. start <= N + 1
  <2>1. d * q \in Int
    BY <1>2, <1>3
  <2> DEFINE p == d * q
  <2> HIDE DEF p
  <2>2. p \in Int /\ p >= 0 /\ start + p + spare = N + 1
    BY <1>3, <1>5, <2>1 DEF p
  <2> QED BY <1>1, <2>2
<1>7. d = 0 => start = N + 1
  <2> SUFFICES ASSUME d = 0 PROVE start = N + 1
    OBVIOUS
  <2>1. d * q = 0
    BY <1>2
  <2> QED BY <1>1, <1>3, <2>1
<1> QED BY <1>1, <1>2, <1>4, <1>6, <1>7, <1>8 DEF q

LEMMA SearchImplies == SearchInv => Search!PrimesFound
<1> SUFFICES ASSUME SearchInv PROVE Search!PrimesFound
  OBVIOUS
<1> DEFINE All == {n \in 1..N : Search!IsPrime(n)}
<1>1. /\ threads \in Nat /\ N \in Nat /\ start \in Nat /\ start <= N + 1
      /\ (created = threads => start = N + 1)
  BY WorkReaches DEF SearchInv
<1>2. /\ Search!IsInjective(primes) /\ Search!ToSet(primes) = Sought
      /\ Cardinality(Sought) = Len(primes)
  BY ListsSize DEF SearchInv, FoundIsSought
<1>3. {n \in 1..N : Search!Prime(n)} = All
  <2>1. \A n \in 1..N : n \in Nat
    BY <1>1
  <2>2. \A n \in 1..N : Search!IsPrime(n) <=> Search!Prime(n)
    BY <2>1, TestIsRight
  <2> QED BY <2>2
<1>4. Sought \subseteq All
  BY <1>1 DEF Sought
<1>5. Cardinality(All) = Search!SingleThreaded /\ Search!Cardinality(All) = Cardinality(All)
  <2>1. Lists(Search!PrimesIn(1, N), All)
    BY <1>1, FoundIn
  <2>2. Cardinality(All) = Len(Search!PrimesIn(1, N))
    BY <2>1, ListsSize
  <2>3. Search!Cardinality(All) = Cardinality(All)
    BY Zenon DEF Search!Cardinality, Cardinality
  <2> QED BY <2>2, <2>3 DEF Search!SingleThreaded
<1>6. ASSUME counted # <<>>
      PROVE  counted = <<Cardinality(All)>>
  <2>1. /\ counted = <<Len(primes)>> /\ created = threads
        /\ \A t \in Searchers : work[t] = <<>>
    BY <1>6 DEF SearchInv, CountedAll
  <2>2. Sought = All
    BY <1>1, <2>1 DEF Sought, Pending
  <2> QED BY <1>2, <2>1, <2>2
<1> HIDE DEF All
<1> QED BY <1>2, <1>3, <1>4, <1>5, <1>6 DEF Search!PrimesFound

LEMMA SearchInit == Search!Init => SearchInv
<1> SUFFICES ASSUME Search!Init PROVE SearchInv
  OBVIOUS
<1>1. /\ N \in Ns /\ threads \in PrimeKs
      /\ created = 0 /\ start = 1 /\ spare = N % threads
      /\ work = [t \in Searchers |-> <<>>]
      /\ primes = <<>> /\ counted = <<>>
  BY DEF Search!Init, Searchers
<1>2. N \in Nat /\ threads \in Nat /\ threads # 0
  BY <1>1, SearchConstants
<1> DEFINE q == N \div threads
           r == N % threads
<1>3. q \in Int /\ r \in 0..(threads - 1) /\ N = threads * q + r
  BY <1>2, Division
<1>4. SearchTyped
  <2>1. spare \in Nat /\ created \in 0..threads /\ start \in Nat \ {0}
    BY <1>1, <1>2, <1>3
  <2>2. work \in [Searchers -> {<<>>} \cup (Int \X Int)] /\ primes \in Seq(Nat)
    BY <1>1
  <2> QED BY <1>1, <2>1, <2>2 DEF SearchTyped
<1>5. start + (threads - created) * q + spare = N + 1 /\ spare <= threads - created
  <2>1. threads - created = threads /\ spare = r
    BY <1>1, <1>2
  <2> HIDE DEF q, r
  <2> DEFINE p == threads * q
  <2>2. p \in Int
    BY <1>2, <1>3
  <2> HIDE DEF p
  <2>3. N = p + r
    BY <1>3 DEF p
  <2>4. start + p + spare = N + 1
    BY <1>1, <1>2, <1>3, <2>1, <2>2, <2>3
  <2> QED BY <1>2, <1>3, <2>1, <2>4 DEF p
<1>6. WorkAbuts
  BY <1>1, <1>5 DEF WorkAbuts
<1>7. Sought = {}
  BY <1>1 DEF Sought
<1>8. FoundIsSought
  <2>1. primes \in Seq(Nat) /\ Len(primes) = 0 /\ 1..0 = {}
    BY <1>1
  <2> QED BY <1>7, <2>1 DEF FoundIsSought, Lists
<1>9. CountedAll
  BY <1>1 DEF CountedAll
<1> QED BY <1>4, <1>6, <1>8, <1>9 DEF SearchInv

\* The loop that creates the threads lays the next range behind the last one.
LEMMA CreateKeeps == SearchInv /\ Search!Create => SearchInv'
<1> SUFFICES ASSUME SearchInv, Search!Create PROVE SearchInv'
  OBVIOUS
<1> DEFINE q == N \div threads
           more == IF spare > 0 THEN 1 ELSE 0
           end == start + q - 1 + more
           t == created + 1
<1>1. /\ SearchTyped /\ WorkAbuts /\ FoundIsSought /\ CountedAll
      /\ threads \in Nat /\ threads > 0 /\ q \in Nat /\ created \in Nat /\ start \in Nat
      /\ start >= 1 /\ N \in Nat
  BY WorkReaches DEF SearchInv
<1>2. /\ created < threads /\ spare \in Nat /\ more \in {0, 1} /\ end \in Int /\ t \in Nat
      /\ Searchers \subseteq Nat \ {0}
  BY <1>1, SearchConstants DEF SearchTyped, Search!Create
<1>3. t \in Searchers
  <2>1. t \in 1..threads /\ threads \in PrimeKs
    BY <1>1, <1>2 DEF SearchTyped
  <2> QED BY <2>1, SearchConstants
<1>4. /\ work' = [work EXCEPT ![t] = <<start, end>>]
      /\ created' = t /\ start' = end + 1 /\ spare' = spare - more
      /\ N' = N /\ threads' = threads /\ primes' = primes /\ counted' = counted
  BY DEF Search!Create
<1>5. end + 1 >= start
  BY <1>1, <1>2
<1>6. spare - more \in Nat /\ spare - more <= threads - t
  BY <1>1, <1>2 DEF WorkAbuts
<1>7. (end + 1) + (threads - t) * q + (spare - more) = N + 1
  <2> DEFINE d == threads - created
  <2>1. start + d * q + spare = N + 1 /\ d \in Int
    BY <1>1 DEF WorkAbuts
  <2>2. threads - t = d - 1 /\ end + 1 = start + q + more
    BY <1>1, <1>2
  <2> HIDE DEF d, q, more, end, t
  <2>3. (d - 1) * q = d * q - q
    BY <1>1, <2>1
  <2> DEFINE p == d * q
  <2>4. p \in Int
    BY <1>1, <2>1
  <2> HIDE DEF p
  <2>5. (d - 1) * q = p - q /\ start + p + spare = N + 1
    BY <2>1, <2>3 DEF p
  <2>6. (end + 1) + (d - 1) * q + (spare - more) = N + 1
    BY <1>1, <1>2, <2>1, <2>2, <2>4, <2>5
  <2> QED BY <2>2, <2>6
<1>8. work[t] = <<>> /\ \A u \in Searchers : u > t => work[u] = <<>>
  BY <1>1, <1>2, <1>3 DEF WorkAbuts
<1>15. Searchers' = Searchers
  BY DEF Searchers, Search!PrimeThread
<1> HIDE DEF q, more, end, t
<1>9. /\ work'[t] = <<start, end>> /\ <<start, end>> # <<>>
      /\ \A u \in Searchers : u # t => work'[u] = work[u]
  BY <1>1, <1>3, <1>4 DEF SearchTyped
<1>10. SearchTyped'
  <2>1. created' \in 0..threads' /\ start' \in Nat \ {0} /\ spare' \in Nat
    BY <1>1, <1>2, <1>4, <1>5, <1>6 DEF t
  <2>2. work' \in [Searchers -> {<<>>} \cup (Int \X Int)]
    <3>1. <<start, end>> \in {<<>>} \cup (Int \X Int)
      BY <1>1, <1>2
    <3>2. work \in [Searchers -> {<<>>} \cup (Int \X Int)]
      BY <1>1 DEF SearchTyped
    <3> QED BY <1>4, <3>1, <3>2
  <2> QED BY <1>1, <1>4, <1>15, <2>1, <2>2 DEF SearchTyped
<1>11. WorkAbuts'
  <2>1. \A u \in Searchers : u > t => work'[u] = <<>>
    BY <1>2, <1>8, <1>9
  <2>2. ASSUME NEW u \in Searchers, work'[u] # <<>>
        PROVE  /\ work'[u] \in Int \X Int /\ work'[u][1] >= 1
               /\ work'[u][1] <= work'[u][2] + 1 /\ work'[u][2] < end + 1
    <3>1. CASE u = t
      BY <1>1, <1>2, <1>5, <1>9, <3>1
    <3>2. CASE u # t
      <4>1. /\ work[u] \in Int \X Int /\ work[u][1] >= 1
            /\ work[u][1] <= work[u][2] + 1 /\ work[u][2] < start
        BY <1>1, <1>9, <2>2, <3>2 DEF WorkAbuts
      <4>2. work[u][2] \in Int
        BY <4>1
      <4> QED BY <1>1, <1>2, <1>5, <1>9, <3>2, <4>1, <4>2
    <3> QED BY <3>1, <3>2
  <2>3. ASSUME NEW u \in Searchers, NEW v \in Searchers, u < v,
               work'[u] # <<>>, work'[v] # <<>>
        PROVE  work'[u][2] < work'[v][1]
    <3>1. CASE u # t /\ v # t
      BY <1>1, <1>9, <2>3, <3>1 DEF WorkAbuts
    <3>2. CASE v = t
      <4>1. u # t
        BY <1>2, <2>3, <3>2
      <4>2. work[u] # <<>>
        BY <1>9, <2>3, <4>1
      <4>3. work[u][2] < start
        BY <1>1, <4>2 DEF WorkAbuts
      <4> QED BY <1>9, <3>2, <4>1, <4>3
    <3>3. CASE u = t
      <4>1. v > t /\ v # t
        BY <1>2, <2>3, <3>3
      <4> QED BY <2>1, <2>3, <4>1
    <3> QED BY <3>1, <3>2, <3>3
  <2>4. start' + (threads' - created') * (N' \div threads') + spare' = N' + 1
    BY <1>4, <1>7 DEF q
  <2>5. spare' <= threads' - created'
    BY <1>4, <1>6
  <2>6. \A u \in Searchers : u > created' => work'[u] = <<>>
    BY <1>4, <2>1
  <2>7. \A u \in Searchers : work'[u] # <<>> => /\ work'[u] \in Int \X Int /\ work'[u][1] >= 1
                                                /\ work'[u][1] <= work'[u][2] + 1
                                                /\ work'[u][2] < start'
    BY <1>4, <2>2
  <2> QED BY <1>15, <2>3, <2>4, <2>5, <2>6, <2>7 DEF WorkAbuts
<1>12. Sought' = Sought
  <2>1. ASSUME NEW n \in 1..end
        PROVE  Pending(n)' <=> Pending(n) \/ n >= start
    <3>1. n \in Int /\ n <= end
      BY <1>2
    <3>2. Pending(n)' <=> \E u \in Searchers : work'[u] # <<>> /\ n >= work'[u][1] /\ n <= work'[u][2]
      BY <1>15 DEF Pending
    <3>3. Pending(n) => Pending(n)'
      <4> SUFFICES ASSUME NEW u \in Searchers, work[u] # <<>>, n >= work[u][1], n <= work[u][2]
                   PROVE  Pending(n)'
        BY DEF Pending
      <4>1. u # t
        BY <1>8
      <4> QED BY <1>9, <3>2, <4>1
    <3>4. n >= start => Pending(n)'
      BY <1>3, <1>9, <3>1, <3>2
    <3>5. Pending(n)' => Pending(n) \/ n >= start
      <4> SUFFICES ASSUME NEW u \in Searchers, work'[u] # <<>>, n >= work'[u][1], n <= work'[u][2]
                   PROVE  Pending(n) \/ n >= start
        BY <3>2
      <4>1. CASE u = t
        BY <1>9, <4>1
      <4>2. CASE u # t
        BY <1>9, <4>2 DEF Pending
      <4> QED BY <4>1, <4>2
    <3> QED BY <3>3, <3>4, <3>5
  <2>2. Sought' = {n \in 1..end : Search!IsPrime(n) /\ ~Pending(n)'}
    <3>1. (end + 1) - 1 = end
      BY <1>2
    <3> QED BY <1>4, <3>1 DEF Sought, Search!IsPrime
  <2>3. \A n : n \in 1..(start - 1) <=> n \in 1..end /\ ~(n >= start)
    BY <1>1, <1>2, <1>5
  <2> QED BY <2>1, <2>2, <2>3 DEF Sought
<1>13. FoundIsSought'
  BY <1>1, <1>4, <1>12 DEF FoundIsSought, Lists
<1>14. CountedAll'
  BY <1>1, <1>2, <1>4 DEF CountedAll
<1> QED BY <1>10, <1>11, <1>13, <1>14 DEF SearchInv

\* A thread appends what it found, which nobody else has.
LEMMA FindKeeps ==
  ASSUME SearchInv, NEW t \in Searchers, Search!FindPrimesInRange(t)
  PROVE  SearchInv'
<1> DEFINE lo == work[t][1]
           hi == work[t][2]
           mine == {n \in lo..hi : Search!IsPrime(n)}
<1>1. /\ SearchTyped /\ WorkAbuts /\ FoundIsSought /\ CountedAll
      /\ threads \in Nat /\ created \in Nat /\ start \in Nat
  BY WorkReaches DEF SearchInv
<1>2. /\ work[t] # <<>> /\ primes' = primes \o Search!PrimesIn(lo, hi)
      /\ work' = [work EXCEPT ![t] = <<>>]
      /\ N' = N /\ threads' = threads /\ created' = created /\ start' = start
      /\ spare' = spare /\ counted' = counted
  BY DEF Search!FindPrimesInRange
<1>3. /\ lo \in Int /\ hi \in Int /\ lo >= 1 /\ lo <= hi + 1 /\ hi < start
      /\ work \in [Searchers -> {<<>>} \cup (Int \X Int)] /\ Searchers \subseteq Nat \ {0}
  BY <1>1, <1>2, SearchConstants DEF WorkAbuts, SearchTyped
<1>4. /\ work'[t] = <<>> /\ \A u \in Searchers : u # t => work'[u] = work[u]
      /\ Searchers' = Searchers
  BY <1>2, <1>3 DEF Searchers, Search!PrimeThread
<1>5. Lists(Search!PrimesIn(lo, hi), mine)
  <2>1. lo \in Nat
    BY <1>3
  <2> HIDE DEF lo, hi
  <2> QED BY <1>3, <2>1, FoundIn
<1>6. ASSUME NEW n \in lo..hi
      PROVE  Pending(n) /\ ~Pending(n)' /\ n \in 1..(start - 1)
  <2>1. n \in Int /\ n >= lo /\ n <= hi /\ n \in 1..(start - 1)
    BY <1>1, <1>3
  <2>2. Pending(n)
    BY <1>2, <2>1 DEF Pending
  <2>3. ASSUME NEW u \in Searchers, work'[u] # <<>>, n >= work'[u][1], n <= work'[u][2]
        PROVE  FALSE
    <3>1. u # t /\ work[u] # <<>> /\ n >= work[u][1] /\ n <= work[u][2]
      BY <1>4, <2>3
    <3>2. work[u][1] \in Int /\ work[u][2] \in Int
      BY <1>1, <3>1 DEF WorkAbuts
    <3>3. u < t \/ t < u
      BY <1>3, <3>1
    <3>4. work[u][2] < lo \/ hi < work[u][1]
      BY <1>1, <1>2, <3>1, <3>3 DEF WorkAbuts
    <3> HIDE DEF lo, hi
    <3> QED BY <1>3, <2>1, <3>1, <3>2, <3>4
  <2> QED BY <1>4, <2>1, <2>2, <2>3 DEF Pending
<1>7. ASSUME NEW n \in Int, ~(n \in lo..hi)
      PROVE  Pending(n)' <=> Pending(n)
  <2>1. ~(n >= lo /\ n <= hi)
    BY <1>3, <1>7
  <2> QED BY <1>4, <2>1 DEF Pending
<1>8. Sought' = Sought \cup mine
  <2>1. Sought' = {n \in 1..(start - 1) : Search!IsPrime(n) /\ ~Pending(n)'}
    BY <1>2 DEF Sought, Search!IsPrime
  <2>2. \A n \in 1..(start - 1) : n \in Int
    BY <1>1
  <2> QED BY <1>6, <1>7, <2>1, <2>2 DEF Sought
<1>9. Sought \cap mine = {}
  BY <1>6 DEF Sought
<1>10. FoundIsSought'
  <2>1. Lists(primes \o Search!PrimesIn(lo, hi), Sought \cup mine)
    <3>1. Lists(primes, Sought)
      BY <1>1 DEF FoundIsSought
    <3> HIDE DEF mine
    <3> QED BY <1>5, <1>9, <3>1, ListsBoth
  <2> HIDE DEF mine
  <2> QED BY <1>2, <1>8, <2>1 DEF FoundIsSought, Lists
<1> HIDE DEF lo, hi, mine
<1>11. SearchTyped'
  <2>1. primes' \in Seq(Nat)
    BY <1>10 DEF FoundIsSought, Lists
  <2>2. work' \in [Searchers -> {<<>>} \cup (Int \X Int)]
    BY <1>2, <1>3
  <2> QED BY <1>1, <1>2, <1>4, <2>1, <2>2 DEF SearchTyped
<1>12. WorkAbuts'
  <2>1. \A u \in Searchers : work'[u] # <<>> => u # t /\ work[u] # <<>> /\ work'[u] = work[u]
    BY <1>4
  <2> QED BY <1>1, <1>2, <1>4, <2>1 DEF WorkAbuts
<1>13. CountedAll'
  BY <1>1, <1>2 DEF CountedAll
<1> QED BY <1>10, <1>11, <1>12, <1>13 DEF SearchInv

LEMMA CountKeeps == SearchInv /\ Search!Count => SearchInv'
<1> SUFFICES ASSUME SearchInv, Search!Count PROVE SearchInv'
  OBVIOUS
<1>1. /\ created = threads /\ \A t \in Searchers : work[t] = <<>>
      /\ counted' = <<Len(primes)>>
      /\ N' = N /\ threads' = threads /\ created' = created /\ start' = start
      /\ spare' = spare /\ work' = work /\ primes' = primes /\ Searchers' = Searchers
  BY DEF Search!Count, Searchers, Search!PrimeThread
<1>2. SearchTyped' /\ WorkAbuts'
  BY <1>1 DEF SearchInv, SearchTyped, WorkAbuts
<1>3. FoundIsSought'
  <2>1. Sought' = Sought
    BY <1>1 DEF Sought, Pending, Search!IsPrime
  <2> QED BY <1>1, <2>1 DEF SearchInv, FoundIsSought, Lists
<1>4. CountedAll'
  BY <1>1 DEF CountedAll
<1> QED BY <1>2, <1>3, <1>4 DEF SearchInv

LEMMA SearchNext == SearchInv /\ Search!Next => SearchInv'
  BY CreateKeeps, FindKeeps, CountKeeps DEF Search!Next, Searchers

LEMMA SearchStands == SearchInv /\ UNCHANGED primeVars => SearchInv'
<1> SUFFICES ASSUME SearchInv, UNCHANGED primeVars PROVE SearchInv'
  OBVIOUS
<1>1. /\ N' = N /\ threads' = threads /\ created' = created /\ start' = start
      /\ spare' = spare /\ work' = work /\ primes' = primes /\ counted' = counted
      /\ Searchers' = Searchers
  BY DEF primeVars, Searchers, Search!PrimeThread
<1>2. SearchTyped' /\ WorkAbuts'
  BY <1>1 DEF SearchInv, SearchTyped, WorkAbuts
<1>3. FoundIsSought'
  <2>1. Sought' = Sought
    BY <1>1 DEF Sought, Pending, Search!IsPrime
  <2> QED BY <1>1, <2>1 DEF SearchInv, FoundIsSought, Lists
<1>4. CountedAll'
  BY <1>1 DEF SearchInv, CountedAll
<1> QED BY <1>2, <1>3, <1>4 DEF SearchInv

LEMMA SearchInvariant == Spec => [](program = "Search" => SearchInv)
<1>1. Init => (program = "Search" => SearchInv)
  BY SearchInit DEF Init
<1>2. (program = "Search" => SearchInv) /\ [Next]_vars => (program = "Search" => SearchInv)'
  BY SearchNext, SearchStands DEF Next, vars
<1> QED BY <1>1, <1>2, PTL DEF Spec
----------------------------------------------------------------------------
(***************************************************************************)
(* Archiver: the counts.  Between two characters, whatever the block, the     *)
(* scan knows the words that have begun so far and whether it is in one.      *)
(***************************************************************************)
Chars == {"space", "letter"}
Scans == [word_count : Nat, in_word : BOOLEAN]

\* The scan of a block after its first k characters.
Scanned(stats, s, n, k) ==
  (CHOOSE g : g = [r \in SUBSET (1..n) |-> IF r = {} THEN stats
                     ELSE Archive!Scan(g[r \ {Largest(r)}], s[Largest(r)])])[1..k]

LEMMA ScanTyped ==
  ASSUME NEW stats \in Scans, NEW c
  PROVE  Archive!Scan(stats, c) \in Scans
<1> DEFINE begun == stats.word_count + (IF stats.in_word THEN 0 ELSE 1)
<1>1. stats.word_count \in Nat
  BY DEF Scans
<1>2. begun \in Nat
  <2>1. (IF stats.in_word THEN 0 ELSE 1) \in {0, 1}
    OBVIOUS
  <2> QED BY <1>1, <2>1
<1> HIDE DEF begun
<1>3. [stats EXCEPT !.in_word = FALSE] \in Scans
  BY DEF Scans
<1>4. [word_count |-> begun, in_word |-> TRUE] \in Scans
  BY <1>2 DEF Scans
<1>5. Archive!Scan(stats, c) = IF c = "space" THEN [stats EXCEPT !.in_word = FALSE]
                               ELSE [word_count |-> begun, in_word |-> TRUE]
  BY DEF Archive!Scan, begun
<1> QED BY <1>3, <1>4, <1>5

\* What a character does to the state.
LEMMA ScanIs ==
  ASSUME NEW w \in Nat, NEW b \in BOOLEAN, NEW c
  PROVE  Archive!Scan([word_count |-> w, in_word |-> b], c) =
           IF c = "space" THEN [word_count |-> w, in_word |-> FALSE]
           ELSE [word_count |-> IF b THEN w ELSE w + 1, in_word |-> TRUE]
<1> DEFINE stats == [word_count |-> w, in_word |-> b]
<1>1. stats.word_count = w /\ (stats.in_word <=> b)
  OBVIOUS
<1>2. [stats EXCEPT !.in_word = FALSE] = [word_count |-> w, in_word |-> FALSE]
  <2> DEFINE changed == [stats EXCEPT !.in_word = FALSE]
  <2>1. changed \in Scans
    BY DEF Scans
  <2>2. changed.word_count = w /\ changed.in_word = FALSE
    OBVIOUS
  <2> HIDE DEF changed
  <2>3. changed = [word_count |-> changed.word_count, in_word |-> changed.in_word]
    BY <2>1 DEF Scans
  <2>4. changed = [word_count |-> w, in_word |-> FALSE]
    BY <2>2, <2>3, Zenon
  <2> QED BY <2>4 DEF changed
<1>3. stats.word_count + (IF stats.in_word THEN 0 ELSE 1) = IF b THEN w ELSE w + 1
  <2>1. CASE b
    <3>1. (IF stats.in_word THEN 0 ELSE 1) = 0
      BY <1>1, <2>1
    <3> HIDE DEF stats
    <3>2. stats.word_count + 0 = w
      BY <1>1
    <3> QED BY <2>1, <3>1, <3>2
  <2>2. CASE ~b
    <3>1. (IF stats.in_word THEN 0 ELSE 1) = 1
      BY <1>1, <2>2
    <3> HIDE DEF stats
    <3>2. stats.word_count + 1 = w + 1
      BY <1>1
    <3> QED BY <2>2, <3>1, <3>2
  <2> QED BY <2>1, <2>2
<1> HIDE DEF stats
<1> QED BY <1>2, <1>3 DEF Archive!Scan, stats

LEMMA ScanExists ==
  ASSUME NEW n \in Nat, NEW s, \A i \in 1..n : s[i] \in Chars, NEW stats \in Scans
  PROVE  \E h : h = [r \in SUBSET (1..n) |-> IF r = {} THEN stats
                       ELSE Archive!Scan(h[r \ {Largest(r)}], s[Largest(r)])]
<1> DEFINE S == 1..n
           scanner == [p \in Scans \X Chars |-> Archive!Scan(p[1], p[2])]
           h == Fold(scanner, stats, s, S)
<1>1. Steps(scanner, Scans, Chars)
  <2>1. \A p \in Scans \X Chars : Archive!Scan(p[1], p[2]) \in Scans
    BY ScanTyped
  <2> QED BY <2>1 DEF Steps
<1>2. S \in SUBSET Int /\ IsFiniteSet(S) /\ \A i \in S : s[i] \in Chars
  BY FS_Interval
<1>4. \A x \in Scans : \A y \in Chars : scanner[<<x, y>>] = Archive!Scan(x, y)
  OBVIOUS
<1> HIDE DEF scanner, S
<1>5. IsFold(h, scanner, stats, s, S)
  BY <1>2, FoldExists
<1>6. \A r \in SUBSET S : /\ h[r] \in Scans
                          /\ r # {} => /\ Largest(r) \in r /\ s[Largest(r)] \in Chars
                                       /\ h[r \ {Largest(r)}] \in Scans
  BY <1>1, <1>2, FoldTyped
<1> HIDE DEF h
<1>7. h = [r \in SUBSET S |-> IF r = {} THEN stats
                              ELSE Archive!Scan(h[r \ {Largest(r)}], s[Largest(r)])]
  BY <1>4, <1>5, <1>6 DEF IsFold
<1> QED BY <1>7 DEF S

LEMMA ScanSteps ==
  ASSUME NEW n \in Nat, NEW s, \A i \in 1..n : s[i] \in Chars, NEW stats \in Scans
  PROVE  /\ Scanned(stats, s, n, 0) = stats
         /\ \A k \in 1..n : Scanned(stats, s, n, k)
                            = Archive!Scan(Scanned(stats, s, n, k - 1), s[k])
<1> DEFINE g == CHOOSE g : g = [r \in SUBSET (1..n) |-> IF r = {} THEN stats
                     ELSE Archive!Scan(g[r \ {Largest(r)}], s[Largest(r)])]
<1>1. g = [r \in SUBSET (1..n) |-> IF r = {} THEN stats
             ELSE Archive!Scan(g[r \ {Largest(r)}], s[Largest(r)])]
  BY ScanExists
<1>2. \A k : Scanned(stats, s, n, k) = g[1..k]
  BY DEF Scanned
<1> HIDE DEF g
<1>3. g[1..0] = stats
  BY <1>1
<1>4. ASSUME NEW k \in 1..n
      PROVE  g[1..k] = Archive!Scan(g[1..(k - 1)], s[k])
  <2>1. k \in Nat /\ k # 0
    OBVIOUS
  <2>2. Largest(1..k) = k /\ (1..k) \ {k} = 1..(k - 1) /\ 1..k # {}
    BY <2>1, LargestUpTo
  <2>3. 1..k \in SUBSET (1..n)
    OBVIOUS
  <2> QED BY <1>1, <2>2, <2>3
<1> QED BY <1>2, <1>3, <1>4

LEMMA ScanIsScanned ==
  ASSUME NEW n \in Nat, NEW s, DOMAIN s = 1..n, NEW stats
  PROVE  Archive!ScanBlock(stats, s) = Scanned(stats, s, n, n)
  BY DEF Archive!ScanBlock, Archive!FoldLeft, Archive!MapThenFoldSet, Archive!Max, Largest, Scanned

\* A property of the state that every character keeps holds at the end of the block.
LEMMA ScanBlockTyped ==
  ASSUME NEW s \in Seq(Chars), NEW stats \in Scans
  PROVE  Archive!ScanBlock(stats, s) \in Scans
<1> DEFINE n == Len(s)
           F(k) == Scanned(stats, s, n, k)
           Bad == {k \in 0..n : F(k) \notin Scans}
<1>1. n \in Nat /\ DOMAIN s = 1..n /\ \A i \in 1..n : s[i] \in Chars
  BY LenProperties
<1> HIDE DEF n
<1>2. F(0) = stats /\ \A k \in 1..n : F(k) = Archive!Scan(F(k - 1), s[k])
  BY <1>1, ScanSteps
<1> HIDE DEF F
<1>3. Bad = {}
  <2> SUFFICES ASSUME Bad # {} PROVE FALSE
    OBVIOUS
  <2>1. PICK k \in Bad : \A j \in Bad : k <= j
    <3>1. Bad \in SUBSET (0..n)
      OBVIOUS
    <3> HIDE DEF Bad
    <3> QED BY <1>1, <3>1, SmallestNumber
  <2>2. k # 0
    BY <1>2
  <2>3. k \in 1..n /\ k - 1 \in 0..n /\ ~(k <= k - 1)
    BY <1>1, <2>2
  <2>4. F(k - 1) \in Scans
    BY <2>1, <2>3
  <2>5. F(k) \in Scans
    BY <1>2, <2>3, <2>4, ScanTyped
  <2> QED BY <2>1, <2>5
<1>4. F(n) \in Scans
  <2>1. n \in 0..n
    BY <1>1
  <2> QED BY <1>3, <2>1
<1>5. Archive!ScanBlock(stats, s) = Scanned(stats, s, n, n)
  BY <1>1, ScanIsScanned
<1> QED BY <1>4, <1>5 DEF F

\* The words that have begun in the first p characters, and what the scan knows there.
Begun(text, p) == {i \in Archive!Words(text) : i <= p}
Known(text, p) == [word_count |-> Cardinality(Begun(text, p)),
                   in_word |-> p > 0 /\ text[p] = "letter"]

LEMMA KnownTyped ==
  ASSUME NEW text \in Seq(Chars), NEW p \in 0..Len(text)
  PROVE  /\ IsFiniteSet(Begun(text, p)) /\ Cardinality(Begun(text, p)) \in Nat
         /\ Known(text, p) \in Scans
<1>1. Begun(text, p) \in SUBSET (1..Len(text)) /\ Len(text) \in Nat
  BY LenProperties DEF Begun, Archive!Words
<1>2. IsFiniteSet(Begun(text, p)) /\ Cardinality(Begun(text, p)) \in Nat
  BY <1>1, SomeOf
<1> QED BY <1>2 DEF Known, Scans

\* One more character: a letter after none begins a word.
LEMMA KnownSteps ==
  ASSUME NEW text \in Seq(Chars), NEW p \in 1..Len(text)
  PROVE  Known(text, p) = Archive!Scan(Known(text, p - 1), text[p])
<1> DEFINE a == Begun(text, p - 1)
           b == Begun(text, p)
<1>1. Len(text) \in Nat /\ DOMAIN text = 1..Len(text) /\ \A i \in 1..Len(text) : text[i] \in Chars
  BY LenProperties
<1>2. p \in Int /\ p > 0 /\ p - 1 \in 0..Len(text)
  BY <1>1
<1>3. IsFiniteSet(a) /\ Cardinality(a) \in Nat
  BY <1>2, KnownTyped
<1>4. p \in Archive!Words(text) <=> text[p] = "letter" /\ (p = 1 \/ text[p - 1] = "space")
  BY <1>1 DEF Archive!Words
<1>5. b = IF p \in Archive!Words(text) THEN a \cup {p} ELSE a
  <2>1. Archive!Words(text) \subseteq 1..Len(text)
    BY <1>1 DEF Archive!Words
  <2>2. \A i \in 1..Len(text) : i <= p <=> i <= p - 1 \/ i = p
    BY <1>1
  <2> QED BY <2>1, <2>2 DEF Begun
<1>6. p \notin a
  BY <1>2 DEF Begun
<1>7. Cardinality(b) = Cardinality(a) + (IF p \in Archive!Words(text) THEN 1 ELSE 0)
  <2> HIDE DEF a, b
  <2>1. Cardinality(a \cup {p}) = Cardinality(a) + 1
    BY <1>3, <1>6, FS_AddElement
  <2> QED BY <1>3, <1>5, <2>1
<1>8. p > 1 => (text[p - 1] = "space" <=> text[p - 1] # "letter")
  <2>1. p > 1 => p - 1 \in 1..Len(text)
    BY <1>1, <1>2
  <2> QED BY <1>1, <2>1 DEF Chars
<1>9. text[p] # "letter" <=> text[p] = "space"
  BY <1>1 DEF Chars
<1> HIDE DEF a, b
<1>10. p \in Archive!Words(text) <=>
         text[p] = "letter" /\ ~(p - 1 > 0 /\ text[p - 1] = "letter")
  <2>1. p = 1 \/ p > 1
    BY <1>2
  <2>2. CASE p = 1
    BY <1>4, <2>2
  <2>3. CASE p > 1
    <3>1. p - 1 > 0 /\ p # 1
      BY <1>2, <2>3
    <3> QED BY <1>4, <1>8, <2>3, <3>1
  <2> QED BY <2>1, <2>2, <2>3
<1>11. /\ Known(text, p) = [word_count |-> Cardinality(b), in_word |-> text[p] = "letter"]
       /\ Known(text, p - 1) = [word_count |-> Cardinality(a),
                                in_word |-> p - 1 > 0 /\ text[p - 1] = "letter"]
  BY <1>2 DEF Known, a, b
<1> DEFINE inside == p - 1 > 0 /\ text[p - 1] = "letter"
<1>12. inside \in BOOLEAN
  OBVIOUS
<1>13. Known(text, p - 1) = [word_count |-> Cardinality(a), in_word |-> inside]
  BY <1>11
<1>14. p \in Archive!Words(text) <=> text[p] = "letter" /\ ~inside
  BY <1>10
<1> HIDE DEF inside
<1>15. Archive!Scan(Known(text, p - 1), text[p]) =
         IF text[p] = "space" THEN [word_count |-> Cardinality(a), in_word |-> FALSE]
         ELSE [word_count |-> IF inside THEN Cardinality(a) ELSE Cardinality(a) + 1,
               in_word |-> TRUE]
  BY <1>3, <1>12, <1>13, ScanIs
<1>16. CASE text[p] = "space"
  <2>1. Cardinality(b) = Cardinality(a)
    BY <1>3, <1>7, <1>9, <1>14, <1>16
  <2>2. (text[p] = "letter") = FALSE
    BY <1>9, <1>16
  <2>3. Known(text, p) = [word_count |-> Cardinality(a), in_word |-> FALSE]
    BY <1>11, <2>1, <2>2, Zenon
  <2> QED BY <1>15, <1>16, <2>3
<1>17. CASE text[p] = "letter"
  <2>1. Cardinality(b) = IF inside THEN Cardinality(a) ELSE Cardinality(a) + 1
    BY <1>3, <1>7, <1>14, <1>17
  <2>2. (text[p] = "letter") = TRUE /\ text[p] # "space"
    BY <1>9, <1>17
  <2>3. Known(text, p) = [word_count |-> Cardinality(b), in_word |-> TRUE]
    BY <1>11, <2>2, Zenon
  <2> QED BY <1>15, <2>1, <2>2, <2>3
<1> QED BY <1>9, <1>16, <1>17

\* A block from the (a+1)st to the bth character.
LEMMA BlockMoves ==
  ASSUME NEW text \in Seq(Chars), NEW a \in Nat, NEW b \in Nat, a <= b, b <= Len(text)
  PROVE  /\ SubSeq(text, a + 1, b) \in Seq(Chars) /\ Len(SubSeq(text, a + 1, b)) = b - a
         /\ Archive!ScanBlock(Known(text, a), SubSeq(text, a + 1, b)) = Known(text, b)
<1> DEFINE s == SubSeq(text, a + 1, b)
           n == b - a
           F(k) == Scanned(Known(text, a), s, n, k)
           Bad == {k \in 0..n : F(k) # Known(text, a + k)}
<1>1. Len(text) \in Nat /\ \A i \in 1..Len(text) : text[i] \in Chars
  BY LenProperties
<1>2. n \in Nat
  OBVIOUS
<1>3. /\ s \in Seq(Chars) /\ Len(s) = n
      /\ \A i \in 1..n : s[i] = text[a + i]
  <2>0. \A i \in (a + 1)..b : text[i] \in Chars
    BY <1>1
  <2>1. /\ s \in Seq(Chars)
        /\ Len(s) = (IF a + 1 <= b THEN b - (a + 1) + 1 ELSE 0)
        /\ \A i \in 1..(b - (a + 1) + 1) : s[i] = text[a + 1 + i - 1]
    BY <2>0, SubSeqProperties
  <2>2. b - (a + 1) + 1 = n /\ (a + 1 > b => n = 0)
    OBVIOUS
  <2>3. \A i \in 1..n : a + 1 + i - 1 = a + i
    OBVIOUS
  <2> HIDE DEF s
  <2> QED BY <2>1, <2>2, <2>3
<1>4. DOMAIN s = 1..n /\ \A i \in 1..n : s[i] \in Chars
  <2> HIDE DEF s, n
  <2> QED BY <1>3, LenProperties
<1>5. Known(text, a) \in Scans
  BY <1>1, KnownTyped
<1> HIDE DEF s, n
<1>6. F(0) = Known(text, a) /\ \A k \in 1..n : F(k) = Archive!Scan(F(k - 1), s[k])
  BY <1>2, <1>4, <1>5, ScanSteps
<1> HIDE DEF F
<1>7. Bad = {}
  <2> SUFFICES ASSUME Bad # {} PROVE FALSE
    OBVIOUS
  <2>1. PICK k \in Bad : \A j \in Bad : k <= j
    <3>1. Bad \in SUBSET (0..n)
      OBVIOUS
    <3> HIDE DEF Bad
    <3> QED BY <1>2, <3>1, SmallestNumber
  <2>2. k # 0
    BY <1>6
  <2>3. k \in 1..n /\ k - 1 \in 0..n /\ ~(k <= k - 1)
    BY <1>2, <2>2
  <2>4. F(k - 1) = Known(text, a + (k - 1))
    BY <2>1, <2>3
  <2>5. a + k \in 1..Len(text) /\ a + (k - 1) = (a + k) - 1
    BY <1>1, <2>3 DEF n
  <2>6. Known(text, a + k) = Archive!Scan(Known(text, (a + k) - 1), text[a + k])
    BY <2>5, KnownSteps
  <2>7. F(k) = Known(text, a + k)
    BY <1>3, <1>6, <2>3, <2>4, <2>5, <2>6
  <2> QED BY <2>1, <2>7
<1>8. F(n) = Known(text, b)
  <2>1. n \in 0..n
    BY <1>2
  <2>2. a + n = b
    BY DEF n
  <2> QED BY <1>7, <2>1, <2>2
<1>9. Archive!ScanBlock(Known(text, a), s) = Scanned(Known(text, a), s, n, n)
  BY <1>2, <1>4, ScanIsScanned
<1> QED BY <1>3, <1>8, <1>9 DEF F, s, n

\* The two loops over the blocks of a file, after the first k blocks.
ReadWords(s, n, k) ==
  (CHOOSE g : g = [r \in SUBSET (1..n) |-> IF r = {} THEN Archive!Start
                     ELSE Archive!ScanBlock(g[r \ {Largest(r)}], s[Largest(r)])])[1..k]
ReadChars(s, n, k) ==
  (CHOOSE g : g = [r \in SUBSET (1..n) |-> IF r = {} THEN 0
                     ELSE g[r \ {Largest(r)}] + Len(s[Largest(r)])])[1..k]

LEMMA WordsExist ==
  ASSUME NEW n \in Nat, NEW s, \A i \in 1..n : s[i] \in Seq(Chars)
  PROVE  \E h : h = [r \in SUBSET (1..n) |-> IF r = {} THEN Archive!Start
                       ELSE Archive!ScanBlock(h[r \ {Largest(r)}], s[Largest(r)])]
<1> DEFINE S == 1..n
           E == Seq(Chars)
           reader == [p \in Scans \X E |-> Archive!ScanBlock(p[1], p[2])]
           h == Fold(reader, Archive!Start, s, S)
<1>1. Steps(reader, Scans, E)
  <2>1. \A p \in Scans \X E : Archive!ScanBlock(p[1], p[2]) \in Scans
    BY ScanBlockTyped
  <2> QED BY <2>1 DEF Steps
<1>2. S \in SUBSET Int /\ IsFiniteSet(S) /\ \A i \in S : s[i] \in E
  BY FS_Interval
<1>3. Archive!Start \in Scans
  BY DEF Archive!Start, Scans
<1>4. \A x \in Scans : \A y \in E : reader[<<x, y>>] = Archive!ScanBlock(x, y)
  OBVIOUS
<1> HIDE DEF reader, S, E
<1>5. IsFold(h, reader, Archive!Start, s, S)
  BY <1>2, FoldExists
<1>6. \A r \in SUBSET S : /\ h[r] \in Scans
                          /\ r # {} => /\ Largest(r) \in r /\ s[Largest(r)] \in E
                                       /\ h[r \ {Largest(r)}] \in Scans
  BY <1>1, <1>2, <1>3, FoldTyped
<1> HIDE DEF h
<1>7. h = [r \in SUBSET S |-> IF r = {} THEN Archive!Start
                              ELSE Archive!ScanBlock(h[r \ {Largest(r)}], s[Largest(r)])]
  BY <1>4, <1>5, <1>6 DEF IsFold
<1> QED BY <1>7 DEF S

LEMMA CharsExist ==
  ASSUME NEW n \in Nat, NEW s, \A i \in 1..n : s[i] \in Seq(Chars)
  PROVE  \E h : h = [r \in SUBSET (1..n) |-> IF r = {} THEN 0
                       ELSE h[r \ {Largest(r)}] + Len(s[Largest(r)])]
<1> DEFINE S == 1..n
           E == Seq(Chars)
           reader == [p \in Nat \X E |-> p[1] + Len(p[2])]
           h == Fold(reader, 0, s, S)
<1>1. Steps(reader, Nat, E)
  <2>1. \A y \in E : Len(y) \in Nat
    BY LenProperties
  <2>2. \A p \in Nat \X E : p[1] + Len(p[2]) \in Nat
    BY <2>1
  <2> QED BY <2>2 DEF Steps
<1>2. S \in SUBSET Int /\ IsFiniteSet(S) /\ \A i \in S : s[i] \in E
  BY FS_Interval
<1>4. \A x \in Nat : \A y \in E : reader[<<x, y>>] = x + Len(y)
  OBVIOUS
<1> HIDE DEF reader, S, E
<1>5. IsFold(h, reader, 0, s, S)
  BY <1>2, FoldExists
<1>6. \A r \in SUBSET S : /\ h[r] \in Nat
                          /\ r # {} => /\ Largest(r) \in r /\ s[Largest(r)] \in E
                                       /\ h[r \ {Largest(r)}] \in Nat
  <2>1. 0 \in Nat
    OBVIOUS
  <2> QED BY <1>1, <1>2, <2>1, FoldTyped
<1> HIDE DEF h
<1>7. h = [r \in SUBSET S |-> IF r = {} THEN 0 ELSE h[r \ {Largest(r)}] + Len(s[Largest(r)])]
  BY <1>4, <1>5, <1>6 DEF IsFold
<1> QED BY <1>7 DEF S

LEMMA ReadSteps ==
  ASSUME NEW n \in Nat, NEW s, \A i \in 1..n : s[i] \in Seq(Chars)
  PROVE  /\ ReadWords(s, n, 0) = Archive!Start
         /\ ReadChars(s, n, 0) = 0
         /\ \A k \in 1..n :
              /\ ReadWords(s, n, k) = Archive!ScanBlock(ReadWords(s, n, k - 1), s[k])
              /\ ReadChars(s, n, k) = ReadChars(s, n, k - 1) + Len(s[k])
<1> DEFINE f == CHOOSE f : f = [r \in SUBSET (1..n) |-> IF r = {} THEN Archive!Start
                     ELSE Archive!ScanBlock(f[r \ {Largest(r)}], s[Largest(r)])]
           g == CHOOSE g : g = [r \in SUBSET (1..n) |-> IF r = {} THEN 0
                     ELSE g[r \ {Largest(r)}] + Len(s[Largest(r)])]
<1>1. f = [r \in SUBSET (1..n) |-> IF r = {} THEN Archive!Start
             ELSE Archive!ScanBlock(f[r \ {Largest(r)}], s[Largest(r)])]
  BY WordsExist
<1>2. g = [r \in SUBSET (1..n) |-> IF r = {} THEN 0
             ELSE g[r \ {Largest(r)}] + Len(s[Largest(r)])]
  BY CharsExist
<1>3. \A k : ReadWords(s, n, k) = f[1..k] /\ ReadChars(s, n, k) = g[1..k]
  BY DEF ReadWords, ReadChars
<1> HIDE DEF f, g
<1>4. f[1..0] = Archive!Start
  BY <1>1
<1>5. g[1..0] = 0
  BY <1>2
<1>6. ASSUME NEW k \in 1..n
      PROVE  /\ f[1..k] = Archive!ScanBlock(f[1..(k - 1)], s[k])
             /\ g[1..k] = g[1..(k - 1)] + Len(s[k])
  <2>1. k \in Nat /\ k # 0
    OBVIOUS
  <2>2. Largest(1..k) = k /\ (1..k) \ {k} = 1..(k - 1) /\ 1..k # {}
    BY <2>1, LargestUpTo
  <2>3. 1..k \in SUBSET (1..n)
    OBVIOUS
  <2>4. f[1..k] = Archive!ScanBlock(f[1..(k - 1)], s[k])
    BY <1>1, <2>2, <2>3
  <2>5. g[1..k] = g[1..(k - 1)] + Len(s[k])
    BY <1>2, <2>2, <2>3
  <2> QED BY <2>4, <2>5
<1> QED BY <1>3, <1>4, <1>5, <1>6

\* Where the bth block ends: the blocks are BlockSize long but for the last one.
BlockEnd(l, b) == IF b * BlockSize <= l THEN b * BlockSize ELSE l

LEMMA BlockEnds ==
  ASSUME NEW l \in Nat, BlockSize \in Nat, BlockSize # 0
  PROVE  /\ (l + BlockSize - 1) \div BlockSize \in Nat
         /\ BlockEnd(l, 0) = 0
         /\ BlockEnd(l, (l + BlockSize - 1) \div BlockSize) = l
         /\ \A b \in 1..((l + BlockSize - 1) \div BlockSize) :
              /\ BlockEnd(l, b - 1) = (b - 1) * BlockSize
              /\ BlockEnd(l, b) \in Nat /\ BlockEnd(l, b - 1) \in Nat
              /\ BlockEnd(l, b - 1) <= BlockEnd(l, b) /\ BlockEnd(l, b) <= l
<1> DEFINE B == BlockSize
           m == l + B - 1
           c == m \div B
           r == m % B
<1>1. m \in Nat /\ B \in Nat /\ B # 0
  OBVIOUS
<1>2. c \in Int /\ r \in 0..(B - 1) /\ m = B * c + r
  <2> HIDE DEF m, B
  <2> QED BY <1>1, Division
<1> HIDE DEF c, r
<1>3. m = l + B - 1
  OBVIOUS
<1> HIDE DEF m, B
<1>4. c >= 0
  <2> SUFFICES ASSUME c <= -1 PROVE FALSE
    BY <1>2
  <2>1. B * c <= -B
    BY <1>1, <1>2
  <2> DEFINE p == B * c
  <2>2. p \in Int
    BY <1>1, <1>2
  <2> HIDE DEF p
  <2>3. p <= -B /\ m = p + r
    BY <1>2, <2>1 DEF p
  <2> QED BY <1>1, <1>2, <2>2, <2>3
<1>5. c * B >= l
  <2>1. c * B = B * c /\ c * B \in Int
    BY <1>1, <1>2
  <2> DEFINE p == c * B
  <2> HIDE DEF p
  <2>2. p \in Int /\ m = p + r
    BY <1>2, <2>1 DEF p
  <2>3. p >= l
    BY <1>1, <1>2, <1>3, <2>2
  <2> QED BY <2>3 DEF p
<1>6. BlockEnd(l, c) = l
  <2>1. c * B \in Int
    BY <1>1, <1>2
  <2> DEFINE p == c * B
  <2> HIDE DEF p
  <2>2. p \in Int /\ p >= l
    BY <1>5, <2>1 DEF p
  <2>3. (IF p <= l THEN p ELSE l) = l
    BY <2>2
  <2> QED BY <2>3 DEF BlockEnd, p, B
<1>7. BlockEnd(l, 0) = 0
  <2>1. 0 * B = 0
    BY <1>1
  <2> QED BY <2>1 DEF BlockEnd, B
<1>8. ASSUME NEW b \in 1..c
      PROVE  /\ BlockEnd(l, b - 1) = (b - 1) * B
             /\ BlockEnd(l, b) \in Nat /\ BlockEnd(l, b - 1) \in Nat
             /\ BlockEnd(l, b - 1) <= BlockEnd(l, b) /\ BlockEnd(l, b) <= l
  <2> DEFINE x == (b - 1) * B
             y == b * B
             z == B * c
  <2>1. b \in Int /\ b >= 1 /\ b <= c
    BY <1>2
  <2>2. x \in Int /\ y \in Int /\ z \in Int /\ y = x + B
    BY <1>1, <1>2, <2>1
  <2>3. y <= z
    BY <1>1, <1>2, <2>1
  <2>4. x >= 0
    BY <1>1, <2>1
  <2>5. m = z + r
    BY <1>2
  <2>6. BlockEnd(l, b - 1) = IF x <= l THEN x ELSE l
    BY DEF BlockEnd, B
  <2>7. BlockEnd(l, b) = IF y <= l THEN y ELSE l
    BY DEF BlockEnd, B
  <2> HIDE DEF x, y, z
  <2>8. x <= l
    BY <1>1, <1>2, <1>3, <2>2, <2>3, <2>5
  <2>9. x \in Nat /\ y \in Nat /\ x <= y
    BY <1>1, <2>2, <2>4
  <2>10. BlockEnd(l, b - 1) = x
    BY <2>6, <2>8
  <2>11. BlockEnd(l, b) \in Nat /\ x <= BlockEnd(l, b) /\ BlockEnd(l, b) <= l
    BY <2>7, <2>8, <2>9
  <2> QED BY <2>9, <2>10, <2>11 DEF x
<1>9. c \in Nat
  BY <1>2, <1>4
<1> QED BY <1>6, <1>7, <1>8, <1>9 DEF c, m, B

\* Block by block the scan knows what it would know without blocks.
LEMMA FileRead ==
  ASSUME NEW text \in Seq(Chars), BlockSize \in Nat, BlockSize # 0
  PROVE  LET s == Archive!Blocks(text)
             n == (Len(text) + BlockSize - 1) \div BlockSize
         IN  /\ n \in Nat /\ DOMAIN s = 1..n
             /\ ReadWords(s, n, n) = Known(text, Len(text))
             /\ ReadChars(s, n, n) = Len(text)
<1> DEFINE l == Len(text)
           n == (l + BlockSize - 1) \div BlockSize
           s == Archive!Blocks(text)
           Till(b) == BlockEnd(l, b)
<1>1. l \in Nat
  BY LenProperties
<1>2. /\ n \in Nat /\ Till(0) = 0 /\ Till(n) = l
      /\ \A b \in 1..n : /\ Till(b - 1) = (b - 1) * BlockSize
                         /\ Till(b) \in Nat /\ Till(b - 1) \in Nat
                         /\ Till(b - 1) <= Till(b) /\ Till(b) <= l
  <2> HIDE DEF l
  <2> QED BY <1>1, BlockEnds
<1>3. DOMAIN s = 1..n
  BY DEF Archive!Blocks
<1>4. ASSUME NEW b \in 1..n
      PROVE  s[b] = SubSeq(text, Till(b - 1) + 1, Till(b))
  <2>1. s[b] = SubSeq(text, (b - 1) * BlockSize + 1, Archive!Min({b * BlockSize, l}))
    BY DEF Archive!Blocks
  <2> DEFINE x == b * BlockSize
  <2>2. x \in Int
    OBVIOUS
  <2>3. Till(b) = IF x <= l THEN x ELSE l
    BY DEF BlockEnd
  <2> HIDE DEF x, l
  <2>4. Archive!Min({x, l}) = IF x <= l THEN x ELSE l
    <3> DEFINE y == Archive!Min({x, l})
    <3>1. \E z \in {x, l} : \A w \in {x, l} : z <= w
      BY <1>1, <2>2
    <3>2. y \in {x, l} /\ \A w \in {x, l} : y <= w
      BY <3>1 DEF Archive!Min
    <3> HIDE DEF y
    <3>3. y = IF x <= l THEN x ELSE l
      BY <1>1, <2>2, <3>2
    <3> QED BY <3>3 DEF y
  <2> QED BY <1>2, <2>1, <2>3, <2>4 DEF x
<1> HIDE DEF n, s, Till
<1>5. ASSUME NEW b \in 1..n
      PROVE  /\ s[b] \in Seq(Chars) /\ Len(s[b]) = Till(b) - Till(b - 1)
             /\ Archive!ScanBlock(Known(text, Till(b - 1)), s[b]) = Known(text, Till(b))
  <2>1. /\ Till(b - 1) \in Nat /\ Till(b) \in Nat /\ Till(b - 1) <= Till(b)
        /\ Till(b) <= Len(text)
    BY <1>2 DEF l
  <2> DEFINE a == Till(b - 1)
             c == Till(b)
             block == s[b]
  <2>2. a \in Nat /\ c \in Nat /\ a <= c /\ c <= Len(text) /\ block = SubSeq(text, a + 1, c)
    BY <1>4, <2>1
  <2> HIDE DEF a, c, block, l
  <2>3. /\ SubSeq(text, a + 1, c) \in Seq(Chars) /\ Len(SubSeq(text, a + 1, c)) = c - a
        /\ Archive!ScanBlock(Known(text, a), SubSeq(text, a + 1, c)) = Known(text, c)
    BY <2>2, BlockMoves
  <2> QED BY <2>2, <2>3 DEF a, c, block
<1>6. /\ ReadWords(s, n, 0) = Archive!Start /\ ReadChars(s, n, 0) = 0
      /\ \A k \in 1..n :
           /\ ReadWords(s, n, k) = Archive!ScanBlock(ReadWords(s, n, k - 1), s[k])
           /\ ReadChars(s, n, k) = ReadChars(s, n, k - 1) + Len(s[k])
  BY <1>2, <1>5, ReadSteps
<1>7. Known(text, 0) = Archive!Start
  <2>1. Begun(text, 0) = {}
    BY LenProperties DEF Begun, Archive!Words
  <2>2. Cardinality(Begun(text, 0)) = 0
    BY <2>1, FS_EmptySet
  <2>3. (0 > 0 /\ text[0] = "letter") = FALSE
    OBVIOUS
  <2> QED BY <2>2, <2>3, Zenon DEF Known, Archive!Start
<1> HIDE DEF l
<1> DEFINE Bad == {k \in 0..n : ~(/\ ReadWords(s, n, k) = Known(text, Till(k))
                                  /\ ReadChars(s, n, k) = Till(k))}
<1>8. Bad = {}
  <2> SUFFICES ASSUME Bad # {} PROVE FALSE
    OBVIOUS
  <2>1. PICK k \in Bad : \A j \in Bad : k <= j
    <3>1. Bad \in SUBSET (0..n)
      OBVIOUS
    <3> HIDE DEF Bad
    <3> QED BY <1>2, <3>1, SmallestNumber
  <2>2. k # 0
    BY <1>2, <1>6, <1>7
  <2>3. k \in 1..n /\ k - 1 \in 0..n /\ ~(k <= k - 1)
    BY <1>2, <2>2
  <2>4. ReadWords(s, n, k - 1) = Known(text, Till(k - 1)) /\ ReadChars(s, n, k - 1) = Till(k - 1)
    BY <2>1, <2>3
  <2>5. ReadWords(s, n, k) = Known(text, Till(k))
    BY <1>5, <1>6, <2>3, <2>4
  <2>6. ReadChars(s, n, k) = Till(k)
    <3>1. Till(k) \in Nat /\ Till(k - 1) \in Nat
      BY <1>2, <2>3
    <3>2. ReadChars(s, n, k) = Till(k - 1) + (Till(k) - Till(k - 1))
      BY <1>5, <1>6, <2>3, <2>4
    <3> QED BY <3>1, <3>2
  <2> QED BY <2>1, <2>5, <2>6
<1>9. ReadWords(s, n, n) = Known(text, Till(n)) /\ ReadChars(s, n, n) = Till(n)
  <2>1. n \in 0..n
    BY <1>2
  <2> QED BY <1>8, <2>1
<1> QED BY <1>2, <1>3, <1>9 DEF n, s, l

\* What process_file returns for a file it can read.
LEMMA FileCounted ==
  ASSUME NEW f, content[f] \in Seq(Chars), content[f] # Archive!Unreadable
  PROVE  /\ Archive!ProcessFile(f).word_count = Cardinality(Archive!Words(content[f]))
         /\ Archive!ProcessFile(f).char_count = Len(content[f])
<1> DEFINE text == content[f]
           s == Archive!Blocks(text)
           n == (Len(text) + BlockSize - 1) \div BlockSize
<1>1. BlockSize \in Nat /\ BlockSize # 0
  BY WorkshopsAssumption DEF Archive!ArchiverAssumption
<1>2. /\ n \in Nat /\ DOMAIN s = 1..n
      /\ ReadWords(s, n, n) = Known(text, Len(text)) /\ ReadChars(s, n, n) = Len(text)
  <2> HIDE DEF text
  <2> QED BY <1>1, FileRead DEF text
<1>3. /\ Archive!ProcessFile(f).word_count =
           Archive!FoldLeft(Archive!ScanBlock, Archive!Start, s).word_count
      /\ Archive!ProcessFile(f).char_count =
           Archive!FoldLeft(LAMBDA x, block : x + Len(block), 0, s)
  BY DEF Archive!ProcessFile
<1> HIDE DEF s, n
<1>4. Archive!FoldLeft(Archive!ScanBlock, Archive!Start, s) = ReadWords(s, n, n)
  BY <1>2 DEF Archive!FoldLeft, Archive!MapThenFoldSet, Archive!Max, Largest, ReadWords
<1>5. Archive!FoldLeft(LAMBDA x, block : x + Len(block), 0, s) = ReadChars(s, n, n)
  BY <1>2 DEF Archive!FoldLeft, Archive!MapThenFoldSet, Archive!Max, Largest, ReadChars
<1>6. Known(text, Len(text)).word_count = Cardinality(Begun(text, Len(text)))
  BY DEF Known
<1>7. Begun(text, Len(text)) = Archive!Words(text)
  <2>1. Len(text) \in Nat /\ DOMAIN text = 1..Len(text)
    BY LenProperties
  <2> QED BY <2>1 DEF Begun, Archive!Words
<1> QED BY <1>2, <1>3, <1>4, <1>5, <1>6, <1>7

\* Every result is that of the file it names, as the file was read.
ResultsRead == /\ content \in [Archive!File -> Content \cup {Archive!Unreadable}]
               /\ \A r \in Archive!ToSet(results) :
                    r.filename \in Archive!File /\ r = Archive!ProcessFile(r.filename)

LEMMA ReadIsRight == ResultsRead => Archive!CountsRight
<1> SUFFICES ASSUME ResultsRead, NEW r \in Archive!ToSet(results), r.success
             PROVE  /\ r.word_count = Archive!Cardinality(Archive!Words(content[r.filename]))
                    /\ r.char_count = Len(content[r.filename])
  BY DEF Archive!CountsRight
<1> DEFINE f == r.filename
<1>1. f \in Archive!File /\ r = Archive!ProcessFile(f)
  BY DEF ResultsRead
<1>2. content[f] # Archive!Unreadable
  <2> SUFFICES ASSUME content[f] = Archive!Unreadable PROVE FALSE
    OBVIOUS
  <2>1. Archive!ProcessFile(f).success = FALSE
    BY DEF Archive!ProcessFile
  <2> HIDE DEF f
  <2>2. r.success = FALSE
    BY <1>1, <2>1
  <2> QED BY <2>2
<1>3. content[f] \in Seq(Chars)
  <2>1. Content \subseteq Seq(Chars)
    BY WorkshopsAssumption DEF Archive!ArchiverAssumption, Chars
  <2> QED BY <1>1, <1>2, <2>1 DEF ResultsRead
<1> HIDE DEF f
<1>4. /\ r.word_count = Cardinality(Archive!Words(content[f]))
      /\ r.char_count = Len(content[f])
  BY <1>1, <1>2, <1>3, FileCounted
<1> QED BY <1>4, SameSizes DEF f

LEMMA ReadInit == Archive!Init => ResultsRead
<1> SUFFICES ASSUME Archive!Init PROVE ResultsRead
  OBVIOUS
<1>1. content \in [Archive!File -> Content \cup {Archive!Unreadable}] /\ results = <<>>
  BY DEF Archive!Init
<1>2. Archive!ToSet(results) = {}
  BY <1>1 DEF Archive!ToSet
<1> QED BY <1>1, <1>2 DEF ResultsRead

\* A thread lists the result of the file it has taken.
LEMMA ReadPush ==
  ASSUME ArchiveInv, ResultsRead, NEW t \in Archive!Thread, Archive!PushResult(t)
  PROVE  ResultsRead'
<1> DEFINE f == file[t]
           new == Archive!ProcessFile(f)
<1>1. /\ ArchiveTyped /\ BeforeTheFill /\ FilesCounted /\ t \in 1..PoolMax
  BY ArchiveConstants DEF ArchiveInv
<1>2. /\ place[t] = "process" /\ results' = Append(results, new) /\ content' = content
  BY DEF Archive!PushResult
<1>3. f \in Archive!File
  <2>1. all_pushed
    BY <1>1, <1>2 DEF BeforeTheFill
  <2>2. f \in InProcess
    BY <1>1, <1>2 DEF InProcess, Processing
  <2> QED BY <1>1, <2>1, <2>2 DEF FilesCounted
<1>4. new.filename = f
  BY NamedByFile
<1> HIDE DEF new, f
<1>5. \A r \in Archive!ToSet(results') : r \in Archive!ToSet(results) \/ r = new
  <2> DEFINE T == Archive!ToSet(results) \cup {new}
  <2>1. results \in Seq(T)
    BY <1>1 DEF ArchiveTyped
  <2>2. new \in T
    OBVIOUS
  <2> HIDE DEF T
  <2>3. results' \in Seq(T)
    BY <1>2, <2>1, <2>2, AppendProperties
  <2>4. Archive!ToSet(results') \subseteq T
    BY <2>3, LenProperties DEF Archive!ToSet
  <2> QED BY <2>4 DEF T
<1>6. \A g : Archive!ProcessFile(g)' = Archive!ProcessFile(g)
  BY <1>2 DEF Archive!ProcessFile, Archive!Blocks, Archive!Unreadable, Archive!ScanBlock,
              Archive!Scan, Archive!Start, Archive!FoldLeft, Archive!MapThenFoldSet, Archive!Min
<1> QED BY <1>2, <1>3, <1>4, <1>5, <1>6 DEF ResultsRead, new, f

LEMMA ReadStands ==
  ASSUME ResultsRead, content' = content, results' = results
  PROVE  ResultsRead'
<1>1. \A g : Archive!ProcessFile(g)' = Archive!ProcessFile(g)
  BY DEF Archive!ProcessFile, Archive!Blocks, Archive!Unreadable, Archive!ScanBlock,
         Archive!Scan, Archive!Start, Archive!FoldLeft, Archive!MapThenFoldSet, Archive!Min
<1> QED BY <1>1 DEF ResultsRead

LEMMA ReadNext == ArchiveInv /\ ResultsRead /\ Archive!Next => ResultsRead'
<1> SUFFICES ASSUME ArchiveInv, ResultsRead, Archive!Next PROVE ResultsRead'
  OBVIOUS
<1>1. CASE Archive!MainStep
  <2>1. content' = content /\ results' = results
    BY <1>1 DEF Archive!MainStep, Archive!FillQueue, Archive!NotifyAll, Archive!Report
  <2> QED BY <2>1, ReadStands
<1>2. ASSUME NEW t \in Archive!Thread, Archive!Worker(t) \/ Archive!SpuriousWake(t)
      PROVE  ResultsRead'
  <2>1. CASE Archive!PushResult(t)
    BY <2>1, ReadPush
  <2>2. CASE \/ Archive!Sleep(t) \/ Archive!Quit(t) \/ Archive!TakeFile(t)
             \/ Archive!CountFile(t) \/ Archive!SpuriousWake(t)
    <3>1. content' = content /\ results' = results
      BY <2>2 DEF Archive!Sleep, Archive!Quit, Archive!TakeFile, Archive!CountFile,
                  Archive!SpuriousWake
    <3> QED BY <3>1, ReadStands
  <2> QED BY <1>2, <2>1, <2>2 DEF Archive!Worker
<1> QED BY <1>1, <1>2 DEF Archive!Next

LEMMA ReadInvariant == Spec => [](program = "Archiver" => ResultsRead)
<1>1. Init => (program = "Archiver" => ResultsRead)
  BY ReadInit DEF Init
<1>2. /\ program = "Archiver" => ArchiveInv
      /\ program = "Archiver" => ResultsRead
      /\ [Next]_vars
      => (program = "Archiver" => ResultsRead)'
  <2> SUFFICES ASSUME program = "Archiver" => ArchiveInv, program = "Archiver" => ResultsRead,
                      [Next]_vars, program' = "Archiver"
               PROVE  ResultsRead'
    OBVIOUS
  <2>1. CASE program = "Archiver" /\ Archive!Next
    BY <2>1, ReadNext
  <2>2. CASE program = "Archiver" /\ UNCHANGED archiverVars
    BY <2>2, ReadStands DEF archiverVars
  <2> QED BY <2>1, <2>2 DEF Next, vars
<1> QED BY <1>1, <1>2, ArchiveInvariant, PTL DEF Spec
----------------------------------------------------------------------------
\* What the programs compute is right, for every schedule and every size: the blurred
\* image is that of the filter, however the rows are split (BlurFilter); the sum is as
\* right as the synchronisation makes it (RangeSum); the primes found are those of the
\* array, once each (PrimeSearch); the characters and words listed are those of the
\* file, wherever the blocks cut it (Archiver).
THEOREM ResultsAreRight == Spec => []ResultsRight
<1>1. /\ (program = "Blur" => BlurInv) => (program = "Blur" => Filter!BlurRight)
      /\ (program = "Sums" => SumsInv) => (program = "Sums" => Sums!SumsConsistent)
      /\ (program = "Search" => SearchInv) => (program = "Search" => Search!PrimesFound)
      /\ (program = "Archiver" => ResultsRead) => (program = "Archiver" => Archive!CountsRight)
  BY SumsImplies, SearchImplies, ReadIsRight DEF BlurInv
<1>2. /\ program = "Blur" => Filter!BlurRight
      /\ program = "Sums" => Sums!SumsConsistent
      /\ program = "Search" => Search!PrimesFound
      /\ program = "Archiver" => Archive!CountsRight
      => ResultsRight
  BY DEF ResultsRight
<1> QED BY <1>1, <1>2, BlurInvariant, SumsInvariant, SearchInvariant, ReadInvariant, PTL
=============================================================================
