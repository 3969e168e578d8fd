-------------------------- MODULE ParkingLotProofs --------------------------
(***************************************************************************)
(* Proofs about ParkingLot, for any cars, any capacity and any requests to   *)
(* change it: places, permits and counters agree, and no car sleeps at an    *)
(* open gate.                                                              *)
(***************************************************************************)
EXTENDS ParkingLot, Counting

\* What LotConsistent needs besides itself to be inductive: VIP cars never wait
\* in the two ways that only normal cars do, and set_capacity owes permits only
\* while it adjusts them.
WaysOfWaiting == \A c \in Vip : pc[c] \notin {"asleep", "try"}
OwesOnlyInAdjust == admin # "adjust" => pending = 0

IInv == LotConsistent /\ WaysOfWaiting /\ OwesOnlyInAdjust

Moving == {"enter", "post"}        \* between the permit and the counter
Counted == {"notify", "parked"}    \* counted in occupied_
Waiting == {"gate", "acquire", "enter"}

\* The parts of LotConsistent, with the sets of cars that they count.
Places(M) == semaphore + occupied + Cardinality(M) = capacity - pending
Counters(C, W) == occupied = Cardinality(C) /\ vip_waiting = Cardinality(W)

LEMMA Parts ==
  LotConsistent <=> /\ TypeOK
                    /\ Places(At(Moving))
                    /\ Counters(At(Counted), Vip \cap At(Waiting))
  BY DEF LotConsistent, PlacesAccountedFor, CountersMatchCars, Places, Counters,
         Moving, Counted, Waiting

\* Car d, which another car wakes at most, stays in the sets that are counted.
OthersStay(d) == /\ pc'[d] \in Moving <=> pc[d] \in Moving
                 /\ pc'[d] \in Counted <=> pc[d] \in Counted
                 /\ d \in Vip => (pc'[d] \in Waiting <=> pc[d] \in Waiting)

\* A car that moves changes the three counts of cars by itself at most.
LEMMA CarMoves ==
  ASSUME NEW c \in Car,
         \A d \in Car \ {c} : OthersStay(d)
  PROVE  /\ Cardinality(At(Moving)) \in Nat
         /\ Cardinality(At(Counted)) \in Nat
         /\ Cardinality(Vip \cap At(Waiting)) \in Nat
         /\ Cardinality(At(Counted)') \in 0..Cardinality(Car)
         /\ Cardinality((Vip \cap At(Waiting))') \in 0..Cardinality(Vip)
         /\ Cardinality(At(Moving)') = Cardinality(At(Moving))
              + Change(At(Moving), At(Moving)', c)
         /\ Cardinality(At(Counted)') = Cardinality(At(Counted))
              + Change(At(Counted), At(Counted)', c)
         /\ Cardinality((Vip \cap At(Waiting))') = Cardinality(Vip \cap At(Waiting))
              + Change(Vip \cap At(Waiting), (Vip \cap At(Waiting))', c)
<1>1. IsFiniteSet(Car) /\ IsFiniteSet(Vip) /\ Vip \subseteq Car
  <2>1. Vip \subseteq Car
    BY DEF Car
  <2> QED BY <2>1, LotAssumption, FS_Subset
<1>2. ASSUME NEW L \in {Moving, Counted}
      PROVE  /\ At(L) \subseteq Car /\ At(L)' \subseteq Car
             /\ At(L) \ {c} = At(L)' \ {c}
  BY DEF At, OthersStay
<1>3. /\ IsFiniteSet(At(Moving)) /\ IsFiniteSet(At(Counted))
      /\ IsFiniteSet(Vip \cap At(Waiting))
  BY <1>1, <1>2, FS_Subset
<1>4. Cardinality(At(Counted)') \in 0..Cardinality(Car)
  BY <1>1, <1>2, FS_Subset, FS_CardinalityType
<1>5. Cardinality((Vip \cap At(Waiting))') \in 0..Cardinality(Vip)
  BY <1>1, FS_Subset, FS_CardinalityType
<1>6. (Vip \cap At(Waiting)) \ {c} = (Vip \cap At(Waiting))' \ {c}
  BY <1>1 DEF At, OthersStay
<1>7. Cardinality(At(Moving)) \in Nat /\ Cardinality(At(Moving)')
        = Cardinality(At(Moving)) + Change(At(Moving), At(Moving)', c)
  BY <1>2, <1>3, OneElementChanges
<1>8. Cardinality(At(Counted)) \in Nat /\ Cardinality(At(Counted)')
        = Cardinality(At(Counted)) + Change(At(Counted), At(Counted)', c)
  BY <1>2, <1>3, OneElementChanges
<1>9. /\ Cardinality(Vip \cap At(Waiting)) \in Nat
      /\ Cardinality((Vip \cap At(Waiting))') = Cardinality(Vip \cap At(Waiting))
           + Change(Vip \cap At(Waiting), (Vip \cap At(Waiting))', c)
  BY <1>3, <1>6, OneElementChanges
<1> QED BY <1>4, <1>5, <1>7, <1>8, <1>9

\* The part of TypeOK that no count of cars enters.
TypedLot == /\ capacity \in Nat /\ pending \in Int /\ semaphore \in Nat
            /\ occupied \in Int /\ vip_waiting \in Int
            /\ timed_out \subseteq Normal
            /\ pc \in [Car -> {"idle", "gate", "asleep", "try", "acquire", "enter",
                               "notify", "parked", "post", "notifyLeft"}]
            /\ admin \in {"idle", "adjust", "notify"}
            /\ stop \in BOOLEAN

\* How the step of car c changes the number of cars at the labels L.
Delta(c, L) == IF pc'[c] \in L /\ pc[c] \notin L THEN 1
               ELSE IF pc[c] \in L /\ pc'[c] \notin L THEN -1 ELSE 0

LEMMA DeltaIsChange ==
  ASSUME NEW c \in Car, NEW L
  PROVE  /\ Change(At(L), At(L)', c) = Delta(c, L)
         /\ Change(Vip \cap At(L), (Vip \cap At(L))', c)
              = IF c \in Vip THEN Delta(c, L) ELSE 0
         /\ Delta(c, L) \in Int
<1>1. (c \in At(L) <=> pc[c] \in L) /\ (c \in At(L)' <=> pc'[c] \in L)
  BY DEF At
<1> QED BY <1>1 DEF Change, Delta

\* A step of one car keeps IInv if it keeps the types and changes the counters
\* as it changes the sets of cars that they count.
LEMMA CarKeeps ==
  ASSUME IInv, NEW c \in Car, TypedLot', WaysOfWaiting', OwesOnlyInAdjust',
         \A d \in Car \ {c} : OthersStay(d),
         capacity' - pending' = capacity - pending,
         occupied' = occupied + Delta(c, Counted),
         vip_waiting' = vip_waiting + (IF c \in Vip THEN Delta(c, Waiting) ELSE 0),
         semaphore' + Delta(c, Moving) + Delta(c, Counted) = semaphore
  PROVE  IInv'
<1>1. /\ TypeOK /\ Places(At(Moving))
      /\ Counters(At(Counted), Vip \cap At(Waiting))
  BY Parts DEF IInv
<1>2. /\ Cardinality(At(Moving)) \in Nat
      /\ Cardinality(At(Counted)) \in Nat
      /\ Cardinality(Vip \cap At(Waiting)) \in Nat
      /\ Cardinality(At(Counted)') \in 0..Cardinality(Car)
      /\ Cardinality((Vip \cap At(Waiting))') \in 0..Cardinality(Vip)
      /\ Cardinality(At(Moving)') = Cardinality(At(Moving)) + Delta(c, Moving)
      /\ Cardinality(At(Counted)') = Cardinality(At(Counted)) + Delta(c, Counted)
      /\ Cardinality((Vip \cap At(Waiting))') = Cardinality(Vip \cap At(Waiting))
              + (IF c \in Vip THEN Delta(c, Waiting) ELSE 0)
  BY CarMoves, DeltaIsChange
<1>3. Delta(c, Moving) \in Int /\ Delta(c, Counted) \in Int
  BY DeltaIsChange
<1>4. occupied' = Cardinality(At(Counted)')
  BY <1>1, <1>2 DEF Counters
<1>5. vip_waiting' = Cardinality((Vip \cap At(Waiting))')
  BY <1>1, <1>2 DEF Counters
<1>6. semaphore' + occupied' + Cardinality(At(Moving)') = capacity' - pending'
  <2>1. /\ semaphore \in Int /\ occupied \in Int /\ semaphore' \in Int
        /\ capacity - pending \in Int
    BY <1>1 DEF TypeOK, TypedLot
  <2>2. semaphore + occupied + Cardinality(At(Moving)) = capacity - pending
    BY <1>1 DEF Places
  <2>3. /\ capacity' - pending' = capacity - pending
        /\ occupied' = occupied + Delta(c, Counted)
        /\ semaphore' + Delta(c, Moving) + Delta(c, Counted) = semaphore
    OBVIOUS
  <2> QED BY ONLY <2>1, <2>2, <2>3, <1>2, <1>3
<1>7. occupied' \in 0..Cardinality(Car) /\ vip_waiting' \in 0..Cardinality(Vip)
  BY <1>2, <1>4, <1>5
<1>8. TypeOK'
  BY <1>7 DEF TypeOK, TypedLot
<1>9. PlacesAccountedFor' /\ CountersMatchCars'
  BY <1>4, <1>5, <1>6 DEF PlacesAccountedFor, CountersMatchCars, Moving, Counted,
     Waiting
<1> QED BY <1>8, <1>9 DEF IInv, LotConsistent

\* leave never finds the counter at 0.
LEMMA ParkedAreCounted ==
  ASSUME IInv, NEW c \in Car, pc[c] = "parked"
  PROVE  occupied > 0
<1>1. IsFiniteSet(At(Counted))
  <2>1. At(Counted) \subseteq Car
    BY DEF At
  <2> QED BY <2>1, LotAssumption, FS_Subset
<1>2. c \in At(Counted)
  BY DEF At, Counted
<1>3. Cardinality(At(Counted)) # 0 /\ Cardinality(At(Counted)) \in Nat
  BY <1>1, <1>2, FS_EmptySet, FS_CardinalityType
<1> QED BY <1>3, Parts DEF IInv, Counters

\* A step that leaves every car where it is counted keeps IInv if it changes the
\* permits by what they owe.
LEMMA AdminKeeps ==
  ASSUME IInv, TypedLot', WaysOfWaiting', OwesOnlyInAdjust',
         \A d \in Car : OthersStay(d),
         UNCHANGED <<occupied, vip_waiting>>,
         capacity' - pending' - semaphore' = capacity - pending - semaphore
  PROVE  IInv'
<1>1. At(Moving)' = At(Moving) /\ At(Counted)' = At(Counted)
  BY DEF At, OthersStay
<1>2. (Vip \cap At(Waiting))' = Vip \cap At(Waiting)
  <2>1. Vip \subseteq Car
    BY DEF Car
  <2> QED BY <2>1 DEF At, OthersStay
<1>3. /\ TypeOK /\ Places(At(Moving))
      /\ Counters(At(Counted), Vip \cap At(Waiting))
  BY Parts DEF IInv
<1>4. Cardinality(At(Moving)) \in Nat
  <2>1. At(Moving) \subseteq Car
    BY DEF At
  <2> QED BY <2>1, LotAssumption, FS_Subset, FS_CardinalityType
<1>5. TypeOK'
  BY <1>3 DEF TypeOK, TypedLot
<1>6. semaphore' + occupied' + Cardinality(At(Moving)') = capacity' - pending'
  <2>1. /\ {capacity, pending, semaphore, occupied} \subseteq Int
        /\ {capacity', pending', semaphore'} \subseteq Int
    BY <1>3 DEF TypeOK, TypedLot
  <2>2. semaphore + occupied + Cardinality(At(Moving)) = capacity - pending
    BY <1>3 DEF Places
  <2>3. /\ occupied' = occupied
        /\ capacity' - pending' - semaphore' = capacity - pending - semaphore
    OBVIOUS
  <2> QED BY ONLY <1>1, <1>4, <2>1, <2>2, <2>3
<1>7. PlacesAccountedFor' /\ CountersMatchCars'
  BY <1>1, <1>2, <1>3, <1>6 DEF PlacesAccountedFor, CountersMatchCars, Moving,
     Counted, Waiting, Counters
<1> QED BY <1>5, <1>7 DEF IInv, LotConsistent

\* Every step keeps places, permits and counters in agreement.
LEMMA LotInductive == IInv /\ [Next]_vars => IInv'
<1> SUFFICES ASSUME IInv, [Next]_vars PROVE IInv'
  OBVIOUS
<1>0. /\ TypedLot /\ WaysOfWaiting /\ OwesOnlyInAdjust
      /\ capacity - pending \in Int
  BY LotAssumption DEF IInv, LotConsistent, TypeOK, TypedLot
<1> USE DEF TypedLot, WaysOfWaiting, OwesOnlyInAdjust, lotVars, adminVars, Goto, Move
<1>1. ASSUME NEW c \in Car, Drive(c) \/ Arrive(c) \/ SpuriousWake(c)
      PROVE  IInv'
  <2> USE <1>0, LotAssumption DEF OthersStay, Delta, Moving, Counted, Waiting
  <2>1. CASE SleepAtGate(c)
    <3>1. TypedLot' /\ WaysOfWaiting' /\ OwesOnlyInAdjust'
      BY <2>1 DEF SleepAtGate, GateOpen
    <3> QED BY <2>1, <3>1, CarKeeps DEF SleepAtGate, GateOpen
  <2>2. CASE TryPlace(c)
    <3>1. TypedLot' /\ WaysOfWaiting' /\ OwesOnlyInAdjust'
      BY <2>2 DEF TryPlace, Car
    <3> QED BY <2>2, <3>1, CarKeeps DEF TryPlace
  <2>3. CASE DemandPlace(c)
    <3>1. TypedLot' /\ WaysOfWaiting' /\ OwesOnlyInAdjust'
      BY <2>3 DEF DemandPlace
    <3> QED BY <2>3, <3>1, CarKeeps DEF DemandPlace
  <2>4. CASE TimeOut(c)
    <3>1. TypedLot' /\ WaysOfWaiting' /\ OwesOnlyInAdjust'
      BY <2>4 DEF TimeOut, GateOpen, Car
    <3> QED BY <2>4, <3>1, CarKeeps DEF TimeOut, GateOpen
  <2>5. CASE GetPlace(c)
    <3>1. TypedLot' /\ WaysOfWaiting' /\ OwesOnlyInAdjust'
      BY <2>5 DEF GetPlace
    <3> QED BY <2>5, <3>1, CarKeeps DEF GetPlace
  <2>6. CASE Enter(c)
    <3>1. TypedLot' /\ WaysOfWaiting' /\ OwesOnlyInAdjust'
      BY <2>6 DEF Enter
    <3> QED BY <2>6, <3>1, CarKeeps DEF Enter
  <2>7. CASE Leave(c)
    <3>1. TypedLot' /\ WaysOfWaiting' /\ OwesOnlyInAdjust'
      BY <2>7 DEF Leave
    <3>2. occupied > 0
      BY <2>7, ParkedAreCounted DEF Leave
    <3> QED BY <2>7, <3>1, <3>2, CarKeeps DEF Leave
  <2>8. CASE Post(c)
    <3>1. TypedLot' /\ WaysOfWaiting' /\ OwesOnlyInAdjust'
      BY <2>8 DEF Post
    <3> QED BY <2>8, <3>1, CarKeeps DEF Post
  <2>9. CASE Arrive(c)
    <3>1. TypedLot' /\ WaysOfWaiting' /\ OwesOnlyInAdjust'
      BY <2>9 DEF Arrive
    <3> QED BY <2>9, <3>1, CarKeeps DEF Arrive
  <2>10. CASE SpuriousWake(c)
    <3>1. TypedLot' /\ WaysOfWaiting' /\ OwesOnlyInAdjust'
      BY <2>10 DEF SpuriousWake
    <3> QED BY <2>10, <3>1, CarKeeps DEF SpuriousWake
  <2>11. CASE Notify(c)
    <3>1. \A d \in Car \ {c} : pc'[d] = Woken(pc[d])
      BY <2>11 DEF Notify
    <3>2. TypedLot' /\ WaysOfWaiting' /\ OwesOnlyInAdjust'
      BY <2>11 DEF Notify, Woken, Car
    <3> QED BY <2>11, <3>1, <3>2, CarKeeps DEF Notify, Woken
  <2> QED BY <1>1, <2>1, <2>2, <2>3, <2>4, <2>5, <2>6, <2>7, <2>8, <2>9, <2>10,
             <2>11 DEF Drive
<1>2. ASSUME NEW n \in Requests, Announce(n) PROVE IInv'
  <2>1. TypedLot' /\ WaysOfWaiting' /\ OwesOnlyInAdjust'
    BY <1>0, <1>2, LotAssumption DEF Announce, NewCapacity
  <2>2. capacity' - pending' = capacity - pending
    BY <1>0, <1>2, LotAssumption DEF Announce, NewCapacity
  <2> QED BY <1>2, <2>1, <2>2, AdminKeeps DEF Announce, OthersStay
<1>3. CASE Adjust
  <2>1. CASE Grow
    <3>1. TypedLot' /\ WaysOfWaiting' /\ OwesOnlyInAdjust'
      BY <1>0, <2>1 DEF Grow
    <3> QED BY <1>0, <2>1, <3>1, AdminKeeps DEF Grow, OthersStay
  <2>2. CASE GrowNotify
    <3>1. TypedLot' /\ WaysOfWaiting' /\ OwesOnlyInAdjust'
      BY <1>0, <2>2 DEF GrowNotify, Woken, Car
    <3>2. \A d \in Car : OthersStay(d)
      BY <1>0, <2>2 DEF GrowNotify, Woken, OthersStay, Moving, Counted, Waiting
    <3> QED BY <1>0, <2>2, <3>1, <3>2, AdminKeeps DEF GrowNotify
  <2>3. CASE Shrink
    <3>1. TypedLot' /\ WaysOfWaiting' /\ OwesOnlyInAdjust'
      BY <1>0, <2>3 DEF Shrink
    <3> QED BY <1>0, <2>3, <3>1, AdminKeeps DEF Shrink, OthersStay
  <2> QED BY <1>3, <2>1, <2>2, <2>3 DEF Adjust
<1>4. CASE Stop
  <2>1. TypedLot' /\ WaysOfWaiting' /\ OwesOnlyInAdjust'
    BY <1>0, <1>4 DEF Stop
  <2> QED BY <1>0, <1>4, <2>1, AdminKeeps DEF Stop, OthersStay
<1>5. CASE UNCHANGED vars
  <2>1. TypedLot' /\ WaysOfWaiting' /\ OwesOnlyInAdjust'
    BY <1>0, <1>5 DEF vars
  <2> QED BY <1>0, <1>5, <2>1, AdminKeeps DEF vars, OthersStay
<1> QED BY <1>1, <1>2, <1>3, <1>4, <1>5 DEF Next
\* The strengthened invariant holds in every state of park, leave and set_capacity.
THEOREM LotInvariant == Spec => []IInv
<1>1. Init => IInv
  <2> SUFFICES ASSUME Init PROVE IInv
    OBVIOUS
  <2>1. At(Moving) = {} /\ At(Counted) = {} /\ Vip \cap At(Waiting) = {}
    BY DEF Init, At, Moving, Counted, Waiting
  <2>2. Cardinality({}) = 0
    BY FS_EmptySet
  <2>3. IsFiniteSet(Vip)
    <3>1. Vip \subseteq Car
      BY DEF Car
    <3> QED BY <3>1, LotAssumption, FS_Subset
  <2>4. Cardinality(Car) \in Nat /\ Cardinality(Vip) \in Nat
    BY <2>3, LotAssumption, FS_CardinalityType
  <2>5. TypeOK
    <3>1. 0 \in 0..Cardinality(Car) /\ 0 \in 0..Cardinality(Vip)
      BY <2>4
    <3>2. InitialCapacity \in Nat
      BY LotAssumption
    <3>3. TypedLot
      <4>1. /\ capacity \in Nat /\ pending \in Int /\ semaphore \in Nat
            /\ occupied \in Int /\ vip_waiting \in Int
        BY <3>2 DEF Init
      <4>2. /\ timed_out \subseteq Normal /\ stop \in BOOLEAN
            /\ admin \in {"idle", "adjust", "notify"}
            /\ pc \in [Car -> {"idle", "gate", "asleep", "try", "acquire", "enter",
                               "notify", "parked", "post", "notifyLeft"}]
        BY DEF Init
      <4> QED BY <4>1, <4>2 DEF TypedLot
    <3> QED BY <3>1, <3>3 DEF Init, TypeOK, TypedLot
  <2>6. Places(At(Moving)) /\ Counters(At(Counted), Vip \cap At(Waiting))
    <3>1. /\ semaphore = InitialCapacity /\ occupied = 0 /\ capacity = InitialCapacity
          /\ pending = 0 /\ vip_waiting = 0 /\ InitialCapacity \in Nat
      BY LotAssumption DEF Init
    <3>2. semaphore + occupied + Cardinality({}) = capacity - pending
      BY ONLY <2>2, <3>1
    <3> QED BY <2>1, <2>2, <3>1, <3>2 DEF Places, Counters
  <2>7. WaysOfWaiting /\ OwesOnlyInAdjust
    BY DEF Init, WaysOfWaiting, OwesOnlyInAdjust, Car
  <2> QED BY <2>5, <2>6, <2>7, Parts DEF IInv
<1> QED BY <1>1, LotInductive, PTL DEF Spec

\* Whatever cars park and leave and however the capacity is changed meanwhile,
\* places, permits and counters agree: the counters of park and leave tell the
\* truth, and a set_capacity in progress explains every place too many.
THEOREM LotIsConsistent == Spec => []LotConsistent
  BY LotInvariant, PTL DEF IInv
------------------------------------------------------------------------------
\* A car goes to sleep only at a closed gate; the gate opens only when the last
\* waiting VIP car enters, which then owes a notify_all; a notify_all leaves
\* nobody asleep.
LEMMA GateInductive == IInv /\ GateNotSleptAt /\ [Next]_vars => GateNotSleptAt'
<1> DEFINE Notifying == {"notify", "notifyLeft"}
<1> SUFFICES ASSUME IInv, GateNotSleptAt, [Next]_vars,
                    NEW d \in Car, pc'[d] = "asleep", GateOpen(d)'
             PROVE  \E e \in Car : pc'[e] \in Notifying
  BY DEF GateNotSleptAt, At
<1>0. TypeOK
  BY DEF IInv, LotConsistent
<1>1. ASSUME pc[d] = "asleep", GateOpen(d)
      PROVE  \E e \in Car : pc[e] \in Notifying
  BY <1>1 DEF GateNotSleptAt, At
<1>2. ASSUME vip_waiting' = vip_waiting, pc[d] = "asleep",
             \A e \in Car : pc[e] \in Notifying => pc'[e] \in Notifying
      PROVE  \E e \in Car : pc'[e] \in Notifying
  BY <1>1, <1>2 DEF GateOpen
<1>3. ASSUME NEW c \in Car, Drive(c) \/ Arrive(c) \/ SpuriousWake(c)
      PROVE  \E e \in Car : pc'[e] \in Notifying
  <2> USE <1>0 DEF TypeOK, Goto, Move, lotVars
  <2>1. CASE SleepAtGate(c)
    <3>1. pc[d] = "asleep"
      BY <2>1 DEF SleepAtGate, GateOpen
    <3> QED BY <1>2, <2>1, <3>1 DEF SleepAtGate
  <2>2. CASE TryPlace(c) \/ DemandPlace(c) \/ TimeOut(c) \/ GetPlace(c)
    BY <1>2, <2>2 DEF TryPlace, DemandPlace, TimeOut, GetPlace
  <2>3. CASE Enter(c)
    BY <2>3 DEF Enter
  <2>4. CASE Leave(c) \/ SpuriousWake(c)
    BY <1>2, <2>4 DEF Leave, SpuriousWake
  <2>5. CASE Post(c)
    BY <2>5 DEF Post
  <2>6. CASE Arrive(c)
    \* The gate is open afterwards: so it was before, or the car is no VIP.
    <3>1. pc[d] = "asleep"
      BY <2>6 DEF Arrive
    <3>2. GateOpen(d)
      <4>1. vip_waiting \in Nat
        BY <1>0
      <4> QED BY <2>6, <4>1 DEF Arrive, GateOpen
    <3> QED BY <1>1, <2>6, <3>1, <3>2 DEF Arrive
  <2>7. CASE Notify(c)
    BY <2>7 DEF Notify, Woken
  <2> QED BY <1>3, <2>1, <2>2, <2>3, <2>4, <2>5, <2>6, <2>7 DEF Drive
<1>4. CASE GrowNotify
  BY <1>4 DEF GrowNotify, Woken
<1>5. CASE (\E n \in Requests : Announce(n)) \/ Grow \/ Shrink \/ Stop
           \/ UNCHANGED vars
  BY <1>2, <1>5 DEF Announce, Grow, Shrink, Stop, vars, lotVars
<1> QED BY <1>3, <1>4, <1>5 DEF Next, Adjust

\* No car sleeps at an open gate unless a notify_all is on its way to it.
THEOREM NobodySleepsAtOpenGate == Spec => []GateNotSleptAt
<1>1. Init => GateNotSleptAt
  BY DEF Init, GateNotSleptAt, At
<1> QED BY <1>1, LotInvariant, GateInductive, PTL DEF Spec
=============================================================================
