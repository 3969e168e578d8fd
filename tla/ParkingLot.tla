----------------------------- MODULE ParkingLot -----------------------------
(***************************************************************************)
(* Seminar5/task2.cpp: a car park whose places are the permits of a counting *)
(* semaphore.  A normal car waits at a gate (a condition variable) while a   *)
(* VIP car waits for a place, then tries for a permit for a limited time     *)
(* once, and from then on without limit; a VIP car only waits for a permit.  *)
(* set_capacity publishes the new capacity first and then posts the permits  *)
(* it adds or acquires, one by one, those it takes away.                    *)
(*                                                                         *)
(* What mtx_ protects is one step; the semaphore is used as Semaphore        *)
(* promises.  normal_waiting_, which nothing reads, is left out.            *)
(***************************************************************************)
EXTENDS Integers, FiniteSets

CONSTANTS Vip, Normal,      \* the cars
          InitialCapacity,  \* the constructor's argument
          MaxRequest        \* the largest argument set_capacity is called with

Car == Vip \cup Normal

\* The arguments of set_capacity; all that are negative are taken as 0.
Requests == -1 .. MaxRequest

ASSUME LotAssumption == /\ IsFiniteSet(Car)
                        /\ Vip \cap Normal = {}
                        /\ InitialCapacity \in Nat
                        /\ MaxRequest \in Nat

VARIABLES capacity,    \* capacity_
          pending,     \* permits set_capacity has yet to post (or, < 0, to acquire)
          semaphore,   \* permits left in semaphore_
          occupied,    \* occupied_
          vip_waiting, \* vip_waiting_
          timed_out,   \* cars whose timed attempt is over
          pc,          \* pc[c]: where car c is
          admin,       \* where the thread that sets the capacity is
          stop         \* main's stop flag

lotVars == <<capacity, semaphore, occupied, vip_waiting>>
adminVars == <<pending, admin>>
vars == <<lotVars, adminVars, timed_out, pc, stop>>

Init == /\ capacity = InitialCapacity
        /\ pending = 0
        /\ semaphore = InitialCapacity
        /\ occupied = 0
        /\ vip_waiting = 0
        /\ timed_out = {}
        /\ pc = [c \in Car |-> "idle"]
        /\ admin = "idle"
        /\ stop = FALSE
----------------------------------------------------------------------------
Goto(c, label) == pc' = [pc EXCEPT ![c] = label]

\* Mutated form: normal cars do not give way.
MutGateOpen(c) == c \in Vip \/ vip_waiting >= 0

\* The predicate of the wait at the gate.
GateOpen(c) == c \in Vip \/ vip_waiting = 0

\* park: the car is counted as waiting.
Arrive(c) == /\ pc[c] = "idle" /\ ~stop
             /\ vip_waiting' = vip_waiting + (IF c \in Vip THEN 1 ELSE 0)
             /\ timed_out' = timed_out \ {c}
             /\ Goto(c, "gate")
             /\ UNCHANGED <<capacity, semaphore, occupied, adminVars, stop>>

\* The wait at the gate.
Move(c, from, to) == /\ pc[c] = from
                     /\ Goto(c, to)
                     /\ UNCHANGED <<lotVars, adminVars, timed_out, stop>>

SleepAtGate(c) == ~GateOpen(c) /\ Move(c, "gate", "asleep")
SpuriousWake(c) == Move(c, "asleep", "gate")

\* Past the gate: a timed attempt, or one without limit.
TryPlace(c) == c \in Normal \ timed_out /\ GateOpen(c) /\ Move(c, "gate", "try")
DemandPlace(c) == c \in Vip \cup timed_out /\ GateOpen(c) /\ Move(c, "gate", "acquire")

\* The deadline has passed, before the timed attempt or in it: back to the gate.
TimeOut(c) == /\ \/ pc[c] = "gate" /\ c \in Normal \ timed_out /\ GateOpen(c)
                 \/ pc[c] = "try" /\ semaphore = 0
              /\ timed_out' = timed_out \cup {c}
              /\ Goto(c, "gate")
              /\ UNCHANGED <<lotVars, adminVars, stop>>

GetPlace(c) == /\ pc[c] \in {"try", "acquire"}
               /\ semaphore > 0
               /\ semaphore' = semaphore - 1
               /\ Goto(c, "enter")
               /\ UNCHANGED <<capacity, occupied, vip_waiting, adminVars, timed_out, stop>>

Enter(c) == /\ pc[c] = "enter"
            /\ vip_waiting' = vip_waiting - (IF c \in Vip THEN 1 ELSE 0)
            /\ occupied' = occupied + 1
            /\ Goto(c, "notify")
            /\ UNCHANGED <<capacity, semaphore, adminVars, timed_out, stop>>
----------------------------------------------------------------------------
\* leave
Leave(c) == /\ pc[c] = "parked"
            /\ occupied' = IF occupied > 0 THEN occupied - 1 ELSE occupied
            /\ Goto(c, "post")
            /\ UNCHANGED <<capacity, semaphore, vip_waiting, adminVars, timed_out, stop>>

Post(c) == /\ pc[c] = "post"
           /\ semaphore' = semaphore + 1
           /\ Goto(c, "notifyLeft")
           /\ UNCHANGED <<capacity, occupied, vip_waiting, adminVars, timed_out, stop>>

\* cv_.notify_all() at the end of park, leave and set_capacity.
Woken(p) == IF p = "asleep" THEN "gate" ELSE p

\* Mutated form: nobody is woken.
MutNotify(c) == Move(c, "notify", "parked") \/ Move(c, "notifyLeft", "idle")

Notify(c) ==
  /\ pc[c] \in {"notify", "notifyLeft"}
  /\ pc' = [d \in Car |-> IF d # c THEN Woken(pc[d])
                          ELSE IF pc[c] = "notify" THEN "parked" ELSE "idle"]
  /\ UNCHANGED <<lotVars, adminVars, timed_out, stop>>
----------------------------------------------------------------------------
NewCapacity(n) == IF n < 0 THEN 0 ELSE n

\* set_capacity: the new capacity is published and compared with the old one,
Announce(n) == LET delta == NewCapacity(n) - capacity IN
  /\ admin = "idle"
  /\ capacity' = NewCapacity(n)
  /\ pending' = delta
  /\ admin' = IF delta = 0 THEN "idle" ELSE "adjust"
  /\ UNCHANGED <<semaphore, occupied, vip_waiting, timed_out, pc, stop>>

\* then all the permits it adds are posted at once and everybody is notified,
Grow == /\ admin = "adjust" /\ pending > 0
        /\ semaphore' = semaphore + pending
        /\ pending' = 0
        /\ admin' = "notify"
        /\ UNCHANGED <<capacity, occupied, vip_waiting, timed_out, pc, stop>>

GrowNotify == /\ admin = "notify"
              /\ admin' = "idle"
              /\ pc' = [c \in Car |-> Woken(pc[c])]
              /\ UNCHANGED <<lotVars, pending, timed_out, stop>>

\* Mutated form: the loop ends one permit early.
MutShrink == /\ admin = "adjust" /\ pending < 0
             /\ semaphore > 0
             /\ semaphore' = semaphore - 1
             /\ pending' = IF pending = -2 THEN 0 ELSE pending + 1
             /\ admin' = IF pending' = 0 THEN "idle" ELSE "adjust"
             /\ UNCHANGED <<capacity, occupied, vip_waiting, timed_out, pc, stop>>

\* or those it takes away are acquired one by one.
Shrink == /\ admin = "adjust" /\ pending < 0
          /\ semaphore > 0
          /\ semaphore' = semaphore - 1
          /\ pending' = pending + 1
          /\ admin' = IF pending' = 0 THEN "idle" ELSE "adjust"
          /\ UNCHANGED <<capacity, occupied, vip_waiting, timed_out, pc, stop>>

Stop == /\ ~stop
        /\ stop' = TRUE
        /\ UNCHANGED <<lotVars, adminVars, timed_out, pc>>

Drive(c) == \/ SleepAtGate(c) \/ TryPlace(c) \/ DemandPlace(c) \/ TimeOut(c)
            \/ GetPlace(c) \/ Enter(c) \/ Notify(c) \/ Leave(c) \/ Post(c)

Adjust == Grow \/ GrowNotify \/ Shrink

Next == \/ \E c \in Car : Drive(c) \/ Arrive(c) \/ SpuriousWake(c)
        \/ \E n \in Requests : Announce(n)
        \/ Adjust
        \/ Stop

\* A car in a call is scheduled and does leave the place it has.
Fairness == WF_vars(Adjust) /\ \A c \in Car : WF_vars(Drive(c))

Spec == Init /\ [][Next]_vars /\ Fairness
----------------------------------------------------------------------------
At(labels) == {c \in Car : pc[c] \in labels}

\* Every variable has its type.
TypeOK == /\ capacity \in Nat
          /\ pending \in Int
          /\ semaphore \in Nat
          /\ occupied \in 0..Cardinality(Car)
          /\ vip_waiting \in 0..Cardinality(Vip)
          /\ timed_out \subseteq Normal
          /\ pc \in [Car -> {"idle", "gate", "asleep", "try", "acquire", "enter",
                             "notify", "parked", "post", "notifyLeft"}]
          /\ admin \in {"idle", "adjust", "notify"}
          /\ stop \in BOOLEAN

\* Every place is free, taken, or between the two, and together they are the
\* capacity, but for what a set_capacity in progress has yet to post or acquire.
PlacesAccountedFor ==
  semaphore + occupied + Cardinality(At({"enter", "post"})) = capacity - pending

\* The counters tell the truth about the cars, also while cars race through
\* park and leave: so leave never finds the counter at 0.
CountersMatchCars ==
  /\ occupied = Cardinality(At({"notify", "parked"}))
  /\ vip_waiting = Cardinality(Vip \cap At({"gate", "acquire", "enter"}))

\* Places, permits and counters agree in every state.  In particular more cars
\* than places stand in the lot only while set_capacity has yet to acquire some.
LotConsistent == TypeOK /\ PlacesAccountedFor /\ CountersMatchCars

\* A car does not sleep at an open gate unless somebody is about to notify.
GateNotSleptAt ==
  \A c \in At({"asleep"}) : GateOpen(c) => At({"notify", "notifyLeft"}) # {}

\* A VIP car that is the only one gets a place if the lot has any: the normal
\* cars that passed the gate before it may go first, no others.
VipServed == \A c \in Vip :
               Vip = {c} => (pc[c] = "gate" ~> (pc[c] = "parked" \/ capacity = 0))
=============================================================================
