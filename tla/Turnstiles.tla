----------------------------- MODULE Turnstiles -----------------------------
(***************************************************************************)
(* Laba2/task1/main.cpp: employees queue for turnstiles, those of high          *)
(* priority first.  A long queue opens extra turnstiles, a breakdown takes one  *)
(* away.  All share one mutex and one condition variable, and whoever has      *)
(* changed the queue or the slots wakes all, after leaving the mutex.        *)
(***************************************************************************)
EXTENDS Naturals, FiniteSets

CONSTANTS Employees,  \* NUM_EMPLOYEES
          HighEvery,  \* high priority: the ids it divides (5 in main)
          Initial,    \* INITIAL_TURNSTILES
          MaxExtra,   \* MAX_EXTRA
          Crowd       \* a queue longer than this opens a turnstile (5)

GateAssumption == /\ Employees \in Nat /\ HighEvery \in Nat \ {0}
                  /\ Initial \in Nat /\ MaxExtra \in Nat /\ Crowd \in Nat

Employee == 1..Employees

VARIABLES slots, extra, inLine,  \* g_slots, g_extra, g_queue
          gate,     \* gate[e]: where employee e is
          breakdown,\* where simulate_breakdown is
          lost,     \* the slots the breakdown has taken away
          everyone  \* main has joined all threads

gateVars == <<slots, extra, inLine, gate, breakdown, lost, everyone>>

Init == /\ slots = Initial /\ extra = 0 /\ inLine = {}
        /\ gate = [e \in Employee |-> "arriving"]
        /\ breakdown = "pending" /\ lost = 0
        /\ everyone = FALSE
----------------------------------------------------------------------------
High(e) == e % HighEvery = 0

\* Employee::operator<, turned round: d is served before e.
Precedes(d, e) == IF High(d) # High(e) THEN High(d) ELSE d < e

IsTop(e) == e \in inLine /\ \A d \in inLine \ {e} : Precedes(e, d)

\* The places after notify_all, when p are the places before.
AllWoken(p) == [e \in Employee |-> IF p[e] = "asleep" THEN "waiting" ELSE p[e]]
Goto(e, label) == gate' = [gate EXCEPT ![e] = label]

Arrive(e) == /\ gate[e] = "arriving"
             /\ inLine' = inLine \cup {e}
             /\ IF Cardinality(inLine') > Crowd /\ extra < MaxExtra
                THEN extra' = extra + 1 /\ slots' = slots + 1
                ELSE UNCHANGED <<extra, slots>>
             /\ Goto(e, "arrived")
             /\ UNCHANGED <<breakdown, lost, everyone>>

Sleep(e) == /\ gate[e] = "waiting" /\ ~(slots > 0 /\ IsTop(e))
            /\ Goto(e, "asleep")
            /\ UNCHANGED <<slots, extra, inLine, breakdown, lost, everyone>>

SpuriousWake(e) == /\ gate[e] = "asleep"
                   /\ Goto(e, "waiting")
                   /\ UNCHANGED <<slots, extra, inLine, breakdown, lost, everyone>>

Enter(e) == /\ gate[e] = "waiting" /\ slots > 0 /\ IsTop(e)
            /\ slots' = slots - 1
            /\ inLine' = inLine \ {e}
            /\ Goto(e, "entered")
            /\ UNCHANGED <<extra, breakdown, lost, everyone>>

Release(e) == /\ gate[e] = "passing"
              /\ slots' = slots + 1
              /\ Goto(e, "released")
              /\ UNCHANGED <<extra, inLine, breakdown, lost, everyone>>

\* Where an employee goes on after each of its three notifications.
AfterNotify == [arrived |-> "waiting", entered |-> "passing", released |-> "inside"]

\* Mutated form: the employee that enters does not notify the next one.
MutNotify(e) == /\ gate[e] \in DOMAIN AfterNotify
                /\ gate' = IF gate[e] = "entered" THEN [gate EXCEPT ![e] = "passing"]
                           ELSE [AllWoken(gate) EXCEPT ![e] = AfterNotify[gate[e]]]
                /\ UNCHANGED <<slots, extra, inLine, breakdown, lost, everyone>>

Notify(e) == /\ gate[e] \in DOMAIN AfterNotify
             /\ gate' = [AllWoken(gate) EXCEPT ![e] = AfterNotify[gate[e]]]
             /\ UNCHANGED <<slots, extra, inLine, breakdown, lost, everyone>>

\* simulate_breakdown: it takes a free slot away, and none when all are in use.
Break == /\ breakdown = "pending"
         /\ IF slots > 0 THEN slots' = slots - 1 /\ lost' = 1 ELSE UNCHANGED <<slots, lost>>
         /\ breakdown' = "broken"
         /\ UNCHANGED <<extra, inLine, gate, everyone>>

NotifyBroken == /\ breakdown = "broken"
                /\ gate' = AllWoken(gate)
                /\ breakdown' = "over"
                /\ UNCHANGED <<slots, extra, inLine, lost, everyone>>

JoinEveryone == /\ ~everyone /\ breakdown = "over"
                /\ \A e \in Employee : gate[e] = "inside"
                /\ everyone' = TRUE
                /\ UNCHANGED <<slots, extra, inLine, gate, breakdown, lost>>

EmployeeStep(e) == Arrive(e) \/ Sleep(e) \/ Enter(e) \/ Release(e) \/ Notify(e)
Other == Break \/ NotifyBroken \/ JoinEveryone

Next == Other \/ \E e \in Employee : EmployeeStep(e) \/ SpuriousWake(e)

Fairness == WF_gateVars(Other) /\ \A e \in Employee : WF_gateVars(EmployeeStep(e))

Spec == Init /\ [][Next]_gateVars /\ Fairness
----------------------------------------------------------------------------
At(labels) == {e \in Employee : gate[e] \in labels}

\* Slots and employees agree: who has a slot is between the two changes of the
\* count, who is in the queue has arrived and not entered.
SlotsConserved ==
  /\ slots + Cardinality(At({"entered", "passing"})) + lost = Initial + extra
  /\ inLine = At({"arrived", "waiting", "asleep"})

\* The next employee does not sleep beside a free slot, unless somebody is about
\* to notify: that is why everybody notifies, the one who enters too.
NextNotSleptOver ==
  slots > 0 /\ (\E e \in At({"asleep"}) : IsTop(e)) =>
    At(DOMAIN AfterNotify) # {} \/ breakdown = "broken"
=============================================================================
