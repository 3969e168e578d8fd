----------------------------- MODULE MachineShop -----------------------------
(***************************************************************************)
(* RK1/task1.cpp: workers share a few machines, counted by free_machines       *)
(* under machines_mutex.  A worker that finds none free sleeps on the         *)
(* condition variable; one that ends its work wakes all that sleep, after it   *)
(* has left the mutex.  A critical section is one step.                     *)
(***************************************************************************)
EXTENDS Naturals, FiniteSets

CONSTANTS Machines, Workers  \* NUM_MACHINES, NUM_WORKERS

ShopAssumption == Machines \in Nat \ {0} /\ Workers \in Nat

ShopWorker == 1..Workers

VARIABLES free_machines,
          place,   \* place[w]: where worker w is
          joined   \* main has joined every worker

shopVars == <<free_machines, place, joined>>

At(labels) == {w \in ShopWorker : place[w] \in labels}

Init == /\ free_machines = Machines
        /\ place = [w \in ShopWorker |-> "try"]
        /\ joined = FALSE
----------------------------------------------------------------------------
Goto(w, label) == place' = [place EXCEPT ![w] = label]

\* The predicate fails under the mutex that guards the count: the worker sleeps.
Sleep(w) == /\ place[w] = "try" /\ free_machines = 0
            /\ Goto(w, "asleep")
            /\ UNCHANGED <<free_machines, joined>>

SpuriousWake(w) == /\ place[w] = "asleep"
                   /\ Goto(w, "try")
                   /\ UNCHANGED <<free_machines, joined>>

Take(w) == /\ place[w] = "try" /\ free_machines > 0
           /\ free_machines' = free_machines - 1
           /\ Goto(w, "working")
           /\ UNCHANGED joined

Free(w) == /\ place[w] = "working"
           /\ free_machines' = free_machines + 1
           /\ Goto(w, "notify")
           /\ UNCHANGED joined

\* Mutated form: the worker ends without notifying.
MutNotifyAll(w) == /\ place[w] = "notify"
                   /\ Goto(w, "ended")
                   /\ UNCHANGED <<free_machines, joined>>

NotifyAll(w) == /\ place[w] = "notify"
                /\ place' = [v \in ShopWorker |->
                              IF v = w THEN "ended"
                              ELSE IF place[v] = "asleep" THEN "try" ELSE place[v]]
                /\ UNCHANGED <<free_machines, joined>>

\* main joins the workers and says that all have ended.
Join == /\ ~joined /\ At({"ended"}) = ShopWorker
        /\ joined' = TRUE
        /\ UNCHANGED <<free_machines, place>>

Worker(w) == Sleep(w) \/ Take(w) \/ Free(w) \/ NotifyAll(w)

Next == Join \/ \E w \in ShopWorker : Worker(w) \/ SpuriousWake(w)

Fairness == WF_shopVars(Join) /\ \A w \in ShopWorker : WF_shopVars(Worker(w))

Spec == Init /\ [][Next]_shopVars /\ Fairness
----------------------------------------------------------------------------
\* Every machine is free or has one worker.
MachinesConserved == free_machines + Cardinality(At({"working"})) = Machines

\* Nobody sleeps beside a free machine, unless a worker is about to notify.
NobodySleptOver ==
  At({"asleep"}) # {} /\ free_machines > 0 => At({"notify"}) # {}
=============================================================================
