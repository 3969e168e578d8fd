--------------------------- MODULE ProductionLine ---------------------------
(***************************************************************************)
(* Laba2/task2/main.cpp: machines take orders from a priority queue.  A machine *)
(* that holds an order gives it back when an urgent one has come or when it     *)
(* breaks down, which it notices between seconds.  Its waits for orders are     *)
(* timed, so no notification is ever needed and none is modelled; flags only    *)
(* go up, so a flag's test and the critical section it leads to are one step.   *)
(***************************************************************************)
EXTENDS Naturals, FiniteSets, Sequences

CONSTANTS Priority, Duration,  \* of the orders, in the order main adds them
          LineMachines,        \* NUM_MACHINES
          Broken, BreaksAfter  \* the machine that fails and the order after which

Order == DOMAIN Priority
LineMachine == 1..LineMachines
Urgent == 1
NoOrder == 0

LineAssumption == /\ Priority \in Seq(Nat) /\ Duration \in [Order -> Nat]
                  /\ LineMachines \in Nat \ {0}
                  /\ Broken \in LineMachine /\ BreaksAfter \in Order

VARIABLES orderQueue, machineDown, allOrdersAdded, doneOrders,
          at,       \* at[m]: where machine m is
          order,    \* order[m]: the order m has taken
          second,   \* second[m]: the seconds it has worked on it
          added,    \* the orders main has added
          manager,  \* where main is
          completed \* the orders that are done

lineVars == <<orderQueue, machineDown, allOrdersAdded, doneOrders, at, order, second,
              added, manager, completed>>

Init == /\ orderQueue = {} /\ machineDown = {} /\ allOrdersAdded = FALSE
        /\ doneOrders = 0 /\ completed = {}
        /\ at = [m \in LineMachine |-> "start"]
        /\ order = [m \in LineMachine |-> NoOrder]
        /\ second = [m \in LineMachine |-> 0]
        /\ added = 0 /\ manager = "add"
----------------------------------------------------------------------------
\* operator<: the orders that may be on top of the queue.
Top == {o \in orderQueue : \A p \in orderQueue : Priority[o] <= Priority[p]}

Goto(m, label) == at' = [at EXCEPT ![m] = label]
mainVars == <<machineDown, allOrdersAdded, added, manager>>

StopIfDown(m) == /\ at[m] = "start"
                 /\ Goto(m, IF m \in machineDown THEN "stopped" ELSE "fetch")
                 /\ UNCHANGED <<orderQueue, doneOrders, order, second, completed, mainVars>>

\* The wait has ended by its timeout, or at once when all orders are added.
FindNone(m) == /\ at[m] = "fetch" /\ orderQueue = {}
               /\ Goto(m, IF allOrdersAdded /\ doneOrders >= Cardinality(Order)
                          THEN "stopped" ELSE "start")
               /\ UNCHANGED <<orderQueue, doneOrders, order, second, completed, mainVars>>

TakeTop(m) == /\ at[m] = "fetch"
              /\ \E o \in Top : /\ order' = [order EXCEPT ![m] = o]
                                /\ orderQueue' = orderQueue \ {o}
                                /\ Goto(m, IF Priority[o] > Urgent THEN "look" ELSE "check")
              /\ second' = [second EXCEPT ![m] = 0]
              /\ UNCHANGED <<doneOrders, completed, mainVars>>

UrgentPending == \E o \in Top : Priority[o] = Urgent

\* A second critical section: an urgent order may have come meanwhile.
LookForUrgent(m) == /\ at[m] = "look"
                    /\ Goto(m, IF UrgentPending THEN "give_back" ELSE "check")
                    /\ UNCHANGED <<orderQueue, doneOrders, order, second, completed, mainVars>>

\* Mutated form: the order is dropped.
MutGiveBack(m, label) == /\ order' = [order EXCEPT ![m] = NoOrder]
                         /\ Goto(m, label)
                         /\ UNCHANGED <<orderQueue, doneOrders, second, completed, mainVars>>

GiveBack(m, label) == /\ orderQueue' = orderQueue \cup {order[m]}
                      /\ order' = [order EXCEPT ![m] = NoOrder]
                      /\ Goto(m, label)
                      /\ UNCHANGED <<doneOrders, second, completed, mainVars>>

MakeWay(m) == at[m] = "give_back" /\ GiveBack(m, "start")

\* The machine finds itself down before it begins or before a further second.
Abandon(m) == /\ \/ at[m] = "check"
                 \/ at[m] = "work" /\ second[m] < Duration[order[m]]
              /\ m \in machineDown
              /\ GiveBack(m, "stopped")

Begin(m) == /\ at[m] = "check" /\ m \notin machineDown
            /\ Goto(m, "work")
            /\ UNCHANGED <<orderQueue, doneOrders, order, second, completed, mainVars>>

WorkASecond(m) == /\ at[m] = "work" /\ second[m] < Duration[order[m]]
                  /\ m \notin machineDown
                  /\ second' = [second EXCEPT ![m] = @ + 1]
                  /\ UNCHANGED <<orderQueue, doneOrders, at, order, completed, mainVars>>

Complete(m) == /\ at[m] = "work" /\ second[m] = Duration[order[m]]
               /\ doneOrders' = doneOrders + 1
               /\ completed' = completed \cup {order[m]}
               /\ order' = [order EXCEPT ![m] = NoOrder]
               /\ Goto(m, "start")
               /\ UNCHANGED <<orderQueue, second, mainVars>>

\* main adds the orders, lets a machine break down, and joins.
workVars == <<doneOrders, at, order, second, completed>>

Add == /\ manager = "add" /\ added < Cardinality(Order)
       /\ orderQueue' = orderQueue \cup {added + 1}
       /\ added' = added + 1
       /\ manager' = IF added' = BreaksAfter THEN "break" ELSE "add"
       /\ UNCHANGED <<machineDown, allOrdersAdded, workVars>>

BreakDown == /\ manager = "break"
             /\ machineDown' = {Broken}
             /\ manager' = "add"
             /\ UNCHANGED <<orderQueue, allOrdersAdded, added, workVars>>

AllAdded == /\ manager = "add" /\ added = Cardinality(Order)
            /\ allOrdersAdded' = TRUE
            /\ manager' = "join"
            /\ UNCHANGED <<orderQueue, machineDown, added, workVars>>

Report == /\ manager = "join" /\ \A m \in LineMachine : at[m] = "stopped"
          /\ manager' = "reported"
          /\ UNCHANGED <<orderQueue, machineDown, allOrdersAdded, added, workVars>>

ManagerStep == Add \/ BreakDown \/ AllAdded \/ Report
MachineStep(m) == \/ StopIfDown(m) \/ FindNone(m) \/ TakeTop(m) \/ LookForUrgent(m)
                  \/ MakeWay(m) \/ Abandon(m) \/ Begin(m) \/ WorkASecond(m) \/ Complete(m)

Next == ManagerStep \/ \E m \in LineMachine : MachineStep(m)

Fairness == WF_lineVars(ManagerStep) /\ \A m \in LineMachine : WF_lineVars(MachineStep(m))

Spec == Init /\ [][Next]_lineVars /\ Fairness
----------------------------------------------------------------------------
Holders(o) == {m \in LineMachine : order[m] = o}

\* An order main has added is in one place: in the queue, with one machine, or
\* done; a machine that has stopped has none; and main reports all of them done,
\* unless the machine that breaks down is the only one.
OrdersAccountedFor ==
  /\ orderQueue \cup completed \cup {o \in Order : Holders(o) # {}} = 1..added
  /\ orderQueue \cap completed = {}
  /\ \A o \in Order : /\ Cardinality(Holders(o)) <= 1
                      /\ Holders(o) # {} => o \notin orderQueue \cup completed
  /\ doneOrders = Cardinality(completed)
  /\ \A m \in LineMachine : at[m] = "stopped" => order[m] = NoOrder
  /\ manager = "reported" /\ LineMachines > 1 => completed = Order
=============================================================================
