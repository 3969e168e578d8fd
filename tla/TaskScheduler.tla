--------------------------- MODULE TaskScheduler ---------------------------
(***************************************************************************)
(* Seminar5/task5.cpp: worker threads take the most urgent task of a queue   *)
(* and, before they run it, acquire the slots it needs from a counting       *)
(* semaphore, ONE AT A TIME.  main submits the tasks and then stops the      *)
(* scheduler.                                                              *)
(*                                                                         *)
(* The semaphore is used as Semaphore promises it: an acquire is one step,    *)
(* enabled while a slot is free.  The queue's condition variable is modelled *)
(* with its sleepers, because submit notifies one worker after it has left   *)
(* the mutex and stop() sets its flag without taking the mutex at all, so    *)
(* that the flag can change between a worker's test and its sleep.           *)
(***************************************************************************)
EXTENDS Naturals, FiniteSets

CONSTANTS Worker,       \* worker threads
          TotalSlots,   \* permits of resource_semaphore_
          MaxRequired,  \* a task needs 1..MaxRequired slots
          Priority,     \* the priorities main draws from
          TaskCount     \* main submits tasks 1..TaskCount

SchedulerAssumption == /\ IsFiniteSet(Worker) /\ Worker # {}
                       /\ TotalSlots \in Nat
                       /\ MaxRequired \in Nat \ {0}
                       /\ Priority \subseteq Nat
                       /\ TaskCount \in Nat

VARIABLES queue,     \* queue_: the tasks nobody has taken
          submitted, \* how many tasks main has submitted
          main,      \* where main is
          stop,      \* stop_
          pc,        \* pc[w]: where worker w is
          task,      \* task[w]: the task w has taken, NoTask when none
          held,      \* held[w]: slots w has acquired for it
          slots,     \* permits left in resource_semaphore_
          completed  \* completed_tasks_

mainVars == <<submitted, main, stop>>
taskVars == <<task, held, slots, completed>>
vars == <<queue, mainVars, pc, taskVars>>

Task == [id : 1..TaskCount, required_slots : 1..MaxRequired, priority : Priority]
NoTask == [id |-> 0, required_slots |-> 0, priority |-> 0]

Init == /\ queue = {}
        /\ submitted = 0
        /\ main = "submit"
        /\ stop = FALSE
        /\ pc = [w \in Worker |-> "loop"]
        /\ task = [w \in Worker |-> NoTask]
        /\ held = [w \in Worker |-> 0]
        /\ slots = TotalSlots
        /\ completed = 0
----------------------------------------------------------------------------
\* TaskCmp: higher priority first, then the smaller id.
Before(a, b) == \/ a.priority > b.priority
                \/ a.priority = b.priority /\ a.id < b.id

Top(q) == CHOOSE k \in q : \A other \in q \ {k} : Before(k, other)

\* A worker in "doze" has seen the predicate fail and still holds queue_mutex_.
MutexFree == \A w \in Worker : pc[w] # "doze"
Asleep == {w \in Worker : pc[w] = "asleep"}

Goto(w, label) == pc' = [pc EXCEPT ![w] = label]

\* submit, up to the unlock: main draws the task's needs and pushes it.
Submit(n, p) ==
  /\ main = "submit" /\ submitted < TaskCount
  /\ MutexFree
  /\ submitted' = submitted + 1
  /\ queue' = queue \cup
       {[id |-> submitted + 1, required_slots |-> n, priority |-> p]}
  /\ main' = "notify"
  /\ UNCHANGED <<stop, pc, taskVars>>

\* Mutated form: submit without its notify_one.
MutNotifyOne == /\ main = "notify"
                /\ main' = "submit"
                /\ UNCHANGED <<queue, submitted, stop, pc, taskVars>>

\* cv_.notify_one(): one sleeper, if there is one, goes back to its test.
NotifyOne == /\ main = "notify"
             /\ main' = "submit"
             /\ \/ Asleep = {} /\ UNCHANGED pc
                \/ \E w \in Asleep : Goto(w, "wait")
             /\ UNCHANGED <<queue, submitted, stop, taskVars>>

\* stop(): the flag is stored without the mutex, then every sleeper is woken.
StoreStop == /\ main = "submit" /\ submitted = TaskCount
             /\ main' = "stopping"
             /\ stop' = TRUE
             /\ UNCHANGED <<queue, submitted, pc, taskVars>>

StopNotify == /\ main = "stopping"
              /\ main' = "done"
              /\ pc' = [w \in Worker |-> IF w \in Asleep THEN "wait" ELSE pc[w]]
              /\ UNCHANGED <<queue, submitted, stop, taskVars>>
----------------------------------------------------------------------------
\* while (!stop_.load())
CheckStop(w) == /\ pc[w] = "loop"
                /\ Goto(w, IF stop THEN "returned" ELSE "wait")
                /\ UNCHANGED <<queue, mainVars, taskVars>>

\* The wait on cv_: its predicate fails (the mutex is not left yet), the
\* mutex is left and the worker sleeps (one step), or it wakes without cause.
Doze(w) == /\ pc[w] = "wait" /\ MutexFree
           /\ ~stop /\ queue = {}
           /\ Goto(w, "doze")
           /\ UNCHANGED <<queue, mainVars, taskVars>>

FallAsleep(w) == /\ pc[w] = "doze"
                 /\ Goto(w, "asleep")
                 /\ UNCHANGED <<queue, mainVars, taskVars>>

SpuriousWake(w) == /\ pc[w] = "asleep"
                   /\ Goto(w, "wait")
                   /\ UNCHANGED <<queue, mainVars, taskVars>>

QuitInWait(w) == /\ pc[w] = "wait" /\ MutexFree
                 /\ stop
                 /\ Goto(w, "returned")
                 /\ UNCHANGED <<queue, mainVars, taskVars>>

\* top() and pop() under the mutex.
TakeTask(w) == /\ pc[w] = "wait" /\ MutexFree
               /\ ~stop /\ queue # {}
               /\ task' = [task EXCEPT ![w] = Top(queue)]
               /\ queue' = queue \ {Top(queue)}
               /\ Goto(w, "slots")
               /\ UNCHANGED <<mainVars, held, slots, completed>>

\* One round of the loop of acquire_slots, which keeps what it has while it
\* waits for the next slot.
AcquireSlot(w) ==
  /\ pc[w] = "slots"
  /\ slots > 0
  /\ slots' = slots - 1
  /\ held' = [held EXCEPT ![w] = held[w] + 1]
  /\ Goto(w, IF held'[w] = task[w].required_slots THEN "execute" ELSE "slots")
  /\ UNCHANGED <<queue, mainVars, task, completed>>

\* The task has run: resource_semaphore_.release(n).
Release(w, n) == /\ pc[w] = "execute"
                 /\ slots' = slots + n
                 /\ held' = [held EXCEPT ![w] = 0]
                 /\ Goto(w, "count")
                 /\ UNCHANGED <<queue, mainVars, task, completed>>

\* Mutated form: the default n of release.
MutReleaseSlots(w) == Release(w, 1)

ReleaseSlots(w) == Release(w, task[w].required_slots)

CountCompleted(w) == /\ pc[w] = "count"
                     /\ completed' = completed + 1
                     /\ task' = [task EXCEPT ![w] = NoTask]
                     /\ Goto(w, "loop")
                     /\ UNCHANGED <<queue, mainVars, held, slots>>

WorkerStep(w) == \/ CheckStop(w) \/ Doze(w) \/ FallAsleep(w) \/ QuitInWait(w)
                 \/ TakeTask(w) \/ AcquireSlot(w) \/ ReleaseSlots(w)
                 \/ CountCompleted(w)

Submitting == \/ \E n \in 1..MaxRequired, p \in Priority : Submit(n, p)
              \/ NotifyOne

Next == \/ Submitting \/ StoreStop \/ StopNotify
        \/ \E w \in Worker : WorkerStep(w) \/ SpuriousWake(w)

\* Threads are scheduled and Semaphore's promise is kept (weak fairness of an
\* acquire).  Nothing obliges main to stop: its pause may last for ever.
Fairness == /\ WF_vars(Submitting) /\ WF_vars(StopNotify)
            /\ \A w \in Worker : WF_vars(WorkerStep(w))

Spec == Init /\ [][Next]_vars /\ Fairness
----------------------------------------------------------------------------
Busy == {w \in Worker : task[w] # NoTask}

\* Every variable has its type, and the slots a worker holds never exceed what
\* its task needs.
TypeOK == /\ queue \subseteq Task
          /\ submitted \in 0..TaskCount
          /\ main \in {"submit", "notify", "stopping", "done"}
          /\ stop \in BOOLEAN
          /\ pc \in [Worker -> {"loop", "wait", "doze", "asleep", "slots",
                                "execute", "count", "returned"}]
          /\ task \in [Worker -> Task \cup {NoTask}]
          /\ \A w \in Worker : held[w] \in 0..task[w].required_slots
          /\ slots \in 0..TotalSlots
          /\ completed \in 0..TaskCount

\* Slots are conserved: those the semaphore has and those the workers hold (the
\* first, the second, ... of each) are all the slots, however the partial
\* acquisitions interleave.
HeldSlots == {p \in Worker \X (1..MaxRequired) : p[2] <= held[p[1]]}
SlotsConserved == slots + Cardinality(HeldSlots) = TotalSlots

\* Every submitted task is in exactly one place: in the queue, with one worker,
\* or counted as completed.
TasksAccountedFor ==
  /\ submitted = Cardinality(queue) + Cardinality(Busy) + completed
  /\ \A w \in Busy : /\ task[w] \notin queue
                     /\ \A other \in Busy \ {w} : task[other].id # task[w].id

\* Slots, tasks and workers agree in every state.
SchedulerConsistent == TypeOK /\ SlotsConserved /\ TasksAccountedFor

\* A worker does not sleep beside work that nobody is about to take: for every
\* queued task a worker is on its way to the queue or main still owes a
\* notify_one.
Coming == {w \in Worker : pc[w] \in {"loop", "wait"}}
NoWorkSleptOver ==
  ~stop /\ Asleep # {} =>
    Cardinality(queue) <= Cardinality(Coming) + (IF main = "notify" THEN 1 ELSE 0)

\* What main relies on when it prints completed_tasks() after its pause: every
\* task it has submitted is completed unless the scheduler is stopped first.
TasksComplete == \A n \in 1..TaskCount :
                   (submitted = n) ~> (completed >= n \/ stop)

\* Acquiring slots one at a time cannot deadlock when the workers cannot all
\* hold one slot less than they need and leave none.  (main's own 6 slots, 3
\* workers and tasks of up to 3 slots fail this condition.)
EnoughSlots == TotalSlots > Cardinality(Worker) * (MaxRequired - 1)
TasksCompleteIfEnoughSlots == EnoughSlots => TasksComplete
=============================================================================
