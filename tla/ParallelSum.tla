----------------------------- MODULE ParallelSum -----------------------------
(***************************************************************************)
(* Seminar4/task1.cpp and Seminar4/task6.cpp: the caller of compute_sum (of   *)
(* apply) splits the elements into one segment per detached thread and waits *)
(* on a condition variable until all threads have counted themselves.  The   *)
(* count is an atomic that no mutex protects.  task6 differs in that it       *)
(* changes the elements in place and adds up how many it has changed: here    *)
(* `handled' tells how often each element was read or changed.             *)
(***************************************************************************)
EXTENDS Naturals, FiniteSetsExt

CONSTANTS Size,     \* data.size(), or rows * cols
          NThreads  \* n_threads

SumAssumption == Size \in Nat /\ NThreads \in Nat \ {0}

Thread == 0..(NThreads - 1)
Index == 0..(Size - 1)
data(j) == j + 1    \* as main fills it

VARIABLES total_sum, completed_threads,
          handled,  \* handled[j]: how often a thread has handled element j
          started,  \* threads the caller has started
          worker,   \* worker[t]: where thread t is
          caller,   \* where the caller is
          result    \* what compute_sum returns

sumVars == <<total_sum, completed_threads, handled, started, worker, caller, result>>

Init == /\ total_sum = 0
        /\ completed_threads = 0
        /\ handled = [j \in Index |-> 0]
        /\ started = 0
        /\ worker = [t \in Thread |-> "new"]
        /\ caller = "start"
        /\ result = 0
----------------------------------------------------------------------------
segment_size == Size \div NThreads
remainder == Size % NThreads
SegmentStart(t) == t * segment_size + (IF t < remainder THEN t ELSE remainder)

\* Mutated form: the remainder goes to no segment.
MutSegmentEnd(t) == SegmentStart(t) + segment_size

SegmentEnd(t) == SegmentStart(t) + segment_size + (IF t < remainder THEN 1 ELSE 0)
Segment(t) == SegmentStart(t)..(SegmentEnd(t) - 1)

Goto(t, from, to) == /\ worker[t] = from
                     /\ worker' = [worker EXCEPT ![t] = to]

\* The caller holds sum_mutex from its test to its sleep.
MutexFree == caller # "doze"

\* The caller's loop starts one thread after the other.
StartThread == /\ caller = "start"
               /\ Goto(started, "new", "handle")
               /\ started' = started + 1
               /\ caller' = IF started' = NThreads THEN "test" ELSE "start"
               /\ UNCHANGED <<total_sum, completed_threads, handled, result>>

Handle(t) == /\ Goto(t, "handle", "add")
             /\ handled' = [j \in Index |-> handled[j] + (IF j \in Segment(t) THEN 1 ELSE 0)]
             /\ UNCHANGED <<total_sum, completed_threads, started, caller, result>>

Add(t) == /\ MutexFree
          /\ Goto(t, "add", "count")
          /\ total_sum' = total_sum + MapThenSumSet(data, Segment(t))
          /\ UNCHANGED <<completed_threads, handled, started, caller, result>>

\* Mutated form: off by one.
MutIsLast(completed) == completed = NThreads - 1

\* The thread that is the last to count itself notifies.
IsLast(completed) == completed = NThreads

CountDone(t) == /\ Goto(t, "count", IF IsLast(completed_threads + 1) THEN "notify" ELSE "ended")
                /\ completed_threads' = completed_threads + 1
                /\ UNCHANGED <<total_sum, handled, started, caller, result>>

NotifyOne(t) == /\ Goto(t, "notify", "ended")
                /\ caller' = IF caller = "asleep" THEN "test" ELSE caller
                /\ UNCHANGED <<total_sum, completed_threads, handled, started, result>>
----------------------------------------------------------------------------
\* The caller's wait: the test and the sleep are two steps under one lock.
CallerTo(from, to) == /\ caller = from
                      /\ caller' = to
                      /\ UNCHANGED <<total_sum, completed_threads, handled, started, worker>>

Doze == completed_threads # NThreads /\ CallerTo("test", "doze") /\ UNCHANGED result
FallAsleep == CallerTo("doze", "asleep") /\ UNCHANGED result
SpuriousWake == CallerTo("asleep", "test") /\ UNCHANGED result

Return == /\ completed_threads = NThreads
          /\ CallerTo("test", "returned")
          /\ result' = total_sum

CallerStep == StartThread \/ Doze \/ FallAsleep \/ Return
WorkerStep(t) == Handle(t) \/ Add(t) \/ CountDone(t) \/ NotifyOne(t)

Next == CallerStep \/ SpuriousWake \/ \E t \in Thread : WorkerStep(t)

\* The threads and the caller are scheduled, and a mutex that is free again and
\* again is granted in the end.
Fairness == WF_sumVars(CallerStep) /\ \A t \in Thread : SF_sumVars(WorkerStep(t))

Spec == Init /\ [][Next]_sumVars /\ Fairness
----------------------------------------------------------------------------
\* Every variable has its type.
TypeOK == /\ total_sum \in Nat /\ result \in Nat
          /\ completed_threads \in 0..NThreads
          /\ handled \in [Index -> Nat]
          /\ started \in 0..NThreads
          /\ worker \in [Thread -> {"new", "handle", "add", "count", "notify", "ended"}]
          /\ caller \in {"start", "test", "doze", "asleep", "returned"}

\* compute_sum returns the sum of all the elements, and each of them was handled
\* exactly once, whichever way the threads interleave and however Size and
\* NThreads divide: the count is a promise about sums added under another lock.
SumIsComplete ==
  caller = "returned" => /\ result = MapThenSumSet(data, Index)
                         /\ \A j \in Index : handled[j] = 1

\* What a caller sees of the whole class.
SumConsistent == TypeOK /\ SumIsComplete

\* compute_sum returns unless the last thread counts itself between the caller's
\* test and the caller's sleep.
ReturnsWithoutRace ==
  [](caller = "doze" => completed_threads < NThreads) => <>(caller = "returned")

\* compute_sum returns, as main expects when it prints the sum.
ComputeReturns == <>(caller = "returned")
=============================================================================
