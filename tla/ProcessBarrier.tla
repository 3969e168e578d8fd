--------------------------- MODULE ProcessBarrier ---------------------------
(***************************************************************************)
(* TaskBarrier/main.cpp: a parent forks Children processes that compute, meet *)
(* at a barrier built of a shared counter and two POSIX semaphores, store     *)
(* their results in shared memory, let go of what they hold and exit; the     *)
(* parent waits for all of them and adds the results up.                     *)
(*                                                                         *)
(* A critical section of sem_mutex is one step.  The posts on sem_barrier are *)
(* one step each.  fork may fail, which makes the parent return at once; a    *)
(* child may die (the parent looks at its status), at most MaxDeaths times.  *)
(***************************************************************************)
EXTENDS Naturals, FiniteSets, FiniteSetsExt

CONSTANTS Children,   \* NUM_CHILDREN
          MaxDeaths   \* bound of the model: children that die

Child == 0..(Children - 1)

BarrierAssumption == Children \in Nat \ {0} /\ MaxDeaths \in Nat

VARIABLES forked,        \* children 0..forked-1 have been forked
          parent,        \* where the parent is
          reaped,        \* children the parent has waited for
          pc,            \* pc[i]: where child i is
          cnt,           \* cnt[i]: the local of barrier_wait
          posts,         \* posts[i]: sem_post calls i has yet to make
          barrier_count, \* in shared memory
          results,       \* in shared memory
          sem_barrier,   \* the value of the semaphore
          total          \* what the parent prints

parentVars == <<forked, parent, reaped, total>>
sharedVars == <<barrier_count, results, sem_barrier>>
vars == <<parentVars, pc, cnt, posts, sharedVars>>

Init == /\ forked = 0
        /\ parent = "fork"
        /\ reaped = {}
        /\ pc = [i \in Child |-> "unborn"]
        /\ cnt = [i \in Child |-> 0]
        /\ posts = [i \in Child |-> 0]
        /\ barrier_count = 0
        /\ results = [i \in Child |-> 0]
        /\ sem_barrier = 0
        /\ total = 0
----------------------------------------------------------------------------
\* do_work: the sum of the squares up to 10 (i + 1).
DoWork(i) == MapThenSumSet(LAMBDA k : k * k, 1..((i + 1) * 10))

Goto(i, label) == pc' = [pc EXCEPT ![i] = label]

Fork == /\ parent = "fork" /\ forked < Children
        /\ forked' = forked + 1
        /\ Goto(forked, "work")
        /\ UNCHANGED <<parent, reaped, total, cnt, posts, sharedVars>>

\* fork fails: main returns and leaves the children it has.
ForkFails == /\ parent = "fork" /\ forked < Children
             /\ parent' = "failed"
             /\ UNCHANGED <<forked, reaped, total, pc, cnt, posts, sharedVars>>

\* barrier_wait: count the arrival under sem_mutex and remember the count,
Arrive(i) == /\ pc[i] = "work"
             /\ barrier_count' = barrier_count + 1
             /\ cnt' = [cnt EXCEPT ![i] = barrier_count + 1]
             /\ Goto(i, "arrived")
             /\ UNCHANGED <<parentVars, posts, results, sem_barrier>>

\* Mutated form: one arrival too few.
MutIsLast(i) == cnt[i] = Children - 1

IsLast(i) == cnt[i] = Children

Block(i) == /\ pc[i] = "arrived" /\ ~IsLast(i)
            /\ Goto(i, "sem_wait")
            /\ UNCHANGED <<parentVars, cnt, posts, sharedVars>>

\* the last one resets the counter under sem_mutex,
ResetCount(i) == /\ pc[i] = "arrived" /\ IsLast(i)
                 /\ barrier_count' = 0
                 /\ posts' = [posts EXCEPT ![i] = Children - 1]
                 /\ Goto(i, "sem_post")
                 /\ UNCHANGED <<parentVars, cnt, results, sem_barrier>>

\* posts the semaphore Children - 1 times and passes,
PostOne(i) == /\ pc[i] = "sem_post" /\ posts[i] > 0
              /\ sem_barrier' = sem_barrier + 1
              /\ posts' = [posts EXCEPT ![i] = posts[i] - 1]
              /\ UNCHANGED <<parentVars, pc, cnt, barrier_count, results>>

PassLast(i) == /\ pc[i] = "sem_post" /\ posts[i] = 0
               /\ Goto(i, "passed")
               /\ UNCHANGED <<parentVars, cnt, posts, sharedVars>>

\* Mutated form: the wait does not take the post.
MutPass(i) == /\ pc[i] = "sem_wait" /\ sem_barrier > 0
              /\ Goto(i, "passed")
              /\ UNCHANGED <<parentVars, cnt, posts, sharedVars>>

\* which lets the others pass.
Pass(i) == /\ pc[i] = "sem_wait" /\ sem_barrier > 0
           /\ sem_barrier' = sem_barrier - 1
           /\ Goto(i, "passed")
           /\ UNCHANGED <<parentVars, cnt, posts, barrier_count, results>>

\* The child stores its result in its own cell, without the mutex,
StoreResult(i) == /\ pc[i] = "passed"
                  /\ results' = [results EXCEPT ![i] = DoWork(i)]
                  /\ Goto(i, "stored")
                  /\ UNCHANGED <<parentVars, cnt, posts, barrier_count, sem_barrier>>

\* and exits when it has closed the semaphores and the memory.
Exit(i) == /\ pc[i] = "stored"
           /\ Goto(i, "exited")
           /\ UNCHANGED <<parentVars, cnt, posts, sharedVars>>

Dead == {i \in Child : pc[i] = "dead"}

Die(i) == /\ pc[i] \notin {"unborn", "exited", "dead"}
          /\ Cardinality(Dead) < MaxDeaths
          /\ Goto(i, "dead")
          /\ UNCHANGED <<parentVars, cnt, posts, sharedVars>>
----------------------------------------------------------------------------
StartWaiting == /\ parent = "fork" /\ forked = Children
                /\ parent' = "wait"
                /\ UNCHANGED <<forked, reaped, total, pc, cnt, posts, sharedVars>>

\* wait(): any child that has ended.
WaitFor(i) == /\ parent = "wait"
              /\ pc[i] \in {"exited", "dead"} /\ i \notin reaped
              /\ reaped' = reaped \cup {i}
              /\ UNCHANGED <<forked, parent, total, pc, cnt, posts, sharedVars>>

\* Mutated form: the parent waits for one child less.
MutAllEnded == Cardinality(reaped) >= Children - 1

AllEnded == Cardinality(reaped) = Children

\* All have ended: the parent adds up what is in shared memory and prints it.
AddUp == /\ parent = "wait" /\ AllEnded
         /\ parent' = "done"
         /\ total' = MapThenSumSet(LAMBDA i : results[i], Child)
         /\ UNCHANGED <<forked, reaped, pc, cnt, posts, sharedVars>>

ChildStep(i) == \/ Arrive(i) \/ Block(i) \/ ResetCount(i) \/ PostOne(i)
                \/ PassLast(i) \/ Pass(i) \/ StoreResult(i) \/ Exit(i)

ParentStep == \/ Fork \/ ForkFails \/ StartWaiting \/ AddUp
              \/ \E i \in Child : WaitFor(i)

Next == ParentStep \/ \E i \in Child : ChildStep(i) \/ Die(i)

Fairness == WF_vars(ParentStep) /\ \A i \in Child : WF_vars(ChildStep(i))

Spec == Init /\ [][Next]_vars /\ Fairness
----------------------------------------------------------------------------
At(labels) == {i \in Child : pc[i] \in labels}
Passed == At({"passed", "stored", "exited"})

\* What may be in the cell of child i: its result if it has exited, which a child that
\* died may have stored or not.
CellOf(i) == \/ pc[i] \in {"stored", "exited", "dead"} /\ results[i] = DoWork(i)
             \/ pc[i] \notin {"stored", "exited"} /\ results[i] = 0

\* Every variable has its type; a result is stored by its child, before it exits, and
\* the total by the parent, at the end.
TypeOK == /\ forked \in 0..Children
          /\ parent \in {"fork", "failed", "wait", "done"}
          /\ reaped \subseteq Child
          /\ pc \in [Child -> {"unborn", "work", "arrived", "sem_wait", "sem_post",
                               "passed", "stored", "exited", "dead"}]
          /\ cnt \in [Child -> 0..Children]
          /\ posts \in [Child -> 0..(Children - 1)]
          /\ barrier_count \in 0..Children
          /\ DOMAIN results = Child /\ \A i \in Child : CellOf(i)
          /\ sem_barrier \in 0..(Children - 1)
          /\ parent # "done" => total = 0

\* No child passes the barrier before every child has arrived at it.
NobodyPassesEarly ==
  Passed # {} => \A i \in Child : cnt[i] > 0

\* Exactly Children - 1 posts for Children - 1 waits: what has been posted and
\* not waited for, and what the last child has yet to post, is what the children
\* before the barrier will take.  So a barrier nobody died in is left as it was
\* found: counter and semaphore at 0.
PostsMatchWaits ==
  Dead = {} =>
    \A i \in Child : cnt[i] = Children /\ pc[i] # "arrived" =>
      /\ sem_barrier + posts[i]
           = Cardinality({j \in At({"arrived", "sem_wait"}) : cnt[j] < Children})
      /\ \A j \in Child \ {i} : posts[j] = 0
      /\ barrier_count = 0

\* The barrier's own state is consistent.
BarrierConsistent == TypeOK /\ PostsMatchWaits

\* The parent prints the total of all the children's work, unless a fork fails
\* or a child dies, after which the others may wait at the barrier for ever.
ParentPrintsTotal ==
  <>(\/ parent = "failed" \/ Dead # {}
     \/ parent = "done" /\ total = MapThenSumSet(DoWork, Child))
=============================================================================
