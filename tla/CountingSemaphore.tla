------------------------- MODULE CountingSemaphore -------------------------
(***************************************************************************)
(* The class CountingSemaphore of Seminar5 (the copy of task1.cpp; task2 to  *)
(* task6 repeat it): a counter under a mutex and a condition variable.       *)
(*                                                                         *)
(* Every access to count_ is under mtx_, so a critical section is one step.  *)
(* What is kept is what the mutex does not cover: the sleep of wait and     *)
(* wait_for (which leaves the mutex and joins the sleepers in one step),     *)
(* wake-ups that come from notify_all, from nowhere or from the deadline,    *)
(* and the gap of release between the unlock and notify_all.                 *)
(***************************************************************************)
EXTENDS Naturals

CONSTANTS Thread,          \* threads that call the semaphore
          InitialPermits,  \* constructor argument
          MaxRelease,      \* release(n) is called with n in 1..MaxRelease
          MaxCount         \* bound of the model: no release beyond it

ASSUME PermitsAssumption == /\ InitialPermits \in Nat
                            /\ MaxCount \in Nat
                            /\ MaxRelease \in Nat
                            /\ InitialPermits <= MaxCount

VARIABLES count,  \* count_
          pc,     \* pc[t]: where t is in its call
          late,   \* threads in a timed call whose deadline has passed
          got     \* got[t]: what the last completed call of t returned

vars == <<count, pc, late, got>>

\* About to test the predicate with the mutex held / asleep on cv_ / release
\* has unlocked but not yet called notify_all.  "last" is the test that
\* wait_for makes after a timeout, whose value it returns.
Testing  == {"acquire", "try", "last"}
Sleeping == {"acquireSleep", "trySleep"}
PC == {"idle", "notify"} \cup Testing \cup Sleeping

Asleep == {t \in Thread : pc[t] \in Sleeping}

Init == /\ count = InitialPermits
        /\ pc = [t \in Thread |-> "idle"]
        /\ late = {}
        /\ got = [t \in Thread |-> TRUE]
----------------------------------------------------------------------------
\* Where a sleeper continues when it wakes: wait re-tests and may sleep again;
\* wait_until reports a timeout to every wake-up after the deadline.
Woken(t) == CASE pc[t] = "acquireSleep" -> "acquire"
              [] pc[t] = "trySleep" /\ t \notin late -> "try"
              [] pc[t] = "trySleep" /\ t \in late -> "last"
              [] OTHER -> pc[t]

Call(t, kind) == /\ pc[t] = "idle"
                 /\ pc' = [pc EXCEPT ![t] = kind]
                 /\ UNCHANGED <<count, late, got>>

Return(t, answer) == /\ pc' = [pc EXCEPT ![t] = "idle"]
                     /\ late' = late \ {t}
                     /\ got' = [got EXCEPT ![t] = answer]

\* Mutated form: the predicate is count_ >= 0.
MutTake(t) == /\ pc[t] \in Testing
              /\ count' = count - 1
              /\ Return(t, TRUE)

\* The predicate count_ > 0 holds: --count_ and return.
Take(t) == /\ pc[t] \in Testing
           /\ count > 0
           /\ count' = count - 1
           /\ Return(t, TRUE)

\* The predicate fails: the mutex is left and the thread sleeps.
Sleep(t) == /\ pc[t] \in {"acquire", "try"}
            /\ ~ count > 0
            /\ pc' = [pc EXCEPT ![t] = IF pc[t] = "try" THEN "trySleep"
                                                        ELSE "acquireSleep"]
            /\ UNCHANGED <<count, late, got>>

\* Mutated form: false is returned without the last test.
MutGiveUp(t) == /\ pc[t] = "last"
                /\ Return(t, FALSE)
                /\ UNCHANGED count

\* The predicate fails after the timeout: try_acquire_for returns false.
GiveUp(t) == /\ pc[t] = "last"
             /\ ~ count > 0
             /\ Return(t, FALSE)
             /\ UNCHANGED count

\* The deadline of a timed call passes.
Expire(t) == /\ pc[t] \in {"try", "trySleep"}
             /\ t \notin late
             /\ late' = late \cup {t}
             /\ UNCHANGED <<count, pc, got>>

\* A sleeper past its deadline wakes by itself.
Timeout(t) == /\ pc[t] = "trySleep"
              /\ t \in late
              /\ pc' = [pc EXCEPT ![t] = Woken(t)]
              /\ UNCHANGED <<count, late, got>>

\* A wake-up nobody caused.
SpuriousWake(t) == /\ t \in Asleep
                   /\ pc' = [pc EXCEPT ![t] = Woken(t)]
                   /\ UNCHANGED <<count, late, got>>

\* release(n): count_ += n under the mutex, then the mutex is left.
Release(t, n) == /\ pc[t] = "idle"
                 /\ count + n <= MaxCount
                 /\ count' = count + n
                 /\ pc' = [pc EXCEPT ![t] = "notify"]
                 /\ UNCHANGED <<late, got>>

\* Mutated form: notify_one, after a release of n permits.
MutNotifyAll(t) == /\ pc[t] = "notify"
                   /\ \E u \in Thread :
                        /\ Asleep # {} => u \in Asleep
                        /\ pc' = [pc EXCEPT ![u] = Woken(u), ![t] = "idle"]
                   /\ UNCHANGED <<count, late, got>>

\* cv_.notify_all(): every thread asleep now is woken.
NotifyAll(t) == /\ pc[t] = "notify"
                /\ pc' = [u \in Thread |-> IF u = t THEN "idle" ELSE Woken(u)]
                /\ UNCHANGED <<count, late, got>>

Step(t) == Take(t) \/ Sleep(t) \/ GiveUp(t)

Next == \E t \in Thread :
          \/ \E kind \in {"acquire", "try"} : Call(t, kind)
          \/ \E n \in 1..MaxRelease : Release(t, n)
          \/ Step(t)
          \/ Expire(t)
          \/ Timeout(t)
          \/ SpuriousWake(t)
          \/ NotifyAll(t)

\* A thread inside a call is scheduled and gets the mutex in the end; time
\* passes.  Nothing obliges a thread to call.
Fairness == \A t \in Thread : /\ WF_vars(Step(t))
                              /\ WF_vars(NotifyAll(t))
                              /\ WF_vars(Expire(t))
                              /\ WF_vars(Timeout(t))

Safety == Init /\ [][Next]_vars
Spec == Safety /\ Fairness
----------------------------------------------------------------------------
\* Every variable has its type; in particular count_ never goes negative, and
\* only a thread inside a timed call has a deadline that has passed.
TypeOK == /\ count \in 0..MaxCount
          /\ pc \in [Thread -> PC]
          /\ late \subseteq {t \in Thread : pc[t] \in {"try", "trySleep", "last"}}
          /\ got \in [Thread -> BOOLEAN]

\* No lost wake-up: a thread sleeps while a permit is available only as long as
\* some release is between its unlock and its notify_all.
NoLostWakeup == count > 0 /\ Asleep # {} => \E t \in Thread : pc[t] = "notify"

\* The class keeps the promise of Semaphore: a timed call is refused only when
\* no permit is left at its last test, a permit is never granted twice, a
\* permit that stays available reaches whoever asks, a timed call returns.
PublicCall == [t \in Thread |->
                 IF pc[t] \in {"acquire", "acquireSleep"} THEN "acquire"
                 ELSE IF pc[t] \in {"try", "trySleep", "last"} THEN "try"
                 ELSE "idle"]

Abstract == INSTANCE Semaphore WITH call <- PublicCall

Implements == Abstract!Spec
=============================================================================
