----------------------------- MODULE Semaphore -----------------------------
(***************************************************************************)
(* What a counting semaphore promises its callers, with nothing of how a  *)
(* call sleeps or is woken.  A thread asks (acquire or try_acquire_for), is *)
(* granted a permit or, for a timed call only and only when there is none,  *)
(* is refused; release(n) posts n permits.  CountingSemaphore implements    *)
(* this specification, and the modules of the programs that own a semaphore *)
(* rely on it: there an acquire is one step guarded by "a permit is left".  *)
(***************************************************************************)
EXTENDS Naturals

CONSTANTS Thread,          \* the threads that share the semaphore
          InitialPermits,  \* the constructor's argument
          MaxRelease,      \* largest n of a release(n)
          MaxCount         \* bound: releases that would exceed it are not made

VARIABLES count,   \* permits left
          call,    \* call[t]: the call t is in, "idle" when in none
          got      \* got[t]: what t's last completed call returned

vars == <<count, call, got>>

Init == /\ count = InitialPermits
        /\ call = [t \in Thread |-> "idle"]
        /\ got = [t \in Thread |-> TRUE]

Request(t, kind) == /\ call[t] = "idle"
                    /\ call' = [call EXCEPT ![t] = kind]
                    /\ UNCHANGED <<count, got>>

Return(t, answer) == /\ call' = [call EXCEPT ![t] = "idle"]
                     /\ got' = [got EXCEPT ![t] = answer]

Grant(t) == /\ call[t] \in {"acquire", "try"}
            /\ count > 0
            /\ count' = count - 1
            /\ Return(t, TRUE)

Refuse(t) == /\ call[t] = "try"
             /\ count = 0
             /\ Return(t, FALSE)
             /\ UNCHANGED count

Post(t, n) == /\ call[t] = "idle"
              /\ count + n <= MaxCount
              /\ count' = count + n
              /\ UNCHANGED <<call, got>>

Next == \E t \in Thread :
          \/ \E kind \in {"acquire", "try"} : Request(t, kind)
          \/ Grant(t)
          \/ Refuse(t)
          \/ \E n \in 1..MaxRelease : Post(t, n)

Safety == Init /\ [][Next]_vars

\* A permit that stays available reaches a thread that keeps asking, and a
\* timed call returns whatever the permits do.
Fairness == \A t \in Thread : /\ WF_vars(Grant(t))
                              /\ WF_vars(Grant(t) \/ Refuse(t))

Spec == Safety /\ Fairness
=============================================================================
