----------------------- MODULE CountingSemaphoreProofs -----------------------
(***************************************************************************)
(* Proofs about CountingSemaphore, for any set of threads and any bounds:    *)
(* its type invariant, the absence of lost wake-ups, and that it implements  *)
(* the safety part of Semaphore.                                             *)
(***************************************************************************)
EXTENDS CountingSemaphore, TLAPS

\* A wake-up leads back to a test of the predicate or changes nothing.
LEMMA WokenType ==
  ASSUME NEW t \in Thread, TypeOK
  PROVE  /\ Woken(t) \in PC \ Sleeping
         /\ Woken(t) = "notify" <=> pc[t] = "notify"
         /\ Woken(t) \in {"try", "last"} <=> pc[t] \in {"try", "trySleep", "last"}
         /\ Woken(t) = "acquire" <=> pc[t] \in {"acquire", "acquireSleep"}
  BY DEF Woken, TypeOK, PC, Testing, Sleeping

\* Every step keeps every variable of CountingSemaphore in its type.
LEMMA TypeInductive == TypeOK /\ [Next]_vars => TypeOK'
<1> SUFFICES ASSUME TypeOK, [Next]_vars PROVE TypeOK'
  OBVIOUS
<1> USE PermitsAssumption DEF TypeOK, PC, Testing, Sleeping
<1>1. ASSUME NEW t \in Thread, NEW kind \in {"acquire", "try"}, Call(t, kind)
      PROVE  TypeOK'
  BY <1>1 DEF Call
<1>2. ASSUME NEW t \in Thread, NEW n \in 1..MaxRelease, Release(t, n)
      PROVE  TypeOK'
  BY <1>2 DEF Release
<1>3. ASSUME NEW t \in Thread, Step(t) PROVE TypeOK'
  <2>1. CASE Take(t)
    BY <2>1 DEF Take, Return
  <2>2. CASE Sleep(t)
    BY <2>2 DEF Sleep
  <2>3. CASE GiveUp(t)
    BY <2>3 DEF GiveUp, Return
  <2> QED BY <1>3, <2>1, <2>2, <2>3 DEF Step
<1>4. ASSUME NEW t \in Thread, Expire(t) PROVE TypeOK'
  BY <1>4 DEF Expire
<1>5. ASSUME NEW t \in Thread, Timeout(t) PROVE TypeOK'
  BY <1>5 DEF Timeout, Woken
<1>6. ASSUME NEW t \in Thread, SpuriousWake(t) PROVE TypeOK'
  BY <1>6 DEF SpuriousWake, Woken, Asleep
<1>7. ASSUME NEW t \in Thread, NotifyAll(t) PROVE TypeOK'
  <2>1. pc' \in [Thread -> PC]
    BY <1>7, WokenType DEF NotifyAll
  <2>2. \A u \in late : pc'[u] \in {"try", "trySleep", "last"}
    BY <1>7, WokenType DEF NotifyAll
  <2> QED BY <1>7, <2>1, <2>2 DEF NotifyAll
<1>8. CASE UNCHANGED vars
  BY <1>8 DEF vars
<1> QED
  BY <1>1, <1>2, <1>3, <1>4, <1>5, <1>6, <1>7, <1>8 DEF Next

\* TypeOK holds in every reachable state: count_ stays within 0..MaxCount
\* whatever the threads call and however they are woken.
THEOREM TypeCorrect == Spec => []TypeOK
<1>1. Init => TypeOK
  BY PermitsAssumption DEF Init, TypeOK, PC
<1> QED
  BY <1>1, TypeInductive, PTL DEF Spec, Safety
------------------------------------------------------------------------------
\* No step loses a wake-up: a thread goes to sleep only when no permit is left,
\* a release that adds permits owes a notify_all, and a notify_all leaves nobody
\* asleep.
LEMMA WakeupInductive ==
  TypeOK /\ NoLostWakeup /\ [Next]_vars => NoLostWakeup'
<1> SUFFICES ASSUME TypeOK, NoLostWakeup, [Next]_vars PROVE NoLostWakeup'
  OBVIOUS
<1> DEFINE Owed == \E u \in Thread : pc[u] = "notify"
<1> USE DEF TypeOK, PC, Testing, Sleeping
<1>1. ASSUME NEW t \in Thread, NEW kind \in {"acquire", "try"}, Call(t, kind)
      PROVE  NoLostWakeup'
  BY <1>1 DEF Call, NoLostWakeup, Asleep
<1>2. ASSUME NEW t \in Thread, NEW n \in 1..MaxRelease, Release(t, n)
      PROVE  NoLostWakeup'
  BY <1>2 DEF Release, NoLostWakeup
<1>3. ASSUME NEW t \in Thread, Step(t) PROVE NoLostWakeup'
  <2>1. CASE Take(t)
    <3>1. /\ count > 0
          /\ Asleep' \subseteq Asleep
          /\ \A u \in Thread : pc[u] = "notify" => pc'[u] = "notify"
      BY <2>1 DEF Take, Return, Asleep
    <3> QED BY <3>1 DEF NoLostWakeup
  <2>2. CASE Sleep(t)
    BY <2>2 DEF Sleep, NoLostWakeup
  <2>3. CASE GiveUp(t)
    BY <2>3 DEF GiveUp, Return, NoLostWakeup
  <2> QED BY <1>3, <2>1, <2>2, <2>3 DEF Step
<1>4. ASSUME NEW t \in Thread, Expire(t) PROVE NoLostWakeup'
  BY <1>4 DEF Expire, NoLostWakeup, Asleep
<1>5. ASSUME NEW t \in Thread, Timeout(t) \/ SpuriousWake(t) PROVE NoLostWakeup'
  <2>1. /\ count' = count
        /\ Asleep' \subseteq Asleep
        /\ \A u \in Thread : pc[u] = "notify" => pc'[u] = "notify"
    BY <1>5, WokenType DEF Timeout, SpuriousWake, Asleep
  <2> QED BY <2>1 DEF NoLostWakeup
<1>6. ASSUME NEW t \in Thread, NotifyAll(t) PROVE NoLostWakeup'
  <2>1. Asleep' = {}
    BY <1>6, WokenType DEF NotifyAll, Asleep
  <2> QED BY <2>1 DEF NoLostWakeup
<1>7. CASE UNCHANGED vars
  BY <1>7 DEF vars, NoLostWakeup, Asleep
<1> QED
  BY <1>1, <1>2, <1>3, <1>4, <1>5, <1>6, <1>7 DEF Next

\* The semaphore never loses a wake-up, although release notifies after it has
\* left the mutex.
THEOREM NoWakeupIsLost == Spec => []NoLostWakeup
<1>1. Init => NoLostWakeup
  BY DEF Init, NoLostWakeup, Asleep, Sleeping
<1> QED
  BY <1>1, TypeCorrect, WakeupInductive, PTL DEF Spec, Safety
------------------------------------------------------------------------------
\* What a caller sees of a thread that a wake-up has moved: nothing.
LEMMA WakeIsInvisible ==
  ASSUME TypeOK, NEW woken \in SUBSET Thread,
         pc' = [u \in Thread |-> IF u \in woken THEN Woken(u) ELSE pc[u]]
  PROVE  PublicCall' = PublicCall
<1>1. ASSUME NEW u \in Thread
      PROVE  /\ pc'[u] \in {"acquire", "acquireSleep"} <=> pc[u] \in {"acquire", "acquireSleep"}
             /\ pc'[u] \in {"try", "trySleep", "last"} <=> pc[u] \in {"try", "trySleep", "last"}
  BY WokenType DEF TypeOK, PC, Testing, Sleeping
<1> QED BY <1>1 DEF PublicCall

\* Every step of the class is a step of Semaphore or changes nothing that a
\* caller can see: the class implements the safety part of its abstract
\* specification.
THEOREM ImplementsSafety == Spec => Abstract!Safety
<1>1. Init => Abstract!Init
  BY DEF Init, Abstract!Init, PublicCall
<1>2. TypeOK /\ [Next]_vars => [Abstract!Next]_Abstract!vars
  <2> SUFFICES ASSUME TypeOK, [Next]_vars
               PROVE  Abstract!Next \/ UNCHANGED Abstract!vars
    OBVIOUS
  <2> USE DEF Abstract!vars
  <2>1. ASSUME NEW t \in Thread, NEW kind \in {"acquire", "try"}, Call(t, kind)
        PROVE  Abstract!Next
    <3>1. Abstract!Request(t, kind)
      BY <2>1 DEF Call, Abstract!Request, PublicCall, TypeOK
    <3> QED BY <3>1 DEF Abstract!Next
  <2>2. ASSUME NEW t \in Thread, NEW n \in 1..MaxRelease, Release(t, n)
        PROVE  Abstract!Next
    <3>1. PublicCall' = PublicCall
      BY <2>2 DEF Release, PublicCall, TypeOK
    <3>2. Abstract!Post(t, n)
      BY <2>2, <3>1 DEF Release, Abstract!Post, PublicCall
    <3> QED BY <3>2 DEF Abstract!Next
  <2>3. ASSUME NEW t \in Thread, Step(t)
        PROVE  Abstract!Next \/ UNCHANGED Abstract!vars
    <3>1. CASE Take(t)
      <4>1. Abstract!Return(t, TRUE)
        BY <3>1 DEF Take, Return, Abstract!Return, PublicCall, TypeOK, Testing
      <4>2. Abstract!Grant(t)
        BY <3>1, <4>1 DEF Take, Abstract!Grant, PublicCall, Testing
      <4> QED BY <4>2 DEF Abstract!Next
    <3>2. CASE Sleep(t)
      BY <3>2 DEF Sleep, PublicCall, TypeOK
    <3>3. CASE GiveUp(t)
      <4>1. Abstract!Return(t, FALSE)
        BY <3>3 DEF GiveUp, Return, Abstract!Return, PublicCall, TypeOK
      <4>2. count = 0 /\ UNCHANGED count
        BY <3>3, PermitsAssumption DEF GiveUp, TypeOK
      <4>3. PublicCall[t] = "try"
        BY <3>3 DEF GiveUp, PublicCall
      <4>4. Abstract!Refuse(t)
        BY <4>1, <4>2, <4>3 DEF Abstract!Refuse
      <4> QED BY <4>4 DEF Abstract!Next
    <3> QED BY <2>3, <3>1, <3>2, <3>3 DEF Step
  <2>4. ASSUME NEW t \in Thread, Expire(t) PROVE UNCHANGED Abstract!vars
    BY <2>4 DEF Expire, PublicCall
  <2>5. ASSUME NEW t \in Thread, Timeout(t) \/ SpuriousWake(t)
        PROVE  UNCHANGED Abstract!vars
    <3>1. pc' = [u \in Thread |-> IF u \in {t} THEN Woken(u) ELSE pc[u]]
      BY <2>5 DEF Timeout, SpuriousWake, TypeOK
    <3> QED BY <2>5, <3>1, WakeIsInvisible DEF Timeout, SpuriousWake
  <2>6. ASSUME NEW t \in Thread, NotifyAll(t) PROVE UNCHANGED Abstract!vars
    <3>1. ASSUME NEW u \in Thread
          PROVE  /\ pc'[u] \in {"acquire", "acquireSleep"} <=> pc[u] \in {"acquire", "acquireSleep"}
                 /\ pc'[u] \in {"try", "trySleep", "last"} <=> pc[u] \in {"try", "trySleep", "last"}
      BY <2>6, WokenType DEF NotifyAll, TypeOK, PC, Testing, Sleeping
    <3> QED BY <2>6, <3>1 DEF NotifyAll, PublicCall
  <2>7. CASE UNCHANGED vars
    BY <2>7 DEF vars, PublicCall
  <2> QED
    BY <2>1, <2>2, <2>3, <2>4, <2>5, <2>6, <2>7 DEF Next
<1> QED
  BY <1>1, <1>2, TypeCorrect, PTL DEF Spec, Safety, Abstract!Safety
=============================================================================
