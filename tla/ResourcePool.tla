---------------------------- MODULE ResourcePool ----------------------------
(***************************************************************************)
(* Seminar5/task1.cpp: a pool of resources guarded by a counting semaphore,  *)
(* whose waiters take turns by priority.  A user registers as a waiter,      *)
(* waits until no waiter has a higher priority, waits for a permit (timed    *)
(* once, then without limit), and only then takes a resource and leaves the  *)
(* waiters.  The turn is tested before the wait for the permit and not after *)
(* it.  An owner adds resources to the pool and removes them from it.        *)
(*                                                                         *)
(* What mtx_ protects is one step; the semaphore is used as Semaphore        *)
(* promises.  Left out: the statistic failed_attempts_.                      *)
(***************************************************************************)
EXTENDS Naturals, Sequences, SequencesExt, FiniteSets

CONSTANTS User,       \* the worker threads of main
          Owner,      \* threads that call add_resource and remove_resource_for
          Priority,   \* Priority[t]: the priority user t acquires with
          Initial,    \* the resources the pool is built with, a sequence
          Owned,      \* Owned[t]: the resource owner t has at first, or NoResource
          NoResource

Thread == User \cup Owner
Resource == (Range(Initial) \cup Range(Owned)) \ {NoResource}

\* Threads are finitely many, and every resource is with one of them or in the
\* pool, once.
ASSUME PoolAssumption ==
  /\ IsFiniteSet(User) /\ IsFiniteSet(Owner) /\ User \cap Owner = {}
  /\ Priority \in [User -> Nat]
  /\ Initial \in Seq(Range(Initial)) /\ IsInjective(Initial)
  /\ NoResource \notin Range(Initial)
  /\ Owned \in [Owner -> Range(Owned)]
  /\ \A o \in Owner : Owned[o] # NoResource =>
       /\ Owned[o] \notin Range(Initial)
       /\ \A other \in Owner \ {o} : Owned[other] # Owned[o]

VARIABLES resources, \* resources_
          semaphore, \* permits left in semaphore_
          waiters,   \* waiters_: users registered and not served
          counted,   \* users whose timed attempt has failed (counted_failure)
          holding,   \* holding[t]: the resource t has out of the pool
          pc,        \* pc[t]: where t is
          stop       \* main's stop flag

poolVars == <<resources, semaphore, waiters, holding>>
vars == <<poolVars, counted, pc, stop>>

Init == /\ resources = Initial
        /\ semaphore = Len(Initial)
        /\ waiters = {}
        /\ counted = {}
        /\ holding = [t \in Thread |-> IF t \in Owner THEN Owned[t] ELSE NoResource]
        /\ pc = [t \in Thread |-> "idle"]
        /\ stop = FALSE
----------------------------------------------------------------------------
Goto(t, label) == pc' = [pc EXCEPT ![t] = label]

Move(t, from, to) == /\ pc[t] = from
                     /\ Goto(t, to)
                     /\ UNCHANGED <<poolVars, counted, stop>>

\* is_my_turn_nolock: waiters of equal priority all have the turn.
IsMyTurn(t) == t \in waiters /\ \A w \in waiters : Priority[w] <= Priority[t]

\* The worker loop, and acquire: the user registers.
Register(t) == /\ t \in User /\ pc[t] = "idle" /\ ~stop
               /\ waiters' = waiters \cup {t}
               /\ counted' = counted \ {t}
               /\ Goto(t, "turn")
               /\ UNCHANGED <<resources, semaphore, holding, stop>>

\* The wait for the turn on cv_.
SleepForTurn(t) == ~IsMyTurn(t) /\ Move(t, "turn", "asleep")
SpuriousWake(t) == Move(t, "asleep", "turn")

\* With the turn: a timed attempt if none has failed and the deadline has not
\* passed, otherwise an attempt without limit.
TryPermit(t) == IsMyTurn(t) /\ t \notin counted /\ Move(t, "turn", "try")
DemandPermit(t) == IsMyTurn(t) /\ Move(t, "turn", "acquire")

\* semaphore_.try_acquire_for or acquire returns with a permit, or the former
\* without one.
GrantPermit(t, froms, to) == /\ pc[t] \in froms
                             /\ semaphore > 0
                             /\ semaphore' = semaphore - 1
                             /\ Goto(t, to)
                             /\ UNCHANGED <<resources, waiters, holding, counted, stop>>

UserGranted(t) == GrantPermit(t, {"try", "acquire"}, "take")

AttemptFails(t) == /\ pc[t] = "try"
                   /\ semaphore = 0
                   /\ counted' = counted \cup {t}
                   /\ Goto(t, "turn")
                   /\ UNCHANGED <<poolVars, stop>>

\* Mutated form: the waiter is not erased.
MutTake(t) == /\ pc[t] = "take"
              /\ holding' = [holding EXCEPT ![t] = Last(resources)]
              /\ resources' = Front(resources)
              /\ Goto(t, "notify")
              /\ UNCHANGED <<semaphore, waiters, counted, stop>>

\* The last resource is taken and the user leaves the waiters.
Take(t) == /\ pc[t] = "take"
           /\ holding' = [holding EXCEPT ![t] = Last(resources)]
           /\ resources' = Front(resources)
           /\ waiters' = waiters \ {t}
           /\ Goto(t, "notify")
           /\ UNCHANGED <<semaphore, counted, stop>>

\* Mutated form: acquire does not notify.
MutNotify(t) == \/ Move(t, "notify", "using")
                \/ Move(t, "notifyReturned", "idle")

\* cv_.notify_all(), at the end of acquire and at the end of release.
WakeAll(t, label) ==
  pc' = [u \in Thread |-> IF u = t THEN label
                          ELSE IF pc[u] = "asleep" THEN "turn" ELSE pc[u]]

Notify(t) == /\ \/ pc[t] = "notify" /\ WakeAll(t, "using")
                \/ pc[t] = "notifyReturned" /\ WakeAll(t, "idle")
             /\ UNCHANGED <<poolVars, counted, stop>>
----------------------------------------------------------------------------
\* release and add_resource: push under the mutex, post a permit, notify.
PushBack(t) == /\ \/ t \in User /\ pc[t] = "using"
                  \/ t \in Owner /\ pc[t] = "idle" /\ holding[t] # NoResource
               /\ resources' = Append(resources, holding[t])
               /\ holding' = [holding EXCEPT ![t] = NoResource]
               /\ Goto(t, "post")
               /\ UNCHANGED <<semaphore, waiters, counted, stop>>

\* Mutated form: two permits for one resource.
MutPost(t) == /\ pc[t] = "post"
              /\ semaphore' = semaphore + 2
              /\ Goto(t, "notifyReturned")
              /\ UNCHANGED <<resources, waiters, holding, counted, stop>>

Post(t) == /\ pc[t] = "post"
           /\ semaphore' = semaphore + 1
           /\ Goto(t, "notifyReturned")
           /\ UNCHANGED <<resources, waiters, holding, counted, stop>>

\* remove_resource_for: a timed permit, then the last resource; the branch for
\* an empty pool gives the permit back.
StartRemove(t) == /\ t \in Owner /\ holding[t] = NoResource
                  /\ Move(t, "idle", "tryRemove")
RemoveGranted(t) == GrantPermit(t, {"tryRemove"}, "remove")
RemoveFails(t) == semaphore = 0 /\ Move(t, "tryRemove", "idle")

RemoveLast(t) == /\ pc[t] = "remove"
                 /\ Goto(t, "idle")
                 /\ IF resources = <<>>
                    THEN semaphore' = semaphore + 1 /\ UNCHANGED <<resources, holding>>
                    ELSE /\ holding' = [holding EXCEPT ![t] = Last(resources)]
                         /\ resources' = Front(resources)
                         /\ UNCHANGED semaphore
                 /\ UNCHANGED <<waiters, counted, stop>>

Stop == /\ ~stop
        /\ stop' = TRUE
        /\ UNCHANGED <<poolVars, counted, pc>>

\* The steps of a call a thread is in; a user also returns what it uses.
InCall(t) == \/ SleepForTurn(t) \/ TryPermit(t) \/ DemandPermit(t)
             \/ UserGranted(t) \/ AttemptFails(t) \/ Take(t) \/ Notify(t)
             \/ Post(t) \/ RemoveGranted(t) \/ RemoveFails(t) \/ RemoveLast(t)

Next == \/ Stop
        \/ \E t \in Thread : \/ InCall(t) \/ PushBack(t) \/ Register(t)
                             \/ SpuriousWake(t) \/ StartRemove(t)

Fairness == /\ \A t \in Thread : WF_vars(InCall(t))
            /\ \A t \in User : WF_vars(PushBack(t))

Spec == Init /\ [][Next]_vars /\ Fairness
----------------------------------------------------------------------------
At(labels) == {t \in Thread : pc[t] \in labels}

\* Every variable has its type.
TypeOK == /\ resources \in Seq(Resource)
          /\ semaphore \in 0..Cardinality(Resource)
          /\ waiters \subseteq User
          /\ counted \subseteq User
          /\ holding \in [Thread -> Resource \cup {NoResource}]
          /\ pc \in [Thread -> {"idle", "turn", "asleep", "try", "acquire", "take",
                                "notify", "using", "post", "notifyReturned",
                                "tryRemove", "remove"}]
          /\ stop \in BOOLEAN

\* The semaphore counts the resources of the pool: each one is a permit, has
\* been granted to a thread that has yet to take it, or awaits its post.  So
\* back() never meets an empty vector and a removal never finds the pool empty.
PermitsMatchResources ==
  Len(resources) = semaphore + Cardinality(At({"take", "remove", "post"}))

\* Every resource is in the pool once or with one thread: nobody shares one.
ResourcesExclusive ==
  /\ IsInjective(resources)
  /\ \A r \in Resource :
       Cardinality({t \in Thread : holding[t] = r})
         + (IF r \in Range(resources) THEN 1 ELSE 0) = 1

\* Permits, resources and their users agree in every state.
PoolConsistent == TypeOK /\ PermitsMatchResources /\ ResourcesExclusive

\* A user does not sleep through its turn: if the turn is a sleeper's, some
\* thread is about to notify all.
NoTurnSleptThrough ==
  \A t \in At({"asleep"}) : IsMyTurn(t) => At({"notify", "notifyReturned"}) # {}

\* A user of a priority nobody else has, and nobody exceeds, gets a resource in
\* the end: users that passed the turn before it registered may be served first,
\* but they cannot pass it again.
TopPriorityServed ==
  \A t \in User : (\A u \in User \ {t} : Priority[u] < Priority[t]) =>
                    ((t \in waiters) ~> (holding[t] # NoResource))
=============================================================================
