------------------------- MODULE ResourcePoolProofs -------------------------
(***************************************************************************)
(* Proofs about ResourcePool, for any users, owners, priorities and          *)
(* resources: permits match resources, nobody shares a resource, and no user *)
(* sleeps through its turn.                                                *)
(***************************************************************************)
EXTENDS ResourcePool, Counting, SequenceTheorems

UserLabel == {"idle", "turn", "asleep", "try", "acquire", "take", "notify", "using",
              "post", "notifyReturned"}
OwnerLabel == {"idle", "post", "notifyReturned", "tryRemove", "remove"}
Owing == {"take", "remove", "post"}   \* where a permit is granted or to be posted

\* What PoolConsistent needs besides itself to be inductive: where users and owners
\* can be, and that whoever is to take a resource has none.
InPlace(t) ==
  /\ t \in User => /\ pc[t] \in UserLabel
                   /\ holding[t] # NoResource <=> pc[t] \in {"notify", "using"}
  /\ t \in Owner => /\ pc[t] \in OwnerLabel
                    /\ pc[t] # "idle" => holding[t] = NoResource
Placed == \A t \in Thread : InPlace(t)

IInv == PoolConsistent /\ Placed

\* How much a thread, and the pool, count for resource r; and a thread for permits.
Owes(t) == IF pc[t] \in Owing THEN 1 ELSE 0
HeldBy(t, r) == IF holding[t] = r THEN 1 ELSE 0
InPool(r) == IF r \in Range(resources) THEN 1 ELSE 0
Holders(r) == {t \in Thread : holding[t] = r}
Single(r) == Cardinality(Holders(r)) + InPool(r) = 1

LEMMA Parts ==
  IInv <=> /\ TypeOK /\ Placed
           /\ Len(resources) = semaphore + Cardinality(At(Owing))
           /\ IsInjective(resources)
           /\ \A r \in Resource : Single(r)
  BY DEF IInv, PoolConsistent, PermitsMatchResources, ResourcesExclusive, Single,
         Holders, InPool, Owing

LEMMA ThreadsFinite == IsFiniteSet(Thread)
  BY PoolAssumption, FS_Union DEF Thread
----------------------------------------------------------------------------
\* A sequence without repetitions to which a new element is appended.
LEMMA AppendNew ==
  ASSUME NEW S, NEW s \in Seq(S), NEW x \in S, IsInjective(s), x \notin Range(s)
  PROVE  /\ Append(s, x) \in Seq(S) /\ Len(Append(s, x)) = Len(s) + 1
         /\ IsInjective(Append(s, x))
         /\ Range(Append(s, x)) = Range(s) \cup {x}
<1> DEFINE a == Append(s, x)
           n == Len(s)
<1>1. /\ n \in Nat /\ DOMAIN s = 1..n
      /\ a \in Seq(S) /\ Len(a) = n + 1 /\ DOMAIN a = 1..(n + 1)
      /\ a[n + 1] = x
      /\ \A i \in 1..n : a[i] = s[i]
  OBVIOUS
<1> HIDE DEF a, n
<1>2. IsInjective(a)
  <2> SUFFICES ASSUME NEW i \in 1..(n + 1), NEW j \in 1..(n + 1), a[i] = a[j]
               PROVE  i = j
    BY <1>1 DEF IsInjective
  <2>1. CASE i \in 1..n /\ j \in 1..n
    BY <1>1, <2>1 DEF IsInjective
  <2>2. CASE i = n + 1 /\ j \in 1..n
    BY <1>1, <2>2 DEF Range
  <2>3. CASE i \in 1..n /\ j = n + 1
    BY <1>1, <2>3 DEF Range
  <2> QED BY <1>1, <2>1, <2>2, <2>3
<1>3. Range(a) = Range(s) \cup {x}
  <2>1. 1..(n + 1) = (1..n) \cup {n + 1}
    BY <1>1
  <2> QED BY <1>1, <2>1 DEF Range
<1> QED BY <1>1, <1>2, <1>3 DEF a, n

\* A sequence without repetitions whose last element is removed.
LEMMA RemoveBack ==
  ASSUME NEW S, NEW s \in Seq(S), s # <<>>, IsInjective(s)
  PROVE  /\ Front(s) \in Seq(S) /\ Len(Front(s)) = Len(s) - 1
         /\ IsInjective(Front(s))
         /\ Last(s) \in S /\ Last(s) \in Range(s)
         /\ Range(Front(s)) = Range(s) \ {Last(s)}
<1> DEFINE f == Front(s)
           n == Len(s)
<1>1. /\ n \in Nat /\ n # 0 /\ DOMAIN s = 1..n
      /\ s[n] \in S
  OBVIOUS
<1>2. /\ f \in Seq(S) /\ Len(f) = n - 1 /\ DOMAIN f = 1..(n - 1)
      /\ \A i \in 1..(n - 1) : f[i] = s[i]
  <2>1. n - 1 \in Int /\ \A i \in 1..(n - 1) : s[i] \in S
    BY <1>1
  <2>2. f = SubSeq(s, 1, n - 1)
    BY DEF Front
  <2>3. /\ f \in Seq(S)
        /\ Len(f) = IF 1 <= n - 1 THEN n - 1 - 1 + 1 ELSE 0
        /\ \A i \in 1..(n - 1 - 1 + 1) : f[i] = s[1 + i - 1]
    BY <2>1, <2>2, SubSeqProperties
  <2>4. Len(f) = n - 1 /\ \A i \in 1..(n - 1) : f[i] = s[i]
    <3> HIDE DEF f, n
    <3>1. n - 1 - 1 + 1 = n - 1 /\ (1 <= n - 1 \/ n - 1 = 0)
      BY <1>1
    <3>2. \A i \in 1..(n - 1) : 1 + i - 1 = i
      BY <1>1
    <3> QED BY <2>3, <3>1, <3>2
  <2> QED BY <2>3, <2>4
<1>3. Last(s) = s[n]
  BY DEF Last
<1> HIDE DEF f, n
<1>4. IsInjective(f)
  BY <1>1, <1>2 DEF IsInjective
<1>5. s[n] \in Range(s)
  BY <1>1 DEF Range
<1>6. Range(f) = Range(s) \ {s[n]}
  <2>1. 1..n = (1..(n - 1)) \cup {n} /\ n \notin 1..(n - 1)
    BY <1>1
  <2>2. \A i \in 1..(n - 1) : s[i] # s[n]
    BY <1>1, <2>1 DEF IsInjective
  <2> QED BY <1>1, <1>2, <2>1, <2>2 DEF Range
<1> QED BY <1>1, <1>2, <1>3, <1>4, <1>5, <1>6 DEF f, n

\* There are finitely many resources, and the pool has no more than those.
LEMMA ResourcesFinite == IsFiniteSet(Resource)
<1>1. IsFiniteSet(Range(Initial))
  <2>1. DOMAIN Initial = 1..Len(Initial) /\ Len(Initial) \in Nat
    BY PoolAssumption
  <2>2. Initial \in Surjection(1..Len(Initial), Range(Initial))
    BY <2>1, PoolAssumption DEF Surjection, Range
  <2>3. IsFiniteSet(1..Len(Initial))
    BY <2>1, FS_Interval
  <2> QED BY <2>2, <2>3, FS_Surjection
<1>2. IsFiniteSet(Range(Owned))
  <2>1. Owned \in Surjection(Owner, Range(Owned))
    BY PoolAssumption DEF Surjection, Range
  <2> QED BY <2>1, PoolAssumption, FS_Surjection
<1>3. IsFiniteSet(Range(Initial) \cup Range(Owned))
  BY <1>1, <1>2, FS_Union
<1> QED BY <1>3, FS_Difference DEF Resource

LEMMA PoolBounded ==
  ASSUME NEW s \in Seq(Resource), IsInjective(s)
  PROVE  Cardinality(Resource) \in Nat /\ Len(s) <= Cardinality(Resource)
<1>1. s \in Injection(1..Len(s), Resource)
  <2>1. s \in [1..Len(s) -> Resource] /\ DOMAIN s = 1..Len(s)
    OBVIOUS
  <2> QED BY <2>1 DEF Injection, IsInjective
<1>2. Len(s) \in Nat
  OBVIOUS
<1>3. Cardinality(1..Len(s)) = Len(s)
  <2> DEFINE n == Len(s)
  <2>1. n \in Nat /\ 1 \in Int /\ n \in Int
    BY <1>2
  <2> HIDE DEF n
  <2>2. Cardinality(1..n) = IF 1 > n THEN 0 ELSE n - 1 + 1
    BY <2>1, FS_Interval
  <2>3. Cardinality(1..n) = n
    BY <2>1, <2>2
  <2> QED BY <2>3 DEF n
<1> QED BY <1>1, <1>3, ResourcesFinite, FS_Injection, FS_CardinalityType
----------------------------------------------------------------------------
\* The initial state.
LEMMA InitIInv == Init => IInv
<1> SUFFICES ASSUME Init PROVE IInv
  OBVIOUS
<1>1. /\ resources = Initial /\ Initial \in Seq(Resource) /\ IsInjective(Initial)
  BY PoolAssumption, SeqOfRange DEF Init, Resource, Range
<1>2. semaphore = Len(Initial) /\ Len(Initial) \in Nat
  BY PoolAssumption DEF Init
<1>3. semaphore \in 0..Cardinality(Resource)
  BY <1>1, <1>2, PoolBounded
<1>4. \A o \in Owner : Owned[o] \in Range(Owned)
  BY PoolAssumption DEF Range
<1>5. TypeOK
  BY <1>1, <1>3, <1>4 DEF Init, TypeOK, Resource, Thread
<1>6. Placed
  BY PoolAssumption DEF Init, Placed, InPlace, UserLabel, OwnerLabel, Thread
<1>7. At(Owing) = {} /\ Cardinality({}) = 0
  BY FS_EmptySet DEF Init, At, Owing
<1>8. Len(resources) = semaphore + Cardinality(At(Owing))
  BY <1>1, <1>2, <1>7
<1>9. ASSUME NEW r \in Resource
      PROVE  Single(r)
  <2>1. CASE r \in Range(Initial)
    <3>1. Holders(r) = {}
      BY <2>1, PoolAssumption DEF Holders, Init, Thread, Resource
    <3> QED BY <2>1, <3>1, <1>1, <1>7 DEF Single, InPool
  <2>2. CASE r \notin Range(Initial)
    <3>1. PICK o \in Owner : Owned[o] = r
      BY <2>2, PoolAssumption DEF Resource, Range
    <3>2. Holders(r) = {o}
      BY <3>1, PoolAssumption DEF Holders, Init, Thread, Resource
    <3>3. Cardinality({o}) = 1
      BY FS_Singleton
    <3> QED BY <2>2, <3>2, <3>3, <1>1 DEF Single, InPool
  <2> QED BY <2>1, <2>2
<1> QED BY <1>1, <1>5, <1>6, <1>8, <1>9, Parts
----------------------------------------------------------------------------
\* In a step of one thread the others stay where they are, but for sleepers that
\* are woken, and keep what they hold.
OthersStay(t) == \A u \in Thread \ {t} :
                   /\ pc'[u] = pc[u] \/ (pc[u] = "asleep" /\ pc'[u] = "turn")
                   /\ holding'[u] = holding[u]

\* So each count changes by that thread at most.
LEMMA Counts ==
  ASSUME NEW t \in Thread, OthersStay(t)
  PROVE  /\ Cardinality(At(Owing)) \in Nat /\ Cardinality(At(Owing)') \in Nat
         /\ Cardinality(At(Owing)') = Cardinality(At(Owing)) + Owes(t)' - Owes(t)
         /\ \A r : /\ Cardinality(Holders(r)) \in Nat /\ Cardinality(Holders(r)') \in Nat
                   /\ Cardinality(Holders(r)') = Cardinality(Holders(r))
                                                   + HeldBy(t, r)' - HeldBy(t, r)
<1>1. /\ Cardinality(At(Owing)) \in Nat /\ Cardinality(At(Owing)') \in Nat
      /\ Cardinality(At(Owing)') = Cardinality(At(Owing)) + Owes(t)' - Owes(t)
  <2> DEFINE A == {u \in Thread : pc[u] \in Owing}
             B == {u \in Thread : pc'[u] \in Owing}
  <2>1. IsFiniteSet(A)
    <3>1. A \subseteq Thread
      OBVIOUS
    <3> QED BY <3>1, ThreadsFinite, FS_Subset
  <2>2. A \ {t} = B \ {t}
    BY DEF OthersStay, Owing
  <2>3. /\ Cardinality(A) \in Nat /\ Cardinality(B) \in Nat
        /\ Cardinality(B) = Cardinality(A) + Change(A, B, t)
    BY <2>1, <2>2, OneElementChanges
  <2>4. Change(A, B, t) = Owes(t)' - Owes(t)
    BY DEF Change, Owes
  <2>5. At(Owing) = A /\ At(Owing)' = B
    BY DEF At, Owing
  <2> QED BY <2>3, <2>4, <2>5
<1>2. ASSUME NEW r
      PROVE  /\ Cardinality(Holders(r)) \in Nat /\ Cardinality(Holders(r)') \in Nat
             /\ Cardinality(Holders(r)') = Cardinality(Holders(r))
                                             + HeldBy(t, r)' - HeldBy(t, r)
  <2> DEFINE A == {u \in Thread : holding[u] = r}
             B == {u \in Thread : holding'[u] = r}
  <2>1. IsFiniteSet(A)
    <3>1. A \subseteq Thread
      OBVIOUS
    <3> QED BY <3>1, ThreadsFinite, FS_Subset
  <2>2. A \ {t} = B \ {t}
    BY DEF OthersStay
  <2>3. /\ Cardinality(A) \in Nat /\ Cardinality(B) \in Nat
        /\ Cardinality(B) = Cardinality(A) + Change(A, B, t)
    BY <2>1, <2>2, OneElementChanges
  <2>4. Change(A, B, t) = HeldBy(t, r)' - HeldBy(t, r)
    BY DEF Change, HeldBy
  <2>5. Holders(r) = A /\ Holders(r)' = B
    BY DEF Holders
  <2> QED BY <2>3, <2>4, <2>5
<1> QED BY <1>1, <1>2

\* A thread that owes is counted, and so is one that holds a resource.
LEMMA Counted ==
  ASSUME IInv, NEW t \in Thread
  PROVE  /\ pc[t] \in {"take", "remove"} => resources # <<>>
         /\ pc[t] = "post" => semaphore + 1 <= Len(resources)
         /\ holding[t] # NoResource => /\ holding[t] \in Resource
                                       /\ holding[t] \notin Range(resources)
<1>1. pc[t] \in Owing => Cardinality(At(Owing)) \in Nat /\ Cardinality(At(Owing)) # 0
  <2>1. At(Owing) \subseteq Thread /\ (pc[t] \in Owing => At(Owing) # {})
    BY DEF At
  <2>2. IsFiniteSet(At(Owing))
    BY <2>1, ThreadsFinite, FS_Subset
  <2> QED BY <2>1, <2>2, FS_CardinalityType, FS_EmptySet
<1>2. semaphore \in Nat /\ Len(resources) = semaphore + Cardinality(At(Owing))
  BY Parts DEF TypeOK
<1>3. pc[t] \in Owing => semaphore + 1 <= Len(resources) /\ Len(resources) # 0
  BY <1>1, <1>2
<1>4. Len(resources) # 0 => resources # <<>>
  OBVIOUS
<1>5. ASSUME holding[t] # NoResource
      PROVE  holding[t] \in Resource /\ holding[t] \notin Range(resources)
  <2>1. holding[t] \in Resource
    BY <1>5, Parts DEF TypeOK
  <2> DEFINE r == holding[t]
  <2>2. Cardinality(Holders(r)) \in Nat /\ Cardinality(Holders(r)) # 0
    <3>1. Holders(r) \subseteq Thread /\ Holders(r) # {}
      BY DEF Holders
    <3>2. IsFiniteSet(Holders(r))
      BY <3>1, ThreadsFinite, FS_Subset
    <3> QED BY <3>1, <3>2, FS_CardinalityType, FS_EmptySet
  <2>3. Single(r)
    BY <2>1, Parts
  <2> HIDE DEF r
  <2>4. r \notin Range(resources)
    BY <2>2, <2>3 DEF Single, InPool
  <2> QED BY <2>1, <2>4 DEF r
<1> QED BY <1>3, <1>4, <1>5 DEF Owing

\* A step of one thread keeps the invariant when its place is right, and when it
\* changes the permits and the pool by as much as what the thread owes and holds.
Typed == /\ resources' \in Seq(Resource) /\ IsInjective(resources')
         /\ semaphore' \in Nat
         /\ waiters' \subseteq User /\ counted' \subseteq User
         /\ holding' \in [Thread -> Resource \cup {NoResource}]
         /\ pc' \in [Thread -> UserLabel \cup OwnerLabel]
         /\ stop' \in BOOLEAN

LEMMA StepKept ==
  ASSUME IInv, NEW t \in Thread, OthersStay(t), Typed, InPlace(t)',
         Len(resources') - semaphore' - Owes(t)' = Len(resources) - semaphore - Owes(t),
         \A r \in Resource : HeldBy(t, r)' + InPool(r)' = HeldBy(t, r) + InPool(r)
  PROVE  IInv'
<1>1. Placed'
  <2> SUFFICES ASSUME NEW u \in Thread PROVE InPlace(u)'
    BY DEF Placed
  <2>1. CASE u = t
    BY <2>1
  <2>2. CASE u # t
    <3>1. InPlace(u)
      BY Parts DEF Placed
    <3> QED BY <2>2, <3>1 DEF OthersStay, InPlace, UserLabel, OwnerLabel
  <2> QED BY <2>1, <2>2
<1>2. Len(resources') = semaphore' + Cardinality(At(Owing)')
  <2> DEFINE c == Cardinality(At(Owing))
             d == Cardinality(At(Owing)')
             l == Len(resources)
             m == Len(resources')
             o == Owes(t)
             p == Owes(t)'
             f == semaphore
             g == semaphore'
  <2>1. c \in Int /\ d \in Int /\ d = c + p - o
    BY Counts
  <2>2. o \in Int /\ p \in Int
    BY DEF Owes
  <2>3. l \in Int /\ m \in Int /\ f \in Int /\ g \in Int
    BY Parts DEF TypeOK, Typed
  <2>4. l = f + c
    BY Parts
  <2>5. m - g - p = l - f - o
    OBVIOUS
  <2> HIDE DEF c, d, l, m, o, p, f, g
  <2>6. m = g + d
    BY <2>1, <2>2, <2>3, <2>4, <2>5
  <2> QED BY <2>6 DEF m, d, g
<1>3. ASSUME NEW r \in Resource
      PROVE  Single(r)'
  <2>1. /\ Cardinality(Holders(r)) \in Nat /\ Cardinality(Holders(r)') \in Nat
        /\ Cardinality(Holders(r)') = Cardinality(Holders(r))
                                        + HeldBy(t, r)' - HeldBy(t, r)
    BY Counts
  <2>2. /\ HeldBy(t, r) \in Int /\ HeldBy(t, r)' \in Int
        /\ InPool(r) \in Int /\ InPool(r)' \in Int
    BY DEF HeldBy, InPool
  <2>3. Cardinality(Holders(r)) + InPool(r) = 1
    BY Parts DEF Single
  <2>4. HeldBy(t, r)' + InPool(r)' = HeldBy(t, r) + InPool(r)
    OBVIOUS
  <2>5. Cardinality(Holders(r)') + InPool(r)' = 1
    BY <2>1, <2>2, <2>3, <2>4
  <2> QED BY <2>5 DEF Single
<1>4. TypeOK'
  <2>1. semaphore' <= Len(resources')
    <3>1. /\ Cardinality(At(Owing)') \in Nat /\ semaphore' \in Nat
      BY Counts DEF Typed
    <3> QED BY <3>1, <1>2
  <2>2. Cardinality(Resource) \in Nat /\ Len(resources') <= Cardinality(Resource)
    BY PoolBounded DEF Typed
  <2>3. semaphore' \in 0..Cardinality(Resource)
    <3>1. Len(resources') \in Nat
      BY DEF Typed
    <3> QED BY <2>1, <2>2, <3>1 DEF Typed
  <2> QED BY <2>3 DEF TypeOK, Typed, UserLabel, OwnerLabel
<1> QED BY <1>1, <1>2, <1>3, <1>4
        DEF IInv, PoolConsistent, PermitsMatchResources, ResourcesExclusive, Typed,
            Single, Holders, InPool, Owing
----------------------------------------------------------------------------
\* What is typed before a step.
LEMMA TypedBefore ==
  ASSUME IInv
  PROVE  /\ resources \in Seq(Resource) /\ IsInjective(resources)
         /\ semaphore \in Nat /\ Len(resources) \in Nat
         /\ waiters \subseteq User /\ counted \subseteq User
         /\ holding \in [Thread -> Resource \cup {NoResource}]
         /\ pc \in [Thread -> UserLabel \cup OwnerLabel]
         /\ stop \in BOOLEAN
         /\ Placed
  BY Parts DEF TypeOK, UserLabel, OwnerLabel

\* A step in which a thread only moves, neither to nor from where it owes, and may
\* wake the sleepers.
LEMMA WalkKept ==
  ASSUME IInv, NEW t \in Thread, OthersStay(t),
         UNCHANGED <<resources, semaphore, holding>>,
         waiters' \subseteq User, counted' \subseteq User, stop' \in BOOLEAN,
         pc' \in [Thread -> UserLabel \cup OwnerLabel],
         InPlace(t)', Owes(t)' = Owes(t)
  PROVE  IInv'
<1>1. Typed
  BY TypedBefore DEF Typed
<1>2. Len(resources') - semaphore' - Owes(t)' = Len(resources) - semaphore - Owes(t)
  OBVIOUS
<1>3. \A r \in Resource : HeldBy(t, r)' + InPool(r)' = HeldBy(t, r) + InPool(r)
  BY DEF HeldBy, InPool
<1> QED BY <1>1, <1>2, <1>3, StepKept

LEMMA MoveKeeps ==
  ASSUME IInv, NEW t \in Thread, NEW from, NEW to \in UserLabel \cup OwnerLabel,
         Move(t, from, to),
         t \in User => /\ to \in UserLabel
                       /\ holding[t] # NoResource <=> to \in {"notify", "using"},
         t \in Owner => /\ to \in OwnerLabel
                        /\ to # "idle" => holding[t] = NoResource,
         from \notin Owing, to \notin Owing
  PROVE  IInv'
<1>1. pc[t] = from /\ pc' = [pc EXCEPT ![t] = to]
      /\ UNCHANGED <<resources, semaphore, waiters, holding, counted, stop>>
  BY DEF Move, Goto, poolVars
<1>2. pc'[t] = to /\ pc' \in [Thread -> UserLabel \cup OwnerLabel]
  BY <1>1, TypedBefore
<1>3. OthersStay(t)
  BY <1>1, TypedBefore DEF OthersStay
<1>4. InPlace(t)' /\ Owes(t)' = Owes(t)
  BY <1>1, <1>2 DEF InPlace, Owes
<1> QED BY <1>1, <1>2, <1>3, <1>4, TypedBefore, WalkKept

\* The steps that only move their thread.
LEMMA WalksKeep ==
  ASSUME IInv, NEW t \in Thread,
         \/ SleepForTurn(t) \/ SpuriousWake(t) \/ TryPermit(t) \/ DemandPermit(t)
         \/ StartRemove(t) \/ RemoveFails(t)
  PROVE  IInv'
<1> USE DEF UserLabel, OwnerLabel, Owing
<1>1. InPlace(t) /\ User \cap Owner = {} /\ Thread = User \cup Owner
  BY TypedBefore, PoolAssumption DEF Placed, Thread
<1>2. CASE SleepForTurn(t)
  <2>1. Move(t, "turn", "asleep") /\ pc[t] = "turn"
    BY <1>2 DEF SleepForTurn, Move
  <2> QED BY <1>1, <2>1, MoveKeeps DEF InPlace
<1>3. CASE SpuriousWake(t)
  <2>1. Move(t, "asleep", "turn") /\ pc[t] = "asleep"
    BY <1>3 DEF SpuriousWake, Move
  <2> QED BY <1>1, <2>1, MoveKeeps DEF InPlace
<1>4. CASE TryPermit(t)
  <2>1. Move(t, "turn", "try") /\ pc[t] = "turn"
    BY <1>4 DEF TryPermit, Move
  <2> QED BY <1>1, <2>1, MoveKeeps DEF InPlace
<1>5. CASE DemandPermit(t)
  <2>1. Move(t, "turn", "acquire") /\ pc[t] = "turn"
    BY <1>5 DEF DemandPermit, Move
  <2> QED BY <1>1, <2>1, MoveKeeps DEF InPlace
<1>6. CASE StartRemove(t)
  <2>1. Move(t, "idle", "tryRemove") /\ t \in Owner /\ holding[t] = NoResource
    BY <1>6 DEF StartRemove
  <2> QED BY <1>1, <2>1, MoveKeeps
<1>7. CASE RemoveFails(t)
  <2>1. Move(t, "tryRemove", "idle") /\ pc[t] = "tryRemove"
    BY <1>7 DEF RemoveFails, Move
  <2> QED BY <1>1, <2>1, MoveKeeps DEF InPlace
<1> QED BY <1>2, <1>3, <1>4, <1>5, <1>6, <1>7

LEMMA RegisterKeeps ==
  ASSUME IInv, NEW t \in Thread, Register(t)
  PROVE  IInv'
<1>1. /\ t \in User /\ pc[t] = "idle" /\ pc' = [pc EXCEPT ![t] = "turn"]
      /\ waiters' = waiters \cup {t} /\ counted' = counted \ {t}
      /\ UNCHANGED <<resources, semaphore, holding, stop>>
  BY DEF Register, Goto
<1>2. pc'[t] = "turn" /\ pc' \in [Thread -> UserLabel \cup OwnerLabel]
  BY <1>1, TypedBefore DEF UserLabel
<1>3. OthersStay(t)
  BY <1>1, TypedBefore DEF OthersStay
<1>4. InPlace(t)' /\ Owes(t)' = Owes(t)
  BY <1>1, <1>2, TypedBefore, PoolAssumption DEF Placed, InPlace, Owes, UserLabel, Owing
<1> QED BY <1>1, <1>2, <1>3, <1>4, TypedBefore, WalkKept

LEMMA AttemptFailsKeeps ==
  ASSUME IInv, NEW t \in Thread, AttemptFails(t)
  PROVE  IInv'
<1>1. /\ pc[t] = "try" /\ pc' = [pc EXCEPT ![t] = "turn"]
      /\ counted' = counted \cup {t}
      /\ UNCHANGED <<resources, semaphore, waiters, holding, stop>>
  BY DEF AttemptFails, Goto, poolVars
<1>2. t \in User
  BY <1>1, TypedBefore DEF Placed, InPlace, OwnerLabel, Thread
<1>3. pc'[t] = "turn" /\ pc' \in [Thread -> UserLabel \cup OwnerLabel]
  BY <1>1, TypedBefore DEF UserLabel
<1>4. OthersStay(t)
  BY <1>1, TypedBefore DEF OthersStay
<1>5. InPlace(t)' /\ Owes(t)' = Owes(t)
  BY <1>1, <1>2, <1>3, TypedBefore, PoolAssumption
     DEF Placed, InPlace, Owes, UserLabel, Owing
<1> QED BY <1>1, <1>2, <1>3, <1>4, <1>5, TypedBefore, WalkKept

LEMMA NotifyKeeps ==
  ASSUME IInv, NEW t \in Thread, Notify(t)
  PROVE  IInv'
<1>1. UNCHANGED <<resources, semaphore, waiters, holding, counted, stop>>
  BY DEF Notify, poolVars
<1>2. PICK to \in {"using", "idle"} :
        /\ to = "using" => pc[t] = "notify"
        /\ to = "idle" => pc[t] = "notifyReturned"
        /\ pc' = [u \in Thread |-> IF u = t THEN to
                                   ELSE IF pc[u] = "asleep" THEN "turn" ELSE pc[u]]
  BY DEF Notify, WakeAll
<1>3. pc'[t] = to /\ pc' \in [Thread -> UserLabel \cup OwnerLabel]
  BY <1>2, TypedBefore DEF UserLabel
<1>4. OthersStay(t)
  BY <1>1, <1>2 DEF OthersStay
<1>5. InPlace(t)' /\ Owes(t)' = Owes(t)
  BY <1>1, <1>2, <1>3, TypedBefore, PoolAssumption
     DEF Placed, InPlace, Owes, UserLabel, OwnerLabel, Owing
<1> QED BY <1>1, <1>3, <1>4, <1>5, TypedBefore, WalkKept

\* The sums by which the other steps are balanced.
LEMMA Sums ==
  \A l, s \in Int : /\ l - (s - 1) - 1 = l - s - 0
                    /\ (l - 1) - s - 0 = l - s - 1
                    /\ (l + 1) - s - 1 = l - s - 0
                    /\ l - (s + 1) - 0 = l - s - 1
  OBVIOUS

\* A permit is granted: the thread owes.
LEMMA GrantKeeps ==
  ASSUME IInv, NEW t \in Thread, UserGranted(t) \/ RemoveGranted(t)
  PROVE  IInv'
<1>1. PICK to \in {"take", "remove"} :
        /\ to = "take" => pc[t] \in {"try", "acquire"}
        /\ to = "remove" => pc[t] = "tryRemove"
        /\ semaphore > 0 /\ semaphore' = semaphore - 1
        /\ pc' = [pc EXCEPT ![t] = to]
        /\ UNCHANGED <<resources, waiters, holding, counted, stop>>
  BY DEF UserGranted, RemoveGranted, GrantPermit, Goto
<1>2. pc'[t] = to /\ pc' \in [Thread -> UserLabel \cup OwnerLabel]
  BY <1>1, TypedBefore DEF UserLabel, OwnerLabel
<1>3. OthersStay(t)
  BY <1>1, TypedBefore DEF OthersStay
<1>4. InPlace(t)' /\ Owes(t)' = 1 /\ Owes(t) = 0
  BY <1>1, <1>2, TypedBefore, PoolAssumption
     DEF Placed, InPlace, Owes, UserLabel, OwnerLabel, Owing
<1>5. Typed
  <2>1. semaphore' \in Nat
    BY <1>1, TypedBefore
  <2> QED BY <1>1, <1>2, <2>1, TypedBefore DEF Typed
<1>6. Len(resources') - semaphore' - Owes(t)' = Len(resources) - semaphore - Owes(t)
  <2>1. Len(resources) \in Int /\ semaphore \in Int
    BY TypedBefore
  <2>2. Len(resources) - (semaphore - 1) - 1 = Len(resources) - semaphore - 0
    BY <2>1, Sums
  <2> QED BY <1>1, <1>4, <2>2, Zenon
<1>7. \A r \in Resource : HeldBy(t, r)' + InPool(r)' = HeldBy(t, r) + InPool(r)
  BY <1>1 DEF HeldBy, InPool
<1> QED BY <1>3, <1>4, <1>5, <1>6, <1>7, StepKept

\* The last resource goes from the pool to the thread.
LEMMA RemovalKept ==
  ASSUME IInv, NEW t \in Thread, pc[t] \in {"take", "remove"}, resources # <<>>,
         NEW to \in {"notify", "idle"}, to = "notify" <=> pc[t] = "take",
         pc' = [pc EXCEPT ![t] = to],
         holding' = [holding EXCEPT ![t] = Last(resources)],
         resources' = Front(resources), semaphore' = semaphore,
         waiters' \subseteq User, counted' \subseteq User, stop' = stop
  PROVE  IInv'
<1>1. pc'[t] = to /\ pc' \in [Thread -> UserLabel \cup OwnerLabel]
  BY TypedBefore DEF UserLabel, OwnerLabel
<1>2. /\ Front(resources) \in Seq(Resource) /\ IsInjective(Front(resources))
      /\ Len(Front(resources)) = Len(resources) - 1
      /\ Last(resources) \in Resource /\ Last(resources) \in Range(resources)
      /\ Range(Front(resources)) = Range(resources) \ {Last(resources)}
  BY TypedBefore, RemoveBack
<1>3. NoResource \notin Resource
  BY DEF Resource
<1>4. /\ holding'[t] = Last(resources)
      /\ holding' \in [Thread -> Resource \cup {NoResource}]
      /\ holding[t] = NoResource
  <2>1. holding[t] = NoResource
    BY TypedBefore DEF Placed, InPlace, Thread
  <2> QED BY <1>2, <2>1, TypedBefore
<1>5. OthersStay(t)
  BY TypedBefore DEF OthersStay
<1>6. InPlace(t)' /\ Owes(t)' = 0 /\ Owes(t) = 1
  BY <1>1, <1>2, <1>3, <1>4, TypedBefore, PoolAssumption
     DEF Placed, InPlace, Owes, UserLabel, OwnerLabel, Owing
<1>7. Typed
  BY <1>1, <1>2, <1>4, TypedBefore DEF Typed
<1>8. Len(resources') - semaphore' - Owes(t)' = Len(resources) - semaphore - Owes(t)
  <2>1. Len(resources) \in Int /\ semaphore \in Int
    BY TypedBefore
  <2>2. (Len(resources) - 1) - semaphore - 0 = Len(resources) - semaphore - 1
    BY <2>1, Sums
  <2>3. Len(resources') = Len(resources) - 1
    BY <1>2
  <2> QED BY <1>6, <2>2, <2>3, Zenon
<1>9. ASSUME NEW r \in Resource
      PROVE  HeldBy(t, r)' + InPool(r)' = HeldBy(t, r) + InPool(r)
  BY <1>2, <1>3, <1>4 DEF HeldBy, InPool
<1> QED BY <1>5, <1>6, <1>7, <1>8, <1>9, StepKept

LEMMA TakeKeeps ==
  ASSUME IInv, NEW t \in Thread, Take(t)
  PROVE  IInv'
<1>1. resources # <<>>
  BY Counted DEF Take
<1>2. waiters' \subseteq User
  BY TypedBefore DEF Take
<1> QED BY <1>1, <1>2, TypedBefore, RemovalKept DEF Take, Goto

LEMMA RemoveLastKeeps ==
  ASSUME IInv, NEW t \in Thread, RemoveLast(t)
  PROVE  IInv'
<1>1. resources # <<>>
  BY Counted DEF RemoveLast
<1> QED BY <1>1, TypedBefore, RemovalKept DEF RemoveLast, Goto

\* A resource goes back to the pool: the thread owes a permit.
LEMMA PushBackKeeps ==
  ASSUME IInv, NEW t \in Thread, PushBack(t)
  PROVE  IInv'
<1>1. /\ \/ t \in User /\ pc[t] = "using"
         \/ t \in Owner /\ pc[t] = "idle" /\ holding[t] # NoResource
      /\ resources' = Append(resources, holding[t])
      /\ holding' = [holding EXCEPT ![t] = NoResource]
      /\ pc' = [pc EXCEPT ![t] = "post"]
      /\ UNCHANGED <<semaphore, waiters, counted, stop>>
  BY DEF PushBack, Goto
<1>2. holding[t] # NoResource
  BY <1>1, TypedBefore DEF Placed, InPlace
<1>3. holding[t] \in Resource /\ holding[t] \notin Range(resources)
  BY <1>2, Counted
<1>4. /\ resources' \in Seq(Resource) /\ IsInjective(resources')
      /\ Len(resources') = Len(resources) + 1
      /\ Range(resources') = Range(resources) \cup {holding[t]}
  BY <1>1, <1>3, TypedBefore, AppendNew
<1>5. pc'[t] = "post" /\ pc' \in [Thread -> UserLabel \cup OwnerLabel]
  BY <1>1, TypedBefore DEF UserLabel
<1>6. /\ holding'[t] = NoResource
      /\ holding' \in [Thread -> Resource \cup {NoResource}]
  BY <1>1, TypedBefore
<1>7. OthersStay(t)
  BY <1>1, TypedBefore DEF OthersStay
<1>8. InPlace(t)' /\ Owes(t)' = 1 /\ Owes(t) = 0
  BY <1>1, <1>5, <1>6, TypedBefore, PoolAssumption
     DEF Placed, InPlace, Owes, UserLabel, OwnerLabel, Owing
<1>9. Typed
  BY <1>1, <1>4, <1>5, <1>6, TypedBefore DEF Typed
<1>10. Len(resources') - semaphore' - Owes(t)' = Len(resources) - semaphore - Owes(t)
  <2>1. Len(resources) \in Int /\ semaphore \in Int
    BY TypedBefore
  <2>2. (Len(resources) + 1) - semaphore - 1 = Len(resources) - semaphore - 0
    BY <2>1, Sums
  <2> QED BY <1>1, <1>4, <1>8, <2>2, Zenon
<1>11. ASSUME NEW r \in Resource
       PROVE  HeldBy(t, r)' + InPool(r)' = HeldBy(t, r) + InPool(r)
  <2>1. NoResource # r
    BY DEF Resource
  <2> QED BY <1>3, <1>4, <1>6, <2>1 DEF HeldBy, InPool
<1> QED BY <1>7, <1>8, <1>9, <1>10, <1>11, StepKept

\* The permit is posted: the thread owes no more.
LEMMA PostKeeps ==
  ASSUME IInv, NEW t \in Thread, Post(t)
  PROVE  IInv'
<1>1. /\ pc[t] = "post" /\ pc' = [pc EXCEPT ![t] = "notifyReturned"]
      /\ semaphore' = semaphore + 1
      /\ UNCHANGED <<resources, waiters, holding, counted, stop>>
  BY DEF Post, Goto
<1>2. pc'[t] = "notifyReturned" /\ pc' \in [Thread -> UserLabel \cup OwnerLabel]
  BY <1>1, TypedBefore DEF UserLabel
<1>3. OthersStay(t)
  BY <1>1, TypedBefore DEF OthersStay
<1>4. InPlace(t)' /\ Owes(t)' = 0 /\ Owes(t) = 1
  BY <1>1, <1>2, TypedBefore, PoolAssumption
     DEF Placed, InPlace, Owes, UserLabel, OwnerLabel, Owing
<1>5. Typed
  BY <1>1, <1>2, TypedBefore DEF Typed
<1>6. Len(resources') - semaphore' - Owes(t)' = Len(resources) - semaphore - Owes(t)
  <2>1. Len(resources) \in Int /\ semaphore \in Int
    BY TypedBefore
  <2>2. Len(resources) - (semaphore + 1) - 0 = Len(resources) - semaphore - 1
    BY <2>1, Sums
  <2> QED BY <1>1, <1>4, <2>2, Zenon
<1>7. \A r \in Resource : HeldBy(t, r)' + InPool(r)' = HeldBy(t, r) + InPool(r)
  BY <1>1 DEF HeldBy, InPool
<1> QED BY <1>3, <1>4, <1>5, <1>6, <1>7, StepKept
----------------------------------------------------------------------------
\* What touches no thread and no resource keeps the invariant.
LEMMA StandsStill ==
  ASSUME IInv, UNCHANGED <<poolVars, counted, pc>>, stop' \in BOOLEAN
  PROVE  IInv'
  BY DEF IInv, PoolConsistent, TypeOK, PermitsMatchResources, ResourcesExclusive, At,
         Placed, InPlace, poolVars

LEMMA NextKeeps == IInv /\ [Next]_vars => IInv'
<1> SUFFICES ASSUME IInv, [Next]_vars PROVE IInv'
  OBVIOUS
<1>1. CASE Stop
  <2>1. UNCHANGED <<poolVars, counted, pc>> /\ stop' \in BOOLEAN
    BY <1>1 DEF Stop
  <2> QED BY <2>1, StandsStill
<1>2. CASE UNCHANGED vars
  <2>1. UNCHANGED <<poolVars, counted, pc>> /\ stop' \in BOOLEAN
    BY <1>2, TypedBefore DEF vars
  <2> QED BY <2>1, StandsStill
<1>3. ASSUME NEW t \in Thread,
             \/ InCall(t) \/ PushBack(t) \/ Register(t) \/ SpuriousWake(t)
             \/ StartRemove(t)
      PROVE  IInv'
  BY <1>3, WalksKeep, RegisterKeeps, AttemptFailsKeeps, NotifyKeeps, GrantKeeps,
     TakeKeeps, RemoveLastKeeps, PushBackKeeps, PostKeeps DEF InCall
<1> QED BY <1>1, <1>2, <1>3 DEF Next

\* Permits match the resources of the pool, granted or about to be posted, and no
\* resource is in two places: acquire, release, add_resource, remove_resource_for.
THEOREM PoolAgrees == Spec => []PoolConsistent
<1>1. Init => IInv
  BY InitIInv
<1>2. IInv /\ [Next]_vars => IInv'
  BY NextKeeps
<1>3. IInv => PoolConsistent
  BY DEF IInv
<1> QED BY <1>1, <1>2, <1>3, PTL DEF Spec
----------------------------------------------------------------------------
\* A step that wakes everyone, or after which somebody is to wake everyone, cannot
\* leave a sleeper its turn; any other step neither puts to sleep a user whose turn
\* it is nor takes a waiter away.
LEMMA TurnKept ==
  ASSUME IInv, NoTurnSleptThrough, [Next]_vars
  PROVE  NoTurnSleptThrough'
<1> SUFFICES ASSUME NEW u \in Thread, pc'[u] = "asleep", IsMyTurn(u)',
                    \A t \in Thread : pc'[t] \notin {"notify", "notifyReturned"}
             PROVE  FALSE
  BY DEF NoTurnSleptThrough, At
<1>1. ASSUME UNCHANGED <<waiters, pc>>
      PROVE  FALSE
  BY <1>1 DEF NoTurnSleptThrough, At, IsMyTurn
<1>2. ASSUME NEW t \in Thread, UNCHANGED waiters, ~(IsMyTurn(t) /\ pc'[t] = "asleep"),
             pc[t] \notin {"notify", "notifyReturned"},
             \A v \in Thread \ {t} : pc'[v] = pc[v]
      PROVE  FALSE
  <2>1. u # t /\ pc[u] = "asleep" /\ IsMyTurn(u)
    BY <1>2 DEF IsMyTurn
  <2>2. \A v \in Thread : pc[v] \notin {"notify", "notifyReturned"}
    BY <1>2
  <2> QED BY <2>1, <2>2 DEF NoTurnSleptThrough, At
<1>3. pc \in [Thread -> UserLabel \cup OwnerLabel]
  BY TypedBefore
<1>4. ASSUME NEW t \in Thread, Register(t)
      PROVE  FALSE
  <2>1. /\ u # t /\ pc[u] = "asleep"
        /\ waiters' = waiters \cup {t} /\ pc[t] = "idle"
        /\ \A v \in Thread \ {t} : pc'[v] = pc[v]
    BY <1>3, <1>4 DEF Register, Goto
  <2>2. IsMyTurn(u)
    BY <2>1 DEF IsMyTurn
  <2>3. \A v \in Thread : pc[v] \notin {"notify", "notifyReturned"}
    BY <2>1
  <2> QED BY <2>1, <2>2, <2>3 DEF NoTurnSleptThrough, At
<1>5. ASSUME NEW t \in Thread, Take(t)
      PROVE  FALSE
  BY <1>3, <1>5 DEF Take, Goto
<1>6. ASSUME NEW t \in Thread, Notify(t)
      PROVE  FALSE
  BY <1>3, <1>6 DEF Notify, WakeAll
<1>7. ASSUME NEW t \in Thread, Post(t)
      PROVE  FALSE
  BY <1>3, <1>7 DEF Post, Goto
<1>8. ASSUME NEW t \in Thread,
             \/ SleepForTurn(t) \/ TryPermit(t) \/ DemandPermit(t) \/ UserGranted(t)
             \/ AttemptFails(t) \/ RemoveGranted(t) \/ RemoveFails(t) \/ RemoveLast(t)
             \/ PushBack(t) \/ SpuriousWake(t) \/ StartRemove(t)
      PROVE  FALSE
  <2>1. /\ UNCHANGED waiters /\ ~(IsMyTurn(t) /\ pc'[t] = "asleep")
        /\ pc[t] \notin {"notify", "notifyReturned"}
        /\ \A v \in Thread \ {t} : pc'[v] = pc[v]
    <3>1. CASE SleepForTurn(t)
      BY <1>3, <3>1 DEF SleepForTurn, Move, Goto, poolVars
    <3>2. CASE \/ TryPermit(t) \/ DemandPermit(t) \/ RemoveFails(t)
               \/ SpuriousWake(t) \/ StartRemove(t)
      BY <1>3, <3>2 DEF TryPermit, DemandPermit, RemoveFails, SpuriousWake, StartRemove,
                        Move, Goto, poolVars
    <3>3. CASE UserGranted(t) \/ RemoveGranted(t)
      BY <1>3, <3>3 DEF UserGranted, RemoveGranted, GrantPermit, Goto
    <3>4. CASE AttemptFails(t) \/ PushBack(t)
      BY <1>3, <3>4 DEF AttemptFails, PushBack, Goto, poolVars
    <3>5. CASE RemoveLast(t)
      <4>1. pc[t] = "remove" /\ pc' = [pc EXCEPT ![t] = "idle"] /\ UNCHANGED waiters
        BY <3>5 DEF RemoveLast, Goto
      <4> QED BY <1>3, <4>1
    <3> QED BY <1>8, <3>1, <3>2, <3>3, <3>4, <3>5
  <2> QED BY <1>2, <2>1
<1>9. CASE Stop \/ UNCHANGED vars
  BY <1>1, <1>9 DEF Stop, vars, poolVars
<1> QED BY <1>4, <1>5, <1>6, <1>7, <1>8, <1>9 DEF Next, InCall

\* A user whose turn it is does not sleep unless a notify_all is on its way: the
\* wait on cv_ in acquire misses no turn.
THEOREM NoTurnIsSleptThrough == Spec => []NoTurnSleptThrough
<1>1. Init => IInv /\ NoTurnSleptThrough
  BY InitIInv DEF Init, NoTurnSleptThrough, At
<1>2. IInv /\ NoTurnSleptThrough /\ [Next]_vars => (IInv /\ NoTurnSleptThrough)'
  BY NextKeeps, TurnKept
<1> QED BY <1>1, <1>2, PTL DEF Spec
=============================================================================
