------------------------------ MODULE RangeSum ------------------------------
(***************************************************************************)
(* Laba1/Laba1Task2*.cpp: K threads add up the ranges of an array, in three    *)
(* programs of one shape: each thread adds its sum to the result under a        *)
(* mutex, or to an atomic long long, or adds every element to a shared int     *)
(* without any synchronisation ("ErrorDemonstration").  int wraps around at    *)
(* its width; the atomic result does not.                                    *)
(***************************************************************************)
EXTENDS Integers, Sequences, SequencesExt, FiniteSetsExt

CONSTANTS Arrays,  \* what vectorGenerator may make: sequences of numbers
          Ks,      \* the numbers of threads
          Half     \* how many negative values an int has: 2^31 for 32 bits

RangeAssumption == /\ Arrays \subseteq Seq(Nat)
                   /\ Ks \subseteq Nat \ {0} /\ IsFiniteSet(Ks)
                   /\ Half \in Nat \ {0}

VARIABLES variant,      \* which of the three programs
          nums, K,
          spawned, currentStart, remainder,  \* the loop of multipleThreaded
          range,        \* range[t]: the indices of thread t, as <<start, end>>
          stage,        \* stage[t]: where thread t is
          index, seen,  \* of the threads without synchronisation: the next index,
                        \* and the value of result they hold in a register
          sum,          \* result
          joined        \* join_all has returned

rangeVars == <<variant, nums, K, spawned, currentStart, remainder, range, stage, index,
               seen, sum, joined>>

SumThread == 0..(Max(Ks) - 1)

Init == /\ variant \in {"mutex", "atomic", "race"}
        /\ nums \in Arrays /\ K \in Ks
        /\ spawned = 0 /\ currentStart = 0 /\ remainder = Len(nums) % K
        /\ range = [t \in SumThread |-> <<0, -1>>]
        /\ stage = [t \in SumThread |-> "unborn"]
        /\ index = [t \in SumThread |-> 0] /\ seen = [t \in SumThread |-> 0]
        /\ sum = 0 /\ joined = FALSE
----------------------------------------------------------------------------
\* The value of an int that has been given the value n.
Wrap(n) == ((n + Half) % (2 * Half)) - Half

\* The elements of nums from index first to last, counted from 0.
Slice(first, last) == SubSeq(nums, first + 1, last + 1)

IntSum(s) == FoldLeft(LAMBDA total, n : Wrap(total + n), 0, s)

Input == <<variant, nums, K>>

\* Mutated form: the remainder is left out.
MutSpawn == LET currentEnd == currentStart + Len(nums) \div K - 1
            IN  /\ spawned < K
                /\ range' = [range EXCEPT ![spawned] = <<currentStart, currentEnd>>]
                /\ stage' = [stage EXCEPT ![spawned] = "add"]
                /\ index' = [index EXCEPT ![spawned] = currentStart]
                /\ currentStart' = currentEnd + 1
                /\ spawned' = spawned + 1
                /\ UNCHANGED <<Input, remainder, seen, sum, joined>>

\* The loop of multipleThreaded: the remainder goes to the first threads.
Spawn == LET extra == IF remainder > 0 THEN 1 ELSE 0
             currentEnd == currentStart + Len(nums) \div K - 1 + extra
         IN  /\ spawned < K
             /\ range' = [range EXCEPT ![spawned] = <<currentStart, currentEnd>>]
             /\ stage' = [stage EXCEPT ![spawned] = "add"]
             /\ index' = [index EXCEPT ![spawned] = currentStart]
             /\ remainder' = remainder - extra
             /\ currentStart' = currentEnd + 1
             /\ spawned' = spawned + 1
             /\ UNCHANGED <<Input, seen, sum, joined>>

\* sumInRange of the three programs
AddUnderMutex(t) == /\ variant = "mutex" /\ stage[t] = "add"
                    /\ sum' = Wrap(sum + IntSum(Slice(range[t][1], range[t][2])))
                    /\ stage' = [stage EXCEPT ![t] = "ended"]
                    /\ UNCHANGED <<Input, spawned, currentStart, remainder, range, index,
                                   seen, joined>>

AddAtomically(t) == /\ variant = "atomic" /\ stage[t] = "add"
                    /\ sum' = sum + IntSum(Slice(range[t][1], range[t][2]))
                    /\ stage' = [stage EXCEPT ![t] = "ended"]
                    /\ UNCHANGED <<Input, spawned, currentStart, remainder, range, index,
                                   seen, joined>>

\* A data race: the compiled loop may keep result in a register over any number
\* of elements, so a load is followed by some additions and then by a store.
Load(t) == /\ variant = "race" /\ stage[t] = "add" /\ index[t] <= range[t][2]
           /\ seen' = [seen EXCEPT ![t] = sum]
           /\ stage' = [stage EXCEPT ![t] = "loaded"]
           /\ UNCHANGED <<Input, spawned, currentStart, remainder, range, index, sum, joined>>

StoreAfter(t, last) ==
  /\ variant = "race" /\ stage[t] = "loaded" /\ last \in index[t]..range[t][2]
  /\ sum' = Wrap(seen[t] + IntSum(Slice(index[t], last)))
  /\ index' = [index EXCEPT ![t] = last + 1]
  /\ stage' = [stage EXCEPT ![t] = "add"]
  /\ UNCHANGED <<Input, spawned, currentStart, remainder, range, seen, joined>>

EndLoop(t) == /\ variant = "race" /\ stage[t] = "add" /\ index[t] > range[t][2]
              /\ stage' = [stage EXCEPT ![t] = "ended"]
              /\ UNCHANGED <<Input, spawned, currentStart, remainder, range, index, seen,
                             sum, joined>>

JoinAll == /\ ~joined /\ spawned = K /\ \A t \in 0..(K - 1) : stage[t] = "ended"
           /\ joined' = TRUE
           /\ UNCHANGED <<Input, spawned, currentStart, remainder, range, stage, index,
                          seen, sum>>

SumStep(t) == \/ AddUnderMutex(t) \/ AddAtomically(t)
              \/ Load(t) \/ (\E last \in DOMAIN nums \cup {0} : StoreAfter(t, last))
              \/ EndLoop(t)

Next == Spawn \/ JoinAll \/ \E t \in SumThread : SumStep(t)

Fairness == /\ WF_rangeVars(Spawn \/ JoinAll)
            /\ \A t \in SumThread : WF_rangeVars(SumStep(t))

Spec == Init /\ [][Next]_rangeVars /\ Fairness
----------------------------------------------------------------------------
\* main's own sum, against which the programs are to be verified
ExpectedSum == IntSum(nums)

Indices(t) == range[t][1]..range[t][2]

\* The ranges are a partition of the array, whatever K is.
RangesPartition ==
  spawned = K =>
    /\ UNION {Indices(t) : t \in SumThread} = 0..(Len(nums) - 1)
    /\ \A t, u \in SumThread : t # u => Indices(t) \cap Indices(u) = {}

\* The numbers fit into the threads' ints but their sum does not need to.
Elements(I) == MapThenSumSet(LAMBDA i : nums[i], I)
FitsInt == Elements(DOMAIN nums) < Half

\* With the mutex the result is the expected sum, overflow included.  The atomic
\* result is only congruent to it: equal when the whole sum fits an int.  The
\* race only loses additions: the result is the sum of some of the elements.
ResultAsFarAsSynchronised ==
  joined =>
    CASE variant = "mutex"  -> sum = ExpectedSum
      [] variant = "atomic" -> /\ Wrap(sum) = ExpectedSum
                               /\ FitsInt => sum = ExpectedSum
      [] variant = "race"   -> \E kept \in SUBSET (DOMAIN nums) :
                                 sum = Wrap(Elements(kept))

SumsConsistent == RangesPartition /\ ResultAsFarAsSynchronised
=============================================================================
