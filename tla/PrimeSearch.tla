----------------------------- MODULE PrimeSearch -----------------------------
(***************************************************************************)
(* Laba1/Laba1Task1.cpp: K threads look for the primes of 1..N, each in a       *)
(* range of its own, and append what they find to a common vector under a       *)
(* mutex.  The search itself is local: a thread is one step.                 *)
(***************************************************************************)
EXTENDS Integers, Sequences, SequencesExt, FiniteSetsExt

CONSTANTS Ns, PrimeKs  \* values of N and K

PrimeAssumption == /\ Ns \subseteq Nat \ {0}
                   /\ PrimeKs \subseteq Nat \ {0} /\ IsFiniteSet(PrimeKs)

VARIABLES N, threads,  \* N and K
          created, start, spare,  \* the loop of multipleThreaded
          work,    \* work[t]: the range of thread t, <<>> before it exists or after
          primes,
          counted  \* what main prints: <<>>, then one number

primeVars == <<N, threads, created, start, spare, work, primes, counted>>

PrimeThread == 1..Max(PrimeKs)

Init == /\ N \in Ns /\ threads \in PrimeKs
        /\ created = 0 /\ start = 1 /\ spare = N % threads
        /\ work = [t \in PrimeThread |-> <<>>]
        /\ primes = <<>> /\ counted = <<>>
----------------------------------------------------------------------------
\* Mutated form: the loop stops before the square root.
MutIsPrime(n) ==
  IF n <= 3 THEN n > 1
  ELSE /\ n % 2 # 0 /\ n % 3 # 0
       /\ \A k \in 0..n : LET i == 5 + 6 * k IN i * i < n => n % i # 0 /\ n % (i + 2) # 0

IsPrime(n) ==
  IF n <= 3 THEN n > 1
  ELSE /\ n % 2 # 0 /\ n % 3 # 0
       /\ \A k \in 0..n : LET i == 5 + 6 * k IN i * i <= n => n % i # 0 /\ n % (i + 2) # 0

\* The loop of findPrimesInRange: localPrimes after the numbers from first to last.
PrimesIn(first, last) ==
  FoldLeft(LAMBDA localPrimes, i : IF IsPrime(i) THEN Append(localPrimes, i) ELSE localPrimes,
           <<>>, [j \in 1..(last + 1 - first) |-> first + j - 1])

Create == LET extra == IF spare > 0 THEN 1 ELSE 0
              end == start + N \div threads - 1 + extra
          IN  /\ created < threads
              /\ work' = [work EXCEPT ![created + 1] = <<start, end>>]
              /\ created' = created + 1
              /\ start' = end + 1
              /\ spare' = spare - extra
              /\ UNCHANGED <<N, threads, primes, counted>>

FindPrimesInRange(t) == /\ work[t] # <<>>
                        /\ primes' = primes \o PrimesIn(work[t][1], work[t][2])
                        /\ work' = [work EXCEPT ![t] = <<>>]
                        /\ UNCHANGED <<N, threads, created, start, spare, counted>>

Count == /\ created = threads /\ \A t \in PrimeThread : work[t] = <<>>
         /\ counted = <<>>
         /\ counted' = <<Len(primes)>>
         /\ UNCHANGED <<N, threads, created, start, spare, work, primes>>

\* singleThreaded: the same search without threads.
SingleThreaded == Len(PrimesIn(1, N))

Next == Create \/ Count \/ \E t \in PrimeThread : FindPrimesInRange(t)

Fairness == WF_primeVars(Next)

Spec == Init /\ [][Next]_primeVars /\ Fairness
----------------------------------------------------------------------------
Prime(n) == n > 1 /\ \A d \in 2..(n - 1) : n % d # 0

\* No number is found twice, what is found is prime, and main counts them all, as
\* many as the search in one thread.
PrimesFound ==
  /\ IsInjective(primes)
  /\ ToSet(primes) \subseteq {n \in 1..N : Prime(n)}
  /\ counted # <<>> => counted = <<SingleThreaded>>
                       /\ counted = <<Cardinality({n \in 1..N : Prime(n)})>>
=============================================================================
