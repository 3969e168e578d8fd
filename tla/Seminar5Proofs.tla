--------------------------- MODULE Seminar5Proofs ---------------------------
(***************************************************************************)
(* Proofs about the programs of Seminar5 whose threads serve a queue, for     *)
(* any number of jobs, printers, workers, slots, tasks, files and permits.   *)
(***************************************************************************)
EXTENDS Seminar5, Integers, Sequences, Counting, SequenceTheorems

\* The size of a set is the same in each of the programs.
LEMMA SameSizes == \A S : /\ Printer!Cardinality(S) = Cardinality(S)
                          /\ Tasks!Cardinality(S) = Cardinality(S)
                          /\ Files!Cardinality(S) = Cardinality(S)
                          /\ Tasks!IsFiniteSet(S) <=> IsFiniteSet(S)
                          /\ Files!IsFiniteSet(S) <=> IsFiniteSet(S)
  BY Zenon DEF Printer!Cardinality, Tasks!Cardinality, Files!Cardinality, Cardinality,
               Tasks!IsFiniteSet, Files!IsFiniteSet, IsFiniteSet

(***************************************************************************)
(* PrinterQueue.  What QueueConsistent and NoJobSleptOver need besides       *)
(* themselves to be inductive: every submitted job is in one place, named    *)
(* job by job; the dispatcher that is about to sleep has seen an empty       *)
(* queue, and nobody can push while it holds the mutex; the bound of the     *)
(* model counts the threads that are to notify, too.                         *)
(***************************************************************************)
JobsApart ==
  \A j \in Printer!Job :
    /\ j <= submittedJobs <=> j \in jobs \/ j = job \/ j \in printing \/ j \in printed
    /\ j \in jobs => j # job /\ j \notin printing /\ j \notin printed
    /\ j = job => j \notin printing /\ j \notin printed
    /\ j \in printing => j \notin printed

DozesAtEmptyQueue == dispatcher = "doze" => jobs = {}
ReturningBounded == returning + notifying <= MaxReturning

PrinterInv == /\ Printer!TypeOK /\ Printer!PrintersAccountedFor
              /\ JobsApart /\ DozesAtEmptyQueue /\ ReturningBounded
              /\ Printer!NoJobSleptOver

LEMMA PrinterConstants ==
  /\ JobCount \in Nat /\ Printers \in Nat /\ MaxReturning \in Nat
  /\ JobPriority \in [Printer!Job -> Nat] /\ Printer!Job = 1..JobCount
  /\ Printer!Job \subseteq Nat
  BY Seminar5Assumption DEF Printer!PrinterAssumption, Printer!Job

\* Sets of jobs are finite.
LEMMA JobsFinite ==
  ASSUME NEW S \in SUBSET Printer!Job
  PROVE  IsFiniteSet(S) /\ Cardinality(S) \in Nat
<1>1. IsFiniteSet(1..JobCount)
  BY PrinterConstants, FS_Interval
<1>2. IsFiniteSet(S)
  BY <1>1, PrinterConstants, FS_Subset
<1> QED BY <1>2, FS_CardinalityType

\* Top is a queued job: the comparison orders the jobs strictly, so that a queue
\* that is not empty has a first one.
LEMMA TopJob ==
  ASSUME Printer!TypeOK, jobs # {}
  PROVE  Printer!Top \in jobs
<1> DEFINE R == {p \in jobs \X jobs : Printer!Before(p[1], p[2])}
<1>1. jobs \subseteq 1..JobCount /\ IsFiniteSet(jobs)
  BY JobsFinite, PrinterConstants DEF Printer!TypeOK
<1>2. \A x, y \in jobs : <<x, y>> \in R <=> Printer!Before(x, y)
  OBVIOUS
<1>3. \A x \in jobs : ~Printer!Before(x, x)
  BY <1>1, PrinterConstants DEF Printer!Before
<1>4. \A x, y, z \in jobs : Printer!Before(x, y) /\ Printer!Before(y, z)
                              => Printer!Before(x, z)
  BY <1>1, PrinterConstants DEF Printer!Before
<1>5. \A x, y \in jobs : x # y => Printer!Before(x, y) \/ Printer!Before(y, x)
  BY <1>1, PrinterConstants DEF Printer!Before
<1> HIDE DEF R
<1>6. /\ \A x \in jobs : <<x, x>> \notin R
      /\ \A x, y, z \in jobs : <<x, y>> \in R /\ <<y, z>> \in R => <<x, z>> \in R
  BY <1>2, <1>3, <1>4
<1>7. PICK x \in jobs : \A y \in jobs : <<y, x>> \notin R
  BY <1>1, <1>6, FirstOfFinite
<1>8. \A other \in jobs \ {x} : Printer!Before(x, other)
  BY <1>2, <1>5, <1>7
<1> QED BY <1>8 DEF Printer!Top

\* The invariant says what the run checks: disjoint places whose sizes add up.
LEMMA PrinterImplies == PrinterInv => Printer!QueueConsistent /\ Printer!NoJobSleptOver
<1> SUFFICES ASSUME PrinterInv PROVE Printer!JobsInOnePlace
  BY DEF PrinterInv, Printer!QueueConsistent
<1>1. /\ Printer!TypeOK /\ JobsApart /\ Printer!Taken \subseteq Printer!Job /\ submittedJobs \in Nat
      /\ 1..submittedJobs \subseteq Printer!Job
      /\ Printer!Taken = {j \in Printer!Job : j = job}
  BY PrinterConstants DEF PrinterInv, Printer!TypeOK, Printer!Taken
<1>2. /\ jobs \subseteq Printer!Job /\ printing \subseteq Printer!Job
      /\ printed \subseteq Printer!Job
  BY <1>1 DEF Printer!TypeOK
<1>3. jobs \cup Printer!Taken \cup printing \cup printed = 1..submittedJobs
  <2>1. \A j \in Printer!Job : j \in 1..submittedJobs <=> j <= submittedJobs
    BY <1>1, PrinterConstants
  <2>2. \A j \in Printer!Job :
          j \in 1..submittedJobs
            <=> j \in jobs \/ j \in Printer!Taken \/ j \in printing \/ j \in printed
    BY <1>1, <2>1 DEF JobsApart
  <2> QED BY <1>1, <1>2, <2>2
<1>4. /\ jobs \cap Printer!Taken = {}
      /\ (jobs \cup Printer!Taken) \cap printing = {}
      /\ (jobs \cup Printer!Taken \cup printing) \cap printed = {}
  BY <1>1, <1>2 DEF JobsApart
<1>5. /\ IsFiniteSet(jobs) /\ IsFiniteSet(Printer!Taken) /\ IsFiniteSet(printing)
      /\ IsFiniteSet(printed)
      /\ Cardinality(jobs) \in Nat /\ Cardinality(Printer!Taken) \in Nat
      /\ Cardinality(printing) \in Nat /\ Cardinality(printed) \in Nat
  BY <1>1, <1>2, JobsFinite
<1>6. Cardinality(jobs \cup Printer!Taken \cup printing \cup printed)
        = Cardinality(jobs) + Cardinality(Printer!Taken) + Cardinality(printing)
            + Cardinality(printed)
  BY <1>4, <1>5, FourPlaces
<1>7. Cardinality(1..submittedJobs) = submittedJobs
  BY <1>1, FS_Interval
<1>8. Cardinality(jobs) + Cardinality(Printer!Taken) + Cardinality(printing)
        + Cardinality(printed) = submittedJobs
  BY <1>3, <1>6, <1>7
<1> QED BY <1>3, <1>8, SameSizes DEF Printer!JobsInOnePlace

LEMMA PrinterInit == Printer!Init => PrinterInv
<1> SUFFICES ASSUME Printer!Init PROVE PrinterInv
  OBVIOUS
<1>1. Printer!TypeOK
  <2>1. /\ jobs = {} /\ printing = {} /\ printed = {}
        /\ submittedJobs = 0 /\ submitter = "idle" /\ dispatcher = "loop" /\ job = 0
        /\ returning = 0 /\ notifying = 0 /\ finishing = 0
        /\ semaphore = Printers /\ stopPrinter = FALSE /\ stopper = "before"
    BY DEF Printer!Init
  <2>2. 0 \in 0..JobCount /\ 0 \in 0..MaxReturning /\ Printers \in 0..Printers
    BY PrinterConstants
  <2> QED BY <2>1, <2>2 DEF Printer!TypeOK
<1>2. Printer!PrintersAccountedFor
  <2>1. /\ printing = {} /\ returning = 0 /\ finishing = 0 /\ semaphore = Printers
    BY DEF Printer!Init
  <2>2. Cardinality(printing) = 0 /\ Printers \in Nat
    BY <2>1, FS_EmptySet, PrinterConstants
  <2>3. semaphore + Cardinality(printing) + returning + finishing = Printers
    BY <2>1, <2>2
  <2> QED BY <2>3, SameSizes DEF Printer!PrintersAccountedFor
<1>3. JobsApart
  BY PrinterConstants DEF JobsApart, Printer!Init
<1> QED BY <1>1, <1>2, <1>3, PrinterConstants
        DEF PrinterInv, DozesAtEmptyQueue, ReturningBounded, Printer!NoJobSleptOver,
            Printer!Init
----------------------------------------------------------------------------
\* The steps of main: submit and stop.
LEMMA PrinterMainKeeps ==
  ASSUME PrinterInv,
         Printer!Submit \/ Printer!SubmitNotify \/ Printer!StoreStop \/ Printer!StopNotify
  PROVE  PrinterInv'
<1> USE PrinterConstants
        DEF PrinterInv, Printer!TypeOK, Printer!PrintersAccountedFor, JobsApart,
            DozesAtEmptyQueue, ReturningBounded, Printer!NoJobSleptOver,
            Printer!stopVars, Printer!threadVars, Printer!submitVars, Printer!Woken
<1>1. CASE Printer!Submit
  BY <1>1 DEF Printer!Submit, Printer!MutexFree
<1>2. CASE Printer!SubmitNotify
  BY <1>2 DEF Printer!SubmitNotify
<1>3. CASE Printer!StoreStop
  BY <1>3 DEF Printer!StoreStop
<1>4. CASE Printer!StopNotify
  BY <1>4 DEF Printer!StopNotify
<1> QED BY <1>1, <1>2, <1>3, <1>4
\* The dispatcher without a job in its hands, woken, and a thread that notifies it.
LEMMA DispatcherMovesKeep ==
  ASSUME PrinterInv,
         \/ Printer!CheckStop \/ Printer!Doze \/ Printer!FallAsleep \/ Printer!QuitInWait
         \/ Printer!SpuriousWake \/ Printer!NotifyReturned
  PROVE  PrinterInv'
<1> USE PrinterConstants
        DEF PrinterInv, Printer!TypeOK, Printer!PrintersAccountedFor, JobsApart,
            DozesAtEmptyQueue, ReturningBounded, Printer!NoJobSleptOver,
            Printer!stopVars, Printer!threadVars, Printer!submitVars
<1>1. CASE Printer!CheckStop
  BY <1>1 DEF Printer!CheckStop, Printer!DispatcherMoves
<1>2. CASE Printer!Doze
  BY <1>2 DEF Printer!Doze, Printer!DispatcherMoves
<1>3. CASE Printer!FallAsleep
  BY <1>3 DEF Printer!FallAsleep, Printer!DispatcherMoves
<1>4. CASE Printer!QuitInWait
  BY <1>4 DEF Printer!QuitInWait, Printer!DispatcherMoves
<1>5. CASE Printer!SpuriousWake
  BY <1>5 DEF Printer!SpuriousWake, Printer!DispatcherMoves
<1>6. CASE Printer!NotifyReturned
  BY <1>6 DEF Printer!NotifyReturned, Printer!Woken
<1> QED BY <1>1, <1>2, <1>3, <1>4, <1>5, <1>6

\* The dispatcher takes the top of the queue and puts it back: no printer is touched.
LEMMA TakeAndPutBackKeep ==
  ASSUME PrinterInv, Printer!TakeJob \/ Printer!PutBack
  PROVE  PrinterInv'
<1> USE PrinterConstants
        DEF PrinterInv, Printer!TypeOK, Printer!PrintersAccountedFor, JobsApart,
            DozesAtEmptyQueue, ReturningBounded, Printer!NoJobSleptOver,
            Printer!stopVars, Printer!threadVars, Printer!submitVars
<1>1. CASE Printer!TakeJob
  <2>1. Printer!Top \in jobs
    BY <1>1, TopJob DEF Printer!TakeJob
  <2> DEFINE top == Printer!Top
  <2>2. /\ dispatcher = "wait" /\ dispatcher' = "permit"
        /\ job' = top /\ jobs' = jobs \ {top}
        /\ UNCHANGED <<submittedJobs, submitter, printing, returning, notifying,
                       finishing, printed, semaphore, stopPrinter, stopper>>
    BY <1>1 DEF Printer!TakeJob
  <2> HIDE DEF top
  <2>3. top \in jobs
    BY <2>1 DEF top
  <2> QED BY <2>2, <2>3
<1>2. CASE Printer!PutBack
  BY <1>2 DEF Printer!PutBack
<1> QED BY <1>1, <1>2

\* A set of jobs that one job enters or leaves.
LEMMA OneJob ==
  ASSUME NEW S \in SUBSET Printer!Job, NEW j \in Printer!Job
  PROVE  /\ Cardinality(S) \in Nat
         /\ j \notin S => Cardinality(S \cup {j}) = Cardinality(S) + 1
         /\ j \in S => Cardinality(S \ {j}) = Cardinality(S) - 1
  BY JobsFinite, FS_AddElement, FS_RemoveElement

\* The parts of the invariant that say nothing of the printers.
JobsInv == /\ Printer!TypeOK /\ JobsApart /\ DozesAtEmptyQueue /\ ReturningBounded
           /\ Printer!NoJobSleptOver

\* The printers, by number.
LEMMA PrinterParts ==
  PrinterInv <=> /\ JobsInv
                 /\ semaphore + Cardinality(printing) + returning + finishing = Printers
  BY SameSizes DEF PrinterInv, JobsInv, Printer!PrintersAccountedFor
\* A printer is taken by a printing thread.
LEMMA StartPrintingKeeps ==
  ASSUME PrinterInv, Printer!StartPrinting
  PROVE  PrinterInv'
<1> USE DEF JobsInv, Printer!TypeOK, JobsApart, DozesAtEmptyQueue, ReturningBounded,
            Printer!NoJobSleptOver, Printer!stopVars, Printer!submitVars
<1>0. /\ dispatcher = "permit" /\ dispatcher' = "loop" /\ job' = 0
      /\ semaphore > 0 /\ semaphore' = semaphore - 1 /\ printing' = printing \cup {job}
      /\ UNCHANGED <<jobs, submittedJobs, submitter, returning, notifying, finishing,
                     printed, stopPrinter, stopper>>
      /\ JobsInv
  BY PrinterParts DEF Printer!StartPrinting
<1>1. JobsInv'
  <2>1. job \in 1..JobCount /\ job \in Printer!Job /\ 0 \notin Printer!Job
    BY <1>0, PrinterConstants
  <2>2. semaphore' \in 0..Printers /\ 0 \in 0..JobCount
    BY <1>0, PrinterConstants
  <2>3. Printer!TypeOK'
    BY <1>0, <2>1, <2>2
  <2>4. JobsApart'
    BY <1>0, <2>1
  <2>5. DozesAtEmptyQueue' /\ ReturningBounded' /\ Printer!NoJobSleptOver'
    BY <1>0
  <2> QED BY <2>3, <2>4, <2>5
<1>2. /\ job \in Printer!Job /\ job \notin printing /\ printing \subseteq Printer!Job
  BY PrinterParts, PrinterConstants DEF Printer!StartPrinting
<1>3. Cardinality(printing') = Cardinality(printing) + 1 /\ Cardinality(printing) \in Nat
  BY <1>2, OneJob DEF Printer!StartPrinting
<1>4. semaphore' + Cardinality(printing') + returning' + finishing' = Printers
  BY <1>3, PrinterParts, PrinterConstants DEF Printer!StartPrinting
<1> QED BY <1>1, <1>4, SameSizes
        DEF PrinterInv, Printer!PrintersAccountedFor

\* A printing thread puts its job back, or ends it, and holds the printer still.
LEMMA PrintingEndsKeeps ==
  ASSUME PrinterInv, NEW j \in Printer!Job, Printer!Interrupt(j) \/ Printer!Finish(j)
  PROVE  PrinterInv'
<1> USE DEF JobsInv, Printer!TypeOK, JobsApart, DozesAtEmptyQueue, ReturningBounded,
            Printer!NoJobSleptOver, Printer!stopVars, Printer!submitVars,
            Printer!MutexFree
<1>1. /\ j \in printing /\ printing' = printing \ {j} /\ printing \subseteq Printer!Job
      /\ semaphore' = semaphore /\ Printers \in Nat
  BY PrinterParts, PrinterConstants DEF Printer!Interrupt, Printer!Finish
<1>2. Cardinality(printing') = Cardinality(printing) - 1 /\ Cardinality(printing) \in Nat
  BY <1>1, OneJob
<1>3. semaphore \in Nat /\ returning \in Nat /\ finishing \in Nat
  BY PrinterParts, PrinterConstants
<1>4. semaphore + Cardinality(printing) + returning + finishing = Printers
  BY PrinterParts
<1>5. CASE Printer!Interrupt(j)
  <2>0. /\ returning + notifying < MaxReturning /\ dispatcher # "doze"
        /\ jobs' = jobs \cup {j} /\ returning' = returning + 1
        /\ UNCHANGED <<submittedJobs, submitter, dispatcher, job, notifying, finishing,
                       printed, semaphore, stopPrinter, stopper>>
        /\ JobsInv
    BY <1>5, PrinterParts DEF Printer!Interrupt
  <2>1. JobsInv'
    <3>0. /\ notifying \in Nat /\ MaxReturning \in Nat
          /\ returning + 1 \in 0..MaxReturning /\ returning + 1 + notifying <= MaxReturning
          /\ returning + 1 + notifying > 0
      BY <2>0, <1>3, PrinterConstants
    <3>1. Printer!TypeOK'
      BY <1>1, <2>0, <3>0
    <3>2. JobsApart'
      BY <1>1, <2>0
    <3>3. DozesAtEmptyQueue' /\ ReturningBounded' /\ Printer!NoJobSleptOver'
      BY <2>0, <3>0
    <3> QED BY <3>1, <3>2, <3>3
  <2>2. returning' = returning + 1 /\ finishing' = finishing
    BY <1>5 DEF Printer!Interrupt
  <2>3. semaphore' + Cardinality(printing') + returning' + finishing' = Printers
    BY <1>1, <1>2, <1>3, <1>4, <2>2
  <2> QED BY <2>1, <2>3, SameSizes DEF PrinterInv, Printer!PrintersAccountedFor
<1>6. CASE Printer!Finish(j)
  <2>0. /\ dispatcher # "doze"
        /\ printed' = printed \cup {j} /\ finishing' = finishing + 1
        /\ UNCHANGED <<jobs, submittedJobs, submitter, dispatcher, job, returning,
                       notifying, semaphore, stopPrinter, stopper>>
        /\ JobsInv
    BY <1>6, PrinterParts DEF Printer!Finish
  <2>1. JobsInv'
    <3>1. Printer!TypeOK'
      BY <1>1, <1>3, <2>0
    <3>2. JobsApart'
      BY <1>1, <2>0
    <3>3. DozesAtEmptyQueue' /\ ReturningBounded' /\ Printer!NoJobSleptOver'
      BY <2>0
    <3> QED BY <3>1, <3>2, <3>3
  <2>2. finishing' = finishing + 1 /\ returning' = returning
    BY <1>6 DEF Printer!Finish
  <2>3. semaphore' + Cardinality(printing') + returning' + finishing' = Printers
    BY <1>1, <1>2, <1>3, <1>4, <2>2
  <2> QED BY <2>1, <2>3, SameSizes DEF PrinterInv, Printer!PrintersAccountedFor
<1> QED BY <1>5, <1>6

\* A thread gives its printer back: there is room for it.
LEMMA ReleasesKeep ==
  ASSUME PrinterInv, Printer!ReleaseInterrupted \/ Printer!ReleaseFinished
  PROVE  PrinterInv'
<1> USE DEF JobsInv, Printer!TypeOK, JobsApart, DozesAtEmptyQueue, ReturningBounded,
            Printer!NoJobSleptOver, Printer!stopVars, Printer!submitVars
<1>1. /\ semaphore \in Nat /\ returning \in Nat /\ finishing \in Nat
      /\ Cardinality(printing) \in Nat /\ Printers \in Nat
  BY PrinterParts, PrinterConstants, JobsFinite
<1>2. semaphore + Cardinality(printing) + returning + finishing = Printers
  BY PrinterParts
<1>3. CASE Printer!ReleaseInterrupted
  <2>1. /\ returning > 0 /\ returning' = returning - 1 /\ finishing' = finishing
        /\ printing' = printing /\ semaphore' = semaphore + 1
    BY <1>3 DEF Printer!ReleaseInterrupted
  <2>2. /\ semaphore' \in 0..Printers
        /\ semaphore' + Cardinality(printing') + returning' + finishing' = Printers
    BY <1>1, <1>2, <2>1
  <2>3. JobsInv'
    <3>1. Printer!TypeOK'
      <4>1. notifying' = notifying + 1 /\ notifying \in Nat /\ MaxReturning \in Nat
            /\ returning + notifying <= MaxReturning
        BY <1>3, PrinterParts, PrinterConstants DEF Printer!ReleaseInterrupted
      <4>2. notifying' \in 0..MaxReturning /\ returning' \in 0..MaxReturning
        BY <1>1, <2>1, <4>1
      <4> QED BY <1>3, <2>1, <2>2, <4>2, PrinterParts DEF Printer!ReleaseInterrupted
    <3>2. JobsApart' /\ DozesAtEmptyQueue' /\ ReturningBounded'
      BY <1>3, <1>1, PrinterParts, PrinterConstants DEF Printer!ReleaseInterrupted
    <3>3. Printer!NoJobSleptOver'
      BY <1>3, <1>1, PrinterParts, PrinterConstants DEF Printer!ReleaseInterrupted
    <3> QED BY <3>1, <3>2, <3>3
  <2> QED BY <2>2, <2>3, SameSizes DEF PrinterInv, Printer!PrintersAccountedFor
<1>4. CASE Printer!ReleaseFinished
  <2>1. /\ finishing > 0 /\ finishing' = finishing - 1 /\ returning' = returning
        /\ printing' = printing /\ semaphore' = semaphore + 1
    BY <1>4 DEF Printer!ReleaseFinished
  <2>2. /\ semaphore' \in 0..Printers
        /\ semaphore' + Cardinality(printing') + returning' + finishing' = Printers
    BY <1>1, <1>2, <2>1
  <2>3. JobsInv'
    <3>1. Printer!TypeOK'
      BY <1>4, <1>1, <2>2, PrinterParts, PrinterConstants DEF Printer!ReleaseFinished
    <3>2. JobsApart' /\ DozesAtEmptyQueue' /\ ReturningBounded'
      BY <1>4, <1>1, PrinterParts, PrinterConstants DEF Printer!ReleaseFinished
    <3>3. Printer!NoJobSleptOver'
      BY <1>4, <1>1, PrinterParts, PrinterConstants DEF Printer!ReleaseFinished
    <3> QED BY <3>1, <3>2, <3>3
  <2> QED BY <2>2, <2>3, SameSizes DEF PrinterInv, Printer!PrintersAccountedFor
<1> QED BY <1>3, <1>4

LEMMA PrinterStands == PrinterInv /\ UNCHANGED printerVars => PrinterInv'
  BY DEF PrinterInv, Printer!TypeOK, Printer!PrintersAccountedFor, JobsApart,
         DozesAtEmptyQueue, ReturningBounded, Printer!NoJobSleptOver, printerVars

LEMMA PrinterNext == PrinterInv /\ Printer!Next => PrinterInv'
  BY PrinterMainKeeps, DispatcherMovesKeep, TakeAndPutBackKeep, StartPrintingKeeps,
     PrintingEndsKeeps, ReleasesKeep DEF Printer!Next, Printer!Dispatch

\* Of the chosen program only the printers take steps, so their invariant is one of
\* the specification.
LEMMA PrinterInvariant == Spec => [](program = "PrinterQueue" => PrinterInv)
<1>1. Init => (program = "PrinterQueue" => PrinterInv)
  BY PrinterInit DEF Init
<1>2. (program = "PrinterQueue" => PrinterInv) /\ [Next]_vars
        => (program = "PrinterQueue" => PrinterInv)'
  BY PrinterNext, PrinterStands DEF Next, vars
<1> QED BY <1>1, <1>2, PTL DEF Spec

\* However jobs time out, are interrupted and put back, every submitted job is in one
\* place and every printer is accounted for.
THEOREM QueueAgrees == Spec => []QueueConsistent
<1>1. (program = "PrinterQueue" => PrinterInv) => QueueConsistent
  BY PrinterImplies DEF QueueConsistent
<1> QED BY <1>1, PrinterInvariant, PTL

\* The dispatcher sleeps beside no job without a notification on its way.
THEOREM NoJobIsSleptOver == Spec => []NoJobSleptOver
<1>1. (program = "PrinterQueue" => PrinterInv) => NoJobSleptOver
  BY PrinterImplies DEF NoJobSleptOver
<1> QED BY <1>1, PrinterInvariant, PTL
(***************************************************************************)
(* TaskScheduler.  What SchedulerConsistent and NoWorkSleptOver need besides *)
(* themselves to be inductive: where a worker is says whether it has a task  *)
(* and how many slots it may hold; ids are those submitted and no two tasks  *)
(* have the same; a worker that is about to sleep has seen an empty queue.   *)
(***************************************************************************)
WorkersPlaced ==
  \A w \in Worker :
    /\ pcTask[w] \in {"slots", "execute", "count"} <=> task[w] # Tasks!NoTask
    /\ pcTask[w] = "slots" => held[w] < task[w].required_slots
    /\ pcTask[w] = "execute" => held[w] = task[w].required_slots
    /\ pcTask[w] \notin {"slots", "execute"} => held[w] = 0

IdsDiffer ==
  /\ \A k \in tasks : k.id <= submitted
  /\ \A k, l \in tasks : k.id = l.id => k = l
  /\ \A w \in Tasks!Busy : task[w].id <= submitted
  /\ \A w \in Tasks!Busy, k \in tasks : task[w].id # k.id
  /\ \A v, w \in Tasks!Busy : task[v].id = task[w].id => v = w

DozersSawNoTask == \A w \in Worker : pcTask[w] = "doze" => tasks = {}

TasksCounted == submitted = Cardinality(tasks) + Cardinality(Tasks!Busy) + completedTasks
SlotsCounted == slots + Cardinality(Tasks!HeldSlots) = TotalSlots

SchedulerInv == /\ Tasks!TypeOK /\ IsFiniteSet(tasks) /\ held \in [Worker -> Nat]
                /\ WorkersPlaced /\ IdsDiffer /\ DozersSawNoTask
                /\ SlotsCounted /\ TasksCounted /\ Tasks!NoWorkSleptOver

LEMMA SchedulerConstants ==
  /\ IsFiniteSet(Worker) /\ TotalSlots \in Nat /\ MaxRequired \in Nat \ {0}
  /\ TaskPriority \subseteq Nat /\ TaskCount \in Nat
  BY Seminar5Assumption, SameSizes DEF Tasks!SchedulerAssumption

LEMMA SomeWorkers ==
  ASSUME NEW S \in SUBSET Worker
  PROVE  IsFiniteSet(S) /\ Cardinality(S) \in Nat
  BY SchedulerConstants, FS_Subset, FS_CardinalityType

\* What is typed before a step.
LEMMA SchedulerTyped ==
  ASSUME SchedulerInv
  PROVE  /\ tasks \subseteq Tasks!Task /\ IsFiniteSet(tasks)
         /\ Cardinality(tasks) \in Nat
         /\ submitted \in 0..TaskCount /\ submitted \in Nat
         /\ mainTasks \in {"submit", "notify", "stopping", "done"}
         /\ stopTasks \in BOOLEAN
         /\ pcTask \in [Worker -> {"loop", "wait", "doze", "asleep", "slots",
                                   "execute", "count", "returned"}]
         /\ task \in [Worker -> Tasks!Task \cup {Tasks!NoTask}]
         /\ \A w \in Worker : held[w] \in 0..task[w].required_slots
         /\ held \in [Worker -> Nat]
         /\ slots \in 0..TotalSlots
         /\ completedTasks \in 0..TaskCount /\ completedTasks \in Nat
         /\ TaskCount \in Nat
<1>1. /\ Tasks!TypeOK /\ IsFiniteSet(tasks) /\ TaskCount \in Nat
      /\ held \in [Worker -> Nat]
  BY SchedulerConstants DEF SchedulerInv
<1>2. Cardinality(tasks) \in Nat
  BY <1>1, FS_CardinalityType
<1>3. submitted \in 0..TaskCount /\ completedTasks \in 0..TaskCount
  BY <1>1 DEF Tasks!TypeOK
<1>4. submitted \in Nat /\ completedTasks \in Nat
  BY <1>1, <1>3
<1> QED BY <1>1, <1>2, <1>3, <1>4 DEF Tasks!TypeOK

\* A task and its needs.
LEMMA TaskTyped ==
  ASSUME NEW k \in Tasks!Task
  PROVE  /\ k # Tasks!NoTask /\ k.id \in 1..TaskCount
         /\ k.required_slots \in 1..MaxRequired /\ k.priority \in Nat
<1>1. k \in [id : 1..TaskCount, required_slots : 1..MaxRequired, priority : TaskPriority]
  BY DEF Tasks!Task
<1>2. /\ k.id \in 1..TaskCount /\ k.required_slots \in 1..MaxRequired
      /\ k.priority \in TaskPriority
  BY <1>1
<1>3. k.id # 0
  BY <1>2, SchedulerConstants
<1>4. Tasks!NoTask.id = 0
  BY DEF Tasks!NoTask
<1>5. k # Tasks!NoTask
  BY <1>3, <1>4
<1>6. k.priority \in Nat
  BY <1>2, SchedulerConstants
<1> QED BY <1>2, <1>5, <1>6

\* Top is a queued task: the ids differ, so that the comparison orders them strictly.
LEMMA TopTask ==
  ASSUME SchedulerInv, tasks # {}
  PROVE  Tasks!Top(tasks) \in tasks
<1> DEFINE R == {p \in tasks \X tasks : Tasks!Before(p[1], p[2])}
<1>1. \A k \in tasks : k.id \in Nat /\ k.priority \in Nat
  BY SchedulerTyped, TaskTyped, SchedulerConstants
<1>2. \A x, y \in tasks : <<x, y>> \in R <=> Tasks!Before(x, y)
  OBVIOUS
<1>3. \A x \in tasks : ~Tasks!Before(x, x)
  BY <1>1 DEF Tasks!Before
<1>4. \A x, y, z \in tasks : Tasks!Before(x, y) /\ Tasks!Before(y, z)
                               => Tasks!Before(x, z)
  BY <1>1 DEF Tasks!Before
<1>5. \A x, y \in tasks : x # y => Tasks!Before(x, y) \/ Tasks!Before(y, x)
  BY <1>1 DEF Tasks!Before, SchedulerInv, IdsDiffer
<1> HIDE DEF R
<1>6. /\ \A x \in tasks : <<x, x>> \notin R
      /\ \A x, y, z \in tasks : <<x, y>> \in R /\ <<y, z>> \in R => <<x, z>> \in R
  BY <1>2, <1>3, <1>4
<1>7. PICK x \in tasks : \A y \in tasks : <<y, x>> \notin R
  BY <1>6, SchedulerTyped, FirstOfFinite
<1>8. \A other \in tasks \ {x} : Tasks!Before(x, other)
  BY <1>2, <1>5, <1>7
<1> QED BY <1>8 DEF Tasks!Top

\* The invariant says what the run checks.
LEMMA SchedulerImplies ==
  SchedulerInv => Tasks!SchedulerConsistent /\ Tasks!NoWorkSleptOver
<1> SUFFICES ASSUME SchedulerInv
             PROVE  Tasks!SlotsConserved /\ Tasks!TasksAccountedFor
  BY DEF SchedulerInv, Tasks!SchedulerConsistent
<1>1. Tasks!SlotsConserved
  BY SameSizes DEF SchedulerInv, SlotsCounted, Tasks!SlotsConserved
<1>2. submitted = Tasks!Cardinality(tasks) + Tasks!Cardinality(Tasks!Busy)
                    + completedTasks
  BY SameSizes DEF SchedulerInv, TasksCounted
<1>3. \A w \in Tasks!Busy : /\ task[w] \notin tasks
                            /\ \A other \in Tasks!Busy \ {w} : task[other].id # task[w].id
  BY DEF SchedulerInv, IdsDiffer
<1> QED BY <1>1, <1>2, <1>3 DEF Tasks!TasksAccountedFor

LEMMA SchedulerInit == Tasks!Init => SchedulerInv
<1> SUFFICES ASSUME Tasks!Init PROVE SchedulerInv
  OBVIOUS
<1>1. /\ tasks = {} /\ submitted = 0 /\ mainTasks = "submit" /\ stopTasks = FALSE
      /\ pcTask = [w \in Worker |-> "loop"]
      /\ task = [w \in Worker |-> Tasks!NoTask] /\ held = [w \in Worker |-> 0]
      /\ slots = TotalSlots /\ completedTasks = 0
  BY DEF Tasks!Init
<1>2. Tasks!TypeOK
  <2>1. 0 \in 0..TaskCount /\ TotalSlots \in 0..TotalSlots
    BY SchedulerConstants
  <2>2. \A w \in Worker : held[w] \in 0..task[w].required_slots
    BY <1>1 DEF Tasks!NoTask
  <2> QED BY <1>1, <2>1, <2>2 DEF Tasks!TypeOK
<1>3. Tasks!Busy = {} /\ Tasks!HeldSlots = {} /\ Tasks!Asleep = {}
  BY <1>1, SchedulerConstants DEF Tasks!Busy, Tasks!HeldSlots, Tasks!Asleep
<1>4. IsFiniteSet({}) /\ Cardinality({}) = 0
  BY FS_EmptySet
<1>5. SlotsCounted /\ TasksCounted
  <2>1. slots + 0 = TotalSlots /\ submitted = 0 + 0 + completedTasks
    BY <1>1, SchedulerConstants
  <2> QED BY <1>1, <1>3, <1>4, <2>1 DEF SlotsCounted, TasksCounted
<1>6. WorkersPlaced /\ IdsDiffer /\ DozersSawNoTask /\ Tasks!NoWorkSleptOver
  BY <1>1, <1>3 DEF WorkersPlaced, IdsDiffer, DozersSawNoTask, Tasks!NoWorkSleptOver
<1> QED BY <1>1, <1>2, <1>4, <1>5, <1>6 DEF SchedulerInv----------------------------------------------------------------------------
\* Where a worker has no task, and its labels.
Resting == {"loop", "wait", "doze", "asleep", "returned"}
Label == {"loop", "wait", "doze", "asleep", "slots", "execute", "count", "returned"}

\* The workers on their way to the queue, when one worker moves.
LEMMA ComingChanges ==
  ASSUME NEW w \in Worker, \A v \in Worker \ {w} : pcTask'[v] = pcTask[v]
  PROVE  /\ Cardinality(Tasks!Coming) \in Nat /\ Cardinality(Tasks!Coming') \in Nat
         /\ Cardinality(Tasks!Coming') = Cardinality(Tasks!Coming)
              + (IF pcTask'[w] \in {"loop", "wait"} THEN 1 ELSE 0)
              - (IF pcTask[w] \in {"loop", "wait"} THEN 1 ELSE 0)
<1> DEFINE A == {v \in Worker : pcTask[v] \in {"loop", "wait"}}
           B == {v \in Worker : pcTask'[v] \in {"loop", "wait"}}
<1>1. A \in SUBSET Worker
  OBVIOUS
<1>2. IsFiniteSet(A)
  BY <1>1, SomeWorkers
<1>3. A \ {w} = B \ {w}
  OBVIOUS
<1>4. /\ Cardinality(A) \in Nat /\ Cardinality(B) \in Nat
      /\ Cardinality(B) = Cardinality(A) + Change(A, B, w)
  BY <1>2, <1>3, OneElementChanges
<1>5. Change(A, B, w) = (IF pcTask'[w] \in {"loop", "wait"} THEN 1 ELSE 0)
                          - (IF pcTask[w] \in {"loop", "wait"} THEN 1 ELSE 0)
  BY DEF Change
<1>6. Tasks!Coming = A /\ Tasks!Coming' = B
  BY DEF Tasks!Coming
<1> QED BY <1>4, <1>5, <1>6

\* The workers with a task, when one worker takes or ends one.
LEMMA BusyChanges ==
  ASSUME NEW w \in Worker, \A v \in Worker \ {w} : task'[v] = task[v]
  PROVE  /\ Cardinality(Tasks!Busy) \in Nat /\ Cardinality(Tasks!Busy') \in Nat
         /\ Cardinality(Tasks!Busy') = Cardinality(Tasks!Busy)
              + (IF task'[w] # Tasks!NoTask THEN 1 ELSE 0)
              - (IF task[w] # Tasks!NoTask THEN 1 ELSE 0)
<1> DEFINE A == {v \in Worker : task[v] # Tasks!NoTask}
           B == {v \in Worker : task'[v] # Tasks!NoTask}
<1>1. A \in SUBSET Worker
  OBVIOUS
<1>2. IsFiniteSet(A)
  BY <1>1, SomeWorkers
<1>3. A \ {w} = B \ {w}
  OBVIOUS
<1>4. /\ Cardinality(A) \in Nat /\ Cardinality(B) \in Nat
      /\ Cardinality(B) = Cardinality(A) + Change(A, B, w)
  BY <1>2, <1>3, OneElementChanges
<1>5. Change(A, B, w) = (IF task'[w] # Tasks!NoTask THEN 1 ELSE 0)
                          - (IF task[w] # Tasks!NoTask THEN 1 ELSE 0)
  BY DEF Change
<1>6. Tasks!Busy = A /\ Tasks!Busy' = B
  BY DEF Tasks!Busy
<1> QED BY <1>4, <1>5, <1>6

\* Nobody sleeps beside work, by number.
Owed == IF mainTasks = "notify" THEN 1 ELSE 0
LEMMA NoWorkByNumber ==
  Tasks!NoWorkSleptOver <=>
    (~stopTasks /\ Tasks!Asleep # {} =>
       Cardinality(tasks) <= Cardinality(Tasks!Coming) + Owed)
  BY SameSizes DEF Tasks!NoWorkSleptOver, Owed

\* A step that moves no task and no slot.
LEMMA LightStepKept ==
  ASSUME SchedulerInv,
         UNCHANGED <<tasks, submitted, task, held, slots, completedTasks>>,
         mainTasks' \in {"submit", "notify", "stopping", "done"}, stopTasks' \in BOOLEAN,
         pcTask' \in [Worker -> Label],
         \A v \in Worker : \/ pcTask'[v] = pcTask[v]
                           \/ pcTask[v] \in Resting /\ pcTask'[v] \in Resting,
         \A v \in Worker : pcTask'[v] = "doze" => tasks = {},
         Tasks!NoWorkSleptOver'
  PROVE  SchedulerInv'
<1>1. Tasks!TypeOK'
  BY SchedulerTyped DEF Tasks!TypeOK, Label
<1>2. WorkersPlaced'
  <2> SUFFICES ASSUME NEW w \in Worker
               PROVE  /\ pcTask'[w] \in {"slots", "execute", "count"} <=> task[w] # Tasks!NoTask
                      /\ pcTask'[w] = "slots" => held[w] < task[w].required_slots
                      /\ pcTask'[w] = "execute" => held[w] = task[w].required_slots
                      /\ pcTask'[w] \notin {"slots", "execute"} => held[w] = 0
    BY DEF WorkersPlaced
  <2>1. /\ pcTask[w] \in {"slots", "execute", "count"} <=> task[w] # Tasks!NoTask
        /\ pcTask[w] = "slots" => held[w] < task[w].required_slots
        /\ pcTask[w] = "execute" => held[w] = task[w].required_slots
        /\ pcTask[w] \notin {"slots", "execute"} => held[w] = 0
    BY DEF SchedulerInv, WorkersPlaced
  <2> QED BY <2>1 DEF Resting
<1>3. /\ IdsDiffer' /\ SlotsCounted' /\ TasksCounted' /\ DozersSawNoTask'
      /\ IsFiniteSet(tasks') /\ held' \in [Worker -> Nat]
  BY DEF SchedulerInv, IdsDiffer, SlotsCounted, TasksCounted, DozersSawNoTask, Tasks!Busy,
         Tasks!HeldSlots
<1> QED BY <1>1, <1>2, <1>3 DEF SchedulerInv

\* The steps of stop(): afterwards nobody sleeps, or nobody needs to.
LEMMA SchedulerStopsKeep ==
  ASSUME SchedulerInv, Tasks!StoreStop \/ Tasks!StopNotify
  PROVE  SchedulerInv'
<1>1. CASE Tasks!StoreStop
  <2>1. /\ mainTasks' = "stopping" /\ stopTasks' = TRUE
        /\ UNCHANGED <<tasks, submitted, pcTask, task, held, slots, completedTasks>>
    BY <1>1 DEF Tasks!StoreStop, Tasks!taskVars
  <2>2. Tasks!NoWorkSleptOver'
    BY <2>1 DEF Tasks!NoWorkSleptOver
  <2> QED BY <2>1, <2>2, SchedulerTyped, LightStepKept
          DEF Label, SchedulerInv, DozersSawNoTask
<1>2. CASE Tasks!StopNotify
  <2>1. /\ mainTasks' = "done"
        /\ pcTask' = [w \in Worker |-> IF w \in Tasks!Asleep THEN "wait" ELSE pcTask[w]]
        /\ UNCHANGED <<tasks, submitted, stopTasks, task, held, slots, completedTasks>>
    BY <1>2 DEF Tasks!StopNotify, Tasks!taskVars
  <2>2. /\ pcTask' \in [Worker -> Label]
        /\ \A v \in Worker : \/ pcTask'[v] = pcTask[v]
                             \/ pcTask[v] \in Resting /\ pcTask'[v] \in Resting
        /\ \A v \in Worker : pcTask'[v] # "asleep"
        /\ \A v \in Worker : pcTask'[v] = "doze" => pcTask[v] = "doze"
    BY <2>1, SchedulerTyped DEF Label, Resting, Tasks!Asleep
  <2>3. Tasks!Asleep' = {}
    BY <2>2 DEF Tasks!Asleep
  <2>4. Tasks!NoWorkSleptOver'
    BY <2>3 DEF Tasks!NoWorkSleptOver
  <2> QED BY <2>1, <2>2, <2>4, SchedulerTyped, LightStepKept
          DEF SchedulerInv, DozersSawNoTask
<1> QED BY <1>1, <1>2

\* A worker moves among the labels where it has no task.
LEMMA WorkerMovesKeeps ==
  ASSUME SchedulerInv, NEW w \in Worker, NEW to \in Resting, pcTask[w] \in Resting,
         pcTask' = [pcTask EXCEPT ![w] = to], UNCHANGED stopTasks,
         mainTasks' \in {"submit", "notify", "stopping", "done"},
         UNCHANGED <<tasks, submitted, task, held, slots, completedTasks>>,
         to = "doze" => tasks = {},
         Tasks!NoWorkSleptOver'
  PROVE  SchedulerInv'
<1>1. pcTask' \in [Worker -> Label]
  BY SchedulerTyped DEF Label, Resting
<1>2. \A v \in Worker : \/ pcTask'[v] = pcTask[v]
                        \/ pcTask[v] \in Resting /\ pcTask'[v] \in Resting
  BY SchedulerTyped
<1>3. \A v \in Worker : pcTask'[v] = "doze" => tasks = {}
  BY SchedulerTyped DEF SchedulerInv, DozersSawNoTask
<1> QED BY <1>1, <1>2, <1>3, SchedulerTyped, LightStepKept

LEMMA SleepsAndWakesKeep ==
  ASSUME SchedulerInv, NEW w \in Worker,
         \/ Tasks!CheckStop(w) \/ Tasks!Doze(w) \/ Tasks!FallAsleep(w)
         \/ Tasks!SpuriousWake(w) \/ Tasks!QuitInWait(w)
  PROVE  SchedulerInv'
<1> USE DEF Tasks!Goto, Tasks!mainVars, Tasks!taskVars
<1>1. PICK to \in Resting :
        /\ pcTask[w] \in Resting /\ pcTask' = [pcTask EXCEPT ![w] = to]
        /\ UNCHANGED <<tasks, submitted, mainTasks, stopTasks, task, held, slots,
                       completedTasks>>
        /\ to = "doze" => tasks = {}
        /\ to = "returned" => stopTasks
        /\ to = "asleep" => pcTask[w] = "doze"
        /\ pcTask[w] = "loop" => to \in {"wait", "returned"}
        /\ pcTask[w] = "wait" => to \in {"doze", "returned"}
        /\ pcTask[w] = "doze" => to = "asleep"
        /\ pcTask[w] = "asleep" => to = "wait"
        /\ pcTask[w] # "returned"
  <2>1. CASE Tasks!CheckStop(w)
    <3>1. CASE stopTasks
      BY <2>1, <3>1 DEF Tasks!CheckStop, Resting
    <3>2. CASE ~stopTasks
      BY <2>1, <3>2 DEF Tasks!CheckStop, Resting
    <3> QED BY <3>1, <3>2
  <2>2. CASE Tasks!Doze(w)
    BY <2>2 DEF Tasks!Doze, Resting
  <2>3. CASE Tasks!FallAsleep(w)
    BY <2>3 DEF Tasks!FallAsleep, Resting
  <2>4. CASE Tasks!SpuriousWake(w)
    BY <2>4 DEF Tasks!SpuriousWake, Resting
  <2>5. CASE Tasks!QuitInWait(w)
    BY <2>5 DEF Tasks!QuitInWait, Resting
  <2> QED BY <2>1, <2>2, <2>3, <2>4, <2>5
<1>2. Tasks!NoWorkSleptOver'
  <2> SUFFICES ASSUME ~stopTasks', Tasks!Asleep' # {}
               PROVE  Cardinality(tasks') <= Cardinality(Tasks!Coming') + Owed'
    BY NoWorkByNumber, SameSizes DEF Owed, Tasks!NoWorkSleptOver
  <2>1. \A v \in Worker \ {w} : pcTask'[v] = pcTask[v]
    BY <1>1, SchedulerTyped
  <2>2. /\ Cardinality(Tasks!Coming) \in Nat /\ Cardinality(Tasks!Coming') \in Nat
        /\ Cardinality(Tasks!Coming') = Cardinality(Tasks!Coming)
             + (IF pcTask'[w] \in {"loop", "wait"} THEN 1 ELSE 0)
             - (IF pcTask[w] \in {"loop", "wait"} THEN 1 ELSE 0)
    BY <2>1, ComingChanges
  <2>3. Owed' = Owed /\ Owed \in Nat /\ pcTask'[w] = to
    BY <1>1, SchedulerTyped DEF Owed
  <2>4. CASE tasks = {}
    <3>1. Cardinality(tasks') = 0
      BY <1>1, <2>4, FS_EmptySet
    <3> QED BY <2>2, <2>3, <3>1
  <2>5. CASE tasks # {}
    <3>1. /\ pcTask[w] # "doze" /\ to # "doze" /\ to # "returned"
      BY <1>1, <2>5 DEF SchedulerInv, DozersSawNoTask
    <3>2. to = "wait" /\ pcTask[w] \in {"loop", "asleep"}
      BY <1>1, <3>1 DEF Resting
    <3>3. Tasks!Asleep # {}
      BY <1>1, <3>2, SchedulerTyped DEF Tasks!Asleep
    <3>4. Cardinality(tasks) <= Cardinality(Tasks!Coming) + Owed
      BY <1>1, <3>3, NoWorkByNumber DEF SchedulerInv
    <3>5. Cardinality(Tasks!Coming) <= Cardinality(Tasks!Coming')
      BY <2>2, <2>3, <3>2
    <3>6. tasks' = tasks /\ Cardinality(tasks) \in Nat
      BY <1>1, SchedulerTyped
    <3> QED BY <2>2, <2>3, <3>4, <3>5, <3>6
  <2> QED BY <2>4, <2>5
<1> QED BY <1>1, <1>2, SchedulerTyped, WorkerMovesKeeps

\* notify_one: nobody is asleep, or one sleeper is on its way again and main
\* owes nothing any more.
LEMMA NotifyKeeps ==
  ASSUME SchedulerInv, Tasks!NotifyOne
  PROVE  SchedulerInv'
<1>1. /\ mainTasks = "notify" /\ mainTasks' = "submit"
      /\ UNCHANGED <<tasks, submitted, stopTasks, task, held, slots, completedTasks>>
      /\ \/ Tasks!Asleep = {} /\ UNCHANGED pcTask
         \/ \E w \in Tasks!Asleep : pcTask' = [pcTask EXCEPT ![w] = "wait"]
  BY DEF Tasks!NotifyOne, Tasks!taskVars, Tasks!Goto
<1>2. CASE Tasks!Asleep = {} /\ UNCHANGED pcTask
  <2>1. Tasks!Asleep' = {}
    BY <1>2 DEF Tasks!Asleep
  <2>2. Tasks!NoWorkSleptOver'
    BY <2>1 DEF Tasks!NoWorkSleptOver
  <2> QED BY <1>1, <1>2, <2>2, SchedulerTyped, LightStepKept
          DEF Label, SchedulerInv, DozersSawNoTask
<1>3. CASE \E w \in Tasks!Asleep : pcTask' = [pcTask EXCEPT ![w] = "wait"]
  <2>1. PICK w \in Worker : pcTask[w] = "asleep" /\ pcTask' = [pcTask EXCEPT ![w] = "wait"]
    BY <1>3 DEF Tasks!Asleep
  <2>2. Tasks!NoWorkSleptOver'
    <3> SUFFICES ASSUME ~stopTasks', Tasks!Asleep' # {}
                 PROVE  Cardinality(tasks') <= Cardinality(Tasks!Coming') + Owed'
      BY NoWorkByNumber, SameSizes DEF Owed, Tasks!NoWorkSleptOver
    <3>1. (\A v \in Worker \ {w} : pcTask'[v] = pcTask[v]) /\ pcTask'[w] = "wait"
      BY <2>1, SchedulerTyped
    <3>2. /\ Cardinality(Tasks!Coming) \in Nat
          /\ Cardinality(Tasks!Coming') = Cardinality(Tasks!Coming)
               + (IF pcTask'[w] \in {"loop", "wait"} THEN 1 ELSE 0)
               - (IF pcTask[w] \in {"loop", "wait"} THEN 1 ELSE 0)
      BY <3>1, ComingChanges
    <3>3. Cardinality(Tasks!Coming') = Cardinality(Tasks!Coming) + 1
      BY <2>1, <3>1, <3>2
    <3>4. Owed = 1 /\ Owed' = 0
      BY <1>1 DEF Owed
    <3>5. Tasks!Asleep # {}
      BY <2>1 DEF Tasks!Asleep
    <3>6. Cardinality(tasks) <= Cardinality(Tasks!Coming) + Owed
      BY <1>1, <3>5, NoWorkByNumber DEF SchedulerInv
    <3>7. tasks' = tasks /\ Cardinality(tasks) \in Nat
      BY <1>1, SchedulerTyped
    <3> QED BY <3>2, <3>3, <3>4, <3>6, <3>7
  <2> QED BY <1>1, <2>1, <2>2, SchedulerTyped, WorkerMovesKeeps DEF Resting
<1> QED BY <1>1, <1>2, <1>3

\* submit: the new task has an id nobody had, and main owes a notification.
LEMMA SubmitKeeps ==
  ASSUME SchedulerInv, NEW n \in 1..MaxRequired, NEW p \in TaskPriority, Tasks!Submit(n, p)
  PROVE  SchedulerInv'
<1> DEFINE new == [id |-> submitted + 1, required_slots |-> n, priority |-> p]
<1>1. /\ mainTasks = "submit" /\ mainTasks' = "notify" /\ submitted < TaskCount
      /\ submitted' = submitted + 1 /\ tasks' = tasks \cup {new}
      /\ \A w \in Worker : pcTask[w] # "doze"
      /\ UNCHANGED <<stopTasks, pcTask, task, held, slots, completedTasks>>
  BY DEF Tasks!Submit, Tasks!MutexFree, Tasks!taskVars
<1>2. submitted + 1 \in 1..TaskCount /\ submitted' \in 0..TaskCount
  BY <1>1, SchedulerTyped
<1>3. new \in Tasks!Task /\ new.id = submitted + 1
  BY <1>2 DEF Tasks!Task
<1>4. \A k \in tasks : k.id \in Nat /\ k.id <= submitted
  BY SchedulerTyped, TaskTyped, SchedulerConstants DEF SchedulerInv, IdsDiffer
<1>5. \A w \in Tasks!Busy : task[w].id \in Nat /\ task[w].id <= submitted
  BY SchedulerTyped, TaskTyped, SchedulerConstants DEF SchedulerInv, IdsDiffer, Tasks!Busy
<1>6. new \notin tasks
  BY <1>3, <1>4, SchedulerTyped
<1> HIDE DEF new
<1>7. Tasks!TypeOK'
  BY <1>1, <1>2, <1>3, SchedulerTyped DEF Tasks!TypeOK
<1>8. IsFiniteSet(tasks') /\ Cardinality(tasks') = Cardinality(tasks) + 1
  BY <1>1, <1>6, SchedulerTyped, FS_AddElement
<1>9. WorkersPlaced' /\ SlotsCounted' /\ DozersSawNoTask' /\ held' \in [Worker -> Nat]
  BY <1>1 DEF SchedulerInv, WorkersPlaced, SlotsCounted, DozersSawNoTask, Tasks!HeldSlots
<1>10. IdsDiffer'
  <2>1. Tasks!Busy' = Tasks!Busy /\ task' = task
    BY <1>1 DEF Tasks!Busy
  <2>2. \A k \in tasks' : k.id <= submitted'
    BY <1>1, <1>3, <1>4, SchedulerTyped
  <2>3. \A k, l \in tasks' : k.id = l.id => k = l
    BY <1>1, <1>3, <1>4, SchedulerTyped DEF SchedulerInv, IdsDiffer
  <2>4. \A w \in Tasks!Busy : task[w].id <= submitted'
    BY <1>1, <1>5, SchedulerTyped
  <2>5. \A w \in Tasks!Busy, k \in tasks' : task[w].id # k.id
    BY <1>1, <1>3, <1>5, SchedulerTyped DEF SchedulerInv, IdsDiffer
  <2> QED BY <2>1, <2>2, <2>3, <2>4, <2>5 DEF SchedulerInv, IdsDiffer
<1>11. TasksCounted'
  <2>1. Tasks!Busy' = Tasks!Busy
    BY <1>1 DEF Tasks!Busy
  <2>2. Cardinality(Tasks!Busy) \in Nat
    BY SomeWorkers DEF Tasks!Busy
  <2>3. submitted = Cardinality(tasks) + Cardinality(Tasks!Busy) + completedTasks
    BY DEF SchedulerInv, TasksCounted
  <2>4. submitted + 1 = (Cardinality(tasks) + 1) + Cardinality(Tasks!Busy) + completedTasks
    BY <2>2, <2>3, SchedulerTyped
  <2> QED BY <1>1, <1>8, <2>1, <2>4 DEF TasksCounted
<1>12. Tasks!NoWorkSleptOver'
  <2> SUFFICES ASSUME ~stopTasks', Tasks!Asleep' # {}
               PROVE  Cardinality(tasks') <= Cardinality(Tasks!Coming') + Owed'
    BY NoWorkByNumber, SameSizes DEF Owed, Tasks!NoWorkSleptOver
  <2>1. Tasks!Asleep = Tasks!Asleep' /\ Tasks!Coming = Tasks!Coming'
    BY <1>1 DEF Tasks!Asleep, Tasks!Coming
  <2>2. Owed = 0 /\ Owed' = 1
    BY <1>1 DEF Owed
  <2>3. Cardinality(tasks) <= Cardinality(Tasks!Coming) + Owed
    BY <1>1, <2>1, NoWorkByNumber DEF SchedulerInv
  <2>4. Cardinality(Tasks!Coming) \in Nat
    BY SomeWorkers DEF Tasks!Coming
  <2> QED BY <1>8, <2>1, <2>2, <2>3, <2>4, SchedulerTyped
<1> QED BY <1>7, <1>8, <1>9, <1>10, <1>11, <1>12 DEF SchedulerInv
----------------------------------------------------------------------------
\* top() and pop(): the task of the top goes from the queue to the worker.
LEMMA TakeKeeps ==
  ASSUME SchedulerInv, NEW w \in Worker, Tasks!TakeTask(w)
  PROVE  SchedulerInv'
<1> DEFINE top == Tasks!Top(tasks)
<1>1. /\ pcTask[w] = "wait" /\ tasks # {} /\ tasks' = tasks \ {top}
      /\ task' = [task EXCEPT ![w] = top] /\ pcTask' = [pcTask EXCEPT ![w] = "slots"]
      /\ UNCHANGED <<submitted, mainTasks, stopTasks, held, slots, completedTasks>>
      /\ ~stopTasks /\ \A v \in Worker : pcTask[v] # "doze"
  BY DEF Tasks!TakeTask, Tasks!MutexFree, Tasks!Goto, Tasks!mainVars
<1>2. top \in tasks
  BY <1>1, TopTask
<1> HIDE DEF top
<1>3. /\ top \in Tasks!Task /\ top # Tasks!NoTask
      /\ top.required_slots \in 1..MaxRequired /\ top.id <= submitted
  BY <1>2, SchedulerTyped, TaskTyped DEF SchedulerInv, IdsDiffer
<1>4. /\ task'[w] = top /\ \A v \in Worker \ {w} : task'[v] = task[v]
      /\ pcTask'[w] = "slots" /\ \A v \in Worker \ {w} : pcTask'[v] = pcTask[v]
  BY <1>1, SchedulerTyped
<1>5. task[w] = Tasks!NoTask /\ held[w] = 0
  BY <1>1 DEF SchedulerInv, WorkersPlaced
<1>6. /\ IsFiniteSet(tasks') /\ Cardinality(tasks') = Cardinality(tasks) - 1
      /\ Cardinality(tasks') \in Nat
  BY <1>1, <1>2, SchedulerTyped, FS_RemoveElement, FS_CardinalityType
<1>7. Tasks!TypeOK'
  <2>1. \A v \in Worker : held'[v] \in 0..task'[v].required_slots
    <3>1. 0 \in 0..top.required_slots
      BY <1>3, SchedulerConstants
    <3> QED BY <1>1, <1>4, <1>5, <3>1, SchedulerTyped
  <2>2. task' \in [Worker -> Tasks!Task \cup {Tasks!NoTask}]
    BY <1>1, <1>3, SchedulerTyped
  <2>3. pcTask' \in [Worker -> {"loop", "wait", "doze", "asleep", "slots", "execute",
                               "count", "returned"}]
    BY <1>1, SchedulerTyped
  <2> QED BY <1>1, <2>1, <2>2, <2>3, SchedulerTyped DEF Tasks!TypeOK
<1>8. WorkersPlaced'
  <2>1. 0 < top.required_slots
    BY <1>3, SchedulerConstants
  <2>2. \A v \in Worker :
          /\ pcTask[v] \in {"slots", "execute", "count"} <=> task[v] # Tasks!NoTask
          /\ pcTask[v] = "slots" => held[v] < task[v].required_slots
          /\ pcTask[v] = "execute" => held[v] = task[v].required_slots
          /\ pcTask[v] \notin {"slots", "execute"} => held[v] = 0
    BY DEF SchedulerInv, WorkersPlaced
  <2>3. held' = held
    BY <1>1
  <2>4. \A v \in Worker :
          /\ pcTask'[v] \in {"slots", "execute", "count"} <=> task'[v] # Tasks!NoTask
          /\ pcTask'[v] = "slots" => held[v] < task'[v].required_slots
          /\ pcTask'[v] = "execute" => held[v] = task'[v].required_slots
          /\ pcTask'[v] \notin {"slots", "execute"} => held[v] = 0
    <3> TAKE v \in Worker
    <3>1. CASE v = w
      BY <1>3, <1>4, <1>5, <2>1, <3>1
    <3>2. CASE v # w
      BY <1>4, <2>2, <3>2
    <3> QED BY <3>1, <3>2
  <2> QED BY <2>3, <2>4 DEF WorkersPlaced
<1>9. IdsDiffer'
  <2>1. Tasks!Busy' = Tasks!Busy \cup {w} /\ w \notin Tasks!Busy
    BY <1>3, <1>4, <1>5 DEF Tasks!Busy
  <2>2. /\ \A k \in tasks : k.id <= submitted
        /\ \A k, l \in tasks : k.id = l.id => k = l
        /\ \A v \in Tasks!Busy : task[v].id <= submitted
        /\ \A v \in Tasks!Busy, k \in tasks : task[v].id # k.id
        /\ \A v, u \in Tasks!Busy : task[v].id = task[u].id => v = u
    BY DEF SchedulerInv, IdsDiffer
  <2>3. \A v \in Tasks!Busy : task'[v] = task[v]
    BY <1>4, <2>1 DEF Tasks!Busy
  <2>4. tasks' \subseteq tasks /\ top \notin tasks' /\ submitted' = submitted
    BY <1>1
  <2>5. /\ \A k \in tasks' : k.id <= submitted'
        /\ \A k, l \in tasks' : k.id = l.id => k = l
    BY <2>2, <2>4
  <2>6. \A v \in Tasks!Busy' : task'[v].id <= submitted'
    BY <1>3, <1>4, <2>1, <2>2, <2>3, <2>4
  <2>7. \A v \in Tasks!Busy', k \in tasks' : task'[v].id # k.id
    BY <1>2, <1>4, <2>1, <2>2, <2>3, <2>4
  <2>8. \A v, u \in Tasks!Busy' : task'[v].id = task'[u].id => v = u
    BY <1>2, <1>4, <2>1, <2>2, <2>3
  <2> QED BY <2>5, <2>6, <2>7, <2>8 DEF IdsDiffer
<1>10. TasksCounted'
  <2>1. /\ Cardinality(Tasks!Busy) \in Nat
        /\ Cardinality(Tasks!Busy') = Cardinality(Tasks!Busy)
             + (IF task'[w] # Tasks!NoTask THEN 1 ELSE 0)
             - (IF task[w] # Tasks!NoTask THEN 1 ELSE 0)
    BY <1>4, BusyChanges
  <2>2. Cardinality(Tasks!Busy') = Cardinality(Tasks!Busy) + 1
    BY <1>3, <1>4, <1>5, <2>1
  <2>3. submitted = Cardinality(tasks) + Cardinality(Tasks!Busy) + completedTasks
    BY DEF SchedulerInv, TasksCounted
  <2>4. submitted = (Cardinality(tasks) - 1) + (Cardinality(Tasks!Busy) + 1) + completedTasks
    BY <2>1, <2>3, SchedulerTyped
  <2> QED BY <1>1, <1>6, <2>2, <2>4 DEF TasksCounted
<1>11. SlotsCounted' /\ DozersSawNoTask' /\ held' \in [Worker -> Nat]
  BY <1>1, <1>4 DEF SchedulerInv, SlotsCounted, DozersSawNoTask, Tasks!HeldSlots
<1>12. Tasks!NoWorkSleptOver'
  <2> SUFFICES ASSUME ~stopTasks', Tasks!Asleep' # {}
               PROVE  Cardinality(tasks') <= Cardinality(Tasks!Coming') + Owed'
    BY NoWorkByNumber, SameSizes DEF Owed, Tasks!NoWorkSleptOver
  <2>1. Tasks!Asleep # {}
    BY <1>4 DEF Tasks!Asleep
  <2>2. /\ Cardinality(Tasks!Coming) \in Nat /\ Cardinality(Tasks!Coming') \in Nat
        /\ Cardinality(Tasks!Coming') = Cardinality(Tasks!Coming)
             + (IF pcTask'[w] \in {"loop", "wait"} THEN 1 ELSE 0)
             - (IF pcTask[w] \in {"loop", "wait"} THEN 1 ELSE 0)
    BY <1>4, ComingChanges
  <2>3. Cardinality(Tasks!Coming') = Cardinality(Tasks!Coming) - 1
    BY <1>1, <1>4, <2>2
  <2>4. Cardinality(tasks) <= Cardinality(Tasks!Coming) + Owed
    BY <1>1, <2>1, NoWorkByNumber DEF SchedulerInv
  <2>5. Owed' = Owed /\ Owed \in Nat
    BY <1>1 DEF Owed
  <2> QED BY <1>6, <2>2, <2>3, <2>4, <2>5, SchedulerTyped
<1> QED BY <1>6, <1>7, <1>8, <1>9, <1>10, <1>11, <1>12 DEF SchedulerInv

\* A worker with a task goes on with it and holds h slots now.
LEMMA SlotStepKept ==
  ASSUME SchedulerInv, NEW w \in Worker, NEW h \in Nat,
         NEW from \in {"slots", "execute"}, NEW to \in {"slots", "execute", "count"},
         pcTask[w] = from, pcTask' = [pcTask EXCEPT ![w] = to],
         held' = [held EXCEPT ![w] = h],
         to = "slots" => h < task[w].required_slots,
         to = "execute" => h = task[w].required_slots,
         to = "count" => h = 0,
         UNCHANGED <<tasks, submitted, mainTasks, stopTasks, task, completedTasks>>,
         slots' \in 0..TotalSlots, SlotsCounted'
  PROVE  SchedulerInv'
<1>1. /\ held'[w] = h /\ \A v \in Worker \ {w} : held'[v] = held[v]
      /\ pcTask'[w] = to /\ \A v \in Worker \ {w} : pcTask'[v] = pcTask[v]
      /\ held' \in [Worker -> Nat]
  BY SchedulerTyped
<1>2. task[w] # Tasks!NoTask
  BY DEF SchedulerInv, WorkersPlaced
<1>3. task[w] \in Tasks!Task
  BY <1>2, SchedulerTyped
<1>4. task[w].required_slots \in Nat
  BY <1>3, TaskTyped, SchedulerConstants
<1>5. Tasks!TypeOK'
  <2>1. h \in 0..task[w].required_slots
    BY <1>4
  <2>2. \A v \in Worker : held'[v] \in 0..task'[v].required_slots
    BY <1>1, <2>1, SchedulerTyped
  <2>3. pcTask' \in [Worker -> {"loop", "wait", "doze", "asleep", "slots", "execute",
                               "count", "returned"}]
    BY SchedulerTyped
  <2> QED BY <2>2, <2>3, SchedulerTyped DEF Tasks!TypeOK
<1>6. WorkersPlaced'
  <2>1. \A v \in Worker :
          /\ pcTask[v] \in {"slots", "execute", "count"} <=> task[v] # Tasks!NoTask
          /\ pcTask[v] = "slots" => held[v] < task[v].required_slots
          /\ pcTask[v] = "execute" => held[v] = task[v].required_slots
          /\ pcTask[v] \notin {"slots", "execute"} => held[v] = 0
    BY DEF SchedulerInv, WorkersPlaced
  <2>2. \A v \in Worker :
          /\ pcTask'[v] \in {"slots", "execute", "count"} <=> task[v] # Tasks!NoTask
          /\ pcTask'[v] = "slots" => held'[v] < task[v].required_slots
          /\ pcTask'[v] = "execute" => held'[v] = task[v].required_slots
          /\ pcTask'[v] \notin {"slots", "execute"} => held'[v] = 0
    <3> TAKE v \in Worker
    <3>1. CASE v = w
      BY <1>1, <1>2, <3>1
    <3>2. CASE v # w
      BY <1>1, <2>1, <3>2
    <3> QED BY <3>1, <3>2
  <2> QED BY <2>2 DEF WorkersPlaced
<1>7. IdsDiffer' /\ TasksCounted' /\ DozersSawNoTask' /\ IsFiniteSet(tasks')
  BY <1>1 DEF SchedulerInv, IdsDiffer, TasksCounted, DozersSawNoTask, Tasks!Busy
<1>8. Tasks!NoWorkSleptOver'
  <2>1. Tasks!Asleep' = Tasks!Asleep /\ Tasks!Coming' = Tasks!Coming
    BY <1>1 DEF Tasks!Asleep, Tasks!Coming
  <2> QED BY <2>1 DEF SchedulerInv, Tasks!NoWorkSleptOver
<1> QED BY <1>1, <1>5, <1>6, <1>7, <1>8 DEF SchedulerInv

\* The slots held are a finite set, a number.
LEMMA HeldFinite ==
  ASSUME SchedulerInv
  PROVE  IsFiniteSet(Tasks!HeldSlots) /\ Cardinality(Tasks!HeldSlots) \in Nat
<1>1. IsFiniteSet(1..MaxRequired)
  BY SchedulerConstants, FS_Interval
<1>2. IsFiniteSet(Worker \X (1..MaxRequired))
  BY <1>1, SchedulerConstants, FS_Product
<1>3. IsFiniteSet(Tasks!HeldSlots)
  BY <1>2, FS_Subset DEF Tasks!HeldSlots
<1> QED BY <1>3, FS_CardinalityType

\* One round of acquire_slots: the worker holds one slot more.
LEMMA AcquireKeeps ==
  ASSUME SchedulerInv, NEW w \in Worker, Tasks!AcquireSlot(w)
  PROVE  SchedulerInv'
<1> DEFINE to == IF held'[w] = task[w].required_slots THEN "execute" ELSE "slots"
           one == <<w, held[w] + 1>>
<1>1. /\ pcTask[w] = "slots" /\ slots > 0 /\ slots' = slots - 1
      /\ held' = [held EXCEPT ![w] = held[w] + 1]
      /\ pcTask' = [pcTask EXCEPT ![w] = to]
      /\ UNCHANGED <<tasks, submitted, mainTasks, stopTasks, task, completedTasks>>
  BY DEF Tasks!AcquireSlot, Tasks!Goto, Tasks!mainVars
<1>2. task[w] # Tasks!NoTask /\ held[w] < task[w].required_slots
  BY <1>1 DEF SchedulerInv, WorkersPlaced
<1>3. task[w].required_slots \in 1..MaxRequired
  BY <1>2, SchedulerTyped, TaskTyped
<1>4. /\ held'[w] = held[w] + 1 /\ held[w] \in Nat
      /\ \A v \in Worker \ {w} : held'[v] = held[v]
  BY <1>1, SchedulerTyped
<1>5. held[w] + 1 \in 1..MaxRequired /\ held[w] + 1 <= task[w].required_slots
  BY <1>2, <1>3, <1>4, SchedulerConstants
<1>6. Cardinality(Tasks!HeldSlots') = Cardinality(Tasks!HeldSlots) + 1
  <2>1. \A v \in Worker, i \in 1..MaxRequired :
          i <= held'[v] <=> (i <= held[v] \/ <<v, i>> = one)
    <3> TAKE v \in Worker, i \in 1..MaxRequired
    <3>1. CASE v = w
      <4>1. i \in Nat /\ \A a, b \in Nat : a <= b + 1 <=> (a <= b \/ a = b + 1)
        BY SchedulerConstants
      <4> QED BY <1>4, <3>1, <4>1
    <3>2. CASE v # w
      BY <1>4, <3>2
    <3> QED BY <3>1, <3>2
  <2>2. Tasks!HeldSlots' = Tasks!HeldSlots \cup {one}
    <3>1. one \in Worker \X (1..MaxRequired)
      BY <1>5
    <3>2. \A p \in Worker \X (1..MaxRequired) :
            p[2] <= held'[p[1]] <=> (p[2] <= held[p[1]] \/ p = one)
      BY <2>1
    <3> QED BY <3>1, <3>2 DEF Tasks!HeldSlots
  <2>3. one \notin Tasks!HeldSlots
    BY <1>4 DEF Tasks!HeldSlots
  <2> QED BY <2>2, <2>3, HeldFinite, FS_AddElement
<1>7. SlotsCounted' /\ slots' \in 0..TotalSlots
  <2>1. slots + Cardinality(Tasks!HeldSlots) = TotalSlots
    BY DEF SchedulerInv, SlotsCounted
  <2>2. slots \in Nat /\ slots - 1 \in 0..TotalSlots
    BY <1>1, SchedulerTyped, SchedulerConstants
  <2>3. (slots - 1) + (Cardinality(Tasks!HeldSlots) + 1) = TotalSlots
    BY <2>1, <2>2, HeldFinite
  <2> QED BY <1>1, <1>6, <2>2, <2>3 DEF SlotsCounted
<1>8. /\ to \in {"slots", "execute", "count"} /\ to # "count"
      /\ to = "execute" => held[w] + 1 = task[w].required_slots
      /\ to = "slots" => held[w] + 1 < task[w].required_slots
  BY <1>3, <1>4, <1>5, SchedulerConstants
<1>9. held[w] + 1 \in Nat
  BY <1>4
<1> HIDE DEF to
<1> QED BY <1>1, <1>7, <1>8, <1>9, SlotStepKept

\* release(required_slots): the worker gives back all that it holds.
LEMMA ReleaseSlotsKeeps ==
  ASSUME SchedulerInv, NEW w \in Worker, Tasks!ReleaseSlots(w)
  PROVE  SchedulerInv'
<1> DEFINE n == task[w].required_slots
           Own == {p \in Tasks!HeldSlots : p[1] = w}
           Others == Tasks!HeldSlots \ Own
<1>1. /\ pcTask[w] = "execute" /\ slots' = slots + n
      /\ held' = [held EXCEPT ![w] = 0] /\ pcTask' = [pcTask EXCEPT ![w] = "count"]
      /\ UNCHANGED <<tasks, submitted, mainTasks, stopTasks, task, completedTasks>>
  BY DEF Tasks!ReleaseSlots, Tasks!Release, Tasks!Goto, Tasks!mainVars
<1>2. task[w] # Tasks!NoTask /\ held[w] = n
  BY <1>1 DEF SchedulerInv, WorkersPlaced
<1>3. n \in 1..MaxRequired /\ n \in Nat \ {0}
  BY <1>2, SchedulerTyped, TaskTyped, SchedulerConstants
<1>4. /\ held'[w] = 0 /\ \A v \in Worker \ {w} : held'[v] = held[v]
  BY <1>1, SchedulerTyped
<1>5. Own = {w} \X (1..n)
  <2>1. \A i \in 1..MaxRequired : i <= n <=> i \in 1..n
    BY <1>3, SchedulerConstants
  <2>2. 1..n \subseteq 1..MaxRequired
    BY <1>3, SchedulerConstants
  <2> HIDE DEF n
  <2> QED BY <1>2, <2>1, <2>2 DEF Tasks!HeldSlots
<1>6. Cardinality(Own) = n
  <2> HIDE DEF n
  <2>1. IsFiniteSet(1..n) /\ Cardinality(1..n) = n
    BY <1>3, FS_Interval
  <2>2. IsFiniteSet({w}) /\ Cardinality({w}) = 1
    BY FS_Singleton
  <2>3. Cardinality({w} \X (1..n)) = 1 * n
    BY <2>1, <2>2, FS_Product
  <2>4. 1 * n = n
    BY <1>3
  <2> HIDE DEF Own
  <2> QED BY <1>5, <2>3, <2>4
<1>7. Tasks!HeldSlots' = Others
  <2>1. \A v \in Worker, i \in 1..MaxRequired :
          i <= held'[v] <=> v # w /\ i <= held[v]
    <3> TAKE v \in Worker, i \in 1..MaxRequired
    <3>1. CASE v = w
      BY <1>4, <3>1, SchedulerConstants
    <3>2. CASE v # w
      BY <1>4, <3>2
    <3> QED BY <3>1, <3>2
  <2> QED BY <2>1 DEF Tasks!HeldSlots
<1>8. Cardinality(Tasks!HeldSlots) = Cardinality(Others) + n /\ Cardinality(Others) \in Nat
  <2>1. Own \subseteq Tasks!HeldSlots /\ Own \cap Others = {}
        /\ Tasks!HeldSlots = Own \cup Others
    OBVIOUS
  <2>2. IsFiniteSet(Own) /\ IsFiniteSet(Others)
    BY HeldFinite, FS_Subset
  <2>3. Cardinality(Own \cup Others)
          = Cardinality(Own) + Cardinality(Others) - Cardinality(Own \cap Others)
    BY <2>2, FS_Union
  <2>4. Cardinality({}) = 0
    BY FS_EmptySet
  <2>5. Cardinality(Others) \in Nat
    BY <2>2, FS_CardinalityType
  <2> HIDE DEF Own, Others, n
  <2>6. Cardinality(Tasks!HeldSlots) = n + Cardinality(Others) - 0
    BY <2>1, <2>3, <2>4, <1>6
  <2> QED BY <2>5, <2>6, <1>3, SchedulerConstants
<1> HIDE DEF Own, Others
<1>9. SlotsCounted' /\ slots' \in 0..TotalSlots
  <2> HIDE DEF n
  <2>1. slots + Cardinality(Tasks!HeldSlots) = TotalSlots
    BY DEF SchedulerInv, SlotsCounted
  <2>2. slots \in Nat /\ n \in Nat
    BY <1>3, SchedulerTyped, SchedulerConstants
  <2>3. /\ (slots + n) + Cardinality(Others) = TotalSlots
        /\ slots + n \in 0..TotalSlots
    BY <1>8, <2>1, <2>2, SchedulerConstants
  <2> QED BY <1>1, <1>7, <2>3 DEF SlotsCounted
<1> HIDE DEF n
<1> QED BY <1>1, <1>9, SlotStepKept

\* The completed task is counted: the worker is on its way to the queue again.
LEMMA CountKeeps ==
  ASSUME SchedulerInv, NEW w \in Worker, Tasks!CountCompleted(w)
  PROVE  SchedulerInv'
<1>1. /\ pcTask[w] = "count" /\ completedTasks' = completedTasks + 1
      /\ task' = [task EXCEPT ![w] = Tasks!NoTask] /\ pcTask' = [pcTask EXCEPT ![w] = "loop"]
      /\ UNCHANGED <<tasks, submitted, mainTasks, stopTasks, held, slots>>
  BY DEF Tasks!CountCompleted, Tasks!Goto, Tasks!mainVars
<1>2. task[w] # Tasks!NoTask /\ held[w] = 0
  BY <1>1 DEF SchedulerInv, WorkersPlaced
<1>3. /\ task'[w] = Tasks!NoTask /\ \A v \in Worker \ {w} : task'[v] = task[v]
      /\ pcTask'[w] = "loop" /\ \A v \in Worker \ {w} : pcTask'[v] = pcTask[v]
  BY <1>1, SchedulerTyped
<1>4. Tasks!Busy' = Tasks!Busy \ {w} /\ w \in Tasks!Busy
  BY <1>2, <1>3 DEF Tasks!Busy
<1>5. /\ Cardinality(Tasks!Busy) \in Nat /\ Cardinality(Tasks!Busy') \in Nat
      /\ Cardinality(Tasks!Busy') = Cardinality(Tasks!Busy) - 1
  <2>1. IsFiniteSet(Tasks!Busy)
    BY SomeWorkers DEF Tasks!Busy
  <2> QED BY <1>4, <2>1, FS_RemoveElement, FS_CardinalityType
<1>6. TasksCounted' /\ completedTasks' \in 0..TaskCount
  <2>1. submitted = Cardinality(tasks) + Cardinality(Tasks!Busy) + completedTasks
    BY DEF SchedulerInv, TasksCounted
  <2>2. submitted = Cardinality(tasks) + (Cardinality(Tasks!Busy) - 1) + (completedTasks + 1)
    BY <1>5, <2>1, SchedulerTyped
  <2>3. completedTasks + 1 \in 0..TaskCount
    <3>1. /\ Cardinality(Tasks!Busy) - 1 \in Nat
          /\ submitted <= TaskCount /\ TaskCount \in Nat
      BY <1>5, SchedulerTyped
    <3>2. /\ Cardinality(tasks) \in Nat /\ completedTasks \in Nat /\ submitted \in Nat
      BY SchedulerTyped
    <3> QED BY <2>2, <3>1, <3>2
  <2> QED BY <1>1, <1>5, <2>2, <2>3 DEF TasksCounted
<1>7. Tasks!TypeOK'
  <2>1. \A v \in Worker : held'[v] \in 0..task'[v].required_slots
    <3>1. 0 \in 0..Tasks!NoTask.required_slots
      BY DEF Tasks!NoTask
    <3> QED BY <1>1, <1>2, <1>3, <3>1, SchedulerTyped
  <2>2. task' \in [Worker -> Tasks!Task \cup {Tasks!NoTask}]
    BY <1>1, SchedulerTyped
  <2>3. pcTask' \in [Worker -> {"loop", "wait", "doze", "asleep", "slots", "execute",
                               "count", "returned"}]
    BY <1>1, SchedulerTyped
  <2> QED BY <1>1, <1>6, <2>1, <2>2, <2>3, SchedulerTyped DEF Tasks!TypeOK
<1>8. WorkersPlaced'
  <2>1. \A v \in Worker :
          /\ pcTask[v] \in {"slots", "execute", "count"} <=> task[v] # Tasks!NoTask
          /\ pcTask[v] = "slots" => held[v] < task[v].required_slots
          /\ pcTask[v] = "execute" => held[v] = task[v].required_slots
          /\ pcTask[v] \notin {"slots", "execute"} => held[v] = 0
    BY DEF SchedulerInv, WorkersPlaced
  <2>2. \A v \in Worker :
          /\ pcTask'[v] \in {"slots", "execute", "count"} <=> task'[v] # Tasks!NoTask
          /\ pcTask'[v] = "slots" => held[v] < task'[v].required_slots
          /\ pcTask'[v] = "execute" => held[v] = task'[v].required_slots
          /\ pcTask'[v] \notin {"slots", "execute"} => held[v] = 0
    <3> TAKE v \in Worker
    <3>1. CASE v = w
      BY <1>2, <1>3, <3>1
    <3>2. CASE v # w
      BY <1>3, <2>1, <3>2
    <3> QED BY <3>1, <3>2
  <2>3. held' = held
    BY <1>1
  <2> QED BY <2>2, <2>3 DEF WorkersPlaced
<1>9. IdsDiffer'
  <2>1. \A v \in Tasks!Busy' : v \in Tasks!Busy /\ task'[v] = task[v]
    BY <1>3, <1>4 DEF Tasks!Busy
  <2>2. tasks' = tasks /\ submitted' = submitted
    BY <1>1
  <2> QED BY <2>1, <2>2 DEF SchedulerInv, IdsDiffer
<1>10. /\ SlotsCounted' /\ DozersSawNoTask' /\ held' \in [Worker -> Nat]
       /\ IsFiniteSet(tasks')
  BY <1>1, <1>3 DEF SchedulerInv, SlotsCounted, DozersSawNoTask, Tasks!HeldSlots
<1>11. Tasks!NoWorkSleptOver'
  <2> SUFFICES ASSUME ~stopTasks', Tasks!Asleep' # {}
               PROVE  Cardinality(tasks') <= Cardinality(Tasks!Coming') + Owed'
    BY NoWorkByNumber, SameSizes DEF Owed, Tasks!NoWorkSleptOver
  <2>1. Tasks!Asleep # {}
    BY <1>3 DEF Tasks!Asleep
  <2>2. /\ Cardinality(Tasks!Coming) \in Nat /\ Cardinality(Tasks!Coming') \in Nat
        /\ Cardinality(Tasks!Coming') = Cardinality(Tasks!Coming)
             + (IF pcTask'[w] \in {"loop", "wait"} THEN 1 ELSE 0)
             - (IF pcTask[w] \in {"loop", "wait"} THEN 1 ELSE 0)
    BY <1>3, ComingChanges
  <2>3. Cardinality(Tasks!Coming') = Cardinality(Tasks!Coming) + 1
    BY <1>1, <1>3, <2>2
  <2>4. Cardinality(tasks) <= Cardinality(Tasks!Coming) + Owed
    BY <1>1, <2>1, NoWorkByNumber DEF SchedulerInv
  <2>5. Owed' = Owed /\ Owed \in Nat /\ tasks' = tasks
    BY <1>1 DEF Owed
  <2> QED BY <2>2, <2>3, <2>4, <2>5, SchedulerTyped
<1> QED BY <1>6, <1>7, <1>8, <1>9, <1>10, <1>11 DEF SchedulerInv
----------------------------------------------------------------------------
\* The steps of the other programs do not touch the scheduler.
LEMMA SchedulerStands == SchedulerInv /\ UNCHANGED taskVars => SchedulerInv'
  BY DEF SchedulerInv, taskVars, WorkersPlaced, IdsDiffer, DozersSawNoTask, TasksCounted,
         SlotsCounted, Tasks!TypeOK, Tasks!NoWorkSleptOver, Tasks!Busy, Tasks!HeldSlots,
         Tasks!Asleep, Tasks!Coming

LEMMA SchedulerNext == SchedulerInv /\ Tasks!Next => SchedulerInv'
<1> SUFFICES ASSUME SchedulerInv, Tasks!Next PROVE SchedulerInv'
  OBVIOUS
<1>1. CASE Tasks!Submitting
  BY <1>1, SubmitKeeps, NotifyKeeps DEF Tasks!Submitting
<1>2. CASE Tasks!StoreStop \/ Tasks!StopNotify
  BY <1>2, SchedulerStopsKeep
<1>3. CASE \E w \in Worker : Tasks!WorkerStep(w) \/ Tasks!SpuriousWake(w)
  BY <1>3, SleepsAndWakesKeep, TakeKeeps, AcquireKeeps, ReleaseSlotsKeeps, CountKeeps
     DEF Tasks!WorkerStep
<1> QED BY <1>1, <1>2, <1>3 DEF Tasks!Next

LEMMA SchedulerInvariant == Spec => [](program = "TaskScheduler" => SchedulerInv)
<1>1. Init => (program = "TaskScheduler" => SchedulerInv)
  BY SchedulerInit DEF Init
<1>2. (program = "TaskScheduler" => SchedulerInv) /\ [Next]_vars
        => (program = "TaskScheduler" => SchedulerInv)'
  BY SchedulerNext, SchedulerStands DEF Next, vars
<1> QED BY <1>1, <1>2, PTL DEF Spec

\* Slots are conserved however the acquisitions of several workers interleave, and
\* every task is in the queue, with one worker or completed.
THEOREM SchedulerAgrees == Spec => []SchedulerConsistent
<1>1. (program = "TaskScheduler" => SchedulerInv) => SchedulerConsistent
  BY SchedulerImplies DEF SchedulerConsistent
<1> QED BY <1>1, SchedulerInvariant, PTL

\* No worker sleeps while more tasks are queued than workers are on their way.
THEOREM NoWorkIsSleptOver == Spec => []NoWorkSleptOver
<1>1. (program = "TaskScheduler" => SchedulerInv) => NoWorkSleptOver
  BY SchedulerImplies DEF NoWorkSleptOver
<1> QED BY <1>1, SchedulerInvariant, PTL
(***************************************************************************)
(* DownloadManager.  What FilesConsistent needs besides itself to be         *)
(* inductive: every chunk of a file that was added is in the queue, carried  *)
(* by one worker, or downloaded, so that a file with a chunk on its way is   *)
(* not complete; a worker that is to deactivate a file has seen it complete; *)
(* the permits for chunks are counted like those for files.                  *)
(***************************************************************************)
Carrying == {"ensure", "filePermit", "recheck", "giveBack", "chunkPermit", "download",
             "mark"}
Waiting(f) == {i \in 1..Len(chunks) : chunks[i] = f}
InHands(f) == {w \in Worker : chunk[w] = f /\ pcFile[w] \in Carrying}
Due(f) == IF f <= added THEN TotalChunks[f] ELSE 0

ChunksCounted ==
  \A f \in Files!File :
    Cardinality(Waiting(f)) + Cardinality(InHands(f)) + downloaded[f] = Due(f)

HoldersHaveFiles ==
  \A w \in Worker :
    pcFile[w] \in Carrying \cup {"complete?", "deactivate"} => chunk[w] \in Files!File

CompleteBeforeEnd ==
  \A w \in Worker : pcFile[w] = "deactivate" => Files!IsComplete(chunk[w])

WithPermit == Files!At({"recheck", "giveBack", "endFile"})
Ending == Files!At({"endFile", "countFile"})
Ended == {f \in Files!File : Files!IsComplete(f) /\ ~active[f]}

ChunkPermitsCounted ==
  chunk_downloads + Cardinality(Files!At({"download"})) = MaxActiveChunks
FilePermitsCounted ==
  active_downloads + Cardinality(Files!ActiveFiles) + Cardinality(WithPermit)
    = MaxActiveFiles
EndingsCounted == completedFiles + Cardinality(Ending) = Cardinality(Ended)

FileInv == /\ Files!TypeOK /\ downloaded \in [Files!File -> Nat]
           /\ ChunksCounted /\ HoldersHaveFiles /\ CompleteBeforeEnd
           /\ ChunkPermitsCounted /\ FilePermitsCounted /\ EndingsCounted
           /\ Files!DownloadsOnlyActive

FileLabel == {"loop", "wait", "doze", "asleep", "returned", "ensure", "filePermit",
              "recheck", "giveBack", "chunkPermit", "download", "mark", "complete?",
              "deactivate", "endFile", "countFile"}

LEMMA FileConstants ==
  /\ IsFiniteSet(Worker) /\ FileCount \in Nat /\ Files!File = 1..FileCount
  /\ TotalChunks \in [Files!File -> Nat \ {0}]
  /\ MaxActiveFiles \in Nat /\ MaxActiveChunks \in Nat
  BY Seminar5Assumption, SameSizes DEF Files!DownloadAssumption, Files!File

LEMMA SomeFiles ==
  ASSUME NEW S \in SUBSET Files!File
  PROVE  /\ IsFiniteSet(S) /\ Cardinality(S) \in Nat /\ Cardinality(S) <= FileCount
<1>1. IsFiniteSet(1..FileCount) /\ Cardinality(1..FileCount) = FileCount
  BY FileConstants, FS_Interval
<1>2. IsFiniteSet(Files!File) /\ Cardinality(Files!File) = FileCount
  BY <1>1, FileConstants
<1>3. IsFiniteSet(S) /\ Cardinality(S) <= Cardinality(Files!File)
  BY <1>2, FS_Subset
<1> QED BY <1>2, <1>3, FS_CardinalityType

\* What is typed before a step.
LEMMA FileTyped ==
  ASSUME FileInv
  PROVE  /\ chunks \in Seq(Files!File) /\ added \in 0..FileCount /\ added \in Nat
         /\ mainFiles \in {"add", "stopping", "done"} /\ stopFiles \in BOOLEAN
         /\ pcFile \in [Worker -> FileLabel]
         /\ chunk \in [Worker -> 0..FileCount]
         /\ active \in [Files!File -> BOOLEAN]
         /\ downloaded \in [Files!File -> Nat]
         /\ \A f \in Files!File : downloaded[f] \in 0..TotalChunks[f]
         /\ active_downloads \in 0..MaxActiveFiles /\ active_downloads \in Nat
         /\ chunk_downloads \in 0..MaxActiveChunks /\ chunk_downloads \in Nat
         /\ completedFiles \in 0..FileCount /\ completedFiles \in Nat
<1>1. Files!TypeOK /\ downloaded \in [Files!File -> Nat]
  BY DEF FileInv
<1>2. /\ added \in 0..FileCount /\ active_downloads \in 0..MaxActiveFiles
      /\ chunk_downloads \in 0..MaxActiveChunks /\ completedFiles \in 0..FileCount
  BY <1>1 DEF Files!TypeOK
<1>3. /\ added \in Nat /\ active_downloads \in Nat /\ chunk_downloads \in Nat
      /\ completedFiles \in Nat
  BY <1>2, FileConstants
<1> QED BY <1>1, <1>2, <1>3 DEF Files!TypeOK, FileLabel

\* The invariant says what the run checks.
LEMMA FileImplies ==
  FileInv => Files!PermitsConsistent /\ Files!FileLifecycle
  BY SameSizes DEF FileInv, FilePermitsCounted, EndingsCounted, WithPermit, Ending, Ended,
     Files!PermitsConsistent, Files!FilePermitsAccountedFor, Files!FileLifecycle,
     Files!EndedOnce

LEMMA FileInit == Files!Init => FileInv
<1> SUFFICES ASSUME Files!Init PROVE FileInv
  OBVIOUS
<1>1. /\ chunks = <<>> /\ added = 0 /\ mainFiles = "add" /\ stopFiles = FALSE
      /\ pcFile = [w \in Worker |-> "loop"] /\ chunk = [w \in Worker |-> 0]
      /\ active = [f \in Files!File |-> FALSE] /\ downloaded = [f \in Files!File |-> 0]
      /\ active_downloads = MaxActiveFiles /\ chunk_downloads = MaxActiveChunks
      /\ completedFiles = 0
  BY DEF Files!Init
<1>2. Cardinality({}) = 0
  BY FS_EmptySet
<1>3. Files!TypeOK /\ downloaded \in [Files!File -> Nat]
  <2>1. /\ 0 \in 0..FileCount /\ MaxActiveFiles \in 0..MaxActiveFiles
        /\ MaxActiveChunks \in 0..MaxActiveChunks
        /\ \A f \in Files!File : 0 \in 0..TotalChunks[f]
    BY FileConstants
  <2>2. chunks \in Seq(Files!File)
    BY <1>1, EmptySeq
  <2> QED BY <1>1, <2>1, <2>2 DEF Files!TypeOK
<1>4. ChunksCounted
  <2> SUFFICES ASSUME NEW f \in Files!File
               PROVE  Cardinality(Waiting(f)) + Cardinality(InHands(f)) + downloaded[f] = Due(f)
    BY DEF ChunksCounted
  <2>1. InHands(f) = {}
    BY <1>1 DEF InHands, Carrying
  <2>2. Waiting(f) = {}
    <3>1. Len(chunks) = 0
      BY <1>1
    <3> QED BY <3>1 DEF Waiting
  <2>3. Due(f) = 0 /\ downloaded[f] = 0
    BY <1>1, FileConstants DEF Due
  <2> QED BY <1>2, <2>1, <2>2, <2>3
<1>5. /\ Files!At({"download"}) = {} /\ WithPermit = {} /\ Ending = {} /\ Ended = {}
      /\ Files!ActiveFiles = {}
  <2>1. \A f \in Files!File : ~Files!IsComplete(f)
    BY <1>1, FileConstants DEF Files!IsComplete
  <2> QED BY <1>1, <2>1 DEF Files!At, WithPermit, Ending, Ended, Files!ActiveFiles
<1>6. ChunkPermitsCounted /\ FilePermitsCounted /\ EndingsCounted
  <2>1. /\ MaxActiveFiles + 0 + 0 = MaxActiveFiles /\ MaxActiveChunks + 0 = MaxActiveChunks
        /\ 0 + 0 = 0
    BY FileConstants
  <2>2. ChunkPermitsCounted
    BY <1>1, <1>2, <1>5, <2>1 DEF ChunkPermitsCounted
  <2>3. FilePermitsCounted
    BY <1>1, <1>2, <1>5, <2>1 DEF FilePermitsCounted
  <2>4. EndingsCounted
    BY <1>1, <1>2, <1>5, <2>1 DEF EndingsCounted
  <2> QED BY <2>2, <2>3, <2>4
<1>7. HoldersHaveFiles /\ CompleteBeforeEnd /\ Files!DownloadsOnlyActive
  BY <1>1 DEF HoldersHaveFiles, CompleteBeforeEnd, Files!DownloadsOnlyActive, Files!At,
              Carrying
<1> QED BY <1>3, <1>4, <1>6, <1>7 DEF FileInv
----------------------------------------------------------------------------
\* The workers at some labels, when one worker moves.
LEMMA AtChanges ==
  ASSUME NEW w \in Worker, NEW L, \A v \in Worker \ {w} : pcFile'[v] = pcFile[v]
  PROVE  /\ Cardinality(Files!At(L)) \in Nat /\ Cardinality(Files!At(L)') \in Nat
         /\ Cardinality(Files!At(L)') = Cardinality(Files!At(L))
              + (IF pcFile'[w] \in L THEN 1 ELSE 0) - (IF pcFile[w] \in L THEN 1 ELSE 0)
<1> DEFINE A == {v \in Worker : pcFile[v] \in L}
           B == {v \in Worker : pcFile'[v] \in L}
<1>1. A \in SUBSET Worker
  OBVIOUS
<1>2. IsFiniteSet(A)
  BY <1>1, FileConstants, FS_Subset
<1>3. A \ {w} = B \ {w}
  OBVIOUS
<1>4. /\ Cardinality(A) \in Nat /\ Cardinality(B) \in Nat
      /\ Cardinality(B) = Cardinality(A) + Change(A, B, w)
  BY <1>2, <1>3, OneElementChanges
<1>5. Change(A, B, w) = (IF pcFile'[w] \in L THEN 1 ELSE 0)
                          - (IF pcFile[w] \in L THEN 1 ELSE 0)
  BY DEF Change
<1>6. Files!At(L) = A /\ Files!At(L)' = B
  BY DEF Files!At
<1> QED BY <1>4, <1>5, <1>6

\* The chunks of a file that are carried, when one worker moves.
LEMMA HandsChange ==
  ASSUME NEW w \in Worker, NEW f,
         \A v \in Worker \ {w} : pcFile'[v] = pcFile[v] /\ chunk'[v] = chunk[v]
  PROVE  /\ Cardinality(InHands(f)) \in Nat /\ Cardinality(InHands(f)') \in Nat
         /\ Cardinality(InHands(f)') = Cardinality(InHands(f))
              + (IF chunk'[w] = f /\ pcFile'[w] \in Carrying THEN 1 ELSE 0)
              - (IF chunk[w] = f /\ pcFile[w] \in Carrying THEN 1 ELSE 0)
<1> DEFINE A == {v \in Worker : chunk[v] = f /\ pcFile[v] \in Carrying}
           B == {v \in Worker : chunk'[v] = f /\ pcFile'[v] \in Carrying}
<1>1. A \in SUBSET Worker
  OBVIOUS
<1>2. IsFiniteSet(A)
  BY <1>1, FileConstants, FS_Subset
<1>3. A \ {w} = B \ {w}
  OBVIOUS
<1>4. /\ Cardinality(A) \in Nat /\ Cardinality(B) \in Nat
      /\ Cardinality(B) = Cardinality(A) + Change(A, B, w)
  BY <1>2, <1>3, OneElementChanges
<1>5. Change(A, B, w) = (IF chunk'[w] = f /\ pcFile'[w] \in Carrying THEN 1 ELSE 0)
                          - (IF chunk[w] = f /\ pcFile[w] \in Carrying THEN 1 ELSE 0)
  BY DEF Change
<1>6. InHands(f) = A /\ InHands(f)' = B
  BY DEF InHands
<1> QED BY <1>4, <1>5, <1>6

\* Numbers of chunks.
LEMMA ChunkNumbers ==
  ASSUME FileInv, NEW f \in Files!File
  PROVE  /\ IsFiniteSet(Waiting(f)) /\ Cardinality(Waiting(f)) \in Nat
         /\ IsFiniteSet(InHands(f)) /\ Cardinality(InHands(f)) \in Nat
         /\ downloaded[f] \in Nat /\ TotalChunks[f] \in Nat \ {0} /\ Due(f) \in Nat
         /\ Cardinality(Waiting(f)) + Cardinality(InHands(f)) + downloaded[f] = Due(f)
<1>1. Len(chunks) \in Nat
  BY FileTyped, LenProperties
<1>2. IsFiniteSet(1..Len(chunks))
  BY <1>1, FS_Interval
<1>3. IsFiniteSet(Waiting(f)) /\ Cardinality(Waiting(f)) \in Nat
  BY <1>2, FS_Subset, FS_CardinalityType DEF Waiting
<1>4. IsFiniteSet(InHands(f)) /\ Cardinality(InHands(f)) \in Nat
  BY SomeWorkers DEF InHands
<1>5. downloaded[f] \in Nat /\ TotalChunks[f] \in Nat \ {0} /\ Due(f) \in Nat
  BY FileTyped, FileConstants DEF Due
<1> QED BY <1>3, <1>4, <1>5 DEF FileInv, ChunksCounted

\* A file with a chunk on its way to be counted is not complete.
LEMMA CarriedNotComplete ==
  ASSUME FileInv, NEW w \in Worker, pcFile[w] \in Carrying
  PROVE  /\ chunk[w] \in Files!File /\ downloaded[chunk[w]] < TotalChunks[chunk[w]]
         /\ ~Files!IsComplete(chunk[w])
<1>1. chunk[w] \in Files!File
  BY DEF FileInv, HoldersHaveFiles
<1>2. InHands(chunk[w]) # {}
  BY DEF InHands
<1>3. Cardinality(InHands(chunk[w])) # 0
  BY <1>1, <1>2, ChunkNumbers, FS_EmptySet
<1>4. Due(chunk[w]) <= TotalChunks[chunk[w]]
  BY <1>1, ChunkNumbers DEF Due
<1>5. downloaded[chunk[w]] < TotalChunks[chunk[w]]
  BY <1>1, <1>3, <1>4, ChunkNumbers
<1>6. ~Files!IsComplete(chunk[w])
  BY <1>1, <1>5, ChunkNumbers DEF Files!IsComplete
<1> QED BY <1>1, <1>5, <1>6

\* The three counts of workers, when one worker moves.
LEMMA CountsChange ==
  ASSUME FileInv, NEW w \in Worker, NEW to \in FileLabel,
         pcFile' = [pcFile EXCEPT ![w] = to]
  PROVE  /\ pcFile' \in [Worker -> FileLabel] /\ pcFile'[w] = to
         /\ \A v \in Worker \ {w} : pcFile'[v] = pcFile[v]
         /\ Cardinality(Files!At({"download"})) \in Nat
         /\ Cardinality(WithPermit) \in Nat /\ Cardinality(Ending) \in Nat
         /\ Cardinality(Files!At({"download"})') \in Nat
         /\ Cardinality(WithPermit') \in Nat /\ Cardinality(Ending') \in Nat
         /\ Cardinality(Files!At({"download"})')
              = Cardinality(Files!At({"download"}))
                  + (IF to \in {"download"} THEN 1 ELSE 0)
                  - (IF pcFile[w] \in {"download"} THEN 1 ELSE 0)
         /\ Cardinality(WithPermit')
              = Cardinality(WithPermit)
                  + (IF to \in {"recheck", "giveBack", "endFile"} THEN 1 ELSE 0)
                  - (IF pcFile[w] \in {"recheck", "giveBack", "endFile"} THEN 1 ELSE 0)
         /\ Cardinality(Ending')
              = Cardinality(Ending)
                  + (IF to \in {"endFile", "countFile"} THEN 1 ELSE 0)
                  - (IF pcFile[w] \in {"endFile", "countFile"} THEN 1 ELSE 0)
<1>1. /\ pcFile' \in [Worker -> FileLabel] /\ pcFile'[w] = to
      /\ \A v \in Worker \ {w} : pcFile'[v] = pcFile[v]
  BY FileTyped
<1>2. /\ Cardinality(Files!At({"download"})) \in Nat
      /\ Cardinality(Files!At({"download"})') \in Nat
      /\ Cardinality(Files!At({"download"})')
           = Cardinality(Files!At({"download"}))
               + (IF to \in {"download"} THEN 1 ELSE 0)
               - (IF pcFile[w] \in {"download"} THEN 1 ELSE 0)
  BY <1>1, AtChanges
<1>3. /\ Cardinality(WithPermit) \in Nat /\ Cardinality(WithPermit') \in Nat
      /\ Cardinality(WithPermit')
           = Cardinality(WithPermit)
               + (IF to \in {"recheck", "giveBack", "endFile"} THEN 1 ELSE 0)
               - (IF pcFile[w] \in {"recheck", "giveBack", "endFile"} THEN 1 ELSE 0)
  BY <1>1, AtChanges DEF WithPermit
<1>4. /\ Cardinality(Ending) \in Nat /\ Cardinality(Ending') \in Nat
      /\ Cardinality(Ending')
           = Cardinality(Ending)
               + (IF to \in {"endFile", "countFile"} THEN 1 ELSE 0)
               - (IF pcFile[w] \in {"endFile", "countFile"} THEN 1 ELSE 0)
  BY <1>1, AtChanges DEF Ending
<1> QED BY <1>1, <1>2, <1>3, <1>4

\* The permits and the files ended are as many as the type says: they are parts of
\* a sum.
LEMMA CountsBound ==
  ASSUME active_downloads' \in Nat, chunk_downloads' \in Nat, completedFiles' \in Nat,
         ChunkPermitsCounted', FilePermitsCounted', EndingsCounted'
  PROVE  /\ active_downloads' \in 0..MaxActiveFiles
         /\ chunk_downloads' \in 0..MaxActiveChunks
         /\ completedFiles' \in 0..FileCount
<1>1. /\ Cardinality(Files!At({"download"})') \in Nat
      /\ Cardinality(WithPermit') \in Nat /\ Cardinality(Ending') \in Nat
  BY SomeWorkers DEF Files!At, WithPermit, Ending
<1>2. /\ Cardinality(Files!ActiveFiles') \in Nat
      /\ Cardinality(Ended') \in Nat /\ Cardinality(Ended') <= FileCount
  BY SomeFiles DEF Files!ActiveFiles, Ended
<1>3. active_downloads' \in 0..MaxActiveFiles
  BY <1>1, <1>2, FileConstants DEF FilePermitsCounted
<1>4. chunk_downloads' \in 0..MaxActiveChunks
  BY <1>1, FileConstants DEF ChunkPermitsCounted
<1>5. completedFiles' \in 0..FileCount
  BY <1>1, <1>2, FileConstants DEF EndingsCounted
<1> QED BY <1>3, <1>4, <1>5

\* A worker's step that moves no chunk.
LEMMA WorkerStepKept ==
  ASSUME FileInv, NEW w \in Worker, NEW to \in FileLabel,
         pcFile' = [pcFile EXCEPT ![w] = to],
         UNCHANGED <<chunks, added, mainFiles, stopFiles, chunk, downloaded>>,
         active' \in [Files!File -> BOOLEAN],
         pcFile[w] \in Carrying <=> to \in Carrying,
         to # "complete?",
         to = "deactivate" => pcFile[w] = "complete?" /\ Files!IsComplete(chunk[w]),
         active_downloads' \in Nat, chunk_downloads' \in Nat, completedFiles' \in Nat,
         ChunkPermitsCounted', FilePermitsCounted', EndingsCounted',
         Files!DownloadsOnlyActive'
  PROVE  FileInv'
<1>1. /\ pcFile' \in [Worker -> FileLabel] /\ pcFile'[w] = to
      /\ \A v \in Worker \ {w} : pcFile'[v] = pcFile[v]
  BY FileTyped
<1>2. Files!TypeOK' /\ downloaded' \in [Files!File -> Nat]
  BY <1>1, FileTyped, CountsBound DEF Files!TypeOK, FileLabel
<1>3. ChunksCounted'
  <2> SUFFICES ASSUME NEW f \in Files!File
               PROVE  Cardinality(Waiting(f)') + Cardinality(InHands(f)') + downloaded'[f]
                        = Due(f)'
    BY DEF ChunksCounted
  <2>1. InHands(f)' = InHands(f)
    BY <1>1 DEF InHands
  <2>2. Waiting(f)' = Waiting(f) /\ Due(f)' = Due(f)
    BY DEF Waiting, Due
  <2> QED BY <2>1, <2>2, ChunkNumbers
<1>4. HoldersHaveFiles'
  <2>1. chunk' = chunk
    OBVIOUS
  <2>2. ASSUME NEW v \in Worker, pcFile'[v] \in Carrying \cup {"complete?", "deactivate"}
        PROVE  chunk[v] \in Files!File
    <3>1. pcFile[v] \in Carrying \cup {"complete?", "deactivate"}
      BY <1>1, <2>2
    <3> QED BY <3>1 DEF FileInv, HoldersHaveFiles
  <2> QED BY <2>1, <2>2 DEF HoldersHaveFiles
<1>5. CompleteBeforeEnd'
  <2>1. \A v \in Worker : pcFile'[v] = "deactivate" => Files!IsComplete(chunk[v])
    BY <1>1 DEF FileInv, CompleteBeforeEnd
  <2> QED BY <2>1 DEF CompleteBeforeEnd, Files!IsComplete
<1> QED BY <1>2, <1>3, <1>4, <1>5 DEF FileInv

\* A worker only moves.
LEMMA MovesKeep ==
  ASSUME FileInv, NEW w \in Worker, NEW from \in FileLabel, NEW to \in FileLabel, NEW guard,
         Files!Move(w, from, guard, to),
         from \in Carrying <=> to \in Carrying,
         from \notin {"download", "recheck", "giveBack", "endFile", "countFile"},
         to \notin {"download", "recheck", "giveBack", "endFile", "countFile", "complete?"},
         to = "deactivate" => from = "complete?" /\ Files!IsComplete(chunk[w]),
         to \in {"chunkPermit", "mark"} => active[chunk[w]]
  PROVE  FileInv'
<1>1. /\ pcFile[w] = from /\ pcFile' = [pcFile EXCEPT ![w] = to]
      /\ UNCHANGED <<chunks, added, mainFiles, stopFiles, chunk, active, downloaded,
                     active_downloads, chunk_downloads, completedFiles>>
  BY DEF Files!Move, Files!Goto, Files!mainVars, Files!fileVars, Files!permits
<1>2. /\ pcFile'[w] = to
      /\ \A v \in Worker \ {w} : pcFile'[v] = pcFile[v]
  BY <1>1, FileTyped
<1>3. /\ Files!At({"download"})' = Files!At({"download"})
      /\ WithPermit' = WithPermit /\ Ending' = Ending
  BY <1>1, <1>2 DEF Files!At, WithPermit, Ending
<1>4. Files!ActiveFiles' = Files!ActiveFiles /\ Ended' = Ended
  BY <1>1 DEF Files!ActiveFiles, Ended, Files!IsComplete
<1>5. ChunkPermitsCounted' /\ FilePermitsCounted' /\ EndingsCounted'
  BY <1>1, <1>3, <1>4 DEF FileInv, ChunkPermitsCounted, FilePermitsCounted, EndingsCounted
<1>6. Files!DownloadsOnlyActive'
  BY <1>1, <1>2 DEF FileInv, Files!DownloadsOnlyActive, Files!At
<1> QED BY <1>1, <1>5, <1>6, FileTyped, WorkerStepKept

\* The tests, the sleeps and the looks of a worker.
LEMMA LooksKeep ==
  ASSUME FileInv, NEW w \in Worker,
         \/ Files!CheckStop(w) \/ Files!Doze(w) \/ Files!FallAsleep(w)
         \/ Files!SpuriousWake(w) \/ Files!QuitInWait(w) \/ Files!LookActive(w)
         \/ Files!LookComplete(w)
  PROVE  FileInv'
<1>1. CASE Files!CheckStop(w)
  <2> DEFINE to == IF stopFiles THEN "returned" ELSE "wait"
  <2>1. Files!Move(w, "loop", TRUE, to)
    BY <1>1 DEF Files!CheckStop
  <2>2. to \in {"returned", "wait"}
    OBVIOUS
  <2> HIDE DEF to
  <2> QED BY <2>1, <2>2, MovesKeep DEF FileLabel, Carrying
<1>2. CASE Files!Doze(w)
  BY <1>2, MovesKeep DEF Files!Doze, FileLabel, Carrying
<1>3. CASE Files!FallAsleep(w)
  BY <1>3, MovesKeep DEF Files!FallAsleep, FileLabel, Carrying
<1>4. CASE Files!SpuriousWake(w)
  BY <1>4, MovesKeep DEF Files!SpuriousWake, FileLabel, Carrying
<1>5. CASE Files!QuitInWait(w)
  BY <1>5, MovesKeep DEF Files!QuitInWait, FileLabel, Carrying
<1>6. CASE Files!LookActive(w)
  <2> DEFINE to == IF active[chunk[w]] THEN "chunkPermit" ELSE "filePermit"
  <2>1. Files!Move(w, "ensure", TRUE, to)
    BY <1>6 DEF Files!LookActive
  <2>2. to \in {"chunkPermit", "filePermit"} /\ (to = "chunkPermit" => active[chunk[w]])
    OBVIOUS
  <2> HIDE DEF to
  <2> QED BY <2>1, <2>2, MovesKeep DEF FileLabel, Carrying
<1>7. CASE Files!LookComplete(w)
  <2> DEFINE to == IF Files!IsComplete(chunk[w]) THEN "deactivate" ELSE "loop"
  <2>1. Files!Move(w, "complete?", TRUE, to)
    BY <1>7 DEF Files!LookComplete
  <2>2. to \in {"deactivate", "loop"} /\ (to = "deactivate" => Files!IsComplete(chunk[w]))
    OBVIOUS
  <2> HIDE DEF to
  <2> QED BY <2>1, <2>2, MovesKeep DEF FileLabel, Carrying
<1> QED BY <1>1, <1>2, <1>3, <1>4, <1>5, <1>6, <1>7

\* A worker takes or gives back a permit, or counts the file it has ended.
LEMMA PermitStepsKeep ==
  ASSUME FileInv, NEW w \in Worker,
         \/ Files!AcquireFilePermit(w) \/ Files!GiveBack(w) \/ Files!EndFile(w)
         \/ Files!AcquireChunkPermit(w) \/ Files!ReleaseChunkPermit(w)
         \/ Files!CountFile(w)
  PROVE  FileInv'
<1> USE DEF Files!Goto, Files!mainVars, Files!fileVars, Files!permits,
            Files!ReleaseFilePermit
<1>1. PICK to \in FileLabel :
        /\ pcFile' = [pcFile EXCEPT ![w] = to]
        /\ UNCHANGED <<chunks, added, mainFiles, stopFiles, chunk, active, downloaded>>
        /\ \/ /\ pcFile[w] = "filePermit" /\ to = "recheck" /\ active_downloads > 0
              /\ active_downloads' = active_downloads - 1
              /\ UNCHANGED <<chunk_downloads, completedFiles>>
           \/ /\ \/ pcFile[w] = "giveBack" /\ to = "chunkPermit"
                 \/ pcFile[w] = "endFile" /\ to = "countFile"
              /\ active_downloads' = active_downloads + 1
              /\ UNCHANGED <<chunk_downloads, completedFiles>>
           \/ /\ pcFile[w] = "chunkPermit" /\ to = "download" /\ chunk_downloads > 0
              /\ chunk_downloads' = chunk_downloads - 1
              /\ UNCHANGED <<active_downloads, completedFiles>>
           \/ /\ pcFile[w] = "download" /\ to = "mark"
              /\ chunk_downloads' = chunk_downloads + 1
              /\ UNCHANGED <<active_downloads, completedFiles>>
           \/ /\ pcFile[w] = "countFile" /\ to = "loop"
              /\ completedFiles' = completedFiles + 1
              /\ UNCHANGED <<active_downloads, chunk_downloads>>
  <2>1. CASE Files!AcquireFilePermit(w)
    BY <2>1 DEF Files!AcquireFilePermit, FileLabel
  <2>2. CASE Files!GiveBack(w)
    BY <2>2 DEF Files!GiveBack, FileLabel
  <2>3. CASE Files!EndFile(w)
    BY <2>3 DEF Files!EndFile, FileLabel
  <2>4. CASE Files!AcquireChunkPermit(w)
    BY <2>4 DEF Files!AcquireChunkPermit, FileLabel
  <2>5. CASE Files!ReleaseChunkPermit(w)
    BY <2>5 DEF Files!ReleaseChunkPermit, FileLabel
  <2>6. CASE Files!CountFile(w)
    BY <2>6 DEF Files!CountFile, FileLabel
  <2> QED BY <2>1, <2>2, <2>3, <2>4, <2>5, <2>6
<1> DEFINE D == Cardinality(Files!At({"download"}))
           P == Cardinality(WithPermit)
           E == Cardinality(Ending)
           A == Cardinality(Files!ActiveFiles)
           C == Cardinality(Ended)
<1>2. Files!ActiveFiles' = Files!ActiveFiles /\ Ended' = Ended
  BY <1>1 DEF Files!ActiveFiles, Ended, Files!IsComplete
<1>3. A \in Nat /\ C \in Nat /\ A' = A /\ C' = C
  BY <1>2, SomeFiles DEF Files!ActiveFiles, Ended
<1>4. /\ D \in Nat /\ P \in Nat /\ E \in Nat /\ D' \in Nat /\ P' \in Nat /\ E' \in Nat
      /\ D' = D + (IF to \in {"download"} THEN 1 ELSE 0)
                - (IF pcFile[w] \in {"download"} THEN 1 ELSE 0)
      /\ P' = P + (IF to \in {"recheck", "giveBack", "endFile"} THEN 1 ELSE 0)
                - (IF pcFile[w] \in {"recheck", "giveBack", "endFile"} THEN 1 ELSE 0)
      /\ E' = E + (IF to \in {"endFile", "countFile"} THEN 1 ELSE 0)
                - (IF pcFile[w] \in {"endFile", "countFile"} THEN 1 ELSE 0)
  BY <1>1, CountsChange
<1>5. /\ chunk_downloads + D = MaxActiveChunks
      /\ active_downloads + A + P = MaxActiveFiles
      /\ completedFiles + E = C
  BY DEF FileInv, ChunkPermitsCounted, FilePermitsCounted, EndingsCounted
<1>6. /\ active_downloads \in Nat /\ chunk_downloads \in Nat /\ completedFiles \in Nat
  BY FileTyped
<1>7. /\ active_downloads' \in Nat /\ chunk_downloads' \in Nat /\ completedFiles' \in Nat
      /\ chunk_downloads' + D' = MaxActiveChunks
      /\ active_downloads' + A' + P' = MaxActiveFiles
      /\ completedFiles' + E' = C'
  <2> HIDE DEF A, C, D, E, P
  <2>1. CASE /\ pcFile[w] = "filePermit" /\ to = "recheck" /\ active_downloads > 0
             /\ active_downloads' = active_downloads - 1
             /\ UNCHANGED <<chunk_downloads, completedFiles>>
    <3>1. D' = D /\ P' = P + 1 /\ E' = E
      BY <1>4, <2>1
    <3> QED BY <1>3, <1>4, <1>5, <1>6, <2>1, <3>1
  <2>2. CASE /\ \/ pcFile[w] = "giveBack" /\ to = "chunkPermit"
                \/ pcFile[w] = "endFile" /\ to = "countFile"
             /\ active_downloads' = active_downloads + 1
             /\ UNCHANGED <<chunk_downloads, completedFiles>>
    <3>1. D' = D /\ P' = P - 1 /\ E' = E
      BY <1>4, <2>2
    <3> QED BY <1>3, <1>4, <1>5, <1>6, <2>2, <3>1
  <2>3. CASE /\ pcFile[w] = "chunkPermit" /\ to = "download" /\ chunk_downloads > 0
             /\ chunk_downloads' = chunk_downloads - 1
             /\ UNCHANGED <<active_downloads, completedFiles>>
    <3>1. D' = D + 1 /\ P' = P /\ E' = E
      BY <1>4, <2>3
    <3> QED BY <1>3, <1>4, <1>5, <1>6, <2>3, <3>1
  <2>4. CASE /\ pcFile[w] = "download" /\ to = "mark"
             /\ chunk_downloads' = chunk_downloads + 1
             /\ UNCHANGED <<active_downloads, completedFiles>>
    <3>1. D' = D - 1 /\ P' = P /\ E' = E
      BY <1>4, <2>4
    <3> QED BY <1>3, <1>4, <1>5, <1>6, <2>4, <3>1
  <2>5. CASE /\ pcFile[w] = "countFile" /\ to = "loop"
             /\ completedFiles' = completedFiles + 1
             /\ UNCHANGED <<active_downloads, chunk_downloads>>
    <3>1. D' = D /\ P' = P /\ E' = E - 1
      BY <1>4, <2>5
    <3> QED BY <1>3, <1>4, <1>5, <1>6, <2>5, <3>1
  <2> QED BY <1>1, <2>1, <2>2, <2>3, <2>4, <2>5
<1>8. ChunkPermitsCounted' /\ FilePermitsCounted' /\ EndingsCounted'
  BY <1>7 DEF ChunkPermitsCounted, FilePermitsCounted, EndingsCounted
<1>9. Files!DownloadsOnlyActive'
  <2>1. /\ pcFile'[w] = to
        /\ \A v \in Worker \ {w} : pcFile'[v] = pcFile[v]
    BY <1>1, FileTyped
  <2>2. to \in {"giveBack", "chunkPermit", "download", "mark"}
          => pcFile[w] \in {"giveBack", "chunkPermit", "download", "mark"}
    BY <1>1
  <2> QED BY <1>1, <2>1, <2>2 DEF FileInv, Files!DownloadsOnlyActive, Files!At
<1>10. (pcFile[w] \in Carrying <=> to \in Carrying) /\ to # "complete?" /\ to # "deactivate"
  BY <1>1 DEF Carrying
<1> QED BY <1>1, <1>7, <1>8, <1>9, <1>10, FileTyped, WorkerStepKept
----------------------------------------------------------------------------
\* The active files and the ended ones, when one file is activated or deactivated.
LEMMA ActiveChanges ==
  ASSUME FileInv, NEW f \in Files!File, NEW b \in BOOLEAN,
         active' = [active EXCEPT ![f] = b], UNCHANGED downloaded
  PROVE  /\ Cardinality(Files!ActiveFiles) \in Nat /\ Cardinality(Ended) \in Nat
         /\ Cardinality(Files!ActiveFiles')
              = Cardinality(Files!ActiveFiles)
                  + (IF b THEN 1 ELSE 0) - (IF active[f] THEN 1 ELSE 0)
         /\ Cardinality(Ended')
              = Cardinality(Ended)
                  + (IF Files!IsComplete(f) /\ ~b THEN 1 ELSE 0)
                  - (IF Files!IsComplete(f) /\ ~active[f] THEN 1 ELSE 0)
<1> DEFINE A == {g \in Files!File : active[g]}
           B == {g \in Files!File : active'[g]}
           C == {g \in Files!File : Files!IsComplete(g) /\ ~active[g]}
           D == {g \in Files!File : Files!IsComplete(g) /\ ~active'[g]}
<1>1. (active'[f] <=> b) /\ \A g \in Files!File \ {f} : active'[g] = active[g]
  BY FileTyped
<1>2. A \in SUBSET Files!File /\ C \in SUBSET Files!File
  OBVIOUS
<1>3. IsFiniteSet(A) /\ IsFiniteSet(C)
  BY <1>2, SomeFiles
<1>4. A \ {f} = B \ {f} /\ C \ {f} = D \ {f}
  BY <1>1
<1>5. /\ Cardinality(A) \in Nat /\ Cardinality(B) = Cardinality(A) + Change(A, B, f)
      /\ Cardinality(C) \in Nat /\ Cardinality(D) = Cardinality(C) + Change(C, D, f)
  BY <1>3, <1>4, OneElementChanges
<1>6. Change(A, B, f) = (IF b THEN 1 ELSE 0) - (IF active[f] THEN 1 ELSE 0)
  BY <1>1 DEF Change
<1>7. Change(C, D, f) = (IF Files!IsComplete(f) /\ ~b THEN 1 ELSE 0)
                          - (IF Files!IsComplete(f) /\ ~active[f] THEN 1 ELSE 0)
  BY <1>1 DEF Change
<1>8. /\ Files!ActiveFiles = A /\ Files!ActiveFiles' = B /\ Ended = C /\ Ended' = D
  BY DEF Files!ActiveFiles, Ended, Files!IsComplete
<1> QED BY <1>5, <1>6, <1>7, <1>8

\* The second look at active: the worker's permit becomes the file's, or is to be
\* given back.
LEMMA RecheckKeeps ==
  ASSUME FileInv, NEW w \in Worker, Files!Recheck(w)
  PROVE  FileInv'
<1> DEFINE f == chunk[w]
           to == IF active[f] THEN "giveBack" ELSE "chunkPermit"
<1>1. /\ pcFile[w] = "recheck" /\ active' = [active EXCEPT ![f] = TRUE]
      /\ pcFile' = [pcFile EXCEPT ![w] = to]
      /\ UNCHANGED <<chunks, added, mainFiles, stopFiles, chunk, downloaded,
                     active_downloads, chunk_downloads, completedFiles>>
  BY DEF Files!Recheck, Files!Goto, Files!mainVars, Files!permits
<1>2. f \in Files!File /\ ~Files!IsComplete(f)
  BY <1>1, CarriedNotComplete DEF Carrying
<1>3. /\ to = "giveBack" \/ to = "chunkPermit"
      /\ to = "giveBack" <=> active[f]
      /\ to \in FileLabel
  BY DEF FileLabel
<1>4. active[f] \in BOOLEAN /\ active' \in [Files!File -> BOOLEAN]
  BY <1>1, <1>2, FileTyped
<1> HIDE DEF to, f
<1>5. /\ Cardinality(Files!ActiveFiles) \in Nat /\ Cardinality(Ended) \in Nat
      /\ Cardinality(Files!ActiveFiles')
           = Cardinality(Files!ActiveFiles) + 1 - (IF active[f] THEN 1 ELSE 0)
      /\ Cardinality(Ended') = Cardinality(Ended)
  <2>1. /\ Cardinality(Files!ActiveFiles) \in Nat /\ Cardinality(Ended) \in Nat
        /\ Cardinality(Files!ActiveFiles')
             = Cardinality(Files!ActiveFiles)
                 + (IF TRUE THEN 1 ELSE 0) - (IF active[f] THEN 1 ELSE 0)
        /\ Cardinality(Ended')
             = Cardinality(Ended)
                 + (IF Files!IsComplete(f) /\ ~TRUE THEN 1 ELSE 0)
                 - (IF Files!IsComplete(f) /\ ~active[f] THEN 1 ELSE 0)
    BY <1>1, <1>2, ActiveChanges
  <2>2. CASE active[f]
    BY <1>2, <2>1, <2>2
  <2>3. CASE ~active[f]
    BY <1>2, <2>1, <2>3
  <2> QED BY <2>2, <2>3
<1>6. /\ Cardinality(Files!At({"download"})) \in Nat
      /\ Cardinality(WithPermit) \in Nat /\ Cardinality(Ending) \in Nat
      /\ Cardinality(Files!At({"download"})') = Cardinality(Files!At({"download"}))
      /\ Cardinality(WithPermit')
           = Cardinality(WithPermit) - (IF active[f] THEN 0 ELSE 1)
      /\ Cardinality(Ending') = Cardinality(Ending)
  <2>1. /\ Cardinality(Files!At({"download"})) \in Nat
        /\ Cardinality(WithPermit) \in Nat /\ Cardinality(Ending) \in Nat
        /\ Cardinality(Files!At({"download"})')
             = Cardinality(Files!At({"download"}))
                 + (IF to \in {"download"} THEN 1 ELSE 0)
                 - (IF pcFile[w] \in {"download"} THEN 1 ELSE 0)
        /\ Cardinality(WithPermit')
             = Cardinality(WithPermit)
                 + (IF to \in {"recheck", "giveBack", "endFile"} THEN 1 ELSE 0)
                 - (IF pcFile[w] \in {"recheck", "giveBack", "endFile"} THEN 1 ELSE 0)
        /\ Cardinality(Ending')
             = Cardinality(Ending)
                 + (IF to \in {"endFile", "countFile"} THEN 1 ELSE 0)
                 - (IF pcFile[w] \in {"endFile", "countFile"} THEN 1 ELSE 0)
    BY <1>1, <1>3, CountsChange
  <2>2. CASE active[f]
    BY <1>1, <1>3, <2>1, <2>2
  <2>3. CASE ~active[f]
    BY <1>1, <1>3, <2>1, <2>3
  <2> QED BY <2>2, <2>3
<1>7. ChunkPermitsCounted' /\ FilePermitsCounted' /\ EndingsCounted'
  <2>1. ChunkPermitsCounted' /\ EndingsCounted'
    BY <1>1, <1>5, <1>6 DEF FileInv, ChunkPermitsCounted, EndingsCounted
  <2>2. FilePermitsCounted'
    <3>1. active_downloads + Cardinality(Files!ActiveFiles) + Cardinality(WithPermit)
            = MaxActiveFiles
      BY DEF FileInv, FilePermitsCounted
    <3>2. active_downloads + Cardinality(Files!ActiveFiles') + Cardinality(WithPermit')
            = MaxActiveFiles
      BY <1>5, <1>6, <3>1, FileTyped
    <3> QED BY <1>1, <3>2 DEF FilePermitsCounted
  <2> QED BY <2>1, <2>2
<1>8. Files!DownloadsOnlyActive'
  <2>1. /\ active'[f] /\ \A g \in Files!File : active[g] => active'[g]
    BY <1>1, <1>2, FileTyped
  <2>2. \A v \in Worker \ {w} : pcFile'[v] = pcFile[v]
    BY <1>1, FileTyped
  <2>3. ASSUME NEW v \in Worker,
               pcFile'[v] \in {"giveBack", "chunkPermit", "download", "mark"}
        PROVE  active'[chunk[v]]
    <3>1. CASE v = w
      BY <2>1, <3>1 DEF f
    <3>2. CASE v # w
      <4>1. active[chunk[v]] /\ chunk[v] \in Files!File
        BY <2>2, <2>3, <3>2
           DEF FileInv, Files!DownloadsOnlyActive, Files!At, HoldersHaveFiles, Carrying
      <4> QED BY <2>1, <4>1
    <3> QED BY <3>1, <3>2
  <2> QED BY <1>1, <2>3 DEF Files!DownloadsOnlyActive, Files!At
<1>9. (pcFile[w] \in Carrying <=> to \in Carrying) /\ to # "complete?" /\ to # "deactivate"
  BY <1>1, <1>3 DEF Carrying
<1> QED BY <1>1, <1>3, <1>4, <1>7, <1>8, <1>9, FileTyped, WorkerStepKept

\* The end of a complete file: the first that finds it active ends it.
LEMMA DeactivateKeeps ==
  ASSUME FileInv, NEW w \in Worker, Files!Deactivate(w)
  PROVE  FileInv'
<1> DEFINE f == chunk[w]
           to == IF active[f] THEN "endFile" ELSE "loop"
<1>1. /\ pcFile[w] = "deactivate" /\ active' = [active EXCEPT ![f] = FALSE]
      /\ pcFile' = [pcFile EXCEPT ![w] = to]
      /\ UNCHANGED <<chunks, added, mainFiles, stopFiles, chunk, downloaded,
                     active_downloads, chunk_downloads, completedFiles>>
  BY DEF Files!Deactivate, Files!Goto, Files!mainVars, Files!permits
<1>2. f \in Files!File /\ Files!IsComplete(f)
  BY <1>1 DEF FileInv, HoldersHaveFiles, CompleteBeforeEnd
<1>3. /\ to = "endFile" \/ to = "loop"
      /\ to = "endFile" <=> active[f]
      /\ to \in FileLabel
  BY DEF FileLabel
<1>4. active[f] \in BOOLEAN /\ active' \in [Files!File -> BOOLEAN]
  BY <1>1, <1>2, FileTyped
<1> HIDE DEF to, f
<1>5. /\ Cardinality(Files!ActiveFiles) \in Nat /\ Cardinality(Ended) \in Nat
      /\ Cardinality(Files!ActiveFiles')
           = Cardinality(Files!ActiveFiles) - (IF active[f] THEN 1 ELSE 0)
      /\ Cardinality(Ended') = Cardinality(Ended) + (IF active[f] THEN 1 ELSE 0)
  <2>1. /\ Cardinality(Files!ActiveFiles) \in Nat /\ Cardinality(Ended) \in Nat
        /\ Cardinality(Files!ActiveFiles')
             = Cardinality(Files!ActiveFiles)
                 + (IF FALSE THEN 1 ELSE 0) - (IF active[f] THEN 1 ELSE 0)
        /\ Cardinality(Ended')
             = Cardinality(Ended)
                 + (IF Files!IsComplete(f) /\ ~FALSE THEN 1 ELSE 0)
                 - (IF Files!IsComplete(f) /\ ~active[f] THEN 1 ELSE 0)
    BY <1>1, <1>2, ActiveChanges
  <2>2. CASE active[f]
    BY <1>2, <2>1, <2>2
  <2>3. CASE ~active[f]
    BY <1>2, <2>1, <2>3
  <2> QED BY <2>2, <2>3
<1>6. /\ Cardinality(Files!At({"download"})) \in Nat
      /\ Cardinality(WithPermit) \in Nat /\ Cardinality(Ending) \in Nat
      /\ Cardinality(Files!At({"download"})') = Cardinality(Files!At({"download"}))
      /\ Cardinality(WithPermit')
           = Cardinality(WithPermit) + (IF active[f] THEN 1 ELSE 0)
      /\ Cardinality(Ending') = Cardinality(Ending) + (IF active[f] THEN 1 ELSE 0)
  <2>1. /\ Cardinality(Files!At({"download"})) \in Nat
        /\ Cardinality(WithPermit) \in Nat /\ Cardinality(Ending) \in Nat
        /\ Cardinality(Files!At({"download"})')
             = Cardinality(Files!At({"download"}))
                 + (IF to \in {"download"} THEN 1 ELSE 0)
                 - (IF pcFile[w] \in {"download"} THEN 1 ELSE 0)
        /\ Cardinality(WithPermit')
             = Cardinality(WithPermit)
                 + (IF to \in {"recheck", "giveBack", "endFile"} THEN 1 ELSE 0)
                 - (IF pcFile[w] \in {"recheck", "giveBack", "endFile"} THEN 1 ELSE 0)
        /\ Cardinality(Ending')
             = Cardinality(Ending)
                 + (IF to \in {"endFile", "countFile"} THEN 1 ELSE 0)
                 - (IF pcFile[w] \in {"endFile", "countFile"} THEN 1 ELSE 0)
    BY <1>1, <1>3, CountsChange
  <2>2. CASE active[f]
    BY <1>1, <1>3, <2>1, <2>2
  <2>3. CASE ~active[f]
    BY <1>1, <1>3, <2>1, <2>3
  <2> QED BY <2>2, <2>3
<1>7. ChunkPermitsCounted' /\ FilePermitsCounted' /\ EndingsCounted'
  <2>1. ChunkPermitsCounted'
    BY <1>1, <1>6 DEF FileInv, ChunkPermitsCounted
  <2>2. FilePermitsCounted'
    <3>1. active_downloads + Cardinality(Files!ActiveFiles) + Cardinality(WithPermit)
            = MaxActiveFiles
      BY DEF FileInv, FilePermitsCounted
    <3>2. active_downloads + Cardinality(Files!ActiveFiles') + Cardinality(WithPermit')
            = MaxActiveFiles
      BY <1>5, <1>6, <3>1, FileTyped
    <3> QED BY <1>1, <3>2 DEF FilePermitsCounted
  <2>3. EndingsCounted'
    <3>1. completedFiles + Cardinality(Ending) = Cardinality(Ended)
      BY DEF FileInv, EndingsCounted
    <3>2. completedFiles + Cardinality(Ending') = Cardinality(Ended')
      BY <1>5, <1>6, <3>1, FileTyped
    <3> QED BY <1>1, <3>2 DEF EndingsCounted
  <2> QED BY <2>1, <2>2, <2>3
<1>8. Files!DownloadsOnlyActive'
  <2>1. \A g \in Files!File \ {f} : active'[g] = active[g]
    BY <1>1, FileTyped
  <2>2. \A v \in Worker \ {w} : pcFile'[v] = pcFile[v]
    BY <1>1, FileTyped
  <2>3. pcFile'[w] = to
    BY <1>1, <1>3, FileTyped
  <2>4. ASSUME NEW v \in Worker,
               pcFile'[v] \in {"giveBack", "chunkPermit", "download", "mark"}
        PROVE  active'[chunk[v]]
    <3>1. v # w
      BY <1>3, <2>3, <2>4
    <3>2. pcFile[v] \in {"giveBack", "chunkPermit", "download", "mark"}
      BY <2>2, <2>4, <3>1
    <3>3. active[chunk[v]]
      BY <3>2 DEF FileInv, Files!DownloadsOnlyActive, Files!At
    <3>4. chunk[v] \in Files!File /\ ~Files!IsComplete(chunk[v])
      BY <3>2, CarriedNotComplete DEF Carrying
    <3>5. chunk[v] # f
      BY <1>2, <3>4
    <3> QED BY <2>1, <3>3, <3>4, <3>5
  <2> QED BY <1>1, <2>4 DEF Files!DownloadsOnlyActive, Files!At
<1>9. (pcFile[w] \in Carrying <=> to \in Carrying) /\ to # "complete?" /\ to # "deactivate"
  BY <1>1, <1>3 DEF Carrying
<1> QED BY <1>1, <1>3, <1>4, <1>7, <1>8, <1>9, FileTyped, WorkerStepKept
----------------------------------------------------------------------------
\* The chunk in a worker's hands is counted: its file was active, and may be
\* complete now.
LEMMA MarkKeeps ==
  ASSUME FileInv, NEW w \in Worker, Files!MarkDownloaded(w)
  PROVE  FileInv'
<1> DEFINE f == chunk[w]
<1>1. /\ pcFile[w] = "mark" /\ pcFile' = [pcFile EXCEPT ![w] = "complete?"]
      /\ downloaded' = [downloaded EXCEPT ![f] = downloaded[f] + 1]
      /\ UNCHANGED <<chunks, added, mainFiles, stopFiles, chunk, active,
                     active_downloads, chunk_downloads, completedFiles>>
  BY DEF Files!MarkDownloaded, Files!Goto, Files!mainVars, Files!permits
<1>2. f \in Files!File /\ downloaded[f] < TotalChunks[f] /\ active[f]
  <2>1. w \in Files!At({"giveBack", "chunkPermit", "download", "mark"})
    BY <1>1 DEF Files!At
  <2>2. active[f]
    BY <2>1 DEF FileInv, Files!DownloadsOnlyActive
  <2> QED BY <1>1, <2>2, CarriedNotComplete DEF Carrying
<1> HIDE DEF f
<1>3. /\ pcFile' \in [Worker -> FileLabel] /\ pcFile'[w] = "complete?"
      /\ \A v \in Worker \ {w} : pcFile'[v] = pcFile[v]
  BY <1>1, FileTyped DEF FileLabel
<1>4. /\ downloaded' \in [Files!File -> Nat] /\ downloaded'[f] = downloaded[f] + 1
      /\ \A g \in Files!File \ {f} : downloaded'[g] = downloaded[g]
      /\ downloaded[f] \in Nat /\ downloaded[f] + 1 \in Nat
      /\ TotalChunks[f] \in Nat
  BY <1>1, <1>2, FileTyped, FileConstants
<1>5. Files!TypeOK'
  <2>1. downloaded'[f] \in 0..TotalChunks[f]
    BY <1>2, <1>4
  <2>2. \A g \in Files!File : downloaded'[g] \in 0..TotalChunks[g]
    BY <1>4, <2>1, FileTyped
  <2> QED BY <1>1, <1>3, <2>2, FileTyped DEF Files!TypeOK, FileLabel
<1>6. ChunksCounted'
  <2> SUFFICES ASSUME NEW g \in Files!File
               PROVE  Cardinality(Waiting(g)') + Cardinality(InHands(g)') + downloaded'[g]
                        = Due(g)'
    BY DEF ChunksCounted
  <2>1. Waiting(g)' = Waiting(g) /\ Due(g)' = Due(g)
    BY <1>1 DEF Waiting, Due
  <2>2. /\ Cardinality(InHands(g)) \in Nat /\ Cardinality(InHands(g)') \in Nat
        /\ Cardinality(InHands(g)') = Cardinality(InHands(g))
             + (IF chunk'[w] = g /\ pcFile'[w] \in Carrying THEN 1 ELSE 0)
             - (IF chunk[w] = g /\ pcFile[w] \in Carrying THEN 1 ELSE 0)
    BY <1>1, <1>3, HandsChange
  <2>3. pcFile[w] \in Carrying /\ pcFile'[w] \notin Carrying
    BY <1>1, <1>3 DEF Carrying
  <2>4. CASE g = f
    <3>1. chunk[w] = g
      BY <2>4 DEF f
    <3>2. Cardinality(InHands(g)') = Cardinality(InHands(g)) - 1
      BY <2>2, <2>3, <3>1
    <3>3. downloaded'[g] = downloaded[g] + 1
      BY <1>4, <2>4
    <3> QED BY <2>1, <2>2, <3>2, <3>3, ChunkNumbers
  <2>5. CASE g # f
    <3>1. chunk[w] # g
      BY <2>5 DEF f
    <3>2. Cardinality(InHands(g)') = Cardinality(InHands(g))
      BY <1>1, <2>2, <3>1
    <3>3. downloaded'[g] = downloaded[g]
      BY <1>4, <2>5
    <3> QED BY <2>1, <3>2, <3>3, ChunkNumbers
  <2> QED BY <2>4, <2>5
<1>7. HoldersHaveFiles'
  <2>1. \A v \in Worker : pcFile'[v] \in Carrying \cup {"complete?", "deactivate"}
                            => chunk[v] \in Files!File
    BY <1>2, <1>3 DEF FileInv, HoldersHaveFiles, f
  <2> QED BY <1>1, <2>1 DEF HoldersHaveFiles
<1>8. CompleteBeforeEnd'
  <2>1. \A g \in Files!File : downloaded[g] >= TotalChunks[g]
                                => downloaded'[g] >= TotalChunks[g]
    BY <1>2, <1>4
  <2>2. \A v \in Worker : pcFile'[v] = "deactivate"
                            => /\ chunk[v] \in Files!File
                               /\ downloaded[chunk[v]] >= TotalChunks[chunk[v]]
    BY <1>3 DEF FileInv, CompleteBeforeEnd, HoldersHaveFiles, Files!IsComplete
  <2>3. \A v \in Worker : pcFile'[v] = "deactivate"
                            => downloaded'[chunk[v]] >= TotalChunks[chunk[v]]
    BY <2>1, <2>2
  <2> QED BY <1>1, <2>3 DEF CompleteBeforeEnd, Files!IsComplete
<1>9. ChunkPermitsCounted' /\ FilePermitsCounted' /\ EndingsCounted'
  <2>1. /\ Files!At({"download"})' = Files!At({"download"})
        /\ WithPermit' = WithPermit /\ Ending' = Ending
    BY <1>1, <1>3 DEF Files!At, WithPermit, Ending
  <2>2. Files!ActiveFiles' = Files!ActiveFiles
    BY <1>1 DEF Files!ActiveFiles
  <2>3. Ended' = Ended
    <3>1. \A g \in Files!File :
            (downloaded'[g] >= TotalChunks[g] /\ ~active'[g])
              <=> (downloaded[g] >= TotalChunks[g] /\ ~active[g])
      BY <1>1, <1>2, <1>4
    <3> QED BY <3>1 DEF Ended, Files!IsComplete
  <2> QED BY <1>1, <2>1, <2>2, <2>3
      DEF FileInv, ChunkPermitsCounted, FilePermitsCounted, EndingsCounted
<1>10. Files!DownloadsOnlyActive'
  BY <1>1, <1>3 DEF FileInv, Files!DownloadsOnlyActive, Files!At
<1> QED BY <1>4, <1>5, <1>6, <1>7, <1>8, <1>9, <1>10 DEF FileInv

\* The chunks of a file that wait, when the first of the queue is taken.
LEMMA TakenWaits ==
  ASSUME FileInv, chunks # <<>>, chunks' = Tail(chunks), NEW f \in Files!File
  PROVE  /\ Cardinality(Waiting(f)') \in Nat
         /\ Cardinality(Waiting(f)')
              = Cardinality(Waiting(f)) - (IF Head(chunks) = f THEN 1 ELSE 0)
<1>1. /\ chunks \in Seq(Files!File) /\ Len(chunks) \in Nat \ {0}
      /\ Len(chunks') = Len(chunks) - 1
      /\ \A i \in 1..Len(chunks') : chunks'[i] = chunks[i + 1]
      /\ Head(chunks) = chunks[1]
  BY FileTyped, HeadTailProperties, LenProperties
<1> DEFINE A == {i \in 1..Len(chunks) : chunks[i] = f}
           B == {i \in 1..Len(chunks') : chunks'[i] = f}
           C == {i + 1 : i \in B}
<1>2. Waiting(f) = A /\ Waiting(f)' = B
  BY DEF Waiting
<1>3. IsFiniteSet(A) /\ IsFiniteSet(B) /\ B \in SUBSET Int
  <2>1. IsFiniteSet(1..Len(chunks)) /\ IsFiniteSet(1..Len(chunks'))
    BY <1>1, FS_Interval
  <2>2. A \in SUBSET (1..Len(chunks)) /\ B \in SUBSET (1..Len(chunks'))
    OBVIOUS
  <2>3. B \in SUBSET Int
    BY <2>2
  <2> QED BY <2>1, <2>2, <2>3, FS_Subset
<1>4. C = A \ {1}
  <2>1. ASSUME NEW i \in B PROVE i + 1 \in A \ {1}
    BY <1>1, <2>1
  <2>2. ASSUME NEW j \in A \ {1} PROVE \E i \in B : j = i + 1
    <3>1. j - 1 \in 1..Len(chunks') /\ (j - 1) + 1 = j
      BY <1>1
    <3>2. j - 1 \in B
      BY <1>1, <3>1
    <3> QED BY <3>1, <3>2
  <2> QED BY <2>1, <2>2
<1>5. 1 \in A <=> Head(chunks) = f
  BY <1>1
<1> HIDE DEF A, B
<1>6. Cardinality(C) = Cardinality(B) /\ Cardinality(B) \in Nat
  BY <1>3, ShiftedNumbers, FS_CardinalityType
<1>7. Cardinality(A \ {1}) = Cardinality(A) - (IF 1 \in A THEN 1 ELSE 0)
  <2>1. Cardinality(A \ {1}) = IF 1 \in A THEN Cardinality(A) - 1 ELSE Cardinality(A)
    BY <1>3, FS_RemoveElement
  <2>2. Cardinality(A) \in Nat
    BY <1>3, FS_CardinalityType
  <2> QED BY <2>1, <2>2
<1> HIDE DEF C
<1> QED BY <1>2, <1>4, <1>5, <1>6, <1>7

\* A worker takes the first chunk of the queue.
LEMMA TakeChunkKeeps ==
  ASSUME FileInv, NEW w \in Worker, Files!TakeChunk(w)
  PROVE  FileInv'
<1>1. /\ pcFile[w] = "wait" /\ chunks # <<>> /\ chunks' = Tail(chunks)
      /\ chunk' = [chunk EXCEPT ![w] = Head(chunks)]
      /\ pcFile' = [pcFile EXCEPT ![w] = "ensure"]
      /\ UNCHANGED <<added, mainFiles, stopFiles, active, downloaded,
                     active_downloads, chunk_downloads, completedFiles>>
  BY DEF Files!TakeChunk, Files!Goto, Files!mainVars, Files!fileVars, Files!permits
<1>2. Head(chunks) \in Files!File /\ chunks' \in Seq(Files!File)
  BY <1>1, FileTyped, HeadTailProperties
<1>3. /\ pcFile' \in [Worker -> FileLabel] /\ pcFile'[w] = "ensure"
      /\ chunk' \in [Worker -> 0..FileCount] /\ chunk'[w] = Head(chunks)
      /\ \A v \in Worker \ {w} : pcFile'[v] = pcFile[v] /\ chunk'[v] = chunk[v]
  <2>1. Head(chunks) \in 0..FileCount
    BY <1>2, FileConstants
  <2> QED BY <1>1, <2>1, FileTyped DEF FileLabel
<1>4. Files!TypeOK'
  BY <1>1, <1>2, <1>3, FileTyped DEF Files!TypeOK, FileLabel
<1>5. ChunksCounted'
  <2> SUFFICES ASSUME NEW f \in Files!File
               PROVE  Cardinality(Waiting(f)') + Cardinality(InHands(f)') + downloaded'[f]
                        = Due(f)'
    BY DEF ChunksCounted
  <2>1. /\ Cardinality(Waiting(f)') \in Nat
        /\ Cardinality(Waiting(f)')
             = Cardinality(Waiting(f)) - (IF Head(chunks) = f THEN 1 ELSE 0)
    BY <1>1, TakenWaits
  <2>2. /\ Cardinality(InHands(f)) \in Nat /\ Cardinality(InHands(f)') \in Nat
        /\ Cardinality(InHands(f)') = Cardinality(InHands(f))
             + (IF chunk'[w] = f /\ pcFile'[w] \in Carrying THEN 1 ELSE 0)
             - (IF chunk[w] = f /\ pcFile[w] \in Carrying THEN 1 ELSE 0)
    BY <1>3, HandsChange
  <2>3. pcFile'[w] \in Carrying /\ pcFile[w] \notin Carrying
    BY <1>1, <1>3 DEF Carrying
  <2>4. Cardinality(InHands(f)')
          = Cardinality(InHands(f)) + (IF Head(chunks) = f THEN 1 ELSE 0)
    BY <1>3, <2>2, <2>3
  <2>5. Due(f)' = Due(f) /\ downloaded' = downloaded
    BY <1>1 DEF Due
  <2> QED BY <2>1, <2>2, <2>4, <2>5, ChunkNumbers
<1>6. HoldersHaveFiles' /\ CompleteBeforeEnd' /\ Files!DownloadsOnlyActive'
  <2>1. \A v \in Worker : pcFile'[v] \in Carrying \cup {"complete?", "deactivate"}
                            => chunk'[v] \in Files!File
    BY <1>2, <1>3 DEF FileInv, HoldersHaveFiles
  <2>2. \A v \in Worker : pcFile'[v] = "deactivate" => Files!IsComplete(chunk'[v])
    BY <1>3 DEF FileInv, CompleteBeforeEnd
  <2>3. \A v \in Worker : pcFile'[v] \in {"giveBack", "chunkPermit", "download", "mark"}
                            => active[chunk'[v]]
    BY <1>3 DEF FileInv, Files!DownloadsOnlyActive, Files!At
  <2> QED BY <1>1, <2>1, <2>2, <2>3
      DEF HoldersHaveFiles, CompleteBeforeEnd, Files!IsComplete, Files!DownloadsOnlyActive,
          Files!At
<1>7. ChunkPermitsCounted' /\ FilePermitsCounted' /\ EndingsCounted'
  <2>1. /\ Files!At({"download"})' = Files!At({"download"})
        /\ WithPermit' = WithPermit /\ Ending' = Ending
    BY <1>1, <1>3 DEF Files!At, WithPermit, Ending
  <2>2. Files!ActiveFiles' = Files!ActiveFiles /\ Ended' = Ended
    BY <1>1 DEF Files!ActiveFiles, Ended, Files!IsComplete
  <2> QED BY <1>1, <2>1, <2>2
      DEF FileInv, ChunkPermitsCounted, FilePermitsCounted, EndingsCounted
<1>8. downloaded' \in [Files!File -> Nat]
  BY <1>1, FileTyped
<1> QED BY <1>4, <1>5, <1>6, <1>7, <1>8 DEF FileInv
----------------------------------------------------------------------------
\* main's steps move only workers that sleep, and may add a file.
LEMMA WakesKept ==
  ASSUME FileInv,
         pcFile' = Files!WakeAll \/ UNCHANGED pcFile,
         UNCHANGED <<chunk, active, downloaded, active_downloads, chunk_downloads,
                     completedFiles>>,
         chunks' \in Seq(Files!File), added' \in 0..FileCount,
         mainFiles' \in {"add", "stopping", "done"}, stopFiles' \in BOOLEAN,
         \A f \in Files!File :
           Cardinality(Waiting(f)') + Cardinality(InHands(f)) + downloaded[f] = Due(f)'
  PROVE  FileInv'
<1>1. /\ pcFile' \in [Worker -> FileLabel]
      /\ \A v \in Worker : \/ pcFile'[v] = pcFile[v]
                           \/ pcFile[v] = "asleep" /\ pcFile'[v] = "wait"
  BY FileTyped DEF Files!WakeAll, FileLabel
<1>2. Files!TypeOK' /\ downloaded' \in [Files!File -> Nat]
  BY <1>1, FileTyped DEF Files!TypeOK, FileLabel
<1>3. ChunksCounted'
  <2>1. \A f \in Files!File : InHands(f)' = InHands(f)
    BY <1>1 DEF InHands, Carrying
  <2>2. downloaded' = downloaded
    OBVIOUS
  <2> QED BY <2>1, <2>2 DEF ChunksCounted
<1>4. HoldersHaveFiles' /\ CompleteBeforeEnd' /\ Files!DownloadsOnlyActive'
  <2>1. \A v \in Worker : pcFile'[v] \in Carrying \cup {"complete?", "deactivate"}
                            => chunk[v] \in Files!File
    BY <1>1 DEF FileInv, HoldersHaveFiles, Carrying
  <2>2. \A v \in Worker : pcFile'[v] = "deactivate" => Files!IsComplete(chunk[v])
    BY <1>1 DEF FileInv, CompleteBeforeEnd
  <2>3. \A v \in Worker : pcFile'[v] \in {"giveBack", "chunkPermit", "download", "mark"}
                            => active[chunk[v]]
    BY <1>1 DEF FileInv, Files!DownloadsOnlyActive, Files!At
  <2> QED BY <2>1, <2>2, <2>3
      DEF HoldersHaveFiles, CompleteBeforeEnd, Files!IsComplete, Files!DownloadsOnlyActive,
          Files!At
<1>5. ChunkPermitsCounted' /\ FilePermitsCounted' /\ EndingsCounted'
  <2>1. /\ Files!At({"download"})' = Files!At({"download"})
        /\ WithPermit' = WithPermit /\ Ending' = Ending
    BY <1>1 DEF Files!At, WithPermit, Ending
  <2>2. Files!ActiveFiles' = Files!ActiveFiles /\ Ended' = Ended
    BY DEF Files!ActiveFiles, Ended, Files!IsComplete
  <2> QED BY <2>1, <2>2
      DEF FileInv, ChunkPermitsCounted, FilePermitsCounted, EndingsCounted
<1> QED BY <1>2, <1>3, <1>4, <1>5 DEF FileInv

LEMMA FileStopsKeep ==
  ASSUME FileInv, Files!StoreStop \/ Files!StopNotify
  PROVE  FileInv'
<1>1. /\ pcFile' = Files!WakeAll \/ UNCHANGED pcFile
      /\ mainFiles' \in {"stopping", "done"} /\ stopFiles' \in BOOLEAN
      /\ UNCHANGED <<chunks, added, chunk, active, downloaded, active_downloads,
                     chunk_downloads, completedFiles>>
  BY FileTyped DEF Files!StoreStop, Files!StopNotify, Files!fileVars, Files!permits
<1>2. \A f \in Files!File :
        Cardinality(Waiting(f)') + Cardinality(InHands(f)) + downloaded[f] = Due(f)'
  <2>1. \A f \in Files!File : Waiting(f)' = Waiting(f) /\ Due(f)' = Due(f)
    BY <1>1 DEF Waiting, Due
  <2> QED BY <2>1, ChunkNumbers
<1> QED BY <1>1, <1>2, FileTyped, WakesKept

\* add_file: the chunks of the new file wait at the end of the queue, and no chunk of
\* it was anywhere.
LEMMA AddKeeps ==
  ASSUME FileInv, Files!AddFile
  PROVE  FileInv'
<1>0. added + 1 \in Files!File /\ added < FileCount
  BY FileTyped, FileConstants DEF Files!AddFile
<1>1. PICK new \in Files!File :
        /\ new = added + 1 /\ added' = new
        /\ chunks' = chunks \o [i \in 1..TotalChunks[new] |-> new]
        /\ pcFile' = Files!WakeAll
        /\ UNCHANGED <<mainFiles, stopFiles, chunk, active, downloaded, active_downloads,
                       chunk_downloads, completedFiles>>
  BY <1>0 DEF Files!AddFile, Files!fileVars, Files!permits
<1> DEFINE total == TotalChunks[new]
           more == [i \in 1..total |-> new]
<1>2. new \in Files!File /\ new \in 0..FileCount /\ new \in Nat
  BY <1>1, FileTyped, FileConstants
<1>3. total \in Nat /\ total # 0
  BY <1>2, FileConstants
<1>4. more \in Seq(Files!File) /\ Len(more) = total
  <2>1. more \in [1..total -> Files!File]
    BY <1>2
  <2> HIDE DEF more, total
  <2> QED BY <1>3, <2>1, IsASeq, LenProperties
<1>5. \A i \in 1..total : more[i] = new
  OBVIOUS
<1> HIDE DEF more, total
<1>6. /\ chunks \in Seq(Files!File) /\ Len(chunks) \in Nat
      /\ chunks' \in Seq(Files!File) /\ Len(chunks') = Len(chunks) + total
      /\ \A i \in 1..(Len(chunks) + total) :
           chunks'[i] = IF i <= Len(chunks) THEN chunks[i] ELSE more[i - Len(chunks)]
  <2>1. chunks \in Seq(Files!File)
    BY FileTyped
  <2>2. Len(chunks) \in Nat
    BY <2>1, LenProperties
  <2>3. chunks' = chunks \o more
    BY <1>1 DEF more, total
  <2> QED BY <1>4, <2>1, <2>2, <2>3, ConcatProperties
<1>7. \A i \in 1..(Len(chunks) + total) :
        chunks'[i] = IF i <= Len(chunks) THEN chunks[i] ELSE new
  <2> SUFFICES ASSUME NEW i \in 1..(Len(chunks) + total), ~(i <= Len(chunks))
               PROVE  more[i - Len(chunks)] = new
    BY <1>6
  <2>1. i - Len(chunks) \in 1..total
    BY <1>3, <1>6
  <2> QED BY <1>5, <2>1
<1>8. Due(new) = 0 /\ Due(new)' = total
  BY <1>1, <1>2, FileTyped DEF Due, total
<1>9. Waiting(new) = {} /\ Cardinality(InHands(new)) = 0 /\ downloaded[new] = 0
  <2>1. /\ Cardinality(Waiting(new)) = 0 /\ Cardinality(InHands(new)) = 0
        /\ downloaded[new] = 0
    BY <1>2, <1>8, ChunkNumbers
  <2> QED BY <1>2, <2>1, ChunkNumbers, FS_EmptySet
<1>10. ASSUME NEW f \in Files!File
       PROVE  Cardinality(Waiting(f)') + Cardinality(InHands(f)) + downloaded[f] = Due(f)'
  <2>1. CASE f = new
    <3>1. Waiting(new)' = (Len(chunks) + 1)..(Len(chunks) + total)
      <4>1. \A i \in 1..Len(chunks) : chunks[i] # new
        BY <1>9 DEF Waiting
      <4>2. \A i \in 1..(Len(chunks) + total) :
              chunks'[i] = new <=> i \in (Len(chunks) + 1)..(Len(chunks) + total)
        BY <1>3, <1>6, <1>7, <4>1
      <4>3. (Len(chunks) + 1)..(Len(chunks) + total) \subseteq 1..(Len(chunks) + total)
        BY <1>3, <1>6
      <4>4. Waiting(new)' = {i \in 1..Len(chunks') : chunks'[i] = new}
        BY DEF Waiting
      <4> QED BY <1>6, <4>2, <4>3, <4>4
    <3>2. Cardinality(Waiting(f)') = total
      BY <1>3, <1>6, <2>1, <3>1, FS_Interval
    <3> QED BY <1>3, <1>8, <1>9, <2>1, <3>2
  <2>2. CASE f # new
    <3>1. Waiting(f)' = {i \in 1..Len(chunks') : chunks'[i] = f}
      BY DEF Waiting
    <3>2. \A i \in 1..(Len(chunks) + total) :
            chunks'[i] = f <=> i \in 1..Len(chunks) /\ chunks[i] = f
      BY <1>3, <1>6, <1>7, <2>2
    <3>3. 1..Len(chunks) \subseteq 1..(Len(chunks) + total)
      BY <1>3, <1>6
    <3>4. Waiting(f)' = Waiting(f)
      BY <1>6, <3>1, <3>2, <3>3 DEF Waiting
    <3>5. Due(f)' = Due(f)
      <4>1. f \in Nat /\ (f <= added' <=> f <= added)
        BY <1>1, <2>2, FileTyped, FileConstants
      <4> QED BY <4>1 DEF Due
    <3> QED BY <3>4, <3>5, ChunkNumbers
  <2> QED BY <2>1, <2>2
<1> QED BY <1>1, <1>2, <1>6, <1>10, FileTyped, WakesKept
----------------------------------------------------------------------------
\* The steps of the other programs do not touch the downloads.
LEMMA FilesStand == FileInv /\ UNCHANGED fileVars => FileInv'
  BY DEF FileInv, fileVars, ChunksCounted, Waiting, InHands, Due, HoldersHaveFiles,
         CompleteBeforeEnd, ChunkPermitsCounted, FilePermitsCounted, EndingsCounted,
         WithPermit, Ending, Ended, Files!TypeOK, Files!At, Files!ActiveFiles,
         Files!IsComplete, Files!DownloadsOnlyActive

LEMMA FileNext == FileInv /\ Files!Next => FileInv'
<1> SUFFICES ASSUME FileInv, Files!Next PROVE FileInv'
  OBVIOUS
<1>1. CASE Files!AddFile \/ Files!StoreStop \/ Files!StopNotify
  BY <1>1, AddKeeps, FileStopsKeep
<1>2. CASE \E w \in Worker : Files!WorkerStep(w) \/ Files!SpuriousWake(w)
  BY <1>2, LooksKeep, TakeChunkKeeps, PermitStepsKeep, RecheckKeeps, MarkKeeps,
     DeactivateKeeps DEF Files!WorkerStep
<1> QED BY <1>1, <1>2 DEF Files!Next

LEMMA FileInvariant == Spec => [](program = "DownloadManager" => FileInv)
<1>1. Init => (program = "DownloadManager" => FileInv)
  BY FileInit DEF Init
<1>2. (program = "DownloadManager" => FileInv) /\ [Next]_vars
        => (program = "DownloadManager" => FileInv)'
  BY FileNext, FilesStand DEF Next, vars
<1> QED BY <1>1, <1>2, PTL DEF Spec

\* The double look neither leaks a permit nor returns one twice, a chunk is downloaded
\* only while its file is active, and every file is ended once.
THEOREM FilesAgree == Spec => []FilesConsistent
<1>1. (program = "DownloadManager" => FileInv) => FilesConsistent
  BY FileImplies DEF FilesConsistent
<1> QED BY <1>1, FileInvariant, PTL
=============================================================================
