------------------------------ MODULE Workshops ------------------------------
(***************************************************************************)
(* The laboratory programs, one of which Init chooses: processes at a barrier, *)
(* a pool of threads that reads files, workers who share machines or blanks,   *)
(* employees at turnstiles, machines that take orders, sums and primes of      *)
(* ranges, a picture of tiles.  The programs share nothing; they are put      *)
(* together to be checked and proved about at one place.                     *)
(***************************************************************************)
EXTENDS Integers, FiniteSets

CONSTANTS Children, MaxDeaths,
          Content, FileCount, Cores, BlockSize,
          Machines, Workers, Blanks, BlankMachines, BlankWorkers,
          Employees, HighEvery, Initial, MaxExtra, Crowd,
          Priority, Duration, LineMachines, Broken, BreaksAfter,
          Arrays, Ks, Half, Ns, PrimeKs, TS, HEIGHT, WIDTH

VARIABLES program,
          forked, parent, reaped, pc, cnt, posts, barrier_count, workResults,
          sem_barrier, total,
          content, cores, queue, all_pushed, place, file, results, processed, main,
          free_machines, shopPlace, joined,
          blank_sem, machine_sem, numbered, step, current, finished, allJoined,
          slots, extra, inLine, gate, breakdown, lost, everyone,
          orderQueue, machineDown, allOrdersAdded, doneOrders, at, order, second, added,
          manager, completed,
          variant, nums, K, spawned, currentStart, remainder, range, stage, index, seen,
          sum, summed,
          N, threads, created, start, spare, work, primes, counted,
          tile, localData, phase, accOut, verdict

Barrier == INSTANCE ProcessBarrier WITH results <- workResults
Archive == INSTANCE Archiver
Shop == INSTANCE MachineShop WITH place <- shopPlace
Store == INSTANCE BlankStore
Gate == INSTANCE Turnstiles
Line == INSTANCE ProductionLine
Sums == INSTANCE RangeSum WITH joined <- summed
Search == INSTANCE PrimeSearch
Filter == INSTANCE BlurFilter
ASSUME WorkshopsAssumption ==
  /\ Barrier!BarrierAssumption /\ Archive!ArchiverAssumption
  /\ Shop!ShopAssumption /\ Store!StoreAssumption
  /\ Gate!GateAssumption /\ Line!LineAssumption
  /\ Sums!RangeAssumption /\ Search!PrimeAssumption /\ Filter!BlurAssumption

barrierVars == <<forked, parent, reaped, pc, cnt, posts, barrier_count, workResults,
                 sem_barrier, total>>
archiverVars == <<content, cores, queue, all_pushed, place, file, results, processed, main>>
shopVars == <<free_machines, shopPlace, joined>>
storeVars == <<blank_sem, machine_sem, numbered, step, current, finished, allJoined>>
gateVars == <<slots, extra, inLine, gate, breakdown, lost, everyone>>
lineVars == <<orderQueue, machineDown, allOrdersAdded, doneOrders, at, order, second,
              added, manager, completed>>
sumVars == <<variant, nums, K, spawned, currentStart, remainder, range, stage, index, seen,
             sum, summed>>
primeVars == <<N, threads, created, start, spare, work, primes, counted>>
blurVars == <<tile, localData, phase, accOut, verdict>>
vars == <<program, barrierVars, archiverVars, shopVars, storeVars, gateVars, lineVars,
          sumVars, primeVars, blurVars>>

\* A program that is not chosen takes no step: it stays in a state of no action.
Off(P) == /\ P # "Barrier" =>
               /\ forked = 0 /\ parent = "off" /\ reaped = {} /\ barrier_count = 0
               /\ pc = [i \in Barrier!Child |-> "unborn"]
               /\ cnt = [i \in Barrier!Child |-> 0] /\ posts = cnt /\ workResults = cnt
               /\ sem_barrier = 0 /\ total = 0
          /\ P # "Archiver" =>
               /\ content = <<>> /\ cores = 0 /\ queue = <<>> /\ all_pushed = FALSE
               /\ place = [t \in Archive!Thread |-> "off"]
               /\ file = [t \in Archive!Thread |-> 0]
               /\ results = <<>> /\ processed = 0 /\ main = "off"
          /\ P # "Shop" =>
               /\ free_machines = 0 /\ joined = TRUE
               /\ shopPlace = [w \in Shop!ShopWorker |-> "off"]
          /\ P # "Store" =>
               /\ blank_sem = 0 /\ machine_sem = 0 /\ numbered = 0
               /\ step = [w \in Store!StoreWorker |-> "off"]
               /\ current = [w \in Store!StoreWorker |-> 0]
               /\ finished = {} /\ allJoined = TRUE
          /\ P # "Gate" =>
               /\ slots = 0 /\ extra = 0 /\ inLine = {} /\ breakdown = "off" /\ lost = 0
               /\ gate = [e \in Gate!Employee |-> "off"] /\ everyone = TRUE
          /\ P # "Line" =>
               /\ orderQueue = {} /\ machineDown = {} /\ allOrdersAdded = FALSE
               /\ doneOrders = 0 /\ added = 0 /\ manager = "off" /\ completed = {}
               /\ at = [m \in Line!LineMachine |-> "off"]
               /\ order = [m \in Line!LineMachine |-> 0] /\ second = order
          /\ P # "Sums" =>
               /\ variant = "off" /\ nums = <<>> /\ K = 0 /\ spawned = 0
               /\ currentStart = 0 /\ remainder = 0 /\ sum = 0 /\ summed = TRUE
               /\ range = [t \in Sums!SumThread |-> <<0, -1>>]
               /\ stage = [t \in Sums!SumThread |-> "off"]
               /\ index = [t \in Sums!SumThread |-> 0] /\ seen = index
          /\ P # "Search" =>
               /\ N = 0 /\ threads = 0 /\ created = 0 /\ start = 0 /\ spare = 0
               /\ work = [t \in Search!PrimeThread |-> <<>>]
               /\ primes = <<>> /\ counted = <<0>>
          /\ P # "Blur" =>
               /\ tile = <<>> /\ localData = <<>> /\ accOut = <<>> /\ verdict = "off"
               /\ phase = [i \in Filter!Item |-> "off"]

Init == /\ \/ program = "Barrier" /\ Barrier!Init
           \/ program = "Archiver" /\ Archive!Init
           \/ program = "Shop" /\ Shop!Init
           \/ program = "Store" /\ Store!Init
           \/ program = "Gate" /\ Gate!Init
           \/ program = "Line" /\ Line!Init
           \/ program = "Sums" /\ Sums!Init
           \/ program = "Search" /\ Search!Init
           \/ program = "Blur" /\ Filter!Init
        /\ Off(program)

Next ==
  \/ /\ program = "Barrier" /\ Barrier!Next
     /\ UNCHANGED <<program, archiverVars, shopVars, storeVars, gateVars, lineVars, sumVars,
                    primeVars, blurVars>>
  \/ /\ program = "Archiver" /\ Archive!Next
     /\ UNCHANGED <<program, barrierVars, shopVars, storeVars, gateVars, lineVars, sumVars,
                    primeVars, blurVars>>
  \/ /\ program = "Shop" /\ Shop!Next
     /\ UNCHANGED <<program, barrierVars, archiverVars, storeVars, gateVars, lineVars,
                    sumVars, primeVars, blurVars>>
  \/ /\ program = "Store" /\ Store!Next
     /\ UNCHANGED <<program, barrierVars, archiverVars, shopVars, gateVars, lineVars,
                    sumVars, primeVars, blurVars>>
  \/ /\ program = "Gate" /\ Gate!Next
     /\ UNCHANGED <<program, barrierVars, archiverVars, shopVars, storeVars, lineVars,
                    sumVars, primeVars, blurVars>>
  \/ /\ program = "Line" /\ Line!Next
     /\ UNCHANGED <<program, barrierVars, archiverVars, shopVars, storeVars, gateVars,
                    sumVars, primeVars, blurVars>>
  \/ /\ program = "Sums" /\ Sums!Next
     /\ UNCHANGED <<program, barrierVars, archiverVars, shopVars, storeVars, gateVars,
                    lineVars, primeVars, blurVars>>
  \/ /\ program = "Search" /\ Search!Next
     /\ UNCHANGED <<program, barrierVars, archiverVars, shopVars, storeVars, gateVars,
                    lineVars, sumVars, blurVars>>
  \/ /\ program = "Blur" /\ Filter!Next
     /\ UNCHANGED <<program, barrierVars, archiverVars, shopVars, storeVars, gateVars,
                    lineVars, sumVars, primeVars>>

Spec == /\ Init /\ [][Next]_vars
        /\ Barrier!Fairness /\ Archive!Fairness /\ Shop!Fairness /\ Store!Fairness
        /\ Gate!Fairness /\ Line!Fairness /\ Sums!Fairness /\ Search!Fairness
        /\ Filter!Fairness
----------------------------------------------------------------------------
\* TaskBarrier: the counter, the semaphore and the children agree, and no child passes
\* before every child has arrived.
BarrierConsistent == program = "Barrier" => Barrier!BarrierConsistent /\ Barrier!NobodyPassesEarly

\* The parent prints the total unless a fork fails or a child dies.
ParentPrintsTotal == program = "Barrier" => Barrier!ParentPrintsTotal

\* Homework1: files, results and counts agree.
ArchiverConsistent == program = "Archiver" => Archive!ArchiverConsistent

\* RK1 and Laba2: machines, permits and blanks agree and every blank is processed once;
\* slots and employees agree, extra turnstiles and breakdown included.
ResourcesConserved == /\ program = "Shop" => Shop!MachinesConserved
                      /\ program = "Store" => Store!StoreConsistent
                      /\ program = "Gate" => Gate!SlotsConserved

\* RK1 and Laba2: nobody sleeps beside a free machine or turnstile that is theirs,
\* unless somebody is about to notify.
NobodySleptOver == /\ program = "Shop" => Shop!NobodySleptOver
                   /\ program = "Gate" => Gate!NextNotSleptOver

\* Laba2: every order is in one place, and main reports all of them done.
OrdersAccountedFor == program = "Line" => Line!OrdersAccountedFor

\* Homework1: words and characters are counted right, however they are cut by the
\* ends of the blocks.  Laba1: ranges are partitions, sums as right as the
\* synchronisation makes them, and every prime is found once.  Laba4: every pixel is
\* the mean of its neighbours.
ResultsRight == /\ program = "Archiver" => Archive!CountsRight
                /\ program = "Sums" => Sums!SumsConsistent
                /\ program = "Search" => Search!PrimesFound
                /\ program = "Blur" => Filter!BlurRight

\* The main program of each laboratory work comes to its end.
EveryProgramEnds ==
  <>(\/ program = "Barrier"
     \/ program = "Archiver" /\ main = "reported"
     \/ program = "Shop" /\ joined
     \/ program = "Store" /\ allJoined
     \/ program = "Gate" /\ everyone
     \/ program = "Line" /\ manager = "reported"
     \/ program = "Sums" /\ summed
     \/ program = "Search" /\ counted # <<>>
     \/ program = "Blur" /\ verdict # "none")
=============================================================================
