# ParallelAndDistributedComputing: a verification project in TLA+

The repository is a collection of small concurrent programs (course work in C++:
threads, semaphores, processes, coroutines, sockets). Each program is a system of
its own: it has no code in common with the others, except that the six programs
of Seminar5 each repeat the class `CountingSemaphore`. This directory holds TLA+
modules that model the programs, TLC configurations that check the models on
small instances, and proofs, checked by TLAPS, of theorems that hold for every
value of the constants.

## 1. Inventory of the system

### The semaphore and the six programs of Seminar5

| program | state it keeps | operations | what is hard |
|---|---|---|---|
| `CountingSemaphore` (task1 to task6) | `count_`, `mtx_`, `cv_` | `acquire`, `try_acquire_for`, `release(n)` | `notify_all` after the unlock; deadline against release; spurious wake-ups |
| `ResourcePool` (task1) | `resources_`, `waiters_`, a semaphore, `cv_` | `acquire` with priority and time-out, `release`, `add_resource`, `remove_resource_for` | the turn is tested before the permit is waited for and the resource taken after it, in three critical sections |
| `ParkingLot` (task2) | `capacity_`, `occupied_`, `vip_waiting_`, a semaphore, `cv_` | `park` (VIP or normal), `leave`, `set_capacity` | the gate is stale when the place is taken; the capacity is published before its permits change |
| `SemaphoreBuffer` (task3) | `k` deques, each with a mutex, a semaphore of places and one of items | `produce`, `consume`, both timed | reserve, push and announce are three steps; producers and consumers meet in any order |
| `PrinterQueue` (task4) | a priority queue, `cv_`, `stop_`, a semaphore of printers | `submit`, `stop`, the dispatcher loop, detached printing threads | a job goes back after a time-out or an interruption, while its printer and the notification follow later |
| `TaskScheduler` (task5) | a priority queue, `cv_`, `stop_`, a semaphore of slots | `submit`, `stop`, worker threads | slots are taken one by one by workers that keep what they have |
| `DownloadManager` (task6) | a queue of chunks, the state of each file, two semaphores | `add_file`, `stop`, worker threads | test, unlock, wait, test again; two workers end the same file |

The programs use their semaphore through three calls and nothing else. The other
interactions are a mutex with its condition variable, atomics, and `main`, which
starts threads, pauses, sets a flag, and prints counters.

What makes them correct: a permit is never granted twice nor lost; every place,
printer, slot and file permit is at every moment in one place; nobody sleeps
beside what it waits for unless a notification is on its way; and what is
submitted is done in the end, as far as the scheduling allows.

### TaskBarrier

A parent forks children that compute, meet at a barrier (a counter in shared
memory under a named semaphore, and a second semaphore on which the last one
posts for all the others), store a result and exit. Hard: the order of arrivals,
posts and waits of processes; a `fork` that fails half way; a child that dies.
Correct: nobody passes early, posts match waits, the total is complete.

### ParallelSum, MatrixProcessor, Buffer (Seminar4 task1, task6, task3)

`ParallelSum` and `MatrixProcessor` split an index range among detached threads and wait
on a condition variable for an atomic count of those that have ended. Hard: sums and
count are under different protection, and the count changes without the mutex of the
one who waits. Correct: every element is handled once, the sum is complete when it is
returned, the call returns.

`Buffer` is a ring with one condition variable per side; each call wakes one thread of
the other side; `set_done` stores a flag without the mutex. Hard: who is woken for what,
and who takes it. Correct: FIFO, no item is missed, nobody sleeps beside an item or a
free place, all threads of `main` end.

### The workshops (Homework1, RK1, Laba1, Laba2, Laba4)

| program | state it keeps | operations | what is hard |
|---|---|---|---|
| `Homework1` | a queue of files and `g_all_pushed`, a result vector and its count | `main` fills the queue, the pool's threads take a file each, count its words block by block and list the result | the end of the queue; a word cut by a block; a pool of size 0 |
| `RK1` task1 | `free_machines`, `cv` | workers take a machine, work, give it back and wake all | the notification follows the unlock |
| `RK1` task2 | two semaphores and an atomic number | workers take a permit for a blank, draw its number, take a machine | the permit comes before the number: who draws one too many gives its permit back |
| `Laba1` | an index range cut in K parts; a sum or a vector of primes | threads that search or add under a mutex, atomically, or (on purpose) with a data race | remainders of the division, lost additions, the width of `int` |
| `Laba2` task1 | a queue by priority, slots, extra slots | employees pass turnstiles; a crowd opens extra ones; a breakdown | each change wakes all after the unlock, and a free slot is meant for one of them |
| `Laba2` task2 | a priority queue of orders | machines that give an order back for an urgent one, fail and are left | the top changes between two looks; the order given back must not be lost |
| `Laba4` blur | local memory of one tile with its halo | each item loads its cells, meets a barrier, blurs | which item loads the corners; who reads what before the barrier |

### The exercises on bare condition variables (Seminar4)

`Bank` locks two accounts in order, waits on one of them and calls `deposit`, which locks
again. `PriorityQueue` has the consumers of `Buffer` and a heap. In `Cache` a `get`
sleeps until its key is set. `Logger` writes a line in pieces to one console and a file of
its own. Correct: no circle of waits, no money lost, values leave by priority and once,
lines are whole.

### The network and the coroutines (Laba3, Task1404, CoroutinesTasks)

One thread or four run handlers: reads that end anywhere in a line, writes that overlap, a
timer that is moved, strands. `Laba3` answers lines at once, through a strand, or by a
timer; `Task1404/Server` counts the messages of all sessions in one plain global;
`Task1404/Client` runs its `io_context` in a thread that ends when there is nothing to do;
`CoroutinesTasks` has a listener, two reads raced with `||`, and an account behind a strand
that a pool of threads runs. Correct: each line is answered once, nothing is counted
twice or missed, the balance is what the operations make it.

### Files and containers (Seminar2, Seminar3)

`Seminar2/task5` writes, checks and loads a table of grades; `task10-task11` is a menu over
students that `main` owns and a group points to. The rest of Seminar2 and all of Seminar3
print the results of containers and algorithms on fixed data.

The IDE and build files hold no behaviour.

## 2. Plan

Order: the semaphore first, because six programs stand on it; then the programs
that use it, by the number of hazards; then the barrier, which is built of other
semaphores; then the programs that wait on bare condition variables; then the
asynchronous ones; last the sequential ones.

1. `Semaphore` (abstract), `CountingSemaphore` (detailed, refines it). *Done.*
2. `ResourcePool`, `ParkingLot`, `SemaphoreBuffer` (refines `Channel`),
   `PrinterQueue`, `TaskScheduler`, `DownloadManager`: each uses the semaphore as
   `Semaphore` promises it, which step 1 justifies. *Done.*
3. `ProcessBarrier`. *Done.*
4. `Seminar4`, `RK1`, `Homework1`, `Laba2`: one module per program. *Done.*
5. `Laba3`, `Task1404`, `CoroutinesTasks`: sessions, timers, strands. *Done.*
6. `Laba1`, `Laba4`, `Seminar2`: partitions of an index range, halos, the record
   files. *Done*, but for what section 6 names.
7. Small programs share a run: a module instantiates several and lets `Init`
   choose one, so that each still has its own module and properties. *Done:* `Seminar5`,
   `Workshops` and `Exercises`, with an instance for TLC each.

Theorems, in the order of their weight: `NoLostWakeup` and the refinement of
`Semaphore`; the conservation invariants of the six programs of Seminar5 and their "nobody
sleeps beside work"; the refinements of `Channel`; the barrier, the shared resources and
the orders of the laboratory programs; the rings, queues, accounts and sums of Seminar4;
the network and the coroutines; the results of `Laba1`, `Laba4` and `Homework1`
(`ResultsRight`); the lines and records of `FilesConsistent` (*all done*).

## 3. Modules

| module | what it models |
|---|---|
| `Semaphore` | what the class promises: requests, grants, refusals, posts |
| `CountingSemaphore` | the class, with mutex, sleepers, deadlines and late notification |
| `CountingSemaphoreProofs` | theorems about it |
| `ResourcePool`, `ParkingLot`, `PrinterQueue`, `TaskScheduler`, `DownloadManager` | the program of that name |
| `Channel`, `SemaphoreBuffer` | a bounded FIFO per buffer; task3 |
| `Seminar5`, `Workshops`, `Exercises` | several programs side by side, with constants for all of them: `Init` chooses one, and the others stay in a state without actions (`Off`). `Seminar5` has `PrinterQueue`, `TaskScheduler` and `DownloadManager`; `Workshops` the barrier and the programs of `Homework1`, `RK1`, `Laba1`, `Laba2` and `Laba4`; `Exercises` those of `Seminar4`, of the network, of the coroutines and of `Seminar2` |
| `ResourcePoolProofs`, `ParkingLotProofs`, `SemaphoreBufferProofs`, `Seminar5Proofs`, `WorkshopsProofs`, `ExercisesProofs` | theorems about the pool, the lot, the buffers, and the programs of the three modules above |
| `Counting` | the lemmas these proofs share: on sizes of sets, on the first element of a finite set in an order, on sums over finite sets, on folds over sequences, and on sequences of distinct members or of rows |
| `ProcessBarrier` | TaskBarrier |
| `Archiver` | Homework1 |
| `MachineShop`, `BlankStore` | RK1 task1, task2 |
| `PrimeSearch`, `RangeSum` | Laba1: the search for primes; the three ways to add |
| `Turnstiles`, `ProductionLine` | Laba2 task1, task2 |
| `BlurFilter` | Laba4, one tile of the blur |
| `ParallelSum` | Seminar4 task1, and task6, which has the same structure |
| `Bank`, `RingBuffer`, `Logger`, `Cache`, `PriorityQueue` | Seminar4 task2, task3, task4, task5, task7 |
| `LineSession` | Laba3, one session |
| `EchoServer` | Task1404's server and the listener of CoroutinesTasks task1: `server` says which |
| `ChatClient` | Task1404's client |
| `Multiplexer`, `CoroutineBank` | CoroutinesTasks task2, task3 |
| `GradeFile`, `GroupMenu` | Seminar2 task5, task10-task11 |
| `MC...` | instances for TLC; where a `.cfg` alone can give the constants their values there is none |

### How state and steps correspond to the code

* A variable has the name of the field it stands for (`count` is `count_`,
  `vip_waiting` is `vip_waiting_`). `pc[t]` says where thread `t` stands between
  two steps; its values are named after what comes next.
* What a mutex protects from the lock to the unlock is one step, because every
  other access is under the same mutex. What happens outside is a step of its own:
  a notification after the unlock, a call of a semaphore, a store to an atomic.
* `cv.wait(lock, predicate)` is a test, a sleep and a wake-up. Where everything that
  changes the predicate holds the mutex, test and sleep are one step. Where
  something does not (`stop()` of task4, task5 and task6 and `set_done` of Seminar4 store
  a flag, and the threads of `ParallelSum` a count, without the mutex), the worker that has seen its predicate fail and has not begun to sleep is in
  a state of its own, `"doze"`, during which it holds the mutex (`MutexFree`).
* A sleeper may wake at any time (`SpuriousWake`); it tests again. No fairness is
  assumed of that step, so nothing that is shown to happen depends on it.
* A timed call times out when it finds nothing at its last test; whether the deadline
  has passed is otherwise free (time is not counted).
* The semaphore of the programs is one counter, an `acquire` one step that needs a
  permit: `CountingSemaphore` is shown to implement exactly this.
* Printing, pauses and random draws are left out or are a free choice. Statistics that
  no decision reads are left out; the modules name them.
* A handler of an `io_context` is one step: in one thread nothing comes between, and on a
  strand nothing that touches the same data. The count of `EchoServer` is read and written
  in two steps, so that the strand has something to guard.
* The data races that the programs have are steps between a read and a write
  (`RangeSum` with its shared `int`). `int` has `2 * Half` values there and wraps around, and the product in
  `GradeFile` at `Modulus`.
* A file is what is in it, cut after any cell: `Damage` may shorten it, or change its signature
  or version, between saving and loading. A header cut short is refused as a wrong signature is. A text is a sequence of letters and spaces, a
  line of a conversation two symbols, a pixel its place.
* A student of `GroupMenu` is an address that is never used twice, so that a pointer to
  a freed one is seen as such.
* The operators `Mut...` stand next to the definitions they vary. They are not part
  of any specification: each is the definition with a plausible mistake, and putting
  it in the place of the definition must break the property it is listed with.

## 4. What the runs check

| run | instance | what it shows |
|---|---|---|
| `semaphore` | 3 threads, 1 permit at first, at most 2, `release` of 1 or 2 | types; no lost wake-up; the class implements `Semaphore`, fairness included |
| `resource_pool` | one user of high and two of low priority, 1 resource, an owner that adds and removes another | permits agree with the vector in every state, a resource has one holder; nobody sleeps through its turn; the top priority is served |
| `parking_lot` | a VIP and two normal cars, capacities from -1 to 3 asked for at any time | places, permits and counters agree; nobody sleeps at an open gate; a lone VIP is served |
| `semaphore_buffer` | 1 producer, 2 consumers, 2 buffers of 2 places, 2 values | places and items agree with both semaphores; each buffer implements a bounded FIFO `Channel`; items keep flowing |
| `seminar5` | `PrinterQueue`: 3 jobs of 2 priorities, 2 printers. `TaskScheduler`: 2 workers, 3 slots, 3 tasks of 1 or 2 slots. `DownloadManager`: 2 workers, 3 files of 2, 1 and 2 chunks, 2 active | a job is in one place, and the dispatcher does not sleep beside one; slots and tasks are conserved, and no worker sleeps beside work; file permits are conserved and a file is ended once. What is submitted completes, when slots and workers suffice |
| `task_scheduler_main` | 3 workers, 6 slots, tasks of up to 3 slots (the values of `main`) | **violated**: the workers deadlock, holding 2 slots each |
| `download_manager_main` | 3 workers, 2 files of 2 chunks, 2 active | **violated**: workers wait for a permit with the last chunks of the active files in their hands |
| `workshops` | barrier of 3 children, one may die; 2 files of up to 4 letters in blocks of 2, pools of 0, 1 and 3; 5 workers and 3 machines; 4 workers and 3 blanks on 2 machines; 4 employees, 2 slots and one extra; 3 orders on 2 machines, one of which fails; sums of 4 and 5 numbers, 1 to 3 threads, 4 bits; primes up to 25; 3 x 3 tiles of 2 x 2 pixels | each program's resources agree with its actors in every state, nobody passes the barrier early or sleeps beside what is theirs; words, sums, primes and means are right; each `main` comes to its end |
| `exercises` | sum of 5 elements, 3 threads; ring and priority queue with 2 producers of 2 items and 2 consumers that ask for 2 or 3 each; 4 plans of up to 4 transfers between 3 accounts; 2 setters and 3 getters; conversations of up to 4 lines; 2 sessions of 2 messages; a client of 3 lines; sources of 3 and 2 messages; 2 coroutines of 2 operations; a menu over at most 5 students; 6 tables of grades; 3 writers | the programs of Seminar4, of the network, of the coroutines and of the files of Seminar2 keep their state consistent; what returns and what ends does so, but for the races that are named |
| `parallel_sum_main` | 4 threads, as in `main` | **violated**: the last thread notifies between the test and the sleep of the caller |
| `bank_main` | the transfers of `main` | **violated**: no transfer ends, since `deposit` locks a mutex that its thread holds |
| `account_main` | the two coroutines and the final question | **violated**: `main` asks the account when nobody runs its strand any more |

Why the bounds are enough. Every hazard above is a race between two threads, or
between two threads and a third that makes room or takes it: three actors, with one
permit fewer than there are contenders, reach each of them. The capacities are small
so that empty, full and exhausted are frequent; two priorities, two values and two
buffers tell apart what has to be told apart. The bounds of the models only, each a guard
of one action: `MaxCount` (releases outstanding), `MaxReturning` (printing threads at their
end), `MaxDeaths` (children that die), `MaxLines` and `MainLines` (lines that are typed, and
logged by `main`),
`MaxStudents` (students ever made), `ToSend` (messages of a client). `JobCount`, `TaskCount`,
`FileCount`, `Plans`, `Sets`, `Gets` and `Pushes` are what the `main` functions submit, or
are of that kind; a plan that `main` does not have is there where `main`'s alone would
never meet a case (a transfer to the same account, a transfer of a negative sum, an
account that must be waited for).

The five violated runs are findings. `ParallelSum` (task1.cpp:54-58) counts and notifies
without the mutex of `compute_sum`, and so does task6; `ReturnsWithoutRace` shows that this
is the only way to hang. `TaskScheduler` (task5.cpp:96-98) acquires
slots one at a time; the model deadlocks with the numbers of `main` exactly when each
worker has two of three. `TasksCompleteIfEnoughSlots` states the condition under
which this can not happen, `TotalSlots > workers * (MaxRequired - 1)`, and is checked
with an instance that satisfies it. `DownloadManager` (task6.cpp:112-117) lets a
worker wait for a file permit with a chunk of that file in its hands after another
worker has activated the file; when this keeps back the last chunk of every active
file, no permit comes back. With no more workers than active files it can not happen.
`Bank` (task2.cpp:116) calls `deposit` under the mutex that `deposit` locks: undefined, and a
build hangs or throws; `BankConsistent` shows what holds nevertheless. `CoroutineBank`
(task3.cpp:157) spawns its last question on a second `io_context`, but the answer has to pass
the strand of the first one, whose threads have ended.

What the models show besides, without a run of its own:

* `Laba2/task2/main.cpp:103` counts on the machine that gave its order back to take the
  urgent one next; another machine may be faster (`OrdersAccountedFor` holds in either case).
* `Laba2/task1`: `simulate_breakdown` takes nothing away when all slots are in use.
* `Seminar2/task10-task11/main.cpp:74` promises another try after a choice that is not a
  number; the failed extraction stores 0, which is the choice that ends the loop. Line 174
  says that the old group is left unchanged by a load, but it is replaced.
* `verifyFile` of `Seminar2/task5` does not look at the version, and the product of its two
  counts may overflow; a file with rows of different lengths passes or fails by accident.
* The `io` thread of `Task1404/Client` ends when nothing is outstanding: right after the connection
  has been made if nothing has been typed yet, when it has failed, or when the server has closed
  it. What is sent later is never confirmed and its echo is never printed.
* A client of the Task1404 server that is gone before `Session::start` asks for its address ends the
  whole process by an exception (`StartThrows`), one of the coroutine server only its session.
* The multiplexer loses what the loser of a race of two reads has already read (`Lost`).
* `Homework1` with `hardware_concurrency() = 0` reports an empty result.
* `stop()` of task4, task5 and task6 and `set_done` of Seminar4 may notify nobody; the threads
  of Seminar5 are detached, and those of Seminar4 end all the same when the consumers ask
  for what there is (`AllJoined`).

### Fairness

`WF` of the steps of a thread inside a call: threads are scheduled, and whoever wants a
mutex gets it. A call of the abstract semaphore is weakly fair as well; where several
threads want the same permit, the detailed semaphore does not promise more, and the
programs are not assumed to get more. The threads of `ParallelSum`, `RingBuffer` and
`PriorityQueue` have `SF`: there a sleeper that wakes without cause again and again would
otherwise keep the mutex from the others, and a mutex that is free again and again is
granted. `EchoServer`, `ChatClient`, `GroupMenu`, `GradeFile` and `Logger` are only checked for
safety and assume no fairness. No fairness is assumed of calls (`Call`, `Register`, `Arrive`), of
`stop()`, of spurious wake-ups, of failures: forks, deaths, broken connections, damaged files and
the choices of a user. The network delivers what has been sent, timers expire (`Deliver`,
`Expire`), mock servers send. Two exceptions, where the code gives
more: in `SemaphoreBuffer` the loops of `main` begin another round as long as it has not
stopped, and in `PrinterQueue` a job started again and again is finished in the end
(`SF` of `Finish`), since a printing is interrupted with a probability below one.

`BankSpec` and `AccountSpec` are the specification with one program alone and its own fairness,
for the two violated runs.

Runs whose `CHECK_DEADLOCK` is off stop in states where the program itself has ended.
Only `semaphore` never does.

### Mutants

Each property is broken by at least one `Mut...` operator. Where a property joins the
invariants of several programs, the mutants of the others break it as well: in `ResultsRight`
those of `RangeSum`, `PrimeSearch` (`MutIsPrime`), `BlurFilter` (`MutLoads`) and `Archiver`
(`MutScanBlock`); in
`NetworkConsistent` and `CoroutinesConsistent` those of `ChatClient` (`MutOutstanding`) and
`CoroutineBank` (`MutWithdraw`); in `FilesConsistent` those of `LineSession` (`MutRest`),
`GradeFile` (`MutWholeRows`) and `Logger` (`MutLock`); in `BankConsistent` `MutWithdraw`; in `RingConsistent` `MutConsume`; in
`BarrierConsistent` `MutPass`.

## 5. What is proved

All theorems hold for every value of the constants that satisfies the module's `ASSUME`.

`CountingSemaphoreProofs`:

* `TypeCorrect`: `Spec => []TypeOK`. `TypeOK` is inductive as it stands.
* `NoWakeupIsLost`: `Spec => []NoLostWakeup`. Given `TypeOK` it is inductive: a
  release that makes a permit available puts its own thread at `notify`; a thread goes
  to sleep only when the count is 0; `NotifyAll` leaves no sleeper behind; and a `Take`
  can only lower the count.
* `ImplementsSafety`: `Safety => Abstract!Init /\ [][Abstract!Next]_(...)`. `Call`,
  `Take`, `GiveUp` and `Release` map to `Request`, `Grant`, `Refuse` and `Post`; every other
  step leaves `count`, `got` and the public call unchanged.

`ParkingLotProofs`, for any finite set of cars, any capacity and any requests:

* `LotIsConsistent`: `Spec => []LotConsistent`. `LotConsistent` alone is not inductive: from
  a VIP car asleep at the gate the next steps would count it twice, and a second
  `set_capacity` during the first would forget the permits still owed. `IInv` adds
  `WaysOfWaiting` (VIP cars never sleep at the gate nor try for a limited time) and
  `OwesOnlyInAdjust` (permits are owed only while `set_capacity` adjusts them). `CarKeeps`
  reduces a step of one car to arithmetic: each of the three sets of cars that
  `LotConsistent` counts changes by that car at most (`OneElementChanges` of `Counting`),
  and the step changes permits and counters by the same amounts. `ParkedAreCounted`
  shows that the test `occupied_ > 0` of `leave` never fails.
* `NobodySleepsAtOpenGate`: `Spec => []GateNotSleptAt`. Given `TypeOK`, it is inductive: a
  car goes to sleep only at a closed gate; only `Enter` opens the gate, and it leaves its
  car at `notify`; `Notify` and `GrowNotify` leave nobody asleep.

`SemaphoreBufferProofs`, for any finite set of producers and consumers, any number of buffers
and any capacity:

* `BuffersAgree`: `Spec => []BuffersConsistent`. `BuffersConsistent` alone is not inductive: a
  consumer that stood at `push` would put a 0 into a deque. `IInv` adds `Rounds`: only
  producers push and announce items, and what they carry is a value. `StepKept` is the
  argument all seven steps of a call share: a step moves one thread from one label to another, so each
  of the four counts changes by that thread at most (`Counts`, from `OneElementChanges`), and
  `Balance` says that permits and deque change by the opposite amount. `Room` turns the two
  sums round: who is about to announce finds a permit below the capacity, and who has
  claimed an item finds the deque not empty, although the claim and the pop are steps apart.

`ResourcePoolProofs`, for any finite sets of users and owners, any priorities and resources:

* `PoolAgrees`: `Spec => []PoolConsistent`. `PoolConsistent` alone is not inductive: a user that
  had a resource in its hands at `take` would forget it. `IInv` adds `Placed`: where users and
  owners can be, and who holds a resource there. `StepKept` reduces a step to the change of
  three numbers (permits, resources in the vector, threads between a permit and its resource)
  by `Counts`; `AppendNew` and `RemoveBack` say what `push_back` and `pop_back` do to a vector
  without repetitions, `PoolBounded` that the vector is never longer than there are resources. The attempt
  at this proof found a slip in the model: in `RemoveLast` the last conjunct was indented into
  the `ELSE` branch, so that a successful removal left three variables undefined.
* `NoTurnIsSleptThrough`: `Spec => []NoTurnSleptThrough`. Given `IInv` it is inductive
  (`TurnKept`): whoever makes it another user's turn is about to call `notify_all`.

`Seminar5Proofs`, for any numbers of jobs, printers, workers, slots, tasks, files, chunks and
permits. An invariant of one program is proved as `Spec => [](program = "..." => Inv)`, since
the steps of the others leave its variables alone (`PrinterStands`, `SchedulerStands`,
`FilesStand`). `INSTANCE` makes the operators of `FiniteSets` symbols of each instance;
`SameSizes` identifies them.

* `QueueAgrees` and `NoJobIsSleptOver`: `QueueConsistent` and `NoJobSleptOver` of the printers.
  `PrinterInv` adds `JobsApart` (every submitted job is in one place, said job by job: from
  this the sizes add up, `FourPlaces`), `DozesAtEmptyQueue` (the dispatcher that is about to
  sleep holds the mutex, so the queue it saw empty still is) and `ReturningBounded`. `TopJob`
  shows that the top of a queue exists: the comparison orders the jobs strictly, and a finite
  set has a first element (`FirstOfFinite`, by well-foundedness).
* `SchedulerAgrees` and `NoWorkIsSleptOver`: `SchedulerConsistent` and `NoWorkSleptOver` of the
  scheduler. `SchedulerInv` adds `WorkersPlaced` (where a worker is says whether it has a task
  and how many slots it may hold, so that a release gives back exactly what was acquired),
  `IdsDiffer` (no two tasks have the same id, and those to come have larger ones, so that the
  queue has a top) and `DozersSawNoTask`. A release of `n` slots takes a product of size `n`
  out of the set of held slots (`ReleaseSlotsKeeps`).
* `FilesAgree`: `FilesConsistent` of the downloads. Here the strengthening is a count: every
  chunk of an added file is in the queue, carried by one worker or downloaded
  (`ChunksCounted`), so that a file with a chunk on its way is not complete
  (`CarriedNotComplete`). From this follows that nobody deactivates a file another worker is
  downloading, and that a file that has ended is not activated again. With it go
  `CompleteBeforeEnd` (who is to deactivate a file has seen it complete), and the sums of the permits
  of both semaphores. `TakenWaits` and `AddKeeps` count positions in the queue.

`SemaphoreBufferProofs` also proves `BuffersImplementChannels`: each buffer implements the
safety part of `Channel`. A place is reserved before the push and an item claimed before the
pop, so `Room` is what the two steps need: a push finds fewer items than the capacity, a pop
finds an item, whoever came between.

`WorkshopsProofs`, for any numbers of children, threads, machines, workers, employees and
orders. Each program has its inductive invariant:

* `BarrierHolds`: `BarrierConsistent`. `BarrierInv` counts the arrivals
  (`ArrivalsCounted`: `barrier_count` is the number of children past the increment), says who
  opens (`OpenedByTheLast`: when there is a post or somebody has passed, a child has seen the full count), and sums the posts
  (`PostsCounted`); while nobody has died, the posts still to come and those on the semaphore
  match the children that wait.
* `FilesAreAccountedFor`: `ArchiverConsistent`. `ArchiveInv` adds that nothing is taken before the
  queue is filled (`BeforeTheFill`), that a file is in one place, and `EndsAtTheEnd`: a thread
  of the pool ends only with the queue empty and filled. With an empty pool nothing follows, and
  that is the case `hardware_concurrency() = 0`.
* `ResourcesAreConserved` and `NobodyIsSleptOver`: the machines of both workshops, the blanks and
  the turnstiles. In the workshop with blanks (`StoreInv`, `AllDrawn`) the proof needs at least one
  worker: without one, "all blanks are done at the end" is false, and `main` of task2 has five.
  A place or machine that becomes free is followed by a notification that is still to come.
* `OrdersAreAccountedFor`: `OrdersAccountedFor`. `LineInv` says order by order where it is
  (`OrdersApart`) and machine by machine what it may hold (`MachinesPlaced`); a machine that
  gives its order back has it in its hands until it is in the queue again.
* `ResultsAreRight`: `ResultsRight`, what the four programs compute, joined from four parts.
  The blur of `Laba4`, for any size of picture and tiles: `BlurInv` adds that past its load an item's cells hold what it fetched
  (`CellsLoaded`); no cell has two items that load it (`OneLoader`), so nobody writes over it, and
  every cell around a pixel has one (`SomeLoader`), so that behind the barrier all nine are loaded
  (`NeighboursLoaded`). The attempt at this proof found that `BlurRight` was stated by a `CASE`
  whose arms overlapped, which left it open which of them TLC checked.
  The sums of `Laba1`, for any array, number of threads and width of `int`: `SumsInv` lays the ranges end to end (`RangesAbut`; with it the rest of
  the array is what the remaining threads are owed, so that the last range ends where the array
  does, `RangesReach`) and says what the result holds: the wrapped sum of the ranges that
  have ended (mutex), a number congruent to it (atomic), or the sum of some elements that no thread has still
  to come to (race, `Passed`, which holds of the registers too: a store adds elements of one range behind
  its `index`, so that nothing is counted twice). `IntSumIs` shows that a loop that wraps
  around after each addition yields the wrapped sum.
  The primes of `Laba1`, for any bound and number of threads: `SearchInv` lays the ranges end to
  end like the sums', and says that what is listed, together with the primes that a thread has still to
  come to, is every prime once. `TestIsRight` shows the test of a number up to its square root, in
  steps of six: the smallest divisor of a composite is prime (`TestFinds`), is at most the root
  (`OtherFactorDivides`) and is 2, 3 or next to a multiple of six (`NextToSix`).
  The counts of `Homework1`, for any files and size of block: between two characters the scan knows the
  words that have begun and whether it is in one (`Known`, `KnownSteps`), whatever
  block they are in (`BlockMoves`); so the blocks of a file laid end to end (`BlockEnds`) yield
  its words and its length (`FileCounted`), and `ResultsRead` says that every result is that of
  the file it names.

`ExercisesProofs`, for any numbers of threads, accounts, sessions, messages, coroutines, lines
and records:

* `SumIsReturnedWhole`: `SumConsistent`. `Segments` shows by arithmetic that a segment ends where the
  next begins and that the last one ends at the size; hence segments are disjoint
  (`SegmentsApart`) and leave nothing out (`SegmentsCover`: of the threads that start at or
  before an element, the last one has it). `SumInv` says that the sum is that of the segments added
  (`SumFollows`) and the count that of the threads which have counted themselves
  (`TallyFollows`): who has counted itself has added before, so a full count means a full sum.
* `RingAgrees`, `RingImplementsChannel`, `OldestIsReturned`: the ring follows its positions without
  the remainder (`PositionsAgree`); write and read positions differ by the count, which is what a
  bounded FIFO needs; a consumer between its test and its sleep has the ring to itself, so it
  stays empty. `QueuesAgree`: the priority queue (`PQInv`) and the cache (`CacheInv`).
* `MoneyIsConserved`: `BankConsistent`. `BankInv` derives who owns which mutex from where the threads
  stand (`OwnersStand`). A thread that waits for its second lock wants one above what it holds
  (`LowAndHigh`), and a circle would have to go down somewhere; what is withdrawn is in hand
  until it is deposited (`MoneyKept`).
* `NetworkAgrees`: `NetworkConsistent`. `EchoInv`: one session at most is between load and store,
  and what it loaded is still the count. `ClientInv`: what is early and not handled keeps the
  `io` thread from going idle.
* `CoroutinesAgree`: `CoroutinesConsistent`. `MuxInv`: only a socket not known to be closed is
  read, so a read that is given up with what it holds has lost a race (`Lost` lies below `raced`,
  a history variable), and the winner was printed or found closed (`WonByOther`). `AccountInv`: a coroutine with an operation on the strand is suspended
  (`PostedAreSuspended`), so that its sums do not change when it adds them to the totals.
* `RecordsAgree`: `FilesConsistent`, joined from four parts.
  The session of `Laba3`, for any conversation and wherever the network cuts it: `SessionInv` places
  every complete line that is not empty exactly once (`Placement`: answered, posted, due, armed or
  cancelled), says which kind it may be there and that a later `wait` follows each cancelled one
  (`Kinds`), and that answers of a kind come in the order of their lines (`Ordered`). The accumulator
  is determined by how many symbols are read, one text that awaits its end of line or nothing. One
  `Read` may bring many lines: `AnswerLinesGood` goes from symbol to symbol
  (`AnsweredSteps`), each line put where its kind belongs (`NextLine`).
  The menu of task10-task11, for any group and newcomers: `MenuInv` says that `allStudents` names
  every student on the heap once and the group some of them once, before and after a selection
  (`OwnsKept`), a removal (`OwnsRest`), a sort and a load; addresses are not used again.
  The grade file of task5, for any table: `GradesInv` keeps what `verifyFile` has said and what
  `loadFromFile` has read a function of the header and the cells that damage has left. Rows of one width
  lie in the file end to end (`RectangularFlat`), so what is read back are the first rows
  (`FirstRows`), and all of them when none is missing.
  The Logger of task4, for any number of threads and of lines `main` prints: `LogInv` says where the
  two pieces of a line stand on the console while a thread is between them (`PrefixIsLast`), and that the file lacks
  the line of the thread in the critical section and no other (`FileFollows`).

Assumptions that these proofs need and that the code gives: an entry of the cache is a string with
an integer, the balances of `main` are not negative, numbers of sessions, messages and lines are
natural; what a file holds is, character by character, a space or not; a student is a name with
an integer, a table has rows of integers, the width of the product of two numbers of the header is
positive. Sums and folds are recursive functions in the community modules;
a fact about them is shown by a smallest subset for which it fails (`SmallestSubset`), which takes
no induction theorem: `Counting` has their existence and uniqueness (`SumExists`,
`SumIsUnique`) and the laws that follow (`TotalAdds`, `TotalChanges`, `TotalOfUnion`), the same for folds
(`FoldExists`, `FoldTyped`; `FoldSteps` over a sequence, `ChosenSteps` for a selection, `FlatSteps`
for rows put one after the other), the arithmetic of remainders (`RemainderOfSum`),
of divisors (`DividesThrough`, `NextToSix`), and the size of what a sequence without repetitions holds
(`SizeOfImage`).

Only model-checked:

* every `~>`, `<>` and `[]<>` property and the liveness part of `Implements`: fairness and
  `ENABLED` are out of the prover's reach.

## 6. What is not modelled

* `Seminar3`, and `Seminar2` task1 to task4 and task6 to task9: single calls of the standard
  library, or objects built from constants in one thread and printed. Each is one straight
  line without input; a model would restate the library.
* `Laba4/mat_mul.cpp`: every work item computes one element of its own from constant input.
* `Laba3`: the accept loop (sessions share nothing), and the buffer of `do_write`
  (Session.cpp:91), a temporary that is gone when the asynchronous write runs: undefined, and
  no outcome can be stated for the bytes. The order of the writes is modelled.
* Seminar5 task4: the generator that the printing threads share without a lock (line 119). Its
  outcomes are free in the model; a crash of it is not modelled.
* The move operations of the semaphore in task3, used only before any thread runs;
  `withdraw` of `Seminar4/task2` and its `deposit` outside of a transfer, which nobody
  calls.
* `Seminar2/task10-task11`: the formats of numbers and names in the text file, and files that
  are not well formed.
* A read of `CoroutinesTasks/task2` that fails otherwise than by the end of its stream: the code
  takes any error for the end, the model has the end after the server's close only.
* A file of `GradeFile` cut inside a cell.
* The text that is printed, the statistics, the lengths of pauses.

Time is not counted anywhere: a deadline may pass at any moment a thread waits.
