------------------------------- MODULE Seminar5 -------------------------------
(***************************************************************************)
(* The three programs of Seminar5 whose threads serve a queue, one of which  *)
(* Init chooses: the printers, the scheduler, the downloads.  The programs    *)
(* share nothing; they are put together to be checked and proved about at    *)
(* one place.                                                              *)
(***************************************************************************)
EXTENDS Naturals, FiniteSets

CONSTANTS JobCount, JobPriority, Printers, MaxReturning,
          Worker, TotalSlots, MaxRequired, TaskPriority, TaskCount,
          FileCount, TotalChunks, MaxActiveFiles, MaxActiveChunks

VARIABLES program,
          jobs, submittedJobs, submitter, dispatcher, job, printing, returning,
          notifying, finishing, printed, semaphore, stopPrinter, stopper,
          tasks, submitted, mainTasks, stopTasks, pcTask, task, held, slots,
          completedTasks,
          chunks, added, mainFiles, stopFiles, pcFile, chunk, active, downloaded,
          active_downloads, chunk_downloads, completedFiles

Printer == INSTANCE PrinterQueue
             WITH Priority <- JobPriority, submitted <- submittedJobs,
                  stop <- stopPrinter
Tasks == INSTANCE TaskScheduler
           WITH Priority <- TaskPriority, queue <- tasks, main <- mainTasks,
                stop <- stopTasks, pc <- pcTask, completed <- completedTasks
Files == INSTANCE DownloadManager
           WITH queue <- chunks, main <- mainFiles, stop <- stopFiles,
                pc <- pcFile, completed <- completedFiles
ASSUME Seminar5Assumption == /\ Printer!PrinterAssumption
                             /\ Tasks!SchedulerAssumption
                             /\ Files!DownloadAssumption

printerVars == <<jobs, submittedJobs, submitter, dispatcher, job, printing, returning,
                 notifying, finishing, printed, semaphore, stopPrinter, stopper>>
taskVars == <<tasks, submitted, mainTasks, stopTasks, pcTask, task, held, slots,
              completedTasks>>
fileVars == <<chunks, added, mainFiles, stopFiles, pcFile, chunk, active, downloaded,
              active_downloads, chunk_downloads, completedFiles>>
vars == <<program, printerVars, taskVars, fileVars>>

\* A program that is not chosen takes no step: it stays in a state of no action.
PrinterOff == /\ jobs = {} /\ submittedJobs = 0 /\ submitter = "off"
              /\ dispatcher = "off" /\ job = 0 /\ printing = {} /\ printed = {}
              /\ returning = 0 /\ notifying = 0 /\ finishing = 0
              /\ semaphore = 0 /\ stopPrinter = TRUE /\ stopper = "off"

TasksOff == /\ tasks = {} /\ submitted = 0 /\ mainTasks = "off" /\ stopTasks = TRUE
            /\ pcTask = [w \in Worker |-> "off"]
            /\ task = [w \in Worker |-> Tasks!NoTask] /\ held = [w \in Worker |-> 0]
            /\ slots = 0 /\ completedTasks = 0

FilesOff == /\ chunks = <<>> /\ added = 0 /\ mainFiles = "off" /\ stopFiles = TRUE
            /\ pcFile = [w \in Worker |-> "off"] /\ chunk = [w \in Worker |-> 0]
            /\ active = <<>> /\ downloaded = <<>>
            /\ active_downloads = 0 /\ chunk_downloads = 0 /\ completedFiles = 0

Init == \/ program = "PrinterQueue" /\ Printer!Init /\ TasksOff /\ FilesOff
        \/ program = "TaskScheduler" /\ Tasks!Init /\ PrinterOff /\ FilesOff
        \/ program = "DownloadManager" /\ Files!Init /\ PrinterOff /\ TasksOff

Next == \/ /\ program = "PrinterQueue" /\ Printer!Next
           /\ UNCHANGED <<program, taskVars, fileVars>>
        \/ /\ program = "TaskScheduler" /\ Tasks!Next
           /\ UNCHANGED <<program, printerVars, fileVars>>
        \/ /\ program = "DownloadManager" /\ Files!Next
           /\ UNCHANGED <<program, printerVars, taskVars>>

Spec == /\ Init /\ [][Next]_vars
        /\ Printer!Fairness /\ Tasks!Fairness /\ Files!Fairness
----------------------------------------------------------------------------
\* Jobs, printers and printing threads agree.
QueueConsistent == program = "PrinterQueue" => Printer!QueueConsistent

\* The dispatcher does not sleep beside a job unless it is about to be notified.
NoJobSleptOver == program = "PrinterQueue" => Printer!NoJobSleptOver

\* Every submitted job is printed unless the queue is stopped first.
JobsPrinted == program = "PrinterQueue" => Printer!JobsPrinted

\* Slots, tasks and workers agree.
SchedulerConsistent == program = "TaskScheduler" => Tasks!SchedulerConsistent

\* No worker sleeps beside a task that nobody is about to take.
NoWorkSleptOver == program = "TaskScheduler" => Tasks!NoWorkSleptOver

\* With slots enough every task completes unless the scheduler is stopped first.
TasksCompleteIfEnoughSlots ==
  program = "TaskScheduler" => Tasks!TasksCompleteIfEnoughSlots

\* The permits agree with the files and the workers, and a file is active from
\* before its first download until it is ended, once.
FilesConsistent ==
  program = "DownloadManager" => Files!PermitsConsistent /\ Files!FileLifecycle

\* With no more workers than files may be active every file completes unless the
\* manager is stopped first.
FilesCompleteIfFewWorkers ==
  program = "DownloadManager" => Files!FilesCompleteIfFewWorkers
=============================================================================
