---------------------------- MODULE PrinterQueue ----------------------------
(***************************************************************************)
(* Seminar5/task4.cpp: one dispatcher thread takes the most urgent job of a   *)
(* queue, waits a limited time for a printer (a permit), and starts a thread  *)
(* that prints the job.  A job for which no printer was free goes back to the *)
(* queue; so does a job whose printing is interrupted, by the printing thread *)
(* itself, which then gives back the printer and notifies the dispatcher.    *)
(*                                                                         *)
(* Which step of a printing thread is interrupted is drawn from a generator   *)
(* that all of them share without a lock and that dies with the dispatcher:  *)
(* here any printing may be interrupted at any time.  Printing threads that  *)
(* have put their job back or have finished it are only counted: the job may  *)
(* already be in the hands of another thread.                               *)
(***************************************************************************)
EXTENDS Naturals, FiniteSets

CONSTANTS JobCount,     \* main submits jobs 1..JobCount; the number is seq
          Priority,     \* Priority[j]
          Printers,     \* n_printers_
          MaxReturning  \* bound of the model: threads that have put a job back

Job == 1..JobCount

PrinterAssumption == /\ JobCount \in Nat
                     /\ Priority \in [Job -> Nat]
                     /\ Printers \in Nat
                     /\ MaxReturning \in Nat

VARIABLES jobs,       \* jobs_
          submitted,  \* jobs 1..submitted are submitted
          submitter,  \* "idle", or "notify": between the push and notify_one
          dispatcher, \* where the dispatcher is
          job,        \* the job the dispatcher has taken, 0 when none
          printing,   \* jobs a printing thread works on
          returning,  \* threads that have put a job back and hold the printer
          notifying,  \* those that have released it and have yet to notify
          finishing,  \* threads that have printed a job and hold the printer
          printed,    \* jobs printed
          semaphore,  \* permits left in semaphore_
          stop,       \* stop_
          stopper     \* where stop() is: "before", "notify", "after"

submitVars == <<submitted, submitter>>
threadVars == <<printing, returning, notifying, finishing, printed>>
stopVars == <<stop, stopper>>
vars == <<jobs, submitVars, dispatcher, job, threadVars, semaphore, stopVars>>

Init == /\ jobs = {} /\ submitted = 0 /\ submitter = "idle"
        /\ dispatcher = "loop" /\ job = 0
        /\ printing = {} /\ printed = {}
        /\ returning = 0 /\ notifying = 0 /\ finishing = 0
        /\ semaphore = Printers
        /\ stop = FALSE /\ stopper = "before"
----------------------------------------------------------------------------
\* Cmp: higher priority first, then the smaller seq.
Before(a, b) == \/ Priority[a] > Priority[b]
                \/ Priority[a] = Priority[b] /\ a < b
Top == CHOOSE j \in jobs : \A other \in jobs \ {j} : Before(j, other)

\* The dispatcher in "doze" has seen its predicate fail and still holds mtx_.
MutexFree == dispatcher # "doze"
Woken == IF dispatcher = "asleep" THEN "wait" ELSE dispatcher

\* submit: push under the mutex, then notify_one (only the dispatcher waits).
Submit == /\ submitter = "idle" /\ submitted < JobCount
          /\ MutexFree
          /\ submitted' = submitted + 1
          /\ jobs' = jobs \cup {submitted + 1}
          /\ submitter' = "notify"
          /\ UNCHANGED <<dispatcher, job, threadVars, semaphore, stopVars>>

SubmitNotify == /\ submitter = "notify"
                /\ submitter' = "idle"
                /\ dispatcher' = Woken
                /\ UNCHANGED <<jobs, submitted, job, threadVars, semaphore, stopVars>>

\* stop(): the flag is stored without the mutex, then the dispatcher notified.
StoreStop == /\ stopper = "before"
             /\ stop' = TRUE /\ stopper' = "notify"
             /\ UNCHANGED <<jobs, submitVars, dispatcher, job, threadVars, semaphore>>

StopNotify == /\ stopper = "notify"
              /\ stopper' = "after"
              /\ dispatcher' = Woken
              /\ UNCHANGED <<jobs, submitVars, job, threadVars, semaphore, stop>>
----------------------------------------------------------------------------
\* The dispatcher moves without touching anything else: while (!stop_.load()),
\* and the wait on cv_.
DispatcherMoves(from, guard, to) ==
  /\ dispatcher = from
  /\ guard
  /\ dispatcher' = to
  /\ UNCHANGED <<jobs, submitVars, job, threadVars, semaphore, stopVars>>

CheckStop == DispatcherMoves("loop", TRUE, IF stop THEN "returned" ELSE "wait")
Doze == DispatcherMoves("wait", ~stop /\ jobs = {}, "doze")
FallAsleep == DispatcherMoves("doze", TRUE, "asleep")
SpuriousWake == DispatcherMoves("asleep", TRUE, "wait")
QuitInWait == DispatcherMoves("wait", stop, "returned")

TakeJob == /\ dispatcher = "wait"
           /\ ~stop /\ jobs # {}
           /\ job' = Top
           /\ jobs' = jobs \ {Top}
           /\ dispatcher' = "permit"
           /\ UNCHANGED <<submitVars, threadVars, semaphore, stopVars>>

\* Mutated form: the job is not pushed back.
MutPutBack == /\ dispatcher = "permit" /\ semaphore = 0
              /\ job' = 0
              /\ dispatcher' = "loop"
              /\ UNCHANGED <<jobs, submitVars, threadVars, semaphore, stopVars>>

\* try_acquire_for times out: the job is put back.
PutBack == /\ dispatcher = "permit" /\ semaphore = 0
           /\ jobs' = jobs \cup {job}
           /\ job' = 0
           /\ dispatcher' = "loop"
           /\ UNCHANGED <<submitVars, threadVars, semaphore, stopVars>>

\* or gets a permit: a thread is started that prints the job.
StartPrinting == /\ dispatcher = "permit" /\ semaphore > 0
                 /\ semaphore' = semaphore - 1
                 /\ printing' = printing \cup {job}
                 /\ job' = 0
                 /\ dispatcher' = "loop"
                 /\ UNCHANGED <<jobs, submitVars, returning, notifying, finishing,
                                printed, stopVars>>
----------------------------------------------------------------------------
\* Mutated form: no return after the interrupted job is put back.
MutInterrupt(j) == /\ j \in printing
                   /\ returning + notifying < MaxReturning
                   /\ MutexFree
                   /\ jobs' = jobs \cup {j}
                   /\ returning' = returning + 1
                   /\ UNCHANGED <<submitVars, dispatcher, job, printing, notifying,
                                  finishing, printed, semaphore, stopVars>>

\* A printing thread is interrupted and puts its job back under the mutex,
Interrupt(j) == /\ j \in printing
                /\ returning + notifying < MaxReturning
                /\ MutexFree
                /\ printing' = printing \ {j}
                /\ jobs' = jobs \cup {j}
                /\ returning' = returning + 1
                /\ UNCHANGED <<submitVars, dispatcher, job, notifying, finishing,
                               printed, semaphore, stopVars>>

\* gives back the printer,
ReleaseInterrupted == /\ returning > 0
                      /\ returning' = returning - 1
                      /\ notifying' = notifying + 1
                      /\ semaphore' = semaphore + 1
                      /\ UNCHANGED <<jobs, submitVars, dispatcher, job, printing,
                                     finishing, printed, stopVars>>

\* Mutated form: the thread ends without notify_one.
MutNotifyReturned == /\ notifying > 0
                     /\ notifying' = notifying - 1
                     /\ UNCHANGED <<jobs, submitVars, dispatcher, job, printing, returning,
                                    finishing, printed, semaphore, stopVars>>

\* and notifies the dispatcher.
NotifyReturned == /\ notifying > 0
                  /\ notifying' = notifying - 1
                  /\ dispatcher' = Woken
                  /\ UNCHANGED <<jobs, submitVars, job, printing, returning,
                                 finishing, printed, semaphore, stopVars>>

\* A printing thread ends its job and gives back the printer.
Finish(j) == /\ j \in printing
             /\ MutexFree
             /\ printing' = printing \ {j}
             /\ printed' = printed \cup {j}
             /\ finishing' = finishing + 1
             /\ UNCHANGED <<jobs, submitVars, dispatcher, job, returning, notifying,
                            semaphore, stopVars>>

ReleaseFinished == /\ finishing > 0
                   /\ finishing' = finishing - 1
                   /\ semaphore' = semaphore + 1
                   /\ UNCHANGED <<jobs, submitVars, dispatcher, job, printing, returning,
                                  notifying, printed, stopVars>>

Dispatch == CheckStop \/ Doze \/ FallAsleep \/ QuitInWait \/ TakeJob \/ PutBack
            \/ StartPrinting

Next == \/ Submit \/ SubmitNotify \/ StoreStop \/ StopNotify
        \/ Dispatch \/ SpuriousWake
        \/ \E j \in Job : Interrupt(j) \/ Finish(j)
        \/ ReleaseInterrupted \/ NotifyReturned \/ ReleaseFinished

\* Threads are scheduled; nothing obliges main to stop.  A job that is started
\* again and again is not interrupted every time (one step in ten is).
Fairness == /\ WF_vars(Submit) /\ WF_vars(SubmitNotify) /\ WF_vars(StopNotify)
            /\ WF_vars(Dispatch)
            /\ WF_vars(ReleaseInterrupted) /\ WF_vars(NotifyReturned)
            /\ WF_vars(ReleaseFinished)
            /\ \A j \in Job : SF_vars(Finish(j))

Spec == Init /\ [][Next]_vars /\ Fairness
----------------------------------------------------------------------------
Taken == {job} \ {0}

\* Every variable has its type.
TypeOK == /\ jobs \subseteq Job /\ printing \subseteq Job /\ printed \subseteq Job
          /\ submitted \in 0..JobCount
          /\ submitter \in {"idle", "notify"}
          /\ dispatcher \in {"loop", "wait", "doze", "asleep", "permit", "returned"}
          /\ job \in 0..JobCount /\ (job # 0 <=> dispatcher = "permit")
          /\ returning \in 0..MaxReturning
          /\ notifying \in 0..MaxReturning
          /\ finishing \in Nat
          /\ semaphore \in 0..Printers
          /\ stop \in BOOLEAN
          /\ stopper \in {"before", "notify", "after"}

\* Every submitted job is in exactly one place: queued, with the dispatcher,
\* being printed, or printed.  In particular no job is lost when it goes back to
\* the queue, and none is printed twice.
JobsInOnePlace ==
  /\ jobs \cup Taken \cup printing \cup printed = 1..submitted
  /\ Cardinality(jobs) + Cardinality(Taken) + Cardinality(printing)
       + Cardinality(printed) = submitted

\* Every printer is free, prints a job, or is held by a thread that is about to
\* give it back: no more than Printers jobs are printed at once.
PrintersAccountedFor ==
  semaphore + Cardinality(printing) + returning + finishing = Printers

\* Jobs, printers and threads agree in every state.
QueueConsistent == TypeOK /\ JobsInOnePlace /\ PrintersAccountedFor

\* The dispatcher does not sleep beside a job unless some thread is about to
\* notify it.
NoJobSleptOver ==
  dispatcher = "asleep" /\ jobs # {} =>
    submitter = "notify" \/ returning + notifying > 0

\* Every submitted job is printed unless the queue is stopped first, whatever
\* time-outs and interruptions send it back.
JobsPrinted == \A j \in Job : (submitted >= j) ~> (j \in printed \/ stop)
=============================================================================
