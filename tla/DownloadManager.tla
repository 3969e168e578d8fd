-------------------------- MODULE DownloadManager --------------------------
(***************************************************************************)
(* Seminar5/task6.cpp: workers download the chunks of a FIFO queue.  A file   *)
(* must be active while its chunks are downloaded and at most MaxActiveFiles *)
(* are (active_downloads_); at most MaxActiveChunks chunks are downloaded at *)
(* once (chunk_downloads_).  The worker that finishes a file's last chunk    *)
(* ends the file.                                                          *)
(*                                                                         *)
(* ensure_file_active reads st->active under st->mtx, unlocks, waits for a    *)
(* permit and looks again: the steps between are what is interleaved here.   *)
(* Semaphores are used as Semaphore promises; an acquire is one step.  The   *)
(* chunk's number and size do not matter: a chunk is its file.              *)
(***************************************************************************)
EXTENDS Naturals, Sequences, FiniteSets

CONSTANTS Worker,           \* download_worker threads
          FileCount,        \* main adds files 1..FileCount, in order
          TotalChunks,      \* chunks of each file (add_file's chunks_count)
          MaxActiveFiles,   \* initial permits of active_downloads_
          MaxActiveChunks   \* initial permits of chunk_downloads_

File == 1..FileCount

DownloadAssumption == /\ IsFiniteSet(Worker) /\ Worker # {}
                      /\ FileCount \in Nat
                      /\ TotalChunks \in [File -> Nat \ {0}]
                      /\ MaxActiveFiles \in Nat \ {0}
                      /\ MaxActiveChunks \in Nat \ {0}

VARIABLES queue,             \* queue_: the file of each chunk not taken yet
          added,             \* how many files main has added
          main,              \* where main is
          stop,              \* stop_
          pc,                \* pc[w]: where worker w is
          chunk,             \* chunk[w]: the file of the chunk w has taken
          active,            \* active[f]
          downloaded,        \* downloaded[f]: downloaded_chunks
          active_downloads,  \* permits left for files
          chunk_downloads,   \* permits left for chunks
          completed          \* completed_files_

mainVars == <<added, main, stop>>
fileVars == <<active, downloaded>>
permits == <<active_downloads, chunk_downloads>>
vars == <<queue, mainVars, pc, chunk, fileVars, permits, completed>>

Init == /\ queue = <<>>
        /\ added = 0
        /\ main = "add"
        /\ stop = FALSE
        /\ pc = [w \in Worker |-> "loop"]
        /\ chunk = [w \in Worker |-> 0]
        /\ active = [f \in File |-> FALSE]
        /\ downloaded = [f \in File |-> 0]
        /\ active_downloads = MaxActiveFiles
        /\ chunk_downloads = MaxActiveChunks
        /\ completed = 0
----------------------------------------------------------------------------
\* A worker in "doze" has seen the predicate fail and still holds queue_mutex_.
MutexFree == \A w \in Worker : pc[w] # "doze"
WakeAll == [w \in Worker |-> IF pc[w] = "asleep" THEN "wait" ELSE pc[w]]
Goto(w, label) == pc' = [pc EXCEPT ![w] = label]

\* add_file: the chunks are pushed and the workers notified under the mutex.
AddFile == /\ main = "add" /\ added < FileCount
           /\ MutexFree
           /\ added' = added + 1
           /\ queue' = queue \o [i \in 1..TotalChunks[added + 1] |-> added + 1]
           /\ pc' = WakeAll
           /\ UNCHANGED <<main, stop, chunk, fileVars, permits, completed>>

\* stop(): the flag is stored without the mutex, then every sleeper is woken.
StoreStop == /\ main = "add" /\ added = FileCount
             /\ main' = "stopping"
             /\ stop' = TRUE
             /\ UNCHANGED <<queue, added, pc, chunk, fileVars, permits, completed>>

StopNotify == /\ main = "stopping"
              /\ main' = "done"
              /\ pc' = WakeAll
              /\ UNCHANGED <<queue, added, stop, chunk, fileVars, permits, completed>>
----------------------------------------------------------------------------
\* Steps of the worker that only move it.
Move(w, from, guard, to) ==
  /\ pc[w] = from
  /\ guard
  /\ Goto(w, to)
  /\ UNCHANGED <<queue, mainVars, chunk, fileVars, permits, completed>>

\* while (!stop_.load()), and the wait on queue_cv_: its predicate fails, the
\* worker sleeps, it wakes without cause, or the flag makes it return.
CheckStop(w) == Move(w, "loop", TRUE, IF stop THEN "returned" ELSE "wait")
Doze(w) == Move(w, "wait", MutexFree /\ ~stop /\ queue = <<>>, "doze")
FallAsleep(w) == Move(w, "doze", TRUE, "asleep")
SpuriousWake(w) == Move(w, "asleep", TRUE, "wait")
QuitInWait(w) == Move(w, "wait", MutexFree /\ stop, "returned")

TakeChunk(w) == /\ pc[w] = "wait" /\ MutexFree
                /\ ~stop /\ queue # <<>>
                /\ chunk' = [chunk EXCEPT ![w] = Head(queue)]
                /\ queue' = Tail(queue)
                /\ Goto(w, "ensure")
                /\ UNCHANGED <<mainVars, fileVars, permits, completed>>

\* ensure_file_active: the first look at st->active, the wait for a permit, and
\* the second look, which gives the permit back when another worker was faster.
LookActive(w) ==
  Move(w, "ensure", TRUE, IF active[chunk[w]] THEN "chunkPermit" ELSE "filePermit")

AcquireFilePermit(w) == /\ pc[w] = "filePermit"
                        /\ active_downloads > 0
                        /\ active_downloads' = active_downloads - 1
                        /\ Goto(w, "recheck")
                        /\ UNCHANGED <<queue, mainVars, chunk, fileVars,
                                       chunk_downloads, completed>>

\* Mutated form: no second look.
MutRecheck(w) == /\ pc[w] = "recheck"
                 /\ active' = [active EXCEPT ![chunk[w]] = TRUE]
                 /\ Goto(w, "chunkPermit")
                 /\ UNCHANGED <<queue, mainVars, chunk, downloaded, permits, completed>>

Recheck(w) == /\ pc[w] = "recheck"
              /\ active' = [active EXCEPT ![chunk[w]] = TRUE]
              /\ Goto(w, IF active[chunk[w]] THEN "giveBack" ELSE "chunkPermit")
              /\ UNCHANGED <<queue, mainVars, chunk, downloaded, permits, completed>>

ReleaseFilePermit(w, from, to) ==
  /\ pc[w] = from
  /\ active_downloads' = active_downloads + 1
  /\ Goto(w, to)
  /\ UNCHANGED <<queue, mainVars, chunk, fileVars, chunk_downloads, completed>>

GiveBack(w) == ReleaseFilePermit(w, "giveBack", "chunkPermit")
----------------------------------------------------------------------------
AcquireChunkPermit(w) == /\ pc[w] = "chunkPermit"
                         /\ chunk_downloads > 0
                         /\ chunk_downloads' = chunk_downloads - 1
                         /\ Goto(w, "download")
                         /\ UNCHANGED <<queue, mainVars, chunk, fileVars,
                                        active_downloads, completed>>

ReleaseChunkPermit(w) == /\ pc[w] = "download"
                         /\ chunk_downloads' = chunk_downloads + 1
                         /\ Goto(w, "mark")
                         /\ UNCHANGED <<queue, mainVars, chunk, fileVars,
                                        active_downloads, completed>>

MarkDownloaded(w) ==
  /\ pc[w] = "mark"
  /\ downloaded' = [downloaded EXCEPT ![chunk[w]] = downloaded[chunk[w]] + 1]
  /\ Goto(w, "complete?")
  /\ UNCHANGED <<queue, mainVars, chunk, active, permits, completed>>

\* maybe_file_complete: two workers can both find the file complete; the one
\* that finds it active under st->mtx ends it.
IsComplete(f) == downloaded[f] >= TotalChunks[f]

LookComplete(w) ==
  Move(w, "complete?", TRUE, IF IsComplete(chunk[w]) THEN "deactivate" ELSE "loop")

\* Mutated form: active is not tested.
MutDeactivate(w) == /\ pc[w] = "deactivate"
                    /\ active' = [active EXCEPT ![chunk[w]] = FALSE]
                    /\ Goto(w, "endFile")
                    /\ UNCHANGED <<queue, mainVars, chunk, downloaded, permits, completed>>

Deactivate(w) == /\ pc[w] = "deactivate"
                 /\ active' = [active EXCEPT ![chunk[w]] = FALSE]
                 /\ Goto(w, IF active[chunk[w]] THEN "endFile" ELSE "loop")
                 /\ UNCHANGED <<queue, mainVars, chunk, downloaded, permits, completed>>

EndFile(w) == ReleaseFilePermit(w, "endFile", "countFile")

CountFile(w) == /\ pc[w] = "countFile"
                /\ completed' = completed + 1
                /\ Goto(w, "loop")
                /\ UNCHANGED <<queue, mainVars, chunk, fileVars, permits>>

WorkerStep(w) ==
  \/ CheckStop(w) \/ Doze(w) \/ FallAsleep(w) \/ QuitInWait(w) \/ TakeChunk(w)
  \/ LookActive(w) \/ AcquireFilePermit(w) \/ Recheck(w) \/ GiveBack(w)
  \/ AcquireChunkPermit(w) \/ ReleaseChunkPermit(w) \/ MarkDownloaded(w)
  \/ LookComplete(w) \/ Deactivate(w) \/ EndFile(w) \/ CountFile(w)

Next == \/ AddFile \/ StoreStop \/ StopNotify
        \/ \E w \in Worker : WorkerStep(w) \/ SpuriousWake(w)

\* Threads are scheduled; nothing obliges main to stop.
Fairness == /\ WF_vars(AddFile) /\ WF_vars(StopNotify)
            /\ \A w \in Worker : WF_vars(WorkerStep(w))

Spec == Init /\ [][Next]_vars /\ Fairness
----------------------------------------------------------------------------
At(labels) == {w \in Worker : pc[w] \in labels}
ActiveFiles == {f \in File : active[f]}

\* Every variable has its type.
TypeOK == /\ queue \in Seq(File)
          /\ added \in 0..FileCount
          /\ main \in {"add", "stopping", "done"}
          /\ stop \in BOOLEAN
          /\ pc \in [Worker -> {"loop", "wait", "doze", "asleep", "returned",
                                "ensure", "filePermit", "recheck", "giveBack",
                                "chunkPermit", "download", "mark", "complete?",
                                "deactivate", "endFile", "countFile"}]
          /\ chunk \in [Worker -> 0..FileCount]
          /\ active \in [File -> BOOLEAN]
          /\ \A f \in File : downloaded[f] \in 0..TotalChunks[f]
          /\ active_downloads \in 0..MaxActiveFiles
          /\ chunk_downloads \in 0..MaxActiveChunks
          /\ completed \in 0..FileCount

\* Each permit of active_downloads_ is in the semaphore, belongs to an active
\* file, or is in the hands of one worker that took it for a file that turned
\* out active or that has just ended a file: the double look neither leaks a
\* permit nor returns one twice, so never more than MaxActiveFiles are active.
FilePermitsAccountedFor ==
  active_downloads + Cardinality(ActiveFiles)
    + Cardinality(At({"recheck", "giveBack", "endFile"})) = MaxActiveFiles

\* The permits agree with the files and the workers in every state.
PermitsConsistent == TypeOK /\ FilePermitsAccountedFor

\* A worker past ensure_file_active downloads a chunk of a file that is active
\* and stays so until that chunk is counted.
DownloadsOnlyActive ==
  \A w \in At({"giveBack", "chunkPermit", "download", "mark"}) : active[chunk[w]]

\* A file is ended once, by one worker, and only when all its chunks are
\* downloaded: what is counted or about to be counted is exactly the files that
\* are complete and no longer active.
EndedOnce ==
  completed + Cardinality(At({"endFile", "countFile"}))
    = Cardinality({f \in File : IsComplete(f) /\ ~active[f]})

\* A file is active from before its first download until after its last one, and
\* is then ended once.
FileLifecycle == DownloadsOnlyActive /\ EndedOnce

\* Every file main has added is completed unless the manager is stopped first:
\* what main relies on when it prints completed_files() after its pause.
FilesComplete == \A n \in 1..FileCount :
                   (added = n) ~> (completed >= n \/ stop)

\* With no more workers than files may be active, that holds: a worker that
\* waits for a permit does not keep back the last chunk of every active file.
\* (main's 5 workers for 2 active files fail this condition.)
FilesCompleteIfFewWorkers ==
  Cardinality(Worker) <= MaxActiveFiles => FilesComplete
=============================================================================
