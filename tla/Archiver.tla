------------------------------- MODULE Archiver -------------------------------
(***************************************************************************)
(* Homework1/main.cpp: a pool of threads counts the characters and words of   *)
(* files.  main fills the queue once the threads run, wakes all that wait,    *)
(* joins them and reports.  What a thread reads, a block at a time, concerns  *)
(* no other thread: the whole of process_file is part of one step.           *)
(***************************************************************************)
EXTENDS Naturals, Sequences, SequencesExt, FiniteSetsExt

CONSTANTS Content,    \* what a file may hold: sequences over {"space", "letter"}
          FileCount,  \* arguments of the command line
          Cores,      \* what hardware_concurrency() may return; it may be 0
          BlockSize   \* BLOCK_SIZE

ArchiverAssumption == /\ Content \subseteq Seq({"space", "letter"})
                      /\ FileCount \in Nat \ {0}
                      /\ Cores \subseteq Nat /\ IsFiniteSet(Cores)
                      /\ BlockSize \in Nat \ {0}

File == 1..FileCount
Unreadable == <<"unreadable">>  \* a file that cannot be opened

VARIABLES content,    \* content[f]: what file f holds, or Unreadable
          cores,      \* what hardware_concurrency() returned
          queue,      \* g_task_queue
          all_pushed, \* g_all_pushed
          place,      \* place[t]: where thread t is
          file,       \* file[t]: the file t has taken, 0 when none
          results,    \* g_results
          processed,  \* g_processed_count
          main        \* where main is

archiverVars == <<content, cores, queue, all_pushed, place, file, results, processed, main>>

PoolSize == Min({FileCount, cores})
Thread == 1..Max(Cores \cup {FileCount})

Init == /\ content \in [File -> Content \cup {Unreadable}]
        /\ cores \in Cores
        /\ queue = <<>> /\ all_pushed = FALSE
        /\ place = [t \in Thread |-> IF t <= PoolSize THEN "wait" ELSE "ended"]
        /\ file = [t \in Thread |-> 0]
        /\ results = <<>> /\ processed = 0
        /\ main = "fill"
----------------------------------------------------------------------------
\* process_file: the state that goes from block to block, and from one character
\* to the next.
Start == [word_count |-> 0, in_word |-> FALSE]

Scan(stats, c) ==
  IF c = "space" THEN [stats EXCEPT !.in_word = FALSE]
  ELSE [word_count |-> stats.word_count + (IF stats.in_word THEN 0 ELSE 1),
        in_word |-> TRUE]

Blocks(text) == LET count == (Len(text) + BlockSize - 1) \div BlockSize
                IN  [b \in 1..count |->
                      SubSeq(text, (b - 1) * BlockSize + 1, Min({b * BlockSize, Len(text)}))]

\* Mutated form: every block begins outside a word.
MutScanBlock(stats, block) == FoldLeft(Scan, [stats EXCEPT !.in_word = FALSE], block)

ScanBlock(stats, block) == FoldLeft(Scan, stats, block)

ProcessFile(f) ==
  IF content[f] = Unreadable
  THEN [filename |-> f, success |-> FALSE, char_count |-> 0, word_count |-> 0]
  ELSE [filename |-> f, success |-> TRUE,
        char_count |-> FoldLeft(LAMBDA n, block : n + Len(block), 0, Blocks(content[f])),
        word_count |-> FoldLeft(ScanBlock, Start, Blocks(content[f])).word_count]
----------------------------------------------------------------------------
Goto(t, label) == place' = [place EXCEPT ![t] = label]

\* worker_thread: the wait and what follows it up to the unlock.
Sleep(t) == /\ place[t] = "wait" /\ queue = <<>> /\ ~all_pushed
            /\ Goto(t, "asleep")
            /\ UNCHANGED <<content, cores, queue, all_pushed, file, results, processed, main>>

SpuriousWake(t) == /\ place[t] = "asleep"
                   /\ Goto(t, "wait")
                   /\ UNCHANGED <<content, cores, queue, all_pushed, file, results, processed, main>>

\* Mutated form: an empty queue is taken for the end of the files.
MutQuit(t) == /\ place[t] = "wait" /\ queue = <<>>
              /\ Goto(t, "ended")
              /\ UNCHANGED <<content, cores, queue, all_pushed, file, results, processed, main>>

Quit(t) == /\ place[t] = "wait" /\ queue = <<>> /\ all_pushed
           /\ Goto(t, "ended")
           /\ UNCHANGED <<content, cores, queue, all_pushed, file, results, processed, main>>

TakeFile(t) == /\ place[t] = "wait" /\ queue # <<>>
               /\ file' = [file EXCEPT ![t] = Head(queue)]
               /\ queue' = Tail(queue)
               /\ Goto(t, "process")
               /\ UNCHANGED <<content, cores, all_pushed, results, processed, main>>

PushResult(t) == /\ place[t] = "process"
                 /\ results' = Append(results, ProcessFile(file[t]))
                 /\ Goto(t, "count")
                 /\ UNCHANGED <<content, cores, queue, all_pushed, file, processed, main>>

CountFile(t) == /\ place[t] = "count"
                /\ processed' = processed + 1
                /\ file' = [file EXCEPT ![t] = 0]
                /\ Goto(t, "wait")
                /\ UNCHANGED <<content, cores, queue, all_pushed, results, main>>

\* main
FillQueue == /\ main = "fill"
             /\ queue' = [f \in File |-> f] /\ all_pushed' = TRUE
             /\ main' = "notify"
             /\ UNCHANGED <<content, cores, place, file, results, processed>>

NotifyAll == /\ main = "notify"
             /\ place' = [t \in Thread |-> IF place[t] = "asleep" THEN "wait" ELSE place[t]]
             /\ main' = "join"
             /\ UNCHANGED <<content, cores, queue, all_pushed, file, results, processed>>

Report == /\ main = "join" /\ \A t \in Thread : place[t] = "ended"
          /\ main' = "reported"
          /\ UNCHANGED <<content, cores, queue, all_pushed, place, file, results, processed>>

MainStep == FillQueue \/ NotifyAll \/ Report
Worker(t) == Sleep(t) \/ Quit(t) \/ TakeFile(t) \/ PushResult(t) \/ CountFile(t)

Next == MainStep \/ \E t \in Thread : Worker(t) \/ SpuriousWake(t)

Fairness == /\ WF_archiverVars(MainStep)
            /\ \A t \in Thread : WF_archiverVars(Worker(t))

Spec == Init /\ [][Next]_archiverVars /\ Fairness
----------------------------------------------------------------------------
Taken == {file[t] : t \in {u \in Thread : place[u] = "process"}}

\* Every file main has pushed is in one place: queued, with one thread, or listed
\* once in the results; the count lags behind the list by the threads that are
\* about to count.
FilesAccountedFor ==
  /\ all_pushed => /\ ToSet(queue) \cup Taken \cup {r.filename : r \in ToSet(results)} = File
                   /\ Len(queue) + Cardinality({t \in Thread : place[t] = "process"})
                        + Len(results) = FileCount
  /\ processed + Cardinality({t \in Thread : place[t] = "count"}) = Len(results)

\* The words of a text: the letters that follow no letter.
Words(text) == {i \in DOMAIN text : text[i] = "letter" /\ (i = 1 \/ text[i - 1] = "space")}

\* What is listed is right, however words are cut by the ends of the blocks.
CountsRight ==
  \A r \in ToSet(results) :
    LET text == content[r.filename]
    IN  r.success => r.word_count = Cardinality(Words(text)) /\ r.char_count = Len(text)

\* Files, results and counts agree; and when main reports, nothing is missing
\* unless the pool has no thread (hardware_concurrency() = 0).
ArchiverConsistent ==
  /\ FilesAccountedFor
  /\ main = "reported" /\ PoolSize > 0 => processed = FileCount /\ queue = <<>>
=============================================================================
