----------------------------- MODULE MCSeminar5 -----------------------------
(* Three print jobs, one urgent, for two printers; two workers with slots      *)
(* enough; two workers for three files of 2, 1 and 2 chunks.                  *)
EXTENDS Seminar5
CONSTANTS w1, w2, w3
MCJobPriority == <<1, 10, 1>>
MCWorker == {w1, w2}
MCTaskPriority == {1, 2}
MCTotalChunks == <<2, 1, 2>>

\* The downloads alone, with more workers than active files, as main of task6.cpp has
\* them (5 for 2; here 3 for 2).
MainWorker == {w1, w2, w3}
MainChunks == <<2, 2>>
DownloadsSpec == /\ program = "DownloadManager" /\ Init /\ [][Next]_vars
                 /\ WF_fileVars(Files!AddFile) /\ WF_fileVars(Files!StopNotify)
                 /\ \A w \in Worker : WF_fileVars(Files!WorkerStep(w))
----------------------------------------------------------------------------
\* Every file main has added is completed unless the manager is stopped first.
FilesComplete == Files!FilesComplete
=============================================================================
