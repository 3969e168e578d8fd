----------------------------- MODULE BlankStore -----------------------------
(***************************************************************************)
(* RK1/task2.cpp: workers take blanks from a store and process them on a few   *)
(* machines; store and machines are counted by semaphores, and the blanks are  *)
(* numbered by an atomic counter, drawn after the permit.  A blank returns to  *)
(* the store when it is done, so the store never empties: a worker ends when   *)
(* it draws a number past the last blank, and gives its permit back.         *)
(***************************************************************************)
EXTENDS Naturals, FiniteSets

CONSTANTS Blanks, BlankMachines, BlankWorkers  \* NUM_BLANKS, NUM_MACHINES, NUM_WORKERS

StoreAssumption == /\ Blanks \in Nat \ {0}
                   /\ BlankMachines \in Nat \ {0}
                   /\ BlankWorkers \in Nat \ {0}

StoreWorker == 1..BlankWorkers

VARIABLES blank_sem, machine_sem,  \* the values of the semaphores
          numbered,  \* processed: the numbers drawn
          step,      \* step[w]: where worker w is
          current,   \* current[w]: the number w has drawn
          finished,  \* the blanks that are done
          allJoined  \* main has joined every worker

storeVars == <<blank_sem, machine_sem, numbered, step, current, finished, allJoined>>

Init == /\ blank_sem = Blanks /\ machine_sem = BlankMachines
        /\ numbered = 0
        /\ step = [w \in StoreWorker |-> "blank_wait"]
        /\ current = [w \in StoreWorker |-> 0]
        /\ finished = {}
        /\ allJoined = FALSE
----------------------------------------------------------------------------
GoOn(w, label) == step' = [step EXCEPT ![w] = label]

TakePermit(w) == /\ step[w] = "blank_wait" /\ blank_sem > 0
                 /\ blank_sem' = blank_sem - 1
                 /\ GoOn(w, "draw")
                 /\ UNCHANGED <<machine_sem, numbered, current, finished, allJoined>>

\* fetch_add, and the test of what it returned.
Draw(w) == /\ step[w] = "draw"
           /\ current' = [current EXCEPT ![w] = numbered]
           /\ numbered' = numbered + 1
           /\ GoOn(w, IF numbered >= Blanks THEN "return_permit" ELSE "machine_wait")
           /\ UNCHANGED <<blank_sem, machine_sem, finished, allJoined>>

\* Mutated form: the worker that draws too high a number keeps its permit.
MutReturnPermit(w) == /\ step[w] = "return_permit"
                      /\ GoOn(w, "ended")
                      /\ UNCHANGED <<blank_sem, machine_sem, numbered, current, finished, allJoined>>

ReturnPermit(w) == /\ step[w] = "return_permit"
                   /\ blank_sem' = blank_sem + 1
                   /\ GoOn(w, "ended")
                   /\ UNCHANGED <<machine_sem, numbered, current, finished, allJoined>>

TakeMachine(w) == /\ step[w] = "machine_wait" /\ machine_sem > 0
                  /\ machine_sem' = machine_sem - 1
                  /\ GoOn(w, "working")
                  /\ UNCHANGED <<blank_sem, numbered, current, finished, allJoined>>

Process(w) == /\ step[w] = "working"
              /\ finished' = finished \cup {current[w]}
              /\ GoOn(w, "machine_post")
              /\ UNCHANGED <<blank_sem, machine_sem, numbered, current, allJoined>>

PostMachine(w) == /\ step[w] = "machine_post"
                  /\ machine_sem' = machine_sem + 1
                  /\ GoOn(w, "blank_post")
                  /\ UNCHANGED <<blank_sem, numbered, current, finished, allJoined>>

PostBlank(w) == /\ step[w] = "blank_post"
                /\ blank_sem' = blank_sem + 1
                /\ GoOn(w, "blank_wait")
                /\ UNCHANGED <<machine_sem, numbered, current, finished, allJoined>>

\* main joins the workers and says that every blank is processed.
JoinAll == /\ ~allJoined /\ \A w \in StoreWorker : step[w] = "ended"
           /\ allJoined' = TRUE
           /\ UNCHANGED <<blank_sem, machine_sem, numbered, step, current, finished>>

BlankStep(w) == \/ TakePermit(w) \/ Draw(w) \/ ReturnPermit(w) \/ TakeMachine(w)
                \/ Process(w) \/ PostMachine(w) \/ PostBlank(w)

Next == JoinAll \/ \E w \in StoreWorker : BlankStep(w)

Fairness == WF_storeVars(JoinAll) /\ \A w \in StoreWorker : WF_storeVars(BlankStep(w))

Spec == Init /\ [][Next]_storeVars /\ Fairness
----------------------------------------------------------------------------
In(labels) == {w \in StoreWorker : step[w] \in labels}
HoldsPermit == In({"draw", "return_permit", "machine_wait", "working", "machine_post",
                   "blank_post"})
HoldsBlank == In({"machine_wait", "working"})

\* A permit of either semaphore is in the store or with one worker.
StorePermits == /\ blank_sem + Cardinality(HoldsPermit) = Blanks
                /\ machine_sem + Cardinality(In({"working", "machine_post"})) = BlankMachines

\* A blank whose number is drawn is done or with one worker, never both and never
\* with two; and a number past the last blank is no blank.
EveryBlankOnce ==
  /\ finished \cup {current[w] : w \in HoldsBlank} = {b \in 0..(Blanks - 1) : b < numbered}
  /\ \A w \in HoldsBlank : current[w] \notin finished
  /\ \A v, w \in HoldsBlank : v # w => current[v] # current[w]

\* Permits and blanks agree, and at the end every blank is processed.
StoreConsistent ==
  /\ StorePermits /\ EveryBlankOnce
  /\ allJoined => finished = 0..(Blanks - 1)
=============================================================================
