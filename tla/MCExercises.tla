----------------------------- MODULE MCExercises ----------------------------
(***************************************************************************)
(* 5 elements for 3 threads; two producers and two consumers on a ring of two     *)
(* places, and on a priority queue; transfers between three accounts; setters and  *)
(* getters of a cache; sessions of four lines; two clients of an echo server; a    *)
(* client that types three lines; sources of two and three messages; two          *)
(* coroutines; a group of two students, of which at most five are ever made;       *)
(* tables of grades; two threads and main that log.                            *)
(***************************************************************************)
EXTENDS Exercises

CONSTANTS p1, p2, c1, c2
MCProducer == {p1, p2}
MCConsumer == {c1, c2}
MCPushes == <<<<1, 10>>, <<5, 100>>>>
MCInitialBalance == <<10, 5, 0>>
Paying(f, t, n) == [from |-> f, to |-> t, amount |-> n]
PlanOfMain == <<Paying(1, 2, 3), Paying(2, 3, 2), Paying(1, 3, 2)>>
MCPlans == {PlanOfMain, <<Paying(1, 2, 1), Paying(2, 3, 5), Paying(3, 1, 2)>>,
            <<Paying(1, 3, 7), Paying(3, 1, 1), Paying(1, 3, 6), Paying(2, 2, 1)>>,
            <<Paying(2, 2, 1), Paying(1, 2, -1)>>}
MCSets == <<<<<<"key1", 100>>, <<"key2", 200>>>>, <<<<"key3", 300>>, <<"key1", 400>>>>>>
MCGets == <<"key1", "key2", "key1">>
MCConversations == {<<"wait", "number", "wait", "text">>, <<"text", "number", "number", "numbers">>,
                    <<"wait", "wait", "wait">>, <<"number", "empty", "text">>}
MCMessageCount == <<3, 2>>
MCPreset == <<<<"ivan", 4>>, <<"anna", 5>>>>
MCNewcomers == {<<"ivan", 2>>, <<"petr", 4>>}
MCTables == {<<>>, <<<<5, 4>>, <<3, 2>>>>, <<<<1, 2, 3>>, <<4, 5, 1>>, <<2, 3, 4>>>>,
             <<<<5>>, <<4, 3>>, <<2>>>>, <<<<5, 4, 3>>, <<2>>>>, <<<<5, 4>>, <<3>>, <<2, 1, 5>>>>}

\* One program alone: the bank with transfers of main's kind (upwards, and the money is
\* there), and the account of the coroutines.
BankSpec == /\ plan = PlanOfMain /\ program = "Bank" /\ Init /\ [][Next]_vars
            /\ WF_bankVars(Banking!PrintTotal)
            /\ WF_bankVars(\E t \in Banking!Client : Banking!TransferStep(t))
AccountSpec == program = "CoroutineBank" /\ Init /\ [][Next]_vars /\ WF_accountVars(Account!Next)
----------------------------------------------------------------------------
\* Every transfer ends and main prints the final total.
TransfersComplete == <>(bankMain = "printed")

\* main compares the balance with the one it expects.
BalanceCompared == <>(asking = "compared")
=============================================================================
