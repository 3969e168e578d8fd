-------------------------------- MODULE Bank --------------------------------
(***************************************************************************)
(* Seminar4/task2.cpp: threads transfer money between accounts.  A transfer     *)
(* locks both accounts in the order of their numbers, waits until the source    *)
(* can pay, and calls deposit, which locks the destination again: a thread      *)
(* that locks a std::mutex it holds has no defined behaviour; builds hang or     *)
(* throw, which ends the program.                                           *)
(***************************************************************************)
EXTENDS Integers, Sequences, Functions, FiniteSetsExt

CONSTANTS InitialBalance,  \* a sequence: the accounts' balances
          Plans            \* what the threads may do: sequences of transfers

Account == DOMAIN InitialBalance
Transfer == [from : Account, to : Account, amount : Int]
BankAssumption == InitialBalance \in Seq(Nat) /\ Plans \subseteq Seq(Transfer)

VARIABLES plan,      \* plan[t]: the transfer of thread t
          balance,
          owner,     \* owner[a]: the thread that holds the mutex of account a, or 0
          stand,     \* stand[t]: where thread t is
          completed_transfers,
          bankMain   \* where main is

bankVars == <<plan, balance, owner, stand, completed_transfers, bankMain>>
Client == DOMAIN plan

Init == /\ plan \in Plans
        /\ balance = InitialBalance
        /\ owner = [a \in Account |-> 0]
        /\ stand = [t \in Client |-> "begin"]
        /\ completed_transfers = 0
        /\ bankMain = "join"
----------------------------------------------------------------------------
from(t) == plan[t].from
to(t) == plan[t].to
amount(t) == plan[t].amount
Goto(t, label) == stand' = [stand EXCEPT ![t] = label]
Running == bankMain # "terminated"

Refuse(t) == /\ stand[t] = "begin" /\ (from(t) = to(t) \/ amount(t) < 0)
             /\ Goto(t, "print")
             /\ UNCHANGED <<plan, balance, owner, completed_transfers, bankMain>>

Accept(t) == /\ stand[t] = "begin" /\ from(t) # to(t) /\ amount(t) >= 0
             /\ Goto(t, "lock1")
             /\ UNCHANGED <<plan, balance, owner, completed_transfers, bankMain>>

Lock(t, a, label) == /\ owner[a] = 0
                     /\ owner' = [owner EXCEPT ![a] = t]
                     /\ Goto(t, label)
                     /\ UNCHANGED <<plan, balance, completed_transfers, bankMain>>

\* Mutated form: the source is always locked first.
MutLockFirst(t) == stand[t] = "lock1" /\ Lock(t, from(t), "lock2")

LockFirst(t) == stand[t] = "lock1" /\ Lock(t, Min({from(t), to(t)}), "lock2")

LockSecond(t) == stand[t] = "lock2" /\ Lock(t, Max({from(t), to(t)}), "test")

\* cv.wait releases the mutex of the source, and keeps that of the destination.
Wait(t) == /\ stand[t] = "test" /\ balance[from(t)] < amount(t)
           /\ owner' = [owner EXCEPT ![from(t)] = 0]
           /\ Goto(t, "asleep")
           /\ UNCHANGED <<plan, balance, completed_transfers, bankMain>>

\* A spurious wake-up, the only one there can be: the wait locks the source again.
WakeUp(t) == stand[t] = "asleep" /\ Lock(t, from(t), "test")

\* Mutated form: money is withdrawn that is not there.
MutWithdraw(t) == /\ stand[t] = "test"
                  /\ balance' = [balance EXCEPT ![from(t)] = @ - amount(t)]
                  /\ Goto(t, "deposit")
                  /\ UNCHANGED <<plan, owner, completed_transfers, bankMain>>

Withdraw(t) == /\ stand[t] = "test" /\ balance[from(t)] >= amount(t)
               /\ balance' = [balance EXCEPT ![from(t)] = @ - amount(t)]
               /\ Goto(t, "deposit")
               /\ UNCHANGED <<plan, owner, completed_transfers, bankMain>>

\* deposit locks a mutex the thread holds.
Deposit(t) == /\ stand[t] = "deposit" /\ owner[to(t)] = t
              /\ \/ bankMain' = "terminated" /\ UNCHANGED stand
                 \/ Goto(t, "hung") /\ UNCHANGED bankMain
              /\ UNCHANGED <<plan, balance, owner, completed_transfers>>

PrintResult(t) == /\ stand[t] = "print"
                  /\ completed_transfers' = completed_transfers + 1
                  /\ Goto(t, "ended")
                  /\ UNCHANGED <<plan, balance, owner, bankMain>>

\* main joins its threads and prints the final total.
PrintTotal == /\ bankMain = "join" /\ \A t \in Client : stand[t] = "ended"
              /\ bankMain' = "printed"
              /\ UNCHANGED <<plan, balance, owner, stand, completed_transfers>>

TransferStep(t) == /\ Running
                   /\ \/ Refuse(t) \/ Accept(t) \/ LockFirst(t) \/ LockSecond(t)
                      \/ Wait(t) \/ Withdraw(t) \/ Deposit(t) \/ PrintResult(t)

Next == PrintTotal \/ \E t \in Client : TransferStep(t) \/ (Running /\ WakeUp(t))

Fairness == /\ WF_bankVars(PrintTotal)
            /\ WF_bankVars(\E t \in Client : TransferStep(t))

Spec == Init /\ [][Next]_bankVars /\ Fairness
----------------------------------------------------------------------------
\* The account that a thread on its way into both is about to lock.
Wanted(t) == CASE stand[t] = "lock1" -> {Min({from(t), to(t)})}
               [] stand[t] = "lock2" -> {Max({from(t), to(t)})}
               [] OTHER -> {}
Blocks(t, u) == \E a \in Wanted(u) : owner[a] = t

\* Two threads on their way into the accounts never wait for each other; and what
\* has left an account is in the hands of a thread that cannot deposit it, so no
\* balance is overdrawn and no money is lost.  (A sleeper may close a circle: it
\* keeps the destination and locks the source again, in either order.)
BankConsistent ==
  /\ \A t, u \in Client : ~(Blocks(t, u) /\ Blocks(u, t))
  /\ \A a \in Account : balance[a] >= 0
  /\ SumFunction(balance)
       + MapThenSumSet(amount, {t \in Client : stand[t] \in {"deposit", "hung"}})
         = SumFunction(InitialBalance)

\* Every transfer ends and main prints the final total.
TransfersComplete == <>(bankMain = "printed")
=============================================================================
