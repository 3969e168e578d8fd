---------------------------- MODULE CoroutineBank ----------------------------
(***************************************************************************)
(* CoroutinesTasks/task3.cpp: coroutines deposit to and withdraw from an account *)
(* whose operations hop to a strand, and a pool of threads runs them.  The pool  *)
(* ends when the io_context has no work left.  main then asks for the balance    *)
(* from a second io_context: the question hops to the strand of the first, which  *)
(* nobody runs any more, while the second waits for the answer.              *)
(***************************************************************************)
EXTENDS Integers, Sequences, FiniteSets, FiniteSetsExt

CONSTANTS Clients,  \* N_CLIENTS
          Ops,      \* N_OPS: deposits, and then as many withdrawals
          Amounts   \* the sums one operation may have

AccountAssumption == /\ Clients \in Nat /\ Ops \in Nat
                     /\ Amounts \subseteq Nat \ {0}

Coroutine == 1..Clients
Main == 0  \* who asks for the balance in the end

VARIABLES strand,      \* operations posted to strand_: <<who, amount>>, in order
          balance_,
          opsDone,     \* opsDone[c]: the operations c has ended
          phase,       \* phase[c]: where c is
          deposited, withdrawn,  \* deposited[c], withdrawn[c]: c's own sums
          total_deposited, total_withdrawn,
          pool,        \* the threads of the pool run
          asking,      \* where main is
          real_balance

accountVars == <<strand, balance_, opsDone, phase, deposited, withdrawn, total_deposited,
                 total_withdrawn, pool, asking, real_balance>>

Init == /\ strand = <<>> /\ balance_ = 0
        /\ opsDone = [c \in Coroutine |-> 0]
        /\ phase = [c \in Coroutine |-> "operate"]
        /\ deposited = opsDone /\ withdrawn = opsDone
        /\ total_deposited = 0 /\ total_withdrawn = 0
        /\ pool = TRUE /\ asking = "join" /\ real_balance = 0
----------------------------------------------------------------------------
\* The coroutine draws a sum and suspends itself until the strand runs it.
PostOperation(c) == /\ phase[c] = "operate" /\ opsDone[c] < 2 * Ops
                    /\ \E amount \in Amounts : strand' = Append(strand, <<c, amount>>)
                    /\ phase' = [phase EXCEPT ![c] = "suspended"]
                    /\ UNCHANGED <<balance_, opsDone, deposited, withdrawn, total_deposited,
                                   total_withdrawn, pool, asking, real_balance>>

IsDeposit(c) == opsDone[c] < Ops

Deposit(c, amount) == /\ balance_' = balance_ + amount
                      /\ deposited' = [deposited EXCEPT ![c] = @ + amount]
                      /\ UNCHANGED withdrawn

\* Mutated form: the sum counts as withdrawn although the account lacks it.
MutWithdraw(c, amount) == /\ balance_' = IF amount > balance_ THEN balance_
                                         ELSE balance_ - amount
                          /\ withdrawn' = [withdrawn EXCEPT ![c] = @ + amount]
                          /\ UNCHANGED deposited

\* A sum the account lacks is an exception, which the coroutine catches.
Withdraw(c, amount) == /\ IF amount > balance_ THEN UNCHANGED <<balance_, withdrawn>>
                          ELSE /\ balance_' = balance_ - amount
                               /\ withdrawn' = [withdrawn EXCEPT ![c] = @ + amount]
                       /\ UNCHANGED deposited

Operate(c, amount) == /\ IF IsDeposit(c) THEN Deposit(c, amount) ELSE Withdraw(c, amount)
                      /\ opsDone' = [opsDone EXCEPT ![c] = @ + 1]
                      /\ phase' = [phase EXCEPT ![c] = "operate"]
                      /\ UNCHANGED <<asking, real_balance>>

\* The balance is returned to main, which compares it with what it expects.
Answer == /\ real_balance' = balance_
          /\ asking' = "compared"
          /\ UNCHANGED <<balance_, opsDone, phase, deposited, withdrawn>>

\* A thread of the pool runs the next operation on the strand; what follows it up to
\* the next suspension of who asked for it is part of it.
RunStrand == /\ pool /\ strand # <<>>
             /\ LET who == Head(strand)[1]
                IN  IF who = Main THEN Answer ELSE Operate(who, Head(strand)[2])
             /\ strand' = Tail(strand)
             /\ UNCHANGED <<total_deposited, total_withdrawn, pool>>

\* The coroutine adds its sums to the totals, one after the other, and ends.
AddDeposits(c) == /\ phase[c] = "operate" /\ opsDone[c] = 2 * Ops
                  /\ total_deposited' = total_deposited + deposited[c]
                  /\ phase' = [phase EXCEPT ![c] = "addWithdrawals"]
                  /\ UNCHANGED <<strand, balance_, opsDone, deposited, withdrawn,
                                 total_withdrawn, pool, asking, real_balance>>

AddWithdrawals(c) == /\ phase[c] = "addWithdrawals"
                     /\ total_withdrawn' = total_withdrawn + withdrawn[c]
                     /\ phase' = [phase EXCEPT ![c] = "done"]
                     /\ UNCHANGED <<strand, balance_, opsDone, deposited, withdrawn,
                                    total_deposited, pool, asking, real_balance>>

\* The io_context has no work left: run() returns in every thread of the pool.
PoolEnds == /\ pool /\ strand = <<>> /\ \A c \in Coroutine : phase[c] = "done"
            /\ pool' = FALSE
            /\ UNCHANGED <<strand, balance_, opsDone, phase, deposited, withdrawn,
                           total_deposited, total_withdrawn, asking, real_balance>>

\* main has joined the pool, prints the totals and asks for the balance.
Ask == /\ ~pool /\ asking = "join"
       /\ strand' = Append(strand, <<Main, 0>>)
       /\ asking' = "asked"
       /\ UNCHANGED <<balance_, opsDone, phase, deposited, withdrawn, total_deposited,
                      total_withdrawn, pool, real_balance>>

ClientStep(c) == PostOperation(c) \/ AddDeposits(c) \/ AddWithdrawals(c)
Next == \/ RunStrand \/ PoolEnds \/ Ask
        \/ \E c \in Coroutine : ClientStep(c)

Fairness == WF_accountVars(Next)

Spec == Init /\ [][Next]_accountVars /\ Fairness
----------------------------------------------------------------------------
\* The account never owes, holds what the coroutines have put in and not taken out,
\* and, when the pool has ended, what main expects: totals that two threads add to
\* at once lose nothing.
AccountConsistent ==
  /\ balance_ >= 0
  /\ balance_ = MapThenSumSet(LAMBDA c : deposited[c] - withdrawn[c], Coroutine)
  /\ ~pool => balance_ = total_deposited - total_withdrawn

\* main compares the balance with the expected one.
BalanceCompared == <>(asking = "compared")
=============================================================================
