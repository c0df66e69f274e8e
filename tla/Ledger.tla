------------------------------ MODULE Ledger ------------------------------
(***************************************************************************)
(* What the payment component promises, with none of its machinery: money  *)
(* leaves an account only as a paid charge, a charge is paid in one step   *)
(* together with its debit, no account is overdrawn, and an idempotency    *)
(* key pays for at most one charge, ever.                                  *)
(***************************************************************************)
EXTENDS Integers

CONSTANTS
  Requests,        \* identities a charge may get
  Keys,            \* idempotency keys
  Accounts,        \* customers that own an account row
  Amounts,         \* amounts a client may ask for
  InitialBalance   \* opening balance of every account

VARIABLES
  balance,         \* account -> minor units left
  paid             \* the charges that moved money

ledgerVars == <<balance, paid>>

Init ==
  /\ balance = InitialBalance
  /\ paid = {}

Pay(id, k, c, a) ==
  /\ \A p \in paid : p.key # k
  /\ balance[c] >= a
  /\ balance' = [balance EXCEPT ![c] = @ - a]
  /\ paid' = paid \cup
       {[id |-> id, key |-> k, customer |-> c, amount |-> a, status |-> "SUCCEEDED"]}

Next ==
  \E id \in Requests, k \in Keys, c \in Accounts, a \in Amounts : Pay(id, k, c, a)

Spec == Init /\ [][Next]_ledgerVars
===========================================================================
