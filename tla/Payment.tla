------------------------------ MODULE Payment ------------------------------
(***************************************************************************)
(* Idempotent charging: services/payment_service.py over the cache wrapper *)
(* cache/redis_cache.py and the tables customer_accounts and charges of    *)
(* db/models.py.                                                           *)
(*                                                                         *)
(* A request is one HTTP call; a client's retry is another request with    *)
(* the same key. Each action is the code between two awaits that other     *)
(* requests can observe. The database runs at READ COMMITTED: an UPDATE    *)
(* takes the row lock and sees the last committed row; the rest of the     *)
(* transaction becomes visible at commit.                                  *)
(***************************************************************************)
EXTENDS Integers, FiniteSets

CONSTANTS
  Requests,            \* HTTP calls
  Keys,                \* values of the Idempotency-Key header
  Customers,           \* customer ids a client may name
  Accounts,            \* those that own a customer_accounts row
  Amounts,             \* amounts a client may ask for
  InitialBalance,      \* account -> opening balance
  Backends,            \* what the settings may name: "redis", "memory" or "none"
  Routes,              \* subset of {"charge", "buggy"}: POST /payments, /payments/buggy
  HandlersOutliveTTL,  \* may a handler still run when its record's 60 s are over?
  Faults,              \* may calls to the cache or the database fail, and workers die?
  None

ASSUME BackendsAssumption == Backends \subseteq {"redis", "memory", "none"}
ASSUME RoutesAssumption == Routes \subseteq {"charge", "buggy"}
ASSUME AmountsAssumption == Amounts \subseteq Nat \ {0}
ASSUME AccountsAssumption ==
  /\ Accounts \subseteq Customers
  /\ InitialBalance \in [Accounts -> Nat]
ASSUME SwitchAssumption == HandlersOutliveTTL \in BOOLEAN /\ Faults \in BOOLEAN

VARIABLES
  backend,   \* the store behind the cache: fixed when the program starts
  pc,        \* where each request's handler is
  req,       \* what each request asks for
  cache,     \* idempotency key -> record, or None
  balance,   \* account -> committed balance
  lockedBy,  \* account -> the request whose transaction holds the row, or None
  charges,   \* committed rows of charges
  seen,      \* the balance a /buggy handler read before it slept
  reply      \* the answer a handler has settled on; sent when pc is "done"

vars == <<backend, pc, req, cache, balance, lockedBy, charges, seen, reply>>

Inputs == [route : Routes, key : Keys, customer : Customers, amount : Amounts]
Statuses == {"SUCCEEDED", "FAILED"}
ChargeRows ==
  [id : Requests, key : Keys, customer : Accounts, amount : Amounts, status : Statuses]
Fingerprints == [customer : Customers, amount : Amounts]
Records ==
  [status : {"PROCESSING", "COMPLETED"}, fingerprint : Fingerprints,
   response : ChargeRows \cup {None}]
ReplyKinds ==
  {"none", "created", "replayed", "in_flight", "mismatch", "vanished",
   "already_charged", "not_found", "error", "lost"}
Replies == [kind : ReplyKinds, charge : ChargeRows \cup {None}]

ASSUME NoneAssumption == None \notin Requests \cup Records

\* The handler holds the idempotency key from here on, until it answers.
Executing == {"charging", "debited", "declining", "charged", "releasing"}
Running == Executing \cup {"existing", "reading", "sleeping"}

Fingerprint(r) == [customer |-> req[r].customer, amount |-> req[r].amount]

Row(r, status) ==
  [id |-> r, key |-> req[r].key, customer |-> req[r].customer,
   amount |-> req[r].amount, status |-> status]

Answer(r, kind, charge) ==
  /\ pc' = [pc EXCEPT ![r] = "done"]
  /\ reply' = [reply EXCEPT ![r] = [kind |-> kind, charge |-> charge]]

Goto(r, label) ==
  /\ pc' = [pc EXCEPT ![r] = label]
  /\ UNCHANGED reply

\* An exception leaves charge_account: the key is released before it goes out.
Raise(r, kind) ==
  /\ pc' = [pc EXCEPT ![r] = "releasing"]
  /\ reply' = [reply EXCEPT ![r] = [kind |-> kind, charge |-> None]]

\* charge_account returns its row.
Charged(r, status) ==
  /\ pc' = [pc EXCEPT ![r] = "charged"]
  /\ reply' = [reply EXCEPT ![r] = [kind |-> "created", charge |-> Row(r, status)]]

SucceededWith(k) == {c \in charges : c.key = k /\ c.status = "SUCCEEDED"}

\* The partial unique index uq_charges_idempotency_key_succeeded lets the row in.
UniqueIndexAllows(k) == SucceededWith(k) = {}

Unlocked(c) == c \in Accounts => lockedBy[c] = None

\* Mutant: the transaction is left open and keeps its row lock.
LeaveRowLocked(r) == UNCHANGED lockedBy

\* The transaction ends, committed or rolled back.
ReleaseRow(r) ==
  lockedBy' = [c \in Accounts |-> IF lockedBy[c] = r THEN None ELSE lockedBy[c]]

---------------------------------------------------------------------------
(* The idempotency layer.                                                  *)

\* Mutant: the record is written with a plain SET, which never refuses.
SetWithoutNX(k) == backend # "none"

\* SET NX succeeds: the key is absent and there is a store to put it in.
SetnxSucceeds(k) == backend # "none" /\ cache[k] = None

Acquire(r, in) ==
  /\ pc[r] = "idle"
  /\ in.route = "charge"
  /\ req' = [req EXCEPT ![r] = in]
  /\ IF SetnxSucceeds(in.key)
       THEN /\ cache' = [cache EXCEPT ![in.key] =
                 [status |-> "PROCESSING", response |-> None,
                  fingerprint |-> [customer |-> in.customer, amount |-> in.amount]]]
            /\ Goto(r, "charging")
       ELSE /\ Goto(r, "existing")
            /\ UNCHANGED cache
  /\ UNCHANGED <<backend, balance, lockedBy, charges, seen>>

\* The record was JSON-encoded twice. Redis's get decodes once and json.loads
\* again; the in-memory get decodes nothing, so json.loads yields a string and
\* its .get raises.
Unreadable(record) == backend = "memory" /\ record.status = "PROCESSING"

\* Mutant: the stored fingerprint is not compared.
FingerprintIgnored(r, record) == TRUE

FingerprintMatches(r, record) == record.fingerprint = Fingerprint(r)

\* _handle_existing: one get of the record, which may be gone by now.
HandleExisting(r) ==
  LET record == cache[req[r].key] IN
  /\ pc[r] = "existing"
  /\ \/ /\ record = None
        /\ Answer(r, "vanished", None)
     \/ /\ record # None
        /\ Unreadable(record)
        /\ Answer(r, "error", None)
     \/ /\ record # None
        /\ ~Unreadable(record)
        /\ ~FingerprintMatches(r, record)
        /\ Answer(r, "mismatch", None)
     \/ /\ record # None
        /\ ~Unreadable(record)
        /\ FingerprintMatches(r, record)
        /\ IF record.status = "PROCESSING"
             THEN Answer(r, "in_flight", None)
             ELSE Answer(r, "replayed", record.response)
  /\ UNCHANGED <<backend, req, cache, balance, lockedBy, charges, seen>>

---------------------------------------------------------------------------
(* charge_account, one transaction: debit, then insert the charge.         *)

\* ck_customer_accounts_balance_non_negative accepts the debited row.
BalanceCheckAllows(c, a) == balance[c] >= a

\* The UPDATE waits for the row lock; the CHECK fires inside it.
Debit(r) ==
  LET c == req[r].customer IN
  /\ pc[r] = "charging"
  /\ Unlocked(c)
  /\ \/ /\ c \notin Accounts
        /\ Raise(r, "not_found")
        /\ UNCHANGED lockedBy
     \/ /\ c \in Accounts
        /\ ~BalanceCheckAllows(c, req[r].amount)
        /\ Goto(r, "declining")
        /\ UNCHANGED lockedBy
     \/ /\ c \in Accounts
        /\ BalanceCheckAllows(c, req[r].amount)
        /\ lockedBy' = [lockedBy EXCEPT ![c] = r]
        /\ Goto(r, "debited")
  /\ UNCHANGED <<backend, req, cache, balance, charges, seen>>

\* Mutant: the debit is committed, the charge row is not inserted.
CommitDebitOnly(r) ==
  /\ balance' = [balance EXCEPT ![req[r].customer] = @ - req[r].amount]
  /\ UNCHANGED charges

CommitCharge(r) ==
  /\ balance' = [balance EXCEPT ![req[r].customer] = @ - req[r].amount]
  /\ charges' = charges \cup {Row(r, "SUCCEEDED")}

\* The flush at the end of the block inserts the row, then the block commits;
\* a duplicate success makes it roll back. The commit may succeed without the
\* handler hearing of it (a fault), which it takes for a failure.
Commit(r) ==
  /\ pc[r] = "debited"
  /\ ReleaseRow(r)
  /\ \/ /\ UniqueIndexAllows(req[r].key)
        /\ CommitCharge(r)
        /\ \/ Charged(r, "SUCCEEDED")
           \/ Faults /\ Raise(r, "error")
     \/ /\ ~UniqueIndexAllows(req[r].key)
        /\ Raise(r, "already_charged")
        /\ UNCHANGED <<balance, charges>>
  /\ UNCHANGED <<backend, req, cache, seen>>

\* The rolled-back charge is added again as FAILED and returned as the response.
Decline(r) ==
  /\ pc[r] = "declining"
  /\ charges' = charges \cup {Row(r, "FAILED")}
  /\ \/ Charged(r, "FAILED")
     \/ Faults /\ Raise(r, "error")
  /\ UNCHANGED <<backend, req, cache, balance, lockedBy, seen>>

\* cache.delete(cache_key): whatever record is there now.
DeleteKey(r) == cache' = [cache EXCEPT ![req[r].key] = None]

Release(r) ==
  /\ pc[r] = "releasing"
  /\ DeleteKey(r)
  /\ Goto(r, "done")
  /\ UNCHANGED <<backend, req, balance, lockedBy, charges, seen>>

\* cache.set of the COMPLETED record: unconditional as well.
StoreCompleted(r) ==
  cache' = [cache EXCEPT ![req[r].key] =
    [status |-> "COMPLETED", fingerprint |-> Fingerprint(r), response |-> reply[r].charge]]

Complete(r) ==
  /\ pc[r] = "charged"
  /\ StoreCompleted(r)
  /\ Goto(r, "done")
  /\ UNCHANGED <<backend, req, balance, lockedBy, charges, seen>>

---------------------------------------------------------------------------
(* charge_count_with_replay_bug: no idempotency layer, a plain SELECT, and *)
(* a write-back of the balance it read.                                    *)

BuggyReceive(r, in) ==
  /\ pc[r] = "idle"
  /\ in.route = "buggy"
  /\ req' = [req EXCEPT ![r] = in]
  /\ Goto(r, "reading")
  /\ UNCHANGED <<backend, cache, balance, lockedBy, charges, seen>>

\* A short balance is answered at once with a committed FAILED row.
BuggyRead(r) ==
  LET c == req[r].customer IN
  /\ pc[r] = "reading"
  /\ \/ /\ c \notin Accounts
        /\ Answer(r, "not_found", None)
        /\ UNCHANGED <<charges, seen>>
     \/ /\ c \in Accounts
        /\ balance[c] < req[r].amount
        /\ charges' = charges \cup {Row(r, "FAILED")}
        /\ \/ Answer(r, "created", Row(r, "FAILED"))
           \/ Faults /\ Answer(r, "error", None)
        /\ UNCHANGED seen
     \/ /\ c \in Accounts
        /\ balance[c] >= req[r].amount
        /\ seen' = [seen EXCEPT ![r] = balance[c]]
        /\ Goto(r, "sleeping")
        /\ UNCHANGED charges
  /\ UNCHANGED <<backend, req, cache, balance, lockedBy>>

\* The commit flushes UPDATE balance = seen - amount, then the INSERT.
BuggyWrite(r) ==
  LET c == req[r].customer IN
  /\ pc[r] = "sleeping"
  /\ Unlocked(c)
  /\ \/ /\ UniqueIndexAllows(req[r].key)
        /\ balance' = [balance EXCEPT ![c] = seen[r] - req[r].amount]
        /\ charges' = charges \cup {Row(r, "SUCCEEDED")}
        /\ \/ Answer(r, "created", Row(r, "SUCCEEDED"))
           \/ Faults /\ Answer(r, "error", None)
     \/ /\ ~UniqueIndexAllows(req[r].key)
        /\ Answer(r, "error", None)
        /\ UNCHANGED <<balance, charges>>
  /\ UNCHANGED <<backend, req, cache, lockedBy, seen>>

---------------------------------------------------------------------------
(* Time and failure.                                                       *)

\* Mutant: the PROCESSING record is written without a TTL.
NoTTLOnProcessing(k) == cache[k] # None /\ cache[k].status = "COMPLETED"

\* Every record carries a TTL of 60 s. A handler takes 2 s plus what it waits
\* for the row and the stores; HandlersOutliveTTL says whether that may exceed
\* the TTL.
MayExpire(k) ==
  /\ cache[k] # None
  /\ \/ HandlersOutliveTTL
     \/ \A r \in Requests : pc[r] \in Executing => req[r].key # k

Expire(k) ==
  /\ MayExpire(k)
  /\ cache' = [cache EXCEPT ![k] = None]
  /\ UNCHANGED <<backend, pc, req, balance, lockedBy, charges, seen, reply>>

\* The worker dies or the handler is cancelled: its transaction rolls back, its
\* record stays. Neither is an Exception, so nothing releases the key.
Crash(r) ==
  /\ Faults
  /\ pc[r] \in Running
  /\ Answer(r, "lost", None)
  /\ ReleaseRow(r)
  /\ UNCHANGED <<backend, req, cache, balance, charges, seen>>

\* A database call raises and its transaction rolls back.
DatabaseFails(r) ==
  /\ Faults
  /\ ReleaseRow(r)
  /\ \/ /\ pc[r] \in {"charging", "debited", "declining"}
        /\ Raise(r, "error")
     \/ /\ pc[r] \in {"reading", "sleeping"}
        /\ Answer(r, "error", None)
  /\ UNCHANGED <<backend, req, cache, balance, charges, seen>>

\* A Redis call raises out of the handler, with or without having taken effect.
\* No handler of the exception releases the key.
CacheFails(r) ==
  /\ Faults
  /\ backend = "redis"
  /\ Answer(r, "error", None)
  /\ \/ pc[r] = "existing" /\ UNCHANGED cache
     \/ pc[r] = "releasing" /\ (DeleteKey(r) \/ UNCHANGED cache)
     \/ pc[r] = "charged" /\ (StoreCompleted(r) \/ UNCHANGED cache)
  /\ UNCHANGED <<backend, req, balance, lockedBy, charges, seen>>

\* SET NX took effect but its answer never came back: nobody holds the record.
AcquireFails(r, in) ==
  /\ Faults
  /\ backend = "redis"
  /\ pc[r] = "idle"
  /\ in.route = "charge"
  /\ SetnxSucceeds(in.key)
  /\ req' = [req EXCEPT ![r] = in]
  /\ cache' = [cache EXCEPT ![in.key] =
       [status |-> "PROCESSING", response |-> None,
        fingerprint |-> [customer |-> in.customer, amount |-> in.amount]]]
  /\ Answer(r, "error", None)
  /\ UNCHANGED <<backend, balance, lockedBy, charges, seen>>

\* The only process restarts: the in-memory store goes with it.
Restart ==
  /\ Faults
  /\ backend = "memory"
  /\ \E r \in Requests : pc[r] \in Running
  /\ pc' = [r \in Requests |-> IF pc[r] \in Running THEN "done" ELSE pc[r]]
  /\ reply' = [r \in Requests |-> IF pc[r] \in Running
                  THEN [kind |-> "lost", charge |-> None] ELSE reply[r]]
  /\ cache' = [k \in Keys |-> None]
  /\ lockedBy' = [c \in Accounts |-> None]
  /\ UNCHANGED <<backend, req, balance, charges, seen>>

---------------------------------------------------------------------------
Init ==
  /\ backend \in Backends
  /\ pc = [r \in Requests |-> "idle"]
  /\ req = [r \in Requests |-> None]
  /\ cache = [k \in Keys |-> None]
  /\ balance = InitialBalance
  /\ lockedBy = [c \in Accounts |-> None]
  /\ charges = {}
  /\ seen = [r \in Requests |-> 0]
  /\ reply = [r \in Requests |-> [kind |-> "none", charge |-> None]]

Receive(r) == \E in \in Inputs : Acquire(r, in) \/ BuggyReceive(r, in)

Step(r) ==
  \/ HandleExisting(r) \/ Debit(r) \/ Commit(r) \/ Decline(r)
  \/ Release(r) \/ Complete(r) \/ BuggyRead(r) \/ BuggyWrite(r)

Fault(r) ==
  \/ Crash(r) \/ DatabaseFails(r) \/ CacheFails(r)
  \/ \E in \in Inputs : AcquireFails(r, in)

Next ==
  \/ \E r \in Requests : Receive(r) \/ Step(r) \/ Fault(r)
  \/ \E k \in Keys : Expire(k)
  \/ Restart

Spec == Init /\ [][Next]_vars

\* The event loop resumes every handler whose await has finished, the database
\* hands a freed row lock to a waiter, and Redis expires keys. Clients need not
\* call, and nothing need fail.
Fairness ==
  /\ \A r \in Requests : WF_vars(Step(r))
  /\ \A k \in Keys : WF_vars(Expire(k))

FairSpec == Spec /\ Fairness

---------------------------------------------------------------------------
(* Properties.                                                             *)

\* Types; balance \in Nat is the CHECK constraint seen by every committed state.
TypeOK ==
  /\ backend \in Backends
  /\ pc \in [Requests -> {"idle", "done"} \cup Running]
  /\ req \in [Requests -> Inputs \cup {None}]
  /\ \A r \in Requests : pc[r] # "idle" => req[r] \in Inputs
  /\ cache \in [Keys -> Records \cup {None}]
  /\ balance \in [Accounts -> Nat]
  /\ lockedBy \in [Accounts -> Requests \cup {None}]
  /\ charges \subseteq ChargeRows
  /\ seen \in [Requests -> Nat]
  /\ reply \in [Requests -> Replies]

Sent(r, kinds) == pc[r] = "done" /\ reply[r].kind \in kinds

Succeeded == {c \in charges : c.status = "SUCCEEDED"}

\* What the unique index maintains, whatever expired, failed or was retried: one
\* successful payment per idempotency key. ImplementsLedger needs it of every step.
AtMostOneSuccess ==
  \A p, q \in Succeeded : p.key = q.key => p = q

\* Row p is committed and is about key k and the payload with fingerprint f.
CommittedFor(p, k, f) ==
  /\ p \in charges
  /\ p.key = k
  /\ p.customer = f.customer
  /\ p.amount = f.amount

\* A client that got a charge back, first-hand or replayed, got a committed row
\* that is about its own key, customer and amount.
RepliesBacked ==
  \A r \in Requests : Sent(r, {"created", "replayed"}) =>
    CommittedFor(reply[r].charge, req[r].key, Fingerprint(r))

\* "The first request performs the side effect": while records outlive their
\* handlers, no two handlers execute under one key, and a handler about to
\* overwrite or delete a record finds its own PROCESSING record there.
SingleExecutor ==
  \A r \in Requests : pc[r] \in Executing =>
    /\ cache[req[r].key] # None
    /\ cache[req[r].key].status = "PROCESSING"
    /\ cache[req[r].key].fingerprint = Fingerprint(r)
    /\ \A q \in Requests : pc[q] \in Executing /\ req[q].key = req[r].key => q = r

\* A transaction that has debited holds the row, which still covers the debit;
\* one that will decline, or write back a balance it read, has an account.
TransactionsCovered ==
  \A r \in Requests :
    /\ pc[r] = "debited" =>
         /\ req[r].customer \in Accounts
         /\ lockedBy[req[r].customer] = r
         /\ balance[req[r].customer] >= req[r].amount
    /\ pc[r] \in {"declining", "sleeping"} => req[r].customer \in Accounts
    /\ pc[r] = "sleeping" => seen[r] >= req[r].amount

\* An answer a handler has settled on, and a record it may be replayed from,
\* are about a committed row.
AnswersBacked ==
  /\ \A r \in Requests :
       /\ pc[r] = "charged" => reply[r].kind = "created"
       /\ reply[r].kind \in {"created", "replayed"} =>
            /\ pc[r] # "idle"
            /\ CommittedFor(reply[r].charge, req[r].key, Fingerprint(r))
  /\ \A k \in Keys : cache[k] # None /\ cache[k].status = "COMPLETED" =>
       CommittedFor(cache[k].response, k, cache[k].fingerprint)

\* The inductive invariant behind TypeOK, AtMostOneSuccess and RepliesBacked.
IInv == TypeOK /\ TransactionsCovered /\ AnswersBacked /\ AtMostOneSuccess

\* Every accepted call is answered, whoever holds the row it needs.
EveryCallAnswered ==
  \A r \in Requests : pc[r] \in Running ~> pc[r] = "done"

\* A key whose owner died with the record still PROCESSING becomes usable again.
StuckKeyFreed ==
  \A k \in Keys :
    (cache[k] # None /\ cache[k].status = "PROCESSING")
      ~> (cache[k] = None \/ cache[k].status = "COMPLETED")

\* Charging implements the ledger: every step is one atomic payment or invisible.
TheLedger == INSTANCE Ledger WITH paid <- Succeeded
ImplementsLedger == TheLedger!Spec

===========================================================================
