----------------------------- MODULE Inventory -----------------------------
(***************************************************************************)
(* Stock reservation: the five strategies of services/inventory_service.py *)
(* and the lock they may take, utils/distributed_lock.py.                  *)
(*                                                                         *)
(* A request is one call of reserve_product. Transactions run at READ      *)
(* COMMITTED: a plain SELECT sees the last committed row; an UPDATE whose  *)
(* WHERE fails on that row touches nothing and waits for nobody; otherwise *)
(* it waits for the row lock, checks the WHERE again on the row then       *)
(* committed, and keeps the lock until its transaction ends.               *)
(***************************************************************************)
EXTENDS Integers, FiniteSets

CONSTANTS
  Requests,           \* calls of POST /inventory/products/{id}/reserve/{strategy}
  Products,           \* product ids a client may name
  Catalogue,          \* those that have a products row
  Quantities,         \* units a client may ask for
  InitialStock,       \* product -> units on the shelf at the start
  Strategies,         \* product -> the strategies clients choose from for it
  MaxAttempts,        \* MAX_OPTIMISTIC_ATTEMPTS, 5 in the code
  HoldersOutliveTTL,  \* may a lock holder still run when its 50 s are over?
  Faults,             \* may store or database calls fail, and workers die?
  None

AllStrategies == {"naive", "optimistic", "pessimistic", "atomic", "locked"}

ASSUME StrategiesAssumption == Strategies \in [Products -> SUBSET AllStrategies]
ASSUME QuantitiesAssumption == Quantities \subseteq Nat \ {0}
ASSUME CatalogueAssumption ==
  /\ Catalogue \subseteq Products
  /\ InitialStock \in [Catalogue -> Nat]
ASSUME AttemptsAssumption == MaxAttempts \in Nat \ {0}
ASSUME SwitchAssumption == HoldersOutliveTTL \in BOOLEAN /\ Faults \in BOOLEAN
ASSUME NoneAssumption == None \notin Requests

VARIABLES
  pc,        \* where each request's handler is
  req,       \* strategy, product and quantity of each request
  attempt,   \* loop variable of the optimistic strategy, counted from 0
  saw,       \* the row each handler last read
  pending,   \* the row version its open transaction will commit
  row,       \* committed products rows: stock and version
  rowLock,   \* product -> the request whose transaction holds the row, or None
  lease,     \* product -> the request whose token is stored in Redis, or None
  reserved,  \* product -> sum of the quantities in product_reservations
  written,   \* request -> product_reservations rows it has committed
  reply      \* the answer a handler has settled on; sent when pc is "done"

vars == <<pc, req, attempt, saw, pending, row, rowLock, lease, reserved, written, reply>>
locals == <<attempt, saw, pending>>
database == <<row, rowLock, reserved, written>>

Inputs ==
  {in \in [strategy : AllStrategies, product : Products, quantity : Quantities] :
     in.strategy \in Strategies[in.product]}
Rows == [stock : Nat, version : Nat]
InTransaction == {"pausing", "updated"}
Active == InTransaction \cup {"locking", "start", "backoff", "releasing"}
Answers ==
  {"none", "reserved", "not_found", "not_enough", "exhausted", "unavailable",
   "error", "lost"}

Strategy(r) == req[r].strategy
Product(r) == req[r].product
Known(r) == Product(r) \in Catalogue
Holds(r) == Known(r) /\ rowLock[Product(r)] = r
RowFree(r) == rowLock[Product(r)] = None

Goto(r, label) ==
  /\ pc' = [pc EXCEPT ![r] = label]
  /\ UNCHANGED reply

\* The handler's result, an exception included, leaves the `async with` of the
\* distributed lock before it reaches the client.
Settle(r, answer) ==
  /\ pc' = [pc EXCEPT ![r] = IF Strategy(r) = "locked" THEN "releasing" ELSE "done"]
  /\ reply' = [reply EXCEPT ![r] = answer]

Drop(r, answer) ==
  /\ pc' = [pc EXCEPT ![r] = "done"]
  /\ reply' = [reply EXCEPT ![r] = answer]

\* Mutant: the transaction is left open.
KeepLocks(r) == UNCHANGED rowLock

\* The transaction ends and frees the row.
Unlock(r) ==
  rowLock' = [p \in Catalogue |-> IF rowLock[p] = r THEN None ELSE rowLock[p]]

----------------------------------------------------------------------------
(* The distributed lock.                                                   *)

Receive(r, in) ==
  /\ pc[r] = "idle"
  /\ req' = [req EXCEPT ![r] = in]
  /\ Goto(r, IF in.strategy = "locked" THEN "locking" ELSE "start")
  /\ UNCHANGED <<locals, database, lease>>

\* Mutant: SET without NX takes the lock from its holder.
LeaseAlwaysFree(p) == TRUE

LeaseFree(p) == lease[p] = None

\* One poll of acquire(): SET NX with the caller's token.
AcquireLease(r) ==
  /\ pc[r] = "locking"
  /\ LeaseFree(Product(r))
  /\ lease' = [lease EXCEPT ![Product(r)] = r]
  /\ Goto(r, "start")
  /\ UNCHANGED <<req, locals, database>>

\* The poll that finds the lock taken after the 5 s deadline is the last one.
LeaseTimeout(r) ==
  /\ pc[r] = "locking"
  /\ ~LeaseFree(Product(r))
  /\ Drop(r, "unavailable")
  /\ UNCHANGED <<req, locals, database, lease>>

\* The release script: compare the token and delete, atomically.
DeleteOwnLease(r) ==
  lease' = [lease EXCEPT ![Product(r)] = IF @ = r THEN None ELSE @]

ReleaseLease(r) ==
  /\ pc[r] = "releasing"
  /\ DeleteOwnLease(r)
  /\ Goto(r, "done")
  /\ UNCHANGED <<req, locals, database>>

InSection(r) == Strategy(r) = "locked" /\ pc[r] \in InTransaction \cup {"start"}

MayExpire(p) ==
  /\ lease[p] # None
  /\ \/ HoldersOutliveTTL
     \/ \A r \in Requests : pc[r] # "idle" /\ lease[p] = r => ~InSection(r)

ExpireLease(p) ==
  /\ MayExpire(p)
  /\ lease' = [lease EXCEPT ![p] = None]
  /\ UNCHANGED <<pc, req, locals, database, reply>>

----------------------------------------------------------------------------
(* Reading the row.                                                        *)

Pause(r) ==
  /\ saw' = [saw EXCEPT ![r] = row[Product(r)]]
  /\ Goto(r, "pausing")

\* naive, optimistic and locked: a plain SELECT, then the pause before the write.
Read(r) ==
  /\ pc[r] = "start"
  /\ Strategy(r) \in {"naive", "optimistic", "locked"}
  /\ \/ /\ ~Known(r)
        /\ Settle(r, "not_found")
        /\ UNCHANGED saw
     \/ /\ Known(r)
        /\ row[Product(r)].stock < req[r].quantity
        /\ Settle(r, "not_enough")
        /\ UNCHANGED saw
     \/ /\ Known(r)
        /\ row[Product(r)].stock >= req[r].quantity
        /\ Pause(r)
  /\ UNCHANGED <<req, attempt, pending, database, lease>>

\* Mutant: the SELECT of the pessimistic strategy loses its FOR UPDATE.
PlainSelect(r) == UNCHANGED rowLock

SelectForUpdate(r) ==
  /\ RowFree(r)
  /\ rowLock' = [rowLock EXCEPT ![Product(r)] = r]

\* pessimistic: wait for the row, keep it through the pause.
ReadForUpdate(r) ==
  /\ pc[r] = "start"
  /\ Strategy(r) = "pessimistic"
  /\ \/ /\ ~Known(r)
        /\ Settle(r, "not_found")
        /\ UNCHANGED <<saw, rowLock>>
     \/ /\ Known(r)
        /\ RowFree(r)
        /\ row[Product(r)].stock < req[r].quantity
        /\ Settle(r, "not_enough")
        /\ UNCHANGED <<saw, rowLock>>
     \/ /\ Known(r)
        /\ row[Product(r)].stock >= req[r].quantity
        /\ SelectForUpdate(r)
        /\ Pause(r)
  /\ UNCHANGED <<req, attempt, pending, row, reserved, written, lease>>

----------------------------------------------------------------------------
(* Writing the row.                                                        *)

\* The UPDATE found its row: it is locked and its new version is pending.
UpdateRow(r, newStock, newVersion) ==
  /\ rowLock' = [rowLock EXCEPT ![Product(r)] = r]
  /\ pending' = [pending EXCEPT ![r] = [stock |-> newStock, version |-> newVersion]]
  /\ Goto(r, "updated")

\* naive, locked and pessimistic write back what they read; only the last owns
\* the row already.
WriteBack(r) ==
  /\ pc[r] = "pausing"
  /\ Strategy(r) # "optimistic"
  /\ RowFree(r) \/ Holds(r)
  /\ UpdateRow(r, saw[r].stock - req[r].quantity, row[Product(r)].version)
  /\ UNCHANGED <<req, attempt, saw, row, reserved, written, lease>>

\* Mutant: the UPDATE does not compare versions.
AnyVersion(r) == TRUE

VersionUnchanged(r) == row[Product(r)].version = saw[r].version

NextVersion(version) == version + 1

\* Mutant: one attempt fewer than announced.
ShouldRetryOneLess(n) == n + 2 < MaxAttempts

ShouldRetry(n) == n + 1 < MaxAttempts

\* optimistic: UPDATE ... WHERE version = v. A miss commits nothing and backs
\* off, or gives up after the last attempt.
CompareAndSet(r) ==
  /\ pc[r] = "pausing"
  /\ Strategy(r) = "optimistic"
  /\ \/ /\ VersionUnchanged(r)
        /\ RowFree(r)
        /\ UpdateRow(r, saw[r].stock - req[r].quantity, NextVersion(saw[r].version))
     \/ /\ ~VersionUnchanged(r)
        /\ IF ShouldRetry(attempt[r]) THEN Goto(r, "backoff") ELSE Settle(r, "exhausted")
        /\ UNCHANGED <<rowLock, pending>>
  /\ UNCHANGED <<req, attempt, saw, row, reserved, written, lease>>

BackOff(r) ==
  /\ pc[r] = "backoff"
  /\ attempt' = [attempt EXCEPT ![r] = @ + 1]
  /\ Goto(r, "start")
  /\ UNCHANGED <<req, saw, pending, database, lease>>

EnoughStock(r) == row[Product(r)].stock >= req[r].quantity

\* atomic: UPDATE ... SET stock = stock - qty WHERE stock >= qty. The existence
\* check before it tests a result object, which is always true, so an unknown
\* product falls through to an UPDATE of no row.
AtomicUpdate(r) ==
  /\ pc[r] = "start"
  /\ Strategy(r) = "atomic"
  /\ \/ /\ Known(r) => ~EnoughStock(r)
        /\ Settle(r, "not_enough")
        /\ UNCHANGED <<rowLock, pending>>
     \/ /\ Known(r)
        /\ EnoughStock(r)
        /\ RowFree(r)
        /\ UpdateRow(r, row[Product(r)].stock - req[r].quantity, row[Product(r)].version)
  /\ UNCHANGED <<req, attempt, saw, row, reserved, written, lease>>

\* Mutant: the reservation row is not part of the transaction.
PublishRowOnly(r) ==
  /\ row' = [row EXCEPT ![Product(r)] = pending[r]]
  /\ UNCHANGED <<reserved, written>>

\* The pending row and the reservation inserted by _record_reservation.
Publish(r) ==
  /\ row' = [row EXCEPT ![Product(r)] = pending[r]]
  /\ reserved' = [reserved EXCEPT ![Product(r)] = @ + req[r].quantity]
  /\ written' = [written EXCEPT ![r] = @ + 1]

\* The end of `async with session.begin()`. A commit that succeeded unheard (a
\* fault) looks like an error to the handler.
Commit(r) ==
  /\ pc[r] = "updated"
  /\ Publish(r)
  /\ Unlock(r)
  /\ \/ Settle(r, "reserved")
     \/ Faults /\ Settle(r, "error")
  /\ UNCHANGED <<req, locals, lease>>

----------------------------------------------------------------------------
(* Failure.                                                                *)

\* The worker dies: its transaction rolls back, its token stays in Redis.
Crash(r) ==
  /\ Faults
  /\ pc[r] \in Active
  /\ Drop(r, "lost")
  /\ Unlock(r)
  /\ UNCHANGED <<req, locals, row, reserved, written, lease>>

\* A database call raises and the transaction rolls back.
DatabaseFails(r) ==
  /\ Faults
  /\ pc[r] \in InTransaction \cup {"start"}
  /\ Settle(r, "error")
  /\ Unlock(r)
  /\ UNCHANGED <<req, locals, row, reserved, written, lease>>

\* A Redis call raises, with or without having taken effect.
RedisFails(r) ==
  /\ Faults
  /\ \/ /\ pc[r] = "locking"
        /\ \/ UNCHANGED lease
           \/ /\ LeaseFree(Product(r))
              /\ lease' = [lease EXCEPT ![Product(r)] = r]
     \/ /\ pc[r] = "releasing"
        /\ UNCHANGED lease \/ DeleteOwnLease(r)
  /\ Drop(r, "error")
  /\ UNCHANGED <<req, locals, database>>

----------------------------------------------------------------------------
Init ==
  /\ pc = [r \in Requests |-> "idle"]
  /\ req = [r \in Requests |-> None]
  /\ attempt = [r \in Requests |-> 0]
  /\ saw = [r \in Requests |-> [stock |-> 0, version |-> 0]]
  /\ pending = [r \in Requests |-> [stock |-> 0, version |-> 0]]
  /\ row = [p \in Catalogue |-> [stock |-> InitialStock[p], version |-> 1]]
  /\ rowLock = [p \in Catalogue |-> None]
  /\ lease = [p \in Products |-> None]
  /\ reserved = [p \in Catalogue |-> 0]
  /\ written = [r \in Requests |-> 0]
  /\ reply = [r \in Requests |-> "none"]

Step(r) ==
  \/ AcquireLease(r) \/ LeaseTimeout(r) \/ ReleaseLease(r)
  \/ Read(r) \/ ReadForUpdate(r) \/ WriteBack(r) \/ CompareAndSet(r)
  \/ BackOff(r) \/ AtomicUpdate(r) \/ Commit(r)

Next ==
  \/ \E r \in Requests :
       \/ \E in \in Inputs : Receive(r, in)
       \/ Step(r)
       \/ Crash(r) \/ DatabaseFails(r) \/ RedisFails(r)
  \/ \E p \in Products : ExpireLease(p)

Spec == Init /\ [][Next]_vars

\* The event loop resumes every handler, the database grants a freed row lock to
\* a waiter; a waiter for the lease polls until it gets it or times out.
Fairness == \A r \in Requests : WF_vars(Step(r))

FairSpec == Spec /\ Fairness

----------------------------------------------------------------------------
(* Properties.                                                             *)

\* Types; stock \in Nat says that no committed state is oversold.
TypeOK ==
  /\ pc \in [Requests -> {"idle", "done"} \cup Active]
  /\ req \in [Requests -> Inputs \cup {None}]
  /\ \A r \in Requests : pc[r] # "idle" => req[r] \in Inputs
  /\ attempt \in [Requests -> Nat]
  /\ saw \in [Requests -> Rows]
  /\ pending \in [Requests -> Rows]
  /\ row \in [Catalogue -> Rows]
  /\ rowLock \in [Catalogue -> Requests \cup {None}]
  /\ lease \in [Products -> Requests \cup {None}]
  /\ reserved \in [Catalogue -> Nat]
  /\ written \in [Requests -> Nat]
  /\ reply \in [Requests -> Answers]

Stocks == [p \in Catalogue |-> row[p].stock]

\* The oversell check of ProductReservation's docstring, sharpened: what left the
\* shelf is what was reserved. A lost update of any interleaving breaks it.
StockConserved ==
  \A p \in Catalogue : row[p].stock + reserved[p] = InitialStock[p]

\* A request books at most once however often it retried, once if it was told
\* so, and never if it was told it got nothing.
BookedAsTold ==
  \A r \in Requests :
    /\ written[r] <= 1
    /\ pc[r] = "done" /\ reply[r] = "reserved" => written[r] = 1
    /\ reply[r] \in {"not_found", "not_enough", "exhausted", "unavailable"} => written[r] = 0

\* The optimistic bookings of a product: what bumps its version.
Bumps(p) ==
  {q \in Requests : written[q] > 0 /\ Strategy(q) = "optimistic" /\ Product(q) = p}

ShortWhenRefused ==
  \A r \in Requests :
    reply[r] = "not_enough" /\ Known(r) => row[Product(r)].stock < req[r].quantity

OutboughtWhenExhausted ==
  \A r \in Requests :
    reply[r] = "exhausted" => MaxAttempts <= Cardinality(Bumps(Product(r)) \ {r})

\* A client is told "not enough stock" only of a shelf that holds less than it wants,
\* then and ever after; and an optimist gives up only once as many others as it has
\* attempts have bought the product meanwhile, one for each of its misses.
TurnedAwayForCause == ShortWhenRefused /\ OutboughtWhenExhausted

\* The locked strategy's docstring: only one holder runs the section at a time.
OneHolder ==
  \A r, q \in Requests :
    /\ pc[r] # "idle" /\ InSection(r)
    /\ pc[q] # "idle" /\ InSection(q)
    /\ Product(r) = Product(q)
    => r = q

\* Every call is answered, however many others want the row or the lease.
EveryCallAnswered ==
  \A r \in Requests : pc[r] \in Active ~> pc[r] = "done"

\* The mixes of strategies under which no product loses an update: those that lock
\* the row before they read it or read and write it at once; versions alone,
\* since nobody else bumps them; leases alone, if they outlive their holders.
SafeMix ==
  \A p \in Products :
    \/ Strategies[p] \subseteq {"pessimistic", "atomic"}
    \/ Strategies[p] = {"optimistic"}
    \/ Strategies[p] = {"locked"} /\ ~HoldersOutliveTTL

\* An open transaction has a product, owns the row once it has written it (or
\* read it FOR UPDATE), and read enough stock. Only optimists back off.
TransactionsOwn ==
  \A r \in Requests :
    /\ pc[r] \in InTransaction => Known(r)
    /\ pc[r] = "updated" => rowLock[Product(r)] = r
    /\ pc[r] = "backoff" => Strategy(r) = "optimistic"
    /\ pc[r] = "pausing" => /\ saw[r].stock >= req[r].quantity
                            /\ Strategy(r) # "atomic"
                            /\ Strategy(r) = "pessimistic" => rowLock[Product(r)] = r

\* What a handler read is still true when it will be used: because it owns the
\* row, because it holds the lease, or because the version tells.
ReadsFresh ==
  \A r \in Requests :
    /\ pc[r] = "updated" =>
         /\ pending[r].stock = row[Product(r)].stock - req[r].quantity
         /\ Strategy(r) = "optimistic" => pending[r].version = row[Product(r)].version + 1
    /\ pc[r] = "pausing" /\ Strategy(r) # "optimistic" =>
         saw[r].stock = row[Product(r)].stock
    /\ pc[r] = "pausing" /\ Strategy(r) = "optimistic" =>
         /\ saw[r].version <= row[Product(r)].version
         /\ VersionUnchanged(r) => saw[r].stock = row[Product(r)].stock

\* A handler in the locked section holds the lease of its product.
SectionsLeased ==
  \A r \in Requests :
    pc[r] # "idle" /\ InSection(r) => lease[Product(r)] = r

\* The inductive invariant behind StockConserved and OneHolder.
IInv ==
  /\ TypeOK
  /\ TransactionsOwn
  /\ ~HoldersOutliveTTL => SectionsLeased
  /\ ReadsFresh
  /\ StockConserved

\* The version of a row counts the optimistic bookings of its product.
VersionsCountBumps ==
  \A p \in Catalogue :
    /\ IsFiniteSet(Bumps(p))
    /\ row[p].version = 1 + Cardinality(Bumps(p))

\* Every failed attempt of an optimist is a version it had not seen yet.
MissIsABump(r) ==
  /\ pc[r] = "idle" => attempt[r] = 0 /\ reply[r] = "none"
  /\ pc[r] = "updated" =>
       pending[r].version =
         row[Product(r)].version + (IF Strategy(r) = "optimistic" THEN 1 ELSE 0)
  /\ pc[r] # "idle" /\ Known(r) /\ Strategy(r) = "optimistic" =>
       /\ pc[r] \in {"locking", "start"} => attempt[r] < row[Product(r)].version
       /\ pc[r] = "backoff" => attempt[r] + 1 < row[Product(r)].version
       /\ pc[r] = "pausing" => /\ attempt[r] < saw[r].version
                               /\ saw[r].version <= row[Product(r)].version
  /\ reply[r] = "exhausted" =>
       /\ Known(r) /\ Strategy(r) = "optimistic"
       /\ MaxAttempts < row[Product(r)].version

MissesAreBumps == \A r \in Requests : MissIsABump(r)

TheStock == INSTANCE Stock WITH stock <- Stocks
ImplementsStock == TheStock!Spec
============================================================================
