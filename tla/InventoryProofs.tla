-------------------------- MODULE InventoryProofs --------------------------
(***************************************************************************)
(* Theorems about Inventory, for every number of requests and products and *)
(* every stock. The argument has two layers. For any mix of strategies an  *)
(* open transaction owns the row it has written and had read enough stock  *)
(* (BaseInv), so no committed stock is negative. For the safe mixes what a *)
(* handler read is still true when it uses it (ReadsFresh): it owns the    *)
(* row, or holds the lease, or the version would have told. So no update   *)
(* is lost and the component implements Stock.                             *)
(***************************************************************************)
EXTENDS Inventory, FiniteSetTheorems, TLAPS

USE DEF Active, InTransaction

BaseInv == TypeOK /\ TransactionsOwn

\* The initial state satisfies both layers.
LEMMA InitIInv == Init => IInv
<1> SUFFICES ASSUME Init
             PROVE  IInv
  OBVIOUS
<1>1. TypeOK
  BY CatalogueAssumption DEF Init, TypeOK, Rows, Answers
<1>2. TransactionsOwn /\ SectionsLeased /\ ReadsFresh
  BY DEF Init, TransactionsOwn, SectionsLeased, ReadsFresh
<1>3. StockConserved
  BY CatalogueAssumption DEF Init, StockConserved
<1> QED
  BY <1>1, <1>2, <1>3 DEF IInv

\* What every step of one handler r has in common: it moves no other handler and
\* takes no lock from another transaction.
OnlyMoves(r) ==
  /\ \A q \in Requests : q # r => /\ pc'[q] = pc[q]
                                  /\ req'[q] = req[q]
                                  /\ attempt'[q] = attempt[q]
                                  /\ saw'[q] = saw[q]
                                  /\ pending'[q] = pending[q]
                                  /\ reply'[q] = reply[q]
                                  /\ written'[q] = written[q]
  /\ \A p \in Catalogue : rowLock[p] \notin {r, None} => rowLock'[p] = rowLock[p]

\* The handler steps, which are everything but Receive and ExpireLease.
HandlerStep(r) == Step(r) \/ Crash(r) \/ DatabaseFails(r) \/ RedisFails(r)

LEMMA StepsMoveOne ==
  ASSUME BaseInv, NEW r \in Requests, HandlerStep(r)
  PROVE  /\ OnlyMoves(r)
         /\ req' = req
         /\ req[r] \in Inputs
         /\ pc[r] \in Active
<1>1. pc[r] \in Active /\ req' = req /\ req[r] \in Inputs
  BY DEF HandlerStep, Step, AcquireLease, LeaseTimeout, ReleaseLease, Read, ReadForUpdate,
    WriteBack, CompareAndSet, BackOff, AtomicUpdate, Commit, Crash, DatabaseFails, RedisFails,
    BaseInv, TypeOK
<1>2. \A q \in Requests : q # r => pc'[q] = pc[q] /\ reply'[q] = reply[q]
  BY DEF HandlerStep, Step, AcquireLease, LeaseTimeout, ReleaseLease, Read, ReadForUpdate,
    WriteBack, CompareAndSet, BackOff, AtomicUpdate, Commit, Crash, DatabaseFails, RedisFails,
    Goto, Settle, Drop, Pause, UpdateRow, BaseInv, TypeOK
<1>3. \A q \in Requests : q # r => /\ attempt'[q] = attempt[q]
                                   /\ saw'[q] = saw[q]
                                   /\ pending'[q] = pending[q]
  BY DEF HandlerStep, Step, AcquireLease, LeaseTimeout, ReleaseLease, Read, ReadForUpdate,
    WriteBack, CompareAndSet, BackOff, AtomicUpdate, Commit, Crash, DatabaseFails, RedisFails,
    Pause, UpdateRow, locals, BaseInv, TypeOK
<1>4. \A q \in Requests : q # r => written'[q] = written[q]
  BY DEF HandlerStep, Step, AcquireLease, LeaseTimeout, ReleaseLease, Read, ReadForUpdate,
    WriteBack, CompareAndSet, BackOff, AtomicUpdate, Commit, Crash, DatabaseFails, RedisFails,
    Publish, database, BaseInv, TypeOK
<1>5. \A p \in Catalogue : rowLock[p] \notin {r, None} => rowLock'[p] = rowLock[p]
  <2>1. CASE UNCHANGED rowLock
    BY <2>1
  <2>2. CASE Unlock(r)
    BY <2>2 DEF Unlock
  <2>3. CASE /\ rowLock' = [rowLock EXCEPT ![Product(r)] = r]
             /\ RowFree(r) \/ Holds(r)
    BY <2>3 DEF RowFree, Holds, BaseInv, TypeOK
  <2> QED
    BY <2>1, <2>2, <2>3 DEF HandlerStep, Step, AcquireLease, LeaseTimeout, ReleaseLease, Read,
      ReadForUpdate, WriteBack, CompareAndSet, BackOff, AtomicUpdate, Commit, Crash,
      DatabaseFails, RedisFails, SelectForUpdate, UpdateRow, database
<1> QED
  BY <1>1, <1>2, <1>3, <1>4, <1>5 DEF OnlyMoves

\* Types are preserved: the one subtraction is of a quantity that was there.
LEMMA StepsKeepTypes ==
  ASSUME BaseInv, NEW r \in Requests, HandlerStep(r)
  PROVE  TypeOK'
<1>1. /\ req' = req
      /\ req[r] \in Inputs
      /\ Product(r) \in Products
      /\ req[r].quantity \in Nat
      /\ pc[r] \in Active
  BY StepsMoveOne, QuantitiesAssumption DEF Inputs, Product
<1>2. /\ pc' \in [Requests -> {"idle", "done"} \cup Active]
      /\ \A q \in Requests : pc'[q] # "idle" => pc[q] # "idle"
  <2>1. \/ pc' = pc
        \/ \E label \in {"done"} \cup Active : pc' = [pc EXCEPT ![r] = label]
    <3>1. CASE AcquireLease(r) \/ LeaseTimeout(r) \/ ReleaseLease(r) \/ BackOff(r)
      BY <3>1 DEF AcquireLease, LeaseTimeout, ReleaseLease, BackOff, Goto, Drop
    <3>2. CASE Read(r) \/ ReadForUpdate(r)
      BY <3>2 DEF Read, ReadForUpdate, Goto, Settle, Pause
    <3>3. CASE WriteBack(r) \/ CompareAndSet(r) \/ AtomicUpdate(r)
      BY <3>3 DEF WriteBack, CompareAndSet, AtomicUpdate, Goto, Settle, UpdateRow
    <3>4. CASE Commit(r) \/ Crash(r) \/ DatabaseFails(r) \/ RedisFails(r)
      BY <3>4 DEF Commit, Crash, DatabaseFails, RedisFails, Settle, Drop
    <3> QED
      BY <3>1, <3>2, <3>3, <3>4 DEF HandlerStep, Step
  <2>2. CASE \E label \in {"done"} \cup Active : pc' = [pc EXCEPT ![r] = label]
    <3>1. PICK label \in {"done"} \cup Active : pc' = [pc EXCEPT ![r] = label]
      BY <2>2
    <3>2. pc \in [Requests -> {"idle", "done"} \cup Active]
      BY DEF BaseInv, TypeOK
    <3> QED
      BY <1>1, <3>1, <3>2
  <2>3. CASE pc' = pc
    BY <2>3 DEF BaseInv, TypeOK
  <2> QED
    BY <2>1, <2>2, <2>3
<1>3. reply' \in [Requests -> Answers]
  <2>1. \/ reply' = reply
        \/ \E answer \in Answers : reply' = [reply EXCEPT ![r] = answer]
    BY DEF HandlerStep, Step, AcquireLease, LeaseTimeout, ReleaseLease, Read, ReadForUpdate,
      WriteBack, CompareAndSet, BackOff, AtomicUpdate, Commit, Crash, DatabaseFails, RedisFails,
      Goto, Settle, Drop, Pause, UpdateRow, Answers
  <2> QED
    BY <2>1 DEF BaseInv, TypeOK
<1>4. saw' \in [Requests -> Rows]
  <2>1. \/ saw' = saw
        \/ /\ Known(r)
           /\ saw' = [saw EXCEPT ![r] = row[Product(r)]]
    BY DEF HandlerStep, Step, AcquireLease, LeaseTimeout, ReleaseLease, Read, ReadForUpdate,
      WriteBack, CompareAndSet, BackOff, AtomicUpdate, Commit, Crash, DatabaseFails, RedisFails,
      Pause, locals
  <2> QED
    BY <2>1 DEF BaseInv, TypeOK, Known
<1>5. pending' \in [Requests -> Rows]
  <2>1. CASE pending' = pending
    BY <2>1 DEF BaseInv, TypeOK
  <2>2. CASE WriteBack(r) \/ CompareAndSet(r) \/ AtomicUpdate(r)
    <3>1. CASE pending' = pending
      BY <3>1 DEF BaseInv, TypeOK
    <3>2. CASE pending' # pending
      <4>1. Known(r) /\ saw[r] \in Rows /\ row[Product(r)] \in Rows
        BY <2>2, <3>2
          DEF WriteBack, CompareAndSet, AtomicUpdate, BaseInv, TypeOK, TransactionsOwn, Known
      <4>2. PICK n \in Nat, v \in Nat : pending' = [pending EXCEPT ![r] = [stock |-> n, version |-> v]]
        BY <1>1, <2>2, <3>2, <4>1
          DEF WriteBack, CompareAndSet, AtomicUpdate, UpdateRow, NextVersion, EnoughStock,
              BaseInv, TypeOK, TransactionsOwn, Rows
      <4> QED
        BY <4>2 DEF BaseInv, TypeOK, Rows
    <3> QED
      BY <3>1, <3>2
  <2> QED
    BY <2>1, <2>2 DEF HandlerStep, Step, AcquireLease, LeaseTimeout, ReleaseLease, Read,
      ReadForUpdate, BackOff, Commit, Crash, DatabaseFails, RedisFails, locals
<1>6. /\ row' \in [Catalogue -> Rows]
      /\ reserved' \in [Catalogue -> Nat]
      /\ written' \in [Requests -> Nat]
  <2>1. CASE Commit(r)
    <3>1. Known(r)
      BY <2>1 DEF Commit, BaseInv, TransactionsOwn
    <3> QED
      BY <1>1, <2>1, <3>1 DEF Commit, Publish, BaseInv, TypeOK, Known
  <2>2. CASE UNCHANGED <<row, reserved, written>>
    BY <2>2 DEF BaseInv, TypeOK
  <2> QED
    BY <2>1, <2>2 DEF HandlerStep, Step, AcquireLease, LeaseTimeout, ReleaseLease, Read,
      ReadForUpdate, WriteBack, CompareAndSet, BackOff, AtomicUpdate, Crash, DatabaseFails,
      RedisFails, database
<1>7. rowLock' \in [Catalogue -> Requests \cup {None}]
  <2>1. \/ UNCHANGED rowLock
        \/ Unlock(r)
        \/ rowLock' = [rowLock EXCEPT ![Product(r)] = r]
    BY DEF HandlerStep, Step, AcquireLease, LeaseTimeout, ReleaseLease, Read, ReadForUpdate,
      WriteBack, CompareAndSet, BackOff, AtomicUpdate, Commit, Crash, DatabaseFails, RedisFails,
      SelectForUpdate, UpdateRow, database
  <2> QED
    BY <2>1 DEF Unlock, BaseInv, TypeOK
<1>8. lease' \in [Products -> Requests \cup {None}]
  <2>1. \/ UNCHANGED lease
        \/ lease' = [lease EXCEPT ![Product(r)] = r]
        \/ DeleteOwnLease(r)
    BY DEF HandlerStep, Step, AcquireLease, LeaseTimeout, ReleaseLease, Read, ReadForUpdate,
      WriteBack, CompareAndSet, BackOff, AtomicUpdate, Commit, Crash, DatabaseFails, RedisFails
  <2> QED
    BY <1>1, <2>1 DEF DeleteOwnLease, BaseInv, TypeOK
<1>9. attempt' \in [Requests -> Nat]
  <2>1. attempt' = attempt \/ attempt' = [attempt EXCEPT ![r] = @ + 1]
    BY DEF HandlerStep, Step, AcquireLease, LeaseTimeout, ReleaseLease, Read, ReadForUpdate,
      WriteBack, CompareAndSet, BackOff, AtomicUpdate, Commit, Crash, DatabaseFails, RedisFails,
      locals
  <2> QED
    BY <2>1 DEF BaseInv, TypeOK
<1> QED
  BY <1>1, <1>2, <1>3, <1>4, <1>5, <1>6, <1>7, <1>8, <1>9 DEF BaseInv, TypeOK

\* Which steps bring a handler to the labels of an open transaction.
LEMMA StepsKeepOwnership ==
  ASSUME BaseInv, NEW r \in Requests, HandlerStep(r)
  PROVE  TransactionsOwn'
<1>1. /\ OnlyMoves(r)
      /\ req' = req
  BY StepsMoveOne
<1>2. ASSUME NEW q \in Requests, q # r
      PROVE  (/\ pc[q] \in InTransaction => Known(q)
              /\ pc[q] = "updated" => rowLock[Product(q)] = q
              /\ pc[q] = "backoff" => Strategy(q) = "optimistic"
              /\ pc[q] = "pausing" => /\ saw[q].stock >= req[q].quantity
                                      /\ Strategy(q) # "atomic"
                                      /\ Strategy(q) = "pessimistic" => rowLock[Product(q)] = q)'
  BY <1>1, <1>2, NoneAssumption
    DEF OnlyMoves, BaseInv, TransactionsOwn, Known, Product, Strategy
<1>3. /\ pc'[r] \in InTransaction => Known(r)
      /\ pc'[r] = "updated" => rowLock'[Product(r)] = r
      /\ pc'[r] = "backoff" => Strategy(r) = "optimistic"
      /\ pc'[r] = "pausing" => /\ saw'[r].stock >= req[r].quantity
                               /\ Strategy(r) # "atomic"
                               /\ Strategy(r) = "pessimistic" => rowLock'[Product(r)] = r
  <2>1. CASE Read(r) \/ ReadForUpdate(r)
    BY <2>1 DEF Read, ReadForUpdate, Pause, Goto, Settle, SelectForUpdate, Known,
      BaseInv, TypeOK
  <2>2. CASE WriteBack(r) \/ CompareAndSet(r) \/ AtomicUpdate(r)
    BY <2>2 DEF WriteBack, CompareAndSet, AtomicUpdate, UpdateRow, Goto, Settle, Known,
      BaseInv, TypeOK, TransactionsOwn
  <2>3. CASE AcquireLease(r) \/ LeaseTimeout(r) \/ ReleaseLease(r) \/ BackOff(r) \/ Commit(r)
    BY <2>3 DEF AcquireLease, LeaseTimeout, ReleaseLease, BackOff, Commit, Goto, Drop, Settle,
      BaseInv, TypeOK
  <2>4. CASE Crash(r) \/ DatabaseFails(r) \/ RedisFails(r)
    BY <2>4 DEF Crash, DatabaseFails, RedisFails, Drop, Settle, BaseInv, TypeOK
  <2> QED
    BY <2>1, <2>2, <2>3, <2>4 DEF HandlerStep, Step
<1> QED
  BY <1>1, <1>2, <1>3 DEF TransactionsOwn, Known, Product, Strategy

LEMMA NextBaseInv == BaseInv /\ [Next]_vars => BaseInv'
<1> SUFFICES ASSUME BaseInv, [Next]_vars
             PROVE  BaseInv'
  OBVIOUS
<1>1. ASSUME NEW r \in Requests, HandlerStep(r)
      PROVE  BaseInv'
  BY <1>1, StepsKeepTypes, StepsKeepOwnership DEF BaseInv
<1>2. ASSUME NEW r \in Requests, NEW in \in Inputs, Receive(r, in)
      PROVE  BaseInv'
  <2>1. TypeOK'
    BY <1>2 DEF Receive, Goto, locals, database, BaseInv, TypeOK
  <2>2. TransactionsOwn'
    BY <1>2 DEF Receive, Goto, locals, database, BaseInv, TypeOK, TransactionsOwn, Known,
      Product, Strategy
  <2> QED
    BY <2>1, <2>2 DEF BaseInv
<1>3. ASSUME NEW p \in Products, ExpireLease(p)
      PROVE  BaseInv'
  BY <1>3 DEF ExpireLease, locals, database, BaseInv, TypeOK, TransactionsOwn, Known, Product,
    Strategy
<1>4. CASE UNCHANGED vars
  BY <1>4 DEF vars, BaseInv, TypeOK, TransactionsOwn, Known, Product, Strategy
<1> QED
  BY <1>1, <1>2, <1>3, <1>4 DEF Next, HandlerStep

LEMMA BaseInvariance == Spec => []BaseInv
<1>1. Init => BaseInv
  BY InitIInv DEF IInv, BaseInv
<1> QED
  BY <1>1, NextBaseInv, PTL DEF Spec

\* Types, and with them that no committed stock is negative, for every mix.
THEOREM TypeCorrect == Spec => []TypeOK
<1>1. BaseInv => TypeOK
  BY DEF BaseInv
<1> QED
  BY <1>1, BaseInvariance, PTL

----------------------------------------------------------------------------
(* The second layer: nothing a handler uses is stale.                      *)

\* A handler in a transaction follows one of the strategies on offer.
LEMMA OffersOnly ==
  ASSUME BaseInv, NEW r \in Requests, pc[r] \in Active
  PROVE  Strategy(r) \in Strategies[Product(r)] /\ Product(r) \in Products /\ req[r].quantity \in Nat
BY QuantitiesAssumption DEF BaseInv, TypeOK, Strategy, Product, Inputs

\* Only a commit changes the shelf and the reservations.
LEMMA OnlyCommitsPublish ==
  ASSUME NEW r \in Requests, HandlerStep(r), ~Commit(r)
  PROVE  row' = row /\ reserved' = reserved /\ written' = written
BY DEF HandlerStep, Step, AcquireLease, LeaseTimeout, ReleaseLease, Read, ReadForUpdate,
  WriteBack, CompareAndSet, BackOff, AtomicUpdate, Crash, DatabaseFails, RedisFails, database

\* What a commit takes from the shelf is what it books.
LEMMA StepsConserve ==
  ASSUME BaseInv, ReadsFresh, StockConserved, NEW r \in Requests, HandlerStep(r)
  PROVE  StockConserved'
<1>1. CASE Commit(r)
  <2>1. /\ pc[r] = "updated"
        /\ Known(r)
        /\ Publish(r)
        /\ pending[r].stock = row[Product(r)].stock - req[r].quantity
    BY <1>1 DEF Commit, BaseInv, TransactionsOwn, ReadsFresh
  <2>2. req[r].quantity \in Nat
    BY <2>1, OffersOnly
  <2> QED
    BY <2>1, <2>2, CatalogueAssumption
      DEF Publish, StockConserved, BaseInv, TypeOK, Rows, Known
<1>2. CASE ~Commit(r)
  BY <1>2, OnlyCommitsPublish DEF StockConserved
<1> QED
  BY <1>1, <1>2

\* A lease that is held stays with its holder until the holder leaves the section.
LEMMA StepsKeepLeases ==
  ASSUME BaseInv, SectionsLeased, NEW r \in Requests, HandlerStep(r)
  PROVE  SectionsLeased'
<1>1. /\ OnlyMoves(r)
      /\ req' = req
      /\ Product(r) \in Products
  BY StepsMoveOne, OffersOnly
<1>2. ASSUME NEW q \in Requests, q # r, (pc[q] # "idle" /\ InSection(q))'
      PROVE  lease'[Product(q)] = q
  <2>1. lease[Product(q)] = q /\ q # None
    BY <1>1, <1>2, NoneAssumption DEF OnlyMoves, SectionsLeased, InSection, Strategy
  <2>2. Product(q) \in Products
    BY <1>1, <1>2, OffersOnly DEF OnlyMoves, InSection
  <2>3. \/ UNCHANGED lease
        \/ LeaseFree(Product(r)) /\ lease' = [lease EXCEPT ![Product(r)] = r]
        \/ DeleteOwnLease(r)
    BY DEF HandlerStep, Step, AcquireLease, LeaseTimeout, ReleaseLease, Read, ReadForUpdate,
      WriteBack, CompareAndSet, BackOff, AtomicUpdate, Commit, Crash, DatabaseFails, RedisFails
  <2> QED
    BY <1>1, <1>2, <2>2, <2>1, <2>3 DEF LeaseFree, DeleteOwnLease, BaseInv, TypeOK
<1>3. ASSUME (pc[r] # "idle" /\ InSection(r))'
      PROVE  lease'[Product(r)] = r
  <2>1. Strategy(r) = "locked" /\ pc'[r] \in InTransaction \cup {"start"}
    BY <1>1, <1>3 DEF InSection, Strategy
  <2>2. CASE AcquireLease(r)
    BY <1>1, <2>2 DEF AcquireLease, BaseInv, TypeOK
  <2>3. CASE Read(r) \/ WriteBack(r)
    <3>1. lease[Product(r)] = r /\ lease' = lease
      BY <2>1, <2>3 DEF Read, WriteBack, SectionsLeased, InSection
    <3> QED
      BY <3>1
  <2>4. CASE ReadForUpdate(r) \/ CompareAndSet(r) \/ AtomicUpdate(r)
    BY <2>1, <2>4 DEF ReadForUpdate, CompareAndSet, AtomicUpdate
  <2>5. CASE BackOff(r)
    BY <2>1, <2>5 DEF BackOff, BaseInv, TransactionsOwn
  <2>6. CASE LeaseTimeout(r) \/ ReleaseLease(r) \/ Commit(r) \/ Crash(r) \/ DatabaseFails(r)
             \/ RedisFails(r)
    BY <2>1, <2>6 DEF LeaseTimeout, ReleaseLease, Commit, Crash, DatabaseFails, RedisFails,
      Goto, Drop, Settle, BaseInv, TypeOK
  <2> QED
    BY <2>2, <2>3, <2>4, <2>5, <2>6 DEF HandlerStep, Step
<1> QED
  BY <1>1, <1>2, <1>3 DEF SectionsLeased, Product

\* The invariant of the leases applies whenever leases outlive their holders.
LeasesHold == ~HoldersOutliveTTL => SectionsLeased

\* A commit of one handler leaves what every other handler read true.
LEMMA CommitsKeepOthersFresh ==
  ASSUME SafeMix, BaseInv, LeasesHold, ReadsFresh,
         NEW r \in Requests, Commit(r),
         NEW q \in Requests, q # r, pc[q] \in InTransaction, Product(q) = Product(r)
  PROVE  /\ pc[q] = "pausing"
         /\ Strategy(q) = "optimistic"
         /\ saw[q].version < row'[Product(q)].version
<1>1. /\ pc[r] = "updated"
      /\ Known(r)
      /\ rowLock[Product(r)] = r
      /\ row'[Product(r)] = pending[r]
  BY DEF Commit, Publish, BaseInv, TypeOK, TransactionsOwn, Known
<1>2. pc[q] = "pausing" /\ Strategy(q) \notin {"pessimistic", "atomic"}
  BY <1>1 DEF BaseInv, TransactionsOwn
<1>3. /\ Product(r) \in Products
      /\ Strategy(q) \in Strategies[Product(r)]
      /\ Strategy(r) \in Strategies[Product(r)]
  BY <1>1, OffersOnly
<1>4. CASE Strategies[Product(r)] = {"locked"} /\ ~HoldersOutliveTTL
  <2>1. lease[Product(q)] = q /\ lease[Product(r)] = r
    BY <1>1, <1>2, <1>3, <1>4 DEF LeasesHold, SectionsLeased, InSection
  <2> QED
    BY <2>1
<1>5. CASE Strategies[Product(r)] = {"optimistic"}
  <2>1. /\ Strategy(q) = "optimistic"
        /\ pending[r].version = row[Product(r)].version + 1
        /\ saw[q].version <= row[Product(r)].version
    BY <1>1, <1>2, <1>3, <1>5 DEF ReadsFresh
  <2>2. saw[q].version \in Nat /\ row[Product(r)].version \in Nat
    BY <1>1 DEF BaseInv, TypeOK, Rows, Known
  <2> QED
    BY <1>1, <1>2, <2>1, <2>2
<1> QED
  BY <1>2, <1>3, <1>4, <1>5 DEF SafeMix

\* What a handler reads is what it sees; what it writes follows from a read that
\* is still true.
LEMMA StepsReadFresh ==
  ASSUME BaseInv, ReadsFresh, NEW r \in Requests, HandlerStep(r), ~Commit(r)
  PROVE  /\ pc'[r] = "updated" =>
              /\ pending'[r].stock = row[Product(r)].stock - req[r].quantity
              /\ Strategy(r) = "optimistic" => pending'[r].version = row[Product(r)].version + 1
         /\ pc'[r] = "pausing" =>
              /\ saw'[r] = row[Product(r)]
              /\ Known(r)
<1>1. pc[r] \in Active
  BY StepsMoveOne
<1>2. CASE Read(r) \/ ReadForUpdate(r)
  BY <1>2 DEF Read, ReadForUpdate, Pause, Goto, Settle, BaseInv, TypeOK
<1>3. CASE WriteBack(r)
  BY <1>3 DEF WriteBack, UpdateRow, Goto, BaseInv, TypeOK, ReadsFresh
<1>4. CASE CompareAndSet(r)
  BY <1>4 DEF CompareAndSet, UpdateRow, Goto, Settle, NextVersion, VersionUnchanged, BaseInv,
    TypeOK, ReadsFresh
<1>5. CASE AtomicUpdate(r)
  BY <1>5 DEF AtomicUpdate, UpdateRow, Goto, Settle, BaseInv, TypeOK
<1>6. CASE AcquireLease(r) \/ LeaseTimeout(r) \/ ReleaseLease(r) \/ BackOff(r) \/ Crash(r)
           \/ DatabaseFails(r) \/ RedisFails(r)
  BY <1>6 DEF AcquireLease, LeaseTimeout, ReleaseLease, BackOff, Crash, DatabaseFails,
    RedisFails, Goto, Drop, Settle, BaseInv, TypeOK
<1> QED
  BY <1>2, <1>3, <1>4, <1>5, <1>6 DEF HandlerStep, Step

LEMMA StepsKeepFresh ==
  ASSUME SafeMix, BaseInv, LeasesHold, ReadsFresh, NEW r \in Requests, HandlerStep(r)
  PROVE  ReadsFresh'
<1> USE DEF Known
<1>1. OnlyMoves(r) /\ req' = req
  BY StepsMoveOne
<1>2. ASSUME NEW q \in Requests, q # r, row'[Product(q)] = row[Product(q)]
      PROVE  /\ pc'[q] = "updated" =>
                  /\ pending'[q].stock = row'[Product(q)].stock - req[q].quantity
                  /\ Strategy(q) = "optimistic" => pending'[q].version = row'[Product(q)].version + 1
             /\ pc'[q] = "pausing" /\ Strategy(q) # "optimistic" =>
                  saw'[q].stock = row'[Product(q)].stock
             /\ pc'[q] = "pausing" /\ Strategy(q) = "optimistic" =>
                  /\ saw'[q].version <= row'[Product(q)].version
                  /\ row'[Product(q)].version = saw'[q].version
                       => saw'[q].stock = row'[Product(q)].stock
  BY <1>1, <1>2 DEF OnlyMoves, ReadsFresh, VersionUnchanged
<1>3. CASE Commit(r)
  <2>1. pc'[r] \notin InTransaction
    BY <1>3 DEF Commit, Settle, BaseInv, TypeOK
  <2>2. ASSUME NEW q \in Requests, q # r, pc'[q] \in InTransaction, Product(q) = Product(r)
        PROVE  /\ pc'[q] = "pausing"
               /\ Strategy(q) = "optimistic"
               /\ saw'[q].version < row'[Product(q)].version
    BY <1>1, <1>3, <2>2, CommitsKeepOthersFresh DEF OnlyMoves
  <2>3. ASSUME NEW q \in Requests, q # r, pc'[q] \in InTransaction, Product(q) # Product(r)
        PROVE  row'[Product(q)] = row[Product(q)]
    BY <1>1, <1>3, <2>3 DEF OnlyMoves, Commit, Publish, BaseInv, TypeOK, TransactionsOwn
  <2>4. ASSUME NEW q \in Requests, pc'[q] \in InTransaction
        PROVE  Known(q) /\ row'[Product(q)] \in Rows /\ saw'[q] \in Rows
    BY <1>1, <2>4, StepsKeepTypes, StepsKeepOwnership DEF TypeOK, TransactionsOwn, Product
  <2> QED
    BY <1>1, <1>2, <2>1, <2>2, <2>3, <2>4
      DEF ReadsFresh, VersionUnchanged, Product, Strategy, Rows
<1>4. CASE ~Commit(r)
  <2>1. row' = row
    BY <1>4, OnlyCommitsPublish
  <2>2. /\ pc'[r] = "updated" =>
             /\ pending'[r].stock = row[Product(r)].stock - req[r].quantity
             /\ Strategy(r) = "optimistic" => pending'[r].version = row[Product(r)].version + 1
        /\ pc'[r] = "pausing" =>
             /\ saw'[r] = row[Product(r)]
             /\ saw'[r].version \in Nat
    BY <1>4, StepsReadFresh DEF BaseInv, TypeOK, Rows
  <2> QED
    BY <1>1, <1>2, <2>1, <2>2 DEF ReadsFresh, VersionUnchanged, Product, Strategy
<1> QED
  BY <1>3, <1>4

LEMMA NextIInv == SafeMix /\ IInv /\ [Next]_vars => IInv'
<1> SUFFICES ASSUME SafeMix, IInv, [Next]_vars
             PROVE  IInv'
  OBVIOUS
<1>1. BaseInv /\ BaseInv' /\ LeasesHold
  BY NextBaseInv DEF IInv, BaseInv, LeasesHold
<1>2. ASSUME NEW r \in Requests, HandlerStep(r)
      PROVE  IInv'
  BY <1>1, <1>2, StepsConserve, StepsKeepLeases, StepsKeepFresh DEF IInv, BaseInv
<1>3. ASSUME NEW r \in Requests, NEW in \in Inputs, Receive(r, in)
      PROVE  IInv'
  <2>1. \A q \in Requests : q # r => pc'[q] = pc[q] /\ req'[q] = req[q]
    BY <1>1, <1>3 DEF Receive, Goto, BaseInv, TypeOK
  <2>2. pc'[r] \notin InTransaction /\ ~InSection(r)'
    BY <1>1, <1>3 DEF Receive, Goto, BaseInv, TypeOK, InSection, Strategy, Inputs
  <2>3. UNCHANGED <<saw, pending, row, reserved, lease>>
    BY <1>3 DEF Receive, locals, database
  <2> QED
    BY <1>1, <2>1, <2>2, <2>3
      DEF IInv, BaseInv, SectionsLeased, ReadsFresh, StockConserved, InSection, VersionUnchanged,
          Product, Strategy
<1>4. ASSUME NEW p \in Products, ExpireLease(p)
      PROVE  IInv'
  <2>1. UNCHANGED <<pc, req, saw, pending, row, reserved>>
    BY <1>4 DEF ExpireLease, locals, database
  <2>2. ~HoldersOutliveTTL => SectionsLeased'
    <3>1. SUFFICES ASSUME ~HoldersOutliveTTL, NEW q \in Requests, pc[q] # "idle", InSection(q)
                   PROVE  lease'[Product(q)] = q
      BY <2>1 DEF SectionsLeased, InSection, Strategy, Product
    <3>2. lease[Product(q)] = q
      BY <1>1, <3>1 DEF LeasesHold, SectionsLeased
    <3>4. Product(q) # p
      BY <1>4, <3>1, <3>2 DEF ExpireLease, MayExpire
    <3> QED
      BY <1>4, <3>2, <3>4 DEF ExpireLease, BaseInv, TypeOK
  <2> QED
    BY <1>1, <2>1, <2>2
      DEF IInv, BaseInv, ReadsFresh, StockConserved, VersionUnchanged, Product, Strategy
<1>5. CASE UNCHANGED vars
  BY <1>1, <1>5
    DEF vars, IInv, BaseInv, SectionsLeased, ReadsFresh, StockConserved, InSection,
        VersionUnchanged, Product, Strategy, locals, database
<1> QED
  BY <1>2, <1>3, <1>4, <1>5 DEF Next, HandlerStep

\* Under a safe mix every read that is used is still true when it is used.
THEOREM Invariance == ASSUME SafeMix PROVE Spec => []IInv
<1>1. Init => IInv
  BY InitIInv
<1>2. IInv /\ [Next]_vars => IInv'
  BY NextIInv
<1> QED
  BY <1>1, <1>2, PTL DEF Spec

\* No strategy of a safe mix loses an update: sold plus shelved is the start.
THEOREM StockIsConserved == ASSUME SafeMix PROVE Spec => []StockConserved
<1>1. IInv => StockConserved
  BY DEF IInv
<1> QED
  BY <1>1, Invariance, PTL

\* The lease section has one holder, whatever else is on offer: needed is only
\* that no holder outlives its lease. This is the docstring's claim, made exact.
LEMMA LeasesInvariance == ASSUME ~HoldersOutliveTTL PROVE Spec => [](BaseInv /\ SectionsLeased)
<1>1. Init => BaseInv /\ SectionsLeased
  BY InitIInv DEF IInv, BaseInv, Init, SectionsLeased
<1>2. BaseInv /\ SectionsLeased /\ [Next]_vars => SectionsLeased'
  <2> SUFFICES ASSUME BaseInv, SectionsLeased, [Next]_vars
               PROVE  SectionsLeased'
    OBVIOUS
  <2>1. ASSUME NEW r \in Requests, HandlerStep(r)
        PROVE  SectionsLeased'
    BY <2>1, StepsKeepLeases
  <2>2. ASSUME NEW r \in Requests, NEW in \in Inputs, Receive(r, in)
        PROVE  SectionsLeased'
    <3>1. \A q \in Requests : q # r => pc'[q] = pc[q] /\ req'[q] = req[q]
      BY <2>2 DEF Receive, Goto, BaseInv, TypeOK
    <3>2. ~InSection(r)'
      BY <2>2 DEF Receive, Goto, BaseInv, TypeOK, InSection, Strategy, Inputs
    <3> QED
      BY <2>2, <3>1, <3>2 DEF Receive, SectionsLeased, InSection, Product, Strategy
  <2>3. ASSUME NEW p \in Products, ExpireLease(p)
        PROVE  SectionsLeased'
    <3>1. SUFFICES ASSUME NEW q \in Requests, pc[q] # "idle", InSection(q)
                   PROVE  lease'[Product(q)] = q
      BY <2>3 DEF ExpireLease, SectionsLeased, InSection, Strategy, Product
    <3>2. lease[Product(q)] = q
      BY <3>1 DEF SectionsLeased
    <3>3. Product(q) # p
      BY <2>3, <3>1, <3>2 DEF ExpireLease, MayExpire
    <3> QED
      BY <2>3, <3>2, <3>3 DEF ExpireLease, BaseInv, TypeOK
  <2>4. CASE UNCHANGED vars
    BY <2>4 DEF vars, SectionsLeased, InSection, Product, Strategy
  <2> QED
    BY <2>1, <2>2, <2>3, <2>4 DEF Next, HandlerStep
<1> QED
  BY <1>1, <1>2, NextBaseInv, PTL DEF Spec

THEOREM OneHolderPerLease == ASSUME ~HoldersOutliveTTL PROVE Spec => []OneHolder
<1>1. SectionsLeased => OneHolder
  BY DEF SectionsLeased, OneHolder
<1> QED
  BY <1>1, LeasesInvariance, PTL

----------------------------------------------------------------------------
(* Replies and bookings, for any mix of strategies.                        *)

\* A handler that may still commit has not, and a reply says whether it has.
Booked(r) ==
  /\ written[r] \in {0, 1}
  /\ pc[r] \notin {"releasing", "done"} => written[r] = 0
  /\ reply[r] = "reserved" => written[r] = 1
  /\ reply[r] \in {"not_found", "not_enough", "exhausted", "unavailable"} => written[r] = 0

LEMMA StepsKeepBookings ==
  ASSUME BaseInv, NEW r \in Requests, HandlerStep(r), Booked(r)
  PROVE  Booked(r)'
<1> USE DEF BaseInv, TypeOK, Booked
<1>1. CASE Commit(r)
  BY <1>1 DEF Commit, Publish, Settle
<1>2. CASE AcquireLease(r) \/ LeaseTimeout(r) \/ ReleaseLease(r) \/ RedisFails(r)
  BY <1>2 DEF AcquireLease, LeaseTimeout, ReleaseLease, RedisFails, Goto, Drop, database
<1>3. CASE Read(r) \/ ReadForUpdate(r)
  BY <1>3 DEF Read, ReadForUpdate, Settle, Pause, Goto, database
<1>4. CASE WriteBack(r) \/ CompareAndSet(r) \/ BackOff(r) \/ AtomicUpdate(r)
  BY <1>4 DEF WriteBack, CompareAndSet, BackOff, AtomicUpdate, UpdateRow, Settle, Goto, database
<1>5. CASE Crash(r) \/ DatabaseFails(r)
  BY <1>5 DEF Crash, DatabaseFails, Drop, Settle
<1> QED
  BY <1>1, <1>2, <1>3, <1>4, <1>5 DEF HandlerStep, Step

AllBooked == \A r \in Requests : Booked(r)

LEMMA BookingsInvariance == Spec => [](BaseInv /\ AllBooked)
<1>1. Init => AllBooked
  BY DEF Init, AllBooked, Booked
<1>2. BaseInv /\ AllBooked /\ [Next]_vars => AllBooked'
  <2> SUFFICES ASSUME BaseInv, AllBooked, [Next]_vars, NEW q \in Requests
               PROVE  Booked(q)'
    BY DEF AllBooked
  <2>1. ASSUME NEW r \in Requests, HandlerStep(r)
        PROVE  Booked(q)'
    <3>1. CASE q = r
      BY <2>1, <3>1, StepsKeepBookings DEF AllBooked
    <3>2. CASE q # r
      BY <2>1, <3>2, StepsMoveOne DEF OnlyMoves, AllBooked, Booked
    <3> QED
      BY <3>1, <3>2
  <2>2. ASSUME NEW r \in Requests, NEW in \in Inputs, Receive(r, in)
        PROVE  Booked(q)'
    BY <2>2 DEF Receive, Goto, database, BaseInv, TypeOK, AllBooked, Booked
  <2>3. ASSUME NEW p \in Products, ExpireLease(p)
        PROVE  Booked(q)'
    BY <2>3 DEF ExpireLease, database, AllBooked, Booked
  <2>4. CASE UNCHANGED vars
    BY <2>4 DEF vars, AllBooked, Booked
  <2> QED
    BY <2>1, <2>2, <2>3, <2>4 DEF Next, HandlerStep
<1> QED
  BY BaseInvariance, <1>1, <1>2, PTL DEF Spec

\* Whatever strategies are mixed, retried or interrupted: a request books at most
\* once, and as it was told.
THEOREM RepliesMatchBookings == Spec => []BookedAsTold
<1>1. AllBooked => BookedAsTold
  BY DEF AllBooked, BookedAsTold, Booked
<1> QED
  BY BookingsInvariance, <1>1, PTL

----------------------------------------------------------------------------
(* An optimist's misses, whatever its rivals do: versions count the        *)
(* optimistic bookings, and each miss is a version it had not seen.        *)

\* A row's version is a number, and its attempts and a handler's view of it too.
LEMMA Numbers ==
  ASSUME BaseInv, NEW r \in Requests
  PROVE  /\ attempt[r] \in Nat /\ saw[r].version \in Nat /\ MaxAttempts \in Nat
         /\ Known(r) => row[Product(r)].version \in Nat
BY AttemptsAssumption DEF BaseInv, TypeOK, Rows, Known

\* A commit moves the version of its own row only, up if at all, and nobody else
\* has written that row.
LEMMA CommitsMoveVersions ==
  ASSUME BaseInv, NEW r \in Requests, Commit(r), MissIsABump(r)
  PROVE  /\ Known(r)
         /\ \A p \in Catalogue : p # Product(r) => row'[p] = row[p]
         /\ row'[Product(r)].version =
              row[Product(r)].version + (IF Strategy(r) = "optimistic" THEN 1 ELSE 0)
         /\ \A q \in Requests : q # r /\ pc[q] = "updated" => Product(q) # Product(r)
<1>1. pc[r] = "updated" /\ Publish(r)
  BY DEF Commit
<1>2. Known(r) /\ rowLock[Product(r)] = r
  BY <1>1 DEF BaseInv, TransactionsOwn
<1>3. row' = [row EXCEPT ![Product(r)] = pending[r]] /\ row \in [Catalogue -> Rows]
  BY <1>1 DEF Publish, BaseInv, TypeOK
<1> QED
  BY <1>1, <1>2, <1>3 DEF MissIsABump, BaseInv, TransactionsOwn, Known

LEMMA StepsKeepRivals ==
  ASSUME BaseInv, NEW r \in Requests, HandlerStep(r), MissIsABump(r),
         NEW q \in Requests, q # r, MissIsABump(q)
  PROVE  MissIsABump(q)'
<1>1. OnlyMoves(r) /\ req' = req
  BY StepsMoveOne
<1>2. /\ pc'[q] = pc[q] /\ reply'[q] = reply[q] /\ saw'[q] = saw[q]
      /\ pending'[q] = pending[q] /\ attempt'[q] = attempt[q]
      /\ Product(q)' = Product(q) /\ Strategy(q)' = Strategy(q)
  BY <1>1 DEF OnlyMoves, Product, Strategy
<1>3. CASE Known(q) => row'[Product(q)] = row[Product(q)]
  <2>1. pc[q] = "updated" => Known(q)
    BY DEF BaseInv, TransactionsOwn
  <2> QED
    BY <1>2, <1>3, <2>1 DEF MissIsABump, Known
<1>4. CASE Known(q) /\ row'[Product(q)] # row[Product(q)]
  <2>1. Commit(r)
    BY <1>4, OnlyCommitsPublish
  <2>2. Product(q) = Product(r) /\ pc[q] # "updated"
    BY <1>4, <2>1, CommitsMoveVersions DEF Known
  <2>3. /\ row[Product(q)].version \in Nat
        /\ row'[Product(q)].version \in Nat
        /\ row[Product(q)].version <= row'[Product(q)].version
    BY <1>4, <2>1, <2>2, CommitsMoveVersions, Numbers
  <2> QED
    BY <1>2, <1>4, <2>2, <2>3, Numbers DEF MissIsABump, Known
<1> QED
  BY <1>3, <1>4

\* The handler that moves: a failed comparison is a version it had not seen, and it
\* is the only way to spend an attempt.
LEMMA StepsCountMisses ==
  ASSUME BaseInv, NEW r \in Requests, HandlerStep(r), MissIsABump(r)
  PROVE  MissIsABump(r)'
<1>1. /\ req' = req /\ pc[r] \in Active
      /\ Product(r)' = Product(r) /\ Strategy(r)' = Strategy(r)
      /\ reply[r] \in Answers
  BY StepsMoveOne DEF Product, Strategy, BaseInv, TypeOK
<1>2. CASE Commit(r)
  BY <1>1, <1>2 DEF Commit, Settle, BaseInv, TypeOK, MissIsABump
<1>3. CASE Read(r) \/ ReadForUpdate(r)
  <2>1. /\ attempt' = attempt /\ row' = row /\ pc[r] = "start"
        /\ \/ pc'[r] \in {"releasing", "done"} /\ reply'[r] \in {"not_found", "not_enough"}
           \/ pc'[r] = "pausing" /\ reply' = reply /\ saw'[r] = row[Product(r)] /\ Known(r)
    BY <1>3 DEF Read, ReadForUpdate, Pause, Goto, Settle, database, BaseInv, TypeOK
  <2> QED
    BY <1>1, <2>1, Numbers DEF MissIsABump, Known
<1>4. CASE CompareAndSet(r)
  <2>1. /\ attempt' = attempt /\ saw' = saw /\ row' = row /\ Known(r)
        /\ pc[r] = "pausing" /\ Strategy(r) = "optimistic"
        /\ \/ /\ VersionUnchanged(r) /\ pc'[r] = "updated" /\ reply' = reply
              /\ pending'[r].version = saw[r].version + 1
           \/ ~VersionUnchanged(r) /\ pc'[r] = "backoff" /\ reply' = reply
           \/ ~VersionUnchanged(r) /\ pc'[r] = "done" /\ reply'[r] = "exhausted"
              /\ ~ShouldRetry(attempt[r])
    BY <1>4 DEF CompareAndSet, UpdateRow, Goto, Settle, NextVersion, BaseInv, TypeOK,
      TransactionsOwn
  <2> QED
    BY <1>1, <2>1, Numbers DEF MissIsABump, Known, ShouldRetry, VersionUnchanged
<1>5. CASE BackOff(r)
  <2>1. /\ attempt'[r] = attempt[r] + 1 /\ row' = row
        /\ pc[r] = "backoff" /\ pc'[r] = "start" /\ reply' = reply
    BY <1>5 DEF BackOff, Goto, database, BaseInv, TypeOK
  <2> QED
    BY <1>1, <2>1, Numbers DEF MissIsABump, Known
<1>6. CASE WriteBack(r) \/ AtomicUpdate(r)
  <2>1. /\ row' = row /\ Strategy(r) # "optimistic"
        /\ \/ pc'[r] = "done" /\ reply'[r] = "not_enough"
           \/ /\ pc'[r] = "updated" /\ reply' = reply
              /\ pending'[r].version = row[Product(r)].version
    BY <1>6 DEF WriteBack, AtomicUpdate, UpdateRow, Goto, Settle, BaseInv, TypeOK
  <2>2. pc'[r] = "updated" => Known(r)
    BY <1>6, <2>1 DEF WriteBack, AtomicUpdate, Settle, BaseInv, TypeOK, TransactionsOwn
  <2> QED
    BY <1>1, <2>1, <2>2, Numbers DEF MissIsABump, Known
<1>7. CASE AcquireLease(r) \/ ReleaseLease(r)
  <2>1. /\ attempt' = attempt /\ row' = row /\ reply' = reply
        /\ (pc[r] = "locking" /\ pc'[r] = "start") \/ pc'[r] = "done"
    BY <1>7 DEF AcquireLease, ReleaseLease, Goto, locals, database, BaseInv, TypeOK
  <2> QED
    BY <1>1, <2>1 DEF MissIsABump, Known
<1>8. CASE LeaseTimeout(r) \/ Crash(r) \/ DatabaseFails(r) \/ RedisFails(r)
  <2>1. /\ reply'[r] \in {"unavailable", "lost", "error"} /\ pc'[r] \in {"releasing", "done"}
    BY <1>8 DEF LeaseTimeout, Crash, DatabaseFails, RedisFails, Settle, Drop, BaseInv, TypeOK
  <2> QED
    BY <1>1, <2>1 DEF MissIsABump
<1> QED
  BY <1>2, <1>3, <1>4, <1>5, <1>6, <1>7, <1>8 DEF HandlerStep, Step

LEMMA ReceivingKeepsMisses ==
  ASSUME BaseInv, VersionsCountBumps, NEW r \in Requests, NEW in \in Inputs, Receive(r, in),
         NEW q \in Requests, MissIsABump(q)
  PROVE  MissIsABump(q)'
<1>1. /\ UNCHANGED <<attempt, saw, pending, row, reply>>
      /\ q # r => pc'[q] = pc[q] /\ req'[q] = req[q]
      /\ q = r => pc[q] = "idle" /\ pc'[q] \in {"locking", "start"}
  BY DEF Receive, Goto, locals, database, BaseInv, TypeOK
<1>2. \A p \in Catalogue : 0 < row[p].version
  BY FS_CardinalityType DEF VersionsCountBumps
<1>3. CASE q = r
  BY <1>1, <1>2, <1>3 DEF MissIsABump, Known
<1>4. CASE q # r
  BY <1>1, <1>4 DEF MissIsABump, Known, Product, Strategy
<1> QED
  BY <1>3, <1>4

\* A version more is a booking more: of a request that had not booked yet.
LEMMA CommitsCountBumps ==
  ASSUME BaseInv, AllBooked, VersionsCountBumps, NEW r \in Requests, Commit(r), MissIsABump(r)
  PROVE  VersionsCountBumps'
<1>1. /\ written[r] = 0 /\ written \in [Requests -> Nat]
      /\ written' = [written EXCEPT ![r] = @ + 1]
      /\ req' = req
  BY DEF Commit, Publish, AllBooked, Booked, BaseInv, TypeOK
<1>2. SUFFICES ASSUME NEW p \in Catalogue
               PROVE  IsFiniteSet(Bumps(p))' /\ row'[p].version = 1 + Cardinality(Bumps(p)')
  BY DEF VersionsCountBumps
<1>3. IsFiniteSet(Bumps(p)) /\ row[p].version = 1 + Cardinality(Bumps(p)) /\ r \notin Bumps(p)
  BY <1>1 DEF VersionsCountBumps, Bumps
<1>4. CASE Strategy(r) = "optimistic" /\ Product(r) = p
  <2>1. Bumps(p)' = Bumps(p) \cup {r}
    BY <1>1, <1>4 DEF Bumps, Strategy, Product
  <2>2. row'[p].version = row[p].version + 1
    BY <1>4, CommitsMoveVersions
  <2>3. IsFiniteSet(Bumps(p)') /\ Cardinality(Bumps(p)') = Cardinality(Bumps(p)) + 1
    BY <1>3, <2>1, FS_AddElement
  <2>4. Cardinality(Bumps(p)) \in Nat
    BY <1>3, FS_CardinalityType
  <2> QED
    BY <1>3, <2>2, <2>3, <2>4
<1>5. CASE ~(Strategy(r) = "optimistic" /\ Product(r) = p)
  <2>1. Bumps(p)' = Bumps(p)
    BY <1>1, <1>5 DEF Bumps, Strategy, Product
  <2>2. row'[p].version = row[p].version
    <3>1. CASE Product(r) = p
      BY <1>5, <3>1, CommitsMoveVersions, Numbers
    <3>2. CASE Product(r) # p
      BY <3>2, CommitsMoveVersions
    <3> QED
      BY <3>1, <3>2
  <2> QED
    BY <1>3, <2>1, <2>2
<1> QED
  BY <1>4, <1>5

LEMMA NextMisses ==
  BaseInv /\ AllBooked /\ VersionsCountBumps /\ MissesAreBumps /\ [Next]_vars
    => VersionsCountBumps' /\ MissesAreBumps'
<1> SUFFICES ASSUME BaseInv, AllBooked, VersionsCountBumps, MissesAreBumps, [Next]_vars
             PROVE  VersionsCountBumps' /\ MissesAreBumps'
  OBVIOUS
<1>1. ASSUME NEW r \in Requests, HandlerStep(r)
      PROVE  VersionsCountBumps' /\ MissesAreBumps'
  <2>1. MissesAreBumps'
    BY <1>1, StepsKeepRivals, StepsCountMisses DEF MissesAreBumps
  <2>2. CASE Commit(r)
    BY <2>1, <2>2, CommitsCountBumps DEF MissesAreBumps
  <2>3. CASE ~Commit(r)
    <3>1. row' = row /\ written' = written /\ req' = req
      BY <1>1, <2>3, OnlyCommitsPublish, StepsMoveOne
    <3> QED
      BY <2>1, <3>1 DEF VersionsCountBumps, Bumps, Strategy, Product
  <2> QED
    BY <2>2, <2>3
<1>2. ASSUME NEW r \in Requests, NEW in \in Inputs, Receive(r, in)
      PROVE  VersionsCountBumps' /\ MissesAreBumps'
  <2>1. MissesAreBumps'
    BY <1>2, ReceivingKeepsMisses DEF MissesAreBumps
  <2>2. /\ row' = row /\ written' = written /\ written[r] = 0
        /\ \A q \in Requests : q # r => req'[q] = req[q]
    BY <1>2 DEF Receive, database, AllBooked, Booked, BaseInv, TypeOK
  <2>3. ASSUME NEW p \in Catalogue
        PROVE  Bumps(p)' = Bumps(p)
    BY <2>2 DEF Bumps, Strategy, Product
  <2> QED
    BY <2>1, <2>2, <2>3 DEF VersionsCountBumps
<1>3. CASE \/ UNCHANGED vars
           \/ \E p \in Products : ExpireLease(p)
  <2>1. UNCHANGED <<pc, req, attempt, saw, pending, row, written, reply>>
    BY <1>3 DEF vars, locals, database, ExpireLease
  <2> QED
    BY <2>1 DEF VersionsCountBumps, Bumps, MissesAreBumps, MissIsABump, Known, Strategy, Product
<1> QED
  BY <1>1, <1>2, <1>3 DEF Next, HandlerStep

LEMMA MissesInvariance ==
  Spec => [](BaseInv /\ AllBooked /\ VersionsCountBumps /\ MissesAreBumps)
<1>1. Init => VersionsCountBumps /\ MissesAreBumps
  <2> SUFFICES ASSUME Init
               PROVE  VersionsCountBumps /\ MissesAreBumps
    OBVIOUS
  <2>1. \A p \in Catalogue : Bumps(p) = {} /\ row[p].version = 1
    BY DEF Init, Bumps
  <2>2. IsFiniteSet({}) /\ Cardinality({}) = 0
    BY FS_EmptySet
  <2>3. VersionsCountBumps
    BY <2>1, <2>2 DEF VersionsCountBumps
  <2>4. MissesAreBumps
    BY DEF Init, MissesAreBumps, MissIsABump
  <2> QED
    BY <2>3, <2>4
<1> QED
  BY <1>1, BookingsInvariance, NextMisses, PTL DEF Spec

\* Whatever strategies the rivals follow and however large the stock: an optimist that
\* gives up has been outbought as often as it has attempts, by different requests.
THEOREM OptimistsAreOutbought == Spec => []OutboughtWhenExhausted
<1>1. AllBooked /\ VersionsCountBumps /\ MissesAreBumps => OutboughtWhenExhausted
  <2> SUFFICES ASSUME AllBooked, VersionsCountBumps, MissesAreBumps,
                      NEW r \in Requests, reply[r] = "exhausted"
               PROVE  MaxAttempts <= Cardinality(Bumps(Product(r)) \ {r})
    BY DEF OutboughtWhenExhausted
  <2>1. Known(r) /\ MaxAttempts < row[Product(r)].version
    BY DEF MissesAreBumps, MissIsABump
  <2>2. /\ IsFiniteSet(Bumps(Product(r)))
        /\ row[Product(r)].version = 1 + Cardinality(Bumps(Product(r)))
    BY <2>1 DEF VersionsCountBumps, Known
  <2>3. Bumps(Product(r)) \ {r} = Bumps(Product(r))
    BY DEF AllBooked, Booked, Bumps
  <2>4. Cardinality(Bumps(Product(r))) \in Nat /\ MaxAttempts \in Nat
    BY <2>2, FS_CardinalityType, AttemptsAssumption
  <2> QED
    BY <2>1, <2>2, <2>3, <2>4
<1> QED
  BY <1>1, MissesInvariance, PTL

----------------------------------------------------------------------------
(* Nobody is turned away too early, under a safe mix.                      *)

\* Stock only goes down.
LEMMA StockFalls ==
  ASSUME SafeMix, IInv, NEW r \in Requests, HandlerStep(r), NEW p \in Catalogue
  PROVE  row'[p].stock \in Nat /\ row[p].stock \in Nat /\ row'[p].stock <= row[p].stock
<1>1. row \in [Catalogue -> Rows] /\ BaseInv
  BY DEF IInv, BaseInv, TypeOK
<1>2. CASE Commit(r)
  <2>1. /\ Known(r) /\ pc[r] = "updated"
        /\ row' = [row EXCEPT ![Product(r)] = pending[r]]
        /\ pending[r] \in Rows
        /\ pending[r].stock = row[Product(r)].stock - req[r].quantity
    BY <1>2 DEF Commit, Publish, IInv, TypeOK, TransactionsOwn, ReadsFresh
  <2>2. req[r].quantity \in Nat
    BY <1>1, <2>1, OffersOnly
  <2> QED
    BY <1>1, <2>1, <2>2 DEF Known, Rows
<1>3. CASE ~Commit(r)
  BY <1>1, <1>3, OnlyCommitsPublish DEF Rows
<1> QED
  BY <1>2, <1>3

\* A handler that finds a shelf short has just read it.
LEMMA RefusalsAreShort ==
  ASSUME BaseInv, NEW r \in Requests, HandlerStep(r), Known(r),
         reply'[r] = "not_enough", reply[r] # "not_enough"
  PROVE  row'[Product(r)].stock < req[r].quantity
<1>1. pc[r] \in Active /\ req[r].quantity \in Nat
  BY StepsMoveOne, OffersOnly
<1>2. row[Product(r)].stock \in Nat
  BY DEF BaseInv, TypeOK, Rows, Known
<1>3. CASE Read(r) \/ ReadForUpdate(r) \/ AtomicUpdate(r)
  <2>1. row' = row
    BY <1>3 DEF Read, ReadForUpdate, AtomicUpdate, database
  <2>2. ~(row[Product(r)].stock >= req[r].quantity)
    BY <1>2, <1>1, <1>3 DEF Read, ReadForUpdate, AtomicUpdate, Pause, UpdateRow, EnoughStock, Goto,
      Settle, BaseInv, TypeOK
  <2> QED
    BY <1>1, <1>2, <2>1, <2>2
<1>4. CASE WriteBack(r) \/ CompareAndSet(r) \/ BackOff(r) \/ Commit(r)
  BY <1>4 DEF WriteBack, CompareAndSet, BackOff, Commit, UpdateRow, Goto, Settle, BaseInv, TypeOK
<1>5. CASE \/ AcquireLease(r) \/ LeaseTimeout(r) \/ ReleaseLease(r)
           \/ Crash(r) \/ DatabaseFails(r) \/ RedisFails(r)
  BY <1>5 DEF AcquireLease, LeaseTimeout, ReleaseLease, Crash, DatabaseFails, RedisFails, Goto,
    Drop, Settle, BaseInv, TypeOK
<1> QED
  BY <1>3, <1>4, <1>5 DEF HandlerStep, Step

LEMMA NextRefusals ==
  SafeMix /\ IInv /\ MissesAreBumps /\ ShortWhenRefused /\ [Next]_vars => ShortWhenRefused'
<1> SUFFICES ASSUME SafeMix, IInv, MissesAreBumps, ShortWhenRefused, [Next]_vars,
                    NEW q \in Requests, reply'[q] = "not_enough", Known(q)'
             PROVE  row'[Product(q)'].stock < req'[q].quantity
  BY DEF ShortWhenRefused
<1>1. BaseInv
  BY DEF IInv, BaseInv
<1>2. ASSUME NEW r \in Requests, HandlerStep(r)
      PROVE  row'[Product(q)'].stock < req'[q].quantity
  <2>1. req' = req /\ Product(q)' = Product(q) /\ Known(q)
    BY <1>1, <1>2, StepsMoveOne DEF Product, Known
  <2>2. CASE reply[q] = "not_enough"
    <3>1. row[Product(q)].stock < req[q].quantity /\ pc[q] # "idle"
      BY <2>1, <2>2 DEF ShortWhenRefused, MissesAreBumps, MissIsABump
    <3>2. req[q].quantity \in Nat
      BY <1>1, <3>1, QuantitiesAssumption DEF BaseInv, TypeOK, Inputs
    <3> QED
      BY <1>2, <2>1, <3>1, <3>2, StockFalls DEF Known
  <2>3. CASE reply[q] # "not_enough"
    <3>1. q = r
      BY <1>1, <1>2, <2>3, StepsMoveOne DEF OnlyMoves
    <3> QED
      BY <1>1, <1>2, <2>1, <2>3, <3>1, RefusalsAreShort
  <2> QED
    BY <2>2, <2>3
<1>3. ASSUME NEW r \in Requests, NEW in \in Inputs, Receive(r, in)
      PROVE  row'[Product(q)'].stock < req'[q].quantity
  <2>1. row' = row /\ reply' = reply /\ q # r
    BY <1>3 DEF Receive, Goto, database, MissesAreBumps, MissIsABump
  <2>2. req'[q] = req[q]
    BY <1>1, <1>3, <2>1 DEF Receive, BaseInv, TypeOK
  <2> QED
    BY <2>1, <2>2 DEF ShortWhenRefused, Known, Product
<1>4. CASE \/ UNCHANGED vars
           \/ \E p \in Products : ExpireLease(p)
  <2>1. UNCHANGED <<req, row, reply>>
    BY <1>4 DEF vars, database, ExpireLease
  <2> QED
    BY <2>1 DEF ShortWhenRefused, Known, Product
<1> QED
  BY <1>2, <1>3, <1>4 DEF Next, HandlerStep

\* A buyer is told "not enough" only of a shelf that holds fewer units than it wants, at
\* that moment and ever after, and "try again" only when as many others as it has
\* attempts have bought before it.
THEOREM NobodyTurnedAwayEarly == ASSUME SafeMix PROVE Spec => []TurnedAwayForCause
<1>1. Init => ShortWhenRefused
  BY DEF Init, ShortWhenRefused
<1>2. IInv /\ MissesAreBumps /\ ShortWhenRefused /\ [Next]_vars => ShortWhenRefused'
  BY NextRefusals
<1>3. ShortWhenRefused /\ OutboughtWhenExhausted => TurnedAwayForCause
  BY DEF TurnedAwayForCause
<1> QED
  BY <1>1, <1>2, <1>3, Invariance, MissesInvariance, OptimistsAreOutbought, PTL DEF Spec

----------------------------------------------------------------------------
(* Implementation of Stock.                                                *)

\* A commit is the abstract reservation; every other step is a stutter.
THEOREM ImplementsTheStock == ASSUME SafeMix PROVE Spec => ImplementsStock
<1>1. Init => TheStock!Init
  <2> SUFFICES ASSUME Init
               PROVE  TheStock!Init
    OBVIOUS
  <2>1. Stocks = InitialStock
    BY CatalogueAssumption DEF Init, Stocks
  <2> QED
    BY <2>1 DEF Init, TheStock!Init
<1>2. IInv /\ [Next]_vars => [TheStock!Next]_<<Stocks, reserved>>
  <2> SUFFICES ASSUME IInv, [Next]_vars
               PROVE  [TheStock!Next]_<<Stocks, reserved>>
    OBVIOUS
  <2>1. ASSUME NEW r \in Requests, Commit(r)
        PROVE  TheStock!Next
    <3> DEFINE p == Product(r)
               q == req[r].quantity
    <3>1. /\ p \in Catalogue
          /\ q \in Quantities /\ q \in Nat
          /\ row'= [row EXCEPT ![p] = pending[r]]
          /\ reserved' = [reserved EXCEPT ![p] = @ + q]
          /\ pending[r] \in Rows
          /\ pending[r].stock = row[p].stock - q
      BY <2>1, QuantitiesAssumption
        DEF Commit, Publish, IInv, TypeOK, TransactionsOwn, ReadsFresh, Known, Inputs
    <3>2. /\ Stocks[p] >= q
          /\ Stocks' = [Stocks EXCEPT ![p] = @ - q]
      <4>1. row[p].stock \in Nat /\ pending[r].stock \in Nat
        BY <3>1 DEF IInv, TypeOK, Rows
      <4>2. Stocks \in [Catalogue -> Nat]
        BY DEF Stocks, IInv, TypeOK, Rows
      <4>3. row \in [Catalogue -> Rows]
        BY DEF IInv, TypeOK
      <4> HIDE DEF p, q
      <4>4. Stocks[p] = row[p].stock
        BY <3>1 DEF Stocks
      <4>5. Stocks[p] >= q
        BY <3>1, <4>1, <4>4
      <4>6. \A x \in Catalogue : Stocks'[x] = IF x = p THEN Stocks[p] - q ELSE Stocks[x]
        BY <3>1, <4>3, <4>4 DEF Stocks
      <4>7. Stocks' = [Stocks EXCEPT ![p] = @ - q]
        BY <4>2, <4>6 DEF Stocks
      <4> QED
        BY <4>5, <4>7
    <3>3. TheStock!Reserve(p, q)
      BY <3>1, <3>2 DEF TheStock!Reserve
    <3> QED
      BY <3>1, <3>3 DEF TheStock!Next
  <2>2. ASSUME NEW r \in Requests, HandlerStep(r), ~Commit(r)
        PROVE  UNCHANGED <<Stocks, reserved>>
    BY <2>2, OnlyCommitsPublish DEF Stocks
  <2>3. ASSUME NEW r \in Requests, NEW in \in Inputs, Receive(r, in)
        PROVE  UNCHANGED <<Stocks, reserved>>
    BY <2>3 DEF Receive, database, Stocks
  <2>4. ASSUME NEW p \in Products, ExpireLease(p)
        PROVE  UNCHANGED <<Stocks, reserved>>
    BY <2>4 DEF ExpireLease, database, Stocks
  <2>5. CASE UNCHANGED vars
    BY <2>5 DEF vars, database, Stocks
  <2> QED
    BY <2>1, <2>2, <2>3, <2>4, <2>5 DEF Next, HandlerStep
<1> QED
  BY <1>1, <1>2, Invariance, PTL DEF Spec, ImplementsStock, TheStock!Spec
============================================================================
