--------------------------- MODULE PaymentProofs ---------------------------
(***************************************************************************)
(* Theorems about Payment, for every number of requests, keys and accounts.*)
(* The argument: a debit keeps its row lock until its transaction ends, so *)
(* what it may subtract stays covered; a success enters charges only past  *)
(* the partial unique index; and an answer, or the record it is replayed   *)
(* from, names a row already committed, which never disappears.            *)
(***************************************************************************)
EXTENDS Payment, TLAPS

USE DEF Executing, Running, Statuses, ReplyKinds

\* The initial state satisfies the inductive invariant.
LEMMA InitIInv == Init => IInv
  BY AccountsAssumption DEF Init, IInv, TypeOK, TransactionsCovered, AnswersBacked,
    AtMostOneSuccess, Succeeded, Replies

\* A step that changes the answer of one handler only keeps answers backed if
\* that one is: rows never disappear.
LEMMA OneAnswerSettled ==
  ASSUME AnswersBacked, NEW r \in Requests,
         UNCHANGED <<req, cache>>, charges \subseteq charges',
         \A q \in Requests : q # r => pc'[q] = pc[q] /\ reply'[q] = reply[q],
         pc'[r] # "idle",
         pc'[r] = "charged" => reply'[r].kind = "created",
         reply'[r].kind \in {"created", "replayed"} =>
           CommittedFor(reply[r].charge, req[r].key, Fingerprint(r))'
  PROVE  AnswersBacked'
<1>1. ASSUME NEW q \in Requests
      PROVE  /\ pc'[q] = "charged" => reply'[q].kind = "created"
             /\ reply'[q].kind \in {"created", "replayed"} =>
                  /\ pc'[q] # "idle"
                  /\ CommittedFor(reply[q].charge, req[q].key, Fingerprint(q))'
  <2>1. CASE q = r
    BY <2>1
  <2>2. CASE q # r
    BY <2>2 DEF AnswersBacked, CommittedFor, Fingerprint
  <2> QED
    BY <2>1, <2>2
<1> QED
  BY <1>1 DEF AnswersBacked, CommittedFor

\* Acquire: setnx and the jump to either side of it.
LEMMA AcquireIInv ==
  ASSUME IInv, NEW r \in Requests, NEW in \in Inputs, Acquire(r, in) \/ AcquireFails(r, in)
  PROVE  IInv'
<1>1. /\ req' = [req EXCEPT ![r] = in]
      /\ pc[r] = "idle"
      /\ UNCHANGED <<backend, balance, lockedBy, charges, seen>>
  BY DEF Acquire, AcquireFails
<1>2. \/ cache' = cache
      \/ cache' = [cache EXCEPT ![in.key] =
           [status |-> "PROCESSING", response |-> None,
            fingerprint |-> [customer |-> in.customer, amount |-> in.amount]]]
  BY DEF Acquire, AcquireFails
<1>3. \/ pc' = [pc EXCEPT ![r] = "charging"] /\ reply' = reply
      \/ pc' = [pc EXCEPT ![r] = "existing"] /\ reply' = reply
      \/ /\ pc' = [pc EXCEPT ![r] = "done"]
         /\ reply' = [reply EXCEPT ![r] = [kind |-> "error", charge |-> None]]
  BY DEF Acquire, AcquireFails, Goto, Answer
<1>4. TypeOK'
  <2>1. cache' \in [Keys -> Records \cup {None}]
    BY <1>2 DEF IInv, TypeOK, Inputs, Records, Fingerprints
  <2>2. reply' \in [Requests -> Replies]
    BY <1>3 DEF IInv, TypeOK, Replies
  <2> QED
    BY <1>1, <1>3, <2>1, <2>2 DEF IInv, TypeOK
<1>5. TransactionsCovered'
  BY <1>1, <1>3 DEF IInv, TypeOK, TransactionsCovered
<1>6. AnswersBacked'
  <2>1. \A q \in Requests : reply'[q].kind \in {"created", "replayed"} => q # r
    BY <1>1, <1>3 DEF IInv, TypeOK, AnswersBacked
  <2>2. \A q \in Requests :
          /\ pc'[q] = "charged" => reply'[q].kind = "created"
          /\ reply'[q].kind \in {"created", "replayed"} =>
               /\ pc'[q] # "idle"
               /\ CommittedFor(reply[q].charge, req[q].key, Fingerprint(q))'
    BY <1>1, <1>3, <2>1 DEF IInv, TypeOK, AnswersBacked, CommittedFor, Fingerprint
  <2>3. \A k \in Keys : cache'[k] # None /\ cache'[k].status = "COMPLETED" =>
          cache'[k] = cache[k]
    BY <1>2 DEF IInv, TypeOK, Inputs
  <2> QED
    BY <1>1, <2>2, <2>3 DEF IInv, AnswersBacked, CommittedFor
<1>7. AtMostOneSuccess'
  BY <1>1 DEF IInv, AtMostOneSuccess, Succeeded
<1> QED
  BY <1>4, <1>5, <1>6, <1>7 DEF IInv

\* Steps that only settle an answer or move pc, and never touch rows or records.
LEMMA HandleExistingIInv ==
  ASSUME IInv, NEW r \in Requests, HandleExisting(r)
  PROVE  IInv'
<1>1. /\ pc[r] = "existing"
      /\ UNCHANGED <<backend, req, cache, balance, lockedBy, charges, seen>>
      /\ req[r] \in Inputs
      /\ req[r].key \in Keys
  BY DEF HandleExisting, IInv, TypeOK, Inputs
<1>2. PICK kind \in {"vanished", "error", "mismatch", "in_flight", "replayed"},
           charge \in ChargeRows \cup {None} :
        /\ Answer(r, kind, charge)
        /\ kind = "replayed" => /\ cache[req[r].key] # None
                                /\ cache[req[r].key].status = "COMPLETED"
                                /\ cache[req[r].key].fingerprint = Fingerprint(r)
                                /\ charge = cache[req[r].key].response
  BY <1>1 DEF HandleExisting, FingerprintMatches, IInv, TypeOK, Records
<1>3. TypeOK'
  BY <1>1, <1>2 DEF IInv, TypeOK, Answer, Replies
<1>4. TransactionsCovered'
  BY <1>1, <1>2 DEF IInv, TypeOK, TransactionsCovered, Answer
<1>5. AnswersBacked'
  <2>1. reply'[r].kind = "replayed" =>
          CommittedFor(reply[r].charge, req[r].key, Fingerprint(r))'
    BY <1>1, <1>2 DEF IInv, TypeOK, AnswersBacked, CommittedFor, Fingerprint, Answer
  <2>2. pc'[r] = "done" /\ reply'[r].kind # "created"
    BY <1>2 DEF IInv, TypeOK, Answer
  <2>3. \A q \in Requests : q # r => pc'[q] = pc[q] /\ reply'[q] = reply[q]
    BY <1>2 DEF IInv, TypeOK, Answer
  <2> QED
    BY <1>1, <2>1, <2>2, <2>3, OneAnswerSettled DEF IInv
<1>6. AtMostOneSuccess'
  BY <1>1 DEF IInv, AtMostOneSuccess, Succeeded
<1> QED
  BY <1>3, <1>4, <1>5, <1>6 DEF IInv

\* Debit: a handler that gets the row keeps what it needs of it.
LEMMA DebitIInv ==
  ASSUME IInv, NEW r \in Requests, Debit(r)
  PROVE  IInv'
<1>1. /\ pc[r] = "charging"
      /\ req[r] \in Inputs
      /\ Unlocked(req[r].customer)
      /\ UNCHANGED <<backend, req, cache, balance, charges, seen>>
  BY DEF Debit, IInv, TypeOK
<1>2. TypeOK'
  <2>1. lockedBy' \in [Accounts -> Requests \cup {None}]
    BY DEF Debit, IInv, TypeOK
  <2>2. pc' \in [Requests -> {"idle", "done"} \cup Running]
    <3>1. PICK label \in {"releasing", "declining", "debited"} : pc' = [pc EXCEPT ![r] = label]
      BY DEF Debit, Raise, Goto
    <3> QED
      BY <3>1 DEF IInv, TypeOK
  <2>3. reply' = reply \/ reply' = [reply EXCEPT ![r] = [kind |-> "not_found", charge |-> None]]
    BY DEF Debit, Raise, Goto
  <2>4. reply' \in [Requests -> Replies]
    BY <2>3 DEF IInv, TypeOK, Replies
  <2>5. \A q \in Requests : pc'[q] # "idle" => pc[q] # "idle"
    BY <1>1 DEF Debit, IInv, TypeOK, Raise, Goto
  <2> QED
    BY <1>1, <2>1, <2>2, <2>4, <2>5 DEF IInv, TypeOK
<1>3. TransactionsCovered'
  <2>1. CASE lockedBy' = lockedBy
    BY <1>1, <2>1 DEF Debit, IInv, TypeOK, TransactionsCovered, Raise, Goto, BalanceCheckAllows
  <2>2. CASE /\ req[r].customer \in Accounts
             /\ balance[req[r].customer] >= req[r].amount
             /\ lockedBy' = [lockedBy EXCEPT ![req[r].customer] = r]
             /\ pc' = [pc EXCEPT ![r] = "debited"]
    BY <1>1, <2>2, NoneAssumption DEF IInv, TypeOK, TransactionsCovered, Unlocked
  <2> QED
    BY <2>1, <2>2 DEF Debit, Goto, BalanceCheckAllows
<1>4. AnswersBacked'
  <2>1. /\ pc'[r] # "charged"
        /\ pc'[r] # "idle"
        /\ reply'[r].kind \in {"created", "replayed"} => reply'[r] = reply[r]
        /\ \A q \in Requests : q # r => pc'[q] = pc[q] /\ reply'[q] = reply[q]
    BY DEF Debit, IInv, TypeOK, Raise, Goto
  <2>2. reply'[r].kind \in {"created", "replayed"} =>
          CommittedFor(reply[r].charge, req[r].key, Fingerprint(r))'
    BY <1>1, <2>1 DEF IInv, AnswersBacked, CommittedFor, Fingerprint
  <2> QED
    BY <1>1, <2>1, <2>2, OneAnswerSettled DEF IInv
<1>5. AtMostOneSuccess'
  BY <1>1 DEF IInv, AtMostOneSuccess, Succeeded
<1> QED
  BY <1>2, <1>3, <1>4, <1>5 DEF IInv

\* Commit: the debit was covered by the lock, the row by the unique index.
LEMMA CommitIInv ==
  ASSUME IInv, NEW r \in Requests, Commit(r)
  PROVE  IInv'
<1> DEFINE c == req[r].customer
<1>1. /\ pc[r] = "debited"
      /\ req[r] \in Inputs
      /\ c \in Accounts
      /\ lockedBy[c] = r
      /\ balance[c] >= req[r].amount
      /\ req[r].amount \in Nat
      /\ UNCHANGED <<backend, req, cache, seen>>
  BY AmountsAssumption DEF Commit, IInv, TypeOK, TransactionsCovered, Inputs
<1>2. \/ /\ balance' = [balance EXCEPT ![c] = @ - req[r].amount]
         /\ charges' = charges \cup {Row(r, "SUCCEEDED")}
         /\ SucceededWith(req[r].key) = {}
      \/ UNCHANGED <<balance, charges>>
  BY DEF Commit, CommitCharge, UniqueIndexAllows
<1>3. Row(r, "SUCCEEDED") \in ChargeRows
  BY <1>1 DEF Row, ChargeRows, Inputs
<1>4. /\ pc'[r] \in {"charged", "releasing"}
      /\ \A q \in Requests : q # r => pc'[q] = pc[q] /\ reply'[q] = reply[q]
      /\ pc' \in [Requests -> {"idle", "done"} \cup Running]
      /\ reply' \in [Requests -> Replies]
  BY <1>3 DEF Commit, Charged, Raise, IInv, TypeOK, Replies
<1>5. \/ /\ pc'[r] = "charged"
         /\ reply'[r] = [kind |-> "created", charge |-> Row(r, "SUCCEEDED")]
         /\ Row(r, "SUCCEEDED") \in charges'
      \/ /\ pc'[r] = "releasing"
         /\ reply'[r].kind \in {"error", "already_charged"}
  BY DEF Commit, CommitCharge, Charged, Raise, IInv, TypeOK
<1>6. lockedBy' = [a \in Accounts |-> IF lockedBy[a] = r THEN None ELSE lockedBy[a]]
  BY DEF Commit, ReleaseRow
<1>7. charges \subseteq charges'
  BY <1>2
<1>8. TypeOK'
  <2>1. balance' \in [Accounts -> Nat]
    BY <1>1, <1>2 DEF IInv, TypeOK
  <2> QED
    BY <1>1, <1>2, <1>3, <1>4, <1>6, <2>1 DEF IInv, TypeOK
<1>9. TransactionsCovered'
  <2>1. ASSUME NEW q \in Requests, pc'[q] = "debited"
        PROVE  /\ req[q].customer \in Accounts
               /\ lockedBy'[req[q].customer] = q
               /\ balance'[req[q].customer] >= req[q].amount
    <3>1. q # r /\ pc[q] = "debited"
      BY <1>4, <2>1
    <3>2. /\ req[q].customer \in Accounts
          /\ lockedBy[req[q].customer] = q
          /\ balance[req[q].customer] >= req[q].amount
      BY <3>1 DEF IInv, TransactionsCovered
    <3>3. req[q].customer # c
      BY <1>1, <3>1, <3>2
    <3> QED
      BY <1>2, <1>6, <3>1, <3>2, <3>3 DEF IInv, TypeOK
  <2>2. \A q \in Requests : pc'[q] \in {"declining", "sleeping"} => pc'[q] = pc[q]
    BY <1>4
  <2> QED
    BY <1>1, <2>1, <2>2 DEF IInv, TransactionsCovered
<1>10. AnswersBacked'
  <2>1. CommittedFor(Row(r, "SUCCEEDED"), req[r].key, Fingerprint(r))' \/ pc'[r] = "releasing"
    BY <1>1, <1>5 DEF CommittedFor, Row, Fingerprint
  <2>2. pc'[r] = "charged" => reply'[r].charge = Row(r, "SUCCEEDED")'
    BY <1>1, <1>5 DEF Row
  <2> QED
    BY <1>1, <1>4, <1>5, <1>7, <2>1, <2>2, OneAnswerSettled DEF IInv, Row
<1>11. AtMostOneSuccess'
  BY <1>2 DEF IInv, AtMostOneSuccess, Succeeded, SucceededWith, Row
<1> QED
  BY <1>8, <1>9, <1>10, <1>11 DEF IInv

\* Decline: the FAILED row is committed before it is answered.
LEMMA DeclineIInv ==
  ASSUME IInv, NEW r \in Requests, Decline(r)
  PROVE  IInv'
<1>1. /\ pc[r] = "declining"
      /\ req[r] \in Inputs
      /\ req[r].customer \in Accounts
      /\ charges' = charges \cup {Row(r, "FAILED")}
      /\ UNCHANGED <<backend, req, cache, balance, lockedBy, seen>>
  BY DEF Decline, IInv, TypeOK, TransactionsCovered
<1>2. Row(r, "FAILED") \in ChargeRows
  BY <1>1 DEF Row, ChargeRows, Inputs
<1>3. /\ pc' \in [Requests -> {"idle", "done"} \cup Running]
      /\ pc'[r] \in {"charged", "releasing"}
      /\ reply' \in [Requests -> Replies]
      /\ \A q \in Requests : q # r => pc'[q] = pc[q] /\ reply'[q] = reply[q]
  <2>1. CASE Charged(r, "FAILED")
    BY <1>2, <2>1 DEF Charged, IInv, TypeOK, Replies
  <2>2. CASE Raise(r, "error")
    BY <2>2 DEF Raise, IInv, TypeOK, Replies
  <2> QED
    BY <2>1, <2>2 DEF Decline
<1>4. \/ /\ pc'[r] = "charged"
         /\ reply'[r] = [kind |-> "created", charge |-> Row(r, "FAILED")]
      \/ /\ pc'[r] = "releasing"
         /\ reply'[r].kind = "error"
  BY DEF Decline, Charged, Raise, IInv, TypeOK
<1>5. TypeOK'
  BY <1>1, <1>2, <1>3 DEF IInv, TypeOK
<1>6. TransactionsCovered'
  BY <1>1, <1>3 DEF IInv, TransactionsCovered
<1>7. AnswersBacked'
  <2>1. CommittedFor(Row(r, "FAILED"), req[r].key, Fingerprint(r))'
    BY <1>1 DEF CommittedFor, Row, Fingerprint
  <2>2. pc'[r] = "charged" => reply'[r].charge = Row(r, "FAILED")'
    BY <1>1, <1>4 DEF Row
  <2> QED
    BY <1>1, <1>3, <1>4, <2>1, <2>2, OneAnswerSettled DEF IInv, Row
<1>8. AtMostOneSuccess'
  BY <1>1 DEF IInv, AtMostOneSuccess, Succeeded, Row
<1> QED
  BY <1>5, <1>6, <1>7, <1>8 DEF IInv

\* Writing or dropping a record: Release, Complete and Expire, and a cache call
\* that fails with or without effect.
LEMMA RecordIInv ==
  ASSUME IInv, NEW r \in Requests,
         Release(r) \/ Complete(r) \/ CacheFails(r)
  PROVE  IInv'
<1>1. /\ pc[r] \in {"releasing", "charged", "existing"}
      /\ req[r] \in Inputs
      /\ req[r].key \in Keys
      /\ UNCHANGED <<backend, req, balance, lockedBy, charges, seen>>
      /\ pc' = [pc EXCEPT ![r] = "done"]
  BY DEF Release, Complete, CacheFails, Goto, Answer, IInv, TypeOK, Inputs
<1>2. \/ reply' = reply
      \/ reply' = [reply EXCEPT ![r] = [kind |-> "error", charge |-> None]]
  BY DEF Release, Complete, CacheFails, Goto, Answer
<1>3. \/ cache' = cache
      \/ cache' = [cache EXCEPT ![req[r].key] = None]
      \/ /\ pc[r] = "charged"
         /\ cache' = [cache EXCEPT ![req[r].key] =
              [status |-> "COMPLETED", fingerprint |-> Fingerprint(r),
               response |-> reply[r].charge]]
  BY DEF Release, Complete, CacheFails, DeleteKey, StoreCompleted
<1>4. TypeOK'
  <2>1. cache' \in [Keys -> Records \cup {None}]
    <3>1. reply[r].charge \in ChargeRows \cup {None}
      BY DEF IInv, TypeOK, Replies
    <3>2. Fingerprint(r) \in Fingerprints
      BY <1>1 DEF Fingerprint, Fingerprints, Inputs
    <3> QED
      BY <1>1, <1>3, <3>1, <3>2 DEF IInv, TypeOK, Records
  <2>2. reply' \in [Requests -> Replies]
    BY <1>2 DEF IInv, TypeOK, Replies
  <2> QED
    BY <1>1, <2>1, <2>2 DEF IInv, TypeOK
<1>5. TransactionsCovered'
  BY <1>1 DEF IInv, TypeOK, TransactionsCovered
<1>6. AnswersBacked'
  <2>1. ASSUME NEW k \in Keys, cache'[k] # None, cache'[k].status = "COMPLETED"
        PROVE  CommittedFor(cache'[k].response, k, cache'[k].fingerprint)
    <3>1. CASE cache'[k] = cache[k]
      BY <2>1, <3>1 DEF IInv, AnswersBacked
    <3>2. CASE /\ k = req[r].key
               /\ pc[r] = "charged"
               /\ cache'[k] = [status |-> "COMPLETED", fingerprint |-> Fingerprint(r),
                               response |-> reply[r].charge]
      BY <3>2 DEF IInv, AnswersBacked
    <3> QED
      BY <1>1, <1>3, <2>1, <3>1, <3>2 DEF IInv, TypeOK
  <2>2. ASSUME NEW q \in Requests
        PROVE  /\ pc'[q] = "charged" => reply'[q].kind = "created"
               /\ reply'[q].kind \in {"created", "replayed"} =>
                    /\ pc'[q] # "idle"
                    /\ CommittedFor(reply[q].charge, req[q].key, Fingerprint(q))'
    <3>1. reply'[q].kind \in {"created", "replayed"} => reply'[q] = reply[q]
      BY <1>2 DEF IInv, TypeOK
    <3>2. pc'[q] = "charged" => q # r /\ pc[q] = "charged" /\ reply'[q] = reply[q]
      BY <1>1, <1>2 DEF IInv, TypeOK
    <3>3. pc[q] # "idle" => pc'[q] # "idle"
      BY <1>1 DEF IInv, TypeOK
    <3> QED
      BY <1>1, <3>1, <3>2, <3>3 DEF IInv, AnswersBacked, CommittedFor, Fingerprint
  <2> QED
    BY <1>1, <2>1, <2>2 DEF IInv, AnswersBacked, CommittedFor
<1>7. AtMostOneSuccess'
  BY <1>1 DEF IInv, AtMostOneSuccess, Succeeded
<1> QED
  BY <1>4, <1>5, <1>6, <1>7 DEF IInv

\* Expire: an absent record backs nothing.
LEMMA ExpireIInv ==
  ASSUME IInv, NEW k \in Keys, Expire(k)
  PROVE  IInv'
<1>1. /\ cache' = [cache EXCEPT ![k] = None]
      /\ UNCHANGED <<backend, pc, req, balance, lockedBy, charges, seen, reply>>
  BY DEF Expire
<1>2. TypeOK' /\ TransactionsCovered' /\ AtMostOneSuccess'
  BY <1>1 DEF IInv, TypeOK, TransactionsCovered, AtMostOneSuccess, Succeeded
<1>3. AnswersBacked'
  BY <1>1 DEF IInv, TypeOK, AnswersBacked, CommittedFor, Fingerprint
<1> QED
  BY <1>2, <1>3 DEF IInv

\* The /buggy handler: its write is covered by what it read, not by the balance,
\* and waits for no debit in progress.
LEMMA BuggyIInv ==
  ASSUME IInv, NEW r \in Requests,
         (\E in \in Inputs : BuggyReceive(r, in)) \/ BuggyRead(r) \/ BuggyWrite(r)
  PROVE  IInv'
<1>1. ASSUME NEW in \in Inputs, BuggyReceive(r, in)
      PROVE  IInv'
  <2>1. /\ pc[r] = "idle"
        /\ pc' = [pc EXCEPT ![r] = "reading"]
        /\ req' = [req EXCEPT ![r] = in]
        /\ UNCHANGED <<backend, cache, balance, lockedBy, charges, seen, reply>>
    BY <1>1 DEF BuggyReceive, Goto
  <2>2. TypeOK' /\ TransactionsCovered' /\ AtMostOneSuccess'
    BY <2>1 DEF IInv, TypeOK, TransactionsCovered, AtMostOneSuccess, Succeeded
  <2>3. AnswersBacked'
    BY <2>1 DEF IInv, TypeOK, AnswersBacked, CommittedFor, Fingerprint
  <2> QED
    BY <2>2, <2>3 DEF IInv
<1>2. ASSUME BuggyRead(r)
      PROVE  IInv'
  <2> DEFINE c == req[r].customer
  <2>1. /\ pc[r] = "reading"
        /\ req[r] \in Inputs
        /\ req[r].amount \in Nat
        /\ UNCHANGED <<backend, req, cache, balance, lockedBy>>
    BY <1>2, AmountsAssumption DEF BuggyRead, IInv, TypeOK, Inputs
  <2>2. CASE c \notin Accounts
    <3>1. Answer(r, "not_found", None) /\ UNCHANGED <<charges, seen>>
      BY <1>2, <2>2 DEF BuggyRead
    <3>2. TypeOK'
      BY <2>1, <3>1 DEF IInv, TypeOK, Answer, Replies
    <3>3. TransactionsCovered' /\ AtMostOneSuccess'
      BY <2>1, <3>1 DEF IInv, TypeOK, TransactionsCovered, AtMostOneSuccess, Succeeded, Answer
    <3>4. AnswersBacked'
      BY <2>1, <3>1 DEF IInv, TypeOK, AnswersBacked, CommittedFor, Fingerprint, Answer
    <3> QED
      BY <3>2, <3>3, <3>4 DEF IInv
  <2>3. CASE c \in Accounts /\ balance[c] < req[r].amount
    <3>1. /\ charges' = charges \cup {Row(r, "FAILED")}
          /\ \/ Answer(r, "created", Row(r, "FAILED"))
             \/ Answer(r, "error", None)
          /\ UNCHANGED seen
      BY <1>2, <2>3, <2>1 DEF BuggyRead, IInv, TypeOK
    <3>2. Row(r, "FAILED") \in ChargeRows
      BY <2>1, <2>3 DEF Row, ChargeRows, Inputs
    <3>3. TypeOK'
      <4>1. \E answer \in Replies :
              pc' = [pc EXCEPT ![r] = "done"] /\ reply' = [reply EXCEPT ![r] = answer]
        BY <3>1, <3>2 DEF Answer, Replies, ReplyKinds
      <4> QED
        BY <2>1, <3>1, <3>2, <4>1 DEF IInv, TypeOK
    <3>4. TransactionsCovered'
      BY <2>1, <3>1 DEF IInv, TypeOK, TransactionsCovered, Answer
    <3>5. AtMostOneSuccess'
      BY <3>1 DEF IInv, AtMostOneSuccess, Succeeded, Row
    <3>6. AnswersBacked'
      <4>1. CommittedFor(Row(r, "FAILED"), req[r].key, Fingerprint(r))'
        BY <2>1, <3>1 DEF CommittedFor, Row, Fingerprint
      <4>2. /\ pc'[r] = "done"
            /\ reply'[r].kind = "created" => reply'[r].charge = Row(r, "FAILED")'
            /\ reply'[r].kind # "replayed"
            /\ \A q \in Requests : q # r => pc'[q] = pc[q] /\ reply'[q] = reply[q]
        BY <2>1, <3>1 DEF IInv, TypeOK, Answer, Row
      <4> QED
        BY <2>1, <3>1, <4>1, <4>2, OneAnswerSettled DEF IInv, Row
    <3> QED
      BY <3>3, <3>4, <3>5, <3>6 DEF IInv
  <2>4. CASE c \in Accounts /\ balance[c] >= req[r].amount
    <3>1. /\ seen' = [seen EXCEPT ![r] = balance[c]]
          /\ pc' = [pc EXCEPT ![r] = "sleeping"]
          /\ UNCHANGED <<reply, charges>>
      BY <1>2, <2>4, <2>1 DEF BuggyRead, Goto, IInv, TypeOK
    <3>2. TypeOK' /\ TransactionsCovered' /\ AtMostOneSuccess'
      BY <2>1, <2>4, <3>1 DEF IInv, TypeOK, TransactionsCovered, AtMostOneSuccess, Succeeded
    <3>3. AnswersBacked'
      BY <2>1, <3>1 DEF IInv, TypeOK, AnswersBacked, CommittedFor, Fingerprint
    <3> QED
      BY <3>2, <3>3 DEF IInv
  <2> QED
    BY <1>2, <2>2, <2>3, <2>4 DEF BuggyRead
<1>3. ASSUME BuggyWrite(r)
      PROVE  IInv'
  <2> DEFINE c == req[r].customer
  <2>1. /\ pc[r] = "sleeping"
        /\ req[r] \in Inputs
        /\ req[r].amount \in Nat
        /\ c \in Accounts
        /\ lockedBy[c] = None
        /\ seen[r] >= req[r].amount
        /\ UNCHANGED <<backend, req, cache, lockedBy, seen>>
        /\ pc' = [pc EXCEPT ![r] = "done"]
    BY <1>3, AmountsAssumption
      DEF BuggyWrite, Unlocked, Answer, IInv, TypeOK, TransactionsCovered, Inputs
  <2>2. \/ /\ balance' = [balance EXCEPT ![c] = seen[r] - req[r].amount]
           /\ charges' = charges \cup {Row(r, "SUCCEEDED")}
           /\ SucceededWith(req[r].key) = {}
        \/ UNCHANGED <<balance, charges>>
    BY <1>3 DEF BuggyWrite, UniqueIndexAllows
  <2>3. \/ reply' = [reply EXCEPT ![r] = [kind |-> "error", charge |-> None]]
        \/ /\ reply' = [reply EXCEPT ![r] = [kind |-> "created", charge |-> Row(r, "SUCCEEDED")]]
           /\ Row(r, "SUCCEEDED") \in charges'
    BY <1>3 DEF BuggyWrite, Answer
  <2>4. Row(r, "SUCCEEDED") \in ChargeRows
    BY <2>1 DEF Row, ChargeRows, Inputs
  <2>5. TypeOK'
    <3>1. balance' \in [Accounts -> Nat]
      BY <2>1, <2>2 DEF IInv, TypeOK
    <3>2. reply' \in [Requests -> Replies]
      BY <2>3, <2>4 DEF IInv, TypeOK, Replies
    <3> QED
      BY <2>1, <2>2, <2>4, <3>1, <3>2 DEF IInv, TypeOK
  <2>6. TransactionsCovered'
    BY <2>1, <2>2, NoneAssumption DEF IInv, TypeOK, TransactionsCovered
  <2>7. AtMostOneSuccess'
    BY <2>2 DEF IInv, AtMostOneSuccess, Succeeded, SucceededWith, Row
  <2>8. AnswersBacked'
    <3>1. charges \subseteq charges'
      BY <2>2
    <3>2. /\ pc'[r] = "done"
          /\ \A q \in Requests : q # r => pc'[q] = pc[q] /\ reply'[q] = reply[q]
      BY <2>1, <2>3 DEF IInv, TypeOK
    <3>3. reply'[r].kind \in {"created", "replayed"} =>
            CommittedFor(reply[r].charge, req[r].key, Fingerprint(r))'
      BY <2>1, <2>3 DEF IInv, TypeOK, CommittedFor, Fingerprint, Row
    <3> QED
      BY <2>1, <3>1, <3>2, <3>3, OneAnswerSettled DEF IInv
  <2> QED
    BY <2>5, <2>6, <2>7, <2>8 DEF IInv
<1> QED
  BY <1>1, <1>2, <1>3

\* A worker dies, or a database call raises: the transaction's locks go with it.
LEMMA FaultIInv ==
  ASSUME IInv, NEW r \in Requests, Crash(r) \/ DatabaseFails(r)
  PROVE  IInv'
<1>1. /\ pc[r] \in Running
      /\ req[r] \in Inputs
      /\ UNCHANGED <<backend, req, cache, balance, charges, seen>>
      /\ lockedBy' = [a \in Accounts |-> IF lockedBy[a] = r THEN None ELSE lockedBy[a]]
  BY DEF Crash, DatabaseFails, ReleaseRow, IInv, TypeOK
<1>2. PICK label \in {"done", "releasing"}, kind \in {"lost", "error"} :
        /\ pc' = [pc EXCEPT ![r] = label]
        /\ reply' = [reply EXCEPT ![r] = [kind |-> kind, charge |-> None]]
  BY DEF Crash, DatabaseFails, Answer, Raise
<1>3. TypeOK'
  <2>1. reply' \in [Requests -> Replies]
    BY <1>2 DEF IInv, TypeOK, Replies
  <2>2. pc' \in [Requests -> {"idle", "done"} \cup Running]
    BY <1>2 DEF IInv, TypeOK
  <2>3. \A q \in Requests : pc'[q] # "idle" => pc[q] # "idle"
    BY <1>1, <1>2 DEF IInv, TypeOK
  <2> QED
    BY <1>1, <2>1, <2>2, <2>3 DEF IInv, TypeOK
<1>4. /\ pc'[r] \notin {"idle", "charged", "debited", "declining", "sleeping"}
      /\ reply'[r].kind \notin {"created", "replayed"}
      /\ \A q \in Requests : q # r => pc'[q] = pc[q] /\ reply'[q] = reply[q]
  BY <1>2 DEF IInv, TypeOK
<1>5. TransactionsCovered'
  BY <1>1, <1>4 DEF IInv, TypeOK, TransactionsCovered
<1>6. AnswersBacked'
  BY <1>1, <1>4, OneAnswerSettled DEF IInv
<1>7. AtMostOneSuccess'
  BY <1>1 DEF IInv, AtMostOneSuccess, Succeeded
<1> QED
  BY <1>3, <1>5, <1>6, <1>7 DEF IInv

\* Restart: nothing is left running, nothing is left in the store.
LEMMA RestartIInv ==
  ASSUME IInv, Restart
  PROVE  IInv'
<1>1. /\ pc' = [r \in Requests |-> IF pc[r] \in Running THEN "done" ELSE pc[r]]
      /\ reply' = [r \in Requests |-> IF pc[r] \in Running
                     THEN [kind |-> "lost", charge |-> None] ELSE reply[r]]
      /\ cache' = [k \in Keys |-> None]
      /\ lockedBy' = [c \in Accounts |-> None]
      /\ UNCHANGED <<backend, req, balance, charges, seen>>
  BY DEF Restart
<1>2. \A r \in Requests : pc'[r] \in {"idle", "done"} /\ (pc'[r] = "idle" => pc[r] = "idle")
                                                      /\ (pc'[r] = "done" => pc[r] # "idle")
  BY <1>1 DEF IInv, TypeOK
<1>3. TypeOK'
  <2>1. reply' \in [Requests -> Replies]
    BY <1>1 DEF IInv, TypeOK, Replies
  <2> QED
    BY <1>1, <1>2, <2>1 DEF IInv, TypeOK
<1>4. TransactionsCovered' /\ AtMostOneSuccess'
  BY <1>1, <1>2 DEF IInv, TransactionsCovered, AtMostOneSuccess, Succeeded
<1>5. AnswersBacked'
  BY <1>1, <1>2 DEF IInv, AnswersBacked, CommittedFor, Fingerprint
<1> QED
  BY <1>3, <1>4, <1>5 DEF IInv

\* Every step of the system preserves the inductive invariant.
LEMMA NextIInv == IInv /\ [Next]_vars => IInv'
<1> SUFFICES ASSUME IInv, [Next]_vars
             PROVE  IInv'
  OBVIOUS
<1>1. ASSUME NEW r \in Requests, Receive(r)
      PROVE  IInv'
  BY <1>1, AcquireIInv, BuggyIInv DEF Receive
<1>2. ASSUME NEW r \in Requests, Step(r)
      PROVE  IInv'
  BY <1>2, HandleExistingIInv, DebitIInv, CommitIInv, DeclineIInv, RecordIInv, BuggyIInv DEF Step
<1>3. ASSUME NEW r \in Requests, Fault(r)
      PROVE  IInv'
  BY <1>3, FaultIInv, RecordIInv, AcquireIInv DEF Fault
<1>4. ASSUME NEW k \in Keys, Expire(k)
      PROVE  IInv'
  BY <1>4, ExpireIInv
<1>5. CASE UNCHANGED vars
  <2>1. TypeOK' /\ TransactionsCovered' /\ AtMostOneSuccess'
    BY <1>5 DEF vars, IInv, TypeOK, TransactionsCovered, AtMostOneSuccess, Succeeded
  <2>2. AnswersBacked'
    BY <1>5 DEF vars, IInv, AnswersBacked, CommittedFor, Fingerprint
  <2> QED
    BY <2>1, <2>2 DEF IInv
<1> QED
  BY <1>1, <1>2, <1>3, <1>4, <1>5, RestartIInv DEF Next

\* The inductive invariant holds of every reachable state.
THEOREM Invariance == Spec => []IInv
  BY InitIInv, NextIInv, PTL DEF Spec

\* Types, and with them no account ever overdrawn, on both routes.
THEOREM TypeCorrect == Spec => []TypeOK
<1>1. IInv => TypeOK
  BY DEF IInv
<1> QED
  BY <1>1, Invariance, PTL

\* One successful payment per idempotency key, on both routes, whatever expires,
\* fails, crashes or is retried.
THEOREM OneSuccessPerKey == Spec => []AtMostOneSuccess
<1>1. IInv => AtMostOneSuccess
  BY DEF IInv
<1> QED
  BY <1>1, Invariance, PTL

\* A client told of a charge, first-hand or by a replay, was told of a committed
\* row about its own key, customer and amount.
THEOREM RepliesAreBacked == Spec => []RepliesBacked
<1>1. IInv => RepliesBacked
  BY DEF IInv, AnswersBacked, RepliesBacked, Sent
<1> QED
  BY <1>1, Invariance, PTL

\* While no handler outlives its record, a key has one executor, and it is the
\* executor's own PROCESSING record that it will overwrite or delete.
THEOREM OneExecutorPerKey ==
  ASSUME ~HandlersOutliveTTL
  PROVE  Spec => []SingleExecutor
<1>1. Init => SingleExecutor
  BY DEF Init, SingleExecutor
<1>2. IInv /\ SingleExecutor /\ [Next]_vars => SingleExecutor'
  <2> SUFFICES ASSUME IInv, SingleExecutor, [Next]_vars
               PROVE  SingleExecutor'
    OBVIOUS
  <2>1. ASSUME NEW r \in Requests, NEW in \in Inputs, Acquire(r, in) \/ AcquireFails(r, in)
        PROVE  SingleExecutor'
    <3>1. CASE cache' = cache
      <4>1. /\ req' = [req EXCEPT ![r] = in]
            /\ pc'[r] \notin Executing
            /\ \A q \in Requests : q # r => pc'[q] = pc[q]
        BY <2>1, <3>1, NoneAssumption
          DEF Acquire, AcquireFails, SetnxSucceeds, Goto, Answer, IInv, TypeOK, Inputs, Records, Fingerprints
      <4> QED
        BY <3>1, <4>1 DEF SingleExecutor, IInv, TypeOK, Fingerprint
    <3>2. CASE cache' # cache
      <4> DEFINE record == [status |-> "PROCESSING", response |-> None,
                            fingerprint |-> [customer |-> in.customer, amount |-> in.amount]]
      <4>1. /\ req' = [req EXCEPT ![r] = in]
            /\ cache[in.key] = None
            /\ cache' = [cache EXCEPT ![in.key] = record]
            /\ pc'[r] \in {"charging", "done"}
            /\ \A q \in Requests : q # r => pc'[q] = pc[q]
        BY <2>1, <3>2
          DEF Acquire, AcquireFails, SetnxSucceeds, Goto, Answer, IInv, TypeOK, Inputs
      <4>2. record \in Records
        BY DEF Records, Fingerprints, Inputs
      <4>3. in.key \in Keys /\ record # None
        BY <4>2, NoneAssumption DEF Inputs
      <4>4. \A q \in Requests : q # r /\ pc[q] \in Executing => req[q].key # in.key
        BY <4>1 DEF SingleExecutor
      <4> QED
        BY <4>1, <4>3, <4>4 DEF SingleExecutor, IInv, TypeOK, Fingerprint
    <3> QED
      BY <3>1, <3>2
  <2>2. ASSUME NEW r \in Requests,
               UNCHANGED <<req, cache>>,
               pc'[r] \in Executing => pc[r] \in Executing,
               \A q \in Requests : q # r => pc'[q] = pc[q]
        PROVE  SingleExecutor'
    BY <2>2 DEF SingleExecutor, Fingerprint
  <2>3. ASSUME NEW r \in Requests,
               HandleExisting(r) \/ Debit(r) \/ Commit(r) \/ Decline(r)
                 \/ BuggyRead(r) \/ BuggyWrite(r) \/ Crash(r) \/ DatabaseFails(r)
        PROVE  SingleExecutor'
    <3>1. UNCHANGED <<req, cache>>
      BY <2>3 DEF HandleExisting, Debit, Commit, Decline, BuggyRead, BuggyWrite, Crash,
                  DatabaseFails
    <3>2. /\ pc'[r] \in Executing => pc[r] \in Executing
          /\ \A q \in Requests : q # r => pc'[q] = pc[q]
      BY <2>3 DEF HandleExisting, Debit, Commit, Decline, BuggyRead, BuggyWrite, Crash,
                  DatabaseFails, Answer, Raise, Goto, Charged, IInv, TypeOK
    <3> QED
      BY <2>2, <3>1, <3>2
  <2>4. ASSUME NEW r \in Requests, Release(r) \/ Complete(r) \/ CacheFails(r)
        PROVE  SingleExecutor'
    <3>1. /\ UNCHANGED req
          /\ pc' = [pc EXCEPT ![r] = "done"]
          /\ cache' = cache \/ pc[r] \in Executing
          /\ \A k \in Keys : k # req[r].key => cache'[k] = cache[k]
      BY <2>4 DEF Release, Complete, CacheFails, DeleteKey, StoreCompleted, Goto, Answer,
                  IInv, TypeOK
    <3>2. \A q \in Requests : q # r /\ pc[q] \in Executing =>
            req[q].key \in Keys /\ cache'[req[q].key] = cache[req[q].key]
      BY <3>1 DEF SingleExecutor, IInv, TypeOK, Inputs
    <3> QED
      BY <3>1, <3>2 DEF SingleExecutor, IInv, TypeOK, Fingerprint
  <2>5. ASSUME NEW k \in Keys, Expire(k)
        PROVE  SingleExecutor'
    BY <2>5 DEF Expire, MayExpire, SingleExecutor, IInv, TypeOK, Inputs, Fingerprint
  <2>6. ASSUME NEW r \in Requests, NEW in \in Inputs, BuggyReceive(r, in)
        PROVE  SingleExecutor'
    BY <2>6 DEF BuggyReceive, Goto, SingleExecutor, IInv, TypeOK, Fingerprint
  <2>7. CASE Restart
    BY <2>7 DEF Restart, SingleExecutor, IInv, TypeOK
  <2>8. CASE UNCHANGED vars
    BY <2>8 DEF vars, SingleExecutor, Fingerprint
  <2> QED
    BY <2>1, <2>3, <2>4, <2>5, <2>6, <2>7, <2>8 DEF Next, Receive, Step, Fault
<1> QED
  BY <1>1, <1>2, Invariance, PTL DEF Spec

\* Without the /buggy route the component implements the ledger: a commit is one
\* atomic payment, and every other step leaves balances and paid charges alone.
THEOREM ImplementsTheLedger ==
  ASSUME "buggy" \notin Routes
  PROVE  Spec => ImplementsLedger
<1> DEFINE NoBuggy == \A r \in Requests : pc[r] \notin {"reading", "sleeping"}
<1>1. Init => NoBuggy
  BY DEF Init
<1>2. IInv /\ NoBuggy /\ [Next]_vars => NoBuggy'
  <2> SUFFICES ASSUME IInv, NoBuggy, [Next]_vars, NEW r \in Requests
               PROVE  pc'[r] \notin {"reading", "sleeping"}
    OBVIOUS
  <2>1. ASSUME NEW q \in Requests, NEW in \in Inputs, Acquire(q, in) \/ AcquireFails(q, in)
        PROVE  pc'[r] \notin {"reading", "sleeping"}
    BY <2>1 DEF Acquire, AcquireFails, Goto, Answer, IInv, TypeOK
  <2>2. ASSUME NEW q \in Requests, NEW in \in Inputs
        PROVE  ~BuggyReceive(q, in)
    BY <2>2 DEF BuggyReceive, Inputs
  <2>3. ASSUME NEW q \in Requests, Step(q)
        PROVE  pc'[r] \notin {"reading", "sleeping"}
    BY <2>3 DEF Step, HandleExisting, Debit, Commit, Decline, Release, Complete, BuggyRead,
      BuggyWrite, Answer, Raise, Goto, Charged, IInv, TypeOK
  <2>4. ASSUME NEW q \in Requests, Crash(q) \/ DatabaseFails(q) \/ CacheFails(q)
        PROVE  pc'[r] \notin {"reading", "sleeping"}
    BY <2>4 DEF Crash, DatabaseFails, CacheFails, Answer, Raise, IInv, TypeOK
  <2>5. CASE (\E k \in Keys : Expire(k)) \/ Restart \/ UNCHANGED vars
    BY <2>5 DEF Expire, Restart, vars
  <2> QED
    BY <2>1, <2>2, <2>3, <2>4, <2>5 DEF Next, Receive, Fault
<1>3. Init => TheLedger!Init
  BY DEF Init, TheLedger!Init, Succeeded
<1>4. IInv /\ NoBuggy /\ [Next]_vars => [TheLedger!Next]_(TheLedger!ledgerVars)
  <2> SUFFICES ASSUME IInv, NoBuggy, [Next]_vars
               PROVE  TheLedger!Next \/ UNCHANGED <<balance, Succeeded>>
    BY DEF TheLedger!ledgerVars
  <2>1. ASSUME NEW r \in Requests, Commit(r)
        PROVE  TheLedger!Next \/ UNCHANGED <<balance, Succeeded>>
    <3>1. CASE UNCHANGED <<balance, charges>>
      BY <3>1 DEF Succeeded
    <3>2. CASE UniqueIndexAllows(req[r].key) /\ CommitCharge(r)
      <4> DEFINE c == req[r].customer
      <4>1. /\ c \in Accounts
            /\ req[r].key \in Keys
            /\ req[r].amount \in Amounts
            /\ balance[c] >= req[r].amount
        BY <2>1 DEF Commit, IInv, TypeOK, TransactionsCovered, Inputs
      <4>2. \A p \in Succeeded : p.key # req[r].key
        BY <3>2 DEF UniqueIndexAllows, SucceededWith, Succeeded
      <4>3. /\ balance' = [balance EXCEPT ![c] = @ - req[r].amount]
            /\ Succeeded' = Succeeded \cup
                 {[id |-> r, key |-> req[r].key, customer |-> c,
                   amount |-> req[r].amount, status |-> "SUCCEEDED"]}
        BY <3>2 DEF CommitCharge, Succeeded, Row
      <4>4. TheLedger!Pay(r, req[r].key, c, req[r].amount)
        BY <4>1, <4>2, <4>3 DEF TheLedger!Pay
      <4> QED
        BY <4>1, <4>4 DEF TheLedger!Next
    <3> QED
      BY <2>1, <3>1, <3>2 DEF Commit
  <2>2. ASSUME NEW r \in Requests, Decline(r)
        PROVE  UNCHANGED <<balance, Succeeded>>
    BY <2>2 DEF Decline, Succeeded, Row
  <2>3. ASSUME NEW r \in Requests, BuggyRead(r) \/ BuggyWrite(r)
        PROVE  FALSE
    BY <2>3 DEF BuggyRead, BuggyWrite
  <2>4. ASSUME NEW r \in Requests,
               Receive(r) \/ HandleExisting(r) \/ Debit(r) \/ Release(r) \/ Complete(r) \/ Fault(r)
        PROVE  UNCHANGED <<balance, Succeeded>>
    BY <2>4 DEF Receive, Acquire, BuggyReceive, HandleExisting, Debit, Release, Complete, Fault,
      Crash, DatabaseFails, CacheFails, AcquireFails, Succeeded
  <2>5. CASE (\E k \in Keys : Expire(k)) \/ Restart \/ UNCHANGED vars
    BY <2>5 DEF Expire, Restart, vars, Succeeded
  <2> QED
    BY <2>1, <2>2, <2>3, <2>4, <2>5 DEF Next, Step
<1> QED
  BY <1>1, <1>2, <1>3, <1>4, Invariance, PTL DEF Spec, ImplementsLedger, TheLedger!Spec
=============================================================================
