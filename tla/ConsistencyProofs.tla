------------------------- MODULE ConsistencyProofs -------------------------
(***************************************************************************)
(* Proofs about Consistency: what the log, the standbys and the            *)
(* acknowledgements only ever gain keeps every promise made before; so     *)
(* each action is a matter of the one client that takes it.                *)
(***************************************************************************)
EXTENDS Consistency, SequenceTheorems, TLAPS

----------------------------------------------------------------------------
(* Growth, and what it leaves true.                                        *)

Documents == {DocOf[c] : c \in Clients} \cup {Schema}

\* What no step takes back.
Grows ==
  /\ wal' \in Seq(Documents)
  /\ Len(wal) <= Len(wal')
  /\ \A p \in 1 .. Len(wal) : wal'[p] = wal[p]
  /\ \A s \in Standbys :
       /\ flushed'[s] \in Nat /\ flushed[s] <= flushed'[s]
       /\ replayed'[s] \in Nat /\ replayed[s] <= replayed'[s]
  /\ acked \subseteq acked'

Same(c) ==
  /\ pc'[c] = pc[c]
  /\ todo'[c] = todo[c]
  /\ commit'[c] = commit[c]
  /\ token'[c] = token[c]
  /\ seen'[c] = seen[c]
  /\ fresh'[c] = fresh[c]
  /\ version'[c] = version[c]
  /\ due'[c] = due[c]

LEMMA Lengths ==
  ASSUME TypeOK
  PROVE  /\ Len(wal) \in Nat
         /\ \A s \in Standbys : flushed[s] \in Nat /\ replayed[s] \in Nat
         /\ \A c \in Clients : commit[c] \in Nat /\ token[c] \in Nat /\ seen[c] \in Nat
              /\ version[c] \in Nat
BY DEF TypeOK

LEMMA CallTypes ==
  ASSUME TypeOK, NEW c \in Clients, todo[c] # <<>>
  PROVE  /\ Call(c) \in Calls
         /\ Tail(todo[c]) \in Seq(Calls)
         /\ Call(c).op = "write" => Call(c).durability \in {"quorum", "async"}
         /\ Call(c).op # "write" => Call(c).node \in Standbys \cup {Primary}
<1>1. todo[c] \in Seq(Calls)
  BY DEF TypeOK
<1>2. Head(todo[c]) \in Calls /\ Tail(todo[c]) \in Seq(Calls)
  BY <1>1
<1> QED
  BY <1>2 DEF Call, Calls

\* A client that does not move is as well off as before.
LEMMA Frame ==
  ASSUME TypeOK, Grows, NEW c \in Clients, ClientOK(c), Same(c)
  PROVE  ClientOK(c)'
<1> USE Lengths DEF Same, Grows
<1>1. InCall(c)'
  BY DEF ClientOK, InCall, ReadingAt, Call, Node
<1>2. Recorded(c)'
  <2>1. commit[c] \in 0 .. Len(wal)
    BY DEF TypeOK
  <2>2. \A p \in Nat : Acknowledged(p) => Acknowledged(p)'
    BY DEF Acknowledged
  <2> QED
    BY <2>1, <2>2 DEF ClientOK, Recorded, Written, Call
<1>3. /\ Node(c)' = Node(c)
      /\ pc[c] \in ReadingAt => Node(c) \in Standbys \cup {Primary}
  BY CallTypes DEF ClientOK, InCall, Node, Call
<1>4. Covered(c)'
  <2>1. /\ seen[c] \in 0 .. Len(wal) /\ version[c] \in 0 .. Len(wal)
        /\ token[c] \in Nat
    BY DEF TypeOK
  <2>2. seen'[c] <= token'[c] /\ (seen'[c] > 0 => wal'[seen'[c]] = DocOf[c])
    BY <2>1 DEF ClientOK, Covered
  <2>3. ASSUME pc[c] = "stamping"
        PROVE  /\ version'[c] <= NodeLsn(Node(c))'
               /\ version'[c] > 0 => wal'[version'[c]] = DocOf[c]
    <3>1. /\ version[c] <= NodeLsn(Node(c))
          /\ version[c] > 0 => wal[version[c]] = DocOf[c]
      BY <2>3 DEF ClientOK, Covered
    <3>2. NodeLsn(Node(c)) \in Nat /\ NodeLsn(Node(c))' \in Nat
          /\ NodeLsn(Node(c)) <= NodeLsn(Node(c))'
      BY <1>3, <2>3 DEF NodeLsn, ReadingAt
    <3> QED
      BY <2>1, <3>1, <3>2
  <2> QED
    BY <2>2, <2>3 DEF Covered
<1>5. CaughtUp(c)'
  <2> SUFFICES ASSUME pc[c] \in {"reading", "stamping"}, fresh[c] = "yes"
               PROVE  /\ Node(c) # Primary
                      /\ token[c] <= replayed'[Node(c)]
                      /\ pc[c] = "stamping" => seen[c] <= version[c]
    BY <1>3 DEF CaughtUp
  <2>1. /\ Node(c) # Primary
        /\ token[c] <= replayed[Node(c)]
        /\ pc[c] = "stamping" => seen[c] <= version[c]
    BY DEF ClientOK, CaughtUp
  <2>2. Node(c) \in Standbys
    BY <1>3, <2>1 DEF ReadingAt
  <2> QED
    BY <2>1, <2>2
<1>6. Claiming(c)'
  <2>1. due[c] \subseteq 1 .. Len(wal)
    BY DEF TypeOK
  <2> QED
    BY <1>3, <2>1 DEF ClientOK, Claiming
<1> QED
  BY <1>1, <1>2, <1>4, <1>5, <1>6 DEF ClientOK

\* Nor is anything lost while no new commit is written or acknowledged.
LEMMA CommitsFrame ==
  ASSUME CommitsOK, UNCHANGED <<commit, acked>>,
         \A c \in Clients : pc'[c] \in Written => pc[c] \in Written
  PROVE  CommitsOK'
BY DEF CommitsOK

LEMMA QuorumFrame ==
  ASSUME TypeOK, QuorumSurvives, Grows, UNCHANGED acked
  PROVE  QuorumSurvives'
<1> SUFFICES ASSUME NEW a \in acked, a.durability = "quorum"
             PROVE  \E s \in Standbys : flushed'[s] >= a.version
  BY DEF QuorumSurvives, Acknowledged
<1>1. PICK s \in Standbys : flushed[s] >= a.version
  BY DEF QuorumSurvives, Acknowledged
<1>2. a.version \in Nat
  BY DEF TypeOK
<1> QED
  BY <1>1, <1>2, Lengths DEF Grows

Others(c) == \A q \in Clients \ {c} : Same(q)

\* A step in which one client moves and neither commits nor acknowledges.
LEMMA ClientStep ==
  ASSUME IInv, TypeOK', Grows, NEW c \in Clients, Others(c), ClientOK(c)',
         UNCHANGED <<boot, attempt, commit, acked>>,
         pc'[c] \in Written => pc[c] \in Written
  PROVE  IInv'
<1>1. StartupOK'
  BY DEF IInv, StartupOK
<1>2. ASSUME NEW q \in Clients
      PROVE  ClientOK(q)'
  BY <1>2, Frame DEF IInv, Others
<1>3. CommitsOK'
  BY CommitsFrame DEF IInv, Others, Same
<1>4. QuorumSurvives'
  BY QuorumFrame DEF IInv
<1> QED
  BY <1>1, <1>2, <1>3, <1>4 DEF IInv

LEMMA NothingGrows ==
  ASSUME TypeOK, UNCHANGED <<cluster, acked>>
  PROVE  Grows
BY DEF TypeOK, cluster, Grows, Documents

----------------------------------------------------------------------------
(* The steps of a call that leave log and acknowledgements alone.          *)

LEMMA ReceiveWriteKeeps ==
  ASSUME IInv, NEW c \in Clients, ReceiveWrite(c)
  PROVE  IInv'
<1> USE DEF ReceiveWrite, Goto, startup, session, reading
<1>1. Grows
  BY NothingGrows DEF IInv
<1>2. TypeOK'
  BY DEF IInv, TypeOK, cluster, Serving, Writing, ReadingAt
<1>3. Others(c)
  BY DEF IInv, TypeOK, Others, Same
<1>4. pc'[c] = "queued"
  BY DEF IInv, TypeOK
<1>5. ClientOK(c)'
  BY <1>4 DEF IInv, ClientOK, InCall, Recorded, Covered, CaughtUp, Claiming, Pooled, Writing,
    ReadingAt, Written, Hiding, Call, cluster
<1> QED
  BY <1>1, <1>2, <1>3, <1>4, <1>5, ClientStep DEF Written, Hiding

LEMMA ReceiveReadKeeps ==
  ASSUME IInv, NEW c \in Clients, ReceiveRead(c)
  PROVE  IInv'
<1> USE DEF ReceiveRead, StartRead, Goto, startup, session
<1>1. Grows
  BY NothingGrows DEF IInv
<1>2. Call(c) \in Calls /\ Call(c).node \in Standbys \cup {Primary}
  BY CallTypes DEF IInv
<1>3. Claims(DocOf[c], Node(c)) \subseteq 1 .. Len(wal)
  BY DEF IInv, TypeOK, Claims
<1>4. TypeOK'
  BY <1>3 DEF IInv, TypeOK, cluster, Serving, Writing, ReadingAt, Node
<1>5. Others(c)
  BY DEF IInv, TypeOK, Others, Same
<1>6. /\ pc'[c] = (IF Waits(c) THEN "waiting" ELSE "reading")
      /\ fresh'[c] = "none"
      /\ due'[c] = Claims(DocOf[c], Node(c))
  BY DEF IInv, TypeOK, Node
<1>7. ClientOK(c)'
  <2>1. InCall(c)' /\ Recorded(c)' /\ Covered(c)' /\ CaughtUp(c)'
    BY <1>6 DEF IInv, ClientOK, InCall, Recorded, Covered, CaughtUp, Pooled, Writing, ReadingAt,
      Written, Hiding, Call, Node, Waits, cluster
  <2>2. Claiming(c)'
    BY <1>6 DEF cluster, Claiming, Claims, Call, Node
  <2> QED
    BY <2>1, <2>2 DEF ClientOK
<1> QED
  BY <1>1, <1>4, <1>5, <1>6, <1>7, ClientStep DEF Written, Hiding

LEMMA BeginKeeps ==
  ASSUME IInv, NEW c \in Clients, Begin(c)
  PROVE  IInv'
<1> USE DEF Begin, Goto, startup, session, reading
<1>1. Grows
  BY NothingGrows DEF IInv
<1>2. TypeOK'
  BY DEF IInv, TypeOK, cluster, Serving, Writing, Pooled
<1>3. Others(c)
  BY DEF IInv, TypeOK, Others, Same
<1>4. pc'[c] = "locking"
  BY DEF IInv, TypeOK
<1>5. ClientOK(c)'
  BY <1>4 DEF IInv, ClientOK, InCall, Recorded, Covered, CaughtUp, Claiming, Pooled, Writing,
    ReadingAt, Written, Hiding, Call, cluster
<1> QED
  BY <1>1, <1>2, <1>3, <1>4, <1>5, ClientStep DEF Written, Hiding

LEMMA UpsertKeeps ==
  ASSUME IInv, NEW c \in Clients, Upsert(c)
  PROVE  IInv'
<1> USE DEF Upsert, Goto, startup, session, reading
<1>1. Grows
  BY NothingGrows DEF IInv
<1>2. TypeOK'
  BY DEF IInv, TypeOK, cluster, Serving, Writing, Pooled
<1>3. Others(c)
  BY DEF IInv, TypeOK, Others, Same
<1>4. pc'[c] = "locked"
  BY DEF IInv, TypeOK
<1>5. ClientOK(c)'
  BY <1>4 DEF IInv, ClientOK, InCall, Recorded, Covered, CaughtUp, Claiming, Pooled, Writing,
    ReadingAt, Written, Hiding, Call, cluster
<1> QED
  BY <1>1, <1>2, <1>3, <1>4, <1>5, ClientStep DEF Written, Hiding

LEMMA CommitAcknowledgedKeeps ==
  ASSUME IInv, NEW c \in Clients, CommitAcknowledged(c)
  PROVE  IInv'
<1> USE DEF CommitAcknowledged, Goto, startup, session, reading
<1>1. Grows
  BY NothingGrows DEF IInv
<1>2. TypeOK'
  BY DEF IInv, TypeOK, cluster, Serving, Writing, Pooled
<1>3. Others(c)
  BY DEF IInv, TypeOK, Others, Same
<1>4. pc'[c] = "committed"
  BY DEF IInv, TypeOK
<1>5. ClientOK(c)'
  BY <1>4 DEF IInv, ClientOK, InCall, Recorded, Covered, CaughtUp, Claiming, Pooled, Writing,
    ReadingAt, Written, Hiding, Call, Acknowledged, cluster
<1> QED
  BY <1>1, <1>2, <1>3, <1>4, <1>5, ClientStep DEF Written, Hiding

LEMMA WorkerDiesKeeps ==
  ASSUME IInv, NEW c \in Clients, WorkerDies(c)
  PROVE  IInv'
<1> USE DEF WorkerDies, Goto, startup, session, reading
<1>1. Grows
  BY NothingGrows DEF IInv
<1>2. TypeOK'
  BY DEF IInv, TypeOK, cluster, Serving, Writing, Pooled
<1>3. Others(c)
  BY DEF IInv, TypeOK, Others, Same
<1>4. pc'[c] = "orphaned"
  BY DEF IInv, TypeOK
<1>5. ClientOK(c)'
  BY <1>4 DEF IInv, ClientOK, InCall, Recorded, Covered, CaughtUp, Claiming, Pooled, Writing,
    ReadingAt, Written, Hiding, Call, cluster
<1> QED
  BY <1>1, <1>2, <1>3, <1>4, <1>5, ClientStep DEF Written, Hiding

\* However a call fails, nothing is claimed any more.
LEMMA EndKeeps ==
  ASSUME IInv, NEW c \in Clients, NEW label \in {"failed", "refused"}, End(c, label),
         UNCHANGED <<startup, cluster, commit, session>>
  PROVE  IInv'
<1> USE DEF End, Forget, Goto, startup, session
<1>1. Grows
  BY NothingGrows DEF IInv
<1>2. TypeOK'
  BY DEF IInv, TypeOK, cluster
<1>3. Others(c)
  BY DEF IInv, TypeOK, Others, Same
<1>4. pc'[c] = label
  BY DEF IInv, TypeOK
<1>5. ClientOK(c)'
  BY <1>4 DEF IInv, ClientOK, InCall, Recorded, Covered, CaughtUp, Claiming, Pooled, Writing,
    ReadingAt, Written, Hiding, cluster
<1> QED
  BY <1>1, <1>2, <1>3, <1>4, <1>5, ClientStep DEF Written, Hiding

LEMMA FailureKeeps ==
  ASSUME IInv, NEW c \in Clients,
         PoolTimeout(c) \/ StatementFails(c) \/ NoTable(c) \/ OrphanAcknowledged(c)
  PROVE  IInv'
BY EndKeeps DEF Raise, PoolTimeout, StatementFails, NoTable, OrphanAcknowledged

LEMMA LsnReachedKeeps ==
  ASSUME IInv, NEW c \in Clients, LsnReached(c)
  PROVE  IInv'
<1> USE DEF LsnReached, Goto, startup, session
<1>1. Grows
  BY NothingGrows DEF IInv
<1>2. TypeOK'
  BY DEF IInv, TypeOK, cluster, Serving, Writing, ReadingAt
<1>3. Others(c)
  BY DEF IInv, TypeOK, Others, Same
<1>4. pc'[c] = "reading" /\ fresh'[c] = "yes"
  BY DEF IInv, TypeOK
<1>5. ClientOK(c)'
  <2>1. Node(c) \in Standbys
    BY CallTypes DEF IInv, ClientOK, InCall, ReadingAt, Node
  <2>2. token[c] <= replayed[Node(c)]
    BY <2>1, Lengths DEF IInv, ReachedUpTo
  <2> QED
    BY <1>4, <2>1, <2>2, StandbysAssumption DEF IInv, ClientOK, InCall, Recorded, Covered,
      CaughtUp, Claiming, Pooled, Writing, ReadingAt, Written, Hiding, Call, Node, cluster
<1> QED
  BY <1>1, <1>2, <1>3, <1>4, <1>5, ClientStep DEF Written, Hiding

LEMMA WaitTimeoutKeeps ==
  ASSUME IInv, NEW c \in Clients, WaitTimeout(c)
  PROVE  IInv'
<1> USE DEF WaitTimeout, Goto, startup, session
<1>1. Grows
  BY NothingGrows DEF IInv
<1>2. TypeOK'
  BY DEF IInv, TypeOK, cluster, Serving, Writing, ReadingAt
<1>3. Others(c)
  BY DEF IInv, TypeOK, Others, Same
<1>4. pc'[c] = "reading" /\ fresh'[c] = "no"
  BY DEF IInv, TypeOK
<1>5. ClientOK(c)'
  BY <1>4 DEF IInv, ClientOK, InCall, Recorded, Covered,
    CaughtUp, Claiming, Pooled, Writing, ReadingAt, Written, Hiding, Call, Node, cluster
<1> QED
  BY <1>1, <1>2, <1>3, <1>4, <1>5, ClientStep DEF Written, Hiding

----------------------------------------------------------------------------
(* Reading a document, and answering with it.                              *)

LEMMA GetDocumentKeeps ==
  ASSUME IInv, NEW c \in Clients, GetDocument(c)
  PROVE  IInv'
<1> USE DEF GetDocument, Goto, startup, session
<1>1. Grows
  BY NothingGrows DEF IInv
<1>2. PICK v \in 0 .. Len(wal) :
        Newest(DocOf[c], Shown(Node(c)), v) /\ version' = [version EXCEPT ![c] = v]
  OBVIOUS
<1>3. TypeOK'
  BY <1>2 DEF IInv, TypeOK, cluster, Serving, Writing, ReadingAt
<1>4. Others(c)
  BY <1>2 DEF IInv, TypeOK, Others, Same
<1>5. pc'[c] = "stamping" /\ version'[c] = v
  BY <1>2 DEF IInv, TypeOK
<1>6. /\ UNCHANGED <<wal, replayed, commit, acked, boot, attempt>>
      /\ todo'[c] = todo[c] /\ token'[c] = token[c] /\ seen'[c] = seen[c]
      /\ fresh'[c] = fresh[c] /\ due'[c] = due[c]
  BY DEF cluster
<1>7. Node(c)' = Node(c) /\ Node(c) \in Standbys \cup {Primary}
  BY CallTypes DEF IInv, ClientOK, InCall, ReadingAt, Node, Call
<1>8. \A p \in Shown(Node(c)) : wal[p] = DocOf[c] => p <= v
  BY <1>2 DEF Newest
<1>9. InCall(c)' /\ Recorded(c)'
  BY <1>5 DEF IInv, ClientOK, InCall, Recorded, Pooled, Writing, ReadingAt, Written, Hiding, Call
<1>10. Covered(c)'
  <2>1. v > 0 => v \in Shown(Node(c)) /\ wal[v] = DocOf[c]
    BY <1>2 DEF Newest
  <2>2. v <= NodeLsn(Node(c))
    BY <1>7, <2>1, Lengths DEF IInv, Shown, NodeLsn
  <2> QED
    BY <1>5, <1>6, <1>7, <2>1, <2>2 DEF IInv, ClientOK, Covered, NodeLsn
<1>11. CaughtUp(c)'
  <2> SUFFICES ASSUME fresh[c] = "yes"
               PROVE  Node(c) # Primary /\ token[c] <= replayed[Node(c)] /\ seen[c] <= v
    BY <1>5, <1>6, <1>7 DEF CaughtUp
  <2>1. Node(c) # Primary /\ token[c] <= replayed[Node(c)]
    BY DEF IInv, ClientOK, CaughtUp
  <2>2. seen[c] <= token[c] /\ (seen[c] > 0 => wal[seen[c]] = DocOf[c])
    BY DEF IInv, ClientOK, Covered
  <2>3. seen[c] > 0 => seen[c] \in Shown(Node(c))
    BY <1>7, <2>1, <2>2, Lengths DEF IInv, Shown
  <2> QED
    BY <1>8, <2>1, <2>2, <2>3, Lengths DEF IInv
<1>12. Claiming(c)'
  <2> SUFFICES ASSUME NEW w \in due[c]
               PROVE  /\ Node(c) = Primary /\ wal[w] = DocOf[c]
                      /\ (\E a \in acked : a.version = w) /\ w <= v
    BY <1>5, <1>6, <1>7 DEF Claiming
  <2>1. /\ Node(c) = Primary /\ wal[w] = DocOf[c]
        /\ \E a \in acked : a.version = w
    BY DEF IInv, ClientOK, Claiming, ReadingAt
  <2>2. w \in 1 .. Len(wal)
    BY DEF IInv, TypeOK
  <2>3. w \notin Hidden
    BY <2>1 DEF IInv, CommitsOK, Written, Hidden
  <2> QED
    BY <1>8, <2>1, <2>2, <2>3 DEF Shown
<1>13. ClientOK(c)'
  BY <1>9, <1>10, <1>11, <1>12 DEF ClientOK
<1> QED
  BY <1>1, <1>3, <1>4, <1>5, <1>6, <1>13, ClientStep DEF Written, Hiding

LEMMA AnswerReadKeeps ==
  ASSUME IInv, NEW c \in Clients, AnswerRead(c)
  PROVE  IInv'
<1> USE DEF AnswerRead, Told, StartRead, Forget, Goto, startup
<1>1. Grows
  BY NothingGrows DEF IInv
<1>2. Call(c) \in Calls /\ Node(c) \in Standbys \cup {Primary} /\ Tail(todo[c]) \in Seq(Calls)
  BY CallTypes DEF IInv, ClientOK, InCall, ReadingAt, Node
<1>3. NodeLsn(Node(c)) \in 0 .. Len(wal)
  BY <1>2, Lengths DEF IInv, TypeOK, NodeLsn
<1>4. /\ version[c] \in 0 .. Len(wal) /\ version[c] <= NodeLsn(Node(c))
      /\ version[c] > 0 => wal[version[c]] = DocOf[c]
  BY DEF IInv, TypeOK, ClientOK, Covered
<1>5. Claims(DocOf[c], Node(c)) \subseteq 1 .. Len(wal)
  BY DEF IInv, TypeOK, Claims
<1>6. \/ /\ token' = [token EXCEPT ![c] = Larger(token[c], NodeLsn(Node(c)))]
         /\ seen' = [seen EXCEPT ![c] = Larger(seen[c], version[c])]
      \/ UNCHANGED <<token, seen>>
  OBVIOUS
<1>7. \/ /\ UNCHANGED todo
         /\ due' = [due EXCEPT ![c] = Claims(DocOf[c], Node(c))]
         /\ pc' = [pc EXCEPT ![c] = IF Waits(c) THEN "waiting" ELSE "reading"]
      \/ /\ todo' = [todo EXCEPT ![c] = Tail(todo[c])]
         /\ due' = [due EXCEPT ![c] = {}]
         /\ pc' = [pc EXCEPT ![c] = "idle"]
  BY DEF Node
<1>8. TypeOK'
  <2>1. token' \in [Clients -> 0 .. Len(wal)] /\ seen' \in [Clients -> 0 .. Len(wal)]
    <3>1. CASE UNCHANGED <<token, seen>>
      BY <3>1 DEF IInv, TypeOK
    <3>2. CASE /\ token' = [token EXCEPT ![c] = Larger(token[c], NodeLsn(Node(c)))]
               /\ seen' = [seen EXCEPT ![c] = Larger(seen[c], version[c])]
      BY <1>3, <1>4, <3>2 DEF IInv, TypeOK, Larger
    <3> QED
      BY <1>6, <3>1, <3>2
  <2>2. todo' \in [Clients -> Seq(Calls)]
    BY <1>2, <1>7 DEF IInv, TypeOK
  <2>3. due' \in [Clients -> SUBSET (1 .. Len(wal))]
    BY <1>5, <1>7 DEF IInv, TypeOK
  <2>4. pc' \in [Clients -> {"idle", "failed", "refused", "orphaned"} \cup Serving]
    BY <1>7 DEF IInv, TypeOK, Serving, Writing, ReadingAt
  <2>5. fresh' = [fresh EXCEPT ![c] = "none"] /\ version' = [version EXCEPT ![c] = 0]
    OBVIOUS
  <2>6. fresh' \in [Clients -> {"yes", "no", "none"}]
    BY <2>5 DEF IInv, TypeOK
  <2>7. 0 \in 0 .. Len(wal)
    BY Lengths DEF IInv
  <2>8. version' \in [Clients -> 0 .. Len(wal)]
    BY <2>5, <2>7 DEF IInv, TypeOK
  <2> QED
    BY <2>1, <2>2, <2>3, <2>4, <2>6, <2>8 DEF IInv, TypeOK, cluster
<1>9. Others(c)
  BY <1>7 DEF IInv, TypeOK, Others, Same
<1>10. fresh'[c] = "none"
  BY DEF IInv, TypeOK
<1>11. Covered(c)'
  <2>1. pc'[c] # "stamping"
    BY <1>7 DEF IInv, TypeOK
  <2>2. seen[c] <= token[c] /\ (seen[c] > 0 => wal[seen[c]] = DocOf[c])
    BY DEF IInv, ClientOK, Covered
  <2>3. seen'[c] <= token'[c] /\ (seen'[c] > 0 => wal[seen'[c]] = DocOf[c])
    <3>1. CASE UNCHANGED <<token, seen>>
      BY <2>2, <3>1
    <3>2. CASE /\ token' = [token EXCEPT ![c] = Larger(token[c], NodeLsn(Node(c)))]
               /\ seen' = [seen EXCEPT ![c] = Larger(seen[c], version[c])]
      <4>1. /\ token'[c] = Larger(token[c], NodeLsn(Node(c)))
            /\ seen'[c] = Larger(seen[c], version[c])
        BY <3>2 DEF IInv, TypeOK
      <4>2. seen'[c] <= token'[c]
        BY <1>3, <1>4, <2>2, <4>1, Lengths DEF IInv, Larger
      <4> QED
        BY <1>4, <2>2, <4>1, <4>2 DEF Larger
    <3> QED
      BY <1>6, <3>1, <3>2
  <2> QED
    BY <2>1, <2>3 DEF Covered, cluster
<1>12. InCall(c)' /\ Recorded(c)' /\ Claiming(c)'
  <2>1. CASE UNCHANGED todo
             /\ due' = [due EXCEPT ![c] = Claims(DocOf[c], Node(c))]
             /\ pc' = [pc EXCEPT ![c] = IF Waits(c) THEN "waiting" ELSE "reading"]
    <3>1. pc'[c] = (IF Waits(c) THEN "waiting" ELSE "reading")
          /\ due'[c] = Claims(DocOf[c], Node(c)) /\ todo'[c] = todo[c]
      BY <2>1 DEF IInv, TypeOK
    <3>2. InCall(c)' /\ Recorded(c)'
      BY <3>1 DEF IInv, ClientOK, InCall, Recorded, Pooled, Writing, ReadingAt, Written, Hiding,
        Call, Node, Waits
    <3>3. Claiming(c)'
      BY <3>1 DEF cluster, Claiming, Claims, Call, Node
    <3> QED
      BY <3>2, <3>3
  <2>2. CASE pc' = [pc EXCEPT ![c] = "idle"]
    <3>1. pc'[c] = "idle"
      BY <2>2 DEF IInv, TypeOK
    <3> QED
      BY <3>1 DEF InCall, Recorded, Claiming, Pooled, Writing, ReadingAt, Written, Hiding
  <2> QED
    BY <1>7, <2>1, <2>2
<1>13. ClientOK(c)'
  BY <1>10, <1>11, <1>12 DEF ClientOK, CaughtUp
<1>14. pc'[c] \notin Written
  BY <1>7 DEF IInv, TypeOK, Written, Hiding
<1> QED
  BY <1>1, <1>8, <1>9, <1>13, <1>14, ClientStep

----------------------------------------------------------------------------
(* Commit records and acknowledgements.                                    *)

LEMMA Appending ==
  ASSUME TypeOK, NEW d \in Documents, wal' = Append(wal, d),
         UNCHANGED <<flushed, replayed, acked>>
  PROVE  /\ Grows
         /\ Len(wal') = Len(wal) + 1
         /\ wal'[Len(wal) + 1] = d
<1>1. wal \in Seq(Documents)
  BY DEF TypeOK, Documents
<1> QED
  BY <1>1, Lengths DEF Grows

\* Everything that ranges over the log may range over a longer one.
LEMMA LongerLog ==
  ASSUME TypeOK, Grows, UNCHANGED <<pool, flushed, replayed, paused, todo, token, seen, acked>>,
         boot' \in {"creating", "syncing", "serving", "failed"}, attempt' \in 0 .. MaxAttempts,
         pc' \in [Clients -> {"idle", "failed", "refused", "orphaned"} \cup Serving],
         commit' \in [Clients -> 0 .. Len(wal')],
         fresh' \in [Clients -> {"yes", "no", "none"}],
         \A c \in Clients : version'[c] \in {version[c], 0} /\ due'[c] \in {due[c], {}},
         version' = [c \in Clients |-> version'[c]], due' = [c \in Clients |-> due'[c]]
  PROVE  TypeOK'
<1>1. Len(wal) \in Nat /\ Len(wal') \in Nat /\ Len(wal) <= Len(wal')
  BY Lengths DEF Grows
<1>2. 0 .. Len(wal) \subseteq 0 .. Len(wal') /\ 1 .. Len(wal) \subseteq 1 .. Len(wal')
  BY <1>1
<1>3. /\ flushed' \in [Standbys -> 0 .. Len(wal')]
      /\ token' \in [Clients -> 0 .. Len(wal')]
      /\ seen' \in [Clients -> 0 .. Len(wal')]
  BY <1>2 DEF TypeOK
<1>4. version' \in [Clients -> 0 .. Len(wal')]
  BY <1>2 DEF TypeOK
<1>5. due' \in [Clients -> SUBSET (1 .. Len(wal'))]
  BY <1>2 DEF TypeOK
<1>6. acked' \subseteq [version : 1 .. Len(wal'), durability : {"quorum", "async"}]
  BY <1>2 DEF TypeOK
<1> QED
  BY <1>3, <1>4, <1>5, <1>6 DEF TypeOK, Grows, Documents

LEMMA RecordStep ==
  ASSUME IInv, NEW c \in Clients, WriteRecord(c), Others(c), TypeOK', ClientOK(c)',
         UNCHANGED <<boot, attempt, flushed, replayed, acked>>
  PROVE  IInv'
<1>1. Grows /\ Len(wal') = Len(wal) + 1
  BY Appending DEF IInv, WriteRecord, Documents
<1>2. StartupOK'
  BY DEF IInv, StartupOK
<1>3. ASSUME NEW q \in Clients
      PROVE  ClientOK(q)'
  BY <1>1, <1>3, Frame DEF IInv, Others
<1>4. CommitsOK'
  <2>1. /\ commit'[c] = Len(wal) + 1
        /\ \A q \in Clients \ {c} : commit'[q] = commit[q] /\ pc'[q] = pc[q]
        /\ \A q \in Clients : commit[q] \in 0 .. Len(wal)
    BY DEF IInv, TypeOK, WriteRecord, Others, Same
  <2>2. \A a \in acked : a.version \in 1 .. Len(wal)
    BY DEF IInv, TypeOK
  <2>3. Len(wal) \in Nat /\ acked' = acked
    BY Lengths DEF IInv
  <2>4. ASSUME NEW q \in Clients, NEW p \in Clients, commit'[q] = commit'[p], commit'[q] > 0
        PROVE  q = p
    BY <2>1, <2>3, <2>4 DEF IInv, CommitsOK
  <2>5. ASSUME NEW a \in acked, NEW q \in Clients, commit'[q] = a.version
        PROVE  pc'[q] \notin Written
    <3>1. q # c
      BY <2>1, <2>2, <2>3, <2>5
    <3> QED
      BY <2>1, <2>5, <3>1 DEF IInv, CommitsOK
  <2> QED
    BY <2>3, <2>4, <2>5 DEF CommitsOK
<1>5. QuorumSurvives'
  BY <1>1, QuorumFrame DEF IInv
<1> QED
  BY <1>2, <1>3, <1>4, <1>5 DEF IInv

LEMMA CommitKeeps ==
  ASSUME IInv, NEW c \in Clients, Commit(c)
  PROVE  IInv'
<1> USE DEF Commit, Goto, startup, session, reading
<1>1. Grows /\ Len(wal') = Len(wal) + 1 /\ wal'[Len(wal) + 1] = DocOf[c]
  BY Appending DEF IInv, WriteRecord, Documents
<1>2. Others(c)
  BY DEF IInv, TypeOK, Others, Same, WriteRecord
<1>3. pc'[c] = (IF WaitsForStandby(c) THEN "syncing" ELSE "committed")
      /\ commit'[c] = Len(wal) + 1
  BY DEF IInv, TypeOK, WriteRecord
<1>4. TypeOK'
  <2>1. pc' \in [Clients -> {"idle", "failed", "refused", "orphaned"} \cup Serving]
    BY DEF IInv, TypeOK, Serving, Writing, Pooled
  <2>2. commit' \in [Clients -> 0 .. Len(wal')]
    BY <1>1, Lengths DEF IInv, TypeOK, WriteRecord
  <2> QED
    BY <1>1, <2>1, <2>2, LongerLog DEF IInv, TypeOK
<1>5. ClientOK(c)'
  <2>1. InCall(c)'
    BY <1>3 DEF IInv, ClientOK, InCall, Pooled, Writing, ReadingAt, Call, Node
  <2>2. Recorded(c)'
    BY <1>1, <1>3, Lengths DEF IInv, Recorded, Written, Hiding, WaitsForStandby, Call
  <2>3. Covered(c)'
    <3>1. pc'[c] # "stamping" /\ seen'[c] = seen[c] /\ token'[c] = token[c]
      BY <1>3
    <3>2. seen[c] \in 0 .. Len(wal)
      BY DEF IInv, TypeOK
    <3>3. seen[c] > 0 => wal'[seen[c]] = wal[seen[c]]
      BY <1>1, <3>2, Lengths DEF IInv, Grows
    <3> QED
      BY <3>1, <3>3 DEF IInv, ClientOK, Covered
  <2> QED
    BY <1>3, <2>1, <2>2, <2>3 DEF ClientOK, CaughtUp, Claiming, ReadingAt
<1> QED
  BY <1>2, <1>4, <1>5, RecordStep

LEMMA CommitUnansweredKeeps ==
  ASSUME IInv, NEW c \in Clients, CommitUnanswered(c)
  PROVE  IInv'
<1> USE DEF CommitUnanswered, Raise, End, Forget, Goto, startup, session
<1>1. Grows /\ Len(wal') = Len(wal) + 1
  BY Appending DEF IInv, WriteRecord, Documents
<1>2. Others(c)
  BY DEF IInv, TypeOK, Others, Same, WriteRecord
<1>3. pc'[c] = "failed"
  BY DEF IInv, TypeOK
<1>4. TypeOK'
  <2>1. /\ pc' \in [Clients -> {"idle", "failed", "refused", "orphaned"} \cup Serving]
        /\ fresh' \in [Clients -> {"yes", "no", "none"}]
    BY DEF IInv, TypeOK
  <2>2. commit' \in [Clients -> 0 .. Len(wal')]
    BY <1>1, Lengths DEF IInv, TypeOK, WriteRecord
  <2> QED
    BY <1>1, <2>1, <2>2, LongerLog DEF IInv, TypeOK
<1>5. ClientOK(c)'
  <2>1. Covered(c)'
    <3>1. pc'[c] # "stamping" /\ seen'[c] = seen[c] /\ token'[c] = token[c]
      BY <1>3
    <3>2. seen[c] \in 0 .. Len(wal)
      BY DEF IInv, TypeOK
    <3>3. seen[c] > 0 => wal'[seen[c]] = wal[seen[c]]
      BY <1>1, <3>2, Lengths DEF IInv, Grows
    <3> QED
      BY <3>1, <3>3 DEF IInv, ClientOK, Covered
  <2> QED
    BY <1>3, <2>1 DEF ClientOK, InCall, Recorded, CaughtUp, Claiming, Pooled, Writing, ReadingAt,
      Written, Hiding
<1> QED
  BY <1>2, <1>4, <1>5, RecordStep

LEMMA AnswerWriteKeeps ==
  ASSUME IInv, NEW c \in Clients, AnswerWrite(c)
  PROVE  IInv'
<1> USE DEF AnswerWrite, Goto, startup, cluster, reading
<1>1. /\ commit[c] \in 1 .. Len(wal) /\ wal[commit[c]] = DocOf[c]
      /\ Call(c).durability = "quorum" => Acknowledged(commit[c])
  BY DEF IInv, TypeOK, ClientOK, Recorded, Written
<1>2. Tail(todo[c]) \in Seq(Calls) /\ Call(c).durability \in {"quorum", "async"}
  BY CallTypes DEF IInv, ClientOK, InCall, Writing
<1>3. TypeOK'
  <2>1. /\ token' \in [Clients -> 0 .. Len(wal)]
        /\ seen' \in [Clients -> 0 .. Len(wal)]
    BY <1>1, Lengths DEF IInv, TypeOK, Larger, WriteLsn
  <2>2. acked' \subseteq [version : 1 .. Len(wal), durability : {"quorum", "async"}]
    BY <1>1, <1>2 DEF IInv, TypeOK, Ack
  <2>3. todo' \in [Clients -> Seq(Calls)]
    BY <1>2 DEF IInv, TypeOK
  <2> QED
    BY <2>1, <2>2, <2>3 DEF IInv, TypeOK
<1>4. Grows
  BY DEF IInv, TypeOK, Grows, Documents
<1>5. Others(c)
  BY DEF IInv, TypeOK, Others, Same
<1>6. pc'[c] = "idle" /\ seen'[c] = commit[c] /\ token'[c] = Larger(token[c], Len(wal))
  BY DEF IInv, TypeOK, WriteLsn
<1>7. ClientOK(c)'
  <2>1. Covered(c)'
    BY <1>1, <1>6, Lengths DEF IInv, Covered, Larger
  <2> QED
    BY <1>6, <2>1 DEF ClientOK, InCall, Recorded, CaughtUp, Claiming, Pooled, Writing, ReadingAt,
      Written, Hiding
<1>8. ASSUME NEW q \in Clients
      PROVE  ClientOK(q)'
  BY <1>4, <1>5, <1>7, <1>8, Frame DEF IInv, Others
<1>9. CommitsOK'
  <2>1. \A q \in Clients : commit[q] = commit[c] => q = c
    BY <1>1 DEF IInv, CommitsOK
  <2>2. \A q \in Clients : pc'[q] \in Written => pc[q] \in Written /\ q # c
    BY <1>5, <1>6 DEF Others, Same, Written, Hiding
  <2>3. UNCHANGED commit /\ acked' = acked \cup {Ack(c)} /\ Ack(c).version = commit[c]
    BY DEF Ack
  <2> QED
    BY <2>1, <2>2, <2>3 DEF IInv, CommitsOK
<1>10. QuorumSurvives'
  <2> SUFFICES ASSUME NEW a \in acked', a.durability = "quorum"
               PROVE  Acknowledged(a.version)
    BY DEF QuorumSurvives, Acknowledged
  <2>1. CASE a \in acked
    BY <2>1 DEF IInv, QuorumSurvives
  <2>2. CASE a = Ack(c)
    BY <1>1, <2>2 DEF Ack
  <2> QED
    BY <2>1, <2>2
<1>11. StartupOK'
  BY DEF IInv, StartupOK
<1> QED
  BY <1>3, <1>8, <1>9, <1>10, <1>11 DEF IInv

----------------------------------------------------------------------------
(* The cluster and start-up, while every client stays where it is.         *)

LEMMA ClusterStep ==
  ASSUME IInv, TypeOK', StartupOK', Grows,
         UNCHANGED <<pc, commit, todo, token, seen, acked, fresh, version, due>>
  PROVE  IInv'
<1>1. ASSUME NEW q \in Clients
      PROVE  ClientOK(q)'
  BY <1>1, Frame DEF IInv, Same
<1>2. CommitsOK'
  BY CommitsFrame DEF IInv
<1>3. QuorumSurvives'
  BY QuorumFrame DEF IInv
<1> QED
  BY <1>1, <1>2, <1>3 DEF IInv

LEMMA ReceiveKeeps ==
  ASSUME IInv, NEW s \in Standbys, Receive(s)
  PROVE  IInv'
<1> USE DEF Receive, startup, session, reading
<1>1. flushed[s] \in 0 .. Len(wal) /\ flushed[s] < Len(wal)
  BY DEF IInv, TypeOK
<1>2. flushed' \in [Standbys -> 0 .. Len(wal)]
      /\ \A r \in Standbys : flushed[r] <= flushed'[r]
  <2>1. flushed[s] + 1 \in 0 .. Len(wal)
    BY <1>1, Lengths DEF IInv
  <2>2. \A r \in Standbys : flushed'[r] = IF r = s THEN flushed[s] + 1 ELSE flushed[r]
    BY DEF IInv, TypeOK
  <2>3. \A r \in Standbys : flushed[r] <= flushed'[r]
    BY <2>2, Lengths DEF IInv
  <2> QED
    BY <2>1, <2>3 DEF IInv, TypeOK
<1>3. TypeOK'
  BY <1>2, Lengths DEF IInv, TypeOK
<1>4. Grows
  BY <1>2, Lengths DEF IInv, TypeOK, Grows, Documents
<1> QED
  BY <1>3, <1>4, ClusterStep DEF IInv, StartupOK

LEMMA ReplayKeeps ==
  ASSUME IInv, NEW s \in Standbys, Replay(s)
  PROVE  IInv'
<1> USE DEF Replay, startup, session, reading
<1>1. replayed' \in [Standbys -> Nat]
      /\ \A r \in Standbys : replayed[r] <= replayed'[r] /\ replayed'[r] <= flushed[r]
  BY Lengths DEF IInv, TypeOK
<1>2. TypeOK'
  BY <1>1 DEF IInv, TypeOK
<1>3. Grows
  BY <1>1, Lengths DEF IInv, TypeOK, Grows, Documents
<1> QED
  BY <1>2, <1>3, ClusterStep DEF IInv, StartupOK

LEMMA PauseReplicasKeeps ==
  ASSUME IInv, PauseReplicas
  PROVE  IInv'
<1> USE DEF PauseReplicas, startup, session, reading
<1>1. TypeOK'
  BY DEF IInv, TypeOK
<1>2. Grows
  BY Lengths DEF IInv, TypeOK, Grows, Documents
<1> QED
  BY <1>1, <1>2, ClusterStep DEF IInv, StartupOK

LEMMA CreateTablesKeeps ==
  ASSUME IInv, CreateTables
  PROVE  IInv'
<1> USE DEF CreateTables, session, reading
<1>1. Grows
  <2>1. CASE UNCHANGED wal
    BY <2>1, Lengths DEF IInv, TypeOK, Grows, Documents
  <2>2. CASE wal' = Append(wal, Schema)
    BY <2>2, Appending DEF IInv, Documents
  <2> QED
    BY <2>1, <2>2
<1>2. /\ boot' \in {"creating", "syncing", "serving", "failed"}
      /\ attempt' \in 0 .. MaxAttempts
      /\ StartupOK'
  BY BoundsAssumption DEF IInv, TypeOK, StartupOK, Serve
<1>3. commit' \in [Clients -> 0 .. Len(wal')]
  BY <1>1, Lengths DEF IInv, TypeOK, Grows
<1>4. TypeOK'
  BY <1>1, <1>2, <1>3, LongerLog DEF IInv, TypeOK
<1> QED
  BY <1>1, <1>2, <1>4, ClusterStep

LEMMA StartupKeeps ==
  ASSUME IInv, TablesCreated \/ InitFails
  PROVE  IInv'
<1>1. UNCHANGED <<pool, cluster, pc, commit, session, reading>>
  BY DEF TablesCreated, InitFails
<1>2. /\ boot' \in {"creating", "syncing", "serving", "failed"}
      /\ attempt' \in 0 .. MaxAttempts
      /\ StartupOK'
  BY BoundsAssumption DEF IInv, TypeOK, StartupOK, TablesCreated, InitFails, MayRetry, Serve
<1>3. TypeOK'
  BY <1>1, <1>2 DEF IInv, TypeOK, cluster, session, reading
<1>4. Grows
  BY <1>1, NothingGrows DEF IInv, session
<1> QED
  BY <1>1, <1>2, <1>3, <1>4, ClusterStep DEF session, reading

LEMMA StutterKeeps ==
  ASSUME IInv, UNCHANGED vars
  PROVE  IInv'
<1> USE DEF vars
<1>1. TypeOK' /\ StartupOK'
  BY DEF IInv, TypeOK, StartupOK
<1>2. Grows
  BY NothingGrows DEF IInv, cluster
<1> QED
  BY <1>1, <1>2, ClusterStep

----------------------------------------------------------------------------
(* The theorems.                                                           *)

LEMMA StepKeeps ==
  ASSUME IInv, NEW c \in Clients, Step(c)
  PROVE  IInv'
BY BeginKeeps, UpsertKeeps, CommitKeeps, CommitAcknowledgedKeeps, AnswerWriteKeeps, FailureKeeps,
  LsnReachedKeeps, WaitTimeoutKeeps, GetDocumentKeeps, AnswerReadKeeps DEF Step

LEMMA NextKeeps ==
  ASSUME IInv, [Next]_vars
  PROVE  IInv'
<1>1. ASSUME NEW c \in Clients,
             \/ ReceiveWrite(c) \/ ReceiveRead(c) \/ Step(c)
             \/ StatementFails(c) \/ CommitUnanswered(c) \/ WorkerDies(c)
      PROVE  IInv'
  BY <1>1, ReceiveWriteKeeps, ReceiveReadKeeps, StepKeeps, FailureKeeps, CommitUnansweredKeeps,
    WorkerDiesKeeps
<1>2. ASSUME NEW s \in Standbys, Receive(s) \/ Replay(s)
      PROVE  IInv'
  BY <1>2, ReceiveKeeps, ReplayKeeps
<1>3. CASE PauseReplicas \/ CreateTables \/ TablesCreated \/ InitFails \/ UNCHANGED vars
  BY <1>3, PauseReplicasKeeps, CreateTablesKeeps, StartupKeeps, StutterKeeps
<1> QED
  BY <1>1, <1>2, <1>3 DEF Next

LEMMA InitHolds == Init => IInv
<1> SUFFICES ASSUME Init
             PROVE  IInv
  OBVIOUS
<1> USE DEF Init
<1>1. Len(wal) = 0 /\ wal \in Seq(Documents)
  OBVIOUS
<1>2. TypeOK
  <2>1. todo \in [Clients -> Seq(Calls)] /\ pool \in Nat \ {0}
    BY WorkloadsAssumption
  <2>2. attempt \in 0 .. MaxAttempts
    BY BoundsAssumption
  <2>3. /\ flushed \in [Standbys -> 0 .. Len(wal)]
        /\ replayed \in [Standbys -> Nat]
        /\ \A s \in Standbys : replayed[s] <= flushed[s]
    BY <1>1
  <2>4. /\ commit \in [Clients -> 0 .. Len(wal)] /\ token \in [Clients -> 0 .. Len(wal)]
        /\ seen \in [Clients -> 0 .. Len(wal)] /\ version \in [Clients -> 0 .. Len(wal)]
    BY <1>1
  <2>5. /\ due \in [Clients -> SUBSET (1 .. Len(wal))]
        /\ acked \subseteq [version : 1 .. Len(wal), durability : {"quorum", "async"}]
    OBVIOUS
  <2> QED
    BY <1>1, <2>1, <2>2, <2>3, <2>4, <2>5 DEF TypeOK, Documents
<1>3. StartupOK
  BY BoundsAssumption DEF StartupOK
<1>4. ASSUME NEW c \in Clients
      PROVE  ClientOK(c)
  BY DEF ClientOK, InCall, Recorded, Covered, CaughtUp, Claiming, Pooled, Writing, ReadingAt,
    Written, Hiding
<1>5. CommitsOK /\ QuorumSurvives
  BY DEF CommitsOK, QuorumSurvives
<1> QED
  BY <1>2, <1>3, <1>4, <1>5 DEF IInv

\* The inductive invariant: calls are in order, LSNs cover what their clients know,
\* claims are acknowledged writes, and commits are told apart.
THEOREM Invariance == Spec => []IInv
<1>1. IInv /\ [Next]_vars => IInv'
  BY NextKeeps
<1> QED
  BY InitHolds, <1>1, PTL DEF Spec

\* Type correctness.
THEOREM TypeCorrect == Spec => []TypeOK
<1>1. IInv => TypeOK
  BY DEF IInv
<1> QED
  BY Invariance, <1>1, PTL

\* For any number of sessions and standbys, whatever lags or fails: a read that says
\* it is up to date has everything its client knew.
THEOREM SessionsAreMonotonic == Spec => []ReadYourWrites
<1>1. IInv => ReadYourWrites
  BY DEF IInv, ClientOK, CaughtUp, ReadYourWrites
<1> QED
  BY Invariance, <1>1, PTL

\* A read from the primary has every write that was acknowledged when it began.
THEOREM PrimaryReadsAreCurrent == Spec => []PrimaryIsCurrent
<1>1. IInv => PrimaryIsCurrent
  BY DEF IInv, ClientOK, Claiming, ReadingAt, PrimaryIsCurrent
<1> QED
  BY Invariance, <1>1, PTL

\* An acknowledged quorum write is on a standby.
THEOREM QuorumWritesSurvive == Spec => []QuorumSurvives
<1>1. IInv => QuorumSurvives
  BY DEF IInv
<1> QED
  BY Invariance, <1>1, PTL
=============================================================================
