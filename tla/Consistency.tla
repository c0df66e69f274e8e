---------------------------- MODULE Consistency ----------------------------
(***************************************************************************)
(* Documents on a primary with streaming replicas: services/consistency.py *)
(* over db/replication_base.py, called by api/routes/consistency.py; its   *)
(* clients are sessions like those of scripts/consistency/simulate.py.     *)
(*                                                                         *)
(* The write-ahead log is the sequence of commit records, an LSN a         *)
(* position in it; a version of a document is the position of its commit,  *)
(* 0 if there is none. A commit record can reach the standbys before its   *)
(* transaction is over on the primary: until a standby has acknowledged    *)
(* it, the waiting transaction keeps its version hidden and its row locked.*)
(***************************************************************************)
EXTENDS Integers, Sequences, FiniteSets

CONSTANTS
  Clients,      \* sessions, each doing one call after the other
  DocOf,        \* client -> the document it works on
  Standbys,     \* REPLICAS
  Workloads,    \* what they may do: `calls`, client -> sequence of calls, and `pool`,
                \* the connections of the application's engine, 15, left to their writes
  MaxAttempts,  \* `attempts` of init_with_retry: 30
  Pausing,      \* may the replicas be paused?
  Faults        \* may connections break, and workers die?

Primary == "primary"
Schema == "schema"

Write(durability) == [op |-> "write", durability |-> durability]

\* A read may wait for the LSN its client has been told, and its client may keep the
\* node's LSN that comes with the answer; the demos keep the LSNs of writes only.
ReadCall(op, node, pinned, kept) ==
  [op |-> op, node |-> node, pinned |-> pinned, kept |-> kept]
Read(node) == ReadCall("read", node, FALSE, FALSE)
KeptRead(node) == ReadCall("read", node, FALSE, TRUE)
PinnedRead(node) == ReadCall("read", node, TRUE, FALSE)
Poll(node) == ReadCall("poll", node, FALSE, FALSE)

Calls ==
  [op : {"write"}, durability : {"quorum", "async"}]
    \cup [op : {"read", "poll"}, node : Standbys \cup {Primary}, pinned : BOOLEAN, kept : BOOLEAN]

ASSUME WorkloadsAssumption ==
  Workloads \subseteq [calls : [Clients -> Seq(Calls)], pool : Nat \ {0}]
ASSUME StandbysAssumption == Primary \notin Standbys
ASSUME DocsAssumption == \A c \in Clients : DocOf[c] # Schema
ASSUME BoundsAssumption == MaxAttempts \in Nat \ {0}
ASSUME SwitchAssumption == Pausing \in BOOLEAN /\ Faults \in BOOLEAN

\* The sessions of scripts/consistency/simulate.py, with s the delayed replica.
ReplicationLag(s) == <<Write("async"), Read(Primary), Read(s), Poll(s)>>
ReadYourWritesDemo(s) ==
  <<Write("async"), PinnedRead(s), Write("async"), Read(s), Read(Primary), PinnedRead(s)>>
QuorumAndStatus == <<Write("quorum"), Write("async")>>

\* What a client may do with the LSNs of its reads: never go back in time.
MonotonicReads(s) == <<KeptRead(Primary), PinnedRead(s)>>

\* Demo 04 makes its two calls at once, each of a document of its own; here the
\* second client goes on to read what it wrote.
PartitionedQuorum == <<Write("quorum")>>
PartitionedAsync == <<Write("async"), Read(Primary)>>

VARIABLES
  boot,      \* start-up: "creating" tables, "syncing", "serving" or "failed"
  attempt,   \* attempts of init_with_retry that failed, while it runs
  pool,      \* connections for writes, fixed
  wal,       \* the documents of the commit records, in order
  flushed,   \* standby -> LSN it has received and flushed
  replayed,  \* standby -> LSN it has replayed
  paused,    \* are the replicas' containers paused?
  pc,        \* where each client's call is
  todo,      \* client -> the calls it has left, the current one first
  commit,    \* client -> position of its last commit record
  token,     \* client -> the highest LSN it has been told and kept
  seen,      \* client -> the newest version it has written, or read with that LSN
  fresh,     \* up_to_date of the read in progress: "yes", "no" or "none"
  version,   \* the version that read has found, else 0
  due,       \* versions acknowledged when it began, that its node must have
  acked      \* acknowledged writes

vars ==
  <<boot, attempt, pool, wal, flushed, replayed, paused, pc, todo, commit, token, seen, fresh,
    version, due, acked>>
startup == <<boot, attempt, pool>>
cluster == <<wal, flushed, replayed, paused>>
session == <<todo, token, seen, acked>>
reading == <<fresh, version, due>>

Hiding == {"syncing", "orphaned"}
Locking == Hiding \cup {"locked"}
Pooled == {"locking", "locked", "syncing"}
Writing == {"queued", "committed"} \cup Pooled
ReadingAt == {"waiting", "reading", "stamping"}
Serving == Writing \cup ReadingAt
Busy(c) == pc[c] \in Serving

Call(c) == Head(todo[c])
Larger(m, n) == IF m < n THEN n ELSE m
Goto(c, label) == pc' = [pc EXCEPT ![c] = label]

Forget(c) ==
  /\ fresh' = [fresh EXCEPT ![c] = "none"]
  /\ due' = [due EXCEPT ![c] = {}]

\* The call raises; its client goes no further.
End(c, label) ==
  /\ Goto(c, label)
  /\ Forget(c)
  /\ version' = [version EXCEPT ![c] = 0]

Raise(c) == End(c, "failed")

----------------------------------------------------------------------------
(* The cluster.                                                            *)

\* synchronous_commit = on waits until one standby has flushed the record.
Acknowledged(p) == \E s \in Standbys : flushed[s] >= p

Receive(s) ==
  /\ ~paused
  /\ flushed[s] < Len(wal)
  /\ flushed' = [flushed EXCEPT ![s] = @ + 1]
  /\ UNCHANGED <<startup, wal, replayed, paused, pc, commit, session, reading>>

\* Replaying may lag for any time: recovery_min_apply_delay delays it.
Replay(s) ==
  /\ ~paused
  /\ replayed[s] < flushed[s]
  /\ replayed' = [replayed EXCEPT ![s] = @ + 1]
  /\ UNCHANGED <<startup, wal, flushed, paused, pc, commit, session, reading>>

\* make pause-replicas, and its reverse.
PauseReplicas ==
  /\ Pausing
  /\ paused' = ~paused
  /\ UNCHANGED <<startup, wal, flushed, replayed, pc, commit, session, reading>>

Hidden == {commit[c] : c \in {q \in Clients : pc[q] \in Hiding}}

\* The positions of the log that show on a node.
Shown(n) == IF n = Primary THEN (1 .. Len(wal)) \ Hidden ELSE 1 .. replayed[n]

NodeLsn(n) == IF n = Primary THEN Len(wal) ELSE replayed[n]

Responds(n) == n = Primary \/ ~paused

----------------------------------------------------------------------------
(* Start-up: init_with_retry over init_models.                             *)

Serve == boot' = "serving" /\ attempt' = 0

\* A simplification: the record of an attempt that failed shows to the next one even
\* before a standby has acknowledged it.
HasSchema == \E p \in 1 .. Len(wal) : wal[p] = Schema

\* create_all looks for the tables first; creating them is a synchronous commit.
CreateTables ==
  /\ boot = "creating"
  /\ IF HasSchema
     THEN Serve /\ UNCHANGED wal
     ELSE boot' = "syncing" /\ wal' = Append(wal, Schema) /\ UNCHANGED attempt
  /\ UNCHANGED <<pool, flushed, replayed, paused, pc, commit, session, reading>>

TablesCreated ==
  /\ boot = "syncing"
  /\ Acknowledged(Len(wal))
  /\ Serve
  /\ UNCHANGED <<pool, cluster, pc, commit, session, reading>>

MayRetry(n) == n < MaxAttempts

InitFails ==
  /\ Faults
  /\ boot \in {"creating", "syncing"}
  /\ attempt' = attempt + 1
  /\ boot' = IF MayRetry(attempt + 1) THEN "creating" ELSE "failed"
  /\ UNCHANGED <<pool, cluster, pc, commit, session, reading>>

----------------------------------------------------------------------------
(* write().                                                                *)

\* Reads go through engines, and pools, of their own.
InUse == Cardinality({c \in Clients : pc[c] \in Pooled})
PoolFree == InUse < pool

ReceiveWrite(c) ==
  /\ pc[c] = "idle"
  /\ boot = "serving"
  /\ todo[c] # <<>>
  /\ Call(c).op = "write"
  /\ Goto(c, "queued")
  /\ UNCHANGED <<startup, cluster, commit, session, reading>>

\* session.begin() and SET LOCAL.
Begin(c) ==
  /\ pc[c] = "queued"
  /\ PoolFree
  /\ Goto(c, "locking")
  /\ UNCHANGED <<startup, cluster, commit, session, reading>>

\* Mutant: a transaction that failed is not rolled back.
RowUntouched(d) == \A c \in Clients : pc[c] \in Locking \cup {"failed"} => DocOf[c] # d

RowFree(d) == \A c \in Clients : pc[c] \in Locking => DocOf[c] # d

\* INSERT ... ON CONFLICT DO UPDATE waits for the transaction that has the row.
Upsert(c) ==
  /\ pc[c] = "locking"
  /\ RowFree(DocOf[c])
  /\ Goto(c, "locked")
  /\ UNCHANGED <<startup, cluster, commit, session, reading>>

WriteRecord(c) ==
  /\ wal' = Append(wal, DocOf[c])
  /\ commit' = [commit EXCEPT ![c] = Len(wal) + 1]

\* Mutants: SET LOCAL outside the transaction it is for; no SET LOCAL at all.
NeverWaits(c) == FALSE
AlwaysWaits(c) == TRUE

\* _SYNCHRONOUS_COMMIT: "on" waits for a standby, "local" does not.
WaitsForStandby(c) == Call(c).durability = "quorum"

Commit(c) ==
  /\ pc[c] = "locked"
  /\ WriteRecord(c)
  /\ Goto(c, IF WaitsForStandby(c) THEN "syncing" ELSE "committed")
  /\ UNCHANGED <<startup, flushed, replayed, paused, session, reading>>

CommitAcknowledged(c) ==
  /\ pc[c] = "syncing"
  /\ Acknowledged(commit[c])
  /\ Goto(c, "committed")
  /\ UNCHANGED <<startup, cluster, commit, session, reading>>

Ack(c) == [version |-> commit[c], durability |-> Call(c).durability]

\* Mutant: the LSN is read inside the transaction, before the commit record.
LsnBeforeCommit(c) == commit[c] - 1

\* pg_current_wal_lsn(), after the commit: at least the record's own position.
WriteLsn(c) == Len(wal)

\* The LSN is a statement of its own, on a connection checked out anew.
AnswerWrite(c) ==
  /\ pc[c] = "committed"
  /\ PoolFree
  /\ token' = [token EXCEPT ![c] = Larger(@, WriteLsn(c))]
  /\ seen' = [seen EXCEPT ![c] = commit[c]]
  /\ acked' = acked \cup {Ack(c)}
  /\ todo' = [todo EXCEPT ![c] = Tail(@)]
  /\ Goto(c, "idle")
  /\ UNCHANGED <<startup, cluster, commit, reading>>

----------------------------------------------------------------------------
(* read().                                                                 *)

\* The acknowledged versions that a read of d from n has a claim to.
Claims(d, n) ==
  IF n = Primary THEN {v \in {a.version : a \in acked} : wal[v] = d} ELSE {}

\* Mutant: a replica whatever was asked for.
SomeReplica(c) == CHOOSE s \in Standbys : TRUE

\* session_for(node)
Node(c) == Call(c).node

Waits(c) == Call(c).pinned /\ token[c] > 0 /\ Node(c) # Primary

StartRead(c) ==
  /\ due' = [due EXCEPT ![c] = Claims(DocOf[c], Call(c).node)]
  /\ fresh' = [fresh EXCEPT ![c] = "none"]
  /\ Goto(c, IF Waits(c) THEN "waiting" ELSE "reading")

ReceiveRead(c) ==
  /\ pc[c] = "idle"
  /\ boot = "serving"
  /\ todo[c] # <<>>
  /\ Call(c).op \in {"read", "poll"}
  /\ StartRead(c)
  /\ UNCHANGED <<startup, cluster, commit, session, version>>

\* Mutant: the receive position is compared instead of the replay position.
ReceivedUpTo(s, lsn) == flushed[s] >= lsn

ReachedUpTo(s, lsn) == replayed[s] >= lsn

\* _wait_for_lsn polls until the standby is there, or the deadline has passed.
LsnReached(c) ==
  /\ pc[c] = "waiting"
  /\ Responds(Node(c))
  /\ ReachedUpTo(Node(c), token[c])
  /\ fresh' = [fresh EXCEPT ![c] = "yes"]
  /\ Goto(c, "reading")
  /\ UNCHANGED <<startup, cluster, commit, session, version, due>>

WaitTimeout(c) ==
  /\ pc[c] = "waiting"
  /\ Responds(Node(c))
  /\ ~ReachedUpTo(Node(c), token[c])
  /\ fresh' = [fresh EXCEPT ![c] = "no"]
  /\ Goto(c, "reading")
  /\ UNCHANGED <<startup, cluster, commit, session, version, due>>

Newest(d, shown, v) ==
  /\ v = 0 \/ (v \in shown /\ wal[v] = d)
  /\ \A p \in shown : wal[p] = d => p <= v

\* session.get: the newest version that shows on the node, if any.
GetDocument(c) ==
  /\ pc[c] = "reading"
  /\ Responds(Node(c))
  /\ \E p \in Shown(Node(c)) : wal[p] = Schema
  /\ \E v \in 0 .. Len(wal) :
       /\ Newest(DocOf[c], Shown(Node(c)), v)
       /\ version' = [version EXCEPT ![c] = v]
  /\ Goto(c, "stamping")
  /\ UNCHANGED <<startup, cluster, commit, session, fresh, due>>

\* A standby that has not replayed the DDL has no such table.
NoTable(c) ==
  /\ pc[c] = "reading"
  /\ Responds(Node(c))
  /\ \A p \in Shown(Node(c)) : wal[p] # Schema
  /\ Raise(c)
  /\ UNCHANGED <<startup, cluster, commit, session>>

\* What the client knows from now on: the node's LSN and a version, if it keeps them.
Told(c) ==
  IF Call(c).kept
  THEN /\ token' = [token EXCEPT ![c] = Larger(@, NodeLsn(Node(c)))]
       /\ seen' = [seen EXCEPT ![c] = Larger(@, version[c])]
  ELSE UNCHANGED <<token, seen>>

\* node_lsn is read after the document; a client that polls asks again until the
\* document is there.
AnswerRead(c) ==
  /\ pc[c] = "stamping"
  /\ Responds(Node(c))
  /\ Told(c)
  /\ IF Call(c).op = "poll" /\ version[c] = 0
     THEN StartRead(c) /\ UNCHANGED todo
     ELSE /\ todo' = [todo EXCEPT ![c] = Tail(@)]
          /\ Goto(c, "idle")
          /\ Forget(c)
  /\ version' = [version EXCEPT ![c] = 0]
  /\ UNCHANGED <<startup, cluster, commit, acked>>

----------------------------------------------------------------------------
(* Failure.                                                                *)

\* No connection within the pool's 30 s, before the write or after its commit.
PoolTimeout(c) ==
  /\ pc[c] \in {"queued", "committed"}
  /\ ~PoolFree
  /\ End(c, "refused")
  /\ UNCHANGED <<startup, cluster, commit, session>>

\* A statement fails: what was not committed rolls back, and a commit that only
\* waits for its standby stands.
StatementFails(c) ==
  /\ Faults
  /\ Busy(c)
  /\ Raise(c)
  /\ UNCHANGED <<startup, cluster, commit, session>>

\* The answer to COMMIT is lost.
CommitUnanswered(c) ==
  /\ Faults
  /\ pc[c] = "locked"
  /\ WriteRecord(c)
  /\ Raise(c)
  /\ UNCHANGED <<startup, flushed, replayed, paused, session>>

\* The worker dies; the server process behind its commit goes on waiting.
WorkerDies(c) ==
  /\ Faults
  /\ pc[c] = "syncing"
  /\ Goto(c, "orphaned")
  /\ UNCHANGED <<startup, cluster, commit, session, reading>>

OrphanAcknowledged(c) ==
  /\ pc[c] = "orphaned"
  /\ Acknowledged(commit[c])
  /\ Raise(c)
  /\ UNCHANGED <<startup, cluster, commit, session>>

----------------------------------------------------------------------------
Init ==
  /\ boot = "creating"
  /\ attempt = 0
  /\ \E work \in Workloads : todo = work.calls /\ pool = work.pool
  /\ wal = <<>>
  /\ flushed = [s \in Standbys |-> 0]
  /\ replayed = [s \in Standbys |-> 0]
  /\ paused = FALSE
  /\ pc = [c \in Clients |-> "idle"]
  /\ commit = [c \in Clients |-> 0]
  /\ token = [c \in Clients |-> 0]
  /\ seen = [c \in Clients |-> 0]
  /\ fresh = [c \in Clients |-> "none"]
  /\ version = [c \in Clients |-> 0]
  /\ due = [c \in Clients |-> {}]
  /\ acked = {}

Step(c) ==
  \/ Begin(c) \/ Upsert(c) \/ Commit(c) \/ CommitAcknowledged(c) \/ AnswerWrite(c)
  \/ PoolTimeout(c)
  \/ LsnReached(c) \/ WaitTimeout(c) \/ GetDocument(c) \/ NoTable(c) \/ AnswerRead(c)
  \/ OrphanAcknowledged(c)

Next ==
  \/ CreateTables \/ TablesCreated \/ InitFails
  \/ \E s \in Standbys : Receive(s) \/ Replay(s)
  \/ PauseReplicas
  \/ \E c \in Clients :
       \/ ReceiveWrite(c) \/ ReceiveRead(c)
       \/ Step(c)
       \/ StatementFails(c) \/ CommitUnanswered(c) \/ WorkerDies(c)

Spec == Init /\ [][Next]_vars

\* Statements are answered, pool and poll have deadlines, a standby that is not
\* paused streams and replays. Nothing obliges anybody to unpause it.
Fairness ==
  /\ \A c \in Clients : WF_vars(Step(c))
  /\ \A s \in Standbys : WF_vars(Receive(s)) /\ WF_vars(Replay(s))

FairSpec == Spec /\ Fairness

----------------------------------------------------------------------------
(* Properties.                                                             *)

TypeOK ==
  /\ boot \in {"creating", "syncing", "serving", "failed"}
  /\ attempt \in 0 .. MaxAttempts
  /\ pool \in Nat \ {0}
  /\ wal \in Seq({DocOf[c] : c \in Clients} \cup {Schema})
  /\ flushed \in [Standbys -> 0 .. Len(wal)]
  /\ replayed \in [Standbys -> Nat]
  /\ \A s \in Standbys : replayed[s] <= flushed[s]
  /\ paused \in BOOLEAN
  /\ pc \in [Clients -> {"idle", "failed", "refused", "orphaned"} \cup Serving]
  /\ todo \in [Clients -> Seq(Calls)]
  /\ commit \in [Clients -> 0 .. Len(wal)]
  /\ token \in [Clients -> 0 .. Len(wal)]
  /\ seen \in [Clients -> 0 .. Len(wal)]
  /\ fresh \in [Clients -> {"yes", "no", "none"}]
  /\ version \in [Clients -> 0 .. Len(wal)]
  /\ due \in [Clients -> SUBSET (1 .. Len(wal))]
  /\ acked \subseteq [version : 1 .. Len(wal), durability : {"quorum", "async"}]

\* Demo 02, fix B: a read that reports up_to_date is at least as new as anything its
\* client has written before, and as any version it has read, on whatever node, if it
\* kept the LSN that came with it.
ReadYourWrites ==
  \A c \in Clients :
    pc[c] = "stamping" /\ fresh[c] = "yes" => seen[c] <= version[c]

\* Demo 02, fix A, and ReadNode: a read from the primary is at least as new as
\* every write that had been acknowledged, to whomever, when it began.
PrimaryIsCurrent ==
  \A c \in Clients :
    pc[c] = "stamping" => \A v \in due[c] : v <= version[c]

\* Demo 03: an acknowledged quorum write is on a standby with all that precedes it,
\* so that it survives the primary.
QuorumSurvives ==
  \A a \in acked :
    a.durability = "quorum" => Acknowledged(a.version)

\* Every call ends, a poll by finding the document, once the replicas stay up.
EveryCallAnswered ==
  <>[]~paused => \A c \in Clients : Busy(c) ~> ~Busy(c)

\* The exceptions, for writes: a quorum write that waits for a standby has the row, or other
\* quorum writes have every connection.
RowTaken(c) == \E q \in Clients \ {c} : pc[q] \in Hiding /\ DocOf[q] = DocOf[c]

PoolTaken(c) ==
  pool <= Cardinality({q \in Clients \ {c} : pc[q] \in Pooled /\ Call(q).durability = "quorum"})

OnPrimaryAlone(c) ==
  IF Call(c).op = "write" THEN Call(c).durability = "async" ELSE Call(c) = Read(Primary)

Answered(c) == pc[c] \in {"idle", "failed"}

\* Demo 04: with the replicas away for as long as they like, a read from the primary
\* is answered whatever quorum writes are doing, and so is an asynchronous write that
\* finds a connection and whose document no quorum write holds.
AvailableWhenPartitioned ==
  \A c \in Clients :
    Busy(c) /\ OnPrimaryAlone(c) ~>
      \/ Answered(c)
      \/ pc[c] \in Writing /\ (RowTaken(c) \/ PoolTaken(c))

----------------------------------------------------------------------------
(* The inductive invariant behind them, per client and for all of them.    *)

Written == Hiding \cup {"committed"}

\* A client inside a call is inside the call it has first.
InCall(c) ==
  /\ pc[c] \in Writing => todo[c] # <<>> /\ Call(c).op = "write"
  /\ pc[c] \in ReadingAt => todo[c] # <<>> /\ Call(c).op \in {"read", "poll"}
  /\ pc[c] = "waiting" => Node(c) # Primary

\* A transaction that has committed has its record, and what its call asked for.
Recorded(c) ==
  /\ pc[c] \in Written => commit[c] > 0 /\ wal[commit[c]] = DocOf[c]
  /\ pc[c] = "committed" /\ Call(c).durability = "quorum" => Acknowledged(commit[c])

\* The LSN a client has been told covers the versions it knows.
Covered(c) ==
  /\ seen[c] <= token[c]
  /\ seen[c] > 0 => wal[seen[c]] = DocOf[c]
  /\ pc[c] = "stamping" =>
       /\ version[c] <= NodeLsn(Node(c))
       /\ version[c] > 0 => wal[version[c]] = DocOf[c]

\* A read that reports up_to_date found its standby past the client's LSN.
CaughtUp(c) ==
  pc[c] \in {"reading", "stamping"} /\ fresh[c] = "yes" =>
    /\ Node(c) # Primary
    /\ token[c] <= replayed[Node(c)]
    /\ pc[c] = "stamping" => seen[c] <= version[c]

\* Only a read from the primary has a claim, to acknowledged versions of its document.
Claiming(c) ==
  pc[c] \in ReadingAt =>
    \A v \in due[c] :
      /\ Node(c) = Primary
      /\ wal[v] = DocOf[c]
      /\ \E a \in acked : a.version = v
      /\ pc[c] = "stamping" => v <= version[c]

ClientOK(c) == InCall(c) /\ Recorded(c) /\ Covered(c) /\ CaughtUp(c) /\ Claiming(c)

\* Commits are told apart, and one that was acknowledged is over.
CommitsOK ==
  /\ \A c, q \in Clients : commit[c] = commit[q] /\ commit[c] > 0 => c = q
  /\ \A a \in acked, c \in Clients : commit[c] = a.version => pc[c] \notin Written

StartupOK == boot \in {"creating", "syncing"} => attempt < MaxAttempts

IInv ==
  /\ TypeOK
  /\ StartupOK
  /\ \A c \in Clients : ClientOK(c)
  /\ CommitsOK
  /\ QuorumSurvives
============================================================================
