------------------------------ MODULE JobQueue ------------------------------
(***************************************************************************)
(* The database job queue: services/db_lock_service.py over the table      *)
(* db_queue_jobs, called by api/routes/db_lock.py.                         *)
(*                                                                         *)
(* A request is one HTTP call and one transaction at READ COMMITTED. A     *)
(* claim's SELECT ... FOR UPDATE takes its candidates from the snapshot at *)
(* its start, then locks them one by one in order of position until one    *)
(* is, in its latest version, still QUEUED; a row that is not stays locked *)
(* until the transaction ends.                                             *)
(***************************************************************************)
EXTENDS Integers

CONSTANTS
  Claims,      \* calls of POST /jobs/claim, each by its own worker
  Completes,   \* calls of POST /jobs/{id}/complete
  Jobs,        \* one for each call of POST /jobs
  Strategies,  \* the strategies claims choose from
  Faults,      \* may connections fail and workers die?
  None

AllStrategies == {"skip_locked", "blocking", "nowait"}
Requests == Claims \cup Completes

ASSUME StrategiesAssumption == Strategies \subseteq AllStrategies
ASSUME FaultsAssumption == Faults \in BOOLEAN
ASSUME RequestsAssumption == Claims \cap Completes = {}
ASSUME NoneAssumption == None \notin Requests \cup Jobs

VARIABLES
  sequence,    \* the identity sequence behind the position column
  position,    \* job -> its position, once inserted
  status,      \* job -> committed status; "none" or "lost" without a row
  lockedBy,    \* job -> committed locked_by
  rowLock,     \* job -> the request whose transaction holds the row, or None
  pc,          \* where each request is
  strategy,    \* claim -> the strategy its URL names
  candidates,  \* claim -> jobs its snapshot shows QUEUED
  passed,      \* claim -> those it has been at and did not take
  target,      \* request -> the job it has chosen, or was given
  reply        \* request -> its answer, or "none"

vars ==
  <<sequence, position, status, lockedBy, rowLock, pc, strategy, candidates, passed,
    target, reply>>
table == <<sequence, position, status, lockedBy>>
choice == <<strategy, candidates>>

Statuses == {"none", "inserted", "lost", "QUEUED", "RUNNING", "DONE"}
InTransaction == {"locking", "claiming", "waiting", "updating"}
Answers == {"none", "claimed", "nothing", "unavailable", "done", "not_found", "error", "lost"}

\* Mutant: the transaction is left open.
KeepLocks(r) == rowLock

\* The transaction ends: its row locks are freed and the client is answered.
Unlocked(r) == [j \in Jobs |-> IF rowLock[j] = r THEN None ELSE rowLock[j]]

End(r, answer) ==
  /\ pc' = [pc EXCEPT ![r] = "done"]
  /\ reply' = [reply EXCEPT ![r] = answer]
  /\ rowLock' = Unlocked(r)

----------------------------------------------------------------------------
(* enqueue(): the position is assigned at the flush, the row is visible    *)
(* from the commit on.                                                     *)

Insert(j) ==
  /\ status[j] = "none"
  /\ status' = [status EXCEPT ![j] = "inserted"]
  /\ sequence' = sequence + 1
  /\ position' = [position EXCEPT ![j] = sequence]
  /\ UNCHANGED <<lockedBy, rowLock, pc, choice, passed, target, reply>>

CommitInsert(j) ==
  /\ status[j] = "inserted"
  /\ \/ status' = [status EXCEPT ![j] = "QUEUED"]
     \/ Faults /\ status' = [status EXCEPT ![j] = "lost"]
  /\ UNCHANGED <<sequence, position, lockedBy, rowLock, pc, choice, passed, target, reply>>

----------------------------------------------------------------------------
(* claim().                                                                *)

\* The SELECT starts.
Claim(c) ==
  /\ pc[c] = "idle"
  /\ candidates' = [candidates EXCEPT ![c] = {j \in Jobs : status[j] = "QUEUED"}]
  /\ pc' = [pc EXCEPT ![c] = "locking"]
  /\ UNCHANGED <<table, strategy, rowLock, passed, target, reply>>

Left(c) == candidates[c] \ passed[c]

\* Mutant: ORDER BY position DESC.
NewestFirst(c, j) ==
  /\ j \in Left(c)
  /\ \A i \in Left(c) : position[i] <= position[j]

\* The candidate whose turn it is.
Candidate(c, j) ==
  /\ j \in Left(c)
  /\ \A i \in Left(c) : position[j] <= position[i]

Pass(c, j) == passed' = [passed EXCEPT ![c] = @ \cup {j}]

\* Mutant: a plain SELECT, which no lock stops.
NoLock(j) == TRUE

RowFree(j) == rowLock[j] = None

StillQueued(j) == status[j] = "QUEUED"

\* The candidate is free: lock it, take it if it is still QUEUED, else go on with
\* the lock held.
Lock(c, j) ==
  /\ pc[c] = "locking"
  /\ Candidate(c, j)
  /\ RowFree(j)
  /\ rowLock' = [rowLock EXCEPT ![j] = c]
  /\ IF StillQueued(j)
       THEN /\ pc' = [pc EXCEPT ![c] = "claiming"]
            /\ target' = [target EXCEPT ![c] = j]
            /\ UNCHANGED passed
       ELSE /\ Pass(c, j)
            /\ UNCHANGED <<pc, target>>
  /\ UNCHANGED <<table, choice, reply>>

\* Mutant: every strategy skips.
AlwaysSkips(c) == TRUE

SkipsLocked(c) == strategy[c] = "skip_locked"

\* The candidate is locked: skip it, or fail with 55P03 (DBLockUnavailable), or,
\* blocking, wait for it.
SkipLocked(c, j) ==
  /\ pc[c] = "locking"
  /\ Candidate(c, j)
  /\ ~RowFree(j)
  /\ SkipsLocked(c)
  /\ Pass(c, j)
  /\ UNCHANGED <<table, rowLock, pc, choice, target, reply>>

NoWait(c, j) ==
  /\ pc[c] = "locking"
  /\ Candidate(c, j)
  /\ ~RowFree(j)
  /\ strategy[c] = "nowait"
  /\ End(c, "unavailable")
  /\ UNCHANGED <<table, choice, passed, target>>

\* No candidate is left: claimed=False.
Nothing(c) ==
  /\ pc[c] = "locking"
  /\ Left(c) = {}
  /\ End(c, "nothing")
  /\ UNCHANGED <<table, choice, passed, target>>

\* Mutant: the transaction is never committed.
ForgetCommit(c) == UNCHANGED <<status, lockedBy>>

Write(c) ==
  /\ status' = [status EXCEPT ![target[c]] = "RUNNING"]
  /\ lockedBy' = [lockedBy EXCEPT ![target[c]] = c]

\* The UPDATE and its commit.
CommitClaim(c) ==
  /\ pc[c] = "claiming"
  /\ Write(c)
  /\ End(c, "claimed")
  /\ UNCHANGED <<sequence, position, choice, passed, target>>

----------------------------------------------------------------------------
(* complete().                                                             *)

\* session.get: a plain SELECT. The ORM writes nothing if the row says DONE.
Get(d, j) ==
  /\ pc[d] = "idle"
  /\ CASE status[j] \in {"none", "inserted", "lost"} ->
            End(d, "not_found") /\ UNCHANGED target
       [] status[j] = "DONE" -> End(d, "done") /\ UNCHANGED target
       [] OTHER -> /\ pc' = [pc EXCEPT ![d] = "waiting"]
                   /\ target' = [target EXCEPT ![d] = j]
                   /\ UNCHANGED <<rowLock, reply>>
  /\ UNCHANGED <<table, choice, passed>>

\* The UPDATE waits for the row, whatever its status has become.
Update(d) ==
  /\ pc[d] = "waiting"
  /\ RowFree(target[d])
  /\ rowLock' = [rowLock EXCEPT ![target[d]] = d]
  /\ pc' = [pc EXCEPT ![d] = "updating"]
  /\ UNCHANGED <<table, choice, passed, target, reply>>

CommitDone(d) ==
  /\ pc[d] = "updating"
  /\ status' = [status EXCEPT ![target[d]] = "DONE"]
  /\ End(d, "done")
  /\ UNCHANGED <<sequence, position, lockedBy, choice, passed, target>>

\* The connection fails, the client leaves or the worker dies: rolled back.
Fail(r) ==
  /\ Faults
  /\ pc[r] \in InTransaction
  /\ End(r, "error")
  /\ UNCHANGED <<table, choice, passed, target>>

\* The commit took effect and its answer was lost.
LoseAnswer(c) ==
  /\ Faults
  /\ pc[c] = "claiming"
  /\ Write(c)
  /\ End(c, "lost")
  /\ UNCHANGED <<sequence, position, choice, passed, target>>

----------------------------------------------------------------------------
Init ==
  /\ sequence = 1
  /\ position = [j \in Jobs |-> 0]
  /\ status = [j \in Jobs |-> "none"]
  /\ lockedBy = [j \in Jobs |-> None]
  /\ rowLock = [j \in Jobs |-> None]
  /\ pc = [r \in Requests |-> "idle"]
  /\ strategy \in [Claims -> Strategies]
  /\ candidates = [c \in Claims |-> {}]
  /\ passed = [c \in Claims |-> {}]
  /\ target = [r \in Requests |-> None]
  /\ reply = [r \in Requests |-> "none"]

ClaimStep(c) ==
  \/ \E j \in Jobs : Lock(c, j) \/ SkipLocked(c, j) \/ NoWait(c, j)
  \/ Nothing(c) \/ CommitClaim(c)

CompleteStep(d) == Update(d) \/ CommitDone(d)

Next ==
  \/ \E j \in Jobs : Insert(j) \/ CommitInsert(j)
  \/ \E c \in Claims : Claim(c) \/ ClaimStep(c) \/ LoseAnswer(c)
  \/ \E d \in Completes : CompleteStep(d) \/ \E j \in Jobs : Get(d, j)
  \/ \E r \in Requests : Fail(r)

Spec == Init /\ [][Next]_vars

\* The event loop and the database go on with every call that is not waiting, and
\* a freed row is granted to a waiter.
Fairness ==
  /\ \A c \in Claims : WF_vars(ClaimStep(c))
  /\ \A d \in Completes : WF_vars(CompleteStep(d))

FairSpec == Spec /\ Fairness

----------------------------------------------------------------------------
(* Properties.                                                             *)

TypeOK ==
  /\ sequence \in Nat
  /\ position \in [Jobs -> Nat]
  /\ status \in [Jobs -> Statuses]
  /\ lockedBy \in [Jobs -> Claims \cup {None}]
  /\ rowLock \in [Jobs -> Requests \cup {None}]
  /\ pc \in [Requests -> {"idle", "done"} \cup InTransaction]
  /\ strategy \in [Claims -> Strategies]
  /\ candidates \in [Claims -> SUBSET Jobs]
  /\ passed \in [Claims -> SUBSET Jobs]
  /\ target \in [Requests -> Jobs \cup {None}]
  /\ reply \in [Requests -> Answers]

\* ClaimStrategy's "no double-claim": a job that was handed out belongs to that
\* claim and is never handed out again, whatever was completed, skipped, waited
\* for or rolled back in between.
HandedOutOnce ==
  \A c \in Claims : reply[c] = "claimed" =>
    /\ target[c] \in Jobs
    /\ status[target[c]] \in {"RUNNING", "DONE"}
    /\ lockedBy[target[c]] = c

\* claim()'s "the oldest QUEUED job": a claim that does not skip is given a job,
\* or nothing, only when every older job it saw is taken.
OldestFirst ==
  \A c \in Claims : strategy[c] # "skip_locked" =>
    \A j \in candidates[c] :
      \/ reply[c] = "nothing"
      \/ reply[c] = "claimed" /\ position[j] < position[target[c]]
      => status[j] # "QUEUED"

\* A claim that came away with nothing, skipping or not, leaves no job behind
\* that it saw, unless a transaction was rolled back.
NothingLeftBehind ==
  \A c \in Claims :
    reply[c] = "nothing" ~>
      \/ \A j \in candidates[c] : status[j] # "QUEUED"
      \/ \E r \in Requests : reply[r] = "error"

\* A job's status only moves forward; no claim, however old its snapshot, revives
\* a finished job.
Rank(s) == CASE s = "QUEUED" -> 1 [] s = "RUNNING" -> 2 [] s = "DONE" -> 3 [] OTHER -> 0

StatusMovesForward == [][\A j \in Jobs : Rank(status[j]) <= Rank(status'[j])]_vars

\* Every call is answered: no two transactions wait for each other's rows.
EveryCallAnswered ==
  \A r \in Requests : pc[r] \in InTransaction ~> pc[r] = "done"

\* A transaction that has chosen its job holds the row, and a claim's is QUEUED.
ChoicesLocked ==
  \A r \in Requests :
    /\ pc[r] = "claiming" => r \in Claims
    /\ pc[r] \in {"waiting", "updating"} =>
         /\ target[r] \in Jobs
         /\ status[target[r]] \in {"QUEUED", "RUNNING", "DONE"}
    /\ pc[r] \in {"claiming", "updating"} =>
         /\ target[r] \in Jobs
         /\ rowLock[target[r]] = r
         /\ pc[r] = "claiming" => status[target[r]] = "QUEUED"

\* A job is handed to a claim that has ended, and each claim has one at most.
ClaimsEnded ==
  /\ \A j \in Jobs : lockedBy[j] # None => pc[lockedBy[j]] = "done"
  /\ \A j \in Jobs : status[j] \in {"none", "inserted", "lost", "QUEUED"} => lockedBy[j] = None
  /\ \A r \in Requests : reply[r] # "none" => pc[r] = "done"

\* What a claim went past is taken, unless it skips; what it chose comes before
\* all it did not reach.
TakenInOrder ==
  \A c \in Claims :
    /\ strategy[c] # "skip_locked" => \A j \in passed[c] : status[j] # "QUEUED"
    /\ \A j \in candidates[c] : status[j] \notin {"none", "inserted", "lost"}
    /\ passed[c] \subseteq candidates[c]
    /\ pc[c] = "idle" => passed[c] = {}
    /\ reply[c] = "nothing" => Left(c) = {}
    /\ pc[c] = "claiming" \/ reply[c] = "claimed" =>
         \A j \in Left(c) : position[target[c]] <= position[j]

\* The inductive invariant behind HandedOutOnce, OldestFirst and the refinement.
IInv ==
  TypeOK /\ ChoicesLocked /\ ClaimsEnded /\ TakenInOrder /\ HandedOutOnce /\ OldestFirst

\* Positions are given out once.
PositionsDiffer ==
  \A i, j \in Jobs : status[i] # "none" =>
    /\ position[i] < sequence
    /\ status[j] # "none" /\ position[i] = position[j] => i = j

\* A claim goes through its candidates from one end.
PassedComeFirst ==
  \A c \in Claims : \A i \in passed[c], j \in Left(c) : position[i] < position[j]

\* The rows a claim holds while it looks for its job are behind it; the others that
\* hold a row have found theirs.
HeldWhenPassed ==
  \A j \in Jobs : rowLock[j] # None =>
    \/ pc[rowLock[j]] \in {"claiming", "updating"}
    \/ rowLock[j] \in Claims /\ pc[rowLock[j]] = "locking" /\ j \in passed[rowLock[j]]

LocksBehind == PassedComeFirst /\ HeldWhenPassed

\* The calls that wait for a row another transaction holds.
Waits(r, j) ==
  /\ ~RowFree(j)
  /\ \/ r \in Claims /\ pc[r] = "locking" /\ strategy[r] = "blocking" /\ Candidate(r, j)
     \/ pc[r] = "waiting" /\ target[r] = j

\* Whoever is waited for waits, if at all, for a row further on: no circle of
\* transactions can close.
WaitsGoForward ==
  \A r \in Requests, i, j \in Jobs :
    Waits(r, i) /\ Waits(rowLock[i], j) => position[i] < position[j]

\* A claim and a completion each go through their own places.
InRole ==
  /\ \A c \in Claims : pc[c] \in {"idle", "locking", "claiming", "done"}
  /\ \A d \in Completes : pc[d] \in {"idle", "waiting", "updating", "done"}

\* The guards of ClaimStep and CompleteStep.
MayLook(c) ==
  \/ Left(c) = {}
  \/ \E j \in Jobs : Candidate(c, j) /\ (RowFree(j) \/ strategy[c] # "blocking")

GoesOn(r) ==
  \/ r \in Claims /\ pc[r] = "locking" /\ MayLook(r)
  \/ r \in Claims /\ pc[r] = "claiming"
  \/ r \in Completes /\ pc[r] = "waiting" /\ RowFree(target[r])
  \/ r \in Completes /\ pc[r] = "updating"

\* Of the transactions under way, one at least can take its next step.
SomebodyGoesOn ==
  (\E r \in Requests : pc[r] \in InTransaction) => \E r \in Requests : GoesOn(r)

\* The queue implements the promise to its workers.
Visible(s) == CASE s \in {"none", "inserted", "lost"} -> "absent"
                [] s = "QUEUED" -> "queued"
                [] s = "RUNNING" -> "running"
                [] s = "DONE" -> "done"
TheQueue ==
  INSTANCE WorkQueue WITH
    state <- [j \in Jobs |-> Visible(status[j])],
    holder <- lockedBy,
    given <- [c \in Claims |-> IF reply[c] = "claimed" THEN target[c] ELSE None]
ImplementsQueue == TheQueue!Spec
============================================================================
