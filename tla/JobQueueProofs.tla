--------------------------- MODULE JobQueueProofs ---------------------------
(***************************************************************************)
(* Proofs about JobQueue: one lemma per action, one step in it per         *)
(* conjunct of the inductive invariant; then the theorems.                 *)
(***************************************************************************)
EXTENDS JobQueue, WellFoundedInduction, TLAPS

USE RequestsAssumption, NoneAssumption, StrategiesAssumption DEF Requests

LEMMA InsertKeeps ==
  ASSUME IInv, NEW j \in Jobs, Insert(j)
  PROVE  IInv'
<1> USE DEF Insert, table, choice
<1>1. TypeOK'
  BY DEF IInv, TypeOK, Statuses, InTransaction, Answers
<1>2. ChoicesLocked'
  BY DEF IInv, TypeOK, ChoicesLocked
<1>3. ClaimsEnded'
  BY DEF IInv, TypeOK, ChoicesLocked, ClaimsEnded
<1>4. TakenInOrder'
  BY DEF IInv, TypeOK, ChoicesLocked, ClaimsEnded, TakenInOrder, HandedOutOnce, Left
<1>5. HandedOutOnce'
  BY DEF IInv, TypeOK, ChoicesLocked, ClaimsEnded, HandedOutOnce
<1>6. OldestFirst'
  BY DEF IInv, TypeOK, ChoicesLocked, ClaimsEnded, TakenInOrder, HandedOutOnce, OldestFirst, Left
<1> QED
  BY <1>1, <1>2, <1>3, <1>4, <1>5, <1>6 DEF IInv

LEMMA CommitInsertKeeps ==
  ASSUME IInv, NEW j \in Jobs, CommitInsert(j)
  PROVE  IInv'
<1> USE DEF CommitInsert, choice
<1>1. TypeOK'
  BY DEF IInv, TypeOK, Statuses, InTransaction, Answers
<1>2. ChoicesLocked'
  BY DEF IInv, TypeOK, ChoicesLocked
<1>3. ClaimsEnded'
  BY DEF IInv, TypeOK, ChoicesLocked, ClaimsEnded
<1>4. TakenInOrder'
  BY DEF IInv, TypeOK, ChoicesLocked, ClaimsEnded, TakenInOrder, HandedOutOnce, Left
<1>5. HandedOutOnce'
  BY DEF IInv, TypeOK, ChoicesLocked, ClaimsEnded, HandedOutOnce
<1>6. OldestFirst'
  BY DEF IInv, TypeOK, ChoicesLocked, ClaimsEnded, TakenInOrder, HandedOutOnce, OldestFirst, Left
<1> QED
  BY <1>1, <1>2, <1>3, <1>4, <1>5, <1>6 DEF IInv

LEMMA ClaimKeeps ==
  ASSUME IInv, NEW c \in Claims, Claim(c)
  PROVE  IInv'
<1> USE DEF Claim, table
<1>1. TypeOK'
  BY DEF IInv, TypeOK, Statuses, InTransaction, Answers
<1>2. ChoicesLocked'
  BY DEF IInv, TypeOK, ChoicesLocked
<1>3. ClaimsEnded'
  BY DEF IInv, TypeOK, ChoicesLocked, ClaimsEnded
<1>4. TakenInOrder'
  BY DEF IInv, TypeOK, ChoicesLocked, ClaimsEnded, TakenInOrder, HandedOutOnce, Left
<1>5. HandedOutOnce'
  BY DEF IInv, TypeOK, ChoicesLocked, ClaimsEnded, HandedOutOnce
<1>6. OldestFirst'
  BY DEF IInv, TypeOK, ChoicesLocked, ClaimsEnded, TakenInOrder, HandedOutOnce, OldestFirst, Left
<1> QED
  BY <1>1, <1>2, <1>3, <1>4, <1>5, <1>6 DEF IInv

LEMMA LockKeeps ==
  ASSUME IInv, NEW c \in Claims, NEW j \in Jobs, Lock(c, j)
  PROVE  IInv'
<1> USE DEF Lock, Candidate, Left, RowFree, StillQueued, Pass, table, choice
<1>1. TypeOK'
  BY DEF IInv, TypeOK, Statuses, InTransaction, Answers
<1>2. ChoicesLocked'
  BY DEF IInv, TypeOK, ChoicesLocked
<1>3. ClaimsEnded'
  BY DEF IInv, TypeOK, ChoicesLocked, ClaimsEnded
<1>4. TakenInOrder'
  BY DEF IInv, TypeOK, ChoicesLocked, ClaimsEnded, TakenInOrder, HandedOutOnce, Left
<1>5. HandedOutOnce'
  BY DEF IInv, TypeOK, ChoicesLocked, ClaimsEnded, HandedOutOnce
<1>6. OldestFirst'
  BY DEF IInv, TypeOK, ChoicesLocked, ClaimsEnded, TakenInOrder, HandedOutOnce, OldestFirst, Left
<1> QED
  BY <1>1, <1>2, <1>3, <1>4, <1>5, <1>6 DEF IInv

LEMMA SkipKeeps ==
  ASSUME IInv, NEW c \in Claims, NEW j \in Jobs, SkipLocked(c, j)
  PROVE  IInv'
<1> USE DEF SkipLocked, SkipsLocked, Candidate, Left, Pass, table, choice
<1>1. TypeOK'
  BY DEF IInv, TypeOK, Statuses, InTransaction, Answers
<1>2. ChoicesLocked'
  BY DEF IInv, TypeOK, ChoicesLocked
<1>3. ClaimsEnded'
  BY DEF IInv, TypeOK, ChoicesLocked, ClaimsEnded
<1>4. TakenInOrder'
  BY DEF IInv, TypeOK, ChoicesLocked, ClaimsEnded, TakenInOrder, HandedOutOnce, Left
<1>5. HandedOutOnce'
  BY DEF IInv, TypeOK, ChoicesLocked, ClaimsEnded, HandedOutOnce
<1>6. OldestFirst'
  BY DEF IInv, TypeOK, ChoicesLocked, ClaimsEnded, TakenInOrder, HandedOutOnce, OldestFirst, Left
<1> QED
  BY <1>1, <1>2, <1>3, <1>4, <1>5, <1>6 DEF IInv

LEMMA NoWaitKeeps ==
  ASSUME IInv, NEW c \in Claims, NEW j \in Jobs, NoWait(c, j)
  PROVE  IInv'
<1> USE DEF NoWait, End, Unlocked, table, choice
<1>1. TypeOK'
  BY DEF IInv, TypeOK, Statuses, InTransaction, Answers
<1>2. ChoicesLocked'
  BY DEF IInv, TypeOK, ChoicesLocked
<1>3. ClaimsEnded'
  BY DEF IInv, TypeOK, ChoicesLocked, ClaimsEnded
<1>4. TakenInOrder'
  BY DEF IInv, TypeOK, ChoicesLocked, ClaimsEnded, TakenInOrder, HandedOutOnce, Left
<1>5. HandedOutOnce'
  BY DEF IInv, TypeOK, ChoicesLocked, ClaimsEnded, HandedOutOnce
<1>6. OldestFirst'
  BY DEF IInv, TypeOK, ChoicesLocked, ClaimsEnded, TakenInOrder, HandedOutOnce, OldestFirst, Left
<1> QED
  BY <1>1, <1>2, <1>3, <1>4, <1>5, <1>6 DEF IInv

LEMMA NothingKeeps ==
  ASSUME IInv, NEW c \in Claims, Nothing(c)
  PROVE  IInv'
<1> USE DEF Nothing, End, Unlocked, Left, table, choice
<1>1. TypeOK'
  BY DEF IInv, TypeOK, Statuses, InTransaction, Answers
<1>2. ChoicesLocked'
  BY DEF IInv, TypeOK, ChoicesLocked
<1>3. ClaimsEnded'
  BY DEF IInv, TypeOK, ChoicesLocked, ClaimsEnded
<1>4. TakenInOrder'
  BY DEF IInv, TypeOK, ChoicesLocked, ClaimsEnded, TakenInOrder, HandedOutOnce, Left
<1>5. HandedOutOnce'
  BY DEF IInv, TypeOK, ChoicesLocked, ClaimsEnded, HandedOutOnce
<1>6. OldestFirst'
  BY DEF IInv, TypeOK, ChoicesLocked, ClaimsEnded, TakenInOrder, HandedOutOnce, OldestFirst, Left
<1> QED
  BY <1>1, <1>2, <1>3, <1>4, <1>5, <1>6 DEF IInv

LEMMA CommitClaimKeeps ==
  ASSUME IInv, NEW c \in Claims, CommitClaim(c) \/ LoseAnswer(c)
  PROVE  IInv'
<1> USE DEF CommitClaim, LoseAnswer, Write, End, Unlocked, choice
<1>1. TypeOK'
  <2> USE DEF IInv, TypeOK
  <2>1. UNCHANGED <<sequence, position, strategy, candidates, passed, target>>
    OBVIOUS
  <2>2. status' \in [Jobs -> Statuses] /\ lockedBy' \in [Jobs -> Claims \cup {None}]
    BY DEF Statuses
  <2>3. rowLock' \in [Jobs -> Requests \cup {None}]
    OBVIOUS
  <2>4. reply' \in [Requests -> Answers] /\ pc' \in [Requests -> {"idle", "done"} \cup InTransaction]
    BY DEF Answers
  <2> QED
    BY <2>1, <2>2, <2>3, <2>4
<1>2. ChoicesLocked'
  BY DEF IInv, TypeOK, ChoicesLocked
<1>3. ClaimsEnded'
  BY DEF IInv, TypeOK, ChoicesLocked, ClaimsEnded
<1>4. TakenInOrder'
  BY DEF IInv, TypeOK, ChoicesLocked, ClaimsEnded, TakenInOrder, HandedOutOnce, Left
<1>5. HandedOutOnce'
  BY DEF IInv, TypeOK, ChoicesLocked, ClaimsEnded, HandedOutOnce
<1>6. OldestFirst'
  BY DEF IInv, TypeOK, ChoicesLocked, ClaimsEnded, TakenInOrder, HandedOutOnce, OldestFirst, Left
<1> QED
  BY <1>1, <1>2, <1>3, <1>4, <1>5, <1>6 DEF IInv

LEMMA GetKeeps ==
  ASSUME IInv, NEW d \in Completes, NEW j \in Jobs, Get(d, j)
  PROVE  IInv'
<1> USE DEF Get, End, Unlocked, table, choice
<1>1. TypeOK'
  BY DEF IInv, TypeOK, Statuses, InTransaction, Answers
<1>2. ChoicesLocked'
  BY DEF IInv, TypeOK, Statuses, ChoicesLocked
<1>3. ClaimsEnded'
  BY DEF IInv, TypeOK, ChoicesLocked, ClaimsEnded
<1>4. TakenInOrder'
  BY DEF IInv, TypeOK, ChoicesLocked, ClaimsEnded, TakenInOrder, HandedOutOnce, Left
<1>5. HandedOutOnce'
  BY DEF IInv, TypeOK, ChoicesLocked, ClaimsEnded, HandedOutOnce
<1>6. OldestFirst'
  BY DEF IInv, TypeOK, ChoicesLocked, ClaimsEnded, TakenInOrder, HandedOutOnce, OldestFirst, Left
<1> QED
  BY <1>1, <1>2, <1>3, <1>4, <1>5, <1>6 DEF IInv

LEMMA UpdateKeeps ==
  ASSUME IInv, NEW d \in Completes, Update(d)
  PROVE  IInv'
<1> USE DEF Update, RowFree, table, choice
<1>1. TypeOK'
  BY DEF IInv, TypeOK, Statuses, InTransaction, Answers
<1>2. ChoicesLocked'
  BY DEF IInv, TypeOK, ChoicesLocked
<1>3. ClaimsEnded'
  BY DEF IInv, TypeOK, ChoicesLocked, ClaimsEnded
<1>4. TakenInOrder'
  BY DEF IInv, TypeOK, ChoicesLocked, ClaimsEnded, TakenInOrder, HandedOutOnce, Left
<1>5. HandedOutOnce'
  BY DEF IInv, TypeOK, ChoicesLocked, ClaimsEnded, HandedOutOnce
<1>6. OldestFirst'
  BY DEF IInv, TypeOK, ChoicesLocked, ClaimsEnded, TakenInOrder, HandedOutOnce, OldestFirst, Left
<1> QED
  BY <1>1, <1>2, <1>3, <1>4, <1>5, <1>6 DEF IInv

LEMMA CommitDoneKeeps ==
  ASSUME IInv, NEW d \in Completes, CommitDone(d)
  PROVE  IInv'
<1> USE DEF CommitDone, End, Unlocked, choice
<1>1. TypeOK'
  BY DEF IInv, TypeOK, Statuses, InTransaction, Answers
<1>2. ChoicesLocked'
  BY DEF IInv, TypeOK, ChoicesLocked
<1>3. ClaimsEnded'
  BY DEF IInv, TypeOK, ChoicesLocked, ClaimsEnded
<1>4. TakenInOrder'
  BY DEF IInv, TypeOK, ChoicesLocked, ClaimsEnded, TakenInOrder, HandedOutOnce, Left
<1>5. HandedOutOnce'
  BY DEF IInv, TypeOK, ChoicesLocked, ClaimsEnded, HandedOutOnce
<1>6. OldestFirst'
  BY DEF IInv, TypeOK, ChoicesLocked, ClaimsEnded, TakenInOrder, HandedOutOnce, OldestFirst, Left
<1> QED
  BY <1>1, <1>2, <1>3, <1>4, <1>5, <1>6 DEF IInv

LEMMA FailKeeps ==
  ASSUME IInv, NEW r \in Requests, Fail(r)
  PROVE  IInv'
<1> USE DEF Fail, End, Unlocked, table, choice
<1>1. TypeOK'
  BY DEF IInv, TypeOK, Statuses, InTransaction, Answers
<1>2. ChoicesLocked'
  BY DEF IInv, TypeOK, ChoicesLocked
<1>3. ClaimsEnded'
  BY DEF IInv, TypeOK, ChoicesLocked, ClaimsEnded
<1>4. TakenInOrder'
  BY DEF IInv, TypeOK, ChoicesLocked, ClaimsEnded, TakenInOrder, HandedOutOnce, Left
<1>5. HandedOutOnce'
  BY DEF IInv, TypeOK, ChoicesLocked, ClaimsEnded, HandedOutOnce
<1>6. OldestFirst'
  BY DEF IInv, TypeOK, ChoicesLocked, ClaimsEnded, TakenInOrder, HandedOutOnce, OldestFirst, Left
<1> QED
  BY <1>1, <1>2, <1>3, <1>4, <1>5, <1>6 DEF IInv

----------------------------------------------------------------------------
LEMMA InitialState == ASSUME Init PROVE IInv
<1> USE DEF Init
<1>1. TypeOK
  BY DEF TypeOK, Statuses, InTransaction, Answers
<1>2. ChoicesLocked /\ ClaimsEnded /\ HandedOutOnce
  BY DEF ChoicesLocked, ClaimsEnded, HandedOutOnce
<1>3. TakenInOrder /\ OldestFirst
  BY DEF TakenInOrder, OldestFirst, Left
<1> QED
  BY <1>1, <1>2, <1>3 DEF IInv

LEMMA StutterKeeps == ASSUME IInv, UNCHANGED vars PROVE IInv'
BY DEF vars, IInv, TypeOK, ChoicesLocked, ClaimsEnded, TakenInOrder, HandedOutOnce, OldestFirst, Left

\* The inductive invariant: a chosen job is locked and QUEUED, a claim passes over
\* jobs in their order, a job once handed out stays with its claim.
THEOREM Invariance == Spec => []IInv
<1>1. Init => IInv
  BY InitialState
<1>2. IInv /\ [Next]_vars => IInv'
  <2> SUFFICES ASSUME IInv, [Next]_vars PROVE IInv'
    OBVIOUS
  <2>1. CASE UNCHANGED vars
    BY <2>1, StutterKeeps
  <2>2. ASSUME NEW j \in Jobs, Insert(j) \/ CommitInsert(j) PROVE IInv'
    BY <2>2, InsertKeeps, CommitInsertKeeps
  <2>3. ASSUME NEW c \in Claims, Claim(c) \/ ClaimStep(c) \/ LoseAnswer(c) PROVE IInv'
    <3>1. CASE Claim(c)
      BY <3>1, ClaimKeeps
    <3>2. ASSUME NEW j \in Jobs, Lock(c, j) \/ SkipLocked(c, j) \/ NoWait(c, j) PROVE IInv'
      BY <3>2, LockKeeps, SkipKeeps, NoWaitKeeps
    <3>3. CASE Nothing(c) \/ CommitClaim(c) \/ LoseAnswer(c)
      BY <3>3, NothingKeeps, CommitClaimKeeps
    <3> QED
      BY <2>3, <3>1, <3>2, <3>3 DEF ClaimStep
  <2>4. ASSUME NEW d \in Completes, CompleteStep(d) PROVE IInv'
    BY <2>4, UpdateKeeps, CommitDoneKeeps DEF CompleteStep
  <2>5. ASSUME NEW d \in Completes, NEW j \in Jobs, Get(d, j) PROVE IInv'
    BY <2>5, GetKeeps
  <2>6. ASSUME NEW r \in Requests, Fail(r) PROVE IInv'
    BY <2>6, FailKeeps
  <2> QED
    BY <2>1, <2>2, <2>3, <2>4, <2>5, <2>6 DEF Next
<1> QED
  BY <1>1, <1>2, PTL DEF Spec

\* No double-claim, with any number of claims and completions by any strategies,
\* and with rollbacks and lost answers.
THEOREM NoDoubleClaim == Spec => []HandedOutOnce
<1>1. IInv => HandedOutOnce
  BY DEF IInv
<1> QED
  BY <1>1, Invariance, PTL

\* A claim that does not skip takes the oldest job it saw.
THEOREM OldestIsClaimed == Spec => []OldestFirst
<1>1. IInv => OldestFirst
  BY DEF IInv
<1> QED
  BY <1>1, Invariance, PTL

----------------------------------------------------------------------------
\* Which actions change a status, and how.
LEMMA OtherStatusSteps ==
  ASSUME IInv, [Next]_vars,
         ~\E c \in Claims : CommitClaim(c) \/ LoseAnswer(c)
  PROVE  \/ UNCHANGED <<status, lockedBy>>
         \/ \E j \in Jobs, s \in Statuses :
              /\ UNCHANGED lockedBy
              /\ status' = [status EXCEPT ![j] = s]
              /\ \/ status[j] = "none" /\ s = "inserted"
                 \/ status[j] = "inserted" /\ s \in {"QUEUED", "lost"}
                 \/ status[j] \in {"QUEUED", "RUNNING", "DONE"} /\ s = "DONE"
<1> USE DEF IInv, TypeOK, Statuses
<1>1. CASE UNCHANGED vars
  BY <1>1 DEF vars
<1>2. ASSUME NEW j \in Jobs, Insert(j) \/ CommitInsert(j) PROVE
        \E s \in Statuses :
          /\ UNCHANGED lockedBy
          /\ status' = [status EXCEPT ![j] = s]
          /\ \/ status[j] = "none" /\ s = "inserted"
             \/ status[j] = "inserted" /\ s \in {"QUEUED", "lost"}
  BY <1>2 DEF Insert, CommitInsert
<1>3. ASSUME NEW c \in Claims, NEW j \in Jobs, Lock(c, j) \/ SkipLocked(c, j) \/ NoWait(c, j)
      PROVE UNCHANGED <<status, lockedBy>>
  BY <1>3 DEF Lock, SkipLocked, NoWait, table
<1>4. ASSUME NEW c \in Claims, Claim(c) \/ Nothing(c) PROVE UNCHANGED <<status, lockedBy>>
  BY <1>4 DEF Claim, Nothing, table
<1>5. ASSUME NEW d \in Completes, NEW j \in Jobs, Get(d, j) PROVE UNCHANGED <<status, lockedBy>>
  BY <1>5 DEF Get, table
<1>6. ASSUME NEW d \in Completes, Update(d) PROVE UNCHANGED <<status, lockedBy>>
  BY <1>6 DEF Update, table
<1>7. ASSUME NEW r \in Requests, Fail(r) PROVE UNCHANGED <<status, lockedBy>>
  BY <1>7 DEF Fail, table
<1>8. ASSUME NEW d \in Completes, CommitDone(d)
      PROVE /\ target[d] \in Jobs
            /\ UNCHANGED lockedBy
            /\ status[target[d]] \in {"QUEUED", "RUNNING", "DONE"}
            /\ status' = [status EXCEPT ![target[d]] = "DONE"]
  BY <1>8 DEF CommitDone, ChoicesLocked
<1> QED
  BY <1>1, <1>2, <1>3, <1>4, <1>5, <1>6, <1>7, <1>8 DEF Next, ClaimStep, CompleteStep

\* A status never moves backwards: no old snapshot revives a finished job.
THEOREM StatusesMoveForward == Spec => StatusMovesForward
<1>1. IInv /\ [Next]_vars => [\A j \in Jobs : Rank(status[j]) <= Rank(status'[j])]_vars
  <2> SUFFICES ASSUME IInv, [Next]_vars, NEW j \in Jobs
               PROVE Rank(status[j]) <= Rank(status'[j])
    OBVIOUS
  <2> USE DEF Rank, IInv, TypeOK, Statuses
  <2>1. ASSUME NEW c \in Claims, CommitClaim(c) \/ LoseAnswer(c)
        PROVE Rank(status[j]) <= Rank(status'[j])
    BY <2>1 DEF CommitClaim, LoseAnswer, Write, ChoicesLocked
  <2>2. CASE ~\E c \in Claims : CommitClaim(c) \/ LoseAnswer(c)
    BY <2>2, OtherStatusSteps
  <2> QED
    BY <2>1, <2>2
<1> QED
  BY <1>1, Invariance, PTL DEF Spec, StatusMovesForward

----------------------------------------------------------------------------
\* An action that answers no claim with a job.
LEMMA OtherAnswers ==
  ASSUME IInv, [Next]_vars,
         ~\E c \in Claims : CommitClaim(c)
  PROVE  UNCHANGED [c \in Claims |-> IF reply[c] = "claimed" THEN target[c] ELSE None]
<1> USE DEF IInv, TypeOK, ClaimsEnded
<1>1. SUFFICES ASSUME NEW c \in Claims
               PROVE  /\ (reply[c] = "claimed") = (reply'[c] = "claimed")
                      /\ reply[c] = "claimed" => target'[c] = target[c]
  OBVIOUS
<1>2. CASE UNCHANGED vars
  BY <1>2 DEF vars
<1>3. ASSUME NEW j \in Jobs, Insert(j) \/ CommitInsert(j) PROVE UNCHANGED <<reply, target>>
  BY <1>3 DEF Insert, CommitInsert
<1>4. ASSUME NEW x \in Claims, NEW j \in Jobs, Lock(x, j) \/ SkipLocked(x, j)
      PROVE UNCHANGED reply /\ (reply[c] = "claimed" => target'[c] = target[c])
  BY <1>4 DEF Lock, SkipLocked
<1>5. ASSUME NEW x \in Claims, Claim(x) PROVE UNCHANGED <<reply, target>>
  BY <1>5 DEF Claim
<1>6. ASSUME NEW r \in Requests, NEW a, a # "claimed", pc[r] # "done", End(r, a), UNCHANGED target
      PROVE  (reply[c] = "claimed") = (reply'[c] = "claimed")
  BY <1>6 DEF End
<1>7. ASSUME NEW x \in Claims, NEW j \in Jobs, NoWait(x, j)
      PROVE UNCHANGED target /\ (reply[c] = "claimed") = (reply'[c] = "claimed")
  BY <1>6, <1>7 DEF NoWait
<1>8. ASSUME NEW d \in Completes, NEW j \in Jobs, Get(d, j)
      PROVE  /\ (reply[c] = "claimed") = (reply'[c] = "claimed")
             /\ target'[c] = target[c]
  BY <1>8 DEF Get, End
<1>9. ASSUME NEW d \in Completes, Update(d) PROVE UNCHANGED <<reply, target>>
  BY <1>9 DEF Update
<1>10. ASSUME NEW d \in Completes, CommitDone(d)
       PROVE UNCHANGED target /\ (reply[c] = "claimed") = (reply'[c] = "claimed")
  BY <1>6, <1>10 DEF CommitDone
<1>11. ASSUME NEW r \in Requests, Fail(r)
       PROVE UNCHANGED target /\ (reply[c] = "claimed") = (reply'[c] = "claimed")
  BY <1>6, <1>11 DEF Fail, InTransaction
<1>12. ASSUME NEW x \in Claims, Nothing(x) \/ LoseAnswer(x)
       PROVE UNCHANGED target /\ (reply[c] = "claimed") = (reply'[c] = "claimed")
  BY <1>6, <1>12 DEF Nothing, LoseAnswer
<1> QED
  BY <1>2, <1>3, <1>4, <1>5, <1>7, <1>8, <1>9, <1>10, <1>11, <1>12 DEF Next, ClaimStep, CompleteStep

LEMMA ClaimedJob ==
  ASSUME IInv, NEW c \in Claims, CommitClaim(c)
  PROVE  [x \in Claims |-> IF reply[x] = "claimed" THEN target[x] ELSE None]' =
           [[x \in Claims |-> IF reply[x] = "claimed" THEN target[x] ELSE None]
              EXCEPT ![c] = target[c]]
BY DEF CommitClaim, End, IInv, TypeOK

\* The queue implements its promise: each step hands out, enqueues or finishes
\* one job, or is invisible to the workers.
THEOREM ImplementsTheQueue == Spec => ImplementsQueue
<1> DEFINE state == [j \in Jobs |-> Visible(status[j])]
           given == [c \in Claims |-> IF reply[c] = "claimed" THEN target[c] ELSE None]
<1>1. Init => TheQueue!Init
  BY DEF Init, TheQueue!Init, Visible
<1>2. IInv /\ [Next]_vars => [TheQueue!Next]_(TheQueue!workVars)
  <2> SUFFICES ASSUME IInv, [Next]_vars
               PROVE TheQueue!Next \/ UNCHANGED <<state, lockedBy, given>>
    BY DEF TheQueue!workVars
  <2> USE DEF IInv, TypeOK, Statuses, Visible
  <2>1. ASSUME NEW c \in Claims, CommitClaim(c) PROVE TheQueue!Next
    <3>1. PICK j \in Jobs : target[c] = j /\ status[j] = "QUEUED" /\ pc[c] = "claiming"
      BY <2>1 DEF CommitClaim, ChoicesLocked
    <3>2. \A i \in Jobs : lockedBy[i] # c
      BY <3>1, NoneAssumption DEF ClaimsEnded
    <3>3. given' = [given EXCEPT ![c] = target[c]]
      BY <2>1, <3>1, ClaimedJob
    <3>4. state' = [state EXCEPT ![j] = "running"]
      BY <2>1, <3>1 DEF CommitClaim, Write
    <3>5. lockedBy' = [lockedBy EXCEPT ![j] = c]
      BY <2>1, <3>1 DEF CommitClaim, Write
    <3>6. TheQueue!Hand(c, j)
      BY <3>1, <3>2, <3>3, <3>4, <3>5 DEF TheQueue!Hand
    <3> QED
      BY <3>6 DEF TheQueue!Next
  <2>2. ASSUME NEW c \in Claims, LoseAnswer(c), ~\E x \in Claims : CommitClaim(x)
        PROVE TheQueue!Next
    <3>1. PICK j \in Jobs : target[c] = j /\ status[j] = "QUEUED" /\ pc[c] = "claiming"
      BY <2>2 DEF LoseAnswer, ChoicesLocked
    <3>2. \A i \in Jobs : lockedBy[i] # c
      BY <3>1, NoneAssumption DEF ClaimsEnded
    <3>3. given' = given
      BY <2>2, OtherAnswers
    <3>4. state' = [state EXCEPT ![j] = "running"]
      BY <2>2, <3>1 DEF LoseAnswer, Write
    <3>5. lockedBy' = [lockedBy EXCEPT ![j] = c]
      BY <2>2, <3>1 DEF LoseAnswer, Write
    <3>6. TheQueue!Hand(c, j)
      BY <3>1, <3>2, <3>3, <3>4, <3>5 DEF TheQueue!Hand
    <3> QED
      BY <3>6 DEF TheQueue!Next
  <2>3. ASSUME ~\E c \in Claims : CommitClaim(c) \/ LoseAnswer(c)
        PROVE TheQueue!Next \/ UNCHANGED <<state, lockedBy, given>>
    <3>1. given' = given
      BY <2>3, OtherAnswers
    <3>2. \/ UNCHANGED <<status, lockedBy>>
          \/ \E j \in Jobs, s \in Statuses :
               /\ UNCHANGED lockedBy
               /\ status' = [status EXCEPT ![j] = s]
               /\ \/ status[j] = "none" /\ s = "inserted"
                  \/ status[j] = "inserted" /\ s \in {"QUEUED", "lost"}
                  \/ status[j] \in {"QUEUED", "RUNNING", "DONE"} /\ s = "DONE"
      BY <2>3, OtherStatusSteps
    <3>3. CASE UNCHANGED <<status, lockedBy>>
      BY <3>1, <3>3
    <3>4. ASSUME NEW j \in Jobs, NEW s \in Statuses,
                 UNCHANGED lockedBy,
                 status' = [status EXCEPT ![j] = s],
                 \/ status[j] = "none" /\ s = "inserted"
                 \/ status[j] = "inserted" /\ s \in {"QUEUED", "lost"}
                 \/ status[j] \in {"QUEUED", "RUNNING", "DONE"} /\ s = "DONE"
          PROVE TheQueue!Next \/ UNCHANGED <<state, lockedBy, given>>
      <4>1. state' = [state EXCEPT ![j] = Visible(s)]
        BY <3>4
      <4>2. CASE s \in {"inserted", "lost"}
        BY <3>1, <3>4, <4>1, <4>2
      <4>3. CASE s = "QUEUED"
        BY <3>1, <3>4, <4>1, <4>3 DEF TheQueue!Next, TheQueue!Enqueue
      <4>4. CASE s = "DONE" /\ status[j] = "DONE"
        BY <3>1, <3>4, <4>1, <4>4
      <4>5. CASE s = "DONE" /\ status[j] \in {"QUEUED", "RUNNING"}
        <5>1. TheQueue!Finish(j)
          BY <3>1, <3>4, <4>1, <4>5 DEF TheQueue!Finish
        <5> QED
          BY <5>1 DEF TheQueue!Next
      <4> QED
        BY <3>4, <4>2, <4>3, <4>4, <4>5
    <3> QED
      BY <3>2, <3>3, <3>4
  <2> QED
    BY <2>1, <2>2, <2>3
<1> QED
  BY <1>1, <1>2, Invariance, PTL DEF Spec, ImplementsQueue, TheQueue!Spec
----------------------------------------------------------------------------
(* Deadlock: the order in which rows are locked.                           *)

LEMMA InsertOrders ==
  ASSUME IInv, PositionsDiffer, LocksBehind, NEW k \in Jobs, Insert(k) \/ CommitInsert(k)
  PROVE  PositionsDiffer' /\ LocksBehind'
<1> USE DEF Insert, CommitInsert, choice, IInv, TypeOK, Statuses
<1>1. PositionsDiffer'
  BY DEF PositionsDiffer
<1>2. /\ UNCHANGED <<rowLock, pc, candidates, passed>>
      /\ \A j \in Jobs : status[j] # "none" => position'[j] = position[j]
  OBVIOUS
<1>3. \A c \in Claims : \A i \in candidates[c] : position'[i] = position[i]
  BY <1>2 DEF TakenInOrder
<1>4. LocksBehind'
  BY <1>2, <1>3 DEF LocksBehind, PassedComeFirst, HeldWhenPassed, TakenInOrder, Left
<1> QED
  BY <1>1, <1>4

\* An action after which a request that is at "idle" is somewhere else, and
\* which locks no row.
LEMMA BeginOrders ==
  ASSUME IInv, PositionsDiffer, LocksBehind,
         \/ \E c \in Claims : Claim(c)
         \/ \E d \in Completes, j \in Jobs : Get(d, j)
  PROVE  PositionsDiffer' /\ LocksBehind'
<1> USE DEF IInv, TypeOK
<1>1. PositionsDiffer'
  BY DEF Claim, Get, table, PositionsDiffer
<1>2. \A j \in Jobs : rowLock[j] # None => pc[rowLock[j]] # "idle"
  BY DEF LocksBehind, HeldWhenPassed
<1>3. ASSUME NEW c \in Claims, Claim(c) PROVE LocksBehind'
  <2>1. PassedComeFirst'
    BY <1>3 DEF Claim, table, LocksBehind, PassedComeFirst, TakenInOrder, Left
  <2>2. HeldWhenPassed'
    BY <1>2, <1>3 DEF Claim, LocksBehind, HeldWhenPassed
  <2> QED
    BY <2>1, <2>2 DEF LocksBehind
<1>4. ASSUME NEW d \in Completes, NEW j \in Jobs, Get(d, j) PROVE LocksBehind'
  <2>1. PassedComeFirst'
    BY <1>4 DEF Get, table, choice, LocksBehind, PassedComeFirst, Left
  <2>2. HeldWhenPassed'
    BY <1>2, <1>4 DEF Get, End, Unlocked, LocksBehind, HeldWhenPassed
  <2> QED
    BY <2>1, <2>2 DEF LocksBehind
<1> QED
  BY <1>1, <1>3, <1>4

\* What the chosen candidate leaves ahead of the claim is further on.
LEMMA PassingOrders ==
  ASSUME IInv, PositionsDiffer, LocksBehind, NEW c \in Claims, NEW j \in Jobs,
         Candidate(c, j), Pass(c, j), UNCHANGED <<position, candidates>>
  PROVE  PassedComeFirst'
<1> USE DEF IInv, TypeOK
<1>1. \A k \in Left(c) \ {j} : position[j] < position[k]
  <2>1. \A k \in Left(c) : k \in Jobs /\ status[k] # "none"
    BY DEF Left, TakenInOrder
  <2>2. j \in Left(c) /\ \A k \in Left(c) : position[j] <= position[k]
    BY DEF Candidate
  <2> QED
    BY <2>1, <2>2 DEF PositionsDiffer
<1>2. passed' = [passed EXCEPT ![c] = @ \cup {j}]
  BY DEF Pass
<1>3. \A x \in Claims : Left(x)' = IF x = c THEN Left(c) \ {j} ELSE Left(x)
  BY <1>2 DEF Left
<1> QED
  BY <1>1, <1>2, <1>3 DEF LocksBehind, PassedComeFirst, HeldWhenPassed

LEMMA LookingOrders ==
  ASSUME IInv, PositionsDiffer, LocksBehind, NEW c \in Claims, NEW j \in Jobs,
         Lock(c, j) \/ SkipLocked(c, j)
  PROVE  PositionsDiffer' /\ LocksBehind'
<1> USE DEF IInv, TypeOK
<1>1. PositionsDiffer'
  BY DEF Lock, SkipLocked, table, PositionsDiffer
<1>2. PassedComeFirst'
  <2>1. CASE Pass(c, j)
    BY <2>1, PassingOrders DEF Lock, SkipLocked, table, choice
  <2>2. CASE UNCHANGED passed
    BY <2>2 DEF Lock, SkipLocked, table, choice, LocksBehind, PassedComeFirst, Left
  <2> QED
    BY <2>1, <2>2 DEF Lock, SkipLocked
<1>3. HeldWhenPassed'
  <2>1. CASE SkipLocked(c, j)
    BY <2>1 DEF SkipLocked, Pass, LocksBehind, HeldWhenPassed
  <2>2. CASE Lock(c, j) /\ StillQueued(j)
    BY <2>2 DEF Lock, LocksBehind, HeldWhenPassed
  <2>3. CASE Lock(c, j) /\ ~StillQueued(j)
    BY <2>3 DEF Lock, Pass, LocksBehind, HeldWhenPassed
  <2> QED
    BY <2>1, <2>2, <2>3
<1> QED
  BY <1>1, <1>2, <1>3 DEF LocksBehind

\* The transaction's end frees its rows.
LEMMA EndOrders ==
  ASSUME IInv, PositionsDiffer, LocksBehind, NEW r \in Requests, NEW a, End(r, a),
         UNCHANGED <<sequence, position, candidates, passed>>,
         \A j \in Jobs : status'[j] = "none" <=> status[j] = "none"
  PROVE  PositionsDiffer' /\ LocksBehind'
<1> USE DEF IInv, TypeOK
<1>1. PositionsDiffer'
  BY DEF PositionsDiffer
<1>2. \A j \in Jobs : rowLock'[j] # None => rowLock'[j] = rowLock[j] /\ rowLock[j] # r
  BY DEF End, Unlocked
<1>3. \A q \in Requests : q # r => pc'[q] = pc[q]
  BY DEF End
<1>4. LocksBehind'
  BY <1>2, <1>3 DEF LocksBehind, PassedComeFirst, HeldWhenPassed, Left
<1> QED
  BY <1>1, <1>4

LEMMA EndingOrders ==
  ASSUME IInv, PositionsDiffer, LocksBehind,
         \/ \E c \in Claims : \/ Nothing(c) \/ CommitClaim(c) \/ LoseAnswer(c)
                              \/ \E j \in Jobs : NoWait(c, j)
         \/ \E d \in Completes : CommitDone(d)
         \/ \E r \in Requests : Fail(r)
  PROVE  PositionsDiffer' /\ LocksBehind'
<1> USE DEF IInv, TypeOK, table, choice
<1>1. ASSUME NEW c \in Claims, CommitClaim(c) \/ LoseAnswer(c)
      PROVE  PositionsDiffer' /\ LocksBehind'
  <2>1. target[c] \in Jobs /\ status[target[c]] = "QUEUED"
    BY <1>1 DEF CommitClaim, LoseAnswer, ChoicesLocked
  <2>2. \A j \in Jobs : status'[j] = "none" <=> status[j] = "none"
    BY <1>1, <2>1 DEF CommitClaim, LoseAnswer, Write
  <2> QED
    BY <1>1, <2>2, EndOrders DEF CommitClaim, LoseAnswer
<1>2. ASSUME NEW d \in Completes, CommitDone(d)
      PROVE  PositionsDiffer' /\ LocksBehind'
  <2>1. target[d] \in Jobs /\ status[target[d]] # "none"
    BY <1>2 DEF CommitDone, ChoicesLocked
  <2>2. \A j \in Jobs : status'[j] = "none" <=> status[j] = "none"
    BY <1>2, <2>1 DEF CommitDone
  <2> QED
    BY <1>2, <2>2, EndOrders DEF CommitDone
<1>3. ASSUME NEW c \in Claims, NEW j \in Jobs, NoWait(c, j)
      PROVE  PositionsDiffer' /\ LocksBehind'
  BY <1>3, EndOrders DEF NoWait
<1>4. ASSUME NEW c \in Claims, Nothing(c)
      PROVE  PositionsDiffer' /\ LocksBehind'
  BY <1>4, EndOrders DEF Nothing
<1>5. ASSUME NEW r \in Requests, Fail(r)
      PROVE  PositionsDiffer' /\ LocksBehind'
  BY <1>5, EndOrders DEF Fail
<1> QED
  BY <1>1, <1>2, <1>3, <1>4, <1>5

LEMMA UpdateOrders ==
  ASSUME IInv, PositionsDiffer, LocksBehind, NEW d \in Completes, Update(d)
  PROVE  PositionsDiffer' /\ LocksBehind'
<1> USE DEF Update, table, choice, IInv, TypeOK
<1>1. PositionsDiffer'
  BY DEF PositionsDiffer
<1>2. LocksBehind'
  BY DEF LocksBehind, PassedComeFirst, HeldWhenPassed, Left
<1> QED
  BY <1>1, <1>2

\* Positions are given out once, and what a claim holds is behind it.
LEMMA LocksInOrder == Spec => [](IInv /\ PositionsDiffer /\ LocksBehind)
<1>1. Init => PositionsDiffer /\ LocksBehind
  BY DEF Init, PositionsDiffer, LocksBehind, PassedComeFirst, HeldWhenPassed, Left
<1>2. IInv /\ PositionsDiffer /\ LocksBehind /\ [Next]_vars => (PositionsDiffer /\ LocksBehind)'
  <2> SUFFICES ASSUME IInv, PositionsDiffer, LocksBehind, [Next]_vars
               PROVE  PositionsDiffer' /\ LocksBehind'
    OBVIOUS
  <2>1. CASE UNCHANGED vars
    BY <2>1 DEF vars, PositionsDiffer, LocksBehind, PassedComeFirst, HeldWhenPassed, Left
  <2> QED
    BY <2>1, InsertOrders, BeginOrders, LookingOrders, EndingOrders, UpdateOrders
    DEF Next, ClaimStep, CompleteStep
<1> QED
  BY <1>1, <1>2, Invariance, PTL DEF Spec

\* The lock order behind EveryCallAnswered: who is waited for waits, if at all, for a
\* row further on. No chain of waits returns to where it began.
THEOREM NoCircularWait == Spec => []WaitsGoForward
<1>1. IInv /\ LocksBehind => WaitsGoForward
  <2> SUFFICES ASSUME IInv, LocksBehind,
                      NEW r \in Requests, NEW i \in Jobs, NEW j \in Jobs,
                      Waits(r, i), Waits(rowLock[i], j)
               PROVE  position[i] < position[j]
    BY DEF WaitsGoForward
  <2> USE DEF IInv, TypeOK
  <2> DEFINE holder == rowLock[i]
  <2>1. holder \in Requests /\ pc[holder] \in {"locking", "waiting"}
    BY DEF Waits, RowFree
  <2>2. pc[holder] = "locking" /\ holder \in Claims /\ i \in passed[holder]
    BY <2>1 DEF LocksBehind, PassedComeFirst, HeldWhenPassed
  <2>3. j \in Left(holder)
    BY <2>1, <2>2 DEF Waits, Candidate
  <2> QED
    BY <2>2, <2>3 DEF LocksBehind, PassedComeFirst, HeldWhenPassed
<1> QED
  BY <1>1, LocksInOrder, PTL

LEMMA LeastElement ==
  ASSUME NEW S \in SUBSET Nat, S # {}
  PROVE  \E m \in S : \A n \in S : m <= n
<1>1. PICK m \in S : \A n \in S : ~(<<n, m>> \in OpToRel(<, Nat))
  BY NatLessThanWellFounded, WFMin
<1>2. ASSUME NEW n \in S, n < m PROVE <<n, m>> \in OpToRel(<, Nat)
  BY <1>2 DEF OpToRel
<1>3. \A n \in S : ~(n < m)
  BY <1>1, <1>2
<1> QED
  BY <1>3

LEMMA RolesKept == Spec => []InRole
<1>1. Init => InRole
  BY DEF Init, InRole
<1>2. IInv /\ InRole /\ [Next]_vars => InRole'
  <2> SUFFICES ASSUME IInv, InRole, [Next]_vars PROVE InRole'
    OBVIOUS
  <2> USE DEF IInv, TypeOK, InRole
  <2>1. CASE UNCHANGED vars
    BY <2>1 DEF vars
  <2>2. ASSUME NEW j \in Jobs, Insert(j) \/ CommitInsert(j) PROVE InRole'
    BY <2>2 DEF Insert, CommitInsert
  <2>3. ASSUME NEW c \in Claims, Claim(c) \/ Nothing(c) \/ CommitClaim(c) \/ LoseAnswer(c)
        PROVE  InRole'
    BY <2>3 DEF Claim, Nothing, CommitClaim, LoseAnswer, End
  <2>4. ASSUME NEW c \in Claims, NEW j \in Jobs, Lock(c, j) \/ SkipLocked(c, j) \/ NoWait(c, j)
        PROVE  InRole'
    BY <2>4 DEF Lock, SkipLocked, NoWait, End
  <2>5. ASSUME NEW d \in Completes, NEW j \in Jobs, Get(d, j) PROVE InRole'
    BY <2>5 DEF Get, End
  <2>6. ASSUME NEW d \in Completes, Update(d) \/ CommitDone(d) PROVE InRole'
    BY <2>6 DEF Update, CommitDone, End
  <2>7. ASSUME NEW r \in Requests, Fail(r) PROVE InRole'
    BY <2>7 DEF Fail, End
  <2> QED
    BY <2>1, <2>2, <2>3, <2>4, <2>5, <2>6, <2>7 DEF Next, ClaimStep, CompleteStep
<1> QED
  BY <1>1, <1>2, Invariance, PTL DEF Spec

\* A claim that has candidates left is at one of them.
LEMMA SomeCandidate ==
  ASSUME IInv, NEW c \in Claims, Left(c) # {}
  PROVE  \E j \in Jobs : Candidate(c, j)
<1> USE DEF IInv, TypeOK
<1> DEFINE P == {position[j] : j \in Left(c)}
<1>1. Left(c) \subseteq Jobs
  BY DEF Left
<1>2. P \in SUBSET Nat /\ P # {}
  BY <1>1
<1>3. PICK m \in P : \A n \in P : m <= n
  <2> HIDE DEF P
  <2> QED
    BY <1>2, LeastElement
<1> QED
  BY <1>1, <1>3 DEF Candidate

\* Whoever is under way and cannot go on waits for a row.
LEMMA WaitsOrGoesOn ==
  ASSUME IInv, InRole, NEW r \in Requests, pc[r] \in InTransaction, ~GoesOn(r)
  PROVE  \E j \in Jobs : Waits(r, j)
<1> USE DEF IInv, TypeOK
<1>1. CASE r \in Claims
  <2>1. pc[r] = "locking" /\ Left(r) # {}
    BY <1>1 DEF InRole, InTransaction, GoesOn, MayLook
  <2>2. PICK j \in Jobs : Candidate(r, j)
    BY <1>1, <2>1, SomeCandidate
  <2>3. ~RowFree(j) /\ strategy[r] = "blocking"
    BY <1>1, <2>1, <2>2 DEF GoesOn, MayLook
  <2> QED
    BY <1>1, <2>1, <2>2, <2>3 DEF Waits
<1>2. CASE r \in Completes
  <2>1. pc[r] = "waiting" /\ ~RowFree(target[r]) /\ target[r] \in Jobs
    BY <1>2 DEF InRole, InTransaction, GoesOn, ChoicesLocked
  <2> QED
    BY <2>1 DEF Waits
<1> QED
  BY <1>1, <1>2

\* No deadlock: while any transaction is under way, one of them can take its next
\* step. It is whoever holds the row, furthest on, that anybody waits for.
THEOREM NoDeadlock == Spec => []SomebodyGoesOn
<1>1. IInv /\ PositionsDiffer /\ LocksBehind /\ WaitsGoForward /\ InRole => SomebodyGoesOn
  <2> SUFFICES ASSUME IInv, PositionsDiffer, LocksBehind, WaitsGoForward, InRole,
                      NEW r \in Requests, pc[r] \in InTransaction,
                      \A q \in Requests : ~GoesOn(q)
               PROVE  FALSE
    BY DEF SomebodyGoesOn
  <2>0. \A q \in Requests : pc[q] \in InTransaction => \E j \in Jobs : Waits(q, j)
    BY WaitsOrGoesOn
  <2> USE DEF IInv, TypeOK
  <2> DEFINE Wanted == {j \in Jobs : \E q \in Requests : Waits(q, j)}
             Ahead == {sequence - position[j] : j \in Wanted}
  <2>1. \A j \in Wanted : position[j] < sequence
    BY DEF Waits, Candidate, Left, TakenInOrder, ChoicesLocked, PositionsDiffer
  <2>2. Ahead \in SUBSET Nat /\ Ahead # {}
    BY <2>0, <2>1
  <2>3. PICK i \in Wanted : \A j \in Wanted : sequence - position[i] <= sequence - position[j]
    <3>1. PICK m \in Ahead : \A n \in Ahead : m <= n
      <4> HIDE DEF Ahead
      <4> QED
        BY <2>2, LeastElement
    <3> QED
      BY <3>1
  <2>4. PICK q \in Requests : Waits(q, i)
    OBVIOUS
  <2>5. rowLock[i] \in Requests /\ pc[rowLock[i]] \in InTransaction
    BY <2>4 DEF Waits, RowFree, LocksBehind, PassedComeFirst, HeldWhenPassed, InTransaction
  <2>6. PICK j \in Jobs : Waits(rowLock[i], j)
    BY <2>0, <2>5
  <2>7. position[i] < position[j]
    BY <2>4, <2>6 DEF WaitsGoForward
  <2>8. sequence - position[i] <= sequence - position[j]
    BY <2>3, <2>5, <2>6
  <2> QED
    BY <2>7, <2>8
<1> QED
  BY <1>1, LocksInOrder, NoCircularWait, RolesKept, PTL
============================================================================
