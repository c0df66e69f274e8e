---------------------------- MODULE WebhooksProofs ----------------------------
(***************************************************************************)
(* Proofs about Webhooks: one lemma per action, one step in it per         *)
(* conjunct of the inductive invariant; then the theorems.                 *)
(***************************************************************************)
EXTENDS Webhooks, FiniteSetTheorems, TLAPS

LEMMA EventOfDelivery == \A d \in Deliveries : Event(d) \in Events
  BY DEF Deliveries, Event

USE EventOfDelivery DEF Of

\* The attempt a task is about to record.
LEMMA AttemptOfTask ==
  ASSUME IInv, NEW d \in Deliveries, at[d] = "recording"
  PROVE  /\ Attempt(d) \in AttemptRows
         /\ Attempt(d).delivery = d
         /\ Attempt(d).number = try[d]
         /\ Attempt(d).status = result[d]
  BY DEF IInv, TypeOK, RecordFollowsTask, Attempt, AttemptRows

\* When a group stops, only tasks of its call that were recording leave a row.
LEMMA StopEffect ==
  ASSUME IInv, NEW e \in Events, NEW raising \in SUBSET Of(e), Stop(e, raising)
  PROVE  /\ attempts \subseteq attempts'
         /\ \A a \in attempts' \ attempts :
              /\ a \in AttemptRows /\ a.delivery \in Of(e)
              /\ at[a.delivery] = "recording" /\ a = Attempt(a.delivery)
         /\ at' \in [Deliveries ->
              {"none", "queued", "recording", "broadcasting", "sleeping"} \cup Holding \cup Over]
         /\ \A d \in Of(e) :
              at'[d] = IF d \in raising THEN "raised"
                       ELSE IF at[d] \in Over THEN at[d] ELSE "stopped"
         /\ \A d \in Deliveries \ Of(e) : at'[d] = at[d]
         /\ result' \in [Deliveries -> {"none", "success", "failed"}]
         /\ \A d \in Deliveries \ Of(e) : result'[d] = result[d]
         /\ UNCHANGED <<try, told>>
<1>1. PICK committed \in SUBSET Unfinished(e) :
        attempts' = attempts \cup {Attempt(d) : d \in committed}
  BY DEF Stop
<1>2. \A d \in committed : d \in Of(e) /\ d \in Deliveries /\ at[d] = "recording"
  BY <1>1 DEF Unfinished
<1>3. \A a \in attempts' \ attempts :
        /\ a \in AttemptRows /\ a.delivery \in Of(e)
        /\ at[a.delivery] = "recording" /\ a = Attempt(a.delivery)
  BY <1>1, <1>2, AttemptOfTask
<1>4. at' \in [Deliveries ->
        {"none", "queued", "recording", "broadcasting", "sleeping"} \cup Holding \cup Over]
  BY DEF Stop, IInv, TypeOK, Over
<1>5. /\ \A d \in Of(e) :
            at'[d] = IF d \in raising THEN "raised"
                     ELSE IF at[d] \in Over THEN at[d] ELSE "stopped"
      /\ \A d \in Deliveries \ Of(e) : at'[d] = at[d]
  BY DEF Stop, Live
<1>6. /\ result' \in [Deliveries -> {"none", "success", "failed"}]
      /\ \A d \in Deliveries \ Of(e) : result'[d] = result[d]
  BY DEF Stop, IInv, TypeOK
<1> QED
  BY <1>1, <1>3, <1>4, <1>5, <1>6 DEF Stop

\* The conjuncts of the invariant that a stopping group can disturb.
LEMMA StopKeeps ==
  ASSUME IInv, NEW e \in Events, NEW raising \in SUBSET Of(e), Stop(e, raising),
         pc[e] = "delivering", UNCHANGED <<targets, row>>
  PROVE  /\ RecordFollowsTask' /\ AnswerFollowsRecord' /\ AttemptsNotedByCall'
         /\ RetriesVisible' /\ StatusIsTrue'
         /\ attempts' \subseteq AttemptRows
<1> USE StopEffect
<1>1. RecordFollowsTask'
  <2> SUFFICES ASSUME NEW d \in Deliveries
               PROVE  /\ at'[d] = "none" => try'[d] = 1
                      /\ at'[d] = "recording" => result'[d] \in {"success", "failed"}
                      /\ at'[d] = "sleeping" =>
                           [delivery |-> d, number |-> 1, status |-> "failed"] \in attempts'
                      /\ Recorded(d, "success")' => at'[d] \in {"broadcasting"} \cup Over
    BY DEF RecordFollowsTask
  <2>1. CASE d \in Of(e)
    <3>1. at'[d] \in Over
      BY <2>1 DEF Over
    <3> QED
      BY <3>1 DEF Over
  <2>2. CASE d \notin Of(e)
    <3>1. at'[d] = at[d] /\ result'[d] = result[d] /\ try'[d] = try[d]
      BY <2>2
    <3>2. Recorded(d, "success")' => Recorded(d, "success")
      BY <2>2 DEF Recorded
    <3> QED
      BY <3>1, <3>2 DEF IInv, RecordFollowsTask
  <2> QED
    BY <2>1, <2>2
<1>2. AnswerFollowsRecord'
  <2> SUFFICES ASSUME NEW d \in Deliveries
               PROVE  /\ at'[d] = "broadcasting" =>
                           \E a \in told'[Event(d)] : a.delivery = d /\ a.status = "success"
                      /\ at'[d] = "ended" => \E a \in told'[Event(d)] : a.delivery = d
                      /\ at'[d] \notin {"raised", "stopped"} =>
                           \A a \in attempts' : a.delivery = d => a \in told'[Event(d)]
    BY DEF AnswerFollowsRecord
  <2>1. at'[d] \in {"raised", "stopped"} \/ at'[d] = at[d]
    BY DEF Over
  <2>2. at'[d] \notin {"raised", "stopped"} =>
          \A a \in attempts' : a.delivery = d => a \in attempts
    BY <2>1 DEF Over
  <2> QED
    BY <2>1, <2>2 DEF IInv, AnswerFollowsRecord
<1>3. AttemptsNotedByCall'
  BY DEF IInv, AttemptsNotedByCall
<1>4. RetriesVisible'
  <2> SUFFICES ASSUME NEW d \in Deliveries, try'[d] = 2
               PROVE  /\ [delivery |-> d, number |-> 1, status |-> "failed"] \in attempts'
                      /\ at'[d] \in {"queued", "nested", "posting"} => ~Recorded(d, "success")'
    BY DEF RetriesVisible
  <2>1. [delivery |-> d, number |-> 1, status |-> "failed"] \in attempts'
    BY DEF IInv, RetriesVisible
  <2>2. ASSUME at'[d] \in {"queued", "nested", "posting"} PROVE ~Recorded(d, "success")'
    <3>1. d \notin Of(e) /\ at'[d] = at[d]
      BY <2>2 DEF Over
    <3>2. ~Recorded(d, "success")
      BY <2>2, <3>1 DEF IInv, RetriesVisible
    <3> QED
      BY <3>1, <3>2 DEF Recorded
  <2> QED
    BY <2>1, <2>2
<1>5. StatusIsTrue'
  <2> SUFFICES ASSUME NEW f \in Events
               PROVE  /\ row'[f] = "COMPLETED" => \A d \in Of(f)' : Recorded(d, "success")'
                      /\ row'[f] = "PARTIAL" => \E d \in Of(f)' : ~Recorded(d, "success")'
    BY DEF StatusIsTrue
  <2>1. Of(f)' = Of(f) /\ row'[f] = row[f]
    OBVIOUS
  <2>2. CASE f = e
    BY <2>1, <2>2 DEF IInv, OutcomeIsLast
  <2>3. CASE f # e
    <3>1. \A d \in Of(f) : d \notin Of(e)
      BY <2>3
    <3>2. \A d \in Of(f) : Recorded(d, "success")' <=> Recorded(d, "success")
      BY <3>1 DEF Recorded
    <3> QED
      BY <2>1, <3>2 DEF IInv, StatusIsTrue
  <2> QED
    BY <2>2, <2>3
<1>6. attempts' \subseteq AttemptRows
  BY DEF IInv, TypeOK
<1> QED
  BY <1>1, <1>2, <1>3, <1>4, <1>5, <1>6

\* What a finished fan-out writes into the event's row is what is on record.
LEMMA OutcomeIsTrue ==
  ASSUME IInv, NEW e \in Events, pc[e] = "finishing"
  PROVE  /\ FinalStatus(e) = "COMPLETED" => \A d \in Of(e) : Recorded(d, "success")
         /\ FinalStatus(e) = "PARTIAL" => \E d \in Of(e) : ~Recorded(d, "success")
<1>1. \A d \in Of(e) : at[d] = "ended" /\ d \in Deliveries /\ Event(d) = e
  BY DEF IInv, TasksWithinCall
<1>2. \A d \in Of(e) : \E a \in told[e] : a.delivery = d
  BY <1>1 DEF IInv, AnswerFollowsRecord
<1>3. \A a \in told[e] : a \in attempts /\ a.status \in {"success", "failed"}
  BY DEF IInv, AttemptsNotedByCall, TypeOK, AttemptRows
<1>4. \A d \in Of(e) : Recorded(d, "success") <=> d \in Successful(e)
  BY <1>1, <1>3 DEF IInv, AnswerFollowsRecord, Successful, Recorded
<1>5. ~SomeFailed(e) => \A d \in Of(e) : d \in Successful(e)
  BY <1>2, <1>3 DEF SomeFailed, Successful
<1>6. Successful(e) \subseteq Of(e)
  BY DEF Successful
<1> QED
  BY <1>4, <1>5, <1>6 DEF FinalStatus

LEMMA TakeWebhookSlotKeeps ==
  ASSUME IInv, NEW d \in Deliveries, TakeWebhookSlot(d), UNCHANGED <<pc, targets, row>>
  PROVE  IInv'
<1> USE DEF TakeWebhookSlot, At
<1>1. TypeOK'
  BY DEF IInv, TypeOK, RecordFollowsTask, AttemptRows, Answered, Holding, Over
<1>2. TasksWithinCall'
  BY DEF IInv, TypeOK, TasksWithinCall, Answered, Holding, Over
<1>3. RecordFollowsTask'
  BY DEF IInv, TypeOK, RecordFollowsTask, RetriesVisible, AttemptRows, Recorded, Holding, Over
<1>4. AnswerFollowsRecord'
  BY DEF IInv, TypeOK, RecordFollowsTask, AnswerFollowsRecord, AttemptRows, Holding, Over
<1>5. AttemptsNotedByCall'
  BY DEF IInv, TypeOK, AttemptRows, RecordFollowsTask, AttemptsNotedByCall
<1>6. OutcomeIsLast'
  BY DEF IInv, TypeOK, TasksWithinCall, OutcomeIsLast
<1>7. RetriesVisible'
  BY DEF IInv, TypeOK, RecordFollowsTask, RetriesVisible, AttemptRows, Recorded, Holding, Over
<1>8. StatusIsTrue'
  BY DEF IInv, TypeOK, TasksWithinCall, OutcomeIsLast, StatusIsTrue, AttemptRows, Recorded, Holding, Over
<1> QED
  BY <1>1, <1>2, <1>3, <1>4, <1>5, <1>6, <1>7, <1>8 DEF IInv

LEMMA TakeHttpSlotKeeps ==
  ASSUME IInv, NEW d \in Deliveries, TakeHttpSlot(d), UNCHANGED <<pc, targets, row>>
  PROVE  IInv'
<1> USE DEF TakeHttpSlot, At
<1>1. TypeOK'
  BY DEF IInv, TypeOK, RecordFollowsTask, AttemptRows, Answered, Holding, Over
<1>2. TasksWithinCall'
  BY DEF IInv, TypeOK, TasksWithinCall, Answered, Holding, Over
<1>3. RecordFollowsTask'
  BY DEF IInv, TypeOK, RecordFollowsTask, RetriesVisible, AttemptRows, Recorded, Holding, Over
<1>4. AnswerFollowsRecord'
  BY DEF IInv, TypeOK, RecordFollowsTask, AnswerFollowsRecord, AttemptRows, Holding, Over
<1>5. AttemptsNotedByCall'
  BY DEF IInv, TypeOK, AttemptRows, RecordFollowsTask, AttemptsNotedByCall
<1>6. OutcomeIsLast'
  BY DEF IInv, TypeOK, TasksWithinCall, OutcomeIsLast
<1>7. RetriesVisible'
  BY DEF IInv, TypeOK, RecordFollowsTask, RetriesVisible, AttemptRows, Recorded, Holding, Over
<1>8. StatusIsTrue'
  BY DEF IInv, TypeOK, TasksWithinCall, OutcomeIsLast, StatusIsTrue, AttemptRows, Recorded, Holding, Over
<1> QED
  BY <1>1, <1>2, <1>3, <1>4, <1>5, <1>6, <1>7, <1>8 DEF IInv

LEMMA PostKeeps ==
  ASSUME IInv, NEW d \in Deliveries, Post(d), UNCHANGED <<pc, targets, row>>
  PROVE  IInv'
<1> USE DEF Post, At
<1>1. TypeOK'
  BY DEF IInv, TypeOK, RecordFollowsTask, AttemptRows, Answered, Holding, Over
<1>2. TasksWithinCall'
  BY DEF IInv, TypeOK, TasksWithinCall, Answered, Holding, Over
<1>3. RecordFollowsTask'
  BY DEF IInv, TypeOK, RecordFollowsTask, RetriesVisible, AttemptRows, Recorded, Holding, Over
<1>4. AnswerFollowsRecord'
  BY DEF IInv, TypeOK, RecordFollowsTask, AnswerFollowsRecord, AttemptRows, Holding, Over
<1>5. AttemptsNotedByCall'
  BY DEF IInv, TypeOK, AttemptRows, RecordFollowsTask, AttemptsNotedByCall
<1>6. OutcomeIsLast'
  BY DEF IInv, TypeOK, TasksWithinCall, OutcomeIsLast
<1>7. RetriesVisible'
  BY DEF IInv, TypeOK, RecordFollowsTask, RetriesVisible, AttemptRows, Recorded, Holding, Over
<1>8. StatusIsTrue'
  BY DEF IInv, TypeOK, TasksWithinCall, OutcomeIsLast, StatusIsTrue, AttemptRows, Recorded, Holding, Over
<1> QED
  BY <1>1, <1>2, <1>3, <1>4, <1>5, <1>6, <1>7, <1>8 DEF IInv

LEMMA RecordKeeps ==
  ASSUME IInv, NEW d \in Deliveries, Record(d), UNCHANGED <<pc, targets, row>>
  PROVE  IInv'
<1>0. /\ at[d] = "recording" /\ result[d] \in {"success", "failed"} /\ try[d] \in {1, 2}
      /\ Attempt(d) \in AttemptRows
      /\ Attempt(d).delivery = d /\ Attempt(d).status = result[d]
      /\ Attempt(d) = [delivery |-> d, number |-> try[d], status |-> result[d]]
      /\ AfterAttempt(d) \in {"broadcasting", "sleeping", "ended"}
  BY AttemptOfTask DEF Record, Attempt, AfterAttempt, IInv, TypeOK, RecordFollowsTask
<1> USE DEF Record, At
<1>1. TypeOK'
  BY <1>0 DEF IInv, TypeOK, Holding, Over
<1>2. TasksWithinCall'
  BY <1>0 DEF IInv, TypeOK, TasksWithinCall, Answered, Holding, Over
<1>3. RecordFollowsTask'
  <2> SUFFICES ASSUME NEW x \in Deliveries
               PROVE  /\ at'[x] = "none" => try'[x] = 1
                      /\ at'[x] = "recording" => result'[x] \in {"success", "failed"}
                      /\ at'[x] = "sleeping" =>
                           [delivery |-> x, number |-> 1, status |-> "failed"] \in attempts'
                      /\ Recorded(x, "success")' => at'[x] \in {"broadcasting"} \cup Over
    BY DEF RecordFollowsTask
  <2>1. CASE x = d
    <3>1. at'[d] = AfterAttempt(d)
      BY DEF IInv, TypeOK
    <3>2. at'[d] = "sleeping" =>
            [delivery |-> d, number |-> 1, status |-> "failed"] \in attempts'
      BY <1>0, <3>1 DEF AfterAttempt
    <3>3. Recorded(d, "success")' => result[d] = "success"
      BY <1>0 DEF IInv, RecordFollowsTask, Recorded, Over
    <3> QED
      BY <1>0, <2>1, <3>1, <3>2, <3>3 DEF AfterAttempt, Over
  <2>2. CASE x # d
    <3>1. at'[x] = at[x] /\ result'[x] = result[x]
      BY <2>2 DEF IInv, TypeOK
    <3>2. Recorded(x, "success")' => Recorded(x, "success")
      BY <1>0, <2>2 DEF Recorded
    <3> QED
      BY <3>1, <3>2 DEF IInv, RecordFollowsTask
  <2> QED
    BY <2>1, <2>2
<1>4. AnswerFollowsRecord'
  <2> SUFFICES ASSUME NEW x \in Deliveries
               PROVE  /\ at'[x] = "broadcasting" =>
                           \E a \in told'[Event(x)] : a.delivery = x /\ a.status = "success"
                      /\ at'[x] = "ended" => \E a \in told'[Event(x)] : a.delivery = x
                      /\ at'[x] \notin {"raised", "stopped"} =>
                           \A a \in attempts' : a.delivery = x => a \in told'[Event(x)]
    BY DEF AnswerFollowsRecord
  <2>1. told'[Event(d)] = told[Event(d)] \cup {Attempt(d)}
    BY DEF IInv, TypeOK
  <2>2. told[Event(x)] \subseteq told'[Event(x)]
    BY <2>1 DEF IInv, TypeOK
  <2>3. CASE x = d
    <3>1. at'[d] = AfterAttempt(d) /\ at[d] = "recording"
      BY DEF IInv, TypeOK
    <3>2. at'[d] = "broadcasting" => result[d] = "success"
      BY <3>1 DEF AfterAttempt
    <3>3. \A a \in attempts' : a.delivery = d => a \in told'[Event(d)]
      BY <2>1, <3>1 DEF IInv, AnswerFollowsRecord
    <3> QED
      BY <1>0, <2>1, <2>3, <3>2, <3>3
  <2>4. CASE x # d
    <3>1. at'[x] = at[x] /\ \A a \in attempts' : a.delivery = x => a \in attempts
      BY <1>0, <2>4 DEF IInv, TypeOK
    <3> QED
      BY <2>2, <3>1 DEF IInv, AnswerFollowsRecord
  <2> QED
    BY <2>3, <2>4
<1>5. AttemptsNotedByCall'
  BY <1>0 DEF IInv, TypeOK, AttemptsNotedByCall
<1>6. OutcomeIsLast'
  BY DEF IInv, TypeOK, TasksWithinCall, OutcomeIsLast
<1>7. RetriesVisible'
  BY <1>0 DEF IInv, TypeOK, RetriesVisible, Recorded
<1>8. StatusIsTrue'
  <2>1. \A f \in Events : \A x \in Of(f) :
          row[f] \in {"COMPLETED", "PARTIAL"} => x # d
    BY <1>0 DEF IInv, OutcomeIsLast, TasksWithinCall, Over
  <2>2. \A x \in Deliveries : x # d => (Recorded(x, "success")' <=> Recorded(x, "success"))
    BY <1>0 DEF Recorded
  <2> QED
    BY <2>1, <2>2 DEF IInv, StatusIsTrue
<1> QED
  BY <1>1, <1>2, <1>3, <1>4, <1>5, <1>6, <1>7, <1>8 DEF IInv

LEMMA BroadcastedKeeps ==
  ASSUME IInv, NEW d \in Deliveries, Broadcasted(d), UNCHANGED <<pc, targets, row>>
  PROVE  IInv'
<1> USE DEF Broadcasted, At
<1>1. TypeOK'
  BY DEF IInv, TypeOK, RecordFollowsTask, AttemptRows, Answered, Holding, Over
<1>2. TasksWithinCall'
  BY DEF IInv, TypeOK, TasksWithinCall, Answered, Holding, Over
<1>3. RecordFollowsTask'
  BY DEF IInv, TypeOK, RecordFollowsTask, RetriesVisible, AttemptRows, Recorded, Holding, Over
<1>4. AnswerFollowsRecord'
  BY DEF IInv, TypeOK, RecordFollowsTask, AnswerFollowsRecord, AttemptRows, Holding, Over
<1>5. AttemptsNotedByCall'
  BY DEF IInv, TypeOK, AttemptRows, RecordFollowsTask, AttemptsNotedByCall
<1>6. OutcomeIsLast'
  BY DEF IInv, TypeOK, TasksWithinCall, OutcomeIsLast
<1>7. RetriesVisible'
  BY DEF IInv, TypeOK, RecordFollowsTask, RetriesVisible, AttemptRows, Recorded, Holding, Over
<1>8. StatusIsTrue'
  BY DEF IInv, TypeOK, TasksWithinCall, OutcomeIsLast, StatusIsTrue, AttemptRows, Recorded, Holding, Over
<1> QED
  BY <1>1, <1>2, <1>3, <1>4, <1>5, <1>6, <1>7, <1>8 DEF IInv

LEMMA RetryKeeps ==
  ASSUME IInv, NEW d \in Deliveries, Retry(d), UNCHANGED <<pc, targets, row>>
  PROVE  IInv'
<1> USE DEF Retry, At
<1>1. TypeOK'
  BY DEF IInv, TypeOK, RecordFollowsTask, AttemptRows, Answered, Holding, Over
<1>2. TasksWithinCall'
  BY DEF IInv, TypeOK, TasksWithinCall, Answered, Holding, Over
<1>3. RecordFollowsTask'
  BY DEF IInv, TypeOK, RecordFollowsTask, RetriesVisible, AttemptRows, Recorded, Holding, Over
<1>4. AnswerFollowsRecord'
  BY DEF IInv, TypeOK, RecordFollowsTask, AnswerFollowsRecord, AttemptRows, Holding, Over
<1>5. AttemptsNotedByCall'
  BY DEF IInv, TypeOK, AttemptRows, RecordFollowsTask, AttemptsNotedByCall
<1>6. OutcomeIsLast'
  BY DEF IInv, TypeOK, TasksWithinCall, OutcomeIsLast
<1>7. RetriesVisible'
  BY DEF IInv, TypeOK, RecordFollowsTask, RetriesVisible, AttemptRows, Recorded, Holding, Over
<1>8. StatusIsTrue'
  BY DEF IInv, TypeOK, TasksWithinCall, OutcomeIsLast, StatusIsTrue, AttemptRows, Recorded, Holding, Over
<1> QED
  BY <1>1, <1>2, <1>3, <1>4, <1>5, <1>6, <1>7, <1>8 DEF IInv

LEMMA ThrowKeeps ==
  ASSUME IInv, NEW d \in Deliveries, Throw(d), UNCHANGED <<pc, targets, row>>
  PROVE  IInv'
<1>0. Stop(Event(d), {d}) /\ d \in Of(Event(d)) /\ pc[Event(d)] = "delivering"
  BY DEF Throw, Raise, IInv, TypeOK, TasksWithinCall, Over, Answered
<1> USE DEF Throw
<1>1. TypeOK'
  BY <1>0, StopKeeps, StopEffect DEF IInv, TypeOK, AttemptRows, Answered, Holding, Over
<1>2. TasksWithinCall'
  BY <1>0, StopEffect DEF IInv, TypeOK, TasksWithinCall, Answered, Holding, Over
<1>3. RecordFollowsTask'
  BY <1>0, StopKeeps
<1>4. AnswerFollowsRecord'
  BY <1>0, StopKeeps
<1>5. AttemptsNotedByCall'
  BY <1>0, StopKeeps
<1>6. OutcomeIsLast'
  BY DEF IInv, TypeOK, TasksWithinCall, OutcomeIsLast
<1>7. RetriesVisible'
  BY <1>0, StopKeeps
<1>8. StatusIsTrue'
  BY <1>0, StopKeeps
<1> QED
  BY <1>1, <1>2, <1>3, <1>4, <1>5, <1>6, <1>7, <1>8 DEF IInv

LEMMA ReceiveKeeps ==
  ASSUME IInv, NEW e \in Events, Receive(e)
  PROVE  IInv'
<1> USE DEF Receive, deliveries
<1>1. TypeOK'
  BY TargetAssumption DEF IInv, TypeOK, RecordFollowsTask, AttemptRows, Answered, Holding, Over
<1>2. TasksWithinCall'
  BY DEF IInv, TypeOK, TasksWithinCall, Answered, Holding, Over
<1>3. RecordFollowsTask'
  BY DEF IInv, TypeOK, RecordFollowsTask, RetriesVisible, AttemptRows, Recorded, Holding, Over
<1>4. AnswerFollowsRecord'
  BY DEF IInv, TypeOK, RecordFollowsTask, AnswerFollowsRecord, AttemptRows, Holding, Over
<1>5. AttemptsNotedByCall'
  BY DEF IInv, TypeOK, AttemptRows, RecordFollowsTask, AttemptsNotedByCall
<1>6. OutcomeIsLast'
  BY DEF IInv, TypeOK, TasksWithinCall, OutcomeIsLast
<1>7. RetriesVisible'
  BY DEF IInv, TypeOK, RecordFollowsTask, RetriesVisible, AttemptRows, Recorded, Holding, Over
<1>8. StatusIsTrue'
  BY DEF IInv, TypeOK, TasksWithinCall, OutcomeIsLast, StatusIsTrue, AttemptRows, Recorded, Holding, Over
<1> QED
  BY <1>1, <1>2, <1>3, <1>4, <1>5, <1>6, <1>7, <1>8 DEF IInv

LEMMA CreateKeeps ==
  ASSUME IInv, NEW e \in Events, Create(e)
  PROVE  IInv'
<1> USE DEF Create
<1>1. TypeOK'
  BY DEF IInv, TypeOK, RecordFollowsTask, AttemptRows, Answered, Holding, Over
<1>2. TasksWithinCall'
  BY DEF IInv, TypeOK, TasksWithinCall, Answered, Holding, Over
<1>3. RecordFollowsTask'
  BY DEF IInv, TypeOK, TasksWithinCall, RecordFollowsTask, RetriesVisible, AttemptRows, Recorded, Holding, Over
<1>4. AnswerFollowsRecord'
  BY DEF IInv, TypeOK, TasksWithinCall, RecordFollowsTask, AnswerFollowsRecord, AttemptRows, Holding, Over
<1>5. AttemptsNotedByCall'
  BY DEF IInv, TypeOK, AttemptRows, RecordFollowsTask, AttemptsNotedByCall
<1>6. OutcomeIsLast'
  BY DEF IInv, TypeOK, TasksWithinCall, OutcomeIsLast
<1>7. RetriesVisible'
  BY DEF IInv, TypeOK, TasksWithinCall, RecordFollowsTask, RetriesVisible, AttemptRows, Recorded, Holding, Over
<1>8. StatusIsTrue'
  BY DEF IInv, TypeOK, TasksWithinCall, OutcomeIsLast, StatusIsTrue, AttemptRows, Recorded, Holding, Over
<1> QED
  BY <1>1, <1>2, <1>3, <1>4, <1>5, <1>6, <1>7, <1>8 DEF IInv

LEMMA GatherKeeps ==
  ASSUME IInv, NEW e \in Events, Gather(e)
  PROVE  IInv'
<1> USE DEF Gather, deliveries, Live
<1>1. TypeOK'
  BY DEF IInv, TypeOK, RecordFollowsTask, AttemptRows, Answered, Holding, Over
<1>2. TasksWithinCall'
  BY DEF IInv, TypeOK, TasksWithinCall, Answered, Holding, Over
<1>3. RecordFollowsTask'
  BY DEF IInv, TypeOK, RecordFollowsTask, RetriesVisible, AttemptRows, Recorded, Holding, Over
<1>4. AnswerFollowsRecord'
  BY DEF IInv, TypeOK, RecordFollowsTask, AnswerFollowsRecord, AttemptRows, Holding, Over
<1>5. AttemptsNotedByCall'
  BY DEF IInv, TypeOK, AttemptRows, RecordFollowsTask, AttemptsNotedByCall
<1>6. OutcomeIsLast'
  BY DEF IInv, TypeOK, TasksWithinCall, OutcomeIsLast
<1>7. RetriesVisible'
  BY DEF IInv, TypeOK, RecordFollowsTask, RetriesVisible, AttemptRows, Recorded, Holding, Over
<1>8. StatusIsTrue'
  BY DEF IInv, TypeOK, TasksWithinCall, OutcomeIsLast, StatusIsTrue, AttemptRows, Recorded, Holding, Over
<1> QED
  BY <1>1, <1>2, <1>3, <1>4, <1>5, <1>6, <1>7, <1>8 DEF IInv

LEMMA FinishKeeps ==
  ASSUME IInv, NEW e \in Events, Finish(e)
  PROVE  IInv'
<1> USE DEF Finish, deliveries, FinalStatus
<1>1. TypeOK'
  BY DEF IInv, TypeOK, RecordFollowsTask, AttemptRows, Answered, Holding, Over
<1>2. TasksWithinCall'
  BY DEF IInv, TypeOK, TasksWithinCall, Answered, Holding, Over
<1>3. RecordFollowsTask'
  BY DEF IInv, TypeOK, RecordFollowsTask, RetriesVisible, AttemptRows, Recorded, Holding, Over
<1>4. AnswerFollowsRecord'
  BY DEF IInv, TypeOK, RecordFollowsTask, AnswerFollowsRecord, AttemptRows, Holding, Over
<1>5. AttemptsNotedByCall'
  BY DEF IInv, TypeOK, AttemptRows, RecordFollowsTask, AttemptsNotedByCall
<1>6. OutcomeIsLast'
  BY DEF IInv, TypeOK, TasksWithinCall, OutcomeIsLast
<1>7. RetriesVisible'
  BY DEF IInv, TypeOK, RecordFollowsTask, RetriesVisible, AttemptRows, Recorded, Holding, Over
<1>8. StatusIsTrue'
  BY OutcomeIsTrue DEF IInv, TypeOK, TasksWithinCall, OutcomeIsLast, StatusIsTrue, AttemptRows, Recorded
<1> QED
  BY <1>1, <1>2, <1>3, <1>4, <1>5, <1>6, <1>7, <1>8 DEF IInv

LEMMA MarkCancelledKeeps ==
  ASSUME IInv, NEW e \in Events, MarkCancelled(e)
  PROVE  IInv'
<1> USE DEF MarkCancelled, deliveries
<1>1. TypeOK'
  BY DEF IInv, TypeOK, RecordFollowsTask, AttemptRows, Answered, Holding, Over
<1>2. TasksWithinCall'
  BY DEF IInv, TypeOK, TasksWithinCall, Answered, Holding, Over
<1>3. RecordFollowsTask'
  BY DEF IInv, TypeOK, RecordFollowsTask, RetriesVisible, AttemptRows, Recorded, Holding, Over
<1>4. AnswerFollowsRecord'
  BY DEF IInv, TypeOK, RecordFollowsTask, AnswerFollowsRecord, AttemptRows, Holding, Over
<1>5. AttemptsNotedByCall'
  BY DEF IInv, TypeOK, AttemptRows, RecordFollowsTask, AttemptsNotedByCall
<1>6. OutcomeIsLast'
  BY DEF IInv, TypeOK, TasksWithinCall, OutcomeIsLast
<1>7. RetriesVisible'
  BY DEF IInv, TypeOK, RecordFollowsTask, RetriesVisible, AttemptRows, Recorded, Holding, Over
<1>8. StatusIsTrue'
  BY DEF IInv, TypeOK, TasksWithinCall, OutcomeIsLast, StatusIsTrue, AttemptRows, Recorded, Holding, Over
<1> QED
  BY <1>1, <1>2, <1>3, <1>4, <1>5, <1>6, <1>7, <1>8 DEF IInv

LEMMA LeaveKeeps ==
  ASSUME IInv, NEW e \in Events, Leave(e)
  PROVE  IInv'
<1>0. Stop(e, {}) /\ pc[e] = "delivering" /\ UNCHANGED <<targets, row>>
  BY DEF Leave
<1> USE DEF Leave
<1>1. TypeOK'
  BY <1>0, StopKeeps, StopEffect DEF IInv, TypeOK, AttemptRows, Answered, Holding, Over
<1>2. TasksWithinCall'
  BY <1>0, StopEffect DEF IInv, TypeOK, TasksWithinCall, Answered, Holding, Over
<1>3. RecordFollowsTask'
  BY <1>0, StopKeeps
<1>4. AnswerFollowsRecord'
  BY <1>0, StopKeeps
<1>5. AttemptsNotedByCall'
  BY <1>0, StopKeeps
<1>6. OutcomeIsLast'
  BY DEF IInv, TypeOK, TasksWithinCall, OutcomeIsLast
<1>7. RetriesVisible'
  BY <1>0, StopKeeps
<1>8. StatusIsTrue'
  BY <1>0, StopKeeps
<1> QED
  BY <1>1, <1>2, <1>3, <1>4, <1>5, <1>6, <1>7, <1>8 DEF IInv

LEMMA CommitFailsKeeps ==
  ASSUME IInv, NEW e \in Events, CommitFails(e)
  PROVE  IInv'
<1> USE DEF CommitFails, deliveries, FinalStatus
<1>1. TypeOK'
  BY DEF IInv, TypeOK, RecordFollowsTask, AttemptRows, Answered, Holding, Over
<1>2. TasksWithinCall'
  BY DEF IInv, TypeOK, TasksWithinCall, Answered, Holding, Over
<1>3. RecordFollowsTask'
  BY DEF IInv, TypeOK, RecordFollowsTask, RetriesVisible, AttemptRows, Recorded, Holding, Over
<1>4. AnswerFollowsRecord'
  BY DEF IInv, TypeOK, RecordFollowsTask, AnswerFollowsRecord, AttemptRows, Holding, Over
<1>5. AttemptsNotedByCall'
  BY DEF IInv, TypeOK, AttemptRows, RecordFollowsTask, AttemptsNotedByCall
<1>6. OutcomeIsLast'
  BY DEF IInv, TypeOK, TasksWithinCall, OutcomeIsLast
<1>7. RetriesVisible'
  BY DEF IInv, TypeOK, RecordFollowsTask, RetriesVisible, AttemptRows, Recorded, Holding, Over
<1>8. StatusIsTrue'
  BY OutcomeIsTrue DEF IInv, TypeOK, TasksWithinCall, OutcomeIsLast, StatusIsTrue, AttemptRows, Recorded
<1> QED
  BY <1>1, <1>2, <1>3, <1>4, <1>5, <1>6, <1>7, <1>8 DEF IInv
----------------------------------------------------------------------------
LEMMA InitEstablishes == Init => IInv
  BY DEF Init, IInv, TypeOK, TasksWithinCall, RecordFollowsTask, AnswerFollowsRecord,
         AttemptsNotedByCall, OutcomeIsLast, RetriesVisible, StatusIsTrue, Recorded, AttemptRows,
         Holding, Over, Answered

LEMMA NextKeeps == IInv /\ [Next]_vars => IInv'
<1> SUFFICES ASSUME IInv, [Next]_vars PROVE IInv'
  OBVIOUS
<1>1. CASE \E e \in Events : Receive(e) \/ Trigger(e) \/ Leave(e)
  BY <1>1, ReceiveKeeps, CreateKeeps, GatherKeeps, FinishKeeps, MarkCancelledKeeps,
     CommitFailsKeeps, LeaveKeeps DEF Trigger
<1>2. CASE \E d \in Deliveries : Deliver(d)
  BY <1>2, TakeWebhookSlotKeeps, TakeHttpSlotKeeps, PostKeeps, RecordKeeps, BroadcastedKeeps,
     RetryKeeps, ThrowKeeps DEF Deliver
<1>3. CASE (\E f \in Fetches : Fetch(f)) \/ UNCHANGED vars
  <2>1. UNCHANGED <<pc, targets, row, at, try, result, attempts, told>>
    BY <1>3 DEF Fetch, vars
  <2> QED
    BY <2>1 DEF IInv, TypeOK, TasksWithinCall, RecordFollowsTask, AnswerFollowsRecord,
       AttemptsNotedByCall, OutcomeIsLast, RetriesVisible, StatusIsTrue, Recorded
<1> QED
  BY <1>1, <1>2, <1>3 DEF Next

\* The inductive invariant holds in every reachable state.
THEOREM Invariance == Spec => []IInv
  BY InitEstablishes, NextKeeps, PTL DEF Spec

\* trigger_event: the status of an event agrees with the attempts on record, for
\* any number of calls and targets and whatever fails or is cancelled.
THEOREM StatusAgreesWithAttempts == Spec => []StatusIsTrue
<1>1. IInv => StatusIsTrue
  BY DEF IInv
<1> QED
  BY <1>1, Invariance, PTL

\* _deliver: a second call of a target has the failure of the first on record.
THEOREM RetryAfterRecordedFailure == Spec => []RetriesVisible
<1>1. IInv => RetriesVisible
  BY DEF IInv
<1> QED
  BY <1>1, Invariance, PTL

----------------------------------------------------------------------------
(* The slots of the limiters.                                              *)

LEMMA SlotLimits == WebhookLimit \in Nat \ {0} /\ HttpLimit \in Nat \ {0}
  BY LimitAssumption

LEMMA SlotsAtFirst == ASSUME Init PROVE HoldersAreFew /\ SlotsConserved
<1>1. Sending = {} /\ Posting = {} /\ Calling = {}
  BY DEF Init, Sending, Posting, Calling, Holding
<1>2. IsFiniteSet({}) /\ Cardinality({}) = 0
  BY FS_EmptySet
<1> QED
  BY <1>1, <1>2, SlotLimits DEF Init, HoldersAreFew, SlotsConserved

\* A step that moves one task and no upstream call.
LEMMA OneTaskMoves ==
  ASSUME IInv, NEW d \in Deliveries, NEW label, At(d, label), UNCHANGED fetch
  PROVE  /\ Sending' = IF label \in Holding THEN Sending \cup {d} ELSE Sending \ {d}
         /\ Posting' = IF label = "posting" THEN Posting \cup {d} ELSE Posting \ {d}
         /\ Calling' = Calling
<1>1. \A x \in Deliveries : at'[x] = IF x = d THEN label ELSE at[x]
  BY DEF At, IInv, TypeOK
<1> QED
  BY <1>1 DEF Sending, Posting, Calling

LEMMA TakenWebhookSlot ==
  ASSUME IInv, HoldersAreFew, SlotsConserved, NEW d \in Deliveries, TakeWebhookSlot(d), UNCHANGED fetch
  PROVE  HoldersAreFew' /\ SlotsConserved'
<1>1. Sending' = Sending \cup {d} /\ Posting' = Posting \ {d} /\ Calling' = Calling
  BY OneTaskMoves DEF TakeWebhookSlot, Holding
<1>2. d \notin Sending /\ d \notin Posting
  BY DEF TakeWebhookSlot, Sending, Posting, Holding
<1>3. IsFiniteSet(Sending') /\ Cardinality(Sending') = Cardinality(Sending) + 1
  BY <1>1, <1>2, FS_AddElement DEF HoldersAreFew
<1>4. Posting' = Posting
  BY <1>1, <1>2
<1>5. Cardinality(Sending) \in Nat
  BY FS_CardinalityType DEF HoldersAreFew
<1>6. HoldersAreFew'
  BY <1>1, <1>3, <1>4 DEF HoldersAreFew
<1>7. free' = [webhook |-> free.webhook - 1, http |-> free.http] /\ free.webhook > 0
  BY DEF TakeWebhookSlot, SlotsConserved
<1>8. free' \in [webhook : Nat, http : Nat]
  BY <1>7 DEF SlotsConserved
<1>9. /\ free'.webhook + Cardinality(Sending') = WebhookLimit
      /\ free'.http + Cardinality(Posting') + Cardinality(Calling') = HttpLimit
  BY <1>1, <1>3, <1>4, <1>5, <1>7, SlotLimits DEF SlotsConserved
<1> QED
  BY <1>6, <1>8, <1>9 DEF SlotsConserved

LEMMA TakenHttpSlot ==
  ASSUME IInv, HoldersAreFew, SlotsConserved, NEW d \in Deliveries, TakeHttpSlot(d), UNCHANGED fetch
  PROVE  HoldersAreFew' /\ SlotsConserved'
<1>1. Sending' = Sending \cup {d} /\ Posting' = Posting \cup {d} /\ Calling' = Calling
  BY OneTaskMoves DEF TakeHttpSlot, Holding
<1>2. d \in Sending /\ d \notin Posting
  BY DEF TakeHttpSlot, Sending, Posting, Holding
<1>3. IsFiniteSet(Posting') /\ Cardinality(Posting') = Cardinality(Posting) + 1
  BY <1>1, <1>2, FS_AddElement DEF HoldersAreFew
<1>4. Sending' = Sending
  BY <1>1, <1>2
<1>5. Cardinality(Posting) \in Nat /\ Cardinality(Calling) \in Nat
  BY FS_CardinalityType DEF HoldersAreFew
<1>6. HoldersAreFew'
  BY <1>1, <1>3, <1>4 DEF HoldersAreFew
<1>7. free' = [webhook |-> free.webhook, http |-> free.http - 1] /\ free.http > 0
  BY DEF TakeHttpSlot, SlotsConserved
<1>8. free' \in [webhook : Nat, http : Nat]
  BY <1>7 DEF SlotsConserved
<1>9. free.http \in Nat /\ free.http + Cardinality(Posting) + Cardinality(Calling) = HttpLimit
  BY DEF SlotsConserved
<1>10. free'.http + Cardinality(Posting') + Cardinality(Calling') = HttpLimit
  <2>1. free'.http = free.http - 1 /\ Calling' = Calling
    BY <1>1, <1>7
  <2> QED
    BY <1>3, <1>5, <1>9, <2>1
<1>11. free'.webhook + Cardinality(Sending') = WebhookLimit
  BY <1>4, <1>7 DEF SlotsConserved
<1> QED
  BY <1>6, <1>8, <1>10, <1>11 DEF SlotsConserved

LEMMA PostedSlots ==
  ASSUME IInv, HoldersAreFew, SlotsConserved, NEW d \in Deliveries, Post(d), UNCHANGED fetch
  PROVE  HoldersAreFew' /\ SlotsConserved'
<1>1. Sending' = Sending \ {d} /\ Posting' = Posting \ {d} /\ Calling' = Calling
  BY OneTaskMoves DEF Post, Holding
<1>2. d \in Sending /\ d \in Posting
  BY DEF Post, Sending, Posting, Holding
<1>3. IsFiniteSet(Sending') /\ Cardinality(Sending') = Cardinality(Sending) - 1
  BY <1>1, <1>2, FS_RemoveElement DEF HoldersAreFew
<1>4. IsFiniteSet(Posting') /\ Cardinality(Posting') = Cardinality(Posting) - 1
  BY <1>1, <1>2, FS_RemoveElement DEF HoldersAreFew
<1>5. Cardinality(Sending) \in Nat /\ Cardinality(Posting) \in Nat /\ Cardinality(Calling) \in Nat
  BY FS_CardinalityType DEF HoldersAreFew
<1> QED
  BY <1>1, <1>3, <1>4, <1>5, SlotLimits DEF Post, HoldersAreFew, SlotsConserved

\* Steps of a task that is past its call or not yet at it.
LEMMA SlotsUntouched ==
  ASSUME IInv, HoldersAreFew, SlotsConserved, NEW d \in Deliveries,
         Record(d) \/ Broadcasted(d) \/ Retry(d), UNCHANGED fetch
  PROVE  HoldersAreFew' /\ SlotsConserved'
<1>1. \E label : At(d, label) /\ label \notin Holding /\ label # "posting"
  BY DEF Record, Broadcasted, Retry, AfterAttempt, Holding
<1>2. d \notin Sending /\ d \notin Posting
  BY DEF Record, Broadcasted, Retry, Sending, Posting, Holding
<1>3. Sending' = Sending \ {d} /\ Posting' = Posting \ {d} /\ Calling' = Calling
  BY <1>1, OneTaskMoves
<1>4. Sending' = Sending /\ Posting' = Posting /\ Calling' = Calling
  BY <1>2, <1>3
<1> QED
  BY <1>4 DEF Record, Broadcasted, Retry, HoldersAreFew, SlotsConserved

\* A group that stops gives back what its tasks hold, once.
LEMMA StopReturnsSlots ==
  ASSUME IInv, HoldersAreFew, SlotsConserved,
         NEW e \in Events, NEW raising \in SUBSET Of(e), Stop(e, raising), UNCHANGED fetch
  PROVE  HoldersAreFew' /\ SlotsConserved'
<1>1. /\ \A d \in Of(e) : at'[d] \in Over
      /\ \A d \in Deliveries \ Of(e) : at'[d] = at[d]
  BY StopEffect DEF Over
<1>2. Sending' = Sending \ Of(e) /\ Posting' = Posting \ Of(e) /\ Calling' = Calling
  BY <1>1 DEF Sending, Posting, Calling, Holding, Over
<1>3. /\ {d \in Of(e) : at[d] \in Holding} = Sending \cap Of(e)
      /\ {d \in Of(e) : at[d] = "posting"} = Posting \cap Of(e)
  BY DEF Sending, Posting
<1>4. /\ free'.webhook = free.webhook + Cardinality(Sending \cap Of(e))
      /\ free'.http = free.http + Cardinality(Posting \cap Of(e))
      /\ free' = [webhook |-> free'.webhook, http |-> free'.http]
  BY <1>3 DEF Stop, Returned
<1>5. /\ IsFiniteSet(Sending') /\ IsFiniteSet(Posting')
      /\ Cardinality(Sending') = Cardinality(Sending) - Cardinality(Sending \cap Of(e))
      /\ Cardinality(Posting') = Cardinality(Posting) - Cardinality(Posting \cap Of(e))
  BY <1>2, FS_Difference DEF HoldersAreFew
<1>6. /\ IsFiniteSet(Sending \cap Of(e)) /\ IsFiniteSet(Posting \cap Of(e))
  BY FS_Subset DEF HoldersAreFew
<1>7. /\ Cardinality(Sending) \in Nat /\ Cardinality(Posting) \in Nat /\ Cardinality(Calling) \in Nat
      /\ Cardinality(Sending \cap Of(e)) \in Nat /\ Cardinality(Posting \cap Of(e)) \in Nat
  BY <1>6, FS_CardinalityType DEF HoldersAreFew
<1>8. free' \in [webhook : Nat, http : Nat]
  BY <1>4, <1>7 DEF SlotsConserved
<1>9. /\ free'.webhook + Cardinality(Sending') = WebhookLimit
      /\ free'.http + Cardinality(Posting') + Cardinality(Calling') = HttpLimit
  BY <1>2, <1>4, <1>5, <1>7, SlotLimits DEF SlotsConserved
<1> QED
  BY <1>2, <1>5, <1>8, <1>9 DEF HoldersAreFew, SlotsConserved

LEMMA ThrownSlots ==
  ASSUME IInv, HoldersAreFew, SlotsConserved, NEW d \in Deliveries, Throw(d), UNCHANGED fetch
  PROVE  HoldersAreFew' /\ SlotsConserved'
<1>1. d \in Of(Event(d))
  BY DEF Throw, IInv, TasksWithinCall
<1>2. Stop(Event(d), {d})
  BY DEF Throw, Raise
<1>3. Event(d) \in Events /\ {d} \in SUBSET Of(Event(d))
  BY <1>1
<1> QED
  BY <1>2, <1>3, StopReturnsSlots

LEMMA CallsKeepSlots ==
  ASSUME IInv, HoldersAreFew, SlotsConserved, NEW e \in Events,
         Receive(e) \/ Trigger(e) \/ Leave(e)
  PROVE  HoldersAreFew' /\ SlotsConserved'
<1>1. CASE Leave(e)
  BY <1>1, StopReturnsSlots DEF Leave
<1>2. CASE Create(e)
  <2>1. \A d \in Deliveries : at'[d] # at[d] => at[d] = "none" /\ at'[d] = "queued"
    BY <1>2 DEF Create, IInv, TypeOK, TasksWithinCall
  <2>2. Sending' = Sending /\ Posting' = Posting /\ Calling' = Calling
    BY <1>2, <2>1 DEF Create, Sending, Posting, Calling, Holding
  <2> QED
    BY <1>2, <2>2 DEF Create, HoldersAreFew, SlotsConserved
<1>3. CASE Receive(e) \/ Gather(e) \/ Finish(e) \/ MarkCancelled(e) \/ CommitFails(e)
  <2>1. UNCHANGED <<at, fetch, free>>
    BY <1>3 DEF Receive, Gather, Finish, MarkCancelled, CommitFails, deliveries
  <2> QED
    BY <2>1 DEF HoldersAreFew, SlotsConserved, Sending, Posting, Calling
<1> QED
  BY <1>1, <1>2, <1>3 DEF Trigger

LEMMA FetchSlots ==
  ASSUME HoldersAreFew, SlotsConserved, NEW f \in Fetches, Fetch(f)
  PROVE  HoldersAreFew' /\ SlotsConserved'
<1>1. Sending' = Sending /\ Posting' = Posting
  BY DEF Fetch, Sending, Posting
<1>2. Cardinality(Posting) \in Nat /\ Cardinality(Calling) \in Nat
  BY FS_CardinalityType DEF HoldersAreFew
<1>3. CASE StartFetch(f)
  <2>1. Calling' = Calling \cup {f} /\ f \notin Calling
    BY <1>3 DEF StartFetch, Calling, HoldersAreFew
  <2>2. IsFiniteSet(Calling') /\ Cardinality(Calling') = Cardinality(Calling) + 1
    BY <2>1, FS_AddElement DEF HoldersAreFew
  <2> QED
    BY <1>1, <1>2, <1>3, <2>2, SlotLimits DEF StartFetch, HoldersAreFew, SlotsConserved
<1>4. CASE EndFetch(f)
  <2>1. Calling' = Calling \ {f} /\ f \in Calling
    BY <1>4 DEF EndFetch, Calling, HoldersAreFew
  <2>2. IsFiniteSet(Calling') /\ Cardinality(Calling') = Cardinality(Calling) - 1
    BY <2>1, FS_RemoveElement DEF HoldersAreFew
  <2> QED
    BY <1>1, <1>2, <1>4, <2>2, SlotLimits DEF EndFetch, HoldersAreFew, SlotsConserved
<1> QED
  BY <1>3, <1>4 DEF Fetch

LEMMA SlotInvariance == Spec => [](IInv /\ HoldersAreFew /\ SlotsConserved)
<1>1. IInv /\ HoldersAreFew /\ SlotsConserved /\ [Next]_vars => (HoldersAreFew /\ SlotsConserved)'
  <2> SUFFICES ASSUME IInv, HoldersAreFew, SlotsConserved, [Next]_vars
               PROVE  HoldersAreFew' /\ SlotsConserved'
    OBVIOUS
  <2>1. ASSUME NEW d \in Deliveries, Deliver(d) PROVE HoldersAreFew' /\ SlotsConserved'
    BY <2>1, TakenWebhookSlot, TakenHttpSlot, PostedSlots, SlotsUntouched, ThrownSlots DEF Deliver
  <2>2. CASE UNCHANGED vars
    BY <2>2 DEF vars, HoldersAreFew, SlotsConserved, Sending, Posting, Calling
  <2> QED
    BY <2>1, <2>2, CallsKeepSlots, FetchSlots DEF Next
<1> QED
  BY <1>1, SlotsAtFirst, Invariance, PTL DEF Spec

\* ConcurrencyLimiter: whatever raises, is cancelled or stopped with slots in its
\* hands, every slot is either free or held by one task.
THEOREM EverySlotAccounted == Spec => []SlotsConserved
BY SlotInvariance, PTL

\* The safety half of EveryTriggerEnds: the nested limiters never close on everybody.
THEOREM NestedLimitersLetGo == Spec => []LimitersLetGo
<1>1. IInv /\ HoldersAreFew /\ SlotsConserved => LimitersLetGo
  <2> SUFFICES ASSUME IInv, HoldersAreFew, SlotsConserved, Calling = {},
                      NEW d \in Deliveries, at[d] \notin {"none"} \cup Over,
                      \A x \in Deliveries : ~MayDeliver(x)
               PROVE  FALSE
    BY DEF LimitersLetGo
  <2>1. Posting = {}
    BY DEF Posting, MayDeliver
  <2>2. free.http = HttpLimit
    BY <2>1, FS_EmptySet, SlotLimits DEF SlotsConserved
  <2>3. \A x \in Deliveries : at[x] \notin Holding
    BY <2>2, SlotLimits DEF MayDeliver, Holding
  <2>4. Sending = {}
    BY <2>3 DEF Sending
  <2>5. free.webhook = WebhookLimit
    BY <2>4, FS_EmptySet, SlotLimits DEF SlotsConserved
  <2>6. at[d] = "queued"
    BY <2>3 DEF IInv, TypeOK, MayDeliver, Holding, Over
  <2> QED
    BY <2>5, <2>6, SlotLimits DEF MayDeliver
<1> QED
  BY <1>1, SlotInvariance, PTL
=============================================================================
