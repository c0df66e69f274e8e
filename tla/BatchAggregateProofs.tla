------------------------- MODULE BatchAggregateProofs -------------------------
(***************************************************************************)
(* Proofs about BatchAggregate: one lemma per action, one step in it per   *)
(* conjunct of the inductive invariant; then the theorems.                 *)
(***************************************************************************)
EXTENDS BatchAggregate, TLAPS

USE NoneAssumption

LEMMA ReceiveKeeps ==
  ASSUME IInv, NEW r \in Requests, Receive(r)
  PROVE  IInv'
<1> USE DEF Receive, Payloads, request, shared
<1>1. TypeOK'
  BY DEF IInv, TypeOK, RequestsMatchBuilds, RegistryMatchesBuilds, PayloadsSettled, Payloads, Statuses, Working, BuildEnded, Answered
<1>2. RequestsMatchBuilds'
  BY DEF IInv, TypeOK, RequestsMatchBuilds, RegistryMatchesBuilds, Working, BuildEnded, Answered
<1>3. RegistryMatchesBuilds'
  BY DEF IInv, TypeOK, RequestsMatchBuilds, RegistryMatchesBuilds, Working, BuildEnded, Answered
<1>4. PayloadsSettled'
  BY DEF IInv, TypeOK, RequestsMatchBuilds, PayloadsSettled, Settled, Payloads, Working, BuildEnded, Answered
<1>5. OneBuildPerQuery'
  BY DEF IInv, TypeOK, RequestsMatchBuilds, RegistryMatchesBuilds, OneBuildPerQuery, Coalesced, Working, BuildEnded, Answered
<1>6. NoRedundantFanOut'
  BY DEF IInv, TypeOK, RequestsMatchBuilds, RegistryMatchesBuilds, OneBuildPerQuery, NoRedundantFanOut, Coalesced, Working, BuildEnded, Fanning, Answered
<1>7. EndedTaskLeaves'
  BY DEF IInv, TypeOK, RequestsMatchBuilds, RegistryMatchesBuilds, EndedTaskLeaves, Coalesced, Working, BuildEnded, Answered
<1> QED
  BY <1>1, <1>2, <1>3, <1>4, <1>5, <1>6, <1>7 DEF IInv

LEMMA LookKeeps ==
  ASSUME IInv, NEW r \in Requests, Look(r)
  PROVE  IInv'
<1> USE DEF Look, Tell, request, shared
<1>1. TypeOK'
  BY DEF IInv, TypeOK, RequestsMatchBuilds, RegistryMatchesBuilds, PayloadsSettled, Payloads, Statuses, Working, BuildEnded, Answered
<1>2. RequestsMatchBuilds'
  BY DEF IInv, TypeOK, RequestsMatchBuilds, RegistryMatchesBuilds, Working, BuildEnded, Answered
<1>3. RegistryMatchesBuilds'
  BY DEF IInv, TypeOK, RequestsMatchBuilds, RegistryMatchesBuilds, Working, BuildEnded, Answered
<1>4. PayloadsSettled'
  BY DEF IInv, TypeOK, RequestsMatchBuilds, PayloadsSettled, Settled, Payloads, Working, BuildEnded, Answered
<1>5. OneBuildPerQuery'
  BY DEF IInv, TypeOK, RequestsMatchBuilds, RegistryMatchesBuilds, OneBuildPerQuery, Coalesced, Working, BuildEnded, Answered
<1>6. NoRedundantFanOut'
  BY DEF IInv, TypeOK, RequestsMatchBuilds, RegistryMatchesBuilds, OneBuildPerQuery, NoRedundantFanOut, Coalesced, Working, BuildEnded, Fanning, Answered
<1>7. EndedTaskLeaves'
  BY DEF IInv, TypeOK, RequestsMatchBuilds, RegistryMatchesBuilds, EndedTaskLeaves, Coalesced, Working, BuildEnded, Answered
<1> QED
  BY <1>1, <1>2, <1>3, <1>4, <1>5, <1>6, <1>7 DEF IInv

LEMMA JoinKeeps ==
  ASSUME IInv, NEW r \in Requests, Join(r)
  PROVE  IInv'
<1> USE DEF Join, FirstStep, request, shared
<1>1. TypeOK'
  BY DEF IInv, TypeOK, RequestsMatchBuilds, RegistryMatchesBuilds, PayloadsSettled, Payloads, Statuses, Working, BuildEnded, Answered
<1>2. RequestsMatchBuilds'
  BY DEF IInv, TypeOK, RequestsMatchBuilds, RegistryMatchesBuilds, Working, BuildEnded, Answered
<1>3. RegistryMatchesBuilds'
  BY DEF IInv, TypeOK, RequestsMatchBuilds, RegistryMatchesBuilds, Working, BuildEnded, Answered
<1>4. PayloadsSettled'
  BY DEF IInv, TypeOK, RequestsMatchBuilds, PayloadsSettled, Settled, Payloads, Working, BuildEnded, Answered
<1>5. OneBuildPerQuery'
  BY DEF IInv, TypeOK, RequestsMatchBuilds, RegistryMatchesBuilds, OneBuildPerQuery, Coalesced, Working, BuildEnded, Answered
<1>6. NoRedundantFanOut'
  BY DEF IInv, TypeOK, RequestsMatchBuilds, RegistryMatchesBuilds, OneBuildPerQuery, NoRedundantFanOut, Coalesced, Working, BuildEnded, Fanning, Answered
<1>7. EndedTaskLeaves'
  BY DEF IInv, TypeOK, RequestsMatchBuilds, RegistryMatchesBuilds, EndedTaskLeaves, Coalesced, Working, BuildEnded, Answered
<1> QED
  BY <1>1, <1>2, <1>3, <1>4, <1>5, <1>6, <1>7 DEF IInv

LEMMA WakeKeeps ==
  ASSUME IInv, NEW r \in Requests, Wake(r)
  PROVE  IInv'
<1> USE DEF Wake, Tell, Raise, Pop, Ended, request, shared
<1>1. TypeOK'
  BY DEF IInv, TypeOK, RequestsMatchBuilds, RegistryMatchesBuilds, PayloadsSettled, Payloads, Statuses, Working, BuildEnded, Answered
<1>2. RequestsMatchBuilds'
  BY DEF IInv, TypeOK, RequestsMatchBuilds, RegistryMatchesBuilds, Working, BuildEnded, Answered
<1>3. RegistryMatchesBuilds'
  BY DEF IInv, TypeOK, RequestsMatchBuilds, RegistryMatchesBuilds, Working, BuildEnded, Answered
<1>4. PayloadsSettled'
  BY DEF IInv, TypeOK, RequestsMatchBuilds, PayloadsSettled, Settled, Payloads, Working, BuildEnded, Answered
<1>5. OneBuildPerQuery'
  BY DEF IInv, TypeOK, RequestsMatchBuilds, RegistryMatchesBuilds, OneBuildPerQuery, Coalesced, Working, BuildEnded, Answered
<1>6. NoRedundantFanOut'
  BY DEF IInv, TypeOK, RequestsMatchBuilds, RegistryMatchesBuilds, OneBuildPerQuery, NoRedundantFanOut, Coalesced, Working, BuildEnded, Fanning, Answered
<1>7. EndedTaskLeaves'
  BY DEF IInv, TypeOK, RequestsMatchBuilds, RegistryMatchesBuilds, EndedTaskLeaves, Coalesced, Working, BuildEnded, Answered
<1> QED
  BY <1>1, <1>2, <1>3, <1>4, <1>5, <1>6, <1>7 DEF IInv

LEMMA LookFailsKeeps ==
  ASSUME IInv, NEW r \in Requests, LookFails(r)
  PROVE  IInv'
<1> USE DEF LookFails, Raise, request, shared
<1>1. TypeOK'
  BY DEF IInv, TypeOK, RequestsMatchBuilds, RegistryMatchesBuilds, PayloadsSettled, Payloads, Statuses, Working, BuildEnded, Answered
<1>2. RequestsMatchBuilds'
  BY DEF IInv, TypeOK, RequestsMatchBuilds, RegistryMatchesBuilds, Working, BuildEnded, Answered
<1>3. RegistryMatchesBuilds'
  BY DEF IInv, TypeOK, RequestsMatchBuilds, RegistryMatchesBuilds, Working, BuildEnded, Answered
<1>4. PayloadsSettled'
  BY DEF IInv, TypeOK, RequestsMatchBuilds, PayloadsSettled, Settled, Payloads, Working, BuildEnded, Answered
<1>5. OneBuildPerQuery'
  BY DEF IInv, TypeOK, RequestsMatchBuilds, RegistryMatchesBuilds, OneBuildPerQuery, Coalesced, Working, BuildEnded, Answered
<1>6. NoRedundantFanOut'
  BY DEF IInv, TypeOK, RequestsMatchBuilds, RegistryMatchesBuilds, OneBuildPerQuery, NoRedundantFanOut, Coalesced, Working, BuildEnded, Fanning, Answered
<1>7. EndedTaskLeaves'
  BY DEF IInv, TypeOK, RequestsMatchBuilds, RegistryMatchesBuilds, EndedTaskLeaves, Coalesced, Working, BuildEnded, Answered
<1> QED
  BY <1>1, <1>2, <1>3, <1>4, <1>5, <1>6, <1>7 DEF IInv

LEMMA CheckKeeps ==
  ASSUME IInv, NEW b \in Requests, Check(b)
  PROVE  IInv'
<1> USE DEF Check, End, Goto, request, shared
<1>1. TypeOK'
  BY DEF IInv, TypeOK, RequestsMatchBuilds, RegistryMatchesBuilds, PayloadsSettled, Payloads, Statuses, Working, BuildEnded, Answered
<1>2. RequestsMatchBuilds'
  BY DEF IInv, TypeOK, RequestsMatchBuilds, RegistryMatchesBuilds, Working, BuildEnded, Answered
<1>3. RegistryMatchesBuilds'
  BY DEF IInv, TypeOK, RequestsMatchBuilds, RegistryMatchesBuilds, Working, BuildEnded, Answered
<1>4. PayloadsSettled'
  BY DEF IInv, TypeOK, RequestsMatchBuilds, PayloadsSettled, Settled, Payloads, Working, BuildEnded, Answered
<1>5. OneBuildPerQuery'
  BY DEF IInv, TypeOK, RequestsMatchBuilds, RegistryMatchesBuilds, OneBuildPerQuery, Coalesced, Working, BuildEnded, Answered
<1>6. NoRedundantFanOut'
  BY DEF IInv, TypeOK, RequestsMatchBuilds, RegistryMatchesBuilds, OneBuildPerQuery, NoRedundantFanOut, Coalesced, Working, BuildEnded, Fanning, Answered
<1>7. EndedTaskLeaves'
  BY DEF IInv, TypeOK, RequestsMatchBuilds, RegistryMatchesBuilds, EndedTaskLeaves, Coalesced, Working, BuildEnded, Answered
<1> QED
  BY <1>1, <1>2, <1>3, <1>4, <1>5, <1>6, <1>7 DEF IInv

LEMMA CreateKeeps ==
  ASSUME IInv, NEW b \in Requests, Create(b)
  PROVE  IInv'
<1> USE DEF Create, Goto, request, shared
<1>1. TypeOK'
  BY DEF IInv, TypeOK, RequestsMatchBuilds, RegistryMatchesBuilds, PayloadsSettled, Payloads, Statuses, Working, BuildEnded, Answered
<1>2. RequestsMatchBuilds'
  BY DEF IInv, TypeOK, RequestsMatchBuilds, RegistryMatchesBuilds, Working, BuildEnded, Answered
<1>3. RegistryMatchesBuilds'
  BY DEF IInv, TypeOK, RequestsMatchBuilds, RegistryMatchesBuilds, Working, BuildEnded, Answered
<1>4. PayloadsSettled'
  BY DEF IInv, TypeOK, RequestsMatchBuilds, PayloadsSettled, Settled, Payloads, Working, BuildEnded, Answered
<1>5. OneBuildPerQuery'
  BY DEF IInv, TypeOK, RequestsMatchBuilds, RegistryMatchesBuilds, OneBuildPerQuery, Coalesced, Working, BuildEnded, Answered
<1>6. NoRedundantFanOut'
  BY DEF IInv, TypeOK, RequestsMatchBuilds, RegistryMatchesBuilds, OneBuildPerQuery, NoRedundantFanOut, Coalesced, Working, BuildEnded, Fanning, Answered
<1>7. EndedTaskLeaves'
  BY DEF IInv, TypeOK, RequestsMatchBuilds, RegistryMatchesBuilds, EndedTaskLeaves, Coalesced, Working, BuildEnded, Answered
<1> QED
  BY <1>1, <1>2, <1>3, <1>4, <1>5, <1>6, <1>7 DEF IInv

LEMMA FetchedKeeps ==
  ASSUME IInv, NEW b \in Requests, Fetched(b)
  PROVE  IInv'
<1> USE DEF Fetched, Goto, Payload, request, shared
<1>1. TypeOK'
  BY DEF IInv, TypeOK, RequestsMatchBuilds, RegistryMatchesBuilds, PayloadsSettled, Payloads, Statuses, Working, BuildEnded, Answered
<1>2. RequestsMatchBuilds'
  BY DEF IInv, TypeOK, RequestsMatchBuilds, RegistryMatchesBuilds, Working, BuildEnded, Answered
<1>3. RegistryMatchesBuilds'
  BY DEF IInv, TypeOK, RequestsMatchBuilds, RegistryMatchesBuilds, Working, BuildEnded, Answered
<1>4. PayloadsSettled'
  BY DEF IInv, TypeOK, RequestsMatchBuilds, PayloadsSettled, Settled, Payloads, Working, BuildEnded, Answered
<1>5. OneBuildPerQuery'
  BY DEF IInv, TypeOK, RequestsMatchBuilds, RegistryMatchesBuilds, OneBuildPerQuery, Coalesced, Working, BuildEnded, Answered
<1>6. NoRedundantFanOut'
  BY DEF IInv, TypeOK, RequestsMatchBuilds, RegistryMatchesBuilds, OneBuildPerQuery, NoRedundantFanOut, Coalesced, Working, BuildEnded, Fanning, Answered
<1>7. EndedTaskLeaves'
  BY DEF IInv, TypeOK, RequestsMatchBuilds, RegistryMatchesBuilds, EndedTaskLeaves, Coalesced, Working, BuildEnded, Answered
<1> QED
  BY <1>1, <1>2, <1>3, <1>4, <1>5, <1>6, <1>7 DEF IInv

LEMMA StoreKeeps ==
  ASSUME IInv, NEW b \in Requests, Store(b)
  PROVE  IInv'
<1> USE DEF Store, End, Goto, request, shared
<1>1. TypeOK'
  BY DEF IInv, TypeOK, RequestsMatchBuilds, RegistryMatchesBuilds, PayloadsSettled, Payloads, Statuses, Working, BuildEnded, Answered
<1>2. RequestsMatchBuilds'
  BY DEF IInv, TypeOK, RequestsMatchBuilds, RegistryMatchesBuilds, Working, BuildEnded, Answered
<1>3. RegistryMatchesBuilds'
  BY DEF IInv, TypeOK, RequestsMatchBuilds, RegistryMatchesBuilds, Working, BuildEnded, Answered
<1>4. PayloadsSettled'
  BY DEF IInv, TypeOK, RequestsMatchBuilds, PayloadsSettled, Settled, Payloads, Working, BuildEnded, Answered
<1>5. OneBuildPerQuery'
  BY DEF IInv, TypeOK, RequestsMatchBuilds, RegistryMatchesBuilds, OneBuildPerQuery, Coalesced, Working, BuildEnded, Answered
<1>6. NoRedundantFanOut'
  BY DEF IInv, TypeOK, RequestsMatchBuilds, RegistryMatchesBuilds, OneBuildPerQuery, NoRedundantFanOut, Coalesced, Working, BuildEnded, Fanning, Answered
<1>7. EndedTaskLeaves'
  BY DEF IInv, TypeOK, RequestsMatchBuilds, RegistryMatchesBuilds, EndedTaskLeaves, Coalesced, Working, BuildEnded, Answered
<1> QED
  BY <1>1, <1>2, <1>3, <1>4, <1>5, <1>6, <1>7 DEF IInv

LEMMA PutKeeps ==
  ASSUME IInv, NEW b \in Requests, Put(b)
  PROVE  IInv'
<1> USE DEF Put, End, request, shared
<1>1. TypeOK'
  BY DEF IInv, TypeOK, RequestsMatchBuilds, RegistryMatchesBuilds, PayloadsSettled, Payloads, Statuses, Working, BuildEnded, Answered
<1>2. RequestsMatchBuilds'
  BY DEF IInv, TypeOK, RequestsMatchBuilds, RegistryMatchesBuilds, Working, BuildEnded, Answered
<1>3. RegistryMatchesBuilds'
  BY DEF IInv, TypeOK, RequestsMatchBuilds, RegistryMatchesBuilds, Working, BuildEnded, Answered
<1>4. PayloadsSettled'
  BY DEF IInv, TypeOK, RequestsMatchBuilds, PayloadsSettled, Settled, Payloads, Working, BuildEnded, Answered
<1>5. OneBuildPerQuery'
  BY DEF IInv, TypeOK, RequestsMatchBuilds, RegistryMatchesBuilds, OneBuildPerQuery, Coalesced, Working, BuildEnded, Answered
<1>6. NoRedundantFanOut'
  BY DEF IInv, TypeOK, RequestsMatchBuilds, RegistryMatchesBuilds, OneBuildPerQuery, NoRedundantFanOut, Coalesced, Working, BuildEnded, Fanning, Answered
<1>7. EndedTaskLeaves'
  BY DEF IInv, TypeOK, RequestsMatchBuilds, RegistryMatchesBuilds, EndedTaskLeaves, Coalesced, Working, BuildEnded, Answered
<1> QED
  BY <1>1, <1>2, <1>3, <1>4, <1>5, <1>6, <1>7 DEF IInv

LEMMA CallFailsKeeps ==
  ASSUME IInv, NEW b \in Requests, CallFails(b)
  PROVE  IInv'
<1> USE DEF CallFails, End, Interrupted, request, shared
<1>1. TypeOK'
  BY DEF IInv, TypeOK, RequestsMatchBuilds, RegistryMatchesBuilds, PayloadsSettled, Payloads, Statuses, Working, BuildEnded, Answered
<1>2. RequestsMatchBuilds'
  BY DEF IInv, TypeOK, RequestsMatchBuilds, RegistryMatchesBuilds, Working, BuildEnded, Answered
<1>3. RegistryMatchesBuilds'
  BY DEF IInv, TypeOK, RequestsMatchBuilds, RegistryMatchesBuilds, Working, BuildEnded, Answered
<1>4. PayloadsSettled'
  BY DEF IInv, TypeOK, RequestsMatchBuilds, PayloadsSettled, Settled, Payloads, Working, BuildEnded, Answered
<1>5. OneBuildPerQuery'
  BY DEF IInv, TypeOK, RequestsMatchBuilds, RegistryMatchesBuilds, OneBuildPerQuery, Coalesced, Working, BuildEnded, Answered
<1>6. NoRedundantFanOut'
  BY DEF IInv, TypeOK, RequestsMatchBuilds, RegistryMatchesBuilds, OneBuildPerQuery, NoRedundantFanOut, Coalesced, Working, BuildEnded, Fanning, Answered
<1>7. EndedTaskLeaves'
  BY DEF IInv, TypeOK, RequestsMatchBuilds, RegistryMatchesBuilds, EndedTaskLeaves, Coalesced, Working, BuildEnded, Answered
<1> QED
  BY <1>1, <1>2, <1>3, <1>4, <1>5, <1>6, <1>7 DEF IInv

LEMMA GroupFailsKeeps ==
  ASSUME IInv, NEW b \in Requests, GroupFails(b)
  PROVE  IInv'
<1> USE DEF GroupFails, End, request, shared
<1>1. TypeOK'
  BY DEF IInv, TypeOK, RequestsMatchBuilds, RegistryMatchesBuilds, PayloadsSettled, Payloads, Statuses, Working, BuildEnded, Answered
<1>2. RequestsMatchBuilds'
  BY DEF IInv, TypeOK, RequestsMatchBuilds, RegistryMatchesBuilds, Working, BuildEnded, Answered
<1>3. RegistryMatchesBuilds'
  BY DEF IInv, TypeOK, RequestsMatchBuilds, RegistryMatchesBuilds, Working, BuildEnded, Answered
<1>4. PayloadsSettled'
  BY DEF IInv, TypeOK, RequestsMatchBuilds, PayloadsSettled, Settled, Payloads, Working, BuildEnded, Answered
<1>5. OneBuildPerQuery'
  BY DEF IInv, TypeOK, RequestsMatchBuilds, RegistryMatchesBuilds, OneBuildPerQuery, Coalesced, Working, BuildEnded, Answered
<1>6. NoRedundantFanOut'
  BY DEF IInv, TypeOK, RequestsMatchBuilds, RegistryMatchesBuilds, OneBuildPerQuery, NoRedundantFanOut, Coalesced, Working, BuildEnded, Fanning, Answered
<1>7. EndedTaskLeaves'
  BY DEF IInv, TypeOK, RequestsMatchBuilds, RegistryMatchesBuilds, EndedTaskLeaves, Coalesced, Working, BuildEnded, Answered
<1> QED
  BY <1>1, <1>2, <1>3, <1>4, <1>5, <1>6, <1>7 DEF IInv

LEMMA StoppedKeeps ==
  ASSUME IInv, NEW b \in Requests, Stopped(b)
  PROVE  IInv'
<1> USE DEF Stopped, End, request, shared
<1>1. TypeOK'
  BY DEF IInv, TypeOK, RequestsMatchBuilds, RegistryMatchesBuilds, PayloadsSettled, Payloads, Statuses, Working, BuildEnded, Answered
<1>2. RequestsMatchBuilds'
  BY DEF IInv, TypeOK, RequestsMatchBuilds, RegistryMatchesBuilds, Working, BuildEnded, Answered
<1>3. RegistryMatchesBuilds'
  BY DEF IInv, TypeOK, RequestsMatchBuilds, RegistryMatchesBuilds, Working, BuildEnded, Answered
<1>4. PayloadsSettled'
  BY DEF IInv, TypeOK, RequestsMatchBuilds, PayloadsSettled, Settled, Payloads, Working, BuildEnded, Answered
<1>5. OneBuildPerQuery'
  BY DEF IInv, TypeOK, RequestsMatchBuilds, RegistryMatchesBuilds, OneBuildPerQuery, Coalesced, Working, BuildEnded, Answered
<1>6. NoRedundantFanOut'
  BY DEF IInv, TypeOK, RequestsMatchBuilds, RegistryMatchesBuilds, OneBuildPerQuery, NoRedundantFanOut, Coalesced, Working, BuildEnded, Fanning, Answered
<1>7. EndedTaskLeaves'
  BY DEF IInv, TypeOK, RequestsMatchBuilds, RegistryMatchesBuilds, EndedTaskLeaves, Coalesced, Working, BuildEnded, Answered
<1> QED
  BY <1>1, <1>2, <1>3, <1>4, <1>5, <1>6, <1>7 DEF IInv

LEMMA CleanupKeeps ==
  ASSUME IInv, NEW b \in Requests, Cleanup(b)
  PROVE  IInv'
<1> USE DEF Cleanup, request, shared
<1>1. TypeOK'
  BY DEF IInv, TypeOK, RequestsMatchBuilds, RegistryMatchesBuilds, PayloadsSettled, Payloads, Statuses, Working, BuildEnded, Answered
<1>2. RequestsMatchBuilds'
  BY DEF IInv, TypeOK, RequestsMatchBuilds, RegistryMatchesBuilds, Working, BuildEnded, Answered
<1>3. RegistryMatchesBuilds'
  BY DEF IInv, TypeOK, RequestsMatchBuilds, RegistryMatchesBuilds, Working, BuildEnded, Answered
<1>4. PayloadsSettled'
  BY DEF IInv, TypeOK, RequestsMatchBuilds, PayloadsSettled, Settled, Payloads, Working, BuildEnded, Answered
<1>5. OneBuildPerQuery'
  BY DEF IInv, TypeOK, RequestsMatchBuilds, RegistryMatchesBuilds, OneBuildPerQuery, Coalesced, Working, BuildEnded, Answered
<1>6. NoRedundantFanOut'
  BY DEF IInv, TypeOK, RequestsMatchBuilds, RegistryMatchesBuilds, OneBuildPerQuery, NoRedundantFanOut, Coalesced, Working, BuildEnded, Fanning, Answered
<1>7. EndedTaskLeaves'
  BY DEF IInv, TypeOK, RequestsMatchBuilds, RegistryMatchesBuilds, EndedTaskLeaves, Coalesced, Working, BuildEnded, Answered
<1> QED
  BY <1>1, <1>2, <1>3, <1>4, <1>5, <1>6, <1>7 DEF IInv

LEMMA CancelKeeps ==
  ASSUME IInv, NEW r \in Requests, Cancel(r)
  PROVE  IInv'
<1> USE DEF Cancel, Raise, Pop, Ended, StopBuild, End, Interrupted, request, shared
<1>1. TypeOK'
  <2>1. CASE pc[r] \in {"looking", "missed"} /\ Raise(r) /\ UNCHANGED <<tasks, build, row, cache, cleanup>>
    BY <2>1 DEF IInv, TypeOK, Answered
  <2>2. CASE /\ pc[r] \in {"waiting", "inline"} /\ ~Ended(uses[r])
             /\ StopBuild(uses[r]) /\ UNCHANGED <<pc, reply, tasks>>
    <3>1. uses[r] \in Requests
      BY <2>2 DEF IInv, RequestsMatchBuilds
    <3>2. build' \in [Requests -> {"none"} \cup Working \cup BuildEnded]
      BY <2>2, <3>1 DEF IInv, TypeOK, BuildEnded, Working
    <3>3. row' \in [Requests -> {"none", "RUNNING", "CANCELLED"} \cup Statuses]
      <4>1. build[uses[r]] = "storing" => payload[uses[r]].status \in Statuses
        BY <3>1 DEF IInv, PayloadsSettled, Payloads
      <4> QED
        BY <2>2, <3>1, <4>1 DEF IInv, TypeOK
    <3>4. cache' \in [Queries -> Payloads \cup {None}]
      BY <2>2, <3>1 DEF IInv, TypeOK, PayloadsSettled, RequestsMatchBuilds, Working, BuildEnded
    <3>5. cleanup' \subseteq Requests
      BY <2>2, <3>1 DEF IInv, TypeOK
    <3> QED
      BY <2>2, <3>2, <3>3, <3>4, <3>5 DEF IInv, TypeOK
  <2>3. CASE /\ pc[r] = "waiting" /\ Ended(uses[r]) /\ Raise(r) /\ Pop(r)
             /\ UNCHANGED <<build, row, cache, cleanup>>
    BY <2>3 DEF IInv, TypeOK, Answered
  <2> QED
    BY <2>1, <2>2, <2>3
<1>2. RequestsMatchBuilds'
  BY DEF IInv, TypeOK, RequestsMatchBuilds, RegistryMatchesBuilds, Working, BuildEnded, Answered
<1>3. RegistryMatchesBuilds'
  BY DEF IInv, TypeOK, RequestsMatchBuilds, RegistryMatchesBuilds, Working, BuildEnded, Answered
<1>4. PayloadsSettled'
  BY DEF IInv, TypeOK, RequestsMatchBuilds, PayloadsSettled, Settled, Payloads, Working, BuildEnded, Answered
<1>5. OneBuildPerQuery'
  BY DEF IInv, TypeOK, RequestsMatchBuilds, RegistryMatchesBuilds, OneBuildPerQuery, Coalesced, Working, BuildEnded, Answered
<1>6. NoRedundantFanOut'
  BY DEF IInv, TypeOK, RequestsMatchBuilds, RegistryMatchesBuilds, OneBuildPerQuery, NoRedundantFanOut, Coalesced, Working, BuildEnded, Fanning, Answered
<1>7. EndedTaskLeaves'
  BY DEF IInv, TypeOK, RequestsMatchBuilds, RegistryMatchesBuilds, EndedTaskLeaves, Coalesced, Working, BuildEnded, Answered
<1> QED
  BY <1>1, <1>2, <1>3, <1>4, <1>5, <1>6, <1>7 DEF IInv

LEMMA ExpireKeeps ==
  ASSUME IInv, NEW q \in Queries, Expire(q)
  PROVE  IInv'
<1> USE DEF Expire, request, shared
<1>1. TypeOK'
  BY DEF IInv, TypeOK, RequestsMatchBuilds, RegistryMatchesBuilds, PayloadsSettled, Payloads, Statuses, Working, BuildEnded, Answered
<1>2. RequestsMatchBuilds'
  BY DEF IInv, TypeOK, RequestsMatchBuilds, RegistryMatchesBuilds, Working, BuildEnded, Answered
<1>3. RegistryMatchesBuilds'
  BY DEF IInv, TypeOK, RequestsMatchBuilds, RegistryMatchesBuilds, Working, BuildEnded, Answered
<1>4. PayloadsSettled'
  BY DEF IInv, TypeOK, RequestsMatchBuilds, PayloadsSettled, Settled, Payloads, Working, BuildEnded, Answered
<1>5. OneBuildPerQuery'
  BY DEF IInv, TypeOK, RequestsMatchBuilds, RegistryMatchesBuilds, OneBuildPerQuery, Coalesced, Working, BuildEnded, Answered
<1>6. NoRedundantFanOut'
  BY DEF IInv, TypeOK, RequestsMatchBuilds, RegistryMatchesBuilds, OneBuildPerQuery, NoRedundantFanOut, Coalesced, Working, BuildEnded, Fanning, Answered
<1>7. EndedTaskLeaves'
  BY DEF IInv, TypeOK, RequestsMatchBuilds, RegistryMatchesBuilds, EndedTaskLeaves, Coalesced, Working, BuildEnded, Answered
<1> QED
  BY <1>1, <1>2, <1>3, <1>4, <1>5, <1>6, <1>7 DEF IInv
----------------------------------------------------------------------------
LEMMA InitEstablishes == Init => IInv
  BY DEF Init, IInv, TypeOK, RequestsMatchBuilds, RegistryMatchesBuilds, PayloadsSettled,
         OneBuildPerQuery, NoRedundantFanOut, EndedTaskLeaves, Coalesced, Answered,
         Working, BuildEnded, Fanning

LEMMA NextKeeps == IInv /\ [Next]_vars => IInv'
<1> SUFFICES ASSUME IInv, [Next]_vars PROVE IInv'
  OBVIOUS
<1>1. CASE \E r \in Requests : Request(r)
  BY <1>1, ReceiveKeeps, LookKeeps, JoinKeeps, WakeKeeps, LookFailsKeeps DEF Request
<1>2. CASE \E b \in Requests : Build(b)
  BY <1>2, CheckKeeps, CreateKeeps, FetchedKeeps, StoreKeeps, PutKeeps, CallFailsKeeps,
     GroupFailsKeeps, StoppedKeeps DEF Build
<1>3. CASE \E r \in Requests : Cleanup(r) \/ Cancel(r)
  BY <1>3, CleanupKeeps, CancelKeeps
<1>4. CASE \E q \in Queries : Expire(q)
  BY <1>4, ExpireKeeps
<1>5. CASE UNCHANGED vars
  BY <1>5 DEF vars, IInv, TypeOK, RequestsMatchBuilds, RegistryMatchesBuilds,
     PayloadsSettled, Settled, OneBuildPerQuery, NoRedundantFanOut, EndedTaskLeaves, Coalesced
<1> QED
  BY <1>1, <1>2, <1>3, <1>4, <1>5 DEF Next

\* The inductive invariant holds in every reachable state.
THEOREM Invariance == Spec => []IInv
  BY InitEstablishes, NextKeeps, PTL DEF Spec

\* The state stays well-typed whatever fails or is cancelled.
THEOREM TypeCorrectness == Spec => []TypeOK
<1>1. IInv => TypeOK
  BY DEF IInv
<1> QED
  BY <1>1, Invariance, PTL

\* RequestCoalescer.run: a task that works is registered, whatever number of
\* requests, queries, late waiters and cancellations there are.
THEOREM SingleFlight == Spec => []OneBuildPerQuery
<1>1. IInv => OneBuildPerQuery
  BY DEF IInv
<1> QED
  BY <1>1, Invariance, PTL

\* AsyncCache.get_or_set: a task that fans out does so for a query not cached.
THEOREM CachedMeansNoFanOut == Spec => []NoRedundantFanOut
<1>1. IInv => NoRedundantFanOut
  BY DEF IInv
<1> QED
  BY <1>1, Invariance, PTL

\* What an answer, first-hand, shared or cached, says of its row is and stays so.
THEOREM AnswersMatchRows == Spec => []RepliesRecorded
<1>1. IInv => RepliesRecorded
  BY DEF IInv, PayloadsSettled, Settled, RepliesRecorded
<1> QED
  BY <1>1, Invariance, PTL

\* No ended task stays registered without a waiter that will remove it.
THEOREM RegistryEmpties == Spec => []EndedTaskLeaves
<1>1. IInv => EndedTaskLeaves
  BY DEF IInv
<1> QED
  BY <1>1, Invariance, PTL

----------------------------------------------------------------------------
(* The promise of a coalescing cache, step by step.                        *)

mapped == <<Places, query, Boarded, reply, Flights, Stages, Brought, cache>>

\* A build that works with the cache is the registered flight of its query.
LEMMA FlightOfBuild ==
  ASSUME IInv, NEW b \in Requests, build[b] \in Working, pc[b] # "inline"
  PROVE  /\ pc[b] = "waiting" /\ query[b] \in Queries
         /\ tasks[query[b]] = b /\ Flights[query[b]] = b
<1>1. pc[b] = "waiting" /\ uses[b] = b /\ query[b] \in Queries
  BY DEF IInv, TypeOK, RequestsMatchBuilds
<1>2. tasks[query[b]] = b
  BY <1>1 DEF IInv, OneBuildPerQuery, Coalesced
<1> QED
  BY <1>1, <1>2 DEF Flights

\* A build that goes on, or that nobody shares, is no event.
LEMMA FlightGoesOn ==
  ASSUME IInv, NEW b \in Requests, NEW how, Goto(b, how),
         \/ pc[b] = "inline"
         \/ build[b] \in Fanning /\ how \in Fanning \cup {"caching"},
         UNCHANGED <<pc, query, uses, reply, tasks>>,
         \A x \in Requests : x # b => payload'[x] = payload[x]
  PROVE  UNCHANGED <<Places, query, Boarded, reply, Flights, Stages, Brought>>
<1>1. \A x \in Requests : build'[x] = IF x = b THEN how ELSE build[x]
  BY DEF Goto, IInv, TypeOK
<1>2. Places' = Places /\ Boarded' = Boarded
  BY DEF Places, Place, Boarded
<1>3. \A x \in Requests : Stage(x)' = Stage(x)
  BY <1>1 DEF Stage, Fanning
<1>4. Stages' = Stages
  BY <1>3 DEF Stages
<1>5. Stage(b) # "done"
  BY DEF Stage, Fanning
<1>6. Brought' = Brought
  BY <1>3, <1>5 DEF Brought
<1>7. \A q \in Queries : tasks[q] # None => tasks[q] \in Requests /\ pc[tasks[q]] # "inline"
  BY DEF IInv, TypeOK, RegistryMatchesBuilds
<1>8. \A q \in Queries : tasks[q] # None =>
        (build'[tasks[q]] \in Working <=> build[tasks[q]] \in Working)
  BY <1>1, <1>7 DEF Working, Fanning
<1>9. Flights' = Flights
  BY <1>8 DEF Flights
<1> QED
  BY <1>2, <1>4, <1>6, <1>9

\* A shared build that ends lands its flight.
LEMMA FlightLands ==
  ASSUME IInv, NEW b \in Requests, build[b] \in Working, pc[b] # "inline",
         NEW how \in BuildEnded, End(b, how),
         UNCHANGED <<pc, query, uses, reply, tasks>>,
         \A x \in Requests : x # b => payload'[x] = payload[x]
  PROVE  /\ TheFlights!Land(b, IF how = "returned" THEN "done" ELSE "failed")
         /\ Stages[b] = IF build[b] = "checking" THEN "checking" ELSE "fetching"
         /\ Brought' = [Brought EXCEPT ![b] = IF how = "returned" THEN payload'[b] ELSE None]
         /\ Brought[b] = None
<1>1. \A x \in Requests : build'[x] = IF x = b THEN how ELSE build[x]
  BY DEF End, IInv, TypeOK
<1>2. pc[b] = "waiting" /\ query[b] \in Queries /\ tasks[query[b]] = b /\ Flights[query[b]] = b
  BY FlightOfBuild
<1>3. Places' = Places /\ Boarded' = Boarded
  BY DEF Places, Place, Boarded
<1>4. Stage(b) = IF build[b] = "checking" THEN "checking" ELSE "fetching"
  BY DEF Stage, Working, Fanning
<1>5. \A x \in Requests :
        Stage(x)' = IF x = b THEN IF how = "returned" THEN "done" ELSE "failed" ELSE Stage(x)
  BY <1>1 DEF Stage, BuildEnded, Fanning
<1>6. Stages' = [Stages EXCEPT ![b] = IF how = "returned" THEN "done" ELSE "failed"]
  BY <1>5 DEF Stages
<1>7. Brought' = [Brought EXCEPT ![b] = IF how = "returned" THEN payload'[b] ELSE None]
  BY <1>5 DEF Brought
<1>8. Brought[b] = None
  BY <1>4 DEF Brought
<1>9. \A q \in Queries : tasks[q] # None => tasks[q] \in Requests /\ query[tasks[q]] = q
  BY DEF IInv, TypeOK, RegistryMatchesBuilds
<1>10. \A q \in Queries : q # query[b] /\ tasks[q] # None => build'[tasks[q]] = build[tasks[q]]
  BY <1>1, <1>9
<1>11. build'[b] \notin Working
  BY <1>1 DEF BuildEnded, Working
<1>12. Flights' = [Flights EXCEPT ![query[b]] = None]
  BY <1>2, <1>10, <1>11 DEF Flights
<1>13. Stages[b] = Stage(b)
  BY DEF Stages
<1> QED
  BY <1>2, <1>3, <1>4, <1>6, <1>7, <1>8, <1>12, <1>13 DEF TheFlights!Land

LEMMA FlightCrashes ==
  ASSUME IInv, NEW b \in Requests, build[b] \in Working, pc[b] # "inline",
         End(b, "raised"), UNCHANGED <<pc, query, uses, reply, tasks, payload>>,
         \/ UNCHANGED cache
         \/ build[b] = "caching" /\ cache' = [cache EXCEPT ![query[b]] = payload[b]]
  PROVE  TheFlights!Crash(b)
<1>1. /\ TheFlights!Land(b, "failed")
      /\ Stages[b] = IF build[b] = "checking" THEN "checking" ELSE "fetching"
      /\ Brought' = [Brought EXCEPT ![b] = None] /\ Brought[b] = None
  BY FlightLands DEF BuildEnded
<1>2. Brought' = Brought
  BY <1>1 DEF Brought
<1>3. build[b] = "caching" => payload[b] \in Payloads
  BY DEF IInv, PayloadsSettled
<1> QED
  BY <1>1, <1>2, <1>3 DEF TheFlights!Crash

----------------------------------------------------------------------------
LEMMA ReceiveFlies ==
  ASSUME IInv, NEW r \in Requests, Receive(r)
  PROVE  TheFlights!Next
<1> USE DEF Receive, shared
<1>1. PICK q \in Queries : query' = [query EXCEPT ![r] = q]
  OBVIOUS
<1>2. build[r] = "none" /\ \A k \in Queries : tasks[k] # None => tasks[k] # r
  BY DEF IInv, RequestsMatchBuilds, RegistryMatchesBuilds
<1>3. pc' \in {[pc EXCEPT ![r] = "looking"], [pc EXCEPT ![r] = "inline"]}
  OBVIOUS
<1>4. \A x \in Requests : x # r => build'[x] = build[x] /\ uses'[x] = uses[x] /\ pc'[x] = pc[x]
  BY DEF IInv, TypeOK
<1>5. (pc'[r] = "looking" /\ build'[r] = "none") \/ pc'[r] = "inline"
  BY <1>2 DEF IInv, TypeOK
<1>6. \A x \in Requests : Stage(x)' = Stage(x)
  BY <1>2, <1>4, <1>5 DEF Stage, Fanning
<1>7. Stages' = Stages /\ Brought' = Brought
  BY <1>6 DEF Stages, Brought
<1>8. Boarded' = Boarded
  BY <1>4, <1>5 DEF Boarded
<1>9. Flights' = Flights
  BY <1>2, <1>4 DEF Flights, IInv, TypeOK
<1>10. \E p \in {"out", "alone"} : Places' = [Places EXCEPT ![r] = p]
  <2>1. \A x \in Requests : x # r => Place(x)' = Place(x)
    BY <1>4 DEF Place
  <2>2. Place(r)' \in {"out", "alone"}
    BY <1>5 DEF Place
  <2> QED
    BY <2>1, <2>2 DEF Places
<1>11. Places[r] = "new"
  BY DEF Places, Place
<1> QED
  BY <1>1, <1>7, <1>8, <1>9, <1>10, <1>11 DEF TheFlights!Next, TheFlights!Ask

\* A request that is not, or no longer, waiting gets its answer or gives up.
LEMMA RequestLeaves ==
  ASSUME IInv, NEW r \in Requests, pc[r] \in {"looking", "missed", "waiting"},
         NEW how \in Answered, pc' = [pc EXCEPT ![r] = how],
         UNCHANGED <<query, uses, build, payload>>,
         tasks' = tasks \/ (pc[r] = "waiting" /\ Ended(uses[r]) /\ Pop(r))
  PROVE  /\ Places' = [Places EXCEPT ![r] = "gone"]
         /\ Boarded' = [Boarded EXCEPT ![r] = None]
         /\ Flights' = Flights /\ Stages' = Stages /\ Brought' = Brought
         /\ pc[r] # "waiting" => Boarded' = Boarded
<1>1. \A x \in Requests : pc'[x] = IF x = r THEN how ELSE pc[x]
  BY DEF IInv, TypeOK
<1>2. Places' = [Places EXCEPT ![r] = "gone"]
  <2>1. \A x \in Requests : Place(x)' = IF x = r THEN "gone" ELSE Place(x)
    BY <1>1 DEF Place, Answered
  <2> QED
    BY <2>1 DEF Places
<1>3. Boarded' = [Boarded EXCEPT ![r] = None] /\ (pc[r] # "waiting" => Boarded' = Boarded)
  BY <1>1 DEF Boarded, Answered
<1>4. \A x \in Requests : Stage(x)' = Stage(x)
  BY <1>1 DEF Stage, Answered, Fanning
<1>5. Stages' = Stages /\ Brought' = Brought
  BY <1>4 DEF Stages, Brought
<1>6. ASSUME tasks' = tasks PROVE Flights' = Flights
  BY <1>6 DEF Flights, Working
<1>7. ASSUME pc[r] = "waiting", Ended(uses[r]), Pop(r) PROVE Flights' = Flights
  <2>1. \A q \in Queries : tasks'[q] = tasks[q] \/ (tasks[q] = uses[r] /\ tasks'[q] = None)
    BY <1>7 DEF Pop, IInv, TypeOK
  <2>2. build[uses[r]] \notin Working
    BY <1>7 DEF Ended, BuildEnded, Working
  <2>3. \A q \in Queries :
          (tasks'[q] # None /\ build'[tasks'[q]] \in Working) <=>
          (tasks[q] # None /\ build[tasks[q]] \in Working)
    BY <2>1, <2>2 DEF Working
  <2>4. \A q \in Queries : tasks[q] # None /\ build[tasks[q]] \in Working => tasks'[q] = tasks[q]
    BY <2>1, <2>2
  <2> QED
    BY <2>3, <2>4 DEF Flights
<1>8. Flights' = Flights
  BY <1>6, <1>7
<1> QED
  BY <1>2, <1>3, <1>5, <1>8

LEMMA LookFlies ==
  ASSUME IInv, NEW r \in Requests, Look(r)
  PROVE  TheFlights!Next \/ UNCHANGED mapped
<1> USE DEF Look, shared
<1>1. Places[r] = "out"
  BY DEF Places, Place
<1>2. CASE cache[query[r]] # None
  <2>1. /\ Places' = [Places EXCEPT ![r] = "gone"] /\ Boarded' = Boarded
        /\ Flights' = Flights /\ Stages' = Stages /\ Brought' = Brought
    BY <1>2, RequestLeaves DEF Tell, Answered
  <2>2. TheFlights!Hit(r)
    BY <1>1, <1>2, <2>1 DEF TheFlights!Hit, Tell
  <2> QED
    BY <2>2 DEF TheFlights!Next
<1>3. CASE cache[query[r]] = None
  <2>1. \A x \in Requests : pc'[x] = IF x = r THEN "missed" ELSE pc[x]
    BY <1>3 DEF IInv, TypeOK
  <2>2. Places' = Places /\ Boarded' = Boarded
    BY <2>1, <1>3 DEF Places, Place, Boarded
  <2>3. \A x \in Requests : Stage(x)' = Stage(x)
    BY <2>1, <1>3 DEF Stage, Fanning
  <2>4. Stages' = Stages /\ Brought' = Brought /\ Flights' = Flights
    BY <1>3, <2>3 DEF Stages, Brought, Flights
  <2> QED
    BY <1>3, <2>2, <2>4 DEF mapped
<1> QED
  BY <1>2, <1>3

LEMMA JoinFlies ==
  ASSUME IInv, NEW r \in Requests, Join(r)
  PROVE  TheFlights!Next
<1> DEFINE q == query[r]
           f == tasks[q]
<1>1. /\ q \in Queries /\ build[r] = "none" /\ f \in Requests \cup {None}
      /\ pc[r] = "missed" /\ UNCHANGED <<query, reply, payload, cache>>
  BY DEF Join, IInv, TypeOK, RequestsMatchBuilds
<1>2. \A x \in Requests : pc'[x] = IF x = r THEN "waiting" ELSE pc[x]
  BY DEF Join, IInv, TypeOK
<1>3. Places[r] = "out" /\ Places' = [Places EXCEPT ![r] = "aboard"]
  <2>1. \A x \in Requests : Place(x)' = IF x = r THEN "aboard" ELSE Place(x)
    BY <1>2 DEF Place
  <2> QED
    BY <1>1, <2>1 DEF Places, Place
<1>4. CASE f = None
  <2>1. /\ \A x \in Requests : uses'[x] = IF x = r THEN r ELSE uses[x]
        /\ \A x \in Requests : build'[x] = IF x = r THEN "checking" ELSE build[x]
        /\ \A k \in Queries : tasks'[k] = IF k = q THEN r ELSE tasks[k]
    BY <1>1, <1>4 DEF Join, FirstStep, IInv, TypeOK
  <2>2. Boarded' = [Boarded EXCEPT ![r] = r]
    BY <1>1, <1>2, <2>1 DEF Boarded
  <2>3. \A x \in Requests : Stage(x)' = IF x = r THEN "checking" ELSE Stage(x)
    BY <1>1, <1>2, <2>1 DEF Stage
  <2>4. Stages' = [Stages EXCEPT ![r] = "checking"]
    BY <2>3 DEF Stages
  <2>5. Stage(r) # "done"
    BY <1>1 DEF Stage, Fanning
  <2>6. Brought' = Brought
    BY <1>1, <2>3, <2>5 DEF Brought
  <2>7. \A k \in Queries : tasks[k] # None => tasks[k] \in Requests /\ tasks[k] # r
    BY <1>1 DEF IInv, TypeOK, RegistryMatchesBuilds
  <2>8. Flights[q] = None
    BY <1>1, <1>4 DEF Flights
  <2>9. Flights' = [Flights EXCEPT ![q] = r]
    <3>1. \A k \in Queries : k # q => Flights'[k] = Flights[k]
      BY <2>1, <2>7 DEF Flights
    <3>2. Flights'[q] = r
      BY <1>1, <2>1 DEF Flights, Working
    <3> QED
      BY <3>1, <3>2 DEF Flights
  <2>10. TheFlights!TakeOff(r)
    BY <1>1, <1>3, <2>2, <2>4, <2>6, <2>8, <2>9 DEF TheFlights!TakeOff
  <2> QED
    BY <2>10 DEF TheFlights!Next
<1>5. CASE f # None
  <2>1. f \in Requests /\ query[f] = q /\ build[f] # "none" /\ pc[f] # "inline"
    BY <1>1, <1>5 DEF IInv, RegistryMatchesBuilds
  <2>2. UNCHANGED <<tasks, build>> /\ uses' = [uses EXCEPT ![r] = f]
    BY <1>5 DEF Join
  <2>3. Boarded' = [Boarded EXCEPT ![r] = f]
    BY <1>2, <2>2 DEF Boarded, IInv, TypeOK
  <2>4. \A x \in Requests : Stage(x)' = Stage(x)
    BY <1>1, <1>2, <2>1, <2>2 DEF Stage
  <2>5. Stages' = Stages /\ Brought' = Brought /\ Flights' = Flights
    BY <1>1, <2>2, <2>4 DEF Stages, Brought, Flights, Working
  <2>6. \/ Flights[q] = f
        \/ /\ Flights[q] = None
           /\ Stages[f] \in {"done", "failed"}
           /\ \E x \in Requests : Places[x] = "aboard" /\ Boarded[x] = f
    <3>1. CASE build[f] \in Working
      BY <1>1, <1>5, <3>1 DEF Flights
    <3>2. CASE build[f] \notin Working
      <4>1. build[f] \in BuildEnded
        BY <2>1, <3>2 DEF IInv, TypeOK
      <4>2. PICK x \in Requests : pc[x] = "waiting" /\ uses[x] = f
        BY <1>1, <1>5, <4>1 DEF IInv, EndedTaskLeaves
      <4>3. Places[x] = "aboard" /\ Boarded[x] = f
        BY <4>2 DEF Places, Place, Boarded
      <4>4. Flights[q] = None
        BY <1>1, <3>2 DEF Flights
      <4>5. Stages[f] \in {"done", "failed"}
        BY <2>1, <4>1 DEF Stages, Stage, BuildEnded, Fanning
      <4> QED
        BY <4>3, <4>4, <4>5
    <3> QED
      BY <3>1, <3>2
  <2>7. TheFlights!Board(r, f)
    BY <1>1, <1>3, <2>1, <2>3, <2>5, <2>6 DEF TheFlights!Board
  <2> QED
    BY <2>1, <2>7 DEF TheFlights!Next
<1> QED
  BY <1>4, <1>5

\* A request wakes with what its build came to, or with its failure.
LEMMA WakeFlies ==
  ASSUME IInv, NEW r \in Requests, Wake(r)
  PROVE  TheFlights!Next
<1> DEFINE b == uses[r]
<1>1. /\ b \in Requests /\ build[b] \in BuildEnded
      /\ UNCHANGED <<query, uses, build, payload, cache>>
      /\ \/ /\ build[b] = "returned"
            /\ pc' = [pc EXCEPT ![r] = "told"] /\ reply' = [reply EXCEPT ![r] = payload[b]]
         \/ /\ build[b] = "raised"
            /\ pc' = [pc EXCEPT ![r] = "raised"] /\ UNCHANGED reply
  BY DEF Wake, Ended, Tell, Raise, IInv, TypeOK, RequestsMatchBuilds, BuildEnded
<1>2. \E how \in Answered : pc' = [pc EXCEPT ![r] = how]
  BY <1>1 DEF Answered
<1>3. CASE pc[r] = "waiting"
  <2>1. /\ Places' = [Places EXCEPT ![r] = "gone"] /\ Boarded' = [Boarded EXCEPT ![r] = None]
        /\ Flights' = Flights /\ Stages' = Stages /\ Brought' = Brought
    BY <1>1, <1>2, <1>3, RequestLeaves DEF Wake
  <2>2. Places[r] = "aboard" /\ Boarded[r] = b /\ pc[b] # "inline"
    BY <1>3 DEF Places, Place, Boarded, IInv, RequestsMatchBuilds
  <2>3. \/ build[b] = "returned" /\ Stages[b] = "done" /\ Brought[b] = payload[b]
        \/ build[b] = "raised" /\ Stages[b] = "failed"
    BY <1>1, <2>2 DEF Stages, Stage, Brought, BuildEnded
  <2>4. TheFlights!Arrive(r)
    BY <1>1, <2>1, <2>2, <2>3 DEF TheFlights!Arrive
  <2> QED
    BY <2>4 DEF TheFlights!Next
<1>4. CASE pc[r] = "inline"
  <2>1. b = r /\ tasks' = tasks
    BY <1>4 DEF Wake, IInv, RequestsMatchBuilds
  <2>2. \A x \in Requests : x # r => pc'[x] = pc[x]
    BY <1>1 DEF IInv, TypeOK
  <2>3. pc'[r] = IF build[r] = "returned" THEN "told" ELSE "raised"
    BY <1>1, <2>1 DEF IInv, TypeOK, BuildEnded
  <2>4. Places[r] = "alone" /\ Places' = [Places EXCEPT ![r] = "gone"]
    <3>1. \A x \in Requests : Place(x)' = IF x = r THEN "gone" ELSE Place(x)
      BY <2>2, <2>3 DEF Place
    <3> QED
      BY <1>4, <3>1 DEF Places, Place
  <2>5. Boarded' = Boarded
    BY <1>1, <1>4, <2>2, <2>3 DEF Boarded
  <2>6. Flights' = Flights
    BY <1>1, <2>1 DEF Flights, Working
  <2>7. \A x \in Requests : x # r => Stage(x)' = Stage(x)
    BY <1>1, <2>2 DEF Stage
  <2>8. Stage(r) = "none" /\ Stage(r)' = IF build[r] = "returned" THEN "done" ELSE "failed"
    BY <1>1, <1>4, <2>1, <2>3 DEF Stage, BuildEnded
  <2>9. Stages' = [Stages EXCEPT ![r] = IF build[r] = "returned" THEN "done" ELSE "failed"]
    BY <2>7, <2>8 DEF Stages
  <2>10. CASE build[r] = "returned"
    <3>1. payload[r] \in Payloads
      BY <2>10 DEF IInv, PayloadsSettled
    <3>2. Brought' = [Brought EXCEPT ![r] = payload[r]]
      BY <1>1, <2>7, <2>8, <2>10 DEF Brought
    <3>3. reply' = [reply EXCEPT ![r] = payload[r]]
      BY <1>1, <2>1, <2>10
    <3>4. TheFlights!Alone(r)
      BY <1>1, <2>4, <2>5, <2>6, <2>9, <2>10, <3>1, <3>2, <3>3 DEF TheFlights!Alone
    <3> QED
      BY <3>4 DEF TheFlights!Next
  <2>11. CASE build[r] = "raised"
    <3>1. Brought' = Brought
      BY <1>1, <2>7, <2>8, <2>11 DEF Brought
    <3>2. UNCHANGED reply
      BY <1>1, <2>1, <2>11
    <3>3. TheFlights!Alone(r)
      BY <1>1, <2>4, <2>5, <2>6, <2>9, <2>11, <3>1, <3>2 DEF TheFlights!Alone
    <3> QED
      BY <3>3 DEF TheFlights!Next
  <2> QED
    BY <1>1, <2>1, <2>10, <2>11
<1> QED
  BY <1>3, <1>4 DEF Wake

LEMMA LookFailsFlies ==
  ASSUME IInv, NEW r \in Requests, LookFails(r)
  PROVE  TheFlights!Next
<1>1. /\ pc[r] = "looking" /\ pc' = [pc EXCEPT ![r] = "raised"]
      /\ UNCHANGED <<query, uses, reply, tasks, build, payload, cache>>
  BY DEF LookFails, Raise, shared
<1>2. /\ Places' = [Places EXCEPT ![r] = "gone"] /\ Boarded' = [Boarded EXCEPT ![r] = None]
      /\ Flights' = Flights /\ Stages' = Stages /\ Brought' = Brought
  BY <1>1, RequestLeaves DEF Answered
<1>3. Places[r] = "out"
  BY <1>1 DEF Places, Place
<1> QED
  BY <1>1, <1>2, <1>3 DEF TheFlights!Next, TheFlights!GiveUp

----------------------------------------------------------------------------
LEMMA CheckFlies ==
  ASSUME IInv, NEW b \in Requests, Check(b)
  PROVE  TheFlights!Next
<1>1. /\ build[b] \in Working /\ pc[b] # "inline"
      /\ UNCHANGED <<pc, query, uses, reply, tasks, cache>>
  BY DEF Check, Working, IInv, RequestsMatchBuilds, request, shared
<1>2. query[b] \in Queries /\ Flights[query[b]] = b
  BY <1>1, FlightOfBuild
<1>3. Stages[b] = "checking"
  BY <1>1 DEF Check, Stages, Stage
<1>4. CASE cache[query[b]] # None
  <2>1. End(b, "returned") /\ payload' = [payload EXCEPT ![b] = cache[query[b]]]
    BY <1>4 DEF Check
  <2>2. \A x \in Requests : payload'[x] = IF x = b THEN cache[query[b]] ELSE payload[x]
    BY <2>1 DEF IInv, TypeOK
  <2>3. /\ TheFlights!Land(b, "done")
        /\ Brought' = [Brought EXCEPT ![b] = cache[query[b]]]
    BY <1>1, <2>1, <2>2, FlightLands DEF BuildEnded
  <2>4. TheFlights!Bring(b)
    BY <1>1, <1>3, <1>4, <2>3 DEF TheFlights!Bring
  <2> QED
    BY <2>4 DEF TheFlights!Next
<1>5. CASE cache[query[b]] = None
  <2>1. \A x \in Requests : build'[x] = IF x = b THEN "creating" ELSE build[x]
    BY <1>5 DEF Check, Goto, IInv, TypeOK
  <2>2. UNCHANGED payload
    BY <1>5 DEF Check
  <2>3. Places' = Places /\ Boarded' = Boarded
    BY <1>1 DEF Places, Place, Boarded
  <2>4. \A x \in Requests : Stage(x)' = IF x = b THEN "fetching" ELSE Stage(x)
    BY <1>1, <2>1 DEF Stage
  <2>5. Stages' = [Stages EXCEPT ![b] = "fetching"]
    BY <2>4 DEF Stages
  <2>6. Stage(b) # "done"
    BY <1>3 DEF Stages
  <2>7. Brought' = Brought
    BY <2>2, <2>4, <2>6 DEF Brought
  <2>8. \A q \in Queries : tasks[q] # None =>
          (build'[tasks[q]] \in Working <=> build[tasks[q]] \in Working)
    BY <1>1, <2>1 DEF Working, IInv, TypeOK
  <2>9. Flights' = Flights
    BY <1>1, <2>8 DEF Flights
  <2>10. TheFlights!Fetch(b)
    BY <1>1, <1>2, <1>3, <1>5, <2>3, <2>5, <2>7, <2>9 DEF TheFlights!Fetch
  <2> QED
    BY <2>10 DEF TheFlights!Next
<1> QED
  BY <1>4, <1>5

LEMMA CreateOrFetchedFlies ==
  ASSUME IInv, NEW b \in Requests, Create(b) \/ Fetched(b)
  PROVE  UNCHANGED mapped
<1>1. /\ \E how \in {"fetching", "storing"} : Goto(b, how)
      /\ build[b] \in {"creating", "fetching"}
      /\ UNCHANGED <<pc, query, uses, reply, tasks, cache>>
  BY DEF Create, Fetched, request, shared
<1>2. \A x \in Requests : x # b => payload'[x] = payload[x]
  BY DEF Create, Fetched, IInv, TypeOK
<1> QED
  BY <1>1, <1>2, FlightGoesOn DEF Fanning, mapped

LEMMA StoreFlies ==
  ASSUME IInv, NEW b \in Requests, Store(b)
  PROVE  UNCHANGED mapped
<1>1. build[b] = "storing" /\ UNCHANGED <<pc, query, uses, reply, tasks, payload, cache>>
  BY DEF Store, request, shared
<1>2. CASE pc[b] = "inline"
  BY <1>1, <1>2, FlightGoesOn DEF Store, End, Goto, mapped
<1>3. CASE pc[b] # "inline"
  BY <1>1, <1>3, FlightGoesOn DEF Store, Fanning, mapped
<1> QED
  BY <1>2, <1>3

LEMMA PutFlies ==
  ASSUME IInv, NEW b \in Requests, Put(b)
  PROVE  TheFlights!Next
<1>1. /\ build[b] = "caching" /\ build[b] \in Working /\ pc[b] # "inline" /\ End(b, "returned")
      /\ UNCHANGED <<pc, query, uses, reply, tasks, payload>>
      /\ cache' = [cache EXCEPT ![query[b]] = payload[b]]
  BY DEF Put, Working, IInv, RequestsMatchBuilds, request
<1>2. payload[b] \in Payloads
  BY <1>1 DEF IInv, PayloadsSettled
<1>3. /\ TheFlights!Land(b, "done") /\ Stages[b] = "fetching"
      /\ Brought' = [Brought EXCEPT ![b] = payload[b]]
  BY <1>1, FlightLands DEF BuildEnded
<1>4. TheFlights!Bring(b)
  BY <1>1, <1>2, <1>3 DEF TheFlights!Bring
<1> QED
  BY <1>4 DEF TheFlights!Next

\* A build that fails, of itself or because it is cancelled.
LEMMA BuildRaises ==
  ASSUME IInv, NEW b \in Requests, build[b] \in Working, End(b, "raised"),
         UNCHANGED <<pc, query, uses, reply, tasks, payload>>,
         UNCHANGED cache \/ Interrupted(b)
  PROVE  TheFlights!Next \/ UNCHANGED mapped
<1>1. \/ UNCHANGED cache
      \/ build[b] = "caching" /\ cache' = [cache EXCEPT ![query[b]] = payload[b]]
  BY DEF Interrupted
<1>2. CASE pc[b] = "inline"
  <2>1. UNCHANGED cache
    BY <1>1, <1>2 DEF IInv, RequestsMatchBuilds
  <2> QED
    BY <1>2, <2>1, FlightGoesOn DEF End, Goto, mapped
<1>3. CASE pc[b] # "inline"
  <2>1. TheFlights!Crash(b)
    BY <1>1, <1>3, FlightCrashes
  <2> QED
    BY <2>1 DEF TheFlights!Next
<1> QED
  BY <1>2, <1>3

LEMMA FailureFlies ==
  ASSUME IInv, NEW b \in Requests, CallFails(b) \/ GroupFails(b) \/ Stopped(b)
  PROVE  TheFlights!Next \/ UNCHANGED mapped
<1>1. /\ build[b] \in Working /\ End(b, "raised")
      /\ UNCHANGED <<pc, query, uses, reply, tasks, payload>>
      /\ UNCHANGED cache \/ Interrupted(b)
  BY DEF CallFails, GroupFails, Stopped, Working, request, shared
<1> QED
  BY <1>1, BuildRaises

LEMMA CancelFlies ==
  ASSUME IInv, NEW r \in Requests, Cancel(r)
  PROVE  TheFlights!Next \/ UNCHANGED mapped
<1>1. ASSUME pc[r] \in {"looking", "missed"} \/ (pc[r] = "waiting" /\ Ended(uses[r])),
             Raise(r), UNCHANGED <<query, uses, build, payload, cache>>,
             tasks' = tasks \/ (pc[r] = "waiting" /\ Ended(uses[r]) /\ Pop(r))
      PROVE  TheFlights!Next
  <2>1. /\ Places' = [Places EXCEPT ![r] = "gone"] /\ Boarded' = [Boarded EXCEPT ![r] = None]
        /\ Flights' = Flights /\ Stages' = Stages /\ Brought' = Brought
    BY <1>1, RequestLeaves DEF Raise, Answered
  <2>2. \/ Places[r] = "out"
        \/ Places[r] = "aboard" /\ Stages[Boarded[r]] \in {"done", "failed"}
    <3>1. CASE pc[r] \in {"looking", "missed"}
      BY <3>1 DEF Places, Place
    <3>2. CASE pc[r] = "waiting" /\ Ended(uses[r])
      <4>1. uses[r] \in Requests /\ pc[uses[r]] # "inline"
        BY <3>2 DEF IInv, RequestsMatchBuilds
      <4>2. Stages[uses[r]] \in {"done", "failed"}
        BY <3>2, <4>1 DEF Ended, BuildEnded, Stages, Stage
      <4> QED
        BY <3>2, <4>2 DEF Places, Place, Boarded
    <3> QED
      BY <1>1, <3>1, <3>2
  <2>3. TheFlights!GiveUp(r)
    BY <1>1, <2>1, <2>2 DEF TheFlights!GiveUp, Raise
  <2> QED
    BY <2>3 DEF TheFlights!Next
<1>2. ASSUME pc[r] \in {"waiting", "inline"}, ~Ended(uses[r]), StopBuild(uses[r]),
             UNCHANGED <<pc, query, uses, reply, tasks, payload>>
      PROVE  TheFlights!Next \/ UNCHANGED mapped
  <2> DEFINE b == uses[r]
  <2>1. b \in Requests /\ build[b] \in Working
    BY <1>2 DEF Ended, IInv, TypeOK, RequestsMatchBuilds
  <2>2. CASE build[b] \in {"fetching", "stopping"}
    BY <1>2, <2>1, <2>2, FlightGoesOn DEF StopBuild, End, Goto, Fanning, mapped
  <2>3. CASE build[b] \notin {"fetching", "stopping"}
    BY <1>2, <2>1, <2>3, BuildRaises DEF StopBuild
  <2> QED
    BY <2>2, <2>3
<1> QED
  BY <1>1, <1>2 DEF Cancel

LEMMA OthersFly ==
  ASSUME IInv,
         \/ \E b \in Requests : Cleanup(b)
         \/ \E q \in Queries : Expire(q)
         \/ UNCHANGED vars
  PROVE  TheFlights!Next \/ UNCHANGED mapped
<1>1. UNCHANGED <<pc, query, uses, reply, tasks, build, payload>>
  BY DEF Cleanup, Expire, request, shared, vars
<1>2. UNCHANGED <<Places, query, Boarded, reply, Flights, Stages, Brought>>
  BY <1>1 DEF Places, Place, Boarded, Flights, Stages, Stage, Brought
<1>3. UNCHANGED cache \/ \E q \in Queries : cache[q] # None /\ cache' = [cache EXCEPT ![q] = None]
  BY DEF Cleanup, Expire, shared, vars
<1> QED
  BY <1>2, <1>3 DEF TheFlights!Next, TheFlights!Drop, mapped

\* Coalescing keeps its promise: each step starts, boards, lands or leaves a flight
\* as SharedFlights allows it, or is invisible to the callers.
THEOREM ImplementsTheFlights == Spec => ImplementsFlights
<1>1. Init => TheFlights!Init
  BY DEF Init, TheFlights!Init, Places, Place, Boarded, Flights, Stages, Stage, Brought
<1>2. IInv /\ [Next]_vars => [TheFlights!Next]_(TheFlights!flightVars)
  <2> SUFFICES ASSUME IInv, [Next]_vars PROVE TheFlights!Next \/ UNCHANGED mapped
    BY DEF TheFlights!flightVars, mapped
  <2>1. ASSUME NEW r \in Requests, Request(r) PROVE TheFlights!Next \/ UNCHANGED mapped
    BY <2>1, ReceiveFlies, LookFlies, JoinFlies, WakeFlies, LookFailsFlies DEF Request
  <2>2. ASSUME NEW b \in Requests, Build(b) PROVE TheFlights!Next \/ UNCHANGED mapped
    BY <2>2, CheckFlies, CreateOrFetchedFlies, StoreFlies, PutFlies, FailureFlies DEF Build
  <2>3. ASSUME NEW r \in Requests, Cancel(r) PROVE TheFlights!Next \/ UNCHANGED mapped
    BY <2>3, CancelFlies
  <2> QED
    BY <2>1, <2>2, <2>3, OthersFly DEF Next
<1> QED
  BY <1>1, <1>2, Invariance, PTL DEF Spec, ImplementsFlights, TheFlights!Spec
=============================================================================
