---------------------------- MODULE MediaProofs ----------------------------
(***************************************************************************)
(* Proofs about Media: the Range arithmetic for every header and size, one *)
(* lemma per action with one step per conjunct of the inductive invariant, *)
(* and what can be counted: live generators and open upstream responses.   *)
(***************************************************************************)
EXTENDS Media, FiniteSetTheorems, TLAPS

\* What _parse_range accepts selects exactly the bytes the header asks for; what it
\* refuses selects none.
THEOREM LocalRanges ==
  ASSUME NEW range \in Ranges, NEW n \in Nat, range.form # "absent"
  PROVE  /\ Satisfiable(range, n)
              => Selected(range, n).first .. Selected(range, n).last = Wanted(range, n)
         /\ ~Satisfiable(range, n) => Wanted(range, n) = {}
<1> USE DEF Ranges, Forms, Satisfiable, Readable, InBounds, Selected, Bytes, Wanted, Covers,
    LastByte, Larger, Smaller
<1>1. CASE range.form = "suffix"
  BY <1>1
<1>2. CASE range.form = "open"
  BY <1>2
<1>3. CASE range.form = "closed"
  BY <1>3
<1>4. CASE range.form \in {"malformed", "bare"}
  BY <1>4
<1> QED
  BY <1>1, <1>2, <1>3, <1>4

\* So does the mock upstream, for the headers it understands like everyone else.
THEOREM AssetRanges ==
  ASSUME NEW range \in Ranges, AssetSatisfiable(range), range.form # "bare"
  PROVE  LET i == Clamped(AssetSelected(range))
         IN i.first .. i.last = Wanted(range, AssetSize)
BY SizesAssumption DEF Ranges, Forms, AssetSatisfiable, AssetSelected, InBounds, Clamped, Bytes,
  Wanted, Covers, Smaller

\* A response that does not change stays right.
LEMMA SameResponse ==
  ASSUME AnsweredRight, UNCHANGED response
  PROVE  AnsweredRight'
BY DEF AnsweredRight, response, Announced, Due, IsRemote

LEMMA AnsweredKeeps ==
  ASSUME IInv, NEW r \in Streams, NEW c \in Calls[r], NEW n \in Nat,
         NEW i \in [first : Nat, last : Int], Length(i) \in Nat,
         NEW code \in {0, 200, 206, 400, 404, 416, 500},
         NEW label \in {"announced", "refused", "connecting"},
         label = "connecting" => c.kind = "remote",
         code \in {200, 206} /\ c.range.form # "bare" => i.first .. i.last = DueOf(c, n),
         code = 416 /\ c.kind # "remote" => DueOf(c, n) = {},
         Answered(r, c, code, n, i, label)
  PROVE  IInv'
<1> USE DEF Answered, Goto, file, body
<1>1. TypeOK'
  <2>1. c \in Requests
    BY CallsAssumption
  <2>2. /\ call' \in [Streams -> Requests]
        /\ pc' \in [Streams -> {"idle"} \cup Serving \cup Final]
        /\ answer' \in [Streams -> {0, 200, 206, 400, 404, 416, 500, 502}]
        /\ total' \in [Streams -> Nat]
    BY <2>1 DEF IInv, TypeOK, Serving, Final
  <2>3. /\ interval' \in [Streams -> [first : Nat, last : Int]]
        /\ \A q \in Streams : interval'[q] = i \/ interval'[q] = interval[q]
    BY DEF IInv, TypeOK
  <2>4. \A q \in Streams : Length(interval'[q]) \in Nat
    <3>1. \A q \in Streams : Length(interval[q]) \in Nat
      BY DEF IInv, TypeOK
    <3> HIDE DEF Answered, Goto, file, body
    <3> QED
      BY <2>3, <3>1
  <2> QED
    BY <2>2, <2>3, <2>4 DEF IInv, TypeOK
<1>2. AnsweredRight'
  <2> SUFFICES ASSUME NEW q \in Streams
               PROVE  /\ answer'[q] \in {200, 206} /\ call'[q].range.form # "bare"
                           => interval'[q].first .. interval'[q].last = DueOf(call'[q], total'[q])
                      /\ answer'[q] = 416 /\ call'[q].kind # "remote"
                           => DueOf(call'[q], total'[q]) = {}
    BY DEF AnsweredRight, Announced, Due, IsRemote, DueOf
  <2>1. CASE q = r
    BY <2>1 DEF IInv, TypeOK
  <2>2. CASE q # r
    BY <2>2 DEF IInv, TypeOK, AnsweredRight, Announced, Due, IsRemote
  <2> QED
    BY <2>1, <2>2
<1>3. /\ pc[r] = "idle" /\ UNCHANGED <<got, sent, ending, upstream>>
      /\ \A q \in Streams : pc'[q] = IF q = r THEN label ELSE pc[q]
      /\ \A q \in Streams : call'[q] = IF q = r THEN c ELSE call[q]
      /\ \A q \in Streams : answer'[q] = IF q = r THEN code ELSE answer[q]
      /\ \A q \in Streams : interval'[q] = IF q = r THEN i ELSE interval[q]
  BY DEF IInv, TypeOK
<1>4. got[r] = 0 /\ sent[r] = 0 /\ upstream[r] # "open"
  BY <1>3 DEF IInv, InOrder, UpstreamHeld, Counted
<1> HIDE DEF Answered, Goto, file, body
<1>5. InOrder'
  BY <1>3, <1>4 DEF IInv, InOrder, IsRemote
<1>6. SentAsAnnounced'
  BY <1>3, <1>4 DEF IInv, SentAsAnnounced
<1>7. NothingPastTheRange'
  BY <1>3, <1>4 DEF IInv, NothingPastTheRange
<1>8. UpstreamHeld'
  BY <1>3, <1>4 DEF IInv, UpstreamHeld
<1> QED
  BY <1>1, <1>2, <1>5, <1>6, <1>7, <1>8 DEF IInv

LEMMA CallTypes ==
  ASSUME NEW r \in Streams, NEW c \in Calls[r]
  PROVE  c.kind \in {"progressive", "seekable", "remote"} /\ c.range \in Ranges
BY CallsAssumption DEF Requests

\* Responses have a first byte in the file and a length that is no less than none.
LEMMA Intervals ==
  ASSUME NEW n \in Nat
  PROVE  /\ Whole(n) \in [first : Nat, last : Int] /\ Length(Whole(n)) = n
         /\ Whole(n).first .. Whole(n).last = 0 .. n - 1
         /\ \A range \in Ranges : Satisfiable(range, n) =>
              /\ Selected(range, n) \in [first : Nat, last : Int]
              /\ Length(Selected(range, n)) \in Nat
BY DEF Whole, Bytes, Length, Ranges, Satisfiable, InBounds, Selected, LastByte, Smaller, Larger

LEMMA ReceiveLocalKeeps ==
  ASSUME IInv, NEW r \in Streams, ReceiveLocal(r)
  PROVE  IInv'
<1>1. PICK c \in Calls[r] :
        c.kind # "remote" /\ (NotFound(r, c) \/ FullResponse(r, c) \/ PartialResponse(r, c))
  BY DEF ReceiveLocal
<1>2. size \in Nat
  BY SizesAssumption DEF IInv, TypeOK
<1>3. c.kind \in {"progressive", "seekable"} /\ c.range \in Ranges
  BY <1>1, CallTypes
<1>4. Whole(0) \in [first : Nat, last : Int] /\ Length(Whole(0)) \in Nat
  BY Intervals
<1>5. CASE NotFound(r, c)
  <2>1. PICK code \in {404, 500} : Answered(r, c, code, 0, Whole(0), "refused")
    BY <1>5 DEF NotFound
  <2>2. code \in {0, 200, 206, 400, 404, 416, 500} /\ code \notin {200, 206, 416}
    OBVIOUS
  <2>3. 0 \in Nat /\ "refused" \in {"announced", "refused", "connecting"}
    OBVIOUS
  <2> QED
    BY <1>4, <2>1, <2>2, <2>3, AnsweredKeeps
<1>6. CASE FullResponse(r, c)
  <2>1. Answered(r, c, 200, size, Whole(size), "announced")
    BY <1>6 DEF FullResponse
  <2>2. DueOf(c, size) = 0 .. size - 1
    BY <1>2, <1>3, <1>6 DEF FullResponse, IsWhole, DueOf, Wanted, Covers
  <2>3. /\ Whole(size) \in [first : Nat, last : Int] /\ Length(Whole(size)) \in Nat
        /\ Whole(size).first .. Whole(size).last = DueOf(c, size)
    BY <1>2, <2>2, Intervals
  <2> QED
    BY <1>2, <2>1, <2>3, AnsweredKeeps
<1>7. CASE PartialResponse(r, c)
  <2>1. c.kind = "seekable" /\ c.range.form # "absent"
    BY <1>3, <1>7 DEF PartialResponse, IsWhole
  <2>2. DueOf(c, size) = Wanted(c.range, size)
    BY <2>1 DEF DueOf
  <2>3. CASE Satisfiable(c.range, size)
    <3>1. Answered(r, c, 206, size, Selected(c.range, size), "announced")
      BY <1>7, <2>3 DEF PartialResponse
    <3>2. Selected(c.range, size).first .. Selected(c.range, size).last = DueOf(c, size)
      BY <1>2, <1>3, <2>1, <2>2, <2>3, LocalRanges
    <3>3. /\ Selected(c.range, size) \in [first : Nat, last : Int]
          /\ Length(Selected(c.range, size)) \in Nat
      BY <1>2, <1>3, <2>3, Intervals
    <3> QED
      BY <1>2, <3>1, <3>2, <3>3, AnsweredKeeps
  <2>4. CASE ~Satisfiable(c.range, size)
    <3>1. Answered(r, c, 416, size, Whole(0), "refused")
      BY <1>7, <2>4 DEF PartialResponse
    <3>2. DueOf(c, size) = {}
      BY <1>2, <1>3, <2>1, <2>2, <2>4, LocalRanges
    <3> QED
      BY <1>2, <1>4, <3>1, <3>2, AnsweredKeeps
  <2> QED
    BY <2>3, <2>4
<1> QED
  BY <1>1, <1>5, <1>6, <1>7

LEMMA ReceiveRemoteKeeps ==
  ASSUME IInv, NEW r \in Streams, ReceiveRemote(r)
  PROVE  IInv'
<1>1. PICK c \in Calls[r] :
        /\ c.kind = "remote"
        /\ \/ Answered(r, c, 0, 0, Whole(0), "connecting")
           \/ Answered(r, c, 400, 0, Whole(0), "refused")
  BY DEF ReceiveRemote
<1>2. Whole(0) \in [first : Nat, last : Int] /\ Length(Whole(0)) \in Nat
  BY Intervals
<1>3. CASE Answered(r, c, 0, 0, Whole(0), "connecting")
  BY <1>1, <1>2, <1>3, AnsweredKeeps
<1>4. CASE Answered(r, c, 400, 0, Whole(0), "refused")
  BY <1>2, <1>4, AnsweredKeeps
<1> QED
  BY <1>1, <1>3, <1>4

LEMMA AssetAnswerKeeps ==
  ASSUME IInv, NEW r \in Streams, NEW code \in {200, 206},
         NEW i \in [first : Nat, last : Int], Length(i) \in Nat,
         call[r].range.form # "bare" => i.first .. i.last = Wanted(call[r].range, AssetSize),
         AssetAnswer(r, code, i)
  PROVE  IInv'
<1> USE DEF AssetAnswer, Answer, Goto, file, body
<1>1. TypeOK'
  <2>1. /\ pc' \in [Streams -> {"idle"} \cup Serving \cup Final]
        /\ answer' \in [Streams -> {0, 200, 206, 400, 404, 416, 500, 502}]
        /\ total' \in [Streams -> Nat]
    <3>1. /\ pc' = [pc EXCEPT ![r] = "announced"]
          /\ answer' = [answer EXCEPT ![r] = code]
          /\ total' = [total EXCEPT ![r] = AssetSize]
      OBVIOUS
    <3>2. "announced" \in Serving
      BY DEF Serving
    <3> QED
      BY <3>1, <3>2, SizesAssumption DEF IInv, TypeOK
  <2>2. /\ interval' \in [Streams -> [first : Nat, last : Int]]
        /\ \A q \in Streams : interval'[q] = i \/ interval'[q] = interval[q]
    BY DEF IInv, TypeOK
  <2>3. \A q \in Streams : Length(interval'[q]) \in Nat
    <3>1. \A q \in Streams : Length(interval[q]) \in Nat
      BY DEF IInv, TypeOK
    <3> HIDE DEF AssetAnswer, Answer, Goto, file, body
    <3> QED
      BY <2>2, <3>1
  <2> QED
    BY <2>1, <2>2, <2>3 DEF IInv, TypeOK
<1>2. AnsweredRight'
  <2>1. call[r].kind = "remote"
    BY DEF IInv, InOrder, IsRemote
  <2> SUFFICES ASSUME NEW q \in Streams
               PROVE  /\ answer'[q] \in {200, 206} /\ call[q].range.form # "bare"
                           => interval'[q].first .. interval'[q].last = DueOf(call[q], total'[q])
                      /\ answer'[q] = 416 /\ call[q].kind # "remote"
                           => DueOf(call[q], total'[q]) = {}
    BY DEF AnsweredRight, Announced, Due, IsRemote, DueOf
  <2>2. CASE q = r
    BY <2>1, <2>2 DEF IInv, TypeOK, DueOf
  <2>3. CASE q # r
    <3>1. answer'[q] = answer[q] /\ interval'[q] = interval[q] /\ total'[q] = total[q]
      BY <2>3 DEF IInv, TypeOK
    <3>2. /\ answer[q] \in {200, 206} /\ call[q].range.form # "bare"
               => interval[q].first .. interval[q].last = DueOf(call[q], total[q])
          /\ answer[q] = 416 /\ call[q].kind # "remote" => DueOf(call[q], total[q]) = {}
      <4> HIDE DEF AssetAnswer, Answer, Goto, file, body
      <4> QED
        BY DEF IInv, AnsweredRight, Announced, Due, IsRemote
    <3> HIDE DEF AssetAnswer, Answer, Goto, file, body
    <3> QED
      BY <3>1, <3>2
  <2> QED
    BY <2>2, <2>3
<1>3. InOrder'
  BY DEF IInv, TypeOK, InOrder, IsRemote
<1>4. SentAsAnnounced'
  <2>1. /\ UNCHANGED sent /\ sent[r] = 0
        /\ \A q \in Streams : pc'[q] = IF q = r THEN "announced" ELSE pc[q]
        /\ \A q \in Streams : interval'[q] = IF q = r THEN i ELSE interval[q]
    BY DEF IInv, TypeOK, InOrder
  <2> HIDE DEF AssetAnswer, Answer, Goto, file, body
  <2> QED
    BY <2>1 DEF IInv, SentAsAnnounced
<1>5. NothingPastTheRange'
  BY DEF IInv, TypeOK, InOrder, NothingPastTheRange
<1>6. UpstreamHeld'
  BY DEF IInv, TypeOK, UpstreamHeld
<1> QED
  BY <1>1, <1>2, <1>3, <1>4, <1>5, <1>6 DEF IInv

LEMMA CallsHaveRanges ==
  ASSUME TypeOK, NEW r \in Streams
  PROVE  call[r].range \in Ranges
BY DEF TypeOK, Requests

LEMMA FullAssetKeeps ==
  ASSUME IInv, NEW r \in Streams, FullAsset(r)
  PROVE  IInv'
<1>1. Wanted(call[r].range, AssetSize) = 0 .. AssetSize - 1
  BY SizesAssumption DEF FullAsset, Wanted, Covers
<1>2. AssetSize \in Nat /\ AssetAnswer(r, 200, Whole(AssetSize))
  BY SizesAssumption DEF FullAsset
<1>3. /\ Whole(AssetSize) \in [first : Nat, last : Int] /\ Length(Whole(AssetSize)) \in Nat
      /\ Whole(AssetSize).first .. Whole(AssetSize).last = Wanted(call[r].range, AssetSize)
  BY <1>1, <1>2, Intervals
<1> QED
  BY <1>2, <1>3, AssetAnswerKeeps

LEMMA PartialAssetKeeps ==
  ASSUME IInv, NEW r \in Streams, PartialAsset(r)
  PROVE  IInv'
<1> DEFINE i == Clamped(AssetSelected(call[r].range))
<1>1. call[r].range \in Ranges /\ AssetSatisfiable(call[r].range)
  BY CallsHaveRanges DEF IInv, PartialAsset
<1>2. i \in [first : Nat, last : Int] /\ Length(i) \in Nat
  BY <1>1, SizesAssumption DEF Ranges, AssetSatisfiable, AssetSelected, InBounds, Clamped, Bytes,
    Smaller, Length
<1>3. call[r].range.form # "bare" => i.first .. i.last = Wanted(call[r].range, AssetSize)
  BY <1>1, AssetRanges
<1>4. AssetAnswer(r, 206, i)
  BY DEF PartialAsset
<1> HIDE DEF i
<1> QED
  BY <1>2, <1>3, <1>4, AssetAnswerKeeps

LEMMA ConnectKeeps ==
  ASSUME IInv, NEW r \in Streams, Connect(r)
  PROVE  IInv'
<1> USE DEF Connect, Goto, file, response, body
<1>1. TypeOK'
  BY DEF IInv, TypeOK, Counted, Serving, Final
<1>2. AnsweredRight'
  BY SameResponse DEF IInv
<1>3. InOrder'
  BY DEF IInv, TypeOK, InOrder, IsRemote
<1>4. SentAsAnnounced'
  BY DEF IInv, TypeOK, InOrder, SentAsAnnounced
<1>5. NothingPastTheRange'
  BY DEF IInv, TypeOK, InOrder, NothingPastTheRange
<1>6. UpstreamHeld'
  BY DEF IInv, TypeOK, UpstreamHeld, Counted
<1> QED
  BY <1>1, <1>2, <1>3, <1>4, <1>5, <1>6 DEF IInv

LEMMA NoConnectionKeeps ==
  ASSUME IInv, NEW r \in Streams, NoConnection(r)
  PROVE  IInv'
<1> USE DEF NoConnection, Answer, Goto, file, response, body
<1>1. TypeOK'
  BY DEF IInv, TypeOK, Counted, Serving, Final
<1>2. AnsweredRight'
  BY DEF IInv, TypeOK, AnsweredRight, Announced, Due, IsRemote
<1>3. InOrder'
  BY DEF IInv, TypeOK, InOrder, IsRemote
<1>4. SentAsAnnounced'
  BY DEF IInv, TypeOK, InOrder, SentAsAnnounced
<1>5. NothingPastTheRange'
  BY DEF IInv, TypeOK, InOrder, NothingPastTheRange
<1>6. UpstreamHeld'
  BY DEF IInv, TypeOK, UpstreamHeld, Counted
<1> QED
  BY <1>1, <1>2, <1>3, <1>4, <1>5, <1>6 DEF IInv

LEMMA UpstreamRejectsKeeps ==
  ASSUME IInv, NEW r \in Streams, UpstreamRejects(r)
  PROVE  IInv'
<1>1. PICK code \in {404, 416, 502} : answer' = [answer EXCEPT ![r] = code]
  BY DEF UpstreamRejects, Answer
<1>2. /\ pc[r] = "requesting" /\ pc' = [pc EXCEPT ![r] = "rejecting"]
      /\ UNCHANGED <<file, count, call, total, interval, body, upstream, gone, touched>>
  BY DEF UpstreamRejects, Answer, Goto
<1> USE <1>1, <1>2 DEF file, body
<1>3. TypeOK'
  BY DEF IInv, TypeOK, Serving, Final
<1>4. AnsweredRight'
  <2>1. call[r].kind = "remote"
    BY DEF IInv, InOrder, IsRemote
  <2>2. \A q \in Streams : answer'[q] = IF q = r THEN code ELSE answer[q]
    BY DEF IInv, TypeOK
  <2>3. /\ \A q \in Streams : Announced(q)' = Announced(q)
        /\ \A q \in Streams : Due(q)' = Due(q)
        /\ call' = call
    BY DEF Announced, Due
  <2> QED
    BY <2>1, <2>2, <2>3 DEF IInv, AnsweredRight, IsRemote
<1>5. InOrder'
  BY DEF IInv, TypeOK, InOrder, IsRemote
<1>6. SentAsAnnounced'
  BY DEF IInv, TypeOK, InOrder, SentAsAnnounced
<1>7. NothingPastTheRange'
  BY DEF IInv, TypeOK, InOrder, NothingPastTheRange
<1>8. UpstreamHeld'
  BY DEF IInv, TypeOK, UpstreamHeld, Counted
<1> QED
  BY <1>3, <1>4, <1>5, <1>6, <1>7, <1>8 DEF IInv

LEMMA UpstreamFailsKeeps ==
  ASSUME IInv, NEW r \in Streams, UpstreamFails(r)
  PROVE  IInv'
<1> USE DEF UpstreamFails, Answer, Closed, Goto, file, response, body
<1>1. TypeOK'
  BY DEF IInv, TypeOK, Counted, Serving, Final
<1>2. AnsweredRight'
  BY DEF IInv, TypeOK, AnsweredRight, Announced, Due, IsRemote
<1>3. InOrder'
  BY DEF IInv, TypeOK, InOrder, IsRemote
<1>4. SentAsAnnounced'
  BY DEF IInv, TypeOK, InOrder, SentAsAnnounced
<1>5. NothingPastTheRange'
  BY DEF IInv, TypeOK, InOrder, NothingPastTheRange
<1>6. UpstreamHeld'
  BY DEF IInv, TypeOK, UpstreamHeld, Counted
<1> QED
  BY <1>1, <1>2, <1>3, <1>4, <1>5, <1>6 DEF IInv

LEMMA RejectRemoteKeeps ==
  ASSUME IInv, NEW r \in Streams, RejectRemote(r)
  PROVE  IInv'
<1> USE DEF RejectRemote, CloseRejected, Closed, Goto, file, response, body
<1>1. TypeOK'
  BY DEF IInv, TypeOK, Counted, Serving, Final
<1>2. AnsweredRight'
  BY SameResponse DEF IInv
<1>3. InOrder'
  BY DEF IInv, TypeOK, InOrder, IsRemote
<1>4. SentAsAnnounced'
  BY DEF IInv, TypeOK, InOrder, SentAsAnnounced
<1>5. NothingPastTheRange'
  BY DEF IInv, TypeOK, InOrder, NothingPastTheRange
<1>6. UpstreamHeld'
  BY DEF IInv, TypeOK, UpstreamHeld, Counted
<1> QED
  BY <1>1, <1>2, <1>3, <1>4, <1>5, <1>6 DEF IInv

LEMMA StartKeeps ==
  ASSUME IInv, NEW r \in Streams, Start(r)
  PROVE  IInv'
<1> USE DEF Start, Goto, file, response, body
<1>1. TypeOK'
  BY DEF IInv, TypeOK, Counted, Serving, Final
<1>2. AnsweredRight'
  BY SameResponse DEF IInv
<1>3. InOrder'
  BY DEF IInv, TypeOK, InOrder, IsRemote
<1>4. SentAsAnnounced'
  BY DEF IInv, TypeOK, InOrder, SentAsAnnounced
<1>5. NothingPastTheRange'
  BY DEF IInv, TypeOK, InOrder, NothingPastTheRange
<1>6. UpstreamHeld'
  BY DEF IInv, TypeOK, UpstreamHeld, Counted
<1> QED
  BY <1>1, <1>2, <1>3, <1>4, <1>5, <1>6 DEF IInv

LEMMA OpenFileKeeps ==
  ASSUME IInv, NEW r \in Streams, OpenFile(r)
  PROVE  IInv'
<1> USE DEF OpenFile, Ends, Goto, file, response, body
<1>1. TypeOK'
  <2>1. pc' \in [Streams -> {"idle"} \cup Serving \cup Final]
    <3>1. \E label \in Serving : pc' = [pc EXCEPT ![r] = label]
      BY DEF Counted, Serving
    <3> QED
      BY <3>1 DEF IInv, TypeOK
  <2>2. ending' \in [Streams -> {"none", "ended", "failed", "left"}]
    <3>1. ending' = ending \/ ending' = [ending EXCEPT ![r] = "failed"]
      OBVIOUS
    <3> QED
      BY <3>1 DEF IInv, TypeOK
  <2> QED
    BY <2>1, <2>2 DEF IInv, TypeOK
<1>2. AnsweredRight'
  BY SameResponse DEF IInv
<1>3. InOrder'
  BY DEF IInv, TypeOK, InOrder, IsRemote
<1>4. SentAsAnnounced'
  BY DEF IInv, TypeOK, InOrder, SentAsAnnounced
<1>5. NothingPastTheRange'
  BY DEF IInv, TypeOK, InOrder, NothingPastTheRange
<1>6. UpstreamHeld'
  BY DEF IInv, TypeOK, UpstreamHeld, Counted
<1> QED
  BY <1>1, <1>2, <1>3, <1>4, <1>5, <1>6 DEF IInv

LEMMA ReadChunkKeeps ==
  ASSUME IInv, NEW r \in Streams, ReadChunk(r)
  PROVE  IInv'
<1> USE DEF ReadChunk, Goto, file, response, body
<1>1. TypeOK'
  <2>1. Available(r) \in Nat
    BY BoundsAssumption, SizesAssumption
      DEF IInv, TypeOK, Available, Asked, Left, Smaller, Length, IsRemote
  <2> QED
    BY <2>1 DEF IInv, TypeOK, Counted, Serving, Final
<1>2. AnsweredRight'
  BY SameResponse DEF IInv
<1>3. InOrder'
  BY DEF IInv, TypeOK, InOrder, IsRemote
<1>4. SentAsAnnounced'
  BY DEF IInv, TypeOK, InOrder, SentAsAnnounced
<1>5. NothingPastTheRange'
  <2>1. answer[r] = 206 => got[r] + Available(r) <= Length(interval[r])
    BY BoundsAssumption, SizesAssumption
      DEF IInv, TypeOK, Available, Asked, Left, Smaller, Length, IsRemote
  <2> QED
    BY <2>1 DEF IInv, TypeOK, NothingPastTheRange
<1>6. UpstreamHeld'
  BY DEF IInv, TypeOK, UpstreamHeld, Counted
<1> QED
  BY <1>1, <1>2, <1>3, <1>4, <1>5, <1>6 DEF IInv

LEMMA EndOfBodyKeeps ==
  ASSUME IInv, NEW r \in Streams, EndOfBody(r)
  PROVE  IInv'
<1> USE DEF EndOfBody, Ends, Goto, file, response, body
<1>1. TypeOK'
  BY DEF IInv, TypeOK, Counted, Serving, Final
<1>2. AnsweredRight'
  BY SameResponse DEF IInv
<1>3. InOrder'
  BY DEF IInv, TypeOK, InOrder, IsRemote
<1>4. SentAsAnnounced'
  BY DEF IInv, TypeOK, InOrder, SentAsAnnounced
<1>5. NothingPastTheRange'
  BY DEF IInv, TypeOK, InOrder, NothingPastTheRange
<1>6. UpstreamHeld'
  BY DEF IInv, TypeOK, UpstreamHeld, Counted
<1> QED
  BY <1>1, <1>2, <1>3, <1>4, <1>5, <1>6 DEF IInv

LEMMA UpstreamBreaksKeeps ==
  ASSUME IInv, NEW r \in Streams, UpstreamBreaks(r)
  PROVE  IInv'
<1> USE DEF UpstreamBreaks, Ends, Goto, file, response, body
<1>1. TypeOK'
  BY DEF IInv, TypeOK, Counted, Serving, Final
<1>2. AnsweredRight'
  BY SameResponse DEF IInv
<1>3. InOrder'
  BY DEF IInv, TypeOK, InOrder, IsRemote
<1>4. SentAsAnnounced'
  BY DEF IInv, TypeOK, InOrder, SentAsAnnounced
<1>5. NothingPastTheRange'
  BY DEF IInv, TypeOK, InOrder, NothingPastTheRange
<1>6. UpstreamHeld'
  BY DEF IInv, TypeOK, UpstreamHeld, Counted
<1> QED
  BY <1>1, <1>2, <1>3, <1>4, <1>5, <1>6 DEF IInv

LEMMA SendChunkKeeps ==
  ASSUME IInv, NEW r \in Streams, SendChunk(r)
  PROVE  IInv'
<1> USE DEF SendChunk, Goto, file, response, body
<1>1. TypeOK'
  <2>1. pc' \in [Streams -> {"idle"} \cup Serving \cup Final]
    <3>1. pc' = [pc EXCEPT ![r] = "reading"] \/ pc' = [pc EXCEPT ![r] = "abandoned"]
      OBVIOUS
    <3> QED
      BY <3>1 DEF IInv, TypeOK, Counted, Serving
  <2>2. ending' \in [Streams -> {"none", "ended", "failed", "left"}]
    BY DEF IInv, TypeOK
  <2>3. sent' \in [Streams -> Nat]
    BY DEF IInv, TypeOK
  <2> QED
    BY <2>1, <2>2, <2>3 DEF IInv, TypeOK
<1>2. AnsweredRight'
  BY SameResponse DEF IInv
<1>3. InOrder'
  BY DEF IInv, TypeOK, InOrder, IsRemote
<1>4. SentAsAnnounced'
  BY DEF IInv, TypeOK, InOrder, SentAsAnnounced
<1>5. NothingPastTheRange'
  BY DEF IInv, TypeOK, InOrder, NothingPastTheRange
<1>6. UpstreamHeld'
  BY DEF IInv, TypeOK, UpstreamHeld, Counted
<1> QED
  BY <1>1, <1>2, <1>3, <1>4, <1>5, <1>6 DEF IInv

LEMMA LeaveKeeps ==
  ASSUME IInv, NEW r \in Streams, Leave(r)
  PROVE  IInv'
<1> USE DEF Leave, Goto, file, response, body
<1>1. TypeOK'
  BY DEF IInv, TypeOK, Counted, Serving, Final
<1>2. AnsweredRight'
  BY SameResponse DEF IInv
<1>3. InOrder'
  BY DEF IInv, TypeOK, InOrder, IsRemote
<1>4. SentAsAnnounced'
  BY DEF IInv, TypeOK, InOrder, SentAsAnnounced
<1>5. NothingPastTheRange'
  BY DEF IInv, TypeOK, InOrder, NothingPastTheRange
<1>6. UpstreamHeld'
  BY DEF IInv, TypeOK, UpstreamHeld, Counted
<1> QED
  BY <1>1, <1>2, <1>3, <1>4, <1>5, <1>6 DEF IInv

LEMMA DiscardKeeps ==
  ASSUME IInv, NEW r \in Streams, Discard(r)
  PROVE  IInv'
<1> USE DEF Discard, Goto, file, response, body
<1>1. TypeOK'
  BY DEF IInv, TypeOK, Counted, Serving, Final
<1>2. AnsweredRight'
  BY SameResponse DEF IInv
<1>3. InOrder'
  BY DEF IInv, TypeOK, InOrder, IsRemote
<1>4. SentAsAnnounced'
  BY DEF IInv, TypeOK, InOrder, SentAsAnnounced
<1>5. NothingPastTheRange'
  BY DEF IInv, TypeOK, InOrder, NothingPastTheRange
<1>6. UpstreamHeld'
  BY DEF IInv, TypeOK, UpstreamHeld, Counted
<1> QED
  BY <1>1, <1>2, <1>3, <1>4, <1>5, <1>6 DEF IInv

LEMMA CancelKeeps ==
  ASSUME IInv, NEW r \in Streams, Cancel(r)
  PROVE  IInv'
<1> USE DEF Cancel, Goto, file, response, body
<1>1. TypeOK'
  BY DEF IInv, TypeOK, Counted, Serving, Final
<1>2. AnsweredRight'
  BY SameResponse DEF IInv
<1>3. InOrder'
  BY DEF IInv, TypeOK, InOrder, IsRemote
<1>4. SentAsAnnounced'
  BY DEF IInv, TypeOK, InOrder, SentAsAnnounced
<1>5. NothingPastTheRange'
  BY DEF IInv, TypeOK, InOrder, NothingPastTheRange
<1>6. UpstreamHeld'
  BY DEF IInv, TypeOK, UpstreamHeld, Counted
<1> QED
  BY <1>1, <1>2, <1>3, <1>4, <1>5, <1>6 DEF IInv

LEMMA FinalizeKeeps ==
  ASSUME IInv, NEW r \in Streams, Finalize(r)
  PROVE  IInv'
<1> USE DEF Finalize, Goto, file, response, body
<1>1. TypeOK'
  BY DEF IInv, TypeOK, Counted, Serving, Final
<1>2. AnsweredRight'
  BY SameResponse DEF IInv
<1>3. InOrder'
  BY DEF IInv, TypeOK, InOrder, IsRemote
<1>4. SentAsAnnounced'
  BY DEF IInv, TypeOK, InOrder, SentAsAnnounced
<1>5. NothingPastTheRange'
  BY DEF IInv, TypeOK, InOrder, NothingPastTheRange
<1>6. UpstreamHeld'
  BY DEF IInv, TypeOK, UpstreamHeld, Counted
<1> QED
  BY <1>1, <1>2, <1>3, <1>4, <1>5, <1>6 DEF IInv

LEMMA ReleaseKeeps ==
  ASSUME IInv, NEW r \in Streams, Release(r)
  PROVE  IInv'
<1> USE DEF Release, Closed, Outcome, Uncount, Goto, file, response, body
<1>1. TypeOK'
  <2>1. pc' \in [Streams -> {"idle"} \cup Serving \cup Final]
    <3>1. Outcome(r) \in Final
      BY DEF IInv, TypeOK, InOrder, Final
    <3> QED
      BY <3>1 DEF IInv, TypeOK
  <2>2. upstream' \in [Streams -> {"none", "open", "closed"}]
    BY DEF IInv, TypeOK
  <2>3. count' \in Int
    BY DEF IInv, TypeOK
  <2> QED
    BY <2>1, <2>2, <2>3 DEF IInv, TypeOK
<1>2. AnsweredRight'
  BY SameResponse DEF IInv
<1>3. InOrder'
  BY DEF IInv, TypeOK, InOrder, IsRemote
<1>4. SentAsAnnounced'
  <2> SUFFICES ASSUME NEW q \in Streams
               PROVE  /\ sent[q] <= Length(interval[q])
                      /\ pc'[q] = "complete" => sent[q] = Length(interval[q])
    BY DEF SentAsAnnounced
  <2>1. CASE q = r
    <3>1. sent[r] <= Length(interval[r]) /\ sent[r] \in Nat /\ Length(interval[r]) \in Nat
      BY DEF IInv, TypeOK, SentAsAnnounced
    <3>2. pc'[r] = Outcome(r)
      BY DEF IInv, TypeOK
    <3>3. Outcome(r) = "complete" => sent[r] >= Length(interval[r])
      BY <3>1 DEF IInv, TypeOK
    <3> QED
      BY <2>1, <3>1, <3>2, <3>3
  <2>2. CASE q # r
    BY <2>2 DEF IInv, TypeOK, SentAsAnnounced
  <2> QED
    BY <2>1, <2>2
<1>5. NothingPastTheRange'
  BY DEF IInv, TypeOK, InOrder, NothingPastTheRange
<1>6. UpstreamHeld'
  BY DEF IInv, TypeOK, UpstreamHeld, Counted
<1> QED
  BY <1>1, <1>2, <1>3, <1>4, <1>5, <1>6 DEF IInv

LEMMA ChangeFileKeeps ==
  ASSUME IInv, ChangeFile
  PROVE  IInv'
<1> USE DEF ChangeFile, response, body
<1>1. TypeOK'
  <2>1. size' \in Sizes /\ listed' \in BOOLEAN
    <3>1. (size' \in Sizes /\ listed' = listed) \/ (listed' = FALSE /\ size' = size)
      OBVIOUS
    <3>2. size \in Sizes /\ listed \in BOOLEAN
      BY DEF IInv, TypeOK
    <3> QED
      BY <3>1, <3>2
  <2>2. changes' \in 0 .. MaxChanges
    BY BoundsAssumption DEF IInv, TypeOK
  <2>3. touched' \in [Streams -> BOOLEAN]
    BY DEF IInv, TypeOK
  <2> QED
    BY <2>1, <2>2, <2>3 DEF IInv, TypeOK
<1>2. AnsweredRight'
  BY SameResponse DEF IInv
<1>3. InOrder' /\ SentAsAnnounced' /\ NothingPastTheRange' /\ UpstreamHeld'
  BY DEF IInv, InOrder, IsRemote, SentAsAnnounced, NothingPastTheRange, UpstreamHeld
<1> QED
  BY <1>1, <1>2, <1>3 DEF IInv

LEMMA StutterKeeps ==
  ASSUME IInv, UNCHANGED vars
  PROVE  IInv'
BY DEF IInv, vars, TypeOK, AnsweredRight, Announced, Due, InOrder, IsRemote, SentAsAnnounced,
  NothingPastTheRange, UpstreamHeld

LEMMA StepKeeps ==
  ASSUME IInv, NEW r \in Streams, Step(r)
  PROVE  IInv'
BY ConnectKeeps, NoConnectionKeeps, FullAssetKeeps, PartialAssetKeeps, UpstreamRejectsKeeps,
  UpstreamFailsKeeps, RejectRemoteKeeps, StartKeeps, OpenFileKeeps, ReadChunkKeeps,
  EndOfBodyKeeps, UpstreamBreaksKeeps, DiscardKeeps, CancelKeeps, FinalizeKeeps, ReleaseKeeps
  DEF Step

LEMMA NextKeeps ==
  ASSUME IInv, [Next]_vars
  PROVE  IInv'
<1>1. ASSUME NEW r \in Streams,
             ReceiveLocal(r) \/ ReceiveRemote(r) \/ Step(r) \/ SendChunk(r) \/ Leave(r)
      PROVE  IInv'
  BY <1>1, ReceiveLocalKeeps, ReceiveRemoteKeeps, StepKeeps, SendChunkKeeps, LeaveKeeps
<1>2. CASE ChangeFile
  BY <1>2, ChangeFileKeeps
<1>3. CASE UNCHANGED vars
  BY <1>3, StutterKeeps
<1> QED
  BY <1>1, <1>2, <1>3 DEF Next

LEMMA InitHolds == Init => IInv
<1> SUFFICES ASSUME Init
             PROVE  IInv
  OBVIOUS
<1> USE DEF Init
<1>1. Whole(0) \in [first : Nat, last : Int] /\ Length(Whole(0)) = 0
  BY Intervals
<1>2. TypeOK
  <2>1. NoCall \in Requests
    BY DEF NoCall, Requests, Ranges, Forms, Urls
  <2>2. changes \in 0 .. MaxChanges
    BY BoundsAssumption
  <2>3. /\ interval \in [Streams -> [first : Nat, last : Int]]
        /\ \A r \in Streams : Length(interval[r]) \in Nat
    BY <1>1
  <2> QED
    BY <2>1, <2>2, <2>3 DEF TypeOK
<1>3. AnsweredRight
  BY DEF AnsweredRight
<1>4. InOrder /\ UpstreamHeld
  BY DEF InOrder, UpstreamHeld
<1>5. SentAsAnnounced /\ NothingPastTheRange
  BY <1>1 DEF SentAsAnnounced, NothingPastTheRange
<1> QED
  BY <1>2, <1>3, <1>4, <1>5 DEF IInv

\* The inductive invariant: responses are typed, answered right, read no further than
\* they announce, and hold an upstream response only while they serve.
THEOREM Invariance == Spec => []IInv
<1>1. IInv /\ [Next]_vars => IInv'
  BY NextKeeps
<1> QED
  BY InitHolds, <1>1, PTL DEF Spec

\* Type correctness.
THEOREM TypeCorrect == Spec => []TypeOK
<1>1. IInv => TypeOK
  BY DEF IInv
<1> QED
  BY Invariance, <1>1, PTL

\* For every file, header and upstream: what is announced is what was asked for, what
\* looks complete was delivered, and a local 416 is deserved.
THEOREM AnswersAreRight == Spec => []RightBytes
<1>1. IInv => RightBytes
  BY DEF IInv, TypeOK, AnsweredRight, SentAsAnnounced, RightBytes, Announced, Delivered, Length
<1> QED
  BY Invariance, <1>1, PTL

\* Whatever becomes of the file, no 206 is read past its range.
THEOREM RangesAreKept == Spec => []NothingPastTheRange
<1>1. IInv => NothingPastTheRange
  BY DEF IInv
<1> QED
  BY Invariance, <1>1, PTL

----------------------------------------------------------------------------
(* What is counted.                                                        *)

\* Every step leaves the counted streams alone, counts one in or counts one out.
LEMMA LiveChanges ==
  ASSUME IInv, [Next]_vars
  PROVE  \/ Live' = Live /\ count' = count
         \/ \E r \in Streams \ Live : Live' = Live \cup {r} /\ count' = count + 1
         \/ \E r \in Live : Live' = Live \ {r} /\ count' = count - 1
<1> USE DEF Live, Goto
<1>1. ASSUME NEW r \in Streams, Start(r)
      PROVE  r \notin Live /\ Live' = Live \cup {r} /\ count' = count + 1
  BY <1>1 DEF IInv, TypeOK, Start, Counted
<1>2. ASSUME NEW r \in Streams, Release(r)
      PROVE  r \in Live /\ Live' = Live \ {r} /\ count' = count - 1
  <2>1. Outcome(r) \in Final
    BY <1>2 DEF IInv, TypeOK, InOrder, Release, Outcome, Final
  <2> QED
    BY <1>2, <2>1 DEF IInv, TypeOK, Release, Uncount, Counted, Final
<1>3. ASSUME NEW r \in Streams,
             ReceiveLocal(r) \/ ReceiveRemote(r) \/ Connect(r) \/ NoConnection(r)
             \/ FullAsset(r) \/ PartialAsset(r) \/ UpstreamRejects(r) \/ UpstreamFails(r)
             \/ RejectRemote(r)
      PROVE  Live' = Live /\ count' = count
  BY <1>3 DEF IInv, TypeOK, ReceiveLocal, NotFound, FullResponse, PartialResponse, ReceiveRemote,
    Answered, Connect, NoConnection, Answer, FullAsset, PartialAsset, AssetAnswer,
    UpstreamRejects, UpstreamFails, RejectRemote, Counted
<1>4. ASSUME NEW r \in Streams,
             OpenFile(r) \/ ReadChunk(r) \/ EndOfBody(r) \/ UpstreamBreaks(r) \/ SendChunk(r)
             \/ Discard(r) \/ Cancel(r) \/ Finalize(r) \/ Leave(r)
      PROVE  Live' = Live /\ count' = count
  BY <1>4 DEF IInv, TypeOK, OpenFile, Ends, ReadChunk, EndOfBody, UpstreamBreaks, SendChunk,
    Discard, Cancel, Finalize, Leave, Counted
<1>5. CASE ChangeFile \/ UNCHANGED vars
  BY <1>5 DEF ChangeFile, vars
<1>6. CASE \E r \in Streams : Start(r)
  BY <1>1, <1>6
<1>7. CASE \E r \in Streams : Release(r)
  BY <1>2, <1>7
<1> HIDE DEF Live, Goto
<1> QED
  BY <1>3, <1>4, <1>5, <1>6, <1>7 DEF Next, Step

\* StreamCounter is right about every number of streams.
THEOREM CounterIsRight == Spec => []CountIsLive
<1>1. Init => CountIsLive
  <2> SUFFICES ASSUME Init
               PROVE  CountIsLive
    OBVIOUS
  <2>1. Live = {}
    BY DEF Init, Live, Counted
  <2> QED
    BY <2>1, FS_EmptySet DEF Init, CountIsLive
<1>2. IInv /\ CountIsLive /\ [Next]_vars => CountIsLive'
  <2> SUFFICES ASSUME IInv, CountIsLive, [Next]_vars
               PROVE  count' = Cardinality(Live')
    BY DEF CountIsLive
  <2>1. IsFiniteSet(Live)
    BY StreamsAssumption, FS_Subset DEF Live
  <2>2. count = Cardinality(Live)
    BY DEF CountIsLive
  <2>3. CASE Live' = Live /\ count' = count
    BY <2>2, <2>3
  <2>4. CASE \E r \in Streams \ Live : Live' = Live \cup {r} /\ count' = count + 1
    <3>1. PICK r \in Streams \ Live : Live' = Live \cup {r} /\ count' = count + 1
      BY <2>4
    <3>2. Cardinality(Live \cup {r}) = Cardinality(Live) + 1
      BY <2>1, FS_AddElement
    <3> QED
      BY <2>2, <3>1, <3>2
  <2>5. CASE \E r \in Live : Live' = Live \ {r} /\ count' = count - 1
    <3>1. PICK r \in Live : Live' = Live \ {r} /\ count' = count - 1
      BY <2>5
    <3>2. Cardinality(Live \ {r}) = Cardinality(Live) - 1
      BY <2>1, FS_RemoveElement
    <3> QED
      BY <2>2, <3>1, <3>2
  <2> QED
    BY <2>3, <2>4, <2>5, LiveChanges
<1> QED
  BY Invariance, <1>1, <1>2, PTL DEF Spec

\* Only Connect adds to the open upstream responses.
LEMMA OpenChanges ==
  ASSUME IInv, [Next]_vars
  PROVE  \/ Open' \subseteq Open
         \/ \E r \in Streams \ Open :
              Open' = Open \cup {r} /\ Cardinality(Open) < Connections
<1>1. ASSUME NEW r \in Streams, Connect(r)
      PROVE  /\ r \notin Open /\ Open' = Open \cup {r}
             /\ Cardinality(Open) < Connections
  BY <1>1 DEF IInv, TypeOK, UpstreamHeld, Open, Connect, Counted
<1>2. ASSUME NEW r \in Streams,
             UpstreamFails(r) \/ RejectRemote(r) \/ Release(r)
      PROVE  Open' \subseteq Open
  BY <1>2 DEF IInv, TypeOK, Open, UpstreamFails, RejectRemote, CloseRejected, Release, Closed
<1>3. ASSUME NEW r \in Streams,
             ReceiveLocal(r) \/ ReceiveRemote(r) \/ NoConnection(r)
             \/ FullAsset(r) \/ PartialAsset(r) \/ UpstreamRejects(r)
             \/ Start(r) \/ OpenFile(r) \/ ReadChunk(r) \/ EndOfBody(r) \/ UpstreamBreaks(r)
             \/ SendChunk(r) \/ Discard(r) \/ Cancel(r) \/ Finalize(r) \/ Leave(r)
      PROVE  Open' \subseteq Open
  <2>1. UNCHANGED upstream
    BY <1>3 DEF ReceiveLocal, NotFound, FullResponse, PartialResponse, ReceiveRemote, Answered,
      NoConnection, FullAsset, PartialAsset, AssetAnswer, UpstreamRejects, Start, OpenFile,
      ReadChunk, EndOfBody, UpstreamBreaks, SendChunk, Discard, Cancel, Finalize, Leave
  <2> QED
    BY <2>1 DEF Open
<1>4. CASE ChangeFile \/ UNCHANGED vars
  BY <1>4 DEF ChangeFile, vars, Open
<1>5. CASE \E r \in Streams : Connect(r)
  BY <1>1, <1>5 DEF Open
<1> QED
  BY <1>2, <1>3, <1>4, <1>5 DEF Next, Step

\* No upstream response outlives its request, and the client never has more of them
\* open than it has connections.
THEOREM UpstreamsComeBack == Spec => []UpstreamReleased
<1> DEFINE Few == Cardinality(Open) <= Connections
<1>1. Init => Few
  <2> SUFFICES ASSUME Init
               PROVE  Few
    OBVIOUS
  <2>1. Open = {}
    BY DEF Init, Open
  <2> QED
    BY <2>1, FS_EmptySet, BoundsAssumption
<1>2. IInv /\ Few /\ [Next]_vars => Few'
  <2> SUFFICES ASSUME IInv, Few, [Next]_vars
               PROVE  Cardinality(Open') <= Connections
    OBVIOUS
  <2>1. IsFiniteSet(Open)
    BY StreamsAssumption, FS_Subset DEF Open
  <2>2. Cardinality(Open) \in Nat
    BY <2>1, FS_CardinalityType
  <2>3. CASE Open' \subseteq Open
    <3>1. IsFiniteSet(Open') /\ Cardinality(Open') <= Cardinality(Open)
      BY <2>1, <2>3, FS_Subset
    <3>2. Cardinality(Open') \in Nat
      BY <3>1, FS_CardinalityType
    <3> QED
      BY <2>2, <3>1, <3>2, BoundsAssumption
  <2>4. CASE \E r \in Streams \ Open :
               Open' = Open \cup {r} /\ Cardinality(Open) < Connections
    <3>1. PICK r \in Streams \ Open :
            Open' = Open \cup {r} /\ Cardinality(Open) < Connections
      BY <2>4
    <3>2. Cardinality(Open \cup {r}) = Cardinality(Open) + 1
      BY <2>1, FS_AddElement
    <3> QED
      BY <2>2, <3>1, <3>2, BoundsAssumption
  <2> QED
    BY <2>3, <2>4, OpenChanges
<1>3. IInv /\ Few => UpstreamReleased
  BY DEF IInv, UpstreamHeld, UpstreamReleased, Open, Serving
<1> QED
  BY Invariance, <1>1, <1>2, <1>3, PTL DEF Spec

=============================================================================
