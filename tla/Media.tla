------------------------------- MODULE Media -------------------------------
(***************************************************************************)
(* Streamed media: services/media_service.py and utils/stream_counter.py,  *)
(* with api/routes/mock_sources.py as the upstream that is proxied.        *)
(*                                                                         *)
(* A response is announced (status, Content-Length, Content-Range) before  *)
(* its generator has run at all; the generator then reads chunk by chunk   *)
(* while the file may change, the upstream break and the client leave. A   *)
(* byte is its position. A generator dropped while it is suspended at its  *)
(* yield leaves its finally blocks to the event loop's finalizer.          *)
(***************************************************************************)
EXTENDS Integers, FiniteSets

CONSTANTS
  Streams,            \* requests
  Calls,              \* request -> what it may ask for
  HasAllowedHosts,    \* is remote_media_allowed_hosts not empty?
  BlockPrivateHosts,  \* remote_media_block_private_hosts
  ChunkSize,          \* media_chunk_size, remote_media_chunk_size
  Sizes,              \* lengths the local file may have
  AssetSize,          \* length of the upstream's asset: MOCK_MEDIA_CONTENT
  Connections,        \* of the http_client: 100
  MaxChanges,         \* bound: how often the file is changed
  Faults              \* may the upstream misbehave?

Forms == {"absent", "malformed", "suffix", "open", "closed", "bare"}
Ranges == [form : Forms, first : Nat, last : Int]
Urls == {"malformed", "allowed", "public", "private"}
Requests == [kind : {"progressive", "seekable", "remote"}, range : Ranges, url : Urls]

ASSUME CallsAssumption == \A r \in Streams : Calls[r] \subseteq Requests
ASSUME StreamsAssumption == IsFiniteSet(Streams)
ASSUME SizesAssumption == Sizes \subseteq Nat /\ Sizes # {} /\ AssetSize \in Nat
ASSUME BoundsAssumption ==
  ChunkSize \in Nat \ {0} /\ Connections \in Nat \ {0} /\ MaxChanges \in Nat
ASSUME SwitchAssumption == {HasAllowedHosts, BlockPrivateHosts, Faults} \subseteq BOOLEAN

VARIABLES
  size,      \* of the local file
  listed,    \* is it there to be opened?
  changes,   \* how often it was changed
  count,     \* StreamCounter._count
  pc,        \* where each request is
  call,      \* what it asks for
  answer,    \* its status code, 0 before
  total,     \* the size it saw
  interval,  \* the bytes it announced
  got,       \* bytes its generator has read
  sent,      \* bytes its client was sent
  upstream,  \* its upstream response: "none", "open" or "closed"
  gone,      \* has its client disconnected?
  touched,   \* was the file changed under it?
  ending     \* how its generator ends, once it does

vars ==
  <<size, listed, changes, count, pc, call, answer, total, interval, got, sent, upstream,
    gone, touched, ending>>
file == <<size, listed, changes>>
response == <<call, answer, total, interval>>
body == <<got, sent, ending>>

Counted == {"opening", "reading", "sending", "abandoned", "closing"}
Serving == {"connecting", "requesting", "rejecting", "announced"} \cup Counted
Final == {"refused", "complete", "failed", "left"}

Goto(r, label) == pc' = [pc EXCEPT ![r] = label]
Larger(m, n) == IF m < n THEN n ELSE m
Smaller(m, n) == IF m < n THEN m ELSE n

----------------------------------------------------------------------------
(* Range headers: -last, first-, first-last, or a lone first.              *)

Bytes(first, last) == [first |-> first, last |-> last]
Whole(n) == Bytes(0, n - 1)

\* Mutant: the last byte is forgotten.
ExclusiveLength(i) == i.last - i.first

\* ByteRange.length
Length(i) == i.last - i.first + 1

\* Mutant: a range that ends after the file is taken as it stands.
Unclamped(last, n) == last

LastByte(last, n) == Smaller(last, n - 1)

\* The branches of _parse_range.
Selected(range, n) ==
  Bytes(IF range.form = "suffix" THEN Larger(0, n - range.last) ELSE range.first,
        IF range.form = "closed" THEN LastByte(range.last, n) ELSE n - 1)

Readable(range) ==
  range.form \in {"open", "closed"} \/ (range.form = "suffix" /\ range.last > 0)

InBounds(i, n) == 0 <= i.first /\ i.first < n /\ i.first <= i.last

Satisfiable(range, n) == Readable(range) /\ InBounds(Selected(range, n), n)

\* The upstream's parser has no suffixes, takes a lone number for an open range,
\* and clamps only after it has checked.
AssetSelected(range) ==
  Bytes(range.first, IF range.form = "closed" THEN range.last ELSE AssetSize - 1)

AssetSatisfiable(range) ==
  range.form \in {"open", "closed", "bare"} /\ InBounds(AssetSelected(range), AssetSize)

Clamped(i) == Bytes(i.first, Smaller(i.last, AssetSize - 1))

----------------------------------------------------------------------------
(* Local files.                                                            *)

\* The media endpoints' call, with the answer that is made for it.
Answered(r, c, code, n, i, label) ==
  /\ pc[r] = "idle"
  /\ call' = [call EXCEPT ![r] = c]
  /\ answer' = [answer EXCEPT ![r] = code]
  /\ total' = [total EXCEPT ![r] = n]
  /\ interval' = [interval EXCEPT ![r] = i]
  /\ Goto(r, label)
  /\ UNCHANGED <<file, count, body, upstream, gone, touched>>

IsWhole(c) == c.kind = "progressive" \/ c.range.form = "absent"

\* is_file finds nothing there; or it still did, and stat raises (500).
NotFound(r, c) ==
  /\ ~listed
  /\ \E code \in {404, 500} : Answered(r, c, code, 0, Whole(0), "refused")

FullResponse(r, c) ==
  /\ listed
  /\ IsWhole(c)
  /\ Answered(r, c, 200, size, Whole(size), "announced")

PartialResponse(r, c) ==
  /\ listed
  /\ ~IsWhole(c)
  /\ IF Satisfiable(c.range, size)
     THEN Answered(r, c, 206, size, Selected(c.range, size), "announced")
     ELSE Answered(r, c, 416, size, Whole(0), "refused")

ReceiveLocal(r) ==
  \E c \in Calls[r] :
    /\ c.kind # "remote"
    /\ NotFound(r, c) \/ FullResponse(r, c) \/ PartialResponse(r, c)

\* The samples directory is not the program's: a file is rewritten in place under
\* its readers, or removed.
ChangeFile ==
  /\ changes < MaxChanges
  /\ changes' = changes + 1
  /\ \/ size' \in Sizes \ {size} /\ UNCHANGED listed
     \/ listed /\ listed' = FALSE /\ UNCHANGED size
  /\ touched' = [r \in Streams |-> touched[r] \/ pc[r] \in Serving]
  /\ UNCHANGED <<count, pc, response, body, upstream, gone>>

----------------------------------------------------------------------------
(* Remote media.                                                           *)

\* _validate_remote_url: an allow list decides alone.
UrlAccepted(url) ==
  \/ url = "allowed" /\ HasAllowedHosts
  \/ ~HasAllowedHosts /\ (url = "public" \/ (url = "private" /\ ~BlockPrivateHosts))

ReceiveRemote(r) ==
  \E c \in Calls[r] :
    /\ c.kind = "remote"
    /\ IF UrlAccepted(c.url)
       THEN Answered(r, c, 0, 0, Whole(0), "connecting")
       ELSE Answered(r, c, 400, 0, Whole(0), "refused")

Open == {r \in Streams : upstream[r] = "open"}

Answer(r, code, label) ==
  /\ answer' = [answer EXCEPT ![r] = code]
  /\ Goto(r, label)

\* Every request shares the client's connections.
Connect(r) ==
  /\ pc[r] = "connecting"
  /\ Cardinality(Open) < Connections
  /\ upstream' = [upstream EXCEPT ![r] = "open"]
  /\ Goto(r, "requesting")
  /\ UNCHANGED <<file, count, response, body, gone, touched>>

\* httpx.PoolTimeout
NoConnection(r) ==
  /\ pc[r] = "connecting"
  /\ Cardinality(Open) = Connections
  /\ Answer(r, 502, "refused")
  /\ UNCHANGED <<file, count, call, total, interval, body, upstream, gone, touched>>

AssetAnswer(r, code, i) ==
  /\ pc[r] = "requesting"
  /\ Answer(r, code, "announced")
  /\ total' = [total EXCEPT ![r] = AssetSize]
  /\ interval' = [interval EXCEPT ![r] = i]
  /\ UNCHANGED <<file, count, call, body, upstream, gone, touched>>

\* The mock upstream answers; the media headers are copied.
FullAsset(r) ==
  /\ call[r].range.form = "absent"
  /\ AssetAnswer(r, 200, Whole(AssetSize))

PartialAsset(r) ==
  /\ AssetSatisfiable(call[r].range)
  /\ AssetAnswer(r, 206, Clamped(AssetSelected(call[r].range)))

\* Any other status: the upstream response is closed before the error is raised.
UpstreamRejects(r) ==
  /\ pc[r] = "requesting"
  /\ \/ /\ call[r].range.form # "absent" /\ ~AssetSatisfiable(call[r].range)
        /\ Answer(r, 416, "rejecting")
     \/ Faults /\ \E code \in {404, 502} : Answer(r, code, "rejecting")
  /\ UNCHANGED <<file, count, call, total, interval, body, upstream, gone, touched>>

Closed(r) ==
  upstream' = [upstream EXCEPT ![r] = IF @ = "open" THEN "closed" ELSE @]

\* Mutant: the error is raised with the response left open.
LeaveOpen(r) == UNCHANGED upstream

CloseRejected(r) == Closed(r)

RejectRemote(r) ==
  /\ pc[r] = "rejecting"
  /\ CloseRejected(r)
  /\ Goto(r, "refused")
  /\ UNCHANGED <<file, count, response, body, gone, touched>>

\* An httpx.HTTPError instead of an answer; httpx closes what it had opened.
UpstreamFails(r) ==
  /\ Faults
  /\ pc[r] = "requesting"
  /\ Closed(r)
  /\ Answer(r, 502, "refused")
  /\ UNCHANGED <<file, count, call, total, interval, body, gone, touched>>

----------------------------------------------------------------------------
(* The generators.                                                         *)

IsRemote(r) == call[r].kind = "remote"

\* track(): the stream counts from its generator's first step.
Start(r) ==
  /\ pc[r] = "announced"
  /\ count' = count + 1
  /\ Goto(r, IF IsRemote(r) THEN "reading" ELSE "opening")
  /\ UNCHANGED <<file, response, body, upstream, gone, touched>>

Ends(r, how) ==
  /\ Goto(r, "closing")
  /\ ending' = [ending EXCEPT ![r] = how]

OpenFile(r) ==
  /\ pc[r] = "opening"
  /\ IF listed
     THEN Goto(r, "reading") /\ UNCHANGED ending
     ELSE Ends(r, "failed")
  /\ UNCHANGED <<file, count, response, got, sent, upstream, gone, touched>>

\* Mutant: a full chunk is read whatever remains.
AskedUnbounded(r) == ChunkSize

\* min(self._chunk_size, remaining) where the range is what is streamed.
Asked(r) ==
  IF answer[r] = 206 THEN Smaller(ChunkSize, Length(interval[r]) - got[r]) ELSE ChunkSize

Left(r) ==
  IF IsRemote(r)
  THEN Length(interval[r]) - got[r]
  ELSE size - (interval[r].first + got[r])

Available(r) == Smaller(Asked(r), Left(r))

ReadChunk(r) ==
  /\ pc[r] = "reading"
  /\ Available(r) > 0
  /\ got' = [got EXCEPT ![r] = @ + Available(r)]
  /\ Goto(r, "sending")
  /\ UNCHANGED <<file, count, response, sent, ending, upstream, gone, touched>>

\* Mutant: the loop ends only when nothing remains, not at an empty chunk.
NothingRemains(r) == got[r] = Length(interval[r])

AtEnd(r) == Available(r) <= 0

EndOfBody(r) ==
  /\ pc[r] = "reading"
  /\ AtEnd(r)
  /\ Ends(r, "ended")
  /\ UNCHANGED <<file, count, response, got, sent, upstream, gone, touched>>

\* A read error or timeout.
UpstreamBreaks(r) ==
  /\ Faults
  /\ pc[r] = "reading"
  /\ IsRemote(r)
  /\ Ends(r, "failed")
  /\ UNCHANGED <<file, count, response, got, sent, upstream, gone, touched>>

\* The server takes no more than the announced length: it raises in the sender,
\* with the generator suspended at its yield.
SendChunk(r) ==
  /\ pc[r] = "sending"
  /\ ~gone[r]
  /\ IF got[r] <= Length(interval[r])
     THEN sent' = [sent EXCEPT ![r] = got[r]] /\ Goto(r, "reading") /\ UNCHANGED ending
     ELSE /\ ending' = [ending EXCEPT ![r] = "failed"]
          /\ Goto(r, "abandoned")
          /\ UNCHANGED sent
  /\ UNCHANGED <<file, count, response, got, upstream, gone, touched>>

Leave(r) ==
  /\ pc[r] \in Serving
  /\ ~gone[r]
  /\ gone' = [gone EXCEPT ![r] = TRUE]
  /\ UNCHANGED <<file, count, pc, response, body, upstream, touched>>

\* Until the disconnect is noticed, sending to nobody succeeds.
Discard(r) ==
  /\ pc[r] = "sending"
  /\ gone[r]
  /\ Goto(r, "reading")
  /\ UNCHANGED <<file, count, response, body, upstream, gone, touched>>

\* Then the response is cancelled: inside the generator's own await, or while the
\* generator is suspended and only dropped.
Cancel(r) ==
  /\ gone[r]
  /\ pc[r] \in {"opening", "reading", "sending"}
  /\ ending' = [ending EXCEPT ![r] = "left"]
  /\ Goto(r, IF pc[r] = "sending" THEN "abandoned" ELSE "closing")
  /\ UNCHANGED <<file, count, response, got, sent, upstream, gone, touched>>

Finalize(r) ==
  /\ pc[r] = "abandoned"
  /\ Goto(r, "closing")
  /\ UNCHANGED <<file, count, response, body, upstream, gone, touched>>

\* How a response that came to its end looks to its client: the server refuses to
\* complete one that is too short.
Outcome(r) ==
  IF ending[r] # "ended" THEN ending[r]
  ELSE IF gone[r] THEN "left"
  ELSE IF sent[r] < Length(interval[r]) THEN "failed"
  ELSE "complete"

\* Mutant: only a stream that comes to its end is uncounted.
UncountEnded(r) == IF ending[r] = "ended" THEN count - 1 ELSE count

Uncount(r) == count - 1

\* The finally blocks: aclose() of the upstream, then track()'s.
Release(r) ==
  /\ pc[r] = "closing"
  /\ Closed(r)
  /\ count' = Uncount(r)
  /\ Goto(r, Outcome(r))
  /\ UNCHANGED <<file, response, body, gone, touched>>

----------------------------------------------------------------------------
NoCall ==
  [kind |-> "progressive", range |-> [form |-> "absent", first |-> 0, last |-> 0],
   url |-> "malformed"]

Init ==
  /\ size \in Sizes
  /\ listed = TRUE
  /\ changes = 0
  /\ count = 0
  /\ pc = [r \in Streams |-> "idle"]
  /\ call = [r \in Streams |-> NoCall]
  /\ answer = [r \in Streams |-> 0]
  /\ total = [r \in Streams |-> 0]
  /\ interval = [r \in Streams |-> Whole(0)]
  /\ got = [r \in Streams |-> 0]
  /\ sent = [r \in Streams |-> 0]
  /\ upstream = [r \in Streams |-> "none"]
  /\ gone = [r \in Streams |-> FALSE]
  /\ touched = [r \in Streams |-> FALSE]
  /\ ending = [r \in Streams |-> "none"]

Step(r) ==
  \/ Connect(r) \/ NoConnection(r)
  \/ FullAsset(r) \/ PartialAsset(r) \/ UpstreamRejects(r) \/ UpstreamFails(r)
  \/ RejectRemote(r)
  \/ Start(r) \/ OpenFile(r) \/ ReadChunk(r) \/ EndOfBody(r) \/ UpstreamBreaks(r)
  \/ Discard(r) \/ Cancel(r) \/ Finalize(r) \/ Release(r)

Next ==
  \/ \E r \in Streams :
       ReceiveLocal(r) \/ ReceiveRemote(r) \/ Step(r) \/ SendChunk(r) \/ Leave(r)
  \/ ChangeFile

Spec == Init /\ [][Next]_vars

\* Reads end or time out, a disconnect is noticed, dropped generators are finalized.
\* Whether a client takes what it is sent is its own affair.
Fairness == \A r \in Streams : WF_vars(Step(r))

FairSpec == Spec /\ Fairness

----------------------------------------------------------------------------
(* Properties.                                                             *)

TypeOK ==
  /\ size \in Sizes
  /\ listed \in BOOLEAN
  /\ changes \in 0 .. MaxChanges
  /\ count \in Int
  /\ pc \in [Streams -> {"idle"} \cup Serving \cup Final]
  /\ call \in [Streams -> Requests]
  /\ answer \in [Streams -> {0, 200, 206, 400, 404, 416, 500, 502}]
  /\ total \in [Streams -> Nat]
  /\ interval \in [Streams -> [first : Nat, last : Int]]
  /\ \A r \in Streams : Length(interval[r]) \in Nat
  /\ got \in [Streams -> Nat]
  /\ sent \in [Streams -> Nat]
  /\ upstream \in [Streams -> {"none", "open", "closed"}]
  /\ gone \in [Streams -> BOOLEAN]
  /\ touched \in [Streams -> BOOLEAN]
  /\ ending \in [Streams -> {"none", "ended", "failed", "left"}]

Covers(range, p, n) ==
  \/ range.form = "absent"
  \/ range.form = "suffix" /\ p >= n - range.last
  \/ range.form = "open" /\ p >= range.first
  \/ range.form = "closed" /\ range.first <= p /\ p <= range.last

\* Reference: the bytes a Range header selects of a file of n bytes.
Wanted(range, n) == {p \in 0 .. n - 1 : Covers(range, p, n)}

DueOf(c, n) == IF c.kind = "progressive" THEN 0 .. n - 1 ELSE Wanted(c.range, n)
Due(r) == DueOf(call[r], total[r])
Live == {r \in Streams : pc[r] \in Counted}
Announced(r) == interval[r].first .. interval[r].last
Delivered(r) == interval[r].first .. interval[r].first + sent[r] - 1

\* test_seekable_*: what is announced is exactly what the header selects of the file
\* as it was then (a lone number is the upstream's own reading), a response that
\* looks complete to its client was delivered to the last byte, and a 416 from a
\* local file answers a header that selects none of its bytes.
RightBytes ==
  \A r \in Streams :
    /\ answer[r] \in {200, 206} /\ call[r].range.form # "bare" => Announced(r) = Due(r)
    /\ pc[r] = "complete" => Delivered(r) = Announced(r)
    /\ answer[r] = 416 /\ ~IsRemote(r) => Due(r) = {}

\* The docstring of _stream_byte_range: whatever becomes of the file, no byte after
\* the requested slice is read, so that the server never has to cut a 206 short.
NothingPastTheRange ==
  \A r \in Streams : answer[r] = 206 => got[r] <= Length(interval[r])

\* StreamCounter: the count is the number of generators between their first step
\* and their last, those nobody iterates any more included.
CountIsLive == count = Cardinality(Live)

\* remote_response: no request leaves an upstream response open behind it, so that
\* the client's connections all come back.
UpstreamReleased ==
  /\ \A r \in Open : pc[r] \in Serving
  /\ Cardinality(Open) <= Connections

\* However a stream goes, it ends, unless its client neither reads nor leaves.
StreamsEnd ==
  \A r \in Streams :
    []<>(pc[r] # "sending") => (pc[r] \in Serving ~> pc[r] \in Final)

----------------------------------------------------------------------------
(* The inductive invariant behind them.                                    *)

\* What is answered is right from the moment it is answered.
AnsweredRight ==
  \A r \in Streams :
    /\ answer[r] \in {200, 206} /\ call[r].range.form # "bare" => Announced(r) = Due(r)
    /\ answer[r] = 416 /\ ~IsRemote(r) => Due(r) = {}

\* What a label says has or has not happened: nothing is read before the answer, only
\* remote calls have an upstream, and whatever closes a generator says why.
InOrder ==
  \A r \in Streams :
    /\ pc[r] \in {"idle", "connecting", "requesting", "rejecting", "announced", "opening"}
         => got[r] = 0 /\ sent[r] = 0
    /\ pc[r] \in {"connecting", "requesting", "rejecting"} => IsRemote(r)
    /\ pc[r] \in {"abandoned", "closing"} => ending[r] # "none"

\* A client is sent no more than was announced, and all of it if that looks complete.
SentAsAnnounced ==
  \A r \in Streams :
    /\ sent[r] <= Length(interval[r])
    /\ pc[r] = "complete" => sent[r] = Length(interval[r])

UpstreamHeld ==
  \A r \in Streams :
    upstream[r] = "open" => pc[r] \in {"requesting", "rejecting", "announced"} \cup Counted

IInv ==
  /\ TypeOK
  /\ AnsweredRight
  /\ InOrder
  /\ SentAsAnnounced
  /\ NothingPastTheRange
  /\ UpstreamHeld
============================================================================
