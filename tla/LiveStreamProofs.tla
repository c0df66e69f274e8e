--------------------------- MODULE LiveStreamProofs ---------------------------
(***************************************************************************)
(* Proofs about a stream and the channel it broadcasts on.                 *)
(*                                                                         *)
(* AggregateStream, for any finite set of sources: a result is in one      *)
(* place at a time: its task, the queue, the generator's hand, the client. *)
(* That none is lost and that a completion is complete follow by counting. *)
(* WebSockets, for any clients, broadcasts and queue size: a broadcast     *)
(* that waits has served all but the rest of its list. Their composition   *)
(* LiveStream: where a source's task stands, its broadcast stands.         *)
(***************************************************************************)
EXTENDS LiveStream, FiniteSetTheorems, SequenceTheorems, WellFoundedInduction, TLAPS

----------------------------------------------------------------------------
(* Sequences without duplicates.                                           *)

LEMMA Appending ==
  ASSUME NEW T, NEW s \in Seq(T), NEW e \in T
  PROVE  /\ Append(s, e) \in Seq(T)
         /\ ToSet(Append(s, e)) = ToSet(s) \cup {e}
         /\ IsInjective(s) /\ e \notin ToSet(s) => IsInjective(Append(s, e))
         /\ Append(s, e) # <<>>
         /\ s # <<>> => Append(s, e)[1] = s[1]
         /\ s = <<>> => Append(s, e)[1] = e
         /\ Last(Append(s, e)) = e
         /\ Len(Append(s, e)) = Len(s) + 1
BY DEF ToSet, IsInjective, Last

LEMMA Taking ==
  ASSUME NEW T, NEW s \in Seq(T), s # <<>>
  PROVE  /\ Head(s) \in T /\ Tail(s) \in Seq(T)
         /\ ToSet(s) = {Head(s)} \cup ToSet(Tail(s))
         /\ IsInjective(s) => IsInjective(Tail(s)) /\ Head(s) \notin ToSet(Tail(s))
<1>1. Len(s) \in Nat /\ Len(s) > 0 /\ DOMAIN s = 1 .. Len(s) /\ Head(s) = s[1]
  BY EmptySeq
<1>2. /\ Tail(s) \in Seq(T) /\ DOMAIN Tail(s) = 1 .. Len(s) - 1
      /\ \A i \in 1 .. Len(s) - 1 : Tail(s)[i] = s[i + 1]
  BY <1>1
<1>3. ToSet(s) = {Head(s)} \cup ToSet(Tail(s))
  <2>1. \A i \in 1 .. Len(s) :
          i = 1 \/ (i - 1 \in 1 .. Len(s) - 1 /\ Tail(s)[i - 1] = s[i])
    BY <1>1, <1>2
  <2>2. ToSet(s) \subseteq {Head(s)} \cup ToSet(Tail(s))
    <3>1. \A i \in 1 .. Len(s) : s[i] = Head(s) \/ s[i] \in ToSet(Tail(s))
      BY <1>1, <1>2, <2>1 DEF ToSet
    <3>2. \A x \in ToSet(s) : \E i \in 1 .. Len(s) : x = s[i]
      BY <1>1 DEF ToSet
    <3> QED
      BY <3>1, <3>2
  <2>3. ToSet(Tail(s)) \subseteq ToSet(s)
    <3>1. \A i \in 1 .. Len(s) - 1 : i + 1 \in 1 .. Len(s)
      BY <1>1
    <3> QED
      BY <1>1, <1>2, <3>1 DEF ToSet
  <2> QED
    BY <1>1, <2>2, <2>3 DEF ToSet
<1>4. IsInjective(s) => IsInjective(Tail(s)) /\ Head(s) \notin ToSet(Tail(s))
  BY <1>1, <1>2 DEF IsInjective, ToSet
<1> QED
  BY <1>1, <1>2, <1>3, <1>4

LEMMA Concatenating ==
  ASSUME NEW T, NEW s \in Seq(T), NEW t \in Seq(T)
  PROVE  /\ s \o t \in Seq(T)
         /\ ToSet(s \o t) = ToSet(s) \cup ToSet(t)
         /\ IsInjective(s) /\ IsInjective(t) /\ ToSet(s) \cap ToSet(t) = {} =>
              IsInjective(s \o t)
<1>1. /\ s \o t \in Seq(T) /\ Len(s) \in Nat /\ Len(t) \in Nat
      /\ DOMAIN s = 1 .. Len(s) /\ DOMAIN t = 1 .. Len(t)
      /\ DOMAIN (s \o t) = 1 .. Len(s) + Len(t)
      /\ \A i \in 1 .. Len(s) : (s \o t)[i] = s[i]
      /\ \A i \in 1 .. Len(t) : (s \o t)[Len(s) + i] = t[i]
  OBVIOUS
<1>2. \A i \in DOMAIN (s \o t) :
        \/ i \in 1 .. Len(s) /\ (s \o t)[i] = s[i]
        \/ i - Len(s) \in 1 .. Len(t) /\ (s \o t)[i] = t[i - Len(s)]
  BY <1>1
<1>3. ToSet(s \o t) = ToSet(s) \cup ToSet(t)
  <2>1. ToSet(s \o t) \subseteq ToSet(s) \cup ToSet(t)
    BY <1>1, <1>2 DEF ToSet
  <2>2. ToSet(s) \subseteq ToSet(s \o t)
    BY <1>1 DEF ToSet
  <2>3. ToSet(t) \subseteq ToSet(s \o t)
    <3>1. \A i \in 1 .. Len(t) : Len(s) + i \in DOMAIN (s \o t)
      BY <1>1
    <3> QED
      BY <1>1, <3>1 DEF ToSet
  <2> QED
    BY <2>1, <2>2, <2>3
<1>4. ASSUME IsInjective(s), IsInjective(t), ToSet(s) \cap ToSet(t) = {}
      PROVE  IsInjective(s \o t)
  <2> SUFFICES ASSUME NEW i \in DOMAIN (s \o t), NEW j \in DOMAIN (s \o t),
                      (s \o t)[i] = (s \o t)[j]
               PROVE  i = j
    BY DEF IsInjective
  <2>1. \A a \in 1 .. Len(s), b \in 1 .. Len(t) : s[a] # t[b]
    BY <1>1, <1>4 DEF ToSet
  <2>2. CASE i \in 1 .. Len(s) /\ j \in 1 .. Len(s)
    BY <1>1, <1>4, <2>2 DEF IsInjective
  <2>3. CASE i \notin 1 .. Len(s) /\ j \notin 1 .. Len(s)
    <3>1. i - Len(s) \in 1 .. Len(t) /\ j - Len(s) \in 1 .. Len(t)
          /\ t[i - Len(s)] = t[j - Len(s)]
      BY <1>2, <2>3
    <3>2. i - Len(s) = j - Len(s)
      BY <1>1, <1>4, <3>1 DEF IsInjective
    <3> QED
      BY <1>1, <3>2
  <2>4. CASE i \in 1 .. Len(s) /\ j \notin 1 .. Len(s)
    BY <1>2, <1>1, <2>1, <2>4
  <2>5. CASE i \notin 1 .. Len(s) /\ j \in 1 .. Len(s)
    BY <1>2, <1>1, <2>1, <2>5
  <2> QED
    BY <2>2, <2>3, <2>4, <2>5
<1> QED
  BY <1>1, <1>3, <1>4

\* A slice of a sequence lists what the sequence has at those positions.
LEMMA Slicing ==
  ASSUME NEW T, NEW s \in Seq(T), NEW m \in 1 .. Len(s) + 1, NEW n \in 0 .. Len(s)
  PROVE  /\ SubSeq(s, m, n) \in Seq(T)
         /\ ToSet(SubSeq(s, m, n)) = {s[k] : k \in m .. n}
         /\ IsInjective(s) => IsInjective(SubSeq(s, m, n))
<1> DEFINE t == SubSeq(s, m, n)
<1>1. /\ Len(s) \in Nat /\ DOMAIN s = 1 .. Len(s)
      /\ \A i \in m .. n : i \in DOMAIN s /\ s[i] \in T
  OBVIOUS
<1>2. /\ t \in Seq(T)
      /\ Len(t) = IF m <= n THEN n - m + 1 ELSE 0
      /\ \A i \in 1 .. n - m + 1 : t[i] = s[m + i - 1]
  BY <1>1, SubSeqProperties
<1>3. DOMAIN t = 1 .. n - m + 1
  BY <1>2
<1> HIDE DEF t
<1>4. ToSet(t) = {s[k] : k \in m .. n}
  <2>1. \A i \in 1 .. n - m + 1 : m + i - 1 \in m .. n
    OBVIOUS
  <2>2. ASSUME NEW k \in m .. n
        PROVE  k - m + 1 \in 1 .. n - m + 1 /\ t[k - m + 1] = s[k]
    <3>1. k - m + 1 \in 1 .. n - m + 1 /\ m + (k - m + 1) - 1 = k
      BY <1>1
    <3> QED
      BY <1>2, <3>1
  <2>3. ToSet(t) \subseteq {s[k] : k \in m .. n}
    BY <1>2, <1>3, <2>1 DEF ToSet
  <2>4. {s[k] : k \in m .. n} \subseteq ToSet(t)
    BY <1>3, <2>2 DEF ToSet
  <2> QED
    BY <2>3, <2>4
<1>5. IsInjective(s) => IsInjective(t)
  <2>1. \A i, j \in 1 .. n - m + 1 :
          /\ m + i - 1 \in DOMAIN s /\ m + j - 1 \in DOMAIN s
          /\ m + i - 1 = m + j - 1 => i = j
    BY <1>1
  <2> QED
    BY <1>2, <1>3, <2>1 DEF IsInjective
<1> QED
  BY <1>2, <1>4, <1>5 DEF t

\* Taking one element out of a sequence without duplicates.
LEMMA Removing ==
  ASSUME NEW T, NEW s \in Seq(T), IsInjective(s), NEW i \in DOMAIN s
  PROVE  /\ RemoveAt(s, i) \in Seq(T)
         /\ ToSet(RemoveAt(s, i)) = ToSet(s) \ {s[i]}
         /\ IsInjective(RemoveAt(s, i))
<1> DEFINE before == SubSeq(s, 1, i - 1)
           after == SubSeq(s, i + 1, Len(s))
<1>1. /\ Len(s) \in Nat /\ DOMAIN s = 1 .. Len(s) /\ i \in 1 .. Len(s)
      /\ i - 1 \in 0 .. Len(s) /\ i + 1 \in 1 .. Len(s) + 1 /\ Len(s) \in 0 .. Len(s)
      /\ 1 \in 1 .. Len(s) + 1
  OBVIOUS
<1>2. /\ before \in Seq(T) /\ IsInjective(before)
      /\ ToSet(before) = {s[k] : k \in 1 .. i - 1}
  BY <1>1, Slicing
<1>3. /\ after \in Seq(T) /\ IsInjective(after)
      /\ ToSet(after) = {s[k] : k \in i + 1 .. Len(s)}
  BY <1>1, Slicing
<1>4. \A j, k \in 1 .. Len(s) : s[j] = s[k] => j = k
  BY <1>1 DEF IsInjective
<1>5. ToSet(before) \cap ToSet(after) = {}
  <2>1. ASSUME NEW j \in 1 .. i - 1, NEW k \in i + 1 .. Len(s)
        PROVE  s[j] # s[k]
    BY <1>1, <1>4
  <2> QED
    BY <1>2, <1>3, <2>1
<1>6. ToSet(before) \cup ToSet(after) = ToSet(s) \ {s[i]}
  <2>1. \A k \in 1 .. Len(s) : k \in 1 .. i - 1 \/ k \in i + 1 .. Len(s) \/ k = i
    BY <1>1
  <2>2. \A k \in (1 .. i - 1) \cup (i + 1 .. Len(s)) : k \in 1 .. Len(s) /\ k # i
    BY <1>1
  <2>3. ToSet(s) = {s[k] : k \in 1 .. Len(s)}
    BY <1>1 DEF ToSet
  <2> QED
    BY <1>1, <1>2, <1>3, <1>4, <2>1, <2>2, <2>3
<1> HIDE DEF before, after
<1>7. before \in Seq(T) /\ after \in Seq(T) /\ IsInjective(before) /\ IsInjective(after)
  BY <1>2, <1>3
<1>8. /\ before \o after \in Seq(T)
      /\ ToSet(before \o after) = ToSet(before) \cup ToSet(after)
      /\ IsInjective(before \o after)
  BY <1>5, <1>7, Concatenating
<1> QED
  BY <1>6, <1>8 DEF RemoveAt, before, after

\* Positions have a first one.
LEMMA LeastPosition ==
  ASSUME NEW S \in SUBSET Nat, S # {}
  PROVE  \E i \in S : \A j \in S : i <= j
<1>1. PICK i \in S : \A j \in S : ~(<<j, i>> \in OpToRel(<, Nat))
  BY NatLessThanWellFounded, WFMin
<1>2. ASSUME NEW j \in S, j < i
      PROVE  <<j, i>> \in OpToRel(<, Nat)
  BY <1>2 DEF OpToRel
<1>3. \A j \in S : ~(j < i)
  BY <1>1, <1>2
<1> QED
  BY <1>3

\* A sequence without duplicates is as long as the set it lists.
LEMMA Counting ==
  ASSUME NEW T, NEW s \in Seq(T), IsInjective(s), IsFiniteSet(ToSet(s))
  PROVE  Len(s) = Cardinality(ToSet(s))
<1>1. Len(s) \in Nat /\ DOMAIN s = 1 .. Len(s)
  OBVIOUS
<1>2. s \in [1 .. Len(s) -> ToSet(s)]
  BY <1>1 DEF ToSet
<1>3. s \in Injection(1 .. Len(s), ToSet(s)) /\ s \in Surjection(1 .. Len(s), ToSet(s))
  BY <1>1, <1>2 DEF Injection, Surjection, IsInjective, ToSet
<1>4. Cardinality(1 .. Len(s)) = Cardinality(ToSet(s))
  BY <1>3, FS_Injection
<1>5. Cardinality(1 .. Len(s)) = Len(s)
  <2>1. ASSUME NEW n \in Nat PROVE Cardinality(1 .. n) = n
    BY FS_Interval
  <2> QED
    BY <1>1, <2>1
<1> QED
  BY <1>4, <1>5

----------------------------------------------------------------------------
(* The generator and the producer: one lemma per action, one step per part *)
(* of the invariant.                                                       *)

LEMMA OpenKeeps ==
  ASSUME IInv, Open
  PROVE  IInv'
<1> USE DEF Open, production, records, Goto, Yielding, Guarded, Ended, TaskEnded
<1>1. TypeOK'
  BY DEF IInv, TypeOK
<1>2. InOrder'
  BY DEF IInv, TypeOK, InOrder, Beginning
<1>3. ProducerInOrder'
  BY DEF IInv, TypeOK, InOrder, Beginning, ProducerInOrder
<1>4. NoDuplicates'
  BY DEF IInv, TypeOK, InOrder, Beginning, NoDuplicates, InHand
<1>5. Kept'
  BY DEF IInv, TypeOK, InOrder, Beginning, Kept, InHand, Queued
<1>6. Stored'
  BY DEF IInv, TypeOK, InOrder, Beginning, Stored
<1>7. AnnouncedStays'
  BY DEF IInv, InOrder, Beginning, AnnouncedStays
<1> QED
  BY <1>1, <1>2, <1>3, <1>4, <1>5, <1>6, <1>7 DEF IInv

LEMMA CreateKeeps ==
  ASSUME IInv, Create
  PROVE  IInv'
<1> USE DEF Create, production, records, Goto, Yielding, Guarded, Ended, TaskEnded
<1>1. sent \in Seq(Events) /\ "started" \in Events
  BY DEF IInv, TypeOK, Events
<1>2. /\ sent' \in Seq(Events) /\ sent' # <<>> /\ Last(sent') = "started"
      /\ ToSet(sent') = ToSet(sent) \cup {"started"}
      /\ IsInjective(sent) /\ "started" \notin ToSet(sent) => IsInjective(sent')
      /\ sent # <<>> => sent'[1] = sent[1]
      /\ sent = <<>> => sent'[1] = "started"
  BY <1>1, Appending
<1>3. sent = <<>> /\ ToSet(sent) = {} /\ "started" \notin ToSet(queue)
  BY SourcesAssumption DEF IInv, TypeOK, InOrder, ToSet
<1>4. TypeOK'
  BY <1>2, <1>3, SourcesAssumption DEF IInv, TypeOK
<1>5. InOrder'
  BY <1>2, <1>3, SourcesAssumption DEF IInv, TypeOK, InOrder, Beginning
<1>6. ProducerInOrder'
  BY <1>2, <1>3, SourcesAssumption DEF IInv, TypeOK, InOrder, Beginning, ProducerInOrder
<1>7. NoDuplicates'
  BY <1>2, <1>3, SourcesAssumption DEF IInv, TypeOK, InOrder, Beginning, NoDuplicates, InHand
<1>8. Kept'
  BY <1>2, <1>3, SourcesAssumption DEF IInv, TypeOK, InOrder, Beginning, Kept, InHand, Queued
<1>9. Stored'
  BY <1>2, <1>3, SourcesAssumption DEF IInv, TypeOK, InOrder, Beginning, Stored
<1>10. AnnouncedStays'
  BY <1>2, <1>3, SourcesAssumption DEF IInv, InOrder, Beginning, AnnouncedStays
<1> QED
  BY <1>4, <1>5, <1>6, <1>7, <1>8, <1>9, <1>10 DEF IInv

LEMMA StartKeeps ==
  ASSUME IInv, Start
  PROVE  IInv'
<1> USE DEF Start, production, records, Goto, Yielding, Guarded, Ended, TaskEnded
<1>1. TypeOK'
  BY DEF IInv, TypeOK
<1>2. InOrder'
  BY DEF IInv, TypeOK, InOrder, Beginning
<1>3. ProducerInOrder'
  BY DEF IInv, TypeOK, InOrder, Beginning, ProducerInOrder
<1>4. NoDuplicates'
  BY DEF IInv, TypeOK, InOrder, Beginning, NoDuplicates, InHand
<1>5. Kept'
  BY DEF IInv, TypeOK, InOrder, Beginning, Kept, InHand, Queued
<1>6. Stored'
  BY DEF IInv, TypeOK, InOrder, Beginning, Stored
<1>7. AnnouncedStays'
  BY DEF IInv, InOrder, Beginning, AnnouncedStays
<1> QED
  BY <1>1, <1>2, <1>3, <1>4, <1>5, <1>6, <1>7 DEF IInv

LEMMA LoopKeeps ==
  ASSUME IInv, Loop
  PROVE  IInv'
<1> USE DEF Loop, LastEvent, production, records, Goto, Yielding, Guarded, Ended, TaskEnded
<1>1. TypeOK'
  BY DEF IInv, TypeOK
<1>2. InOrder'
  BY DEF IInv, TypeOK, InOrder, Beginning
<1>3. ProducerInOrder'
  BY DEF IInv, TypeOK, InOrder, Beginning, ProducerInOrder
<1>4. NoDuplicates'
  BY DEF IInv, TypeOK, InOrder, Beginning, NoDuplicates, InHand
<1>5. Kept'
  BY DEF IInv, TypeOK, InOrder, Beginning, Kept, InHand, Queued
<1>6. Stored'
  BY DEF IInv, TypeOK, InOrder, Beginning, Stored
<1>7. AnnouncedStays'
  BY DEF IInv, InOrder, Beginning, AnnouncedStays
<1> QED
  BY <1>1, <1>2, <1>3, <1>4, <1>5, <1>6, <1>7 DEF IInv

LEMMA GetKeeps ==
  ASSUME IInv, Get
  PROVE  IInv'
<1> USE DEF Get, production, records, Goto, Yielding, Guarded, Ended, TaskEnded
<1>1. /\ event' \in Sources /\ queue' \in Seq(Sources)
      /\ ToSet(queue) = {event'} \cup ToSet(queue')
      /\ IsInjective(queue) => IsInjective(queue') /\ event' \notin ToSet(queue')
  BY Taking DEF IInv, TypeOK
<1>2. TypeOK'
  BY <1>1 DEF IInv, TypeOK
<1>3. InOrder'
  BY <1>1 DEF IInv, TypeOK, InOrder, Beginning
<1>4. ProducerInOrder'
  BY <1>1 DEF IInv, TypeOK, InOrder, Beginning, ProducerInOrder
<1>5. NoDuplicates'
  BY <1>1 DEF IInv, TypeOK, InOrder, Beginning, NoDuplicates, InHand
<1>6. Kept'
  BY <1>1 DEF IInv, TypeOK, InOrder, Beginning, Kept, InHand, Queued
<1>7. Stored'
  BY <1>1 DEF IInv, TypeOK, InOrder, Beginning, Stored
<1>8. AnnouncedStays'
  BY <1>1 DEF IInv, InOrder, Beginning, AnnouncedStays
<1> QED
  BY <1>2, <1>3, <1>4, <1>5, <1>6, <1>7, <1>8 DEF IInv

LEMMA SaveKeeps ==
  ASSUME IInv, Save
  PROVE  IInv'
<1> USE DEF Save, production, records, Goto, Yielding, Guarded, Ended, TaskEnded
<1>1. sent \in Seq(Events) /\ event \in Events
  BY DEF IInv, TypeOK, Events
<1>2. /\ sent' \in Seq(Events) /\ sent' # <<>> /\ Last(sent') = event
      /\ ToSet(sent') = ToSet(sent) \cup {event}
      /\ IsInjective(sent) /\ event \notin ToSet(sent) => IsInjective(sent')
      /\ sent # <<>> => sent'[1] = sent[1]
      /\ sent = <<>> => sent'[1] = event
  BY <1>1, Appending
<1>3. event \in Sources /\ event \notin {"started", "completed"}
  BY SourcesAssumption DEF IInv, TypeOK
<1>4. TypeOK'
  BY <1>2, <1>3 DEF IInv, TypeOK
<1>5. InOrder'
  BY <1>2, <1>3 DEF IInv, TypeOK, InOrder, Beginning
<1>6. ProducerInOrder'
  BY <1>2, <1>3 DEF IInv, TypeOK, InOrder, Beginning, ProducerInOrder
<1>7. NoDuplicates'
  BY <1>2, <1>3 DEF IInv, TypeOK, InOrder, Beginning, NoDuplicates, InHand
<1>8. Kept'
  BY <1>2, <1>3 DEF IInv, TypeOK, InOrder, Beginning, Kept, InHand, Queued
<1>9. Stored'
  BY <1>2, <1>3 DEF IInv, TypeOK, InOrder, Beginning, Stored
<1>10. AnnouncedStays'
  BY <1>2, <1>3 DEF IInv, InOrder, Beginning, AnnouncedStays
<1> QED
  BY <1>4, <1>5, <1>6, <1>7, <1>8, <1>9, <1>10 DEF IInv

LEMMA JoinKeeps ==
  ASSUME IInv, Join
  PROVE  IInv'
<1> USE DEF Join, production, records, Goto, Yielding, Guarded, Ended, TaskEnded
<1>1. ToSet(queue) = {}
  BY DEF IInv, InOrder, ToSet
<1>2. sent # <<>> => "started" \in ToSet(sent)
  BY EmptySeq DEF IInv, TypeOK, InOrder, ToSet
<1>3. TypeOK'
  BY DEF IInv, TypeOK
<1>4. InOrder'
  BY DEF IInv, TypeOK, InOrder, Beginning
<1>5. ProducerInOrder'
  BY DEF IInv, TypeOK, InOrder, Beginning, ProducerInOrder
<1>6. NoDuplicates'
  BY DEF IInv, TypeOK, InOrder, Beginning, NoDuplicates, InHand
<1>7. Kept'
  BY DEF IInv, TypeOK, InOrder, Beginning, Kept, InHand, Queued
<1>8. Stored'
  <2> SUFFICES ASSUME producer = "done"
               PROVE  /\ saved = Sources
                      /\ \A s \in Sources : task[s] \in {"done", "late"}
                      /\ Sources \cup {"started"} \subseteq ToSet(sent)
    BY DEF IInv, Stored
  <2>1. \A s \in Sources : task[s] \in {"done", "late"}
    BY DEF IInv, ProducerInOrder
  <2>2. Sources \subseteq ToSet(sent) /\ saved = Sources \cap ToSet(sent)
    BY <1>1, <2>1 DEF IInv, Kept, Queued, InHand
  <2>3. "started" \in ToSet(sent)
    BY <1>2 DEF IInv, InOrder
  <2> QED
    BY <2>1, <2>2, <2>3
<1>9. AnnouncedStays'
  BY DEF IInv, InOrder, Beginning, AnnouncedStays
<1> QED
  BY <1>3, <1>4, <1>5, <1>6, <1>7, <1>8, <1>9 DEF IInv

LEMMA FinishKeeps ==
  ASSUME IInv, Finish
  PROVE  IInv'
<1> USE DEF Finish, production, records, Goto, Yielding, Guarded, Ended, TaskEnded
<1>1. sent \in Seq(Events) /\ "completed" \in Events
  BY DEF IInv, TypeOK, Events
<1>2. /\ sent' \in Seq(Events) /\ sent' # <<>> /\ Last(sent') = "completed"
      /\ ToSet(sent') = ToSet(sent) \cup {"completed"}
      /\ IsInjective(sent) /\ "completed" \notin ToSet(sent) => IsInjective(sent')
      /\ sent # <<>> => sent'[1] = sent[1]
      /\ sent = <<>> => sent'[1] = "completed"
  BY <1>1, Appending
<1>3. "completed" \notin Sources /\ "completed" \notin ToSet(queue)
  BY SourcesAssumption DEF IInv, TypeOK, ToSet
<1>4. "completed" \notin ToSet(sent)
  BY DEF IInv, InOrder
<1>5. TypeOK'
  BY <1>2, <1>3, <1>4 DEF IInv, TypeOK
<1>6. InOrder'
  BY <1>2, <1>3, <1>4 DEF IInv, TypeOK, InOrder, Beginning
<1>7. ProducerInOrder'
  BY <1>2, <1>3, <1>4 DEF IInv, TypeOK, InOrder, Beginning, ProducerInOrder
<1>8. NoDuplicates'
  BY <1>2, <1>3, <1>4 DEF IInv, TypeOK, InOrder, Beginning, NoDuplicates, InHand
<1>9. Kept'
  BY <1>2, <1>3, <1>4 DEF IInv, TypeOK, InOrder, Beginning, Kept, InHand, Queued
<1>10. Stored'
  BY <1>2, <1>3, <1>4 DEF IInv, TypeOK, InOrder, Beginning, Stored
<1>11. AnnouncedStays'
  BY <1>2, <1>3, <1>4 DEF IInv, InOrder, Beginning, AnnouncedStays
<1> QED
  BY <1>5, <1>6, <1>7, <1>8, <1>9, <1>10, <1>11 DEF IInv

LEMMA ReturnKeeps ==
  ASSUME IInv, Return
  PROVE  IInv'
<1> USE DEF Return, production, records, Goto, Yielding, Guarded, Ended, TaskEnded
<1>1. TypeOK'
  BY DEF IInv, TypeOK
<1>2. InOrder'
  BY DEF IInv, TypeOK, InOrder, Beginning
<1>3. ProducerInOrder'
  BY DEF IInv, TypeOK, InOrder, Beginning, ProducerInOrder
<1>4. NoDuplicates'
  BY DEF IInv, TypeOK, InOrder, Beginning, NoDuplicates, InHand
<1>5. Kept'
  BY DEF IInv, TypeOK, InOrder, Beginning, Kept, InHand, Queued
<1>6. Stored'
  BY DEF IInv, TypeOK, InOrder, Beginning, Stored
<1>7. AnnouncedStays'
  BY DEF IInv, InOrder, Beginning, AnnouncedStays
<1> QED
  BY <1>1, <1>2, <1>3, <1>4, <1>5, <1>6, <1>7 DEF IInv

LEMMA CommitFailsKeeps ==
  ASSUME IInv, CommitFails
  PROVE  IInv'
<1> USE DEF CommitFails, production, records, Goto, Yielding, Guarded, Ended, TaskEnded
<1>1. TypeOK'
  BY DEF IInv, TypeOK
<1>2. InOrder'
  BY DEF IInv, TypeOK, InOrder, Beginning
<1>3. ProducerInOrder'
  BY DEF IInv, TypeOK, InOrder, Beginning, ProducerInOrder
<1>4. NoDuplicates'
  BY DEF IInv, TypeOK, InOrder, Beginning, NoDuplicates, InHand
<1>5. Kept'
  BY DEF IInv, TypeOK, InOrder, Beginning, Kept, InHand, Queued
<1>6. Stored'
  BY DEF IInv, TypeOK, InOrder, Beginning, Stored
<1>7. AnnouncedStays'
  BY DEF IInv, InOrder, Beginning, AnnouncedStays
<1> QED
  BY <1>1, <1>2, <1>3, <1>4, <1>5, <1>6, <1>7 DEF IInv

LEMMA CleanupKeeps ==
  ASSUME IInv, Cleanup
  PROVE  IInv'
<1> USE DEF Cleanup, production, Goto, Yielding, Guarded, Ended, TaskEnded
<1>1. TypeOK'
  BY DEF IInv, TypeOK
<1>2. InOrder'
  BY DEF IInv, TypeOK, InOrder, Beginning
<1>3. ProducerInOrder'
  BY DEF IInv, TypeOK, InOrder, Beginning, ProducerInOrder
<1>4. NoDuplicates'
  BY DEF IInv, TypeOK, InOrder, Beginning, NoDuplicates, InHand
<1>5. Kept'
  BY DEF IInv, TypeOK, InOrder, Beginning, Kept, InHand, Queued
<1>6. Stored'
  BY DEF IInv, TypeOK, InOrder, Beginning, Stored
<1>7. AnnouncedStays'
  BY DEF IInv, InOrder, Beginning, AnnouncedStays
<1> QED
  BY <1>1, <1>2, <1>3, <1>4, <1>5, <1>6, <1>7 DEF IInv

LEMMA LeaveKeeps ==
  ASSUME IInv, Leave
  PROVE  IInv'
<1> USE DEF Leave, HandleCancelled, CloseGenerator, production, records, Goto, Yielding,
  Guarded, Ended, TaskEnded
<1>1. TypeOK'
  BY DEF IInv, TypeOK
<1>2. InOrder'
  BY DEF IInv, TypeOK, InOrder, Beginning
<1>3. ProducerInOrder'
  BY DEF IInv, TypeOK, InOrder, Beginning, ProducerInOrder
<1>4. NoDuplicates'
  BY DEF IInv, TypeOK, InOrder, Beginning, NoDuplicates, InHand
<1>5. Kept'
  BY DEF IInv, TypeOK, InOrder, Beginning, Kept, InHand, Queued
<1>6. Stored'
  BY DEF IInv, TypeOK, InOrder, Beginning, Stored
<1>7. AnnouncedStays'
  BY DEF IInv, InOrder, Beginning, AnnouncedStays
<1> QED
  BY <1>1, <1>2, <1>3, <1>4, <1>5, <1>6, <1>7 DEF IInv

LEMMA AbortKeeps ==
  ASSUME IInv, Abort
  PROVE  IInv'
<1> USE DEF Abort, StopTasks, records, Goto, Yielding, Guarded, Ended, TaskEnded
<1>1. TypeOK'
  BY DEF IInv, TypeOK
<1>2. InOrder'
  BY DEF IInv, TypeOK, InOrder, Beginning
<1>3. ProducerInOrder'
  BY DEF IInv, TypeOK, InOrder, Beginning, ProducerInOrder
<1>4. NoDuplicates'
  BY DEF IInv, TypeOK, InOrder, Beginning, NoDuplicates, InHand
<1>5. Kept'
  BY DEF IInv, TypeOK, InOrder, Beginning, Kept, InHand, Queued
<1>6. Stored'
  BY DEF IInv, TypeOK, InOrder, Beginning, Stored
<1>7. AnnouncedStays'
  BY DEF IInv, InOrder, Beginning, AnnouncedStays
<1> QED
  BY <1>1, <1>2, <1>3, <1>4, <1>5, <1>6, <1>7 DEF IInv

LEMMA StopProducerKeeps ==
  ASSUME IInv, StopProducer
  PROVE  IInv'
<1> USE DEF StopProducer, StopTasks, records, Goto, Yielding, Guarded, Ended, TaskEnded
<1>1. TypeOK'
  BY DEF IInv, TypeOK
<1>2. InOrder'
  BY DEF IInv, TypeOK, InOrder, Beginning
<1>3. ProducerInOrder'
  BY DEF IInv, TypeOK, InOrder, Beginning, ProducerInOrder
<1>4. NoDuplicates'
  BY DEF IInv, TypeOK, InOrder, Beginning, NoDuplicates, InHand
<1>5. Kept'
  BY DEF IInv, TypeOK, InOrder, Beginning, Kept, InHand, Queued
<1>6. Stored'
  BY DEF IInv, TypeOK, InOrder, Beginning, Stored
<1>7. AnnouncedStays'
  BY DEF IInv, InOrder, Beginning, AnnouncedStays
<1> QED
  BY <1>1, <1>2, <1>3, <1>4, <1>5, <1>6, <1>7 DEF IInv

\* What the end of a source task changes.
LEMMA EndTaskChanges ==
  ASSUME TypeOK, NEW s \in Sources, NEW how \in TaskEnded, EndTask(s, how)
  PROVE  /\ task' = [task EXCEPT ![s] = how]
         /\ completed' \in BOOLEAN
         /\ producer' \in {"none", "running", "done", "failed", "cancelling", "cancelled"}
         /\ \/ UNCHANGED <<completed, producer>>
            \/ \A x \in Sources : task'[x] \in TaskEnded
<1> USE DEF EndTask
<1>1. CASE \A x \in Sources : [task EXCEPT ![s] = how][x] \in TaskEnded
  BY <1>1
<1>2. CASE ~ \A x \in Sources : [task EXCEPT ![s] = how][x] \in TaskEnded
  BY <1>2 DEF TypeOK
<1> QED
  BY <1>1, <1>2

LEMMA BroadcastedKeeps ==
  ASSUME IInv, NEW s \in Sources, Broadcasted(s)
  PROVE  IInv'
<1> USE DEF Broadcasted, EndTask, records, Goto, Yielding, Guarded, Ended, TaskEnded
<1>1. TypeOK'
  <2>1. /\ task' \in [Sources -> {"none", "fetching", "closing"} \cup TaskEnded]
        /\ completed' \in BOOLEAN
        /\ producer' \in {"none", "running", "done", "failed", "cancelling", "cancelled"}
    <3>1. \A how \in TaskEnded : EndTask(s, how) =>
            /\ task' = [task EXCEPT ![s] = how]
            /\ completed' \in BOOLEAN
            /\ producer' \in {"none", "running", "done", "failed", "cancelling", "cancelled"}
      BY EndTaskChanges DEF IInv
    <3> HIDE DEF EndTask
    <3> QED
      BY <3>1 DEF IInv, TypeOK
  <2> QED
    BY <2>1 DEF IInv, TypeOK
<1>2. InOrder'
  BY DEF IInv, TypeOK, InOrder, Beginning
<1>3. ProducerInOrder'
  BY DEF IInv, TypeOK, InOrder, Beginning, ProducerInOrder
<1>4. NoDuplicates'
  BY DEF IInv, TypeOK, InOrder, Beginning, NoDuplicates, InHand
<1>5. Kept'
  BY DEF IInv, TypeOK, InOrder, Beginning, Kept, InHand, Queued
<1>6. Stored'
  BY DEF IInv, TypeOK, InOrder, Beginning, Stored
<1>7. AnnouncedStays'
  BY DEF IInv, InOrder, Beginning, AnnouncedStays
<1> QED
  BY <1>1, <1>2, <1>3, <1>4, <1>5, <1>6, <1>7 DEF IInv

LEMMA FetchedKeeps ==
  ASSUME IInv, NEW s \in Sources, Fetched(s)
  PROVE  IInv'
<1> USE DEF Fetched, EndTask, Put, records, Goto, Yielding, Guarded, Ended, TaskEnded
<1>1. /\ queue' \in Seq(Sources)
      /\ ToSet(queue') = ToSet(queue) \cup {s}
      /\ IsInjective(queue) /\ s \notin ToSet(queue) => IsInjective(queue')
  BY Appending DEF IInv, TypeOK
<1>2. TypeOK'
  <2>1. /\ task' \in [Sources -> {"none", "fetching", "closing"} \cup TaskEnded]
        /\ completed' \in BOOLEAN
        /\ producer' \in {"none", "running", "done", "failed", "cancelling", "cancelled"}
    <3>1. \A how \in TaskEnded : EndTask(s, how) =>
            /\ task' = [task EXCEPT ![s] = how]
            /\ completed' \in BOOLEAN
            /\ producer' \in {"none", "running", "done", "failed", "cancelling", "cancelled"}
      BY EndTaskChanges DEF IInv
    <3> HIDE DEF EndTask
    <3> QED
      BY <3>1 DEF IInv, TypeOK
  <2> QED
    BY <1>1, <2>1 DEF IInv, TypeOK
<1>3. InOrder'
  <2>1. UNCHANGED <<pc, sent, cleanup>> /\ pc \notin Beginning /\ ~completed
    BY DEF IInv, TypeOK, InOrder, ProducerInOrder
  <2>2. pc # "joining"
    BY <2>1 DEF IInv, InOrder
  <2> HIDE DEF Fetched, EndTask, Put, Yielding, Guarded, Ended, TaskEnded
  <2> QED
    BY <2>1, <2>2 DEF IInv, InOrder, Beginning
<1>4. ProducerInOrder'
  BY <1>1 DEF IInv, TypeOK, InOrder, Beginning, ProducerInOrder
<1>5. NoDuplicates'
  BY <1>1 DEF IInv, TypeOK, InOrder, Beginning, NoDuplicates, InHand
<1>6. Kept'
  BY <1>1 DEF IInv, TypeOK, InOrder, Beginning, Kept, InHand, Queued
<1>7. Stored'
  BY <1>1 DEF IInv, TypeOK, InOrder, Beginning, Stored
<1>8. AnnouncedStays'
  BY <1>1 DEF IInv, InOrder, Beginning, AnnouncedStays
<1> QED
  BY <1>2, <1>3, <1>4, <1>5, <1>6, <1>7, <1>8 DEF IInv

LEMMA NextKeeps ==
  ASSUME IInv, [Next]_vars
  PROVE  IInv'
<1>1. CASE Open
  BY <1>1, OpenKeeps
<1>2. CASE Generate
  BY <1>2, CreateKeeps, StartKeeps, LoopKeeps, GetKeeps, SaveKeeps, JoinKeeps,
     FinishKeeps, ReturnKeeps DEF Generate
<1>3. CASE Produce
  BY <1>3, AbortKeeps, StopProducerKeeps, FetchedKeeps, BroadcastedKeeps DEF Produce
<1>4. CASE Cleanup
  BY <1>4, CleanupKeeps
<1>5. CASE CommitFails
  BY <1>5, CommitFailsKeeps
<1>6. CASE Leave
  BY <1>6, LeaveKeeps
<1>7. CASE UNCHANGED vars
  BY <1>7 DEF vars, IInv, TypeOK, InOrder, ProducerInOrder, NoDuplicates, InHand, Kept,
     Stored, AnnouncedStays, Beginning, Yielding, Guarded, Ended, TaskEnded, Queued
<1> QED
  BY <1>1, <1>2, <1>3, <1>4, <1>5, <1>6, <1>7 DEF Next

LEMMA InitHolds == Init => IInv
<1> SUFFICES ASSUME Init
             PROVE  IInv
  OBVIOUS
<1>1. /\ queue \in Seq(Sources) /\ ToSet(queue) = {} /\ IsInjective(queue)
      /\ sent \in Seq(Events) /\ ToSet(sent) = {} /\ IsInjective(sent)
  BY DEF Init, ToSet, IsInjective
<1> QED
  BY <1>1 DEF Init, IInv, TypeOK, InOrder, ProducerInOrder, NoDuplicates, InHand, Kept,
     Stored, AnnouncedStays, Beginning, Yielding, Guarded, Ended, TaskEnded, Queued

----------------------------------------------------------------------------
(* The theorems.                                                           *)

\* The inductive invariant holds in every behaviour, however many sources, slow
\* clients, disconnects and database errors there are.
THEOREM Invariance == Spec => []IInv
<1>1. IInv /\ [Next]_vars => IInv'
  BY NextKeeps
<1> QED
  BY InitHolds, <1>1, PTL DEF Spec

\* Type correctness.
THEOREM TypeCorrect == Spec => []TypeOK
<1>1. IInv => TypeOK
  BY DEF IInv
<1> QED
  BY Invariance, <1>1, PTL

\* An announced completion stays in the table: AggregateStream.AnnouncedStays.
THEOREM CompletionsStay == Spec => []AnnouncedStays
<1>1. IInv => AnnouncedStays
  BY DEF IInv
<1> QED
  BY Invariance, <1>1, PTL

\* A duplicate-free list of all the events is as long as a complete stream.
LEMMA StreamLength ==
  ASSUME NEW s \in Seq(Events), IsInjective(s), ToSet(s) = Events
  PROVE  Len(s) = Cardinality(Sources) + 2
<1> DEFINE S == Sources \cup {"started"}
<1>1. Events = S \cup {"completed"} /\ "completed" \notin S
  BY SourcesAssumption DEF Events
<1>2. IsFiniteSet(S) /\ Cardinality(S) = Cardinality(Sources) + 1
  BY FS_AddElement, SourcesAssumption
<1> HIDE DEF S
<1>3. /\ IsFiniteSet(S \cup {"completed"})
      /\ Cardinality(S \cup {"completed"}) = Cardinality(S) + 1
  BY <1>1, <1>2, FS_AddElement
<1>4. IsFiniteSet(Events) /\ Cardinality(Events) = Cardinality(S) + 1
  BY <1>1, <1>3
<1>5. Cardinality(Sources) \in Nat
  BY FS_CardinalityType, SourcesAssumption
<1>6. Len(s) = Cardinality(Events)
  BY <1>4, Counting
<1> QED
  BY <1>2, <1>4, <1>5, <1>6

\* A completed request, in the table or for the client, has every source's result
\* stored and streamed once: AggregateStream.CompletedIsComplete.
THEOREM CompletionsAreComplete == Spec => []CompletedIsComplete
<1>1. ASSUME IInv PROVE CompletedIsComplete
  <2>1. /\ sent \in Seq(Events) /\ IsInjective(sent)
        /\ "completed" \in ToSet(sent) => row = "COMPLETED" /\ Last(sent) = "completed"
        /\ sent # <<>> => sent[1] = "started"
    BY <1>1 DEF IInv, TypeOK, InOrder, NoDuplicates, AnnouncedStays
  <2>2. row = "COMPLETED" =>
          /\ saved = Sources
          /\ \A s \in Sources : task[s] \in {"done", "late"}
          /\ Sources \cup {"started"} \subseteq ToSet(sent)
    BY <1>1 DEF IInv, Stored
  <2>3. ToSet(sent) \subseteq Events
    BY <2>1 DEF ToSet
  <2>4. "started" \in ToSet(sent) => sent # <<>>
    BY DEF ToSet
  <2>5. row = "COMPLETED" /\ "completed" \in ToSet(sent) => CompleteStream(sent)
    <3> SUFFICES ASSUME row = "COMPLETED", "completed" \in ToSet(sent)
                 PROVE  CompleteStream(sent)
      OBVIOUS
    <3>1. ToSet(sent) = Events
      BY <2>2, <2>3 DEF Events
    <3> QED
      BY <2>1, <2>2, <2>4, <3>1, StreamLength DEF CompleteStream
  <2>6. row = "COMPLETED" /\ "completed" \notin ToSet(sent) =>
          CompleteStream(Append(sent, "completed"))
    <3> SUFFICES ASSUME row = "COMPLETED", "completed" \notin ToSet(sent)
                 PROVE  CompleteStream(Append(sent, "completed"))
      OBVIOUS
    <3> DEFINE full == Append(sent, "completed")
    <3>1. "completed" \in Events
      BY DEF Events
    <3>2. /\ full \in Seq(Events) /\ ToSet(full) = ToSet(sent) \cup {"completed"}
          /\ IsInjective(full) /\ Last(full) = "completed"
          /\ sent # <<>> => full[1] = sent[1]
      BY <2>1, <3>1, Appending
    <3>3. ToSet(full) = Events
      BY <2>2, <2>3, <3>2 DEF Events
    <3>4. Len(full) = Cardinality(Sources) + 2
      BY <3>2, <3>3, StreamLength
    <3> HIDE DEF full
    <3>5. CompleteStream(full)
      BY <2>1, <2>2, <2>4, <3>2, <3>3, <3>4 DEF CompleteStream
    <3> QED
      BY <3>5 DEF full
  <2> QED
    BY <2>1, <2>2, <2>5, <2>6 DEF CompletedIsComplete
<1> QED
  BY Invariance, <1>1, PTL

\* No result is lost or duplicated on its way from its task to the client:
\* AggregateStream.NothingLost.
THEOREM ResultsAreKept == Spec => []NothingLost
<1>1. ASSUME IInv PROVE NothingLost
  <2> DEFINE inHand == IF pc = "saving" THEN <<event>> ELSE <<>>
             all == (sent \o inHand) \o queue
  <2>1. Sources \subseteq Events
    BY DEF Events
  <2>2. /\ sent \in Seq(Events) /\ queue \in Seq(Events) /\ event \in Events
    BY <1>1, <2>1 DEF IInv, TypeOK
  <2>3. inHand \in Seq(Events) /\ IsInjective(inHand) /\ ToSet(inHand) = InHand
    <3>1. /\ <<event>> \in Seq(Events) /\ IsInjective(<<event>>) /\ ToSet(<<event>>) = {event}
      BY <2>2 DEF IsInjective, ToSet
    <3>2. /\ <<>> \in Seq(Events) /\ IsInjective(<<>>) /\ ToSet(<<>>) = {}
      BY DEF IsInjective, ToSet
    <3> QED
      BY <3>1, <3>2 DEF InHand
  <2>4. /\ IsInjective(sent) /\ IsInjective(queue)
        /\ ToSet(queue) \cap ToSet(sent) = {}
        /\ InHand \cap (ToSet(queue) \cup ToSet(sent)) = {}
    BY <1>1 DEF IInv, NoDuplicates
  <2> HIDE DEF inHand
  <2>5. /\ sent \o inHand \in Seq(Events) /\ IsInjective(sent \o inHand)
        /\ ToSet(sent \o inHand) = ToSet(sent) \cup InHand
    BY <2>2, <2>3, <2>4, Concatenating
  <2> DEFINE front == sent \o inHand
  <2>6. IsInjective(all) /\ ToSet(all) = ToSet(sent) \cup InHand \cup ToSet(queue)
    <3>1. ToSet(front) \cap ToSet(queue) = {}
      BY <2>4, <2>5
    <3>2. front \in Seq(Events) /\ IsInjective(front)
      BY <2>5
    <3> HIDE DEF front
    <3>3. /\ IsInjective(front \o queue)
          /\ ToSet(front \o queue) = ToSet(front) \cup ToSet(queue)
      BY <2>2, <2>4, <3>1, <3>2, Concatenating
    <3> QED
      BY <2>5, <3>3 DEF front
  <2>7. pc \notin {"cancelled", "db_error"} =>
          {s \in Sources : task[s] \in Queued} \subseteq ToSet(all)
    BY <1>1, <2>6 DEF IInv, Kept
  <2> QED
    BY <2>6, <2>7 DEF NothingLost, inHand
<1> QED
  BY Invariance, <1>1, PTL

\* The queue was made large enough: no source task ever waits to put its result.
THEOREM QueueIsLargeEnough == Spec => []PutsNeverWait
<1>1. ASSUME IInv PROVE PutsNeverWait
  <2>1. queue \in Seq(Sources) /\ IsInjective(queue)
    BY <1>1 DEF IInv, TypeOK, NoDuplicates
  <2>2. ToSet(queue) \subseteq Sources
    BY <2>1 DEF ToSet
  <2>3. /\ IsFiniteSet(ToSet(queue))
        /\ Cardinality(ToSet(queue)) <= Cardinality(Sources)
    BY <2>2, FS_Subset, SourcesAssumption
  <2>4. Len(queue) = Cardinality(ToSet(queue))
    BY <2>1, <2>3, Counting
  <2> QED
    BY <2>3, <2>4 DEF PutsNeverWait
<1> QED
  BY Invariance, <1>1, PTL

----------------------------------------------------------------------------
(* The live update channel, for any clients, broadcasts and queue size.    *)

\* The instance takes the same notions of sequences from the library.
LEMMA SameSequences ==
  \A s : /\ ToSet(s) = ToSet(s)
        /\ IsInjective(s) = IsInjective(s)
        /\ \A i : RemoveAt(s, i) = RemoveAt(s, i)
BY DEF ToSet, ToSet, IsInjective, IsInjective, RemoveAt, RemoveAt

LEMMA Disconnecting ==
  ASSUME registry \in Seq(Clients), IsInjective(registry), NEW c, Disconnect(c)
  PROVE  /\ registry' \in Seq(Clients) /\ IsInjective(registry')
         /\ ToSet(registry') = ToSet(registry) \ {c}
<1> USE SameSequences
<1>1. CASE c \in ToSet(registry)
  <2> DEFINE i == CHOOSE k \in DOMAIN registry : registry[k] = c
  <2>1. i \in DOMAIN registry /\ registry[i] = c
    BY <1>1 DEF ToSet
  <2>2. registry' = RemoveAt(registry, i)
    BY <1>1 DEF Disconnect
  <2> HIDE DEF i
  <2> QED
    BY <2>1, <2>2, Removing
<1>2. CASE c \notin ToSet(registry)
  BY <1>2 DEF Disconnect
<1> QED
  BY <1>1, <1>2

\* The broadcast's loop goes as far as the first full client, and nobody before it
\* is full.
LEMMA FirstFullIsFirst ==
  ASSUME NEW list \in Seq(Clients)
  PROVE  /\ FirstFull(list) \in 1 .. Len(list) + 1
         /\ \A j \in 1 .. Len(list) : j < FirstFull(list) => ~Full(list[j])
<1> DEFINE full == {i \in DOMAIN list : Full(list[i])}
<1>1. Len(list) \in Nat /\ DOMAIN list = 1 .. Len(list)
  OBVIOUS
<1>2. CASE full = {}
  BY <1>1, <1>2 DEF FirstFull
<1>3. CASE full # {}
  <2> DEFINE first == CHOOSE i \in full : \A j \in full : i <= j
  <2>1. full \in SUBSET Nat
    BY <1>1
  <2>2. \E i \in full : \A j \in full : i <= j
    <3> HIDE DEF full
    <3> QED
      BY <1>3, <2>1, LeastPosition
  <2>3. first \in full /\ \A j \in full : first <= j
    BY <2>2
  <2>4. FirstFull(list) = first
    BY <1>3 DEF FirstFull
  <2> HIDE DEF first
  <2> QED
    BY <1>1, <2>3, <2>4
<1> QED
  BY <1>2, <1>3

\* What the loop of a broadcast does up to its next wait: everybody on the list has
\* the message, is evicted, or is still to come, unless close() raised.
LEMMA Serving ==
  ASSUME ChannelTypeOK, IsInjective(registry),
         NEW b \in Broadcasts, NEW list \in Seq(Clients), Serve(b, list)
  PROVE  /\ outbox' \in [Clients -> Seq(Broadcasts)]
         /\ \A c \in Clients : Len(outbox'[c]) <= QueueSize
         /\ \A c \in Clients : ToSet(outbox[c]) \subseteq ToSet(outbox'[c])
         /\ closed \subseteq closed' /\ closed' \subseteq Clients
         /\ rest' \in [Broadcasts -> Seq(Clients)]
         /\ victim' \in [Broadcasts -> Clients \cup {None}]
         /\ \E how \in {"done", "raised", "closing"} : state' = [state EXCEPT ![b] = how]
         /\ \A x \in Broadcasts \ {b} : rest'[x] = rest[x]
         /\ \/ registry' = registry
            \/ \E c \in Clients : /\ Disconnect(c)
                                  /\ c \in closed' \/ state'[b] = "raised"
         /\ state'[b] = "raised" \/
              \A c \in ToSet(list) :
                \/ b \in ToSet(outbox'[c])
                \/ state'[b] = "closing" /\ (c \in closed' \/ c \in ToSet(rest'[b]))
<1> USE SameSequences
<1> DEFINE i == FirstFull(list)
           ready == ToSet(SubSeq(list, 1, i - 1))
<1>1. /\ Len(list) \in Nat /\ DOMAIN list = 1 .. Len(list)
      /\ i \in 1 .. Len(list) + 1
      /\ \A j \in 1 .. Len(list) : j < i => ~Full(list[j])
      /\ i - 1 \in 0 .. Len(list) /\ 1 \in 1 .. Len(list) + 1
  BY FirstFullIsFirst
<1>2. /\ ready = {list[k] : k \in 1 .. i - 1}
      /\ ready \subseteq Clients
      /\ \A c \in ready : Len(outbox[c]) < QueueSize
  <2>1. ready = {list[k] : k \in 1 .. i - 1}
    BY <1>1, Slicing
  <2>2. \A k \in 1 .. i - 1 : k \in 1 .. Len(list) /\ k < i /\ list[k] \in Clients
    BY <1>1
  <2>3. \A c \in Clients : ~Full(c) => Len(outbox[c]) < QueueSize
    BY QueueAssumption, NoneAssumption DEF ChannelTypeOK, Full
  <2> QED
    BY <1>1, <2>1, <2>2, <2>3
<1>3. outbox' = [c \in Clients |-> IF c \in ready THEN Append(outbox[c], b) ELSE outbox[c]]
  BY DEF Serve
<1> HIDE DEF ready
<1>4. ASSUME NEW c \in Clients
      PROVE  /\ outbox'[c] \in Seq(Broadcasts)
             /\ Len(outbox'[c]) <= QueueSize
             /\ ToSet(outbox[c]) \subseteq ToSet(outbox'[c])
             /\ c \in ready => b \in ToSet(outbox'[c])
  <2>1. /\ outbox[c] \in Seq(Broadcasts) /\ Len(outbox[c]) \in Nat
        /\ Len(outbox[c]) <= QueueSize /\ QueueSize \in Nat
    BY QueueAssumption, NoneAssumption DEF ChannelTypeOK
  <2>2. CASE c \in ready
    <3>1. outbox'[c] = Append(outbox[c], b) /\ Len(outbox[c]) < QueueSize
      BY <1>2, <1>3, <2>2
    <3>2. /\ Append(outbox[c], b) \in Seq(Broadcasts)
          /\ ToSet(Append(outbox[c], b)) = ToSet(outbox[c]) \cup {b}
          /\ Len(Append(outbox[c], b)) = Len(outbox[c]) + 1
      BY <2>1, Appending
    <3> QED
      BY <2>1, <3>1, <3>2
  <2>3. CASE c \notin ready
    BY <1>3, <2>1, <2>3
  <2> QED
    BY <2>2, <2>3
<1>5. outbox' \in [Clients -> Seq(Broadcasts)]
  BY <1>3, <1>4
<1>6. \A c \in ToSet(list) : c \in ready \/ \E k \in i .. Len(list) : c = list[k]
  <2>1. \A k \in 1 .. Len(list) : k \in 1 .. i - 1 \/ k \in i .. Len(list)
    BY <1>1
  <2>2. \A c \in ToSet(list) : \E k \in 1 .. Len(list) : c = list[k]
    BY <1>1 DEF ToSet
  <2> QED
    BY <1>2, <2>1, <2>2
<1>7. CASE i > Len(list)
  <2>1. /\ state' = [state EXCEPT ![b] = "done"]
        /\ rest' = [rest EXCEPT ![b] = <<>>]
        /\ victim' = [victim EXCEPT ![b] = None]
        /\ registry' = registry /\ closed' = closed
    BY <1>7 DEF Serve, End
  <2>2. \A c \in ToSet(list) : c \in ready /\ c \in Clients
    BY <1>1, <1>2, <1>6, <1>7
  <2> QED
    BY <1>4, <1>5, <2>1, <2>2 DEF ChannelTypeOK
<1>8. CASE i <= Len(list)
  <2> DEFINE v == list[i]
             later == After(list, i)
  <2>1. i \in 1 .. Len(list) /\ v \in Clients
    BY <1>1, <1>8
  <2>2. Disconnect(v) /\ Close(b, v, later)
    BY <1>1, <1>8 DEF Serve
  <2>3. later \in Seq(Clients) /\ ToSet(later) = {list[k] : k \in i + 1 .. Len(list)}
    <3>1. i + 1 \in 1 .. Len(list) + 1 /\ Len(list) \in 0 .. Len(list)
      BY <1>1, <2>1
    <3> QED
      BY <3>1, Slicing DEF After
  <2> HIDE DEF v, later
  <2>4. CASE (v \in closed \/ peer[v] = "gone") /\ End(b, "raised") /\ UNCHANGED closed
    <3>1. /\ state' = [state EXCEPT ![b] = "raised"] /\ state'[b] = "raised"
          /\ rest' \in [Broadcasts -> Seq(Clients)]
          /\ \A x \in Broadcasts \ {b} : rest'[x] = rest[x]
          /\ victim' \in [Broadcasts -> Clients \cup {None}]
      BY <2>4 DEF End, ChannelTypeOK
    <3>2. closed' = closed /\ closed \subseteq Clients
      BY <2>4 DEF ChannelTypeOK
    <3> QED
      BY <1>4, <1>5, <2>1, <2>2, <3>1, <3>2
  <2>5. CASE /\ closed' = closed \cup {v}
             /\ state' = [state EXCEPT ![b] = "closing"]
             /\ victim' = [victim EXCEPT ![b] = v]
             /\ rest' = [rest EXCEPT ![b] = later]
    <3>1. /\ state'[b] = "closing" /\ rest'[b] = later /\ v \in closed'
          /\ rest' \in [Broadcasts -> Seq(Clients)]
          /\ \A x \in Broadcasts \ {b} : rest'[x] = rest[x]
          /\ victim' \in [Broadcasts -> Clients \cup {None}]
          /\ closed \subseteq closed' /\ closed' \subseteq Clients
      BY <2>1, <2>3, <2>5 DEF ChannelTypeOK
    <3>2. ASSUME NEW c \in ToSet(list)
          PROVE  b \in ToSet(outbox'[c]) \/ c = v \/ c \in ToSet(later)
      <4>1. \A k \in i .. Len(list) : k = i \/ k \in i + 1 .. Len(list)
        BY <1>1
      <4> QED
        BY <1>2, <1>4, <1>6, <2>3, <4>1 DEF v
    <3> QED
      BY <1>4, <1>5, <2>1, <2>2, <2>5, <3>1, <3>2
  <2> QED
    BY <2>2, <2>4, <2>5 DEF Close
<1>9. i > Len(list) \/ i <= Len(list)
  BY <1>1
<1> QED
  BY <1>7, <1>8, <1>9

\* A step of one broadcast keeps the channel's invariant, whatever the list it
\* serves, if the list is what it still has to serve.
LEMMA ServingKeeps ==
  ASSUME ChannelInv, NEW b \in Broadcasts, NEW list \in Seq(Clients),
         Serve(b, list), sockets' = sockets,
         snapshot' \in [Broadcasts -> Seq(Clients)],
         \A x \in Broadcasts \ {b} : snapshot'[x] = snapshot[x],
         \A c \in ToSet(snapshot'[b]) : c \in ToSet(list) \/ Served(b, c),
         state[b] # "raised"
  PROVE  ChannelInv'
<1> USE SameSequences
<1>1. /\ ChannelTypeOK /\ RegistryIsLive /\ WaitingHasServed /\ ReturnedMeansServed
      /\ registry \in Seq(Clients) /\ IsInjective(registry)
  BY DEF ChannelInv, ChannelTypeOK, RegistryIsLive
<1>2. /\ outbox' \in [Clients -> Seq(Broadcasts)]
      /\ \A c \in Clients : Len(outbox'[c]) <= QueueSize
      /\ \A c \in Clients : ToSet(outbox[c]) \subseteq ToSet(outbox'[c])
      /\ closed \subseteq closed' /\ closed' \subseteq Clients
      /\ rest' \in [Broadcasts -> Seq(Clients)]
      /\ victim' \in [Broadcasts -> Clients \cup {None}]
      /\ \A x \in Broadcasts \ {b} : rest'[x] = rest[x]
      /\ \/ registry' = registry
         \/ \E c \in Clients : /\ Disconnect(c)
                               /\ c \in closed' \/ state'[b] = "raised"
      /\ state'[b] = "raised" \/
           \A c \in ToSet(list) :
             \/ b \in ToSet(outbox'[c])
             \/ state'[b] = "closing" /\ (c \in closed' \/ c \in ToSet(rest'[b]))
  BY <1>1, Serving
<1>3. PICK how \in {"done", "raised", "closing"} : state' = [state EXCEPT ![b] = how]
  BY <1>1, Serving
<1>4. /\ handler' = handler /\ sending' = sending /\ got' = got /\ peer' = peer
  BY DEF sockets
<1>5. ChannelTypeOK'
  <2>1. registry' \in Seq(Clients)
    BY <1>1, <1>2, Disconnecting
  <2> QED
    BY <1>1, <1>2, <1>3, <1>4, <2>1 DEF ChannelTypeOK
<1>6. /\ state'[b] = how
      /\ \A x \in Broadcasts \ {b} : state'[x] = state[x]
  BY <1>1, <1>3 DEF ChannelTypeOK
<1>7. RegistryIsLive'
  <2>2. \A x \in Broadcasts : state[x] = "raised" => state'[x] = "raised"
    BY <1>6
  <2>3. CASE registry' = registry
    BY <1>1, <1>2, <1>4, <2>2, <2>3 DEF RegistryIsLive
  <2>4. CASE \E c \in Clients : Disconnect(c) /\ (c \in closed' \/ state'[b] = "raised")
    <3>1. PICK v \in Clients : Disconnect(v) /\ (v \in closed' \/ state'[b] = "raised")
      BY <2>4
    <3>2. IsInjective(registry') /\ ToSet(registry') = ToSet(registry) \ {v}
      BY <1>1, <3>1, Disconnecting
    <3> QED
      BY <1>1, <1>2, <1>4, <2>2, <3>1, <3>2 DEF RegistryIsLive
  <2> QED
    BY <1>2, <2>3, <2>4
<1>8. \A x \in Broadcasts, c \in Clients : Served(x, c) => Served(x, c)'
  BY <1>2, <1>4 DEF Served
<1>9. \A x \in Broadcasts : ToSet(snapshot'[x]) \subseteq Clients
  <2>1. \A s \in Seq(Clients) : ToSet(s) \subseteq Clients
    BY DEF ToSet
  <2> QED
    BY <2>1
<1>10. ASSUME NEW c \in ToSet(snapshot'[b])
       PROVE  /\ state'[b] = "done" => Served(b, c)'
              /\ state'[b] = "closing" => c \in ToSet(rest'[b]) \/ Served(b, c)'
  BY <1>2, <1>8, <1>9 DEF Served
<1>11. WaitingHasServed'
  BY <1>1, <1>2, <1>6, <1>8, <1>9, <1>10 DEF WaitingHasServed
<1>12. ReturnedMeansServed'
  BY <1>1, <1>2, <1>6, <1>8, <1>9, <1>10 DEF ReturnedMeansServed
<1> QED
  BY <1>5, <1>7, <1>11, <1>12 DEF ChannelInv

\* Whoever leaves the channel leaves the registry; the rest of it is untouched.
LEMMA ConnectKeeps ==
  ASSUME ChannelInv, NEW c \in Clients, Connect(c)
  PROVE  ChannelInv'
<1> USE SameSequences DEF ChannelInv, ChannelTypeOK, Connect
<1>1. registry \in Seq(Clients) /\ c \notin ToSet(registry)
  BY DEF RegistryIsLive
<1>2. /\ registry' \in Seq(Clients) /\ ToSet(registry') = ToSet(registry) \cup {c}
      /\ IsInjective(registry')
  BY <1>1, Appending DEF RegistryIsLive
<1>3. ChannelTypeOK'
  BY <1>2
<1>4. RegistryIsLive'
  BY <1>1, <1>2 DEF RegistryIsLive
<1>5. WaitingHasServed' /\ ReturnedMeansServed'
  BY DEF WaitingHasServed, ReturnedMeansServed, Served
<1> QED
  BY <1>3, <1>4, <1>5

\* A handler that ends because its socket is closed or its peer is gone.
LEMMA ExitKeeps ==
  ASSUME ChannelInv, NEW c \in Clients, Exit(c), peer[c] = "gone" \/ c \in closed,
         UNCHANGED <<got, peer, closed, state, snapshot, rest, victim>>,
         outbox' \in [Clients -> Seq(Broadcasts)],
         \A x \in Clients : Len(outbox'[x]) <= QueueSize,
         \A x \in Clients \ {c} : outbox'[x] = outbox[x]
  PROVE  ChannelInv'
<1> USE SameSequences DEF ChannelInv, ChannelTypeOK
<1>1. /\ registry' \in Seq(Clients) /\ IsInjective(registry')
      /\ ToSet(registry') = ToSet(registry) \ {c}
  BY Disconnecting DEF Exit, RegistryIsLive
<1>2. /\ handler' = [handler EXCEPT ![c] = "gone"]
      /\ sending' = [sending EXCEPT ![c] = None]
  BY DEF Exit
<1>3. ChannelTypeOK'
  BY <1>1, <1>2
<1>4. RegistryIsLive'
  BY <1>1, <1>2 DEF RegistryIsLive
<1>5. \A b \in Broadcasts, x \in Clients : Served(b, x) => Served(b, x)'
  BY <1>2 DEF Served
<1>6. \A b \in Broadcasts : ToSet(snapshot[b]) \subseteq Clients
  BY DEF ToSet
<1>7. WaitingHasServed' /\ ReturnedMeansServed'
  BY <1>5, <1>6 DEF WaitingHasServed, ReturnedMeansServed
<1> QED
  BY <1>3, <1>4, <1>7

\* The sender takes a message from the queue into its hand, or leaves.
LEMMA SendKeeps ==
  ASSUME ChannelInv, NEW c \in Clients, Send(c)
  PROVE  ChannelInv'
<1> USE SameSequences
<1>1. /\ outbox[c] \in Seq(Broadcasts) /\ outbox[c] # <<>>
      /\ Len(outbox[c]) \in Nat /\ Len(outbox[c]) <= QueueSize /\ QueueSize \in Nat
      /\ outbox' = [outbox EXCEPT ![c] = Tail(outbox[c])]
  BY QueueAssumption, NoneAssumption DEF ChannelInv, ChannelTypeOK, Send
<1>2. /\ Head(outbox[c]) \in Broadcasts /\ Tail(outbox[c]) \in Seq(Broadcasts)
      /\ ToSet(outbox[c]) = {Head(outbox[c])} \cup ToSet(Tail(outbox[c]))
      /\ Len(Tail(outbox[c])) <= QueueSize
  <2>1. Len(Tail(outbox[c])) = Len(outbox[c]) - 1
    BY <1>1
  <2> QED
    BY <1>1, <2>1, Taking
<1>3. /\ outbox' \in [Clients -> Seq(Broadcasts)]
      /\ outbox'[c] = Tail(outbox[c])
      /\ \A x \in Clients \ {c} : outbox'[x] = outbox[x]
      /\ \A x \in Clients : Len(outbox'[x]) <= QueueSize
  BY <1>1, <1>2 DEF ChannelInv, ChannelTypeOK
<1>4. CASE c \in closed
  BY <1>3, <1>4, ExitKeeps DEF Send
<1>5. CASE c \notin closed
  <2>1. /\ sending[c] = None
        /\ sending' = [sending EXCEPT ![c] = Head(outbox[c])]
        /\ UNCHANGED <<handler, registry, got, peer, closed, state, snapshot, rest, victim>>
    BY <1>5 DEF Send
  <2>2. ChannelTypeOK'
    BY <1>2, <1>3, <2>1 DEF ChannelInv, ChannelTypeOK
  <2>3. RegistryIsLive'
    BY <2>1 DEF ChannelInv, RegistryIsLive
  <2>4. ASSUME NEW b \in Broadcasts, NEW x \in Clients, Served(b, x)
        PROVE  Served(b, x)'
    <3>1. b # None
      BY QueueAssumption, NoneAssumption
    <3>2. sending \in [Clients -> Broadcasts \cup {None}]
      BY DEF ChannelInv, ChannelTypeOK
    <3>3. CASE x = c
      <4>1. sending'[c] = Head(outbox[c])
        BY <2>1, <3>2
      <4> QED
        BY <1>2, <1>3, <2>1, <2>4, <3>1, <3>3, <4>1 DEF Served
    <3>4. CASE x # c
      BY <1>3, <2>1, <2>4, <3>2, <3>4 DEF Served
    <3> QED
      BY <3>3, <3>4
  <2>5. \A b \in Broadcasts : ToSet(snapshot[b]) \subseteq Clients
    BY DEF ToSet, ChannelInv, ChannelTypeOK
  <2>6. WaitingHasServed' /\ ReturnedMeansServed'
    BY <2>1, <2>4, <2>5 DEF ChannelInv, WaitingHasServed, ReturnedMeansServed
  <2> QED
    BY <2>2, <2>3, <2>6 DEF ChannelInv
<1> QED
  BY <1>4, <1>5

LEMMA SentKeeps ==
  ASSUME ChannelInv, NEW c \in Clients, Sent(c)
  PROVE  ChannelInv'
<1> USE SameSequences
<1>1. /\ sending[c] \in Broadcasts /\ got[c] \in Seq(Broadcasts)
      /\ sending \in [Clients -> Broadcasts \cup {None}]
      /\ sending' = [sending EXCEPT ![c] = None]
      /\ UNCHANGED <<handler, registry, outbox, peer, closed, state, snapshot, rest, victim>>
  BY DEF ChannelInv, ChannelTypeOK, Sent
<1>2. /\ Append(got[c], sending[c]) \in Seq(Broadcasts)
      /\ ToSet(Append(got[c], sending[c])) = ToSet(got[c]) \cup {sending[c]}
  BY <1>1, Appending
<1>3. /\ got' \in [Clients -> Seq(Broadcasts)]
      /\ \A x \in Clients \ {c} : got'[x] = got[x]
      /\ peer[c] # "gone" => ToSet(got'[c]) = ToSet(got[c]) \cup {sending[c]}
  BY <1>2 DEF Sent, ChannelInv, ChannelTypeOK
<1>4. ChannelTypeOK'
  BY <1>1, <1>3 DEF ChannelInv, ChannelTypeOK
<1>5. RegistryIsLive'
  BY <1>1 DEF ChannelInv, RegistryIsLive
<1>6. ASSUME NEW b \in Broadcasts, NEW x \in Clients, Served(b, x)
      PROVE  Served(b, x)'
  BY <1>1, <1>3, <1>6 DEF Served
<1>7. \A b \in Broadcasts : ToSet(snapshot[b]) \subseteq Clients
  BY DEF ToSet, ChannelInv, ChannelTypeOK
<1>8. WaitingHasServed' /\ ReturnedMeansServed'
  BY <1>1, <1>6, <1>7 DEF ChannelInv, WaitingHasServed, ReturnedMeansServed
<1> QED
  BY <1>4, <1>5, <1>8 DEF ChannelInv

LEMMA ReceiveKeeps ==
  ASSUME ChannelInv, NEW c \in Clients, Receive(c)
  PROVE  ChannelInv'
BY ExitKeeps DEF Receive, ChannelInv, ChannelTypeOK

LEMMA LeaveClientKeeps ==
  ASSUME ChannelInv, NEW c \in Clients, LeaveClient(c)
  PROVE  ChannelInv'
<1> USE SameSequences DEF ChannelInv, LeaveClient
<1>1. ChannelTypeOK'
  BY DEF ChannelTypeOK
<1>2. RegistryIsLive'
  BY DEF RegistryIsLive
<1>3. \A b \in Broadcasts, x \in Clients : Served(b, x) => Served(b, x)'
  BY DEF Served, ChannelTypeOK
<1>4. \A b \in Broadcasts : ToSet(snapshot[b]) \subseteq Clients
  BY DEF ToSet, ChannelTypeOK
<1>5. WaitingHasServed' /\ ReturnedMeansServed'
  BY <1>3, <1>4 DEF WaitingHasServed, ReturnedMeansServed
<1> QED
  BY <1>1, <1>2, <1>5

LEMMA BeginKeeps ==
  ASSUME ChannelInv, NEW b \in Broadcasts, Begin(b)
  PROVE  ChannelInv'
<1> USE SameSequences
<1>1. /\ registry \in Seq(Clients) /\ snapshot \in [Broadcasts -> Seq(Clients)]
      /\ snapshot' = [snapshot EXCEPT ![b] = registry]
      /\ state[b] = "idle" /\ Serve(b, registry) /\ sockets' = sockets
  BY DEF Begin, ChannelInv, ChannelTypeOK
<1> QED
  BY <1>1, ServingKeeps

LEMMA ResumeKeeps ==
  ASSUME ChannelInv, NEW b \in Broadcasts, Resume(b)
  PROVE  ChannelInv'
<1> USE SameSequences
<1>1. /\ rest[b] \in Seq(Clients) /\ snapshot \in [Broadcasts -> Seq(Clients)]
      /\ snapshot' = snapshot /\ state[b] = "closing" /\ sockets' = sockets
      /\ \A c \in ToSet(snapshot[b]) : c \in ToSet(rest[b]) \/ Served(b, c)
  BY DEF Resume, ChannelInv, ChannelTypeOK, WaitingHasServed
<1>2. CASE Serve(b, rest[b])
  BY <1>1, <1>2, ServingKeeps
<1>3. CASE End(b, "raised") /\ UNCHANGED <<outbox, registry, closed>>
  <2>1. /\ state' = [state EXCEPT ![b] = "raised"]
        /\ rest' = [rest EXCEPT ![b] = <<>>]
        /\ victim' = [victim EXCEPT ![b] = None]
        /\ UNCHANGED <<handler, sending, got, peer, outbox, registry, closed, snapshot>>
    BY <1>1, <1>3 DEF End, sockets
  <2>2. ChannelTypeOK'
    BY <2>1 DEF ChannelInv, ChannelTypeOK
  <2>3. \A x \in Broadcasts : /\ x # b => state'[x] = state[x] /\ rest'[x] = rest[x]
                              /\ x = b => state'[x] = "raised"
    BY <2>1 DEF ChannelInv, ChannelTypeOK
  <2>4. RegistryIsLive'
    BY <2>1, <2>3 DEF ChannelInv, RegistryIsLive
  <2>5. WaitingHasServed' /\ ReturnedMeansServed'
    BY <2>1, <2>3
      DEF ChannelInv, WaitingHasServed, ReturnedMeansServed, Served
  <2> QED
    BY <2>2, <2>4, <2>5 DEF ChannelInv
<1> QED
  BY <1>2, <1>3 DEF Resume

LEMMA CancelKeeps ==
  ASSUME ChannelInv, NEW callers \in SUBSET Broadcasts, Cancel(callers)
  PROVE  ChannelInv'
<1> USE SameSequences
<1>1. UNCHANGED <<handler, sending, got, peer, outbox, registry, closed, snapshot>>
  BY DEF Cancel, sockets
<1>2. \A b \in Broadcasts :
        /\ b \notin callers => state'[b] = state[b] /\ rest'[b] = rest[b]
        /\ b \in callers => state[b] = "closing" /\ state'[b] = "cancelled"
  BY DEF Cancel
<1>3. ChannelTypeOK'
  BY <1>1 DEF Cancel, ChannelInv, ChannelTypeOK
<1>4. RegistryIsLive'
  BY <1>1, <1>2 DEF ChannelInv, RegistryIsLive
<1>5. WaitingHasServed' /\ ReturnedMeansServed'
  BY <1>1, <1>2 DEF ChannelInv, WaitingHasServed, ReturnedMeansServed, Served
<1> QED
  BY <1>3, <1>4, <1>5 DEF ChannelInv

LEMMA ChannelInitHolds == ChannelInit => ChannelInv
<1> SUFFICES ASSUME ChannelInit
             PROVE  ChannelInv
  OBVIOUS
<1> USE SameSequences, QueueAssumption, NoneAssumption DEF ChannelInit
<1>1. ToSet(<<>>) = {} /\ IsInjective(<<>>)
  BY DEF ToSet, IsInjective
<1>2. ChannelTypeOK
  BY DEF ChannelTypeOK
<1>3. RegistryIsLive
  BY <1>1 DEF RegistryIsLive
<1>4. WaitingHasServed /\ ReturnedMeansServed
  BY DEF WaitingHasServed, ReturnedMeansServed
<1> QED
  BY <1>2, <1>3, <1>4 DEF ChannelInv

LEMMA ChannelNextKeeps == ChannelInv /\ [ChannelNext]_channel => ChannelInv'
<1> SUFFICES ASSUME ChannelInv, [ChannelNext]_channel
             PROVE  ChannelInv'
  OBVIOUS
<1>1. ASSUME NEW c \in Clients,
             Connect(c) \/ Send(c) \/ Sent(c) \/ Receive(c) \/ LeaveClient(c)
      PROVE  ChannelInv'
  BY <1>1, ConnectKeeps, SendKeeps, SentKeeps, ReceiveKeeps, LeaveClientKeeps
<1>2. ASSUME NEW b \in Broadcasts, Begin(b) \/ Resume(b)
      PROVE  ChannelInv'
  BY <1>2, BeginKeeps, ResumeKeeps
<1>3. ASSUME NEW callers \in SUBSET Broadcasts, Cancel(callers)
      PROVE  ChannelInv'
  BY <1>3, CancelKeeps
<1>4. CASE UNCHANGED channel
  BY <1>4 DEF channel, ChannelInv, ChannelTypeOK, RegistryIsLive, WaitingHasServed,
    ReturnedMeansServed, Served
<1> QED
  BY <1>1, <1>2, <1>3, <1>4 DEF ChannelNext

LEMMA ChannelInvariance == ChannelSpec => []ChannelInv
BY ChannelInitHolds, ChannelNextKeeps, PTL DEF ChannelSpec

\* No dead socket stays in the registry, and a live one leaves it only by eviction,
\* for any number of clients and broadcasts, in any order of joins, evictions,
\* departures and cancelled broadcasts.
THEOREM RegistryHoldsTheLive == ChannelSpec => []RegistryIsLive
<1>1. ChannelInv => RegistryIsLive
  BY DEF ChannelInv
<1> QED
  BY <1>1, ChannelInvariance, PTL

\* A broadcast that returns has served each client it found: the snapshot it walks
\* through is old, but nobody in it is passed over.
THEOREM ReturnsHaveServed == ChannelSpec => []ReturnedMeansServed
<1>1. ChannelInv => ReturnedMeansServed
  BY DEF ChannelInv
<1> QED
  BY <1>1, ChannelInvariance, PTL

\* A full queue is never put to, so that no broadcast waits for a reader.
THEOREM ChannelTypeCorrect == ChannelSpec => []ChannelTypeOK
<1>1. ChannelInv => ChannelTypeOK
  BY DEF ChannelInv
<1> QED
  BY <1>1, ChannelInvariance, PTL

----------------------------------------------------------------------------
(* A stream and its channel together.                                      *)

\* Each step of the whole is a step of the stream or leaves it alone, and the same
\* for the channel.
LEMMA LiveStepsAreSteps ==
  ASSUME SourcesBroadcast, [LiveNext]_liveVars
  PROVE  [Next]_vars /\ [ChannelNext]_channel
<1> USE DEF Next, Produce, SourcesBroadcast, OtherBroadcasts
<1>1. CASE StreamAlone
  BY <1>1 DEF StreamAlone, channel
<1>2. CASE ChannelAlone
  BY <1>2 DEF ChannelAlone, ChannelNext
<1>3. CASE StoppedLive
  <2>1. {s \in Sources : task[s] = "closing"} \in SUBSET Broadcasts
    OBVIOUS
  <2> QED
    BY <1>3, <2>1 DEF StoppedLive, ChannelNext
<1>4. ASSUME NEW s \in Sources, FetchedLive(s)
      PROVE  [Next]_vars /\ [ChannelNext]_channel
  BY <1>4 DEF FetchedLive, ChannelNext
<1>5. ASSUME NEW s \in Sources, BroadcastedLive(s)
      PROVE  [Next]_vars /\ [ChannelNext]_channel
  BY <1>5 DEF BroadcastedLive, ChannelNext
<1>6. CASE UNCHANGED liveVars
  BY <1>6 DEF liveVars, channel
<1> QED
  BY <1>1, <1>2, <1>3, <1>4, <1>5, <1>6 DEF LiveNext

\* The stream as AggregateStream describes it and the channel as WebSockets does.
THEOREM BothImplemented == ASSUME SourcesBroadcast PROVE LiveSpec => Spec /\ ChannelSpec
<1>1. LiveInit => Init /\ ChannelInit
  BY DEF LiveInit
<1> QED
  BY <1>1, LiveStepsAreSteps, PTL DEF LiveSpec, Spec, ChannelSpec

\* A broadcast's step is seen in its own state only.
LEMMA BroadcastsMoveThemselves ==
  ASSUME ChannelTypeOK, NEW b \in Broadcasts, Begin(b) \/ Resume(b)
  PROVE  \E how \in {"done", "raised", "closing"} : state' = [state EXCEPT ![b] = how]
BY DEF Begin, Resume, Serve, Close, End

\* A task that leaves its broadcast early is cancelled, and the broadcast with it.
LEMMA StopsKeepCallers ==
  ASSUME SourcesBroadcast, IInv, ChannelTypeOK, TasksAreCallers, StoppedLive
  PROVE  TasksAreCallers'
<1>1. task' = [s \in Sources |-> IF task[s] \in TaskEnded THEN task[s] ELSE "stopped"]
  BY DEF StoppedLive, Abort, StopProducer, StopTasks
<1>2. \A s \in Sources : state'[s] = IF task[s] = "closing" THEN "cancelled" ELSE state[s]
  BY DEF StoppedLive, Cancel, SourcesBroadcast
<1>3. \A s \in Sources : task[s] \in {"none", "fetching", "closing"} \cup TaskEnded
  BY DEF IInv, TypeOK
<1> QED
  BY <1>1, <1>2, <1>3 DEF TasksAreCallers, TaskEnded

LEMMA LiveStepsKeepCallers ==
  ASSUME SourcesBroadcast, IInv, ChannelTypeOK, TasksAreCallers,
         [LiveNext]_liveVars
  PROVE  TasksAreCallers'
<1> USE QueueAssumption, NoneAssumption DEF SourcesBroadcast, OtherBroadcasts
<1>1. CASE StreamAlone
  <2>1. state' = state
    BY <1>1 DEF StreamAlone, channel
  <2>2. \/ task' = task
        \/ /\ \A s \in Sources : task[s] = "none"
           /\ task' = [s \in Sources |-> "fetching"]
    BY <1>1 DEF StreamAlone, Open, Generate, Create, Start, Loop, Get, Save, Join, Finish,
      Return, Cleanup, CommitFails, Leave, production, IInv, InOrder, Beginning
  <2> QED
    BY <2>1, <2>2 DEF TasksAreCallers
<1>2. CASE ChannelAlone
  <2>1. task' = task
    BY <1>2 DEF ChannelAlone, vars
  <2>2. \A s \in Sources : state'[s] = state[s]
    <3>1. CASE \E c \in Clients : \/ Connect(c) \/ Send(c) \/ Sent(c)
                                  \/ Receive(c) \/ LeaveClient(c)
      BY <3>1 DEF Connect, Send, Sent, Receive, LeaveClient
    <3>2. CASE \E b \in OtherBroadcasts : Begin(b) \/ Resume(b)
      <4>1. PICK b \in OtherBroadcasts : Begin(b) \/ Resume(b)
        BY <3>2
      <4>2. \E how \in {"done", "raised", "closing"} : state' = [state EXCEPT ![b] = how]
        BY <4>1, BroadcastsMoveThemselves
      <4> QED
        BY <4>2 DEF ChannelTypeOK
    <3>3. CASE \E callers \in SUBSET OtherBroadcasts : Cancel(callers)
      BY <3>3 DEF Cancel
    <3> QED
      BY <1>2, <3>1, <3>2, <3>3 DEF ChannelAlone
  <2> QED
    BY <2>1, <2>2 DEF TasksAreCallers
<1>3. CASE StoppedLive
  BY <1>3, StopsKeepCallers
<1>4. ASSUME NEW s \in Sources, FetchedLive(s)
      PROVE  TasksAreCallers'
  <2>1. PICK how \in {"done", "raised", "closing"} : state' = [state EXCEPT ![s] = how]
    BY <1>4, BroadcastsMoveThemselves DEF FetchedLive
  <2>2. state'[s] = how /\ \A x \in Sources : x # s => state'[x] = state[x]
    BY <2>1 DEF ChannelTypeOK
  <2>3. task'[s] = how /\ \A x \in Sources : x # s => task'[x] = task[x]
    BY <1>4, <2>2 DEF FetchedLive, Fetched, EndTask, IInv, TypeOK
  <2> QED
    BY <2>2, <2>3 DEF TasksAreCallers
<1>5. ASSUME NEW s \in Sources, BroadcastedLive(s)
      PROVE  TasksAreCallers'
  <2>1. PICK how \in {"done", "raised", "closing"} : state' = [state EXCEPT ![s] = how]
    BY <1>5, BroadcastsMoveThemselves DEF BroadcastedLive
  <2>2. state'[s] = how /\ \A x \in Sources : x # s => state'[x] = state[x]
    BY <2>1 DEF ChannelTypeOK
  <2>3. /\ \A x \in Sources : x # s => task'[x] = task[x]
        /\ \/ how = "closing" /\ task'[s] = "closing"
           \/ how = "done" /\ task'[s] = "late"
           \/ how = "raised" /\ task'[s] = "raised"
    BY <1>5, <2>2 DEF BroadcastedLive, Broadcasted, EndTask, vars, IInv, TypeOK
  <2> QED
    BY <2>2, <2>3 DEF TasksAreCallers
<1>6. CASE UNCHANGED liveVars
  BY <1>6 DEF liveVars, vars, channel, TasksAreCallers
<1> QED
  BY <1>1, <1>2, <1>3, <1>4, <1>5, <1>6 DEF LiveNext

\* Where a task stands tells where its broadcast stands.
THEOREM CallersInvariance ==
  ASSUME SourcesBroadcast PROVE LiveSpec => []TasksAreCallers
<1>1. LiveInit => TasksAreCallers
  BY DEF LiveInit, Init, ChannelInit, TasksAreCallers, SourcesBroadcast
<1>2. ChannelInv => ChannelTypeOK
  BY DEF ChannelInv
<1>3. IInv /\ ChannelTypeOK /\ TasksAreCallers /\ [LiveNext]_liveVars => TasksAreCallers'
  BY LiveStepsKeepCallers
<1> QED
  BY <1>1, <1>2, <1>3, BothImplemented, Invariance, ChannelInvariance, PTL DEF LiveSpec

\* A request is completed only after each of its results has been queued for every
\* client that was connected when it came, evicted and departed ones excepted.
THEOREM CompletionsWereBroadcast ==
  ASSUME SourcesBroadcast PROVE LiveSpec => []CompletedWasBroadcast
<1>1. IInv /\ ChannelInv /\ TasksAreCallers => CompletedWasBroadcast
  <2> SUFFICES ASSUME IInv, ChannelInv, TasksAreCallers, row = "COMPLETED", NEW s \in Sources,
                      NEW c \in ToSet(snapshot[s])
               PROVE  Served(s, c)
    BY DEF CompletedWasBroadcast
  <2>1. state[s] = "done"
    BY DEF IInv, Stored, TasksAreCallers
  <2> QED
    BY <2>1, SameSequences DEF ChannelInv, ReturnedMeansServed, SourcesBroadcast
<1> QED
  BY <1>1, CallersInvariance, BothImplemented, Invariance, ChannelInvariance, PTL
=============================================================================
