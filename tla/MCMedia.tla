------------------------------ MODULE MCMedia ------------------------------
(* Small instances of Media for TLC. *)
EXTENDS Media

CONSTANTS r1, r2

Range(form, first, last) == [form |-> form, first |-> first, last |-> last]

Absent == Range("absent", 0, 0)
Malformed == Range("malformed", 0, 0)

Local(kind, range) == [kind |-> kind, range |-> range, url |-> "malformed"]
Remote(range, url) == [kind |-> "remote", range |-> range, url |-> url]

\* One request tries the headers; the other is there to be in its way.
MCCalls ==
  [r \in Streams |->
     IF r = r1
     THEN {Local("progressive", Absent), Remote(Absent, "private")}
            \cup {Local("seekable", range) :
                   range \in {Malformed, Range("suffix", 0, 2), Range("suffix", 0, 9),
                              Range("open", 1, 0), Range("closed", 0, 0), Range("closed", 1, 9),
                              Range("closed", 2, 1)}}
            \cup {Remote(range, "public") :
                   range \in {Absent, Range("suffix", 0, 2), Range("closed", 1, 9),
                              Range("bare", 1, 0)}}
     ELSE {Remote(Absent, "public")}]
============================================================================
