---------------------------- MODULE SharedFlights ----------------------------
(***************************************************************************)
(* What a coalescing cache promises to its callers: for one key there is   *)
(* at most one flight at a time, it goes for a value only when none is     *)
(* kept, and whoever is aboard gets what the flight brings, or its         *)
(* failure. A caller may also ask for a value of its own.                  *)
(***************************************************************************)
CONSTANTS Callers, Keys, Values, None

VARIABLES
  place,    \* caller -> "new", "out", "aboard", "alone" or "gone"
  key,      \* caller -> the key it asks for, or None
  boarded,  \* caller -> the flight it is aboard of, or None
  told,     \* caller -> the value it was given, or None
  flight,   \* key -> the flight under way, named after who started it, or None
  stage,    \* flight -> "none", "checking", "fetching", "done" or "failed"
  value,    \* flight -> what it brought, or None
  kept      \* key -> the value kept for it, or None

flightVars == <<place, key, boarded, told, flight, stage, value, kept>>

Init ==
  /\ place = [c \in Callers |-> "new"]
  /\ key = [c \in Callers |-> None]
  /\ boarded = [c \in Callers |-> None]
  /\ told = [c \in Callers |-> None]
  /\ flight = [k \in Keys |-> None]
  /\ stage = [c \in Callers |-> "none"]
  /\ value = [c \in Callers |-> None]
  /\ kept = [k \in Keys |-> None]

Ask(c, k) ==
  /\ place[c] = "new"
  /\ \E p \in {"out", "alone"} : place' = [place EXCEPT ![c] = p]
  /\ key' = [key EXCEPT ![c] = k]
  /\ UNCHANGED <<boarded, told, flight, stage, value, kept>>

Hit(c) ==
  /\ place[c] = "out"
  /\ kept[key[c]] # None
  /\ place' = [place EXCEPT ![c] = "gone"]
  /\ told' = [told EXCEPT ![c] = kept[key[c]]]
  /\ UNCHANGED <<key, boarded, flight, stage, value, kept>>

TakeOff(c) ==
  /\ place[c] = "out"
  /\ flight[key[c]] = None
  /\ place' = [place EXCEPT ![c] = "aboard"]
  /\ boarded' = [boarded EXCEPT ![c] = c]
  /\ flight' = [flight EXCEPT ![key[c]] = c]
  /\ stage' = [stage EXCEPT ![c] = "checking"]
  /\ UNCHANGED <<key, told, value, kept>>

\* A flight that has landed takes callers only while somebody is still aboard.
Board(c, f) ==
  /\ place[c] = "out"
  /\ key[f] = key[c]
  /\ \/ flight[key[c]] = f
     \/ /\ flight[key[c]] = None
        /\ stage[f] \in {"done", "failed"}
        /\ \E x \in Callers : place[x] = "aboard" /\ boarded[x] = f
  /\ place' = [place EXCEPT ![c] = "aboard"]
  /\ boarded' = [boarded EXCEPT ![c] = f]
  /\ UNCHANGED <<key, told, flight, stage, value, kept>>

\* The flight goes for its value, as none is kept.
Fetch(f) ==
  /\ stage[f] = "checking"
  /\ flight[key[f]] = f
  /\ kept[key[f]] = None
  /\ stage' = [stage EXCEPT ![f] = "fetching"]
  /\ UNCHANGED <<place, key, boarded, told, flight, value, kept>>

Land(f, how) ==
  /\ stage[f] \in {"checking", "fetching"}
  /\ flight[key[f]] = f
  /\ flight' = [flight EXCEPT ![key[f]] = None]
  /\ stage' = [stage EXCEPT ![f] = how]
  /\ UNCHANGED <<place, key, boarded, told>>

\* It brings what is kept, or the value it went for, which is kept from then on.
Bring(f) ==
  /\ Land(f, "done")
  /\ \/ /\ stage[f] = "checking"
        /\ kept[key[f]] # None
        /\ value' = [value EXCEPT ![f] = kept[key[f]]]
        /\ UNCHANGED kept
     \/ /\ stage[f] = "fetching"
        /\ \E v \in Values : /\ value' = [value EXCEPT ![f] = v]
                             /\ kept' = [kept EXCEPT ![key[f]] = v]

\* A flight that fails may have left its value.
Crash(f) ==
  /\ Land(f, "failed")
  /\ \/ UNCHANGED kept
     \/ /\ stage[f] = "fetching"
        /\ \E v \in Values : kept' = [kept EXCEPT ![key[f]] = v]
  /\ UNCHANGED value

Arrive(c) ==
  /\ place[c] = "aboard"
  /\ \/ stage[boarded[c]] = "done" /\ told' = [told EXCEPT ![c] = value[boarded[c]]]
     \/ stage[boarded[c]] = "failed" /\ UNCHANGED told
  /\ place' = [place EXCEPT ![c] = "gone"]
  /\ boarded' = [boarded EXCEPT ![c] = None]
  /\ UNCHANGED <<key, flight, stage, value, kept>>

\* Nobody gets off a flight under way.
GiveUp(c) ==
  /\ \/ place[c] = "out"
     \/ place[c] = "aboard" /\ stage[boarded[c]] \in {"done", "failed"}
  /\ place' = [place EXCEPT ![c] = "gone"]
  /\ boarded' = [boarded EXCEPT ![c] = None]
  /\ UNCHANGED <<key, told, flight, stage, value, kept>>

\* A value of its own, that nobody shares and nothing keeps, or none.
Alone(c) ==
  /\ place[c] = "alone"
  /\ place' = [place EXCEPT ![c] = "gone"]
  /\ \/ \E v \in Values : /\ told' = [told EXCEPT ![c] = v]
                          /\ value' = [value EXCEPT ![c] = v]
                          /\ stage' = [stage EXCEPT ![c] = "done"]
     \/ /\ stage' = [stage EXCEPT ![c] = "failed"]
        /\ UNCHANGED <<told, value>>
  /\ UNCHANGED <<key, boarded, flight, kept>>

Drop(k) ==
  /\ kept[k] # None
  /\ kept' = [kept EXCEPT ![k] = None]
  /\ UNCHANGED <<place, key, boarded, told, flight, stage, value>>

Next ==
  \/ \E c \in Callers :
       \/ \E k \in Keys : Ask(c, k)
       \/ \E f \in Callers : Board(c, f)
       \/ Hit(c) \/ TakeOff(c) \/ Arrive(c) \/ GiveUp(c) \/ Alone(c)
       \/ Fetch(c) \/ Bring(c) \/ Crash(c)
  \/ \E k \in Keys : Drop(k)

Spec == Init /\ [][Next]_flightVars
=============================================================================
