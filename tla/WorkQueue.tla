----------------------------- MODULE WorkQueue -----------------------------
(***************************************************************************)
(* What the job queue promises to its workers: a job is handed out at most *)
(* once, in one step, to a claim that had none, and never taken back.      *)
(***************************************************************************)
CONSTANTS Jobs, Claims, None

VARIABLES
  state,   \* job -> "absent", "queued", "running" or "done"
  holder,  \* job -> the claim it was handed to, or None
  given    \* claim -> the job its client was told of, or None

workVars == <<state, holder, given>>

Init ==
  /\ state = [j \in Jobs |-> "absent"]
  /\ holder = [j \in Jobs |-> None]
  /\ given = [c \in Claims |-> None]

Enqueue(j) ==
  /\ state[j] = "absent"
  /\ state' = [state EXCEPT ![j] = "queued"]
  /\ UNCHANGED <<holder, given>>

\* The client may never learn of the job it was given.
Hand(c, j) ==
  /\ state[j] = "queued"
  /\ \A i \in Jobs : holder[i] # c
  /\ state' = [state EXCEPT ![j] = "running"]
  /\ holder' = [holder EXCEPT ![j] = c]
  /\ given' \in {given, [given EXCEPT ![c] = j]}

\* Anyone may call a job done, also one that nobody has taken yet.
Finish(j) ==
  /\ state[j] \in {"queued", "running"}
  /\ state' = [state EXCEPT ![j] = "done"]
  /\ UNCHANGED <<holder, given>>

Next ==
  \E j \in Jobs : Enqueue(j) \/ Finish(j) \/ \E c \in Claims : Hand(c, j)

Spec == Init /\ [][Next]_workVars
============================================================================
