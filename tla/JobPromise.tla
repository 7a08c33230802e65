----------------------------- MODULE JobPromise -----------------------------
(***************************************************************************)
(* What a client of the job service can rely on, seen from the outside: a  *)
(* job is open until it is closed once, with an answer that fits the layer *)
(* it left.  A closed job never opens again and its layer is not touched;  *)
(* only a kill request that was already on its way may still reword the    *)
(* answer.  A job whose worker is lost promises nothing.                   *)
(***************************************************************************)
CONSTANT Jobs

VARIABLES
  phase,    \* absent, open, closed or lost
  answer,   \* the final status_simple, once closed
  layer     \* has the closed job left a layer?

vars == <<phase, answer, layer>>

Init ==
  /\ phase = [j \in Jobs |-> "absent"]
  /\ answer = [j \in Jobs |-> "none"]
  /\ layer = [j \in Jobs |-> FALSE]

Submit(j) ==
  /\ phase[j] = "absent"
  /\ phase' = [phase EXCEPT ![j] = "open"]
  /\ UNCHANGED <<answer, layer>>

Close(j, a, l) ==
  /\ phase[j] = "open"
  /\ phase' = [phase EXCEPT ![j] = "closed"]
  /\ answer' = [answer EXCEPT ![j] = a]
  /\ layer' = [layer EXCEPT ![j] = l]

Deliver(j) == Close(j, "finished", TRUE)
Refuse(j) == Close(j, "failed", FALSE)
Stop(j) == \E l \in BOOLEAN : Close(j, "killed", l)

LateKill(j) ==
  /\ phase[j] = "closed"
  /\ answer' = [answer EXCEPT ![j] = "killed"]
  /\ UNCHANGED <<phase, layer>>

Lose(j) ==
  /\ phase[j] = "open"
  /\ phase' = [phase EXCEPT ![j] = "lost"]
  /\ UNCHANGED <<answer, layer>>

Next ==
  \E j \in Jobs :
    Submit(j) \/ Deliver(j) \/ Refuse(j) \/ Stop(j) \/ LateKill(j) \/ Lose(j)

Spec == Init /\ [][Next]_vars
============================================================================
