----------------------------- MODULE TaskQueue ------------------------------
(***************************************************************************)
(* What the relay promises about a task, without streams, messages and     *)
(* crashes: it waits, is claimed by one agent that works on one task at a  *)
(* time, goes through the steps the agent reports, and ends for good; or   *)
(* the agent is lost and the task waits again.  RelaySessions is shown to  *)
(* implement this.                                                         *)
(***************************************************************************)
CONSTANTS Task, Agent, NoAgent

VARIABLES
    phase,     \* [Task -> Phase]
    claimant   \* [Task -> Agent \cup {NoAgent}]

vars == <<phase, claimant>>

Claimed == {"assigned", "pulling", "pushing"}
Ended == {"done", "failed"}
Phase == {"absent", "waiting"} \cup Claimed \cup Ended

TypeOK == /\ phase \in [Task -> Phase]
          /\ claimant \in [Task -> Agent \cup {NoAgent}]

Init == /\ phase = [t \in Task |-> "absent"]
        /\ claimant = [t \in Task |-> NoAgent]

Submit(ts) ==
    /\ \A t \in ts : phase[t] = "absent"
    /\ phase' = [t \in Task |-> IF t \in ts THEN "waiting" ELSE phase[t]]
    /\ UNCHANGED claimant

Claim(t, a) ==
    /\ phase[t] = "waiting"
    /\ \A u \in Task : claimant[u] # a
    /\ phase' = [phase EXCEPT ![t] = "assigned"]
    /\ claimant' = [claimant EXCEPT ![t] = a]

Advance(t) ==
    /\ \/ phase[t] = "assigned" /\ phase' = [phase EXCEPT ![t] = "pulling"]
       \/ phase[t] = "pulling" /\ phase' = [phase EXCEPT ![t] = "pushing"]
    /\ UNCHANGED claimant

Finish(t) ==
    /\ \/ phase[t] = "pushing" /\ phase' = [phase EXCEPT ![t] = "done"]
       \/ phase[t] \in {"pulling", "pushing"} /\ phase' = [phase EXCEPT ![t] = "failed"]
    /\ claimant' = [claimant EXCEPT ![t] = NoAgent]

\* The claimant is lost.
Release(t) ==
    /\ phase[t] \in Claimed
    /\ phase' = [phase EXCEPT ![t] = "waiting"]
    /\ claimant' = [claimant EXCEPT ![t] = NoAgent]

Next ==
    \/ \E ts \in SUBSET Task : Submit(ts)
    \/ \E t \in Task : \/ \E a \in Agent : Claim(t, a)
                       \/ Advance(t)
                       \/ Finish(t)
                       \/ Release(t)

Spec == Init /\ [][Next]_vars
=============================================================================
