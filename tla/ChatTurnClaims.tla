---------------------------- MODULE ChatTurnClaims ----------------------------
(***************************************************************************)
(* What comments and PROJECT.md say of a chat turn and the code does not   *)
(* keep.  Each claim is checked by a run that finds it violated.           *)
(***************************************************************************)
EXTENDS ChatTurn

\* chat_orchestrator.py: "Every outcome -- including disabled AI, exhausted
\* budget, and a provider failure -- finalizes the run as 'completed' with a
\* safe fallback reply".  Here: no connection ever sees a run still running.
EveryOutcomeFinalizes == \A t \in Turns : db.run[t] # "running"
=============================================================================
