------------------------------ MODULE MCChatTurn ------------------------------
(* ChatTurn on small instances; the .cfg files give the constants.         *)
EXTENDS ChatTurnClaims, TLC

\* Requests are interchangeable: they differ only in what their form carries.
RequestSymmetry == Permutations(Requests)
=============================================================================
