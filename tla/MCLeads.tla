-------------------------------- MODULE MCLeads --------------------------------
(* Leads on small instances; the .cfg file gives the other constants.         *)
EXTENDS Leads, TLC

VARIABLE room  \* how many versions each lead may reach in this behaviour

\* One lead through its whole life; two leads that compete for key and identity.
Rooms == {<<5, 0>>, <<3, 1>>}

\* No lead leaves both rooms.
Limit == <<5, 1>>

LeadsInit == Init /\ room \in Rooms

LeadsNext ==
  /\ Next
  /\ \A l \in Leads : lead'[l].version <= room[l]
  /\ UNCHANGED room

LeadsSpec == LeadsInit /\ [][LeadsNext]_<<vars, room>>

Symmetry == Permutations(Forms) \cup Permutations(Keys) \cup Permutations(Identities)
================================================================================
