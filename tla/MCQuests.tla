-------------------------------- MODULE MCQuests --------------------------------
(* Quests on small instances; the .cfg files give the constants.           *)
EXTENDS QuestsClaims, TLC

\* Quests and requests are interchangeable.
QuestSymmetry == Permutations(QuestIds) \cup Permutations(Requests)

MCProgresses == {-20, 40, 150}
=============================================================================
