------------------------------ MODULE QuestsClaims ------------------------------
(***************************************************************************)
(* What PROJECT.md says of experience points and quests, and what          *)
(* overlapping requests do to it.  A run finds each claim violated.        *)
(***************************************************************************)
EXTENDS Quests

\* PROJECT.md: "Quest-completion XP must be awarded exactly once."
\* Here: the experience a person has is what the completed quests awarded.
XpAwardedExactlyOnce == game.total = Cardinality(Points(ledger))

\* PROJECT.md: the quest engine has an "immutable completion/XP path".
\* Here: once a quest is completed no request changes its status or progress.
CompletionImmutable ==
  [][\A q \in QuestIds : task[q].status = "completed" =>
       task'[q].status = "completed" /\ task'[q].progress = 100]_vars
=============================================================================
