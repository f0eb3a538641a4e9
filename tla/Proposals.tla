------------------------------- MODULE Proposals -------------------------------
(***************************************************************************)
(* Proposals to a lead, from draft to the client's decision                *)
(* (app/services/proposals.py, app/routes/proposals.py).                   *)
(*                                                                         *)
(* A page shows the proposal with its row_version and every form on it     *)
(* sends that version back, at any later time.  The handler reads the row  *)
(* in autocommit mode, refuses what it must, and its UPDATE repeats what   *)
(* its WHERE clause says.                                                  *)
(***************************************************************************)
EXTENDS Naturals, FiniteSets

CONSTANTS
  ProposalIds,
  Offers,           \* [price, link] a form may carry; price NoPrice, link FALSE: not given
  NoPrice,
  OwnerTabs,        \* browser tabs of people with owner authority
  LastProposalVersion  \* bound: row versions

DecisionStatuses == {"accepted", "rejected", "expired"}

ASSUME ProposalsAssumption ==
  /\ IsFiniteSet(OwnerTabs)
  /\ Offers # {} /\ \A o \in Offers : o.link \in BOOLEAN
  /\ LastProposalVersion \in Nat \ {0}

VARIABLES
  proposal,      \* table proposals: status, decision, offer and row_version
  proposalTab,   \* the tabs: the form they show or submit
  approvedOffer  \* history: the offer as it stood when it was approved

proposalVars == <<proposal, proposalTab, approvedOffer>>

AnyOffer == CHOOSE o \in Offers : TRUE
NoProposal == [status |-> "none", decision |-> "none", offer |-> AnyOffer, version |-> 0]
NoTab == [stage |-> "closed", id |-> 0, seen |-> NoProposal]

ProposalInit ==
  /\ proposal = [p \in ProposalIds |-> NoProposal]
  /\ proposalTab = [t \in OwnerTabs |-> NoTab]
  /\ approvedOffer = [p \in ProposalIds |-> AnyOffer]

ProposalsCreated == {p \in ProposalIds : proposal[p].status # "none"}

NextStatus == [draft |-> "internal_review", internal_review |-> "approved", approved |-> "sent"]
EditableStatuses == {"draft", "internal_review"}

\* create_proposal
CreateProposal(p) ==
  /\ proposal[p].status = "none"
  /\ \E o \in Offers :
       proposal' = [proposal EXCEPT ![p] = [NoProposal EXCEPT !.status = "draft",
                                              !.offer = o, !.version = 1]]
  /\ UNCHANGED <<proposalTab, approvedOffer>>

\* The detail page, with a form for each operation.
ShowProposal(t) ==
  /\ proposalTab[t].stage = "closed"
  /\ \E p \in ProposalsCreated :
       proposalTab' = [proposalTab EXCEPT ![t] = [stage |-> "form", id |-> p,
                                                    seen |-> proposal[p]]]
  /\ UNCHANGED <<proposal, approvedOffer>>

\* The form is never sent, or the handler refuses it: no row changes.
CloseProposal(t) ==
  /\ proposalTab[t].stage # "closed"
  /\ proposalTab' = [proposalTab EXCEPT ![t] = NoTab]
  /\ UNCHANGED <<proposal, approvedOffer>>

\* The row as get_proposal finds it has the version of the form.
AsShown(t) ==
  /\ proposalTab[t].stage # "closed"
  /\ proposal[proposalTab[t].id].version = proposalTab[t].seen.version

ProposalStage(t, from, to) ==
  /\ proposalTab[t].stage = from
  /\ proposalTab' = [proposalTab EXCEPT ![t].stage = to]
  /\ UNCHANGED <<proposal, approvedOffer>>

\* Mutant: an approved proposal can be edited.
CheckEditAnyStatus(t) ==
  /\ AsShown(t)
  /\ ProposalStage(t, "form", "edit")

\* update_proposal, up to its UPDATE.
CheckEdit(t) ==
  /\ AsShown(t)
  /\ proposal[proposalTab[t].id].status \in EditableStatuses
  /\ ProposalStage(t, "form", "edit")

\* send_proposal looks for price and link in a read of its own, before
\* _advance_status reads the version.
CheckPriceAndLink(t) ==
  LET o == proposal[proposalTab[t].id].offer
  IN  /\ proposalTab[t].stage = "form"
      /\ o.price # NoPrice /\ o.link
      /\ ProposalStage(t, "form", "priced")

\* _advance_status, up to its UPDATE; sending needs the price first.
CheckAdvance(t) ==
  /\ AsShown(t)
  /\ \/ /\ proposal[proposalTab[t].id].status \in EditableStatuses
        /\ ProposalStage(t, "form", proposal[proposalTab[t].id].status)
     \/ /\ proposal[proposalTab[t].id].status = "approved"
        /\ ProposalStage(t, "priced", "approved")

\* record_proposal_decision, up to its UPDATE.
CheckDecision(t) ==
  /\ AsShown(t)
  /\ proposal[proposalTab[t].id].status = "sent"
  /\ proposal[proposalTab[t].id].decision = "none"
  /\ ProposalStage(t, "form", "decide")

\* Every UPDATE asks for the version of the form and raises it.
WriteProposal(t, row) ==
  LET p == proposalTab[t].id
  IN  /\ AsShown(t) /\ proposal[p].version < LastProposalVersion
      /\ proposal' = [proposal EXCEPT ![p] = [row EXCEPT !.version = @ + 1]]
      /\ proposalTab' = [proposalTab EXCEPT ![t] = NoTab]

SaveEdit(t) ==
  /\ proposalTab[t].stage = "edit"
  /\ \E o \in Offers : WriteProposal(t, [proposal[proposalTab[t].id] EXCEPT !.offer = o])
  /\ UNCHANGED approvedOffer

\* The UPDATE of _advance_status also asks for the status it was called for.
Advance(t) ==
  LET p == proposalTab[t].id
      status == proposalTab[t].stage
  IN  /\ status \in DOMAIN NextStatus
      /\ proposal[p].status = status
      /\ WriteProposal(t, [proposal[p] EXCEPT !.status = NextStatus[status]])
      /\ approvedOffer' = IF NextStatus[status] = "approved"
                          THEN [approvedOffer EXCEPT ![p] = proposal[p].offer]
                          ELSE approvedOffer

SaveDecision(t) ==
  LET p == proposalTab[t].id
  IN  /\ proposalTab[t].stage = "decide"
      /\ proposal[p].status = "sent" /\ proposal[p].decision = "none"
      /\ \E d \in DecisionStatuses : WriteProposal(t, [proposal[p] EXCEPT !.decision = d])
      /\ UNCHANGED approvedOffer

ProposalNext ==
  \/ \E p \in ProposalIds : CreateProposal(p)
  \/ \E t \in OwnerTabs :
       \/ ShowProposal(t) \/ CloseProposal(t)
       \/ CheckEdit(t) \/ SaveEdit(t)
       \/ CheckPriceAndLink(t) \/ CheckAdvance(t) \/ Advance(t)
       \/ CheckDecision(t) \/ SaveDecision(t)

ProposalSpec == ProposalInit /\ [][ProposalNext]_proposalVars

-----------------------------------------------------------------------------
(* Properties.                                                             *)

ProposalStatuses == {"draft", "internal_review", "approved", "sent"}

ProposalRow ==
  [status : {"none"} \cup ProposalStatuses, decision : {"none"} \cup DecisionStatuses,
   offer : Offers, version : 0..LastProposalVersion]

\* The variables have their types.
ProposalTypeOK ==
  /\ proposal \in [ProposalIds -> ProposalRow]
  /\ approvedOffer \in [ProposalIds -> Offers]
  /\ \A t \in OwnerTabs :
       /\ proposalTab[t].seen \in ProposalRow
       /\ proposalTab[t].stage # "closed" => proposalTab[t].id \in ProposalsCreated
       /\ proposalTab[t].stage \in {"closed", "form", "edit", "priced", "decide"}
                                   \cup DOMAIN NextStatus

\* What was approved is what stands, is sent and is decided on: no edit that was
\* checked before the approval comes after it (update_proposal's UPDATE does not
\* ask for the status, only for the version).
ApprovedOfferStands ==
  \A p \in ProposalIds :
    proposal[p].status \in {"approved", "sent"} => proposal[p].offer = approvedOffer[p]

\* A proposal that was sent has a price and a link, although send_proposal looks
\* for them in another read than the one that finds it approved.
SentIsPriced ==
  \A p \in ProposalIds :
    /\ proposal[p].status = "sent" => proposal[p].offer.price # NoPrice /\ proposal[p].offer.link
    /\ proposal[p].decision # "none" => proposal[p].status = "sent"

\* A status goes one step forward, a decision is made once, and nobody replaces
\* a row that was not on the page in front of him.
ProposalChangesAreSeen ==
  [][\A p \in ProposalsCreated : proposal'[p] # proposal[p] =>
       /\ \E t \in OwnerTabs : proposalTab[t].id = p /\ proposalTab[t].seen = proposal[p]
       /\ proposal'[p].status \in {proposal[p].status} \cup
            (IF proposal[p].status = "sent" THEN {} ELSE {NextStatus[proposal[p].status]})
       /\ proposal[p].decision \in {"none", proposal'[p].decision}]_proposalVars

\* What leaves the house is what was approved, with its price and link.
OfferStands == ApprovedOfferStands /\ SentIsPriced
=============================================================================
