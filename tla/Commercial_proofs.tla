--------------------------- MODULE Commercial_proofs ---------------------------
(***************************************************************************)
(* That proposals, delivery, billing and the library keep their promises,  *)
(* for any number of tabs, rows, versions and worker threads.              *)
(*                                                                         *)
(* All four modules take a page, a check and a write as separate steps,    *)
(* and the writes repeat only a part of the check.  The argument is the    *)
(* same in each: a row keeps its version only as long as it keeps its      *)
(* content, so what was found at the version of the form still holds when  *)
(* the version is found again.                                             *)
(***************************************************************************)
EXTENDS MCCommercial, Sums_proofs, SequenceTheorems

-----------------------------------------------------------------------------
(* Proposals.                                                              *)

ProposalStages == {"closed", "form", "edit", "priced", "decide"} \cup DOMAIN NextStatus

ProposalTabRow == [stage : ProposalStages, id : ProposalIds \cup {0}, seen : ProposalRow]

Priced(row) == row.offer.price # NoPrice /\ row.offer.link

\* What the handler of an open form relies on: an older version than the row's
\* means that its UPDATE will find nothing, and the version of the row means that
\* nothing changed since the page and since the checks.
TabIsHistory(tab, row) ==
  /\ tab.seen.version <= row.version
  /\ tab.seen.version = row.version =>
       /\ tab.seen = row
       /\ tab.stage = "edit" => row.status \in EditableStatuses
       /\ tab.stage \in {"priced", "approved"} => Priced(row)

\* The inductive invariant.
ProposalInv ==
  /\ proposal \in [ProposalIds -> ProposalRow]
  /\ approvedOffer \in [ProposalIds -> Offers]
  /\ proposalTab \in [OwnerTabs -> ProposalTabRow]
  /\ \A t \in OwnerTabs : proposalTab[t].stage # "closed" =>
       /\ proposalTab[t].id \in ProposalsCreated
       /\ TabIsHistory(proposalTab[t], proposal[proposalTab[t].id])
  /\ OfferStands

LEMMA NextStatusIs ==
  /\ DOMAIN NextStatus = {"draft", "internal_review", "approved"}
  /\ NextStatus["draft"] = "internal_review"
  /\ NextStatus["internal_review"] = "approved"
  /\ NextStatus["approved"] = "sent"
BY DEF NextStatus

LEMMA ProposalInitially == ProposalInit => ProposalInv
<1> SUFFICES ASSUME ProposalInit
             PROVE  ProposalInv
  OBVIOUS
<1>1. AnyOffer \in Offers
  BY ProposalsAssumption DEF AnyOffer
<1>2. NoProposal \in ProposalRow
  BY <1>1, ProposalsAssumption DEF NoProposal, ProposalRow
<1>3. NoTab \in ProposalTabRow /\ NoTab.stage = "closed"
  BY <1>2 DEF NoTab, ProposalTabRow, ProposalStages
<1>4. OfferStands
  BY DEF ProposalInit, NoProposal, OfferStands, ApprovedOfferStands, SentIsPriced
<1> QED
  BY <1>1, <1>2, <1>3, <1>4 DEF ProposalInit, ProposalInv

\* Forms, pages and checks change no row.
LEMMA ProposalStageKeeps ==
  ASSUME ProposalInv, NEW t \in OwnerTabs, NEW from, NEW to \in ProposalStages \ {"closed"},
         ProposalStage(t, from, to), from # "closed",
         LET row == proposal[proposalTab[t].id] IN
         proposalTab[t].seen.version = row.version =>
           /\ to = "edit" => row.status \in EditableStatuses
           /\ to \in {"priced", "approved"} => Priced(row)
  PROVE  ProposalInv' /\ proposal' = proposal
<1>1. /\ proposal' = proposal /\ approvedOffer' = approvedOffer
      /\ proposalTab' = [proposalTab EXCEPT ![t].stage = to]
      /\ proposalTab[t].stage # "closed"
  BY DEF ProposalStage
<1>2. proposalTab' \in [OwnerTabs -> ProposalTabRow]
  BY <1>1 DEF ProposalInv, ProposalTabRow
<1>3. /\ proposalTab'[t].stage = to
      /\ proposalTab'[t].id = proposalTab[t].id
      /\ proposalTab'[t].seen = proposalTab[t].seen
      /\ \A u \in OwnerTabs \ {t} : proposalTab'[u] = proposalTab[u]
  BY <1>1 DEF ProposalInv, ProposalTabRow
<1>4. ProposalsCreated' = ProposalsCreated /\ OfferStands'
  BY <1>1 DEF ProposalInv, ProposalsCreated, OfferStands, ApprovedOfferStands, SentIsPriced
<1>5. TabIsHistory(proposalTab'[t], proposal[proposalTab[t].id])
  BY <1>1, <1>3 DEF ProposalInv, TabIsHistory
<1>6. ASSUME NEW u \in OwnerTabs, proposalTab'[u].stage # "closed"
      PROVE  /\ proposalTab'[u].id \in ProposalsCreated
             /\ TabIsHistory(proposalTab'[u], proposal[proposalTab'[u].id])
  <2>1. CASE u = t
    BY <1>1, <1>3, <1>5, <2>1 DEF ProposalInv
  <2>2. CASE u # t
    BY <1>3, <1>6, <2>2 DEF ProposalInv
  <2> QED
    BY <2>1, <2>2
<1> QED
  BY <1>1, <1>2, <1>4, <1>6 DEF ProposalInv

\* A write finds the row as its form shows it, so it changes what was seen; the
\* other forms of that row are old from then on.
LEMMA WriteProposalKeeps ==
  ASSUME ProposalInv, NEW t \in OwnerTabs, NEW row \in ProposalRow,
         row.version = proposal[proposalTab[t].id].version,
         row.status # "none",
         WriteProposal(t, row)
  PROVE  LET p == proposalTab[t].id IN
         /\ p \in ProposalsCreated /\ proposalTab[t].seen = proposal[p]
         /\ TabIsHistory(proposalTab[t], proposal[p])
         /\ proposal' \in [ProposalIds -> ProposalRow]
         /\ proposal'[p].status = row.status /\ proposal'[p].decision = row.decision
         /\ proposal'[p].offer = row.offer
         /\ \A q \in ProposalIds \ {p} : proposal'[q] = proposal[q]
         /\ proposalTab' \in [OwnerTabs -> ProposalTabRow]
         /\ \A u \in OwnerTabs : proposalTab'[u].stage # "closed" =>
              /\ proposalTab'[u].id \in ProposalsCreated'
              /\ TabIsHistory(proposalTab'[u], proposal'[proposalTab'[u].id])
<1> DEFINE p == proposalTab[t].id
<1>1. /\ AsShown(t) /\ proposal[p].version < LastProposalVersion
      /\ proposal' = [proposal EXCEPT ![p] = [row EXCEPT !.version = @ + 1]]
      /\ proposalTab' = [proposalTab EXCEPT ![t] = NoTab]
  BY DEF WriteProposal
<1>2. /\ p \in ProposalsCreated /\ p \in ProposalIds
      /\ TabIsHistory(proposalTab[t], proposal[p])
      /\ proposalTab[t].seen = proposal[p]
  BY <1>1 DEF ProposalInv, AsShown, ProposalsCreated, TabIsHistory
<1>3. /\ LastProposalVersion \in Nat /\ row.version \in Nat /\ row.version < LastProposalVersion
      /\ row.version + 1 \in 0..LastProposalVersion
  <2>1. LastProposalVersion \in Nat /\ row.version \in 0..LastProposalVersion
    BY ProposalsAssumption DEF ProposalRow
  <2> QED
    BY <1>1, <2>1
<1> DEFINE new == [row EXCEPT !.version = @ + 1]
<1>4. /\ new \in ProposalRow /\ new.version = row.version + 1 /\ new.status = row.status
      /\ new.decision = row.decision /\ new.offer = row.offer
  BY <1>3 DEF ProposalRow
<1>5. /\ proposal' = [proposal EXCEPT ![p] = new]
      /\ proposal \in [ProposalIds -> ProposalRow]
  BY <1>1 DEF ProposalInv
<1> HIDE DEF new
<1>6. /\ proposal' \in [ProposalIds -> ProposalRow]
      /\ proposal'[p] = new
      /\ \A q \in ProposalIds \ {p} : proposal'[q] = proposal[q]
  BY <1>2, <1>4, <1>5
<1>7. ProposalsCreated' = ProposalsCreated
  BY <1>2, <1>4, <1>6 DEF ProposalsCreated
<1>8. /\ proposalTab'[t] = NoTab /\ NoTab.stage = "closed" /\ NoTab \in ProposalTabRow
      /\ \A u \in OwnerTabs \ {t} : proposalTab'[u] = proposalTab[u]
      /\ proposalTab' \in [OwnerTabs -> ProposalTabRow]
  <2>1. NoProposal \in ProposalRow
    BY ProposalsAssumption DEF NoProposal, ProposalRow, AnyOffer
  <2>2. NoTab \in ProposalTabRow /\ NoTab.stage = "closed"
    BY <2>1 DEF NoTab, ProposalTabRow, ProposalStages
  <2> QED
    BY <1>1, <2>2 DEF ProposalInv
<1>9. ASSUME NEW u \in OwnerTabs, proposalTab'[u].stage # "closed"
      PROVE  /\ proposalTab'[u].id \in ProposalsCreated'
             /\ TabIsHistory(proposalTab'[u], proposal'[proposalTab'[u].id])
  <2>1. u # t /\ proposalTab'[u] = proposalTab[u]
    BY <1>8, <1>9
  <2>2. /\ proposalTab[u].id \in ProposalsCreated /\ proposalTab[u].id \in ProposalIds
        /\ TabIsHistory(proposalTab[u], proposal[proposalTab[u].id])
        /\ proposalTab[u].seen.version \in Nat
    BY <1>9, <2>1 DEF ProposalInv, ProposalsCreated, ProposalTabRow, ProposalRow
  <2>3. CASE proposalTab[u].id = p
    <3>1. proposalTab[u].seen.version <= row.version
      BY <2>2, <2>3 DEF TabIsHistory
    <3>2. proposalTab[u].seen.version < new.version
      BY <1>3, <1>4, <2>2, <3>1
    <3>3. new.version \in Nat
      BY <1>3, <1>4
    <3> QED
      BY <1>6, <1>7, <2>1, <2>2, <2>3, <3>2, <3>3 DEF TabIsHistory
  <2>4. CASE proposalTab[u].id # p
    BY <1>6, <1>7, <2>1, <2>2, <2>4
  <2> QED
    BY <2>3, <2>4
<1> QED
  BY <1>2, <1>4, <1>6, <1>8, <1>9

LEMMA CreateProposalKeeps ==
  ASSUME ProposalInv, NEW p \in ProposalIds, CreateProposal(p)
  PROVE  ProposalInv' /\ p \notin ProposalsCreated
                      /\ \A q \in ProposalsCreated : proposal'[q] = proposal[q]
<1>1. PICK o \in Offers :
        proposal' = [proposal EXCEPT ![p] = [NoProposal EXCEPT !.status = "draft",
                                               !.offer = o, !.version = 1]]
  BY DEF CreateProposal
<1> DEFINE new == [NoProposal EXCEPT !.status = "draft", !.offer = o, !.version = 1]
<1>2. /\ new \in ProposalRow /\ new.status = "draft" /\ new.decision = "none"
      /\ p \notin ProposalsCreated
  <2>1. NoProposal \in ProposalRow /\ NoProposal.decision = "none"
    BY ProposalsAssumption DEF NoProposal, ProposalRow, AnyOffer
  <2>2. 1 \in 0..LastProposalVersion
    BY ProposalsAssumption
  <2>3. new \in ProposalRow /\ new.status = "draft" /\ new.decision = "none"
    BY <2>1, <2>2 DEF ProposalRow, ProposalStatuses
  <2> QED
    BY <2>3 DEF CreateProposal, ProposalsCreated
<1>3. proposal' = [proposal EXCEPT ![p] = new] /\ proposal \in [ProposalIds -> ProposalRow]
  BY <1>1 DEF ProposalInv
<1> HIDE DEF new
<1>4. /\ proposal' \in [ProposalIds -> ProposalRow]
      /\ proposal'[p] = new
      /\ \A q \in ProposalIds \ {p} : proposal'[q] = proposal[q]
  BY <1>2, <1>3
<1>5. proposalTab' = proposalTab /\ approvedOffer' = approvedOffer
  BY DEF CreateProposal
<1>6. ProposalsCreated \subseteq ProposalsCreated'
  BY <1>2, <1>4 DEF ProposalsCreated
<1>7. \A q \in ProposalsCreated : q \in ProposalIds \ {p} /\ proposal'[q] = proposal[q]
  BY <1>2, <1>4 DEF ProposalsCreated
<1>8. OfferStands'
  BY <1>2, <1>4, <1>5 DEF ProposalInv, OfferStands, ApprovedOfferStands, SentIsPriced
<1> QED
  BY <1>2, <1>4, <1>5, <1>6, <1>7, <1>8 DEF ProposalInv

LEMMA ShowProposalKeeps ==
  ASSUME ProposalInv, NEW t \in OwnerTabs, ShowProposal(t)
  PROVE  ProposalInv' /\ proposal' = proposal
<1>1. PICK p \in ProposalsCreated :
        proposalTab' = [proposalTab EXCEPT ![t] = [stage |-> "form", id |-> p,
                                                     seen |-> proposal[p]]]
  BY DEF ShowProposal
<1> DEFINE tab == [stage |-> "form", id |-> p, seen |-> proposal[p]]
<1>2. p \in ProposalIds /\ tab \in ProposalTabRow
  BY DEF ProposalsCreated, ProposalTabRow, ProposalInv, ProposalStages
<1>3. TabIsHistory(tab, proposal[p]) /\ tab.id = p
  <2>1. proposal[p].version \in Nat
    BY <1>2 DEF ProposalInv, ProposalRow
  <2> QED
    BY <2>1 DEF TabIsHistory
<1>4. proposalTab' = [proposalTab EXCEPT ![t] = tab] /\ proposalTab \in [OwnerTabs -> ProposalTabRow]
  BY <1>1 DEF ProposalInv
<1> HIDE DEF tab
<1>5. /\ proposalTab' \in [OwnerTabs -> ProposalTabRow]
      /\ proposalTab'[t] = tab
      /\ \A u \in OwnerTabs \ {t} : proposalTab'[u] = proposalTab[u]
  BY <1>2, <1>4
<1>6. proposal' = proposal /\ approvedOffer' = approvedOffer
  BY DEF ShowProposal
<1>7. ProposalsCreated' = ProposalsCreated /\ OfferStands'
  BY <1>6 DEF ProposalInv, ProposalsCreated, OfferStands, ApprovedOfferStands, SentIsPriced
<1> QED
  BY <1>3, <1>5, <1>6, <1>7 DEF ProposalInv

LEMMA CloseProposalKeeps ==
  ASSUME ProposalInv, NEW t \in OwnerTabs, CloseProposal(t)
  PROVE  ProposalInv' /\ proposal' = proposal
<1>1. NoTab \in ProposalTabRow /\ NoTab.stage = "closed"
  <2>1. NoProposal \in ProposalRow
    BY ProposalsAssumption DEF NoProposal, ProposalRow, AnyOffer
  <2> QED
    BY <2>1 DEF NoTab, ProposalTabRow, ProposalStages
<1>2. /\ proposalTab' = [proposalTab EXCEPT ![t] = NoTab]
      /\ proposal' = proposal /\ approvedOffer' = approvedOffer
  BY DEF CloseProposal
<1>3. /\ proposalTab' \in [OwnerTabs -> ProposalTabRow]
      /\ proposalTab'[t].stage = "closed"
      /\ \A u \in OwnerTabs \ {t} : proposalTab'[u] = proposalTab[u]
  BY <1>1, <1>2 DEF ProposalInv
<1>4. ProposalsCreated' = ProposalsCreated /\ OfferStands'
  BY <1>2 DEF ProposalInv, ProposalsCreated, OfferStands, ApprovedOfferStands, SentIsPriced
<1> QED
  BY <1>2, <1>3, <1>4 DEF ProposalInv

\* The checks: at the version of the form each found what its write relies on.
LEMMA ProposalChecksKeep ==
  ASSUME ProposalInv, NEW t \in OwnerTabs,
         CheckEdit(t) \/ CheckPriceAndLink(t) \/ CheckAdvance(t) \/ CheckDecision(t)
  PROVE  ProposalInv' /\ proposal' = proposal
<1> DEFINE row == proposal[proposalTab[t].id]
<1>1. CASE CheckEdit(t)
  <2>1. ProposalStage(t, "form", "edit") /\ row.status \in EditableStatuses
    BY <1>1 DEF CheckEdit
  <2> QED
    BY <2>1, ProposalStageKeeps DEF ProposalStages
<1>2. CASE CheckPriceAndLink(t)
  <2>1. ProposalStage(t, "form", "priced") /\ Priced(row)
    BY <1>2 DEF CheckPriceAndLink, Priced
  <2> QED
    BY <2>1, ProposalStageKeeps DEF ProposalStages
<1>3. CASE CheckDecision(t)
  <2>1. ProposalStage(t, "form", "decide")
    BY <1>3 DEF CheckDecision
  <2> QED
    BY <2>1, ProposalStageKeeps DEF ProposalStages
<1>4. CASE CheckAdvance(t)
  <2>1. CASE row.status \in EditableStatuses /\ ProposalStage(t, "form", row.status)
    <3>1. row.status \in {"draft", "internal_review"}
      BY <2>1 DEF EditableStatuses
    <3>2. row.status \in ProposalStages \ {"closed"} /\ row.status \notin {"edit", "priced", "approved"}
      BY <3>1, NextStatusIs DEF ProposalStages
    <3> QED
      BY <2>1, <3>2, ProposalStageKeeps
  <2>2. CASE row.status = "approved" /\ ProposalStage(t, "priced", "approved")
    <3>1. proposalTab[t].stage = "priced" /\ TabIsHistory(proposalTab[t], row)
      BY <2>2 DEF ProposalStage, ProposalInv
    <3>2. proposalTab[t].seen.version = row.version => Priced(row)
      BY <3>1 DEF TabIsHistory
    <3>3. "approved" \in ProposalStages \ {"closed"}
      BY NextStatusIs DEF ProposalStages
    <3> QED
      BY <2>2, <3>2, <3>3, ProposalStageKeeps
  <2> QED
    BY <1>4, <2>1, <2>2 DEF CheckAdvance
<1> QED
  BY <1>1, <1>2, <1>3, <1>4

\* What a write of a proposal may do to it.
ProposalWritten(p, new, old) ==
  /\ \E t \in OwnerTabs : proposalTab[t].id = p /\ proposalTab[t].seen = old
  /\ new.status \in {old.status} \cup
       (IF old.status = "sent" THEN {} ELSE {NextStatus[old.status]})
  /\ old.decision \in {"none", new.decision}

LEMMA SaveEditKeeps ==
  ASSUME ProposalInv, NEW t \in OwnerTabs, SaveEdit(t)
  PROVE  /\ ProposalInv'
         /\ \A q \in ProposalsCreated : proposal'[q] # proposal[q] =>
              ProposalWritten(q, proposal'[q], proposal[q])
<1> DEFINE p == proposalTab[t].id
<1>1. PICK o \in Offers : WriteProposal(t, [proposal[p] EXCEPT !.offer = o])
  BY DEF SaveEdit
<1>2. proposalTab[t].stage = "edit" /\ approvedOffer' = approvedOffer
  BY DEF SaveEdit
<1>3. p \in ProposalIds /\ proposal[p].status # "none" /\ proposal[p] \in ProposalRow
  BY <1>2 DEF ProposalInv, ProposalsCreated
<1> DEFINE row == [proposal[p] EXCEPT !.offer = o]
<1>4. /\ row \in ProposalRow /\ row.version = proposal[p].version
      /\ row.status = proposal[p].status /\ row.decision = proposal[p].decision
  BY <1>3 DEF ProposalRow
<1>5. WriteProposal(t, row)
  BY <1>1
<1> HIDE DEF row
<1>6. /\ p \in ProposalsCreated /\ proposalTab[t].seen = proposal[p]
      /\ TabIsHistory(proposalTab[t], proposal[p])
      /\ proposal' \in [ProposalIds -> ProposalRow]
      /\ proposal'[p].status = proposal[p].status /\ proposal'[p].decision = proposal[p].decision
      /\ \A q \in ProposalIds \ {p} : proposal'[q] = proposal[q]
      /\ proposalTab' \in [OwnerTabs -> ProposalTabRow]
      /\ \A u \in OwnerTabs : proposalTab'[u].stage # "closed" =>
           /\ proposalTab'[u].id \in ProposalsCreated'
           /\ TabIsHistory(proposalTab'[u], proposal'[proposalTab'[u].id])
  BY <1>3, <1>4, <1>5, WriteProposalKeeps
<1>7. proposal[p].status \in {"draft", "internal_review"}
  BY <1>2, <1>6 DEF TabIsHistory, EditableStatuses
<1>8. OfferStands'
  BY <1>2, <1>6, <1>7 DEF ProposalInv, OfferStands, ApprovedOfferStands, SentIsPriced
<1>9. ProposalWritten(p, proposal'[p], proposal[p])
  BY <1>6 DEF ProposalWritten
<1> QED
  BY <1>2, <1>6, <1>8, <1>9 DEF ProposalInv, ProposalsCreated

LEMMA AdvanceKeeps ==
  ASSUME ProposalInv, NEW t \in OwnerTabs, Advance(t)
  PROVE  /\ ProposalInv'
         /\ \A q \in ProposalsCreated : proposal'[q] # proposal[q] =>
              ProposalWritten(q, proposal'[q], proposal[q])
<1> DEFINE p == proposalTab[t].id
           status == proposalTab[t].stage
<1>1. /\ status \in {"draft", "internal_review", "approved"}
      /\ proposal[p].status = status
      /\ WriteProposal(t, [proposal[p] EXCEPT !.status = NextStatus[status]])
      /\ approvedOffer' = IF NextStatus[status] = "approved"
                          THEN [approvedOffer EXCEPT ![p] = proposal[p].offer]
                          ELSE approvedOffer
  BY NextStatusIs DEF Advance
<1>2. NextStatus[status] \in ProposalStatuses
  BY <1>1, NextStatusIs DEF ProposalStatuses
<1>3. p \in ProposalIds /\ proposal[p].status # "none" /\ proposal[p] \in ProposalRow
  BY <1>1 DEF ProposalInv, ProposalsCreated
<1> DEFINE row == [proposal[p] EXCEPT !.status = NextStatus[status]]
<1>4. /\ row \in ProposalRow /\ row.version = proposal[p].version /\ row.offer = proposal[p].offer
      /\ row.status = NextStatus[status] /\ row.decision = proposal[p].decision
      /\ row.status # "none"
  BY <1>2, <1>3 DEF ProposalRow, ProposalStatuses
<1>5. WriteProposal(t, row)
  BY <1>1
<1> HIDE DEF row
<1>6. /\ p \in ProposalsCreated /\ proposalTab[t].seen = proposal[p]
      /\ TabIsHistory(proposalTab[t], proposal[p])
      /\ proposal' \in [ProposalIds -> ProposalRow]
      /\ proposal'[p].status = NextStatus[status] /\ proposal'[p].decision = proposal[p].decision
      /\ proposal'[p].offer = proposal[p].offer
      /\ \A q \in ProposalIds \ {p} : proposal'[q] = proposal[q]
      /\ proposalTab' \in [OwnerTabs -> ProposalTabRow]
      /\ \A u \in OwnerTabs : proposalTab'[u].stage # "closed" =>
           /\ proposalTab'[u].id \in ProposalsCreated'
           /\ TabIsHistory(proposalTab'[u], proposal'[proposalTab'[u].id])
  BY <1>3, <1>4, <1>5, WriteProposalKeeps
<1>7. proposal[p].decision = "none"
  BY <1>1, <1>3 DEF ProposalInv, OfferStands, SentIsPriced
<1>8. proposal'[p].status = "sent" => Priced(proposal[p])
  BY <1>1, <1>6, NextStatusIs DEF TabIsHistory
<1>9. /\ approvedOffer' \in [ProposalIds -> Offers]
      /\ \A q \in ProposalIds \ {p} : approvedOffer'[q] = approvedOffer[q]
      /\ proposal'[p].status \in {"approved", "sent"} => approvedOffer'[p] = proposal[p].offer
  <2>1. CASE status = "internal_review"
    BY <1>1, <1>3, <2>1, NextStatusIs DEF ProposalInv, ProposalRow
  <2>2. CASE status = "approved"
    BY <1>1, <1>3, <2>2, NextStatusIs DEF ProposalInv, OfferStands, ApprovedOfferStands
  <2>3. CASE status = "draft"
    BY <1>1, <1>6, <2>3, NextStatusIs DEF ProposalInv
  <2> QED
    BY <1>1, <2>1, <2>2, <2>3
<1>10. ApprovedOfferStands'
  BY <1>6, <1>9 DEF ProposalInv, OfferStands, ApprovedOfferStands
<1>11. SentIsPriced'
  BY <1>6, <1>7, <1>8 DEF ProposalInv, OfferStands, SentIsPriced, Priced
<1>12. ProposalWritten(p, proposal'[p], proposal[p])
  BY <1>1, <1>6, <1>7 DEF ProposalWritten
<1> QED
  BY <1>6, <1>9, <1>10, <1>11, <1>12 DEF ProposalInv, ProposalsCreated, OfferStands

LEMMA SaveDecisionKeeps ==
  ASSUME ProposalInv, NEW t \in OwnerTabs, SaveDecision(t)
  PROVE  /\ ProposalInv'
         /\ \A q \in ProposalsCreated : proposal'[q] # proposal[q] =>
              ProposalWritten(q, proposal'[q], proposal[q])
<1> DEFINE p == proposalTab[t].id
<1>1. PICK d \in DecisionStatuses : WriteProposal(t, [proposal[p] EXCEPT !.decision = d])
  BY DEF SaveDecision
<1>2. /\ proposalTab[t].stage = "decide" /\ approvedOffer' = approvedOffer
      /\ proposal[p].status = "sent" /\ proposal[p].decision = "none"
  BY DEF SaveDecision
<1>3. p \in ProposalIds /\ proposal[p] \in ProposalRow
  BY <1>2 DEF ProposalInv, ProposalsCreated
<1> DEFINE row == [proposal[p] EXCEPT !.decision = d]
<1>4. /\ row \in ProposalRow /\ row.version = proposal[p].version
      /\ row.status = proposal[p].status /\ row.offer = proposal[p].offer
      /\ row.status # "none"
  BY <1>2, <1>3 DEF ProposalRow
<1>5. WriteProposal(t, row)
  BY <1>1
<1> HIDE DEF row
<1>6. /\ p \in ProposalsCreated /\ proposalTab[t].seen = proposal[p]
      /\ proposal' \in [ProposalIds -> ProposalRow]
      /\ proposal'[p].status = "sent"
      /\ proposal'[p].offer = proposal[p].offer
      /\ \A q \in ProposalIds \ {p} : proposal'[q] = proposal[q]
      /\ proposalTab' \in [OwnerTabs -> ProposalTabRow]
      /\ \A u \in OwnerTabs : proposalTab'[u].stage # "closed" =>
           /\ proposalTab'[u].id \in ProposalsCreated'
           /\ TabIsHistory(proposalTab'[u], proposal'[proposalTab'[u].id])
  BY <1>2, <1>3, <1>4, <1>5, WriteProposalKeeps
<1>7. OfferStands'
  BY <1>2, <1>6 DEF ProposalInv, OfferStands, ApprovedOfferStands, SentIsPriced
<1>8. ProposalWritten(p, proposal'[p], proposal[p])
  BY <1>2, <1>6 DEF ProposalWritten
<1> QED
  BY <1>2, <1>6, <1>7, <1>8 DEF ProposalInv, ProposalsCreated

LEMMA ProposalNextKeeps ==
  ASSUME ProposalInv, ProposalNext
  PROVE  /\ ProposalInv'
         /\ \A q \in ProposalsCreated : proposal'[q] # proposal[q] =>
              ProposalWritten(q, proposal'[q], proposal[q])
<1>1. ASSUME NEW p \in ProposalIds, CreateProposal(p)
      PROVE  ProposalInv' /\ \A q \in ProposalsCreated : proposal'[q] = proposal[q]
  BY <1>1, CreateProposalKeeps
<1>2. ASSUME NEW t \in OwnerTabs, ShowProposal(t)
      PROVE  ProposalInv' /\ proposal' = proposal
  BY <1>2, ShowProposalKeeps
<1>3. ASSUME NEW t \in OwnerTabs, CloseProposal(t)
      PROVE  ProposalInv' /\ proposal' = proposal
  BY <1>3, CloseProposalKeeps
<1>4. ASSUME NEW t \in OwnerTabs,
             CheckEdit(t) \/ CheckPriceAndLink(t) \/ CheckAdvance(t) \/ CheckDecision(t)
      PROVE  ProposalInv' /\ proposal' = proposal
  BY <1>4, ProposalChecksKeep
<1> QED
  BY <1>1, <1>2, <1>3, <1>4, SaveEditKeeps, AdvanceKeeps, SaveDecisionKeeps DEF ProposalNext

LEMMA ProposalInvStep == ProposalInv /\ [ProposalNext]_proposalVars => ProposalInv'
<1>1. ASSUME ProposalInv, UNCHANGED proposalVars
      PROVE  ProposalInv'
  BY <1>1 DEF ProposalInv, proposalVars, ProposalsCreated, OfferStands, ApprovedOfferStands,
              SentIsPriced
<1> QED
  BY <1>1, ProposalNextKeeps

\* What was approved is what stands, is sent and is decided on, and what was sent
\* had its price and its link, although update_proposal's UPDATE does not ask for
\* the status and send_proposal looks for the price in a read of its own.
THEOREM ApprovedOffersStand == ProposalSpec => []OfferStands
<1>1. ProposalInv => OfferStands
  BY DEF ProposalInv
<1> QED
  BY <1>1, ProposalInitially, ProposalInvStep, PTL DEF ProposalSpec

\* The proposals keep their types, and every open form is of a proposal there is.
THEOREM ProposalsTyped == ProposalSpec => []ProposalTypeOK
<1>1. ProposalInv => ProposalTypeOK
  BY DEF ProposalInv, ProposalTypeOK, ProposalTabRow, ProposalStages
<1> QED
  BY <1>1, ProposalInitially, ProposalInvStep, PTL DEF ProposalSpec

\* Nobody replaces a proposal that was not on the page before him; a status goes
\* one step at a time and a decision is made once.
THEOREM ProposalsAreSeen == ProposalSpec => ProposalChangesAreSeen
<1>1. ProposalInv /\ [ProposalNext]_proposalVars =>
        [\A p \in ProposalsCreated : proposal'[p] # proposal[p] =>
           /\ \E t \in OwnerTabs : proposalTab[t].id = p /\ proposalTab[t].seen = proposal[p]
           /\ proposal'[p].status \in {proposal[p].status} \cup
                (IF proposal[p].status = "sent" THEN {} ELSE {NextStatus[proposal[p].status]})
           /\ proposal[p].decision \in {"none", proposal'[p].decision}]_proposalVars
  BY ProposalNextKeeps DEF ProposalWritten
<1> QED
  BY <1>1, ProposalInitially, ProposalInvStep, PTL DEF ProposalSpec, ProposalChangesAreSeen

-----------------------------------------------------------------------------
(* Delivery.                                                               *)

DeliveryOps == {"none", "onboard", "add", "item"} \cup EngagementOps

DeliveryTabRow == [stage : {"closed", "form", "checked"}, op : DeliveryOps,
                   by : Deliverers \cup {Owner}, id : Nat, version : Nat]

EngagementRow == [status : {"none", "active", "completed", "cancelled"}, client : ClientIds,
                  deliverer : Deliverers \cup {NoDeliverer}, version : 0..deliveryRoom.versions]

ItemRow == [status : {"none"} \cup ItemStatuses, engagement : EngagementIds,
            version : 0..deliveryRoom.versions]

\* The permissions, as functions of the engagement's row alone.
Manages(who, row) == who = Owner \/ (who = row.deliverer /\ row.status = "active")

Changes(who, op, row) ==
  \/ op \in {"scope", "cancelled"} /\ who = Owner /\ row.status = "active"
  \/ op = "notes" /\ Manages(who, row)
  \/ op = "completed" /\ (who = Owner \/ who = row.deliverer) /\ row.status = "active"

\* What the handler of a form relies on.  The permission to change an engagement is
\* bound to its version; the permission to handle items is bound to nothing, and
\* stands only while no other request is handled.
Relies(tab) ==
  tab.stage # "closed" =>
    /\ tab.op \in EngagementOps \cup {"add"} => tab.id \in Engagements
    /\ tab.op \in EngagementOps =>
         /\ tab.version <= engagement[tab.id].version
         /\ tab.stage = "checked" /\ tab.version = engagement[tab.id].version =>
              Changes(tab.by, tab.op, engagement[tab.id])
    /\ tab.op = "item" => tab.id \in Items
    /\ tab.stage = "checked" =>
         /\ tab.op = "onboard" => tab.id \in everWon
         /\ deliverers = 1 /\ tab.op = "add" => Manages(tab.by, engagement[tab.id])
         /\ deliverers = 1 /\ tab.op = "item" =>
              Manages(tab.by, engagement[item[tab.id].engagement])

FormStands(u) == Relies(deliveryTab[u])

\* The inductive invariant.
DeliveryInv ==
  /\ DeliveryTypeOK
  /\ won \subseteq everWon
  /\ deliveryRoom \in DeliveryRooms /\ deliverers \in DeliveryWorkers
  /\ deliveryTab \in [DeliveryTabs -> DeliveryTabRow]
  /\ OneClientPerWonLead
  /\ \A u \in DeliveryTabs : FormStands(u)

LEMMA PermissionsAreOfTheRow ==
  ASSUME NEW who, NEW e
  PROVE  /\ MayManageItems(who, e) <=> Manages(who, engagement[e])
         /\ \A op \in EngagementOps : MayChange(who, op, e) <=> Changes(who, op, engagement[e])
<1>1. MayManageItems(who, e) <=> Manages(who, engagement[e])
  BY DEF MayManageItems, Manages, OwnsDelivery
<1>2. ASSUME NEW op \in EngagementOps
      PROVE  MayChange(who, op, e) <=> Changes(who, op, engagement[e])
  <2>1. CASE op = "scope"
    BY <2>1 DEF MayChange, Changes
  <2>2. CASE op = "notes"
    BY <1>1, <2>2 DEF MayChange, Changes
  <2>3. CASE op = "completed"
    BY <2>3 DEF MayChange, Changes, OwnsDelivery
  <2>4. CASE op = "cancelled"
    BY <2>4 DEF MayChange, Changes
  <2> QED
    BY <2>1, <2>2, <2>3, <2>4 DEF EngagementOps
<1> QED
  BY <1>1, <1>2

LEMMA RoomIs ==
  ASSUME DeliveryInv
  PROVE  /\ deliveryRoom.versions \in Nat \ {0} /\ deliverers \in Nat \ {0}
         /\ 1 \in 0..deliveryRoom.versions
         /\ engagement \in [EngagementIds -> EngagementRow]
         /\ item \in [ItemIds -> ItemRow]
<1>1. deliveryRoom.versions \in Nat \ {0} /\ deliverers \in Nat \ {0}
  BY DeliveryAssumption DEF DeliveryInv
<1> QED
  BY <1>1 DEF DeliveryInv, DeliveryTypeOK, EngagementRow, ItemRow

LEMMA HandledIsFinite == IsFiniteSet(Handled) /\ Cardinality(Handled) \in Nat
<1>1. Handled \subseteq DeliveryTabs
  BY DEF Handled
<1> QED
  BY <1>1, DeliveryAssumption, FS_Subset, FS_CardinalityType

LEMMA DeliveryInitially == DeliveryInit => DeliveryInv
<1> SUFFICES ASSUME DeliveryInit
             PROVE  DeliveryInv
  OBVIOUS
<1>1. /\ deliveryRoom.versions \in Nat /\ 0 \in 0..deliveryRoom.versions
      /\ deliverers \in Nat \ {0}
  BY DeliveryAssumption DEF DeliveryInit
<1>2. NoClient \in [there : BOOLEAN, lead : WonLeads] /\ ~NoClient.there
  BY DeliveryAssumption DEF NoClient
<1>3. NoEngagement \in EngagementRow /\ NoEngagement.status = "none"
  BY <1>1, DeliveryAssumption DEF NoEngagement, EngagementRow
<1>4. NoItem \in ItemRow /\ NoItem.status = "none"
  BY <1>1, DeliveryAssumption DEF NoItem, ItemRow
<1>5. NoDeliveryTab \in DeliveryTabRow /\ NoDeliveryTab.stage = "closed"
  BY DEF NoDeliveryTab, DeliveryTabRow, DeliveryOps
<1>6. Clients = {} /\ Engagements = {} /\ Items = {}
  BY <1>2, <1>3, <1>4 DEF DeliveryInit, Clients, Engagements, Items
<1>7. Handled = {}
  BY <1>5 DEF DeliveryInit, Handled
<1>8. Cardinality(Handled) <= deliverers
  BY <1>1, <1>7, FS_EmptySet
<1>9. DeliveryTypeOK
  BY <1>2, <1>3, <1>4, <1>6, <1>8 DEF DeliveryInit, DeliveryTypeOK, EngagementRow, ItemRow
<1>10. OneClientPerWonLead
  BY <1>6 DEF OneClientPerWonLead
<1>11. \A u \in DeliveryTabs : FormStands(u)
  BY <1>5 DEF DeliveryInit, FormStands, Relies
<1> QED
  BY <1>5, <1>9, <1>10, <1>11 DEF DeliveryInit, DeliveryInv

\* How many requests are handled when one tab changes.
LEMMA TabChanges ==
  ASSUME DeliveryInv, NEW t \in DeliveryTabs, NEW tab \in DeliveryTabRow,
         deliveryTab' = [deliveryTab EXCEPT ![t] = tab],
         tab.stage = "checked" => deliveryTab[t].stage # "checked"
  PROVE  /\ deliveryTab' \in [DeliveryTabs -> DeliveryTabRow]
         /\ deliveryTab'[t] = tab
         /\ \A u \in DeliveryTabs \ {t} : deliveryTab'[u] = deliveryTab[u]
         /\ Cardinality(Handled') <= Cardinality(Handled) + (IF tab.stage = "checked" THEN 1 ELSE 0)
<1>1. /\ deliveryTab' \in [DeliveryTabs -> DeliveryTabRow]
      /\ deliveryTab'[t] = tab
      /\ \A u \in DeliveryTabs \ {t} : deliveryTab'[u] = deliveryTab[u]
  BY DEF DeliveryInv
<1>2. CASE tab.stage = "checked"
  <2>1. Handled' = Handled \cup {t} /\ t \notin Handled
    BY <1>1, <1>2 DEF Handled
  <2>2. Cardinality(Handled') = Cardinality(Handled) + 1
    BY <2>1, HandledIsFinite, FS_AddElement
  <2> QED
    BY <1>1, <1>2, <2>2, HandledIsFinite
<1>3. CASE tab.stage # "checked"
  <2>1. Handled' \subseteq Handled
    BY <1>1, <1>3 DEF Handled
  <2>2. Cardinality(Handled') <= Cardinality(Handled) /\ Cardinality(Handled') \in Nat
    BY <2>1, HandledIsFinite, FS_Subset, FS_CardinalityType
  <2> QED
    BY <1>1, <1>3, <2>2, HandledIsFinite
<1> QED
  BY <1>2, <1>3

\* A step that changes no row and one tab, which then relies on what there is.
LEMMA PageKeeps ==
  ASSUME DeliveryInv, NEW t \in DeliveryTabs, NEW tab \in DeliveryTabRow,
         deliveryTab' = [deliveryTab EXCEPT ![t] = tab],
         UNCHANGED <<deliveryRows, deliverers, deliveryRoom>>,
         tab.stage = "checked" =>
           deliveryTab[t].stage # "checked" /\ Cardinality(Handled) < deliverers,
         Relies(tab)
  PROVE  DeliveryInv' /\ engagement' = engagement /\ item' = item
<1>1. /\ won' = won /\ everWon' = everWon /\ client' = client /\ engagement' = engagement
      /\ item' = item /\ deliverers' = deliverers /\ deliveryRoom' = deliveryRoom
  BY DEF deliveryRows
<1>2. /\ deliveryTab' \in [DeliveryTabs -> DeliveryTabRow]
      /\ deliveryTab'[t] = tab
      /\ \A u \in DeliveryTabs \ {t} : deliveryTab'[u] = deliveryTab[u]
      /\ Cardinality(Handled') <= Cardinality(Handled) + (IF tab.stage = "checked" THEN 1 ELSE 0)
  BY TabChanges
<1>3. Cardinality(Handled') \in Nat
  <2>1. Handled' \subseteq DeliveryTabs
    BY DEF Handled
  <2> QED
    BY <2>1, DeliveryAssumption, FS_Subset, FS_CardinalityType
<1>4. Cardinality(Handled') <= deliverers'
  <2>1. Cardinality(Handled) <= deliverers /\ deliverers \in Nat
    BY RoomIs DEF DeliveryInv, DeliveryTypeOK
  <2> QED
    BY <1>1, <1>2, <1>3, <2>1, HandledIsFinite
<1>5. Clients' = Clients /\ Engagements' = Engagements /\ Items' = Items
  BY <1>1 DEF Clients, Engagements, Items
<1>6. DeliveryTypeOK'
  BY <1>1, <1>4, <1>5 DEF DeliveryInv, DeliveryTypeOK
<1>7. OneClientPerWonLead'
  BY <1>1, <1>5 DEF DeliveryInv, OneClientPerWonLead
<1>8. ASSUME NEW u \in DeliveryTabs
      PROVE  FormStands(u)'
  <2>1. deliveryTab'[u] = tab \/ deliveryTab'[u] = deliveryTab[u]
    BY <1>2
  <2>2. Relies(deliveryTab[u])
    BY DEF DeliveryInv, FormStands
  <2> QED
    BY <1>1, <1>5, <2>1, <2>2 DEF FormStands, Relies
<1> QED
  BY <1>1, <1>2, <1>6, <1>7, <1>8 DEF DeliveryInv

\* Rows are added and change with their version; nothing is taken away.
DeliveryGrows ==
  /\ everWon \subseteq everWon'
  /\ Engagements \subseteq Engagements' /\ Items \subseteq Items'
  /\ deliverers' = deliverers
  /\ \A i \in Items : item'[i].engagement = item[i].engagement
  /\ \A e \in Engagements : engagement'[e] # engagement[e] =>
       engagement'[e].version = engagement[e].version + 1

\* The form of a tab that does not move goes on relying on what it relied on.
LEMMA FormsGoOnStanding ==
  ASSUME DeliveryInv, NEW u \in DeliveryTabs, deliveryTab'[u] = deliveryTab[u], DeliveryGrows,
         (deliverers = 1 /\ u \in Handled) =>
           \A e \in Engagements : engagement'[e] = engagement[e]
  PROVE  FormStands(u)'
<1> DEFINE tab == deliveryTab[u]
<1> SUFFICES ASSUME tab.stage # "closed"
             PROVE  FormStands(u)'
  BY DEF FormStands, Relies
<1>1. Relies(tab) /\ tab \in DeliveryTabRow
  BY DEF DeliveryInv, FormStands
<1>2. tab.op \in EngagementOps \cup {"add"} => tab.id \in Engagements /\ tab.id \in Engagements'
  BY <1>1 DEF Relies, DeliveryGrows
<1>3. ASSUME tab.op \in EngagementOps
      PROVE  /\ tab.version <= engagement'[tab.id].version
             /\ tab.stage = "checked" /\ tab.version = engagement'[tab.id].version =>
                  Changes(tab.by, tab.op, engagement'[tab.id])
  <2>1. /\ tab.id \in Engagements /\ tab.id \in EngagementIds
        /\ tab.version <= engagement[tab.id].version
        /\ tab.version \in Nat /\ engagement[tab.id].version \in Nat
    BY <1>1, <1>2, <1>3, RoomIs DEF Relies, Engagements, EngagementRow, DeliveryTabRow
  <2>2. CASE engagement'[tab.id] = engagement[tab.id]
    BY <1>1, <1>3, <2>2 DEF Relies
  <2>3. CASE engagement'[tab.id] # engagement[tab.id]
    <3>1. engagement'[tab.id].version = engagement[tab.id].version + 1
      BY <2>1, <2>3 DEF DeliveryGrows
    <3> QED
      BY <2>1, <3>1
  <2> QED
    BY <2>2, <2>3
<1>4. ASSUME tab.op = "item"
      PROVE  tab.id \in Items /\ tab.id \in Items' /\ item[tab.id].engagement \in Engagements
             /\ item'[tab.id].engagement = item[tab.id].engagement
  BY <1>1, <1>4 DEF Relies, DeliveryGrows, DeliveryInv, DeliveryTypeOK
<1>5. ASSUME tab.stage = "checked"
      PROVE  /\ tab.op = "onboard" => tab.id \in everWon'
             /\ deliverers' = 1 /\ tab.op = "add" => Manages(tab.by, engagement'[tab.id])
             /\ deliverers' = 1 /\ tab.op = "item" =>
                  Manages(tab.by, engagement'[item'[tab.id].engagement])
  <2>1. tab.op = "onboard" => tab.id \in everWon'
    BY <1>1, <1>5 DEF Relies, DeliveryGrows
  <2>2. ASSUME deliverers' = 1
        PROVE  deliverers = 1 /\ \A e \in Engagements : engagement'[e] = engagement[e]
    BY <1>5, <2>2 DEF DeliveryGrows, Handled
  <2>3. deliverers' = 1 /\ tab.op = "add" => Manages(tab.by, engagement'[tab.id])
    BY <1>1, <1>2, <1>5, <2>2 DEF Relies
  <2>4. deliverers' = 1 /\ tab.op = "item" =>
          Manages(tab.by, engagement'[item'[tab.id].engagement])
    BY <1>1, <1>4, <1>5, <2>2 DEF Relies
  <2> QED
    BY <2>1, <2>3, <2>4
<1>6. deliveryTab'[u] = tab
  OBVIOUS
<1> HIDE DEF tab
<1> QED
  BY <1>2, <1>3, <1>4, <1>5, <1>6 DEF FormStands, Relies

\* What a write may do to engagements and items, while the tabs handled are these.
EngagementsChangeByRight ==
  \A e \in Engagements : engagement'[e] # engagement[e] =>
    /\ \E t \in Handled : deliveryTab[t].id = e /\ deliveryTab[t].op \in EngagementOps
                            /\ Changes(deliveryTab[t].by, deliveryTab[t].op, engagement[e])
    /\ engagement[e].status # "active" =>
         engagement'[e].status = engagement[e].status
         /\ engagement'[e].deliverer = engagement[e].deliverer

ItemsChangeByRight ==
  deliverers = 1 =>
    \A i \in ItemIds : item'[i] # item[i] =>
      \E t \in Handled : Manages(deliveryTab[t].by, engagement[item'[i].engagement])

DeliveryStepSound == DeliveryInv' /\ EngagementsChangeByRight /\ ItemsChangeByRight

LEMMA MoveLeadKeeps ==
  ASSUME DeliveryInv, NEW l \in WonLeads, MoveLead(l), UNCHANGED deliveryRoom
  PROVE  DeliveryStepSound
<1>1. /\ client' = client /\ engagement' = engagement /\ item' = item
      /\ deliveryTab' = deliveryTab /\ deliverers' = deliverers /\ deliveryRoom' = deliveryRoom
  BY DEF MoveLead
<1>2. won' \subseteq WonLeads /\ won' \subseteq everWon' /\ everWon \subseteq everWon'
      /\ everWon' \subseteq WonLeads
  BY DEF MoveLead, DeliveryInv, DeliveryTypeOK
<1>3. Clients' = Clients /\ Engagements' = Engagements /\ Items' = Items /\ Handled' = Handled
  BY <1>1 DEF Clients, Engagements, Items, Handled
<1>4. DeliveryTypeOK'
  BY <1>1, <1>2, <1>3 DEF DeliveryInv, DeliveryTypeOK
<1>5. OneClientPerWonLead'
  BY <1>1, <1>2, <1>3 DEF DeliveryInv, OneClientPerWonLead
<1>6. DeliveryGrows
  BY <1>1, <1>2, <1>3 DEF DeliveryGrows
<1>7. \A u \in DeliveryTabs : FormStands(u)'
  BY <1>1, <1>6, FormsGoOnStanding
<1> QED
  BY <1>1, <1>2, <1>4, <1>5, <1>7
  DEF DeliveryInv, DeliveryStepSound, EngagementsChangeByRight, ItemsChangeByRight

\* A page that is shown, given up or checked.
LEMMA PageIsSound ==
  ASSUME DeliveryInv, DeliveryInv', engagement' = engagement, item' = item
  PROVE  DeliveryStepSound
BY DEF DeliveryStepSound, EngagementsChangeByRight, ItemsChangeByRight

LEMMA NoDeliveryTabIs ==
  /\ NoDeliveryTab \in DeliveryTabRow /\ NoDeliveryTab.stage = "closed"
  /\ NoDeliveryTab.by = Owner
BY DEF NoDeliveryTab, DeliveryTabRow, DeliveryOps

LEMMA CloseDeliveryKeeps ==
  ASSUME DeliveryInv, NEW t \in DeliveryTabs, CloseDelivery(t), UNCHANGED deliveryRoom
  PROVE  DeliveryStepSound
<1>1. NoDeliveryTab \in DeliveryTabRow /\ NoDeliveryTab.stage = "closed"
  BY NoDeliveryTabIs
<1>2. Relies(NoDeliveryTab)
  BY <1>1 DEF Relies
<1>3. deliveryTab' = [deliveryTab EXCEPT ![t] = NoDeliveryTab]
      /\ UNCHANGED <<deliveryRows, deliverers, deliveryRoom>>
  BY DEF CloseDelivery
<1> QED
  BY <1>1, <1>2, <1>3, PageKeeps, PageIsSound

LEMMA ShowTabKeeps ==
  ASSUME DeliveryInv, NEW t \in DeliveryTabs, NEW tab, ShowTab(t, tab), UNCHANGED deliveryRoom,
         [tab EXCEPT !.stage = "form"] \in DeliveryTabRow,
         Relies([tab EXCEPT !.stage = "form"]),
         [tab EXCEPT !.stage = "form"].stage = "form"
  PROVE  DeliveryStepSound
<1> DEFINE form == [tab EXCEPT !.stage = "form"]
<1>1. deliveryTab' = [deliveryTab EXCEPT ![t] = form]
      /\ UNCHANGED <<deliveryRows, deliverers, deliveryRoom>>
  BY DEF ShowTab
<1>2. form \in DeliveryTabRow /\ Relies(form) /\ form.stage = "form"
  OBVIOUS
<1> HIDE DEF form
<1> QED
  BY <1>1, <1>2, PageKeeps, PageIsSound

LEMMA ShowLeadKeeps ==
  ASSUME DeliveryInv, NEW t \in DeliveryTabs, ShowLead(t), UNCHANGED deliveryRoom
  PROVE  DeliveryStepSound
<1>1. PICK l \in WonLeads : ShowTab(t, [NoDeliveryTab EXCEPT !.op = "onboard", !.id = l])
  BY DEF ShowLead
<1> DEFINE tab == [NoDeliveryTab EXCEPT !.op = "onboard", !.id = l]
           form == [tab EXCEPT !.stage = "form"]
<1>2. tab \in DeliveryTabRow /\ tab.op = "onboard"
  BY NoDeliveryTabIs, DeliveryAssumption DEF DeliveryTabRow, DeliveryOps
<1>3. form \in DeliveryTabRow /\ form.stage = "form" /\ form.op = "onboard"
  BY <1>2 DEF DeliveryTabRow
<1>4. Relies(form)
  BY <1>3 DEF Relies, EngagementOps
<1> QED
  BY <1>1, <1>3, <1>4, ShowTabKeeps

LEMMA ShowEngagementKeeps ==
  ASSUME DeliveryInv, NEW t \in DeliveryTabs, ShowEngagement(t), UNCHANGED deliveryRoom
  PROVE  DeliveryStepSound
<1>1. PICK e \in Engagements, op \in EngagementOps \cup {"add"}, who \in Deliverers \cup {Owner} :
        ShowTab(t, [NoDeliveryTab EXCEPT !.op = op, !.by = who, !.id = e,
                                         !.version = engagement[e].version])
  BY DEF ShowEngagement
<1> DEFINE tab == [NoDeliveryTab EXCEPT !.op = op, !.by = who, !.id = e,
                                        !.version = engagement[e].version]
           form == [tab EXCEPT !.stage = "form"]
<1>2. e \in Nat /\ engagement[e].version \in Nat
  BY DeliveryAssumption, RoomIs DEF Engagements, EngagementRow
<1>3. /\ tab \in DeliveryTabRow /\ tab.op = op /\ tab.id = e
      /\ tab.version = engagement[e].version
  BY <1>2, NoDeliveryTabIs DEF DeliveryTabRow, DeliveryOps
<1>4. /\ form \in DeliveryTabRow /\ form.stage = "form" /\ form.op = op /\ form.id = e
      /\ form.version = engagement[e].version
  BY <1>3 DEF DeliveryTabRow
<1>5. Relies(form)
  BY <1>2, <1>4 DEF Relies, EngagementOps
<1> QED
  BY <1>1, <1>4, <1>5, ShowTabKeeps

LEMMA ShowItemKeeps ==
  ASSUME DeliveryInv, NEW t \in DeliveryTabs, ShowItem(t), UNCHANGED deliveryRoom
  PROVE  DeliveryStepSound
<1>1. PICK i \in Items, who \in Deliverers \cup {Owner} :
        ShowTab(t, [NoDeliveryTab EXCEPT !.op = "item", !.by = who, !.id = i,
                                         !.version = item[i].version])
  BY DEF ShowItem
<1> DEFINE tab == [NoDeliveryTab EXCEPT !.op = "item", !.by = who, !.id = i,
                                        !.version = item[i].version]
           form == [tab EXCEPT !.stage = "form"]
<1>2. i \in Nat /\ item[i].version \in Nat
  BY DeliveryAssumption, RoomIs DEF Items, ItemRow
<1>3. tab \in DeliveryTabRow /\ tab.op = "item" /\ tab.id = i
  BY <1>2, NoDeliveryTabIs DEF DeliveryTabRow, DeliveryOps
<1>4. form \in DeliveryTabRow /\ form.stage = "form" /\ form.op = "item" /\ form.id = i
  BY <1>3 DEF DeliveryTabRow
<1>5. Relies(form)
  BY <1>4 DEF Relies, EngagementOps
<1> QED
  BY <1>1, <1>4, <1>5, ShowTabKeeps

\* A check that found what the form will rely on.
LEMMA CheckedKeeps ==
  ASSUME DeliveryInv, NEW t \in DeliveryTabs, Checked(t), UNCHANGED deliveryRoom,
         LET tab == deliveryTab[t] IN
         /\ tab.op \in EngagementOps => Changes(tab.by, tab.op, engagement[tab.id])
         /\ tab.op = "onboard" => tab.id \in everWon
         /\ tab.op = "add" => Manages(tab.by, engagement[tab.id])
         /\ tab.op = "item" => Manages(tab.by, engagement[item[tab.id].engagement])
  PROVE  DeliveryStepSound
<1> DEFINE tab == [deliveryTab[t] EXCEPT !.stage = "checked"]
<1>1. /\ deliveryTab' = [deliveryTab EXCEPT ![t] = tab]
      /\ deliveryTab[t].stage = "form" /\ Cardinality(Handled) < deliverers
      /\ UNCHANGED <<deliveryRows, deliverers, deliveryRoom>>
  BY DEF Checked
<1>2. deliveryTab[t] \in DeliveryTabRow /\ Relies(deliveryTab[t])
  BY DEF DeliveryInv, FormStands
<1>3. /\ tab \in DeliveryTabRow /\ tab.stage = "checked" /\ tab.op = deliveryTab[t].op
      /\ tab.by = deliveryTab[t].by /\ tab.id = deliveryTab[t].id
      /\ tab.version = deliveryTab[t].version
  BY <1>2 DEF DeliveryTabRow
<1> HIDE DEF tab
<1>4. Relies(tab)
  BY <1>1, <1>2, <1>3 DEF Relies
<1> QED
  BY <1>1, <1>3, <1>4, PageKeeps, PageIsSound

LEMMA DeliveryChecksKeep ==
  ASSUME DeliveryInv, NEW t \in DeliveryTabs, UNCHANGED deliveryRoom,
         CheckOnboard(t) \/ CheckEngagement(t) \/ CheckAddItem(t) \/ CheckItem(t)
  PROVE  DeliveryStepSound
<1> DEFINE tab == deliveryTab[t]
<1>1. CASE CheckOnboard(t)
  <2>1. Checked(t) /\ tab.op = "onboard" /\ tab.id \in everWon
    BY <1>1 DEF CheckOnboard, DeliveryInv
  <2> QED
    BY <2>1, CheckedKeeps DEF EngagementOps
<1>2. CASE CheckEngagement(t)
  <2>1. Checked(t) /\ tab.op \in EngagementOps /\ Changes(tab.by, tab.op, engagement[tab.id])
    BY <1>2, PermissionsAreOfTheRow DEF CheckEngagement
  <2> QED
    BY <2>1, CheckedKeeps DEF EngagementOps
<1>3. CASE CheckAddItem(t)
  <2>1. Checked(t) /\ tab.op = "add" /\ Manages(tab.by, engagement[tab.id])
    BY <1>3, PermissionsAreOfTheRow DEF CheckAddItem
  <2> QED
    BY <2>1, CheckedKeeps DEF EngagementOps
<1>4. CASE CheckItem(t)
  <2>1. Checked(t) /\ tab.op = "item" /\ Manages(tab.by, engagement[item[tab.id].engagement])
    BY <1>4, PermissionsAreOfTheRow DEF CheckItem
  <2> QED
    BY <2>1, CheckedKeeps DEF EngagementOps
<1> QED
  BY <1>1, <1>2, <1>3, <1>4

\* With one worker thread nobody else is handled beside a tab that is.
LEMMA HandledAlone ==
  ASSUME DeliveryInv, deliverers = 1, NEW t \in Handled, NEW u \in Handled
  PROVE  t = u
<1> SUFFICES ASSUME t # u
             PROVE  FALSE
  OBVIOUS
<1>1. IsFiniteSet({}) /\ Cardinality({}) = 0
  BY FS_EmptySet
<1>2. IsFiniteSet({t}) /\ Cardinality({t}) = 1
  <2>1. {t} = {} \cup {t}
    OBVIOUS
  <2> QED
    BY <1>1, <2>1, FS_AddElement
<1>3. IsFiniteSet({t, u}) /\ Cardinality({t, u}) = 2
  <2>1. {t, u} = {t} \cup {u} /\ u \notin {t}
    OBVIOUS
  <2> QED
    BY <1>2, <2>1, FS_AddElement
<1>4. {t, u} \subseteq Handled
  OBVIOUS
<1>5. 2 <= Cardinality(Handled)
  BY <1>3, <1>4, HandledIsFinite, FS_Subset
<1> QED
  BY <1>5, HandledIsFinite DEF DeliveryInv, DeliveryTypeOK

\* A write ends its request; every other form goes on relying on what it did.
LEMMA WriteKeepsForms ==
  ASSUME DeliveryInv, NEW t \in DeliveryTabs, NEW op, Done(t, op), UNCHANGED deliveryRoom,
         DeliveryGrows
  PROVE  /\ t \in Handled
         /\ won' = won /\ everWon' = everWon /\ deliverers' = deliverers
         /\ deliveryTab' \in [DeliveryTabs -> DeliveryTabRow]
         /\ Cardinality(Handled') <= deliverers'
         /\ \A u \in DeliveryTabs : FormStands(u)'
<1>1. /\ t \in Handled
      /\ deliveryTab' = [deliveryTab EXCEPT ![t] = NoDeliveryTab]
      /\ won' = won /\ everWon' = everWon /\ deliverers' = deliverers
  BY DEF Done, Handled
<1>2. NoDeliveryTab \in DeliveryTabRow /\ NoDeliveryTab.stage = "closed"
  BY NoDeliveryTabIs
<1>3. /\ deliveryTab' \in [DeliveryTabs -> DeliveryTabRow]
      /\ deliveryTab'[t] = NoDeliveryTab
      /\ \A u \in DeliveryTabs \ {t} : deliveryTab'[u] = deliveryTab[u]
      /\ Cardinality(Handled') <= Cardinality(Handled)
  <2>1. Cardinality(Handled) + 0 = Cardinality(Handled)
    BY HandledIsFinite
  <2> QED
    BY <1>1, <1>2, <2>1, TabChanges
<1>4. Cardinality(Handled') <= deliverers'
  <2>1. Handled' \subseteq DeliveryTabs
    BY DEF Handled
  <2>2. Cardinality(Handled') \in Nat
    BY <2>1, DeliveryAssumption, FS_Subset, FS_CardinalityType
  <2> QED
    BY <1>1, <1>3, <2>2, HandledIsFinite, RoomIs DEF DeliveryInv, DeliveryTypeOK
<1>5. ASSUME NEW u \in DeliveryTabs
      PROVE  FormStands(u)'
  <2>1. CASE u = t
    BY <1>2, <1>3, <2>1 DEF FormStands, Relies
  <2>2. CASE u # t
    <3>1. deliveryTab'[u] = deliveryTab[u]
      BY <1>3, <2>2
    <3>2. ~(deliverers = 1 /\ u \in Handled)
      BY <1>1, <2>2, HandledAlone
    <3> QED
      BY <3>1, <3>2, FormsGoOnStanding
  <2> QED
    BY <2>1, <2>2
<1> QED
  BY <1>1, <1>3, <1>4, <1>5

\* A row of the engagements, written or inserted.
LEMMA EngagementWritten ==
  ASSUME DeliveryInv, UNCHANGED deliveryRoom, NEW e \in EngagementIds,
         NEW row \in EngagementRow, row.status # "none",
         engagement' = [engagement EXCEPT ![e] = row]
  PROVE  /\ engagement' \in [EngagementIds -> EngagementRow']
         /\ engagement'[e] = row
         /\ \A f \in EngagementIds \ {e} : engagement'[f] = engagement[f]
         /\ Engagements' = Engagements \cup {e}
<1>1. engagement \in [EngagementIds -> EngagementRow] /\ EngagementRow' = EngagementRow
  BY RoomIs DEF EngagementRow
<1>2. /\ engagement' \in [EngagementIds -> EngagementRow']
      /\ engagement'[e] = row
      /\ \A f \in EngagementIds \ {e} : engagement'[f] = engagement[f]
  BY <1>1
<1> QED
  BY <1>2 DEF Engagements

LEMMA ItemWritten ==
  ASSUME DeliveryInv, UNCHANGED deliveryRoom, NEW i \in ItemIds,
         NEW row \in ItemRow, row.status # "none",
         item' = [item EXCEPT ![i] = row]
  PROVE  /\ item' \in [ItemIds -> ItemRow']
         /\ item'[i] = row
         /\ \A j \in ItemIds \ {i} : item'[j] = item[j]
         /\ Items' = Items \cup {i}
<1>1. item \in [ItemIds -> ItemRow] /\ ItemRow' = ItemRow
  BY RoomIs DEF ItemRow
<1>2. /\ item' \in [ItemIds -> ItemRow']
      /\ item'[i] = row
      /\ \A j \in ItemIds \ {i} : item'[j] = item[j]
  BY <1>1
<1> QED
  BY <1>2 DEF Items

LEMMA OnboardKeeps ==
  ASSUME DeliveryInv, NEW t \in DeliveryTabs, Onboard(t), UNCHANGED deliveryRoom
  PROVE  DeliveryStepSound
<1>1. PICK c \in FreeClients, e \in FreeEngagements, d \in Deliverers \cup {NoDeliverer} :
        /\ \A other \in Clients : client[other].lead # deliveryTab[t].id
        /\ Done(t, "onboard")
        /\ client' = [client EXCEPT ![c] = [there |-> TRUE, lead |-> deliveryTab[t].id]]
        /\ engagement' = [engagement EXCEPT ![e] =
             [status |-> "active", client |-> c, deliverer |-> d, version |-> 1]]
        /\ UNCHANGED item
  BY DEF Onboard
<1> DEFINE l == deliveryTab[t].id
           row == [status |-> "active", client |-> c, deliverer |-> d, version |-> 1]
<1>2. c \in ClientIds \ Clients /\ e \in EngagementIds \ Engagements
  BY DEF FreeClients, FreeEngagements
<1>3. row \in EngagementRow /\ row.status = "active" /\ row.client = c
  BY <1>2, RoomIs DEF EngagementRow
<1>4. engagement' = [engagement EXCEPT ![e] = row]
  BY <1>1
<1> HIDE DEF row
<1>5. /\ engagement' \in [EngagementIds -> EngagementRow']
      /\ engagement'[e] = row
      /\ \A f \in EngagementIds \ {e} : engagement'[f] = engagement[f]
      /\ Engagements' = Engagements \cup {e}
  BY <1>2, <1>3, <1>4, EngagementWritten
<1>6. l \in everWon /\ l \in WonLeads
  BY <1>1 DEF Done, DeliveryInv, FormStands, Relies, DeliveryTypeOK
<1>7. /\ client' \in [ClientIds -> [there : BOOLEAN, lead : WonLeads]]
      /\ client'[c].there /\ client'[c].lead = l
      /\ \A x \in ClientIds \ {c} : client'[x] = client[x]
      /\ Clients' = Clients \cup {c}
  <2>1. client \in [ClientIds -> [there : BOOLEAN, lead : WonLeads]]
    BY DEF DeliveryInv, DeliveryTypeOK
  <2>2. /\ client' \in [ClientIds -> [there : BOOLEAN, lead : WonLeads]]
        /\ client'[c].there /\ client'[c].lead = l
        /\ \A x \in ClientIds \ {c} : client'[x] = client[x]
    BY <1>1, <1>2, <1>6, <2>1
  <2> QED
    BY <1>2, <2>2 DEF Clients
<1>8. item' = item /\ Items' = Items
  BY <1>1 DEF Items
<1>9. DeliveryGrows
  BY <1>1, <1>2, <1>5, <1>8 DEF DeliveryGrows, Done, Engagements
<1>10. /\ won' = won /\ everWon' = everWon /\ deliverers' = deliverers
       /\ deliveryTab' \in [DeliveryTabs -> DeliveryTabRow]
       /\ Cardinality(Handled') <= deliverers'
       /\ \A u \in DeliveryTabs : FormStands(u)'
  BY <1>1, <1>9, WriteKeepsForms
<1>11. DeliveryTypeOK'
  <2>1. \A f \in Engagements' : engagement'[f].client \in Clients'
    BY <1>2, <1>3, <1>5, <1>7 DEF DeliveryInv, DeliveryTypeOK, Engagements
  <2>2. \A i \in Items' : item'[i].engagement \in Engagements'
    BY <1>5, <1>8 DEF DeliveryInv, DeliveryTypeOK
  <2>3. item' \in [ItemIds -> ItemRow']
    BY <1>8, RoomIs DEF ItemRow
  <2> QED
    BY <1>5, <1>7, <1>10, <2>1, <2>2, <2>3 DEF DeliveryInv, DeliveryTypeOK, EngagementRow, ItemRow
<1>12. OneClientPerWonLead'
  <2>1. \A x \in Clients : x # c /\ x \in ClientIds /\ client'[x] = client[x] /\ client[x].lead # l
    BY <1>1, <1>2, <1>7 DEF Clients
  <2>2. \A x, y \in Clients' : client'[x].lead = client'[y].lead => x = y
    BY <1>7, <2>1 DEF DeliveryInv, OneClientPerWonLead
  <2>3. \A x \in Clients' : client'[x].lead \in everWon'
    BY <1>6, <1>7, <1>10, <2>1 DEF DeliveryInv, OneClientPerWonLead
  <2>4. ASSUME NEW x \in Clients'
        PROVE  \E f \in Engagements' : engagement'[f].client = x
    <3>1. CASE x = c
      BY <1>3, <1>5, <3>1
    <3>2. CASE x # c
      <4>1. PICK f \in Engagements : engagement[f].client = x
        BY <1>7, <3>2 DEF DeliveryInv, OneClientPerWonLead
      <4>2. f \in Engagements' /\ engagement'[f] = engagement[f]
        BY <1>2, <1>5 DEF Engagements
      <4> QED
        BY <4>1, <4>2
    <3> QED
      BY <3>1, <3>2
  <2> QED
    BY <2>2, <2>3, <2>4 DEF OneClientPerWonLead
<1>13. EngagementsChangeByRight /\ ItemsChangeByRight
  BY <1>2, <1>5, <1>8 DEF EngagementsChangeByRight, ItemsChangeByRight, Engagements
<1> QED
  BY <1>10, <1>11, <1>12, <1>13 DEF DeliveryInv, DeliveryStepSound

LEMMA CreateEngagementKeeps ==
  ASSUME DeliveryInv, NEW c \in ClientIds, NEW e \in EngagementIds, CreateEngagement(c, e),
         UNCHANGED deliveryRoom
  PROVE  DeliveryStepSound
<1>1. PICK d \in Deliverers \cup {NoDeliverer} :
        engagement' = [engagement EXCEPT ![e] =
          [status |-> "active", client |-> c, deliverer |-> d, version |-> 1]]
  BY DEF CreateEngagement
<1> DEFINE row == [status |-> "active", client |-> c, deliverer |-> d, version |-> 1]
<1>2. /\ c \in Clients /\ e \notin Engagements
      /\ UNCHANGED <<won, everWon, client, item, deliveryTab, deliverers>>
  BY DEF CreateEngagement, FreeEngagements
<1>3. row \in EngagementRow /\ row.status = "active" /\ row.client = c
  BY RoomIs DEF EngagementRow
<1>4. engagement' = [engagement EXCEPT ![e] = row]
  BY <1>1
<1> HIDE DEF row
<1>5. /\ engagement' \in [EngagementIds -> EngagementRow']
      /\ engagement'[e] = row
      /\ \A f \in EngagementIds \ {e} : engagement'[f] = engagement[f]
      /\ Engagements' = Engagements \cup {e}
  BY <1>3, <1>4, EngagementWritten
<1>6. Clients' = Clients /\ Items' = Items /\ Handled' = Handled
  BY <1>2 DEF Clients, Items, Handled
<1>7. \A f \in Engagements : engagement'[f] = engagement[f]
  BY <1>2, <1>5 DEF Engagements
<1>8. DeliveryGrows
  BY <1>2, <1>5, <1>6, <1>7 DEF DeliveryGrows
<1>9. \A u \in DeliveryTabs : FormStands(u)'
  BY <1>2, <1>7, <1>8, FormsGoOnStanding
<1>10. DeliveryTypeOK'
  <2>1. \A f \in Engagements' : engagement'[f].client \in Clients'
    BY <1>2, <1>3, <1>5, <1>6, <1>7 DEF DeliveryInv, DeliveryTypeOK
  <2>2. \A i \in Items' : item'[i].engagement \in Engagements'
    BY <1>2, <1>5, <1>6 DEF DeliveryInv, DeliveryTypeOK
  <2>3. item' \in [ItemIds -> ItemRow']
    BY <1>2, RoomIs DEF ItemRow
  <2> QED
    BY <1>2, <1>5, <1>6, <2>1, <2>2, <2>3 DEF DeliveryInv, DeliveryTypeOK, EngagementRow, ItemRow
<1>11. OneClientPerWonLead'
  BY <1>2, <1>5, <1>6, <1>7 DEF DeliveryInv, OneClientPerWonLead
<1>12. EngagementsChangeByRight /\ ItemsChangeByRight
  BY <1>2, <1>7 DEF EngagementsChangeByRight, ItemsChangeByRight
<1> QED
  BY <1>2, <1>9, <1>10, <1>11, <1>12 DEF DeliveryInv, DeliveryStepSound

\* A request that finds the version of its form has the permission it was checked
\* for: the row is the one that was checked.
LEMMA StillMayChange ==
  ASSUME DeliveryInv, NEW t \in DeliveryTabs, NEW op \in EngagementOps, NEW row,
         WriteEngagement(t, op, row)
  PROVE  LET e == deliveryTab[t].id IN
         /\ e \in Engagements /\ e \in EngagementIds /\ engagement[e] \in EngagementRow
         /\ t \in Handled /\ deliveryTab[t].op = op
         /\ Changes(deliveryTab[t].by, op, engagement[e])
<1>1. /\ deliveryTab[t].stage = "checked" /\ deliveryTab[t].op = op
      /\ engagement[deliveryTab[t].id].version = deliveryTab[t].version
  BY DEF WriteEngagement, Done
<1>2. Relies(deliveryTab[t])
  BY DEF DeliveryInv, FormStands
<1> QED
  BY <1>1, <1>2, RoomIs DEF Relies, Handled, Engagements

LEMMA WriteEngagementKeeps ==
  ASSUME DeliveryInv, UNCHANGED deliveryRoom, NEW t \in DeliveryTabs, NEW op \in EngagementOps,
         NEW row \in EngagementRow, WriteEngagement(t, op, row),
         LET old == engagement[deliveryTab[t].id] IN
         /\ row.status # "none" /\ row.client = old.client /\ row.version = old.version
         /\ old.status # "active" => row.status = old.status /\ row.deliverer = old.deliverer
  PROVE  DeliveryStepSound
<1> DEFINE e == deliveryTab[t].id
           new == [row EXCEPT !.version = @ + 1]
<1>1. /\ e \in Engagements /\ e \in EngagementIds /\ engagement[e] \in EngagementRow
      /\ t \in Handled /\ deliveryTab[t].op = op
      /\ Changes(deliveryTab[t].by, op, engagement[e])
  BY StillMayChange
<1>2. /\ Done(t, op) /\ client' = client /\ item' = item
      /\ engagement[e].version < deliveryRoom.versions
      /\ engagement' = [engagement EXCEPT ![e] = new]
  BY DEF WriteEngagement
<1>3. row.version + 1 \in 0..deliveryRoom.versions
  <2>1. row.version \in 0..deliveryRoom.versions /\ row.version < deliveryRoom.versions
    BY <1>2 DEF EngagementRow
  <2> QED
    BY <2>1, RoomIs
<1>4. /\ new \in EngagementRow /\ new.version = row.version + 1
      /\ new.status = row.status /\ new.client = row.client /\ new.deliverer = row.deliverer
  BY <1>3 DEF EngagementRow
<1> HIDE DEF new
<1>5. /\ engagement' \in [EngagementIds -> EngagementRow']
      /\ engagement'[e] = new
      /\ \A f \in EngagementIds \ {e} : engagement'[f] = engagement[f]
      /\ Engagements' = Engagements \cup {e}
  BY <1>1, <1>2, <1>4, EngagementWritten
<1>6. Engagements' = Engagements /\ Clients' = Clients /\ Items' = Items
  BY <1>1, <1>2, <1>5 DEF Clients, Items
<1>7. \A f \in Engagements : engagement'[f].client = engagement[f].client
  BY <1>1, <1>4, <1>5 DEF Engagements
<1>8. DeliveryGrows
  BY <1>2, <1>4, <1>5, <1>6 DEF DeliveryGrows, Done, Engagements
<1>9. /\ won' = won /\ everWon' = everWon /\ deliverers' = deliverers
      /\ deliveryTab' \in [DeliveryTabs -> DeliveryTabRow]
      /\ Cardinality(Handled') <= deliverers'
      /\ \A u \in DeliveryTabs : FormStands(u)'
  BY <1>2, <1>8, WriteKeepsForms
<1>10. DeliveryTypeOK'
  <2>1. \A f \in Engagements' : engagement'[f].client \in Clients'
    BY <1>6, <1>7 DEF DeliveryInv, DeliveryTypeOK
  <2>2. \A i \in Items' : item'[i].engagement \in Engagements'
    BY <1>2, <1>6 DEF DeliveryInv, DeliveryTypeOK
  <2>3. item' \in [ItemIds -> ItemRow']
    BY <1>2, RoomIs DEF ItemRow
  <2> QED
    BY <1>2, <1>5, <1>9, <2>1, <2>2, <2>3 DEF DeliveryInv, DeliveryTypeOK, EngagementRow, ItemRow
<1>11. OneClientPerWonLead'
  BY <1>2, <1>6, <1>7, <1>9 DEF DeliveryInv, OneClientPerWonLead
<1>12. EngagementsChangeByRight
  BY <1>1, <1>4, <1>5 DEF EngagementsChangeByRight, Engagements
<1>13. ItemsChangeByRight
  BY <1>2 DEF ItemsChangeByRight
<1> QED
  BY <1>9, <1>10, <1>11, <1>12, <1>13 DEF DeliveryInv, DeliveryStepSound

LEMMA SaveScopeKeeps ==
  ASSUME DeliveryInv, UNCHANGED deliveryRoom, NEW t \in DeliveryTabs, SaveScope(t)
  PROVE  DeliveryStepSound
<1> DEFINE old == engagement[deliveryTab[t].id]
<1>1. PICK d \in Deliverers \cup {NoDeliverer} :
        WriteEngagement(t, "scope", [old EXCEPT !.deliverer = d])
  BY DEF SaveScope
<1> DEFINE row == [old EXCEPT !.deliverer = d]
<1>2. "scope" \in EngagementOps /\ WriteEngagement(t, "scope", row)
  BY <1>1 DEF EngagementOps
<1>3. old \in EngagementRow /\ old.status = "active"
  <2>1. old \in EngagementRow /\ Changes(deliveryTab[t].by, "scope", old)
    BY <1>2, StillMayChange
  <2> QED
    BY <2>1 DEF Changes
<1>4. /\ row \in EngagementRow /\ row.status = old.status /\ row.client = old.client
      /\ row.version = old.version
  BY <1>3 DEF EngagementRow
<1> HIDE DEF row
<1> QED
  BY <1>2, <1>3, <1>4, WriteEngagementKeeps

LEMMA SaveNotesKeeps ==
  ASSUME DeliveryInv, UNCHANGED deliveryRoom, NEW t \in DeliveryTabs, SaveNotes(t)
  PROVE  DeliveryStepSound
<1> DEFINE old == engagement[deliveryTab[t].id]
<1>1. "notes" \in EngagementOps /\ WriteEngagement(t, "notes", old)
  BY DEF SaveNotes, EngagementOps
<1>2. old \in EngagementRow /\ old.status # "none"
  BY <1>1, StillMayChange DEF Engagements
<1> QED
  BY <1>1, <1>2, WriteEngagementKeeps

LEMMA FinishEngagementKeeps ==
  ASSUME DeliveryInv, UNCHANGED deliveryRoom, NEW t \in DeliveryTabs, FinishEngagement(t)
  PROVE  DeliveryStepSound
<1> DEFINE old == engagement[deliveryTab[t].id]
           op == deliveryTab[t].op
           row == [old EXCEPT !.status = op]
<1>1. /\ op \in EngagementOps /\ op \in {"completed", "cancelled"}
      /\ old.status = "active" /\ WriteEngagement(t, op, row)
  BY DEF FinishEngagement, EngagementOps
<1>2. old \in EngagementRow
  BY <1>1, StillMayChange
<1>3. /\ row \in EngagementRow /\ row.status = op /\ row.client = old.client
      /\ row.version = old.version
  BY <1>1, <1>2 DEF EngagementRow
<1> HIDE DEF row
<1> QED
  BY <1>1, <1>3, WriteEngagementKeeps

\* Items: a row is added or changed, and nothing else.
LEMMA ItemWriteKeeps ==
  ASSUME DeliveryInv, UNCHANGED deliveryRoom, NEW t \in DeliveryTabs, NEW op, Done(t, op),
         UNCHANGED <<client, engagement>>,
         NEW i \in ItemIds, NEW row \in ItemRow, row.status # "none",
         item' = [item EXCEPT ![i] = row],
         i \in Items => row.engagement = item[i].engagement,
         row.engagement \in Engagements,
         deliverers = 1 => Manages(deliveryTab[t].by, engagement[row.engagement])
  PROVE  DeliveryStepSound
<1>1. /\ item' \in [ItemIds -> ItemRow']
      /\ item'[i] = row
      /\ \A j \in ItemIds \ {i} : item'[j] = item[j]
      /\ Items' = Items \cup {i}
  BY ItemWritten
<1>2. Clients' = Clients /\ Engagements' = Engagements
  BY DEF Clients, Engagements
<1>3. DeliveryGrows
  BY <1>1, <1>2 DEF DeliveryGrows, Done, Items
<1>4. /\ t \in Handled
      /\ won' = won /\ everWon' = everWon /\ deliverers' = deliverers
      /\ deliveryTab' \in [DeliveryTabs -> DeliveryTabRow]
      /\ Cardinality(Handled') <= deliverers'
      /\ \A u \in DeliveryTabs : FormStands(u)'
  BY <1>3, WriteKeepsForms
<1>5. DeliveryTypeOK'
  <2>1. \A j \in Items' : item'[j].engagement \in Engagements'
    BY <1>1, <1>2 DEF DeliveryInv, DeliveryTypeOK, Items
  <2>2. engagement' \in [EngagementIds -> EngagementRow']
    BY RoomIs DEF EngagementRow
  <2> QED
    BY <1>1, <1>2, <1>4, <2>1, <2>2 DEF DeliveryInv, DeliveryTypeOK, EngagementRow, ItemRow
<1>6. OneClientPerWonLead'
  BY <1>2, <1>4 DEF DeliveryInv, OneClientPerWonLead
<1>7. EngagementsChangeByRight
  BY DEF EngagementsChangeByRight
<1>8. ItemsChangeByRight
  BY <1>1, <1>4 DEF ItemsChangeByRight
<1> QED
  BY <1>4, <1>5, <1>6, <1>7, <1>8 DEF DeliveryInv, DeliveryStepSound

LEMMA AddItemKeeps ==
  ASSUME DeliveryInv, UNCHANGED deliveryRoom, NEW t \in DeliveryTabs, AddItem(t)
  PROVE  DeliveryStepSound
<1> DEFINE e == deliveryTab[t].id
           row == [status |-> "pending", engagement |-> e, version |-> 1]
<1>1. PICK i \in FreeItems : Done(t, "add") /\ item' = [item EXCEPT ![i] = row]
                             /\ UNCHANGED <<client, engagement>>
  BY DEF AddItem
<1>2. i \in ItemIds /\ i \notin Items
  BY DEF FreeItems
<1>3. deliveryTab[t].stage = "checked" /\ deliveryTab[t].op = "add" /\ Relies(deliveryTab[t])
  BY <1>1 DEF Done, DeliveryInv, FormStands
<1>4. e \in Engagements /\ (deliverers = 1 => Manages(deliveryTab[t].by, engagement[e]))
  BY <1>3 DEF Relies
<1>5. row \in ItemRow /\ row.status # "none" /\ row.engagement = e
  BY <1>4, RoomIs DEF ItemRow, ItemStatuses, Engagements
<1> HIDE DEF row
<1> QED
  BY <1>1, <1>2, <1>4, <1>5, ItemWriteKeeps

LEMMA SaveItemKeeps ==
  ASSUME DeliveryInv, UNCHANGED deliveryRoom, NEW t \in DeliveryTabs, SaveItem(t)
  PROVE  DeliveryStepSound
<1> DEFINE i == deliveryTab[t].id
<1>1. PICK s \in ItemStatuses : item' = [item EXCEPT ![i].status = s, ![i].version = @ + 1]
  BY DEF SaveItem
<1>2. /\ Done(t, "item") /\ item[i].version < deliveryRoom.versions
      /\ UNCHANGED <<client, engagement>>
  BY DEF SaveItem
<1>3. deliveryTab[t].stage = "checked" /\ deliveryTab[t].op = "item" /\ Relies(deliveryTab[t])
  BY <1>2 DEF Done, DeliveryInv, FormStands
<1>4. /\ i \in Items /\ i \in ItemIds /\ item[i] \in ItemRow
      /\ item[i].engagement \in Engagements
      /\ deliverers = 1 => Manages(deliveryTab[t].by, engagement[item[i].engagement])
  BY <1>3, RoomIs DEF Relies, Items, DeliveryInv, DeliveryTypeOK
<1>5. item[i].version + 1 \in 0..deliveryRoom.versions
  BY <1>2, <1>4, RoomIs DEF ItemRow
<1> DEFINE row == [item[i] EXCEPT !.status = s, !.version = @ + 1]
<1>6. row \in ItemRow /\ row.status # "none" /\ row.engagement = item[i].engagement
  BY <1>4, <1>5 DEF ItemRow, ItemStatuses
<1>7. item' = [item EXCEPT ![i] = row]
  BY <1>1, <1>4, RoomIs DEF ItemRow
<1> HIDE DEF row
<1> QED
  BY <1>2, <1>4, <1>6, <1>7, ItemWriteKeeps

LEMMA DeliveryNextSound == DeliveryInv /\ DeliveryNext => DeliveryStepSound
<1> SUFFICES ASSUME DeliveryInv, DeliveryStep, UNCHANGED deliveryRoom
             PROVE  DeliveryStepSound
  BY DEF DeliveryNext
<1>1. CASE \E l \in WonLeads : MoveLead(l)
  BY <1>1, MoveLeadKeeps
<1>2. CASE \E c \in ClientIds, e \in EngagementIds : CreateEngagement(c, e)
  BY <1>2, CreateEngagementKeeps
<1>3. ASSUME NEW t \in DeliveryTabs,
             ShowLead(t) \/ ShowEngagement(t) \/ ShowItem(t) \/ CloseDelivery(t)
      PROVE  DeliveryStepSound
  BY <1>3, ShowLeadKeeps, ShowEngagementKeeps, ShowItemKeeps, CloseDeliveryKeeps
<1>4. ASSUME NEW t \in DeliveryTabs,
             CheckOnboard(t) \/ CheckEngagement(t) \/ CheckAddItem(t) \/ CheckItem(t)
      PROVE  DeliveryStepSound
  BY <1>4, DeliveryChecksKeep
<1>5. ASSUME NEW t \in DeliveryTabs,
             \/ Onboard(t) \/ SaveScope(t) \/ SaveNotes(t) \/ FinishEngagement(t)
             \/ AddItem(t) \/ SaveItem(t)
      PROVE  DeliveryStepSound
  BY <1>5, OnboardKeeps, SaveScopeKeeps, SaveNotesKeeps, FinishEngagementKeeps,
     AddItemKeeps, SaveItemKeeps
<1> QED
  BY <1>1, <1>2, <1>3, <1>4, <1>5 DEF DeliveryStep

LEMMA DeliveryInvStep == DeliveryInv /\ [DeliveryNext]_deliveryVars => DeliveryInv'
<1>1. ASSUME DeliveryInv, UNCHANGED deliveryVars
      PROVE  DeliveryInv'
  <2>1. UNCHANGED <<won, everWon, client, engagement, item, deliveryTab, deliverers, deliveryRoom>>
    BY <1>1 DEF deliveryVars
  <2>2. Clients' = Clients /\ Engagements' = Engagements /\ Items' = Items /\ Handled' = Handled
    BY <2>1 DEF Clients, Engagements, Items, Handled
  <2>3. DeliveryTypeOK' /\ OneClientPerWonLead'
    BY <1>1, <2>1, <2>2 DEF DeliveryInv, DeliveryTypeOK, OneClientPerWonLead
  <2>4. \A u \in DeliveryTabs : FormStands(u)'
    BY <1>1, <2>1, <2>2 DEF DeliveryInv, FormStands, Relies
  <2> QED
    BY <1>1, <2>1, <2>3, <2>4 DEF DeliveryInv
<1> QED
  BY <1>1, DeliveryNextSound DEF DeliveryStepSound

\* Every step changes engagements and items as the properties say.
LEMMA DeliveryChanges ==
  ASSUME DeliveryInv, [DeliveryNext]_deliveryVars
  PROVE  /\ [\A e \in Engagements : engagement'[e] # engagement[e] =>
              \E t \in Handled : deliveryTab[t].id = e /\ deliveryTab[t].op \in EngagementOps
                /\ MayChange(deliveryTab[t].by, deliveryTab[t].op, e)]_deliveryVars
         /\ [\A e \in Engagements : engagement[e].status # "active" =>
              /\ engagement'[e].status = engagement[e].status
              /\ engagement'[e].deliverer = engagement[e].deliverer]_deliveryVars
         /\ [deliverers = 1 =>
              \A i \in ItemIds : item'[i] # item[i] =>
                \E t \in Handled :
                  LET who == deliveryTab[t].by
                      e == engagement[item'[i].engagement]
                  IN  who = Owner \/ (who = e.deliverer /\ e.status = "active")]_deliveryVars
<1> SUFFICES ASSUME DeliveryNext
             PROVE  /\ \A e \in Engagements : engagement'[e] # engagement[e] =>
                         \E t \in Handled : deliveryTab[t].id = e
                           /\ deliveryTab[t].op \in EngagementOps
                           /\ MayChange(deliveryTab[t].by, deliveryTab[t].op, e)
                    /\ \A e \in Engagements : engagement[e].status # "active" =>
                         /\ engagement'[e].status = engagement[e].status
                         /\ engagement'[e].deliverer = engagement[e].deliverer
                    /\ deliverers = 1 =>
                         \A i \in ItemIds : item'[i] # item[i] =>
                           \E t \in Handled :
                             LET who == deliveryTab[t].by
                                 e == engagement[item'[i].engagement]
                             IN  who = Owner \/ (who = e.deliverer /\ e.status = "active")
  OBVIOUS
<1>1. EngagementsChangeByRight /\ ItemsChangeByRight
  BY DeliveryNextSound DEF DeliveryStepSound
<1>2. \A e \in Engagements : engagement'[e] # engagement[e] =>
        \E t \in Handled : deliveryTab[t].id = e /\ deliveryTab[t].op \in EngagementOps
                             /\ MayChange(deliveryTab[t].by, deliveryTab[t].op, e)
  BY <1>1, PermissionsAreOfTheRow DEF EngagementsChangeByRight
<1>3. \A e \in Engagements : engagement[e].status # "active" =>
        /\ engagement'[e].status = engagement[e].status
        /\ engagement'[e].deliverer = engagement[e].deliverer
  BY <1>1 DEF EngagementsChangeByRight
<1>4. deliverers = 1 =>
        \A i \in ItemIds : item'[i] # item[i] =>
          \E t \in Handled :
            LET who == deliveryTab[t].by
                e == engagement[item'[i].engagement]
            IN  who = Owner \/ (who = e.deliverer /\ e.status = "active")
  BY <1>1 DEF ItemsChangeByRight, Manages
<1> QED
  BY <1>2, <1>3, <1>4

\* Rows of the delivery tables keep their types and point at rows that are there,
\* and no more requests are handled than there are worker threads.
THEOREM DeliveryTyped == DeliverySpec => []DeliveryTypeOK
<1>1. DeliveryInv => DeliveryTypeOK
  BY DEF DeliveryInv
<1> QED
  BY <1>1, DeliveryInitially, DeliveryInvStep, PTL DEF DeliverySpec

\* One client per won lead, engagements changed by who may change them when they
\* are changed, ends that are final, and with one worker thread items handled by
\* right: for any number of threads, forms and rows.
THEOREM DeliveryHolds == DeliverySpec => DeliveryStands
<1>1. DeliveryInv => OneClientPerWonLead
  BY DEF DeliveryInv
<1> QED
  BY <1>1, DeliveryInitially, DeliveryInvStep, DeliveryChanges, PTL
  DEF DeliverySpec, DeliveryStands, EngagementChangesAllowed, EngagementEndsOnce, ItemsChangedByRight

-----------------------------------------------------------------------------
(* The library.                                                            *)

\* The filter of Without, as far as n.
IsRest(g, list, taken, n) ==
  g = [i \in 0..n |-> IF i = 0 THEN <<>>
                      ELSE IF list[i] \in taken THEN g[i - 1] ELSE Append(g[i - 1], list[i])]

LEMMA RestExists ==
  ASSUME NEW list, NEW taken
  PROVE  \A n \in Nat : \E g : IsRest(g, list, taken, n)
<1> DEFINE T == {n \in Nat : \E g : IsRest(g, list, taken, n)}
<1>1. 0 \in T
  <2> DEFINE g == [i \in 0..0 |-> <<>>]
  <2>1. IsRest(g, list, taken, 0)
    BY DEF IsRest
  <2> QED
    BY <2>1
<1>2. ASSUME NEW n \in Nat, n \in T
      PROVE  n + 1 \in T
  <2>1. PICK g : IsRest(g, list, taken, n)
    BY <1>2
  <2> DEFINE last == IF list[n + 1] \in taken THEN g[n] ELSE Append(g[n], list[n + 1])
             h == [i \in 0..n + 1 |-> IF i = n + 1 THEN last ELSE g[i]]
  <2>2. \A i \in 0..n : g[i] = IF i = 0 THEN <<>>
                               ELSE IF list[i] \in taken THEN g[i - 1]
                               ELSE Append(g[i - 1], list[i])
    BY <2>1 DEF IsRest
  <2>3. h[n + 1] = last /\ \A i \in 0..n : h[i] = g[i]
    BY SMT
  <2>4. \A i \in 0..n + 1 : i = n + 1 \/ i \in 0..n
    OBVIOUS
  <2>5. \A i \in 0..n : i # 0 => i - 1 \in 0..n
    OBVIOUS
  <2>6. \A i \in 0..n : h[i] = IF i = 0 THEN <<>>
                               ELSE IF list[i] \in taken THEN h[i - 1]
                               ELSE Append(h[i - 1], list[i])
    <3> HIDE DEF h
    <3> QED
      BY <2>2, <2>3, <2>5
  <2>7. n + 1 # 0 /\ (n + 1) - 1 = n /\ n \in 0..n
    OBVIOUS
  <2>8. h = [i \in 0..n + 1 |-> h[i]]
    OBVIOUS
  <2>9. h[n + 1] = IF list[n + 1] \in taken THEN h[n] ELSE Append(h[n], list[n + 1])
    BY <2>3, <2>7
  <2> HIDE DEF h, last
  <2>10. \A i \in 0..n + 1 : h[i] = IF i = 0 THEN <<>>
                                    ELSE IF list[i] \in taken THEN h[i - 1]
                                    ELSE Append(h[i - 1], list[i])
    BY <2>4, <2>6, <2>7, <2>9
  <2>11. IsRest(h, list, taken, n + 1)
    BY <2>8, <2>10 DEF IsRest
  <2> QED
    BY <2>11
<1>3. \A n \in Nat : n \in T
  <2> HIDE DEF T
  <2> QED
    BY <1>1, <1>2, InductionOverNat
<1> QED
  BY <1>3

\* s names elements of the list up to n that are not taken, each once.
Untaken(s, list, taken, n, S) ==
  /\ s \in Seq(S)
  /\ \A j \in DOMAIN s : \E m \in 1..n : s[j] = list[m]
  /\ \A j \in DOMAIN s : s[j] \notin taken
  /\ \A j, k \in DOMAIN s : s[j] = s[k] => j = k

LEMMA WithoutIs ==
  ASSUME NEW S, NEW list \in Seq(S), NEW taken,
         \A m, n \in DOMAIN list : list[m] = list[n] => m = n
  PROVE  Untaken(Without(list, taken), list, taken, Len(list), S)
<1> DEFINE P(g) == g = [n \in 0..Len(list) |->
                          IF n = 0 THEN <<>>
                          ELSE IF list[n] \in taken THEN g[n - 1] ELSE Append(g[n - 1], list[n])]
           rest == CHOOSE g : P(g)
<1>1. Without(list, taken) = rest[Len(list)]
  BY DEF Without
<1>2. Len(list) \in Nat /\ DOMAIN list = 1..Len(list)
  BY LenProperties
<1>3. \E g : P(g)
  <2>1. \E g : IsRest(g, list, taken, Len(list))
    BY <1>2, RestExists
  <2>2. PICK g : IsRest(g, list, taken, Len(list))
    BY <2>1
  <2>3. P(g)
    BY <2>2 DEF IsRest
  <2> QED
    BY <2>3
<1>4. P(rest)
  BY <1>3
<1>5. \A n \in 0..Len(list) :
        rest[n] = IF n = 0 THEN <<>>
                  ELSE IF list[n] \in taken THEN rest[n - 1] ELSE Append(rest[n - 1], list[n])
  <2> HIDE DEF rest
  <2> QED
    BY <1>4
<1> HIDE DEF rest
<1> DEFINE T == {n \in Nat : n <= Len(list) => Untaken(rest[n], list, taken, n, S)}
<1>6. 0 \in T
  <2>1. rest[0] = <<>>
    BY <1>2, <1>5
  <2>2. <<>> \in Seq(S) /\ Len(<<>>) = 0 /\ DOMAIN <<>> = {}
    OBVIOUS
  <2>3. Untaken(<<>>, list, taken, 0, S)
    BY <2>2 DEF Untaken
  <2> QED
    BY <2>1, <2>3
<1>7. ASSUME NEW n \in Nat, n \in T
      PROVE  n + 1 \in T
  <2> SUFFICES ASSUME n + 1 <= Len(list)
               PROVE  Untaken(rest[n + 1], list, taken, n + 1, S)
    OBVIOUS
  <2>1. Untaken(rest[n], list, taken, n, S)
    BY <1>2, <1>7
  <2>2. n + 1 \in DOMAIN list /\ list[n + 1] \in S
    BY <1>2, ElementOfSeq
  <2>3. rest[n + 1] = IF list[n + 1] \in taken THEN rest[n] ELSE Append(rest[n], list[n + 1])
    <3>1. n + 1 \in 0..Len(list) /\ n + 1 # 0 /\ (n + 1) - 1 = n
      BY <1>2
    <3> QED
      BY <1>5, <3>1
  <2>4. CASE list[n + 1] \in taken
    <3>1. \A m \in 1..n : m \in 1..n + 1
      OBVIOUS
    <3> QED
      BY <2>1, <2>3, <2>4, <3>1 DEF Untaken
  <2>5. CASE list[n + 1] \notin taken
    <3> DEFINE s == rest[n]
               t == Append(s, list[n + 1])
    <3>1. /\ s \in Seq(S) /\ t \in Seq(S) /\ Len(t) = Len(s) + 1 /\ Len(s) \in Nat
          /\ DOMAIN s = 1..Len(s) /\ DOMAIN t = 1..Len(s) + 1
          /\ \A j \in 1..Len(s) : t[j] = s[j]
          /\ t[Len(s) + 1] = list[n + 1]
      BY <2>1, <2>2, AppendProperties, LenProperties DEF Untaken
    <3> HIDE DEF s, t
    <3>2. \A j \in DOMAIN t : j \in DOMAIN s \/ j = Len(s) + 1
      BY <3>1
    <3>3. \A j \in DOMAIN s : \E m \in 1..n : s[j] = list[m]
      BY <2>1 DEF Untaken, s
    <3>4. \A j \in DOMAIN s : s[j] \notin taken
      BY <2>1 DEF Untaken, s
    <3>5. \A j, k \in DOMAIN s : s[j] = s[k] => j = k
      BY <2>1 DEF Untaken, s
    <3>6. \A m \in 1..n : m \in 1..n + 1 /\ m \in DOMAIN list /\ m # n + 1
      BY <1>2
    <3>7. \A j \in DOMAIN s : s[j] # list[n + 1]
      BY <2>2, <3>3, <3>6
    <3>8. \A j \in DOMAIN t : \E m \in 1..n + 1 : t[j] = list[m]
      BY <2>2, <3>1, <3>2, <3>3, <3>6
    <3>9. \A j \in DOMAIN t : t[j] \notin taken
      BY <2>5, <3>1, <3>2, <3>4
    <3>10. \A j, k \in DOMAIN t : t[j] = t[k] => j = k
      BY <3>1, <3>2, <3>5, <3>7
    <3> QED
      BY <2>3, <2>5, <3>1, <3>8, <3>9, <3>10, ZenonT(40) DEF Untaken, t, s
  <2> QED
    BY <2>4, <2>5
<1>8. \A n \in Nat : n \in T
  <2> HIDE DEF T
  <2> QED
    BY <1>6, <1>7, InductionOverNat
<1> QED
  BY <1>1, <1>2, <1>8

TemplateRow == [live : BOOLEAN, slug : Slugs, words : Wordings, approved : BOOLEAN,
                version : Nat \ {0}]
EntryRow == [live : BOOLEAN, title : Titles, status : {"draft", "active"}, version : Nat \ {0}]
ProfileRow == [plan : Plans, version : Nat \ {0}]

PageRow == [on : {"nothing", "template", "entry", "profile"}, id : Nat,
            seen : TemplateRow \cup EntryRow \cup ProfileRow \cup {NoPage.seen}]

UniqueSlugs(table) ==
  \A i, j \in DOMAIN table : table[i].slug = table[j].slug => i = j
UniqueTitles(table) ==
  \A i, j \in DOMAIN table :
    table[i].live /\ table[j].live /\ table[i].title = table[j].title => i = j

\* A page shows a row as it was, and as it is as long as the version is the same.
RowWasSeen(seen, row) ==
  /\ seen.version <= row.version
  /\ seen.version = row.version => seen = row

PageStands(pg, templates, entries, prof) ==
  /\ pg.on = "template" => pg.id \in DOMAIN templates /\ RowWasSeen(pg.seen, templates[pg.id])
  /\ pg.on = "entry" => pg.id \in DOMAIN entries /\ RowWasSeen(pg.seen, entries[pg.id])
  /\ pg.on = "profile" => RowWasSeen(pg.seen, prof)

\* The inductive invariant.
LibraryInv ==
  /\ template \in Seq(TemplateRow) /\ UniqueSlugs(template)
  /\ entry \in Seq(EntryRow) /\ UniqueTitles(entry)
  /\ profile \in ProfileRow /\ profile.plan # BlankPlan
  /\ page \in [LibraryTabs -> PageRow]
  /\ \A t \in LibraryTabs : PageStands(page[t], template, entry, profile)
  /\ server = "up"
  /\ libraryRoom \in LibraryRooms

\* Rows are added, and change with their version.
TableGrows(old, new) ==
  \A i \in DOMAIN old : i \in DOMAIN new /\ (new[i] = old[i] \/ new[i].version > old[i].version)

LEMMA NewRowsAre ==
  /\ \A slug \in Slugs, words \in Wordings :
       NewTemplate(slug, words) \in TemplateRow /\ NewTemplate(slug, words).slug = slug
  /\ \A title \in Titles, status \in {"draft", "active"} :
       NewEntry(title, status) \in EntryRow /\ NewEntry(title, status).title = title
  /\ FirstWords \in Wordings
BY LibraryAssumption DEF NewTemplate, NewEntry, TemplateRow, EntryRow, FirstWords

\* What a page relies on outlives growth, as versions are numbers.
LEMMA PagesGoOn ==
  ASSUME NEW pg \in PageRow, NEW tp \in Seq(TemplateRow), NEW tp2 \in Seq(TemplateRow),
         NEW en \in Seq(EntryRow), NEW en2 \in Seq(EntryRow),
         NEW pr \in ProfileRow, NEW pr2 \in ProfileRow,
         PageStands(pg, tp, en, pr), TableGrows(tp, tp2), TableGrows(en, en2),
         pr2 = pr \/ pr2.version > pr.version
  PROVE  PageStands(pg, tp2, en2, pr2)
<1>1. pg.seen.version \in Nat
  BY DEF PageRow, TemplateRow, EntryRow, ProfileRow, NoPage
<1>2. /\ \A i \in DOMAIN tp : tp[i].version \in Nat
      /\ \A i \in DOMAIN tp2 : tp2[i].version \in Nat
  <2>1. /\ \A i \in DOMAIN tp : tp[i] \in TemplateRow
        /\ \A i \in DOMAIN tp2 : tp2[i] \in TemplateRow
    OBVIOUS
  <2> QED
    BY <2>1 DEF TemplateRow
<1>3. /\ \A i \in DOMAIN en : en[i].version \in Nat
      /\ \A i \in DOMAIN en2 : en2[i].version \in Nat
  <2>1. /\ \A i \in DOMAIN en : en[i] \in EntryRow
        /\ \A i \in DOMAIN en2 : en2[i] \in EntryRow
    OBVIOUS
  <2> QED
    BY <2>1 DEF EntryRow
<1>4. pr.version \in Nat /\ pr2.version \in Nat
  BY DEF ProfileRow
<1>5. pg.on = "template" => pg.id \in DOMAIN tp2 /\ RowWasSeen(pg.seen, tp2[pg.id])
  <2> SUFFICES ASSUME pg.on = "template"
               PROVE  pg.id \in DOMAIN tp2 /\ RowWasSeen(pg.seen, tp2[pg.id])
    OBVIOUS
  <2>1. pg.id \in DOMAIN tp /\ RowWasSeen(pg.seen, tp[pg.id])
    BY DEF PageStands
  <2>2. pg.id \in DOMAIN tp2
        /\ (tp2[pg.id] = tp[pg.id] \/ tp2[pg.id].version > tp[pg.id].version)
    BY <2>1 DEF TableGrows
  <2> QED
    BY <1>1, <1>2, <2>1, <2>2 DEF RowWasSeen
<1>6. pg.on = "entry" => pg.id \in DOMAIN en2 /\ RowWasSeen(pg.seen, en2[pg.id])
  <2> SUFFICES ASSUME pg.on = "entry"
               PROVE  pg.id \in DOMAIN en2 /\ RowWasSeen(pg.seen, en2[pg.id])
    OBVIOUS
  <2>1. pg.id \in DOMAIN en /\ RowWasSeen(pg.seen, en[pg.id])
    BY DEF PageStands
  <2>2. pg.id \in DOMAIN en2
        /\ (en2[pg.id] = en[pg.id] \/ en2[pg.id].version > en[pg.id].version)
    BY <2>1 DEF TableGrows
  <2> QED
    BY <1>1, <1>3, <2>1, <2>2 DEF RowWasSeen
<1>7. pg.on = "profile" => RowWasSeen(pg.seen, pr2)
  BY <1>1, <1>4 DEF PageStands, RowWasSeen
<1> QED
  BY <1>5, <1>6, <1>7 DEF PageStands

\* Rows that are appended have slugs, or titles, of their own.
LEMMA TemplatesAppended ==
  ASSUME NEW old \in Seq(TemplateRow), UniqueSlugs(old),
         NEW more \in Seq(TemplateRow), UniqueSlugs(more),
         \A j \in DOMAIN more : \A i \in DOMAIN old : old[i].slug # more[j].slug
  PROVE  /\ old \o more \in Seq(TemplateRow) /\ UniqueSlugs(old \o more)
         /\ TableGrows(old, old \o more)
<1> DEFINE new == old \o more
<1>1. /\ new \in Seq(TemplateRow) /\ Len(new) = Len(old) + Len(more)
      /\ Len(old) \in Nat /\ Len(more) \in Nat
      /\ DOMAIN old = 1..Len(old) /\ DOMAIN more = 1..Len(more)
      /\ DOMAIN new = 1..Len(old) + Len(more)
      /\ \A i \in 1..Len(old) + Len(more) :
           new[i] = IF i <= Len(old) THEN old[i] ELSE more[i - Len(old)]
  BY ConcatProperties, LenProperties
<1> HIDE DEF new
<1>2. \A i \in DOMAIN new : \/ i \in DOMAIN old /\ new[i] = old[i]
                            \/ /\ i \notin DOMAIN old /\ i - Len(old) \in DOMAIN more
                               /\ new[i] = more[i - Len(old)]
  BY <1>1
<1>3. UniqueSlugs(new)
  <2> SUFFICES ASSUME NEW i \in DOMAIN new, NEW j \in DOMAIN new, new[i].slug = new[j].slug
               PROVE  i = j
    BY DEF UniqueSlugs
  <2>1. CASE i \in DOMAIN old /\ j \in DOMAIN old
    BY <1>2, <2>1 DEF UniqueSlugs
  <2>2. CASE i \notin DOMAIN old /\ j \notin DOMAIN old
    <3>1. i - Len(old) = j - Len(old)
      BY <1>2, <2>2 DEF UniqueSlugs
    <3> QED
      BY <1>1, <3>1
  <2>3. CASE (i \in DOMAIN old) # (j \in DOMAIN old)
    BY <1>2, <2>3
  <2> QED
    BY <2>1, <2>2, <2>3
<1>4. TableGrows(old, new)
  BY <1>1 DEF TableGrows
<1> QED
  BY <1>1, <1>3, <1>4 DEF new

LEMMA EntriesAppended ==
  ASSUME NEW old \in Seq(EntryRow), UniqueTitles(old),
         NEW more \in Seq(EntryRow), UniqueTitles(more),
         \A j \in DOMAIN more : \A i \in DOMAIN old : old[i].live => old[i].title # more[j].title
  PROVE  /\ old \o more \in Seq(EntryRow) /\ UniqueTitles(old \o more)
         /\ TableGrows(old, old \o more)
<1> DEFINE new == old \o more
<1>1. /\ new \in Seq(EntryRow) /\ Len(new) = Len(old) + Len(more)
      /\ Len(old) \in Nat /\ Len(more) \in Nat
      /\ DOMAIN old = 1..Len(old) /\ DOMAIN more = 1..Len(more)
      /\ DOMAIN new = 1..Len(old) + Len(more)
      /\ \A i \in 1..Len(old) + Len(more) :
           new[i] = IF i <= Len(old) THEN old[i] ELSE more[i - Len(old)]
  BY ConcatProperties, LenProperties
<1> HIDE DEF new
<1>2. \A i \in DOMAIN new : \/ i \in DOMAIN old /\ new[i] = old[i]
                            \/ /\ i \notin DOMAIN old /\ i - Len(old) \in DOMAIN more
                               /\ new[i] = more[i - Len(old)]
  BY <1>1
<1>3. UniqueTitles(new)
  <2> SUFFICES ASSUME NEW i \in DOMAIN new, NEW j \in DOMAIN new,
                      new[i].live, new[j].live, new[i].title = new[j].title
               PROVE  i = j
    BY DEF UniqueTitles
  <2>1. CASE i \in DOMAIN old /\ j \in DOMAIN old
    BY <1>2, <2>1 DEF UniqueTitles
  <2>2. CASE i \notin DOMAIN old /\ j \notin DOMAIN old
    <3>1. i - Len(old) = j - Len(old)
      BY <1>2, <2>2 DEF UniqueTitles
    <3> QED
      BY <1>1, <3>1
  <2>3. CASE (i \in DOMAIN old) # (j \in DOMAIN old)
    BY <1>2, <2>3
  <2> QED
    BY <2>1, <2>2, <2>3
<1>4. TableGrows(old, new)
  BY <1>1 DEF TableGrows
<1> QED
  BY <1>1, <1>3, <1>4 DEF new

\* One row changes, with its version.
LEMMA TemplateChanged ==
  ASSUME NEW old \in Seq(TemplateRow), UniqueSlugs(old), NEW i \in DOMAIN old,
         NEW row \in TemplateRow, row.slug = old[i].slug, row.version > old[i].version
  PROVE  /\ [old EXCEPT ![i] = row] \in Seq(TemplateRow)
         /\ UniqueSlugs([old EXCEPT ![i] = row])
         /\ TableGrows(old, [old EXCEPT ![i] = row])
<1> DEFINE new == [old EXCEPT ![i] = row]
<1>1. /\ DOMAIN old = 1..Len(old) /\ i \in 1..Len(old)
  BY LenProperties
<1>2. /\ new \in Seq(TemplateRow) /\ Len(new) = Len(old)
      /\ \A j \in 1..Len(old) : new[j] = IF j = i THEN row ELSE old[j]
  BY <1>1, ExceptSeq
<1>3. DOMAIN new = DOMAIN old
  OBVIOUS
<1> HIDE DEF new
<1>4. UniqueSlugs(new) /\ TableGrows(old, new)
  BY <1>1, <1>2, <1>3 DEF UniqueSlugs, TableGrows
<1> QED
  BY <1>2, <1>4 DEF new

LEMMA EntryChanged ==
  ASSUME NEW old \in Seq(EntryRow), UniqueTitles(old), NEW i \in DOMAIN old,
         NEW row \in EntryRow, row.version > old[i].version,
         row.live => \A j \in DOMAIN old \ {i} : old[j].live => old[j].title # row.title
  PROVE  /\ [old EXCEPT ![i] = row] \in Seq(EntryRow)
         /\ UniqueTitles([old EXCEPT ![i] = row])
         /\ TableGrows(old, [old EXCEPT ![i] = row])
<1> DEFINE new == [old EXCEPT ![i] = row]
<1>1. /\ DOMAIN old = 1..Len(old) /\ i \in 1..Len(old)
  BY LenProperties
<1>2. /\ new \in Seq(EntryRow) /\ Len(new) = Len(old)
      /\ \A j \in 1..Len(old) : new[j] = IF j = i THEN row ELSE old[j]
  BY <1>1, ExceptSeq
<1>3. DOMAIN new = DOMAIN old
  OBVIOUS
<1> HIDE DEF new
<1>4. UniqueTitles(new) /\ TableGrows(old, new)
  BY <1>1, <1>2, <1>3 DEF UniqueTitles, TableGrows
<1> QED
  BY <1>2, <1>4 DEF new

LEMMA NothingGrows == \A table : TableGrows(table, table)
BY DEF TableGrows

\* The rows a start adds are one for each slug, and title, that is missing.
LEMMA StartersAre ==
  ASSUME NEW taken
  PROVE  LET more == Starters(MissingStarters(taken)) IN
         /\ more \in Seq(TemplateRow) /\ UniqueSlugs(more)
         /\ \A j \in DOMAIN more : more[j].slug \notin taken
<1> DEFINE slugs == MissingStarters(taken)
           more == Starters(slugs)
<1>1. Untaken(slugs, StarterSlugs, taken, Len(StarterSlugs), Slugs)
  BY LibraryAssumption, WithoutIs DEF MissingStarters
<1>2. slugs \in Seq(Slugs) /\ DOMAIN slugs = 1..Len(slugs) /\ Len(slugs) \in Nat
  BY <1>1, LenProperties DEF Untaken
<1> HIDE DEF slugs
<1>3. \A n \in DOMAIN slugs : /\ NewTemplate(slugs[n], FirstWords) \in TemplateRow
                              /\ NewTemplate(slugs[n], FirstWords).slug = slugs[n]
  <2>1. \A n \in DOMAIN slugs : slugs[n] \in Slugs
    BY <1>2
  <2> QED
    BY <2>1, NewRowsAre
<1>4. more = [n \in 1..Len(slugs) |-> NewTemplate(slugs[n], FirstWords)]
  BY <1>2 DEF Starters
<1>5. more \in [1..Len(slugs) -> TemplateRow]
  BY <1>2, <1>3, <1>4
<1>6. DOMAIN more = DOMAIN slugs /\ \A n \in DOMAIN slugs : more[n].slug = slugs[n]
  BY <1>2, <1>3, <1>4
<1> HIDE DEF more
<1>7. more \in Seq(TemplateRow)
  BY <1>2, <1>5
<1>8. UniqueSlugs(more) /\ \A j \in DOMAIN more : more[j].slug \notin taken
  BY <1>1, <1>6 DEF Untaken, UniqueSlugs
<1> QED
  BY <1>7, <1>8 DEF more, slugs

LEMMA SeedsAre ==
  ASSUME NEW taken
  PROVE  LET seeds == MissingSeeds(taken)
             more == Seeds(seeds) IN
         /\ more \in Seq(EntryRow) /\ UniqueTitles(more)
         /\ \A j \in DOMAIN more : more[j].title \notin taken
         /\ \A n \in DOMAIN seeds : seeds[n] \notin taken
<1> DEFINE seeds == MissingSeeds(taken)
           more == Seeds(seeds)
<1>1. Untaken(seeds, SeedTitles, taken, Len(SeedTitles), Titles)
  BY LibraryAssumption, WithoutIs DEF MissingSeeds
<1>2. seeds \in Seq(Titles) /\ DOMAIN seeds = 1..Len(seeds) /\ Len(seeds) \in Nat
  BY <1>1, LenProperties DEF Untaken
<1> HIDE DEF seeds
<1>3. \A n \in DOMAIN seeds : /\ NewEntry(seeds[n], "active") \in EntryRow
                              /\ NewEntry(seeds[n], "active").title = seeds[n]
  <2>1. \A n \in DOMAIN seeds : seeds[n] \in Titles
    BY <1>2
  <2> QED
    BY <2>1, NewRowsAre
<1>4. more = [n \in 1..Len(seeds) |-> NewEntry(seeds[n], "active")]
  BY <1>2 DEF Seeds
<1>5. more \in [1..Len(seeds) -> EntryRow]
  BY <1>2, <1>3, <1>4
<1>6. DOMAIN more = DOMAIN seeds /\ \A n \in DOMAIN seeds : more[n].title = seeds[n]
  BY <1>2, <1>3, <1>4
<1> HIDE DEF more
<1>7. more \in Seq(EntryRow)
  BY <1>2, <1>5
<1>8. /\ UniqueTitles(more) /\ \A j \in DOMAIN more : more[j].title \notin taken
      /\ \A n \in DOMAIN seeds : seeds[n] \notin taken
  BY <1>1, <1>6 DEF Untaken, UniqueTitles
<1> QED
  BY <1>7, <1>8 DEF more, seeds

LEMMA NoPageIs == NoPage \in PageRow /\ NoPage.on = "nothing"
BY DEF NoPage, PageRow

LEMMA LibraryInitially == LibraryInit => LibraryInv
<1> SUFFICES ASSUME LibraryInit
             PROVE  LibraryInv
  OBVIOUS
<1>1. template \in Seq(TemplateRow) /\ UniqueSlugs(template)
  <2>1. /\ template = [n \in 1..Len(StarterSlugs) |-> NewTemplate(StarterSlugs[n], FirstWords)]
        /\ DOMAIN StarterSlugs = 1..Len(StarterSlugs) /\ Len(StarterSlugs) \in Nat
    BY LibraryAssumption, LenProperties DEF LibraryInit, Starters
  <2>2. \A n \in DOMAIN StarterSlugs :
          /\ NewTemplate(StarterSlugs[n], FirstWords) \in TemplateRow
          /\ NewTemplate(StarterSlugs[n], FirstWords).slug = StarterSlugs[n]
    <3>1. \A n \in DOMAIN StarterSlugs : StarterSlugs[n] \in Slugs
      BY LibraryAssumption
    <3> QED
      BY <3>1, NewRowsAre
  <2>3. template \in [1..Len(StarterSlugs) -> TemplateRow]
    BY <2>1, <2>2
  <2>4. DOMAIN template = DOMAIN StarterSlugs
        /\ \A n \in DOMAIN StarterSlugs : template[n].slug = StarterSlugs[n]
    BY <2>1, <2>2
  <2> QED
    BY <2>1, <2>3, <2>4, LibraryAssumption, SMTT(30) DEF UniqueSlugs
<1>2. entry \in Seq(EntryRow) /\ UniqueTitles(entry)
  <2>1. /\ entry = [n \in 1..Len(SeedTitles) |-> NewEntry(SeedTitles[n], "active")]
        /\ DOMAIN SeedTitles = 1..Len(SeedTitles) /\ Len(SeedTitles) \in Nat
    BY LibraryAssumption, LenProperties DEF LibraryInit, Seeds
  <2>2. \A n \in DOMAIN SeedTitles :
          /\ NewEntry(SeedTitles[n], "active") \in EntryRow
          /\ NewEntry(SeedTitles[n], "active").title = SeedTitles[n]
    <3>1. \A n \in DOMAIN SeedTitles : SeedTitles[n] \in Titles
      BY LibraryAssumption
    <3> QED
      BY <3>1, NewRowsAre
  <2>3. entry \in [1..Len(SeedTitles) -> EntryRow]
    BY <2>1, <2>2
  <2>4. DOMAIN entry = DOMAIN SeedTitles
        /\ \A n \in DOMAIN SeedTitles : entry[n].title = SeedTitles[n]
    BY <2>1, <2>2
  <2> QED
    BY <2>1, <2>3, <2>4, LibraryAssumption DEF UniqueTitles
<1>3. profile \in ProfileRow /\ profile.plan # BlankPlan
  BY DEF LibraryInit, ProfileRow
<1>4. /\ page \in [LibraryTabs -> PageRow]
      /\ \A t \in LibraryTabs : PageStands(page[t], template, entry, profile)
  BY NoPageIs DEF LibraryInit, PageStands
<1> QED
  BY <1>1, <1>2, <1>3, <1>4 DEF LibraryInit, LibraryInv

\* Steps on pages, and steps on tables.
LEMMA PageStepKeeps ==
  ASSUME LibraryInv, NEW t \in LibraryTabs, NEW pg \in PageRow,
         PageStands(pg, template, entry, profile),
         page' = [page EXCEPT ![t] = pg],
         UNCHANGED <<template, entry, profile, server, libraryRoom>>
  PROVE  LibraryInv'
<1>1. /\ page' \in [LibraryTabs -> PageRow]
      /\ \A u \in LibraryTabs : page'[u] = page[u] \/ page'[u] = pg
  BY DEF LibraryInv
<1>2. \A u \in LibraryTabs : PageStands(page'[u], template, entry, profile)
  BY <1>1 DEF LibraryInv
<1> QED
  BY <1>1, <1>2 DEF LibraryInv

LEMMA TableStepKeeps ==
  ASSUME LibraryInv,
         template' \in Seq(TemplateRow), UniqueSlugs(template'), TableGrows(template, template'),
         entry' \in Seq(EntryRow), UniqueTitles(entry'), TableGrows(entry, entry'),
         profile' \in ProfileRow, profile'.plan # BlankPlan,
         profile' = profile \/ profile'.version > profile.version,
         page' \in [LibraryTabs -> PageRow],
         \A u \in LibraryTabs : page'[u] = page[u] \/ page'[u] = NoPage,
         server' = "up", libraryRoom' = libraryRoom
  PROVE  LibraryInv'
<1>1. ASSUME NEW u \in LibraryTabs
      PROVE  PageStands(page'[u], template', entry', profile')
  <2>1. CASE page'[u] = NoPage
    BY <2>1, NoPageIs DEF PageStands
  <2>2. CASE page'[u] = page[u]
    <3>1. PageStands(page[u], template', entry', profile')
      BY PagesGoOn DEF LibraryInv
    <3> QED
      BY <2>2, <3>1
  <2> QED
    BY <2>1, <2>2
<1> QED
  BY <1>1 DEF LibraryInv

\* What a step may do, as the property says it.
OnlySeenRowsChange ==
  \A t \in LibraryTabs : page[t] # NoPage /\ page'[t] = NoPage =>
    /\ template' # template => page[t].on = "template" /\ page[t].seen = template[page[t].id]
    /\ entry' # entry => page[t].on = "entry" /\ page[t].seen = entry[page[t].id]
    /\ profile' # profile => page[t].on = "profile" /\ page[t].seen = profile

LEMMA OpenKeeps ==
  ASSUME LibraryInv, NEW t \in LibraryTabs, NEW on \in {"template", "entry", "profile"},
         NEW id \in Nat, NEW row, Open(t, on, id, row),
         \/ on = "template" /\ id \in DOMAIN template /\ row = template[id]
         \/ on = "entry" /\ id \in DOMAIN entry /\ row = entry[id]
         \/ on = "profile" /\ row = profile
  PROVE  LibraryInv' /\ OnlySeenRowsChange
<1> DEFINE pg == [on |-> on, id |-> id, seen |-> row]
<1>1. /\ page' = [page EXCEPT ![t] = pg]
      /\ UNCHANGED <<template, entry, profile, server, libraryRoom>>
  BY DEF Open
<1>2. row \in TemplateRow \cup EntryRow \cup ProfileRow /\ row.version \in Nat
  <2>1. CASE on = "template" /\ id \in DOMAIN template /\ row = template[id]
    <3>1. row \in TemplateRow
      BY <2>1 DEF LibraryInv
    <3> QED
      BY <3>1 DEF TemplateRow
  <2>2. CASE on = "entry" /\ id \in DOMAIN entry /\ row = entry[id]
    <3>1. row \in EntryRow
      BY <2>2 DEF LibraryInv
    <3> QED
      BY <3>1 DEF EntryRow
  <2>3. CASE on = "profile" /\ row = profile
    BY <2>3 DEF LibraryInv, ProfileRow
  <2> QED
    BY <2>1, <2>2, <2>3
<1>3. pg \in PageRow
  BY <1>2 DEF PageRow
<1>4. RowWasSeen(row, row)
  BY <1>2 DEF RowWasSeen
<1>5. PageStands(pg, template, entry, profile)
  BY <1>4 DEF PageStands
<1> HIDE DEF pg
<1>6. OnlySeenRowsChange
  BY <1>1 DEF OnlySeenRowsChange
<1> QED
  BY <1>1, <1>3, <1>5, <1>6, PageStepKeeps

LEMMA PagesKeep ==
  ASSUME LibraryInv, NEW t \in LibraryTabs,
         OpenTemplate(t) \/ OpenEntry(t) \/ OpenProfile(t) \/ ClosePage(t)
  PROVE  LibraryInv' /\ OnlySeenRowsChange
<1>1. CASE OpenTemplate(t)
  <2>1. PICK i \in LiveTemplates : Open(t, "template", i, template[i])
    BY <1>1 DEF OpenTemplate
  <2>2. i \in DOMAIN template /\ i \in Nat
    BY LenProperties DEF LiveTemplates, LibraryInv
  <2> QED
    BY <2>1, <2>2, OpenKeeps
<1>2. CASE OpenEntry(t)
  <2>1. PICK i \in LiveEntries : Open(t, "entry", i, entry[i])
    BY <1>2 DEF OpenEntry
  <2>2. i \in DOMAIN entry /\ i \in Nat
    BY LenProperties DEF LiveEntries, LibraryInv
  <2> QED
    BY <2>1, <2>2, OpenKeeps
<1>3. CASE OpenProfile(t)
  <2>1. Open(t, "profile", 0, profile)
    BY <1>3 DEF OpenProfile
  <2> QED
    BY <2>1, OpenKeeps
<1>4. CASE ClosePage(t)
  <2>1. /\ page' = [page EXCEPT ![t] = NoPage]
        /\ UNCHANGED <<template, entry, profile, server, libraryRoom>>
    BY <1>4 DEF ClosePage
  <2>2. PageStands(NoPage, template, entry, profile)
    BY NoPageIs DEF PageStands
  <2>3. OnlySeenRowsChange
    BY <2>1 DEF OnlySeenRowsChange
  <2> QED
    BY <2>1, <2>2, <2>3, NoPageIs, PageStepKeeps
<1> QED
  BY <1>1, <1>2, <1>3, <1>4

LEMMA SubmittedPages ==
  ASSUME LibraryInv, NEW t \in LibraryTabs, Submitted(t)
  PROVE  /\ page' \in [LibraryTabs -> PageRow]
         /\ \A u \in LibraryTabs : page'[u] = page[u] \/ page'[u] = NoPage
         /\ \A u \in LibraryTabs : page[u] # NoPage /\ page'[u] = NoPage => u = t
BY NoPageIs DEF Submitted, LibraryInv

\* A change of a template, whoever makes it.
LEMMA ChangeTemplateKeeps ==
  ASSUME LibraryInv, NEW i \in DOMAIN template, NEW row \in TemplateRow,
         row.slug = template[i].slug, ChangeTemplate(i, row),
         page' \in [LibraryTabs -> PageRow],
         \A u \in LibraryTabs : page'[u] = page[u] \/ page'[u] = NoPage
  PROVE  LibraryInv'
<1> DEFINE new == [row EXCEPT !.version = template[i].version + 1]
<1>1. /\ template' = [template EXCEPT ![i] = new]
      /\ UNCHANGED <<entry, profile, server, libraryRoom>>
  BY DEF ChangeTemplate
<1>2. template[i] \in TemplateRow /\ template[i].version \in Nat
  <2>1. template[i] \in TemplateRow
    BY DEF LibraryInv
  <2> QED
    BY <2>1 DEF TemplateRow
<1>3. template[i].version + 1 \in Nat \ {0} /\ template[i].version + 1 > template[i].version
  BY <1>2
<1>4. new \in TemplateRow /\ new.slug = template[i].slug /\ new.version = template[i].version + 1
  BY <1>3 DEF TemplateRow
<1> HIDE DEF new
<1>5. /\ template' \in Seq(TemplateRow) /\ UniqueSlugs(template')
      /\ TableGrows(template, template')
  <2>1. template \in Seq(TemplateRow) /\ UniqueSlugs(template) /\ new.version > template[i].version
    BY <1>3, <1>4 DEF LibraryInv
  <2> QED
    BY <1>1, <1>4, <2>1, TemplateChanged
<1> QED
  BY <1>1, <1>5, NothingGrows, TableStepKeeps DEF LibraryInv

LEMMA TemplateFormsKeep ==
  ASSUME LibraryInv, NEW t \in LibraryTabs, UpdateTemplate(t) \/ SetApproval(t)
  PROVE  LibraryInv' /\ OnlySeenRowsChange
<1> DEFINE i == page[t].id
<1>1. /\ ShowsTemplate(t) /\ Submitted(t)
      /\ i \in DOMAIN template /\ page[t].on = "template"
      /\ page[t].seen.version = template[i].version
  BY DEF UpdateTemplate, SetApproval, ShowsTemplate, LiveTemplates
<1>2. page[t].seen = template[i] /\ template[i] \in TemplateRow
  <2>1. PageStands(page[t], template, entry, profile)
    BY DEF LibraryInv
  <2>2. page[t].seen = template[i]
    BY <1>1, <2>1 DEF PageStands, RowWasSeen
  <2> QED
    BY <1>1, <2>2 DEF LibraryInv
<1>3. \E row \in TemplateRow : row.slug = template[i].slug /\ ChangeTemplate(i, row)
  <2>1. CASE UpdateTemplate(t)
    <3>1. PICK words \in Wordings : ChangeTemplate(i, [template[i] EXCEPT !.words = words])
      BY <2>1 DEF UpdateTemplate
    <3> DEFINE row == [template[i] EXCEPT !.words = words]
    <3>2. row \in TemplateRow /\ row.slug = template[i].slug
      BY <1>2 DEF TemplateRow
    <3> QED
      BY <3>1, <3>2
  <2>2. CASE SetApproval(t)
    <3> DEFINE row == [template[i] EXCEPT !.approved = ~page[t].seen.approved]
    <3>1. ChangeTemplate(i, row)
      BY <2>2 DEF SetApproval
    <3>2. (~page[t].seen.approved) \in BOOLEAN
      BY <1>2 DEF TemplateRow
    <3>3. row \in TemplateRow /\ row.slug = template[i].slug
      BY <1>2, <3>2 DEF TemplateRow
    <3> QED
      BY <3>1, <3>3
  <2> QED
    BY <2>1, <2>2
<1>4. LibraryInv'
  BY <1>1, <1>3, SubmittedPages, ChangeTemplateKeeps
<1>5. entry' = entry /\ profile' = profile
  BY <1>3 DEF ChangeTemplate
<1>6. OnlySeenRowsChange
  BY <1>1, <1>2, <1>5, SubmittedPages DEF OnlySeenRowsChange
<1> QED
  BY <1>4, <1>6

LEMMA ArchiveTemplateKeeps ==
  ASSUME LibraryInv, ArchiveTemplate
  PROVE  LibraryInv' /\ OnlySeenRowsChange
<1>1. PICK i \in LiveTemplates : ChangeTemplate(i, [template[i] EXCEPT !.live = FALSE])
  BY DEF ArchiveTemplate
<1>2. i \in DOMAIN template /\ template[i] \in TemplateRow /\ page' = page
  BY DEF LiveTemplates, LibraryInv, ArchiveTemplate
<1> DEFINE row == [template[i] EXCEPT !.live = FALSE]
<1>3. row \in TemplateRow /\ row.slug = template[i].slug /\ ChangeTemplate(i, row)
  BY <1>1, <1>2 DEF TemplateRow
<1> HIDE DEF row
<1>4. page' \in [LibraryTabs -> PageRow] /\ \A u \in LibraryTabs : page'[u] = page[u]
  BY <1>2 DEF LibraryInv
<1>5. LibraryInv'
  BY <1>2, <1>3, <1>4, ChangeTemplateKeeps
<1>6. OnlySeenRowsChange
  BY <1>2 DEF OnlySeenRowsChange
<1> QED
  BY <1>5, <1>6

LEMMA CreateTemplateKeeps ==
  ASSUME LibraryInv, CreateTemplate
  PROVE  LibraryInv' /\ OnlySeenRowsChange
<1>1. PICK slug \in Slugs \ SlugsTaken, words \in Wordings :
        template' = Append(template, NewTemplate(slug, words))
  BY DEF CreateTemplate
<1> DEFINE row == NewTemplate(slug, words)
<1>2. UNCHANGED <<entry, profile, page, server, libraryRoom>>
  BY DEF CreateTemplate
<1>3. row \in TemplateRow /\ row.slug = slug
  BY NewRowsAre
<1> HIDE DEF row
<1>4. <<row>> \in Seq(TemplateRow) /\ DOMAIN <<row>> = {1} /\ <<row>>[1] = row
  BY <1>3
<1>5. UniqueSlugs(<<row>>)
  BY <1>4 DEF UniqueSlugs
<1>6. \A j \in DOMAIN <<row>> : \A i \in DOMAIN template : template[i].slug # <<row>>[j].slug
  BY <1>3, <1>4 DEF SlugsTaken
<1>7. template' = template \o <<row>>
  BY <1>1, <1>3, AppendIsConcat DEF LibraryInv, row
<1>8. /\ template' \in Seq(TemplateRow) /\ UniqueSlugs(template')
      /\ TableGrows(template, template')
  BY <1>4, <1>5, <1>6, <1>7, TemplatesAppended DEF LibraryInv
<1>9. LibraryInv'
  BY <1>2, <1>8, NothingGrows, TableStepKeeps DEF LibraryInv
<1>10. OnlySeenRowsChange
  BY <1>2 DEF OnlySeenRowsChange
<1> QED
  BY <1>9, <1>10

\* A change of an entry: it keeps its title, or takes one that is free.
LEMMA ChangeEntryKeeps ==
  ASSUME LibraryInv, NEW i \in DOMAIN entry, NEW row \in EntryRow,
         ChangeEntry(i, row),
         row.live => \A j \in DOMAIN entry \ {i} : entry[j].live => entry[j].title # row.title,
         page' \in [LibraryTabs -> PageRow],
         \A u \in LibraryTabs : page'[u] = page[u] \/ page'[u] = NoPage
  PROVE  LibraryInv'
<1> DEFINE new == [row EXCEPT !.version = entry[i].version + 1]
<1>1. /\ entry' = [entry EXCEPT ![i] = new]
      /\ UNCHANGED <<template, profile, server, libraryRoom>>
  BY DEF ChangeEntry
<1>2. entry[i] \in EntryRow /\ entry[i].version \in Nat
  <2>1. entry[i] \in EntryRow
    BY DEF LibraryInv
  <2> QED
    BY <2>1 DEF EntryRow
<1>3. entry[i].version + 1 \in Nat \ {0} /\ entry[i].version + 1 > entry[i].version
  BY <1>2
<1>4. /\ new \in EntryRow /\ new.title = row.title /\ new.live = row.live
      /\ new.version = entry[i].version + 1
  BY <1>3 DEF EntryRow
<1> HIDE DEF new
<1>5. entry' \in Seq(EntryRow) /\ UniqueTitles(entry') /\ TableGrows(entry, entry')
  <2>1. entry \in Seq(EntryRow) /\ UniqueTitles(entry) /\ new.version > entry[i].version
    BY <1>3, <1>4 DEF LibraryInv
  <2> QED
    BY <1>1, <1>4, <2>1, EntryChanged
<1> QED
  BY <1>1, <1>5, NothingGrows, TableStepKeeps DEF LibraryInv

LEMMA EntryFormsKeep ==
  ASSUME LibraryInv, NEW t \in LibraryTabs, UpdateEntry(t) \/ ArchiveEntry(t)
  PROVE  LibraryInv' /\ OnlySeenRowsChange
<1> DEFINE i == page[t].id
<1>1. /\ ShowsEntry(t) /\ Submitted(t)
      /\ i \in DOMAIN entry /\ page[t].on = "entry" /\ entry[i].live
      /\ page[t].seen.version = entry[i].version
  BY DEF UpdateEntry, ArchiveEntry, ShowsEntry, LiveEntries
<1>2. page[t].seen = entry[i] /\ entry[i] \in EntryRow
  <2>1. PageStands(page[t], template, entry, profile)
    BY DEF LibraryInv
  <2>2. page[t].seen = entry[i]
    BY <1>1, <2>1 DEF PageStands, RowWasSeen
  <2> QED
    BY <1>1, <2>2 DEF LibraryInv
<1>3. \E row \in EntryRow :
        /\ ChangeEntry(i, row)
        /\ row.live => \A j \in DOMAIN entry \ {i} : entry[j].live => entry[j].title # row.title
  <2>1. CASE UpdateEntry(t)
    <3>1. PICK title \in (Titles \ TitlesTaken) \cup {entry[i].title},
               status \in {"draft", "active"} :
            ChangeEntry(i, [entry[i] EXCEPT !.title = title, !.status = status])
      BY <2>1 DEF UpdateEntry
    <3> DEFINE row == [entry[i] EXCEPT !.title = title, !.status = status]
    <3>2. row \in EntryRow /\ row.title = title
      BY <1>2 DEF EntryRow
    <3>3. ASSUME NEW j \in DOMAIN entry \ {i}, entry[j].live
          PROVE  entry[j].title # title
      <4>1. CASE title = entry[i].title
        BY <1>1, <3>3, <4>1 DEF LibraryInv, UniqueTitles
      <4>2. CASE title \notin TitlesTaken
        BY <3>3, <4>2 DEF TitlesTaken, LiveEntries
      <4> QED
        BY <3>1, <4>1, <4>2
    <3> HIDE DEF row
    <3> QED
      BY <3>1, <3>2, <3>3 DEF row
  <2>2. CASE ArchiveEntry(t)
    <3> DEFINE row == [entry[i] EXCEPT !.live = FALSE]
    <3>1. ChangeEntry(i, row)
      BY <2>2 DEF ArchiveEntry
    <3>2. row \in EntryRow /\ row.live = FALSE
      BY <1>2 DEF EntryRow
    <3> HIDE DEF row
    <3> QED
      BY <3>1, <3>2
  <2> QED
    BY <2>1, <2>2
<1>4. LibraryInv'
  BY <1>1, <1>3, SubmittedPages, ChangeEntryKeeps
<1>5. template' = template /\ profile' = profile
  BY <1>3 DEF ChangeEntry
<1>6. OnlySeenRowsChange
  BY <1>1, <1>2, <1>5, SubmittedPages DEF OnlySeenRowsChange
<1> QED
  BY <1>4, <1>6

LEMMA CreateEntryKeeps ==
  ASSUME LibraryInv, CreateEntry
  PROVE  LibraryInv' /\ OnlySeenRowsChange
<1>1. PICK title \in Titles \ TitlesTaken, status \in {"draft", "active"} :
        entry' = Append(entry, NewEntry(title, status))
  BY DEF CreateEntry
<1> DEFINE row == NewEntry(title, status)
<1>2. UNCHANGED <<template, profile, page, server, libraryRoom>>
  BY DEF CreateEntry
<1>3. row \in EntryRow /\ row.title = title
  BY NewRowsAre
<1> HIDE DEF row
<1>4. <<row>> \in Seq(EntryRow) /\ DOMAIN <<row>> = {1} /\ <<row>>[1] = row
  BY <1>3
<1>5. UniqueTitles(<<row>>)
  BY <1>4 DEF UniqueTitles
<1>6. \A j \in DOMAIN <<row>> : \A i \in DOMAIN entry :
        entry[i].live => entry[i].title # <<row>>[j].title
  BY <1>3, <1>4 DEF TitlesTaken, LiveEntries
<1>7. entry' = entry \o <<row>>
  BY <1>1, <1>3, AppendIsConcat DEF LibraryInv, row
<1>8. entry' \in Seq(EntryRow) /\ UniqueTitles(entry') /\ TableGrows(entry, entry')
  BY <1>4, <1>5, <1>6, <1>7, EntriesAppended DEF LibraryInv
<1>9. LibraryInv'
  BY <1>2, <1>8, NothingGrows, TableStepKeeps DEF LibraryInv
<1>10. OnlySeenRowsChange
  BY <1>2 DEF OnlySeenRowsChange
<1> QED
  BY <1>9, <1>10

LEMMA UpdateProfileKeeps ==
  ASSUME LibraryInv, NEW t \in LibraryTabs, UpdateProfile(t)
  PROVE  LibraryInv' /\ OnlySeenRowsChange
<1>1. PICK plan \in Plans \ {BlankPlan} :
        profile' = [plan |-> plan, version |-> profile.version + 1]
  BY DEF UpdateProfile
<1>2. /\ page[t].on = "profile" /\ page[t].seen.version = profile.version
      /\ UNCHANGED <<template, entry, server, libraryRoom>> /\ Submitted(t)
  BY DEF UpdateProfile
<1>3. page[t].seen = profile
  <2>1. PageStands(page[t], template, entry, profile)
    BY DEF LibraryInv
  <2> QED
    BY <1>2, <2>1 DEF PageStands, RowWasSeen
<1>4. profile.version \in Nat
  BY DEF LibraryInv, ProfileRow
<1>5. /\ profile' \in ProfileRow /\ profile'.plan # BlankPlan
      /\ profile'.version > profile.version
  BY <1>1, <1>4 DEF ProfileRow
<1>6. LibraryInv'
  BY <1>2, <1>5, NothingGrows, SubmittedPages, TableStepKeeps DEF LibraryInv
<1>7. OnlySeenRowsChange
  BY <1>2, <1>3, SubmittedPages DEF OnlySeenRowsChange
<1> QED
  BY <1>6, <1>7

\* A start finds only rows missing that nothing keeps it from adding.
LEMMA RestartKeeps ==
  ASSUME LibraryInv, Restart
  PROVE  LibraryInv' /\ OnlySeenRowsChange
<1> DEFINE starters == MissingStarters(SlugsTaken)
           seeds == MissingSeeds(TitlesTaken)
<1>1. /\ server' = IF Starts(seeds) THEN "up" ELSE "down"
      /\ template' = template \o IF Starts(seeds) THEN Starters(starters) ELSE <<>>
      /\ entry' = entry \o IF Starts(seeds) THEN Seeds(seeds) ELSE <<>>
      /\ UNCHANGED <<profile, page, libraryRoom>>
  BY DEF Restart
<1>2. /\ Starters(starters) \in Seq(TemplateRow) /\ UniqueSlugs(Starters(starters))
      /\ \A j \in DOMAIN Starters(starters) : Starters(starters)[j].slug \notin SlugsTaken
  BY StartersAre
<1>3. /\ Seeds(seeds) \in Seq(EntryRow) /\ UniqueTitles(Seeds(seeds))
      /\ \A j \in DOMAIN Seeds(seeds) : Seeds(seeds)[j].title \notin TitlesTaken
      /\ \A n \in DOMAIN seeds : seeds[n] \notin TitlesTaken
  BY SeedsAre
<1> HIDE DEF starters, seeds
<1>4. Starts(seeds)
  BY <1>3 DEF Starts, LibraryInv
<1>5. /\ server' = "up" /\ template' = template \o Starters(starters)
      /\ entry' = entry \o Seeds(seeds)
  BY <1>1, <1>4
<1>6. \A j \in DOMAIN Starters(starters) : \A i \in DOMAIN template :
        template[i].slug # Starters(starters)[j].slug
  BY <1>2 DEF SlugsTaken
<1>7. \A j \in DOMAIN Seeds(seeds) : \A i \in DOMAIN entry :
        entry[i].live => entry[i].title # Seeds(seeds)[j].title
  BY <1>3 DEF TitlesTaken, LiveEntries
<1>8. /\ template' \in Seq(TemplateRow) /\ UniqueSlugs(template')
      /\ TableGrows(template, template')
  BY <1>2, <1>5, <1>6, TemplatesAppended DEF LibraryInv
<1>9. entry' \in Seq(EntryRow) /\ UniqueTitles(entry') /\ TableGrows(entry, entry')
  BY <1>3, <1>5, <1>7, EntriesAppended DEF LibraryInv
<1>10. LibraryInv'
  BY <1>1, <1>5, <1>8, <1>9, TableStepKeeps DEF LibraryInv
<1>11. OnlySeenRowsChange
  BY <1>1 DEF OnlySeenRowsChange
<1> QED
  BY <1>10, <1>11

LEMMA LibraryNextSound == LibraryInv /\ LibraryNext => LibraryInv' /\ OnlySeenRowsChange
<1> SUFFICES ASSUME LibraryInv, LibraryNext
             PROVE  LibraryInv' /\ OnlySeenRowsChange
  OBVIOUS
<1>1. ASSUME NEW t \in LibraryTabs,
             OpenTemplate(t) \/ OpenEntry(t) \/ OpenProfile(t) \/ ClosePage(t)
      PROVE  LibraryInv' /\ OnlySeenRowsChange
  BY <1>1, PagesKeep
<1>2. ASSUME NEW t \in LibraryTabs, UpdateTemplate(t) \/ SetApproval(t)
      PROVE  LibraryInv' /\ OnlySeenRowsChange
  BY <1>2, TemplateFormsKeep
<1>3. ASSUME NEW t \in LibraryTabs, UpdateEntry(t) \/ ArchiveEntry(t) \/ UpdateProfile(t)
      PROVE  LibraryInv' /\ OnlySeenRowsChange
  BY <1>3, EntryFormsKeep, UpdateProfileKeeps
<1>4. CASE CreateTemplate \/ ArchiveTemplate \/ CreateEntry \/ Restart
  BY <1>4, CreateTemplateKeeps, ArchiveTemplateKeeps, CreateEntryKeeps, RestartKeeps
<1> QED
  BY <1>1, <1>2, <1>3, <1>4 DEF LibraryNext

LEMMA LibraryInvStep == LibraryInv /\ [LibraryNext]_libraryVars => LibraryInv'
<1>1. ASSUME LibraryInv, UNCHANGED libraryVars
      PROVE  LibraryInv'
  BY <1>1 DEF LibraryInv, libraryVars
<1> QED
  BY <1>1, LibraryNextSound

\* The server starts whatever was written, renamed, archived or drafted before, and
\* no start brings a second template for a slug or a second live entry for a title.
THEOREM LibraryHolds == LibrarySpec => []LibraryStands
<1>1. LibraryInv => LibraryStands
  BY DEF LibraryInv, LibraryStands, UniqueSlugs, UniqueTitles, LiveEntries
<1> QED
  BY <1>1, LibraryInitially, LibraryInvStep, PTL DEF LibrarySpec

\* The library's tables and pages keep their types.
THEOREM LibraryTyped == LibrarySpec => []LibraryTypeOK
<1>1. LibraryInv => LibraryTypeOK
  <2> SUFFICES ASSUME LibraryInv
               PROVE  LibraryTypeOK
    OBVIOUS
  <2>1. \A t \in LibraryTabs :
          /\ page[t].on \in {"nothing", "template", "entry", "profile"}
          /\ page[t].on = "template" => page[t].id \in DOMAIN template
          /\ page[t].on = "entry" => page[t].id \in DOMAIN entry
    BY DEF LibraryInv, PageStands, PageRow
  <2> QED
    BY <2>1 DEF LibraryInv, LibraryTypeOK, TemplateRow, EntryRow, ProfileRow
<1> QED
  BY <1>1, LibraryInitially, LibraryInvStep, PTL DEF LibrarySpec

\* A form changes only a live row that is still as its page shows it.
THEOREM LibraryIsSeen == LibrarySpec => LibraryChangesAreSeen
<1>1. LibraryInv /\ [LibraryNext]_libraryVars =>
        [\A t \in LibraryTabs : page[t] # NoPage /\ page'[t] = NoPage =>
           /\ template' # template => page[t].on = "template" /\ page[t].seen = template[page[t].id]
           /\ entry' # entry => page[t].on = "entry" /\ page[t].seen = entry[page[t].id]
           /\ profile' # profile => page[t].on = "profile" /\ page[t].seen = profile]_libraryVars
  BY LibraryNextSound DEF OnlySeenRowsChange
<1> QED
  BY <1>1, LibraryInitially, LibraryInvStep, PTL DEF LibrarySpec, LibraryChangesAreSeen

-----------------------------------------------------------------------------
(* Billing: what the ledger says is what the rows add up to.               *)

ArrangementRow == [status : {"none", "active", "cancelled"}, engagement : Billed,
                   rate : Rates, version : 0..room.versions]
InvoiceRow == [status : {"none"} \cup InvoiceStatuses, engagement : Billed,
               reference : References, version : 0..room.versions]
PaymentRow == [status : {"none", "paid", "voided"}, invoice : InvoiceIds,
               amount : Amounts \cup {0}]
CostRow == [status : {"none", "kept", "deleted"}, engagement : Billed,
            amount : Amounts \cup {0}]
BillTabRow == [stage : {"closed", "form", "checked"},
               op : {"none", "cancel", "status", "void", "drop", "invoice"},
               id : ArrangementIds \cup InvoiceIds \cup PaymentIds \cup CostIds
                      \cup References \cup {0},
               version : Nat]
ReportRow == [stage : {"none", "costs", "rate", "shown"}, engagement : Billed,
              collected : Nat, costs : Nat, rate : Rates, moved : BOOLEAN]

\* The row a form is about was there when the form was shown, and rows stay.
PointsAt(tab, as, is, ps, cs) ==
  tab.stage # "closed" =>
    /\ tab.op = "cancel" => tab.id \in as
    /\ tab.op = "status" => tab.id \in is
    /\ tab.op = "void" => tab.id \in ps
    /\ tab.op = "drop" => tab.id \in cs
    /\ tab.op = "invoice" => tab.id \in References

TabsPoint ==
  /\ billTab \in [BillTabs -> BillTabRow]
  /\ \A t \in BillTabs : PointsAt(billTab[t], There(arrangement), There(invoice),
                                  There(payment), There(cost))

\* What was read of the ledger is still what it says, unless there was a commit.
ReportFollows ==
  ~report.moved =>
    /\ report.stage \in {"costs", "rate", "shown"} => report.collected = banked[report.engagement]
    /\ report.stage \in {"rate", "shown"} => report.costs = spent[report.engagement]
    /\ report.stage = "shown" => report.rate = RateOf(report.engagement)

TablesOK ==
  /\ room \in Rooms
  /\ arrangement \in [ArrangementIds -> ArrangementRow]
  /\ invoice \in [InvoiceIds -> InvoiceRow]
  /\ payment \in [PaymentIds -> PaymentRow]
  /\ cost \in [CostIds -> CostRow]
  /\ banked \in [Billed -> Nat] /\ spent \in [Billed -> Nat]
  /\ \A p \in There(payment) : payment[p].invoice \in There(invoice)

\* The inductive invariant.
BillingInv ==
  /\ TablesOK /\ TabsPoint /\ ReferencesUnique /\ RowsExplainLedger
  /\ report \in ReportRow /\ ReportFollows

LEMMA BillRoomIs ==
  ASSUME room \in Rooms
  PROVE  /\ room.versions \in Nat /\ 1 \in 0..room.versions
         /\ \A v \in 0..room.versions : v < room.versions => v + 1 \in 0..room.versions
<1>1. room.versions \in Nat \ {0}
  BY BillingAssumption
<1> QED
  BY <1>1

\* The four tables keep their rows.
RowsStay ==
  /\ There(arrangement) \subseteq There(arrangement)'
  /\ There(invoice) \subseteq There(invoice)'
  /\ There(payment) \subseteq There(payment)'
  /\ There(cost) \subseteq There(cost)'

-----------------------------------------------------------------------------
(* Sums.                                                                   *)

PaidFor(pays, invs, e) ==
  {p \in PaymentIds : pays[p].status = "paid" /\ invs[pays[p].invoice].engagement = e}

KeptFor(costs, e) ==
  {c \in CostIds : costs[c].status = "kept" /\ costs[c].engagement = e}

LEMMA RevenueIs ==
  ASSUME NEW e
  PROVE  Revenue(e) = SumOf(AmountsOf(payment), PaidFor(payment, invoice, e))
BY DEF Revenue, PaidFor

LEMMA CostsAre ==
  ASSUME NEW e
  PROVE  CostsOf(e) = SumOf(AmountsOf(cost), KeptFor(cost, e))
BY DEF CostsOf, KeptFor

\* A row joins a sum, or leaves it, and the others keep their values.
LEMMA RowEnters ==
  ASSUME NEW S, IsFiniteSet(S), NEW y, y \notin S, NEW f, IntValues(f, S),
         NEW g, SameValues(f, g, S), g[y] \in Int
  PROVE  SumOf(g, S \cup {y}) = SumOf(f, S) + g[y]
<1>1. IntValues(g, S)
  BY DEF IntValues, SameValues
<1>2. SumOf(f, S) = SumOf(g, S)
  BY SumOfSame
<1> QED
  BY <1>1, <1>2, SumGrows

LEMMA RowLeaves ==
  ASSUME NEW S, IsFiniteSet(S), NEW y \in S, NEW f, IntValues(f, S),
         NEW g, SameValues(f, g, S)
  PROVE  SumOf(g, S \ {y}) = SumOf(f, S) - f[y]
<1>1. IntValues(g, S) /\ f[y] = g[y]
  BY DEF IntValues, SameValues
<1>2. SumOf(f, S) = SumOf(g, S)
  BY SumOfSame
<1>3. SumOf(g, S \ {y}) = SumOf(g, S) - g[y]
  BY <1>1, SumShrinks
<1> QED
  BY <1>1, <1>2, <1>3

LEMMA AmountsAreNat == \A n \in Amounts \cup {0} : n \in Nat
BY BillingAssumption

LEMMA AmountsAreInt ==
  ASSUME NEW S, NEW T, S \subseteq T, NEW table, DOMAIN table = T,
         \A x \in T : table[x].amount \in Amounts \cup {0}
  PROVE  IntValues(AmountsOf(table), S)
<1>1. \A n \in Amounts \cup {0} : n \in Int
  BY AmountsAreNat
<1>2. \A x \in T : AmountsOf(table)[x] = table[x].amount
  BY DEF AmountsOf
<1>3. \A x \in T : table[x].amount \in Int
  BY <1>1
<1>4. \A x \in S : AmountsOf(table)[x] \in Int
  BY <1>2, <1>3
<1> QED
  BY <1>4 DEF IntValues

\* The rows summed for an engagement.
LEMMA RowsAreFinite ==
  ASSUME TablesOK, NEW e
  PROVE  /\ IsFiniteSet(PaidFor(payment, invoice, e))
         /\ IsFiniteSet(KeptFor(cost, e))
         /\ IntValues(AmountsOf(payment), PaidFor(payment, invoice, e))
         /\ IntValues(AmountsOf(cost), KeptFor(cost, e))
<1>1. PaidFor(payment, invoice, e) \subseteq PaymentIds /\ KeptFor(cost, e) \subseteq CostIds
  BY DEF PaidFor, KeptFor
<1>2. IsFiniteSet(PaymentIds) /\ IsFiniteSet(CostIds)
  BY BillingAssumption
<1>3. /\ DOMAIN payment = PaymentIds /\ \A p \in PaymentIds : payment[p].amount \in Amounts \cup {0}
      /\ DOMAIN cost = CostIds /\ \A c \in CostIds : cost[c].amount \in Amounts \cup {0}
  BY DEF TablesOK, PaymentRow, CostRow
<1>4. IsFiniteSet(PaidFor(payment, invoice, e)) /\ IsFiniteSet(KeptFor(cost, e))
  BY <1>1, <1>2, FS_Subset
<1>5. IntValues(AmountsOf(payment), PaidFor(payment, invoice, e))
  BY <1>1, <1>3, AmountsAreInt
<1>6. IntValues(AmountsOf(cost), KeptFor(cost, e))
  BY <1>1, <1>3, AmountsAreInt
<1> QED
  BY <1>4, <1>5, <1>6

\* A sum over the rows covers each of them.
LEMMA PartOfSum ==
  ASSUME NEW S, IsFiniteSet(S), NEW f, \A x \in S : f[x] \in Nat, NEW y \in S
  PROVE  SumOf(f, S) - f[y] \in Nat
<1>1. IntValues(f, S)
  BY DEF IntValues
<1>2. SumOf(f, S \ {y}) = SumOf(f, S) - f[y]
  BY <1>1, SumShrinks
<1>3. IsFiniteSet(S \ {y})
  BY FS_RemoveElement
<1>4. SumOf(f, S \ {y}) \in Nat
  BY <1>3, SumIsNat
<1> QED
  BY <1>2, <1>4

\* Tables in which the rows of payments and costs are the same explain the same.
LEMMA LedgerUntouched ==
  ASSUME BillingInv, payment' = payment, cost' = cost, banked' = banked, spent' = spent,
         \A i \in There(invoice) : invoice'[i].engagement = invoice[i].engagement
  PROVE  RowsExplainLedger'
<1> SUFFICES ASSUME NEW e \in Billed
             PROVE  Revenue(e)' = banked'[e] /\ CostsOf(e)' = spent'[e]
  BY DEF RowsExplainLedger
<1>1. \A p \in PaymentIds : payment[p].status = "paid" =>
        invoice'[payment[p].invoice].engagement = invoice[payment[p].invoice].engagement
  BY DEF BillingInv, TablesOK, There
<1>2. PaidFor(payment, invoice', e) = PaidFor(payment, invoice, e)
  BY <1>1 DEF PaidFor
<1>3. Revenue(e)' = SumOf(AmountsOf(payment'), PaidFor(payment', invoice', e))
  BY DEF Revenue, PaidFor
<1>4. Revenue(e)' = Revenue(e)
  BY <1>2, <1>3, RevenueIs
<1>5. CostsOf(e)' = CostsOf(e)
  BY DEF CostsOf
<1> QED
  BY <1>4, <1>5 DEF BillingInv, RowsExplainLedger

\* A payment is one more row of the revenue of its engagement.
LEMMA RecordPaymentAddsUp ==
  ASSUME BillingInv, NEW p \in PaymentIds, NEW i \in InvoiceIds, RecordPayment(p, i)
  PROVE  RowsExplainLedger' /\ banked' \in [Billed -> Nat]
<1>1. PICK n \in Amounts :
        /\ payment' = [payment EXCEPT ![p] = [status |-> "paid", invoice |-> i, amount |-> n]]
        /\ banked' = [banked EXCEPT ![invoice[i].engagement] = @ + n]
  BY DEF RecordPayment
<1>2. /\ p \notin There(payment) /\ i \in There(invoice)
      /\ arrangement' = arrangement /\ invoice' = invoice /\ cost' = cost /\ spent' = spent
  BY DEF RecordPayment, NextRow
<1>3. n \in Nat /\ invoice[i].engagement \in Billed
  BY BillingAssumption DEF BillingInv, TablesOK, InvoiceRow
<1>4. /\ payment'[p].status = "paid" /\ payment'[p].invoice = i /\ payment'[p].amount = n
      /\ \A q \in PaymentIds \ {p} : payment'[q] = payment[q]
      /\ DOMAIN payment = PaymentIds /\ DOMAIN payment' = PaymentIds
      /\ payment[p].status = "none"
  BY <1>1, <1>2 DEF BillingInv, TablesOK, There
<1>5. banked' \in [Billed -> Nat]
  BY <1>1, <1>3 DEF BillingInv, TablesOK
<1>6. ASSUME NEW e \in Billed
      PROVE  Revenue(e)' = banked'[e]
  <2> DEFINE S == PaidFor(payment, invoice, e)
  <2>1. IsFiniteSet(S) /\ IntValues(AmountsOf(payment), S) /\ p \notin S
    BY <1>4, RowsAreFinite DEF BillingInv, PaidFor
  <2>2. SumOf(AmountsOf(payment), S) = banked[e] /\ banked[e] \in Nat
    BY RevenueIs DEF BillingInv, RowsExplainLedger, TablesOK
  <2>3. SameValues(AmountsOf(payment), AmountsOf(payment'), S) /\ AmountsOf(payment')[p] = n
    BY <1>4, <2>1 DEF SameValues, AmountsOf, PaidFor
  <2>4. Revenue(e)' = SumOf(AmountsOf(payment'), PaidFor(payment', invoice', e))
    BY DEF Revenue, PaidFor
  <2>5. CASE e = invoice[i].engagement
    <3>1. PaidFor(payment', invoice', e) = S \cup {p}
      BY <1>2, <1>4, <2>5 DEF PaidFor
    <3>2. SumOf(AmountsOf(payment'), S \cup {p}) = SumOf(AmountsOf(payment), S) + n
      <4> HIDE DEF S
      <4>1. n \in Int
        BY <1>3
      <4> QED
        BY <2>1, <2>3, <4>1, RowEnters
    <3>3. banked'[e] = banked[e] + n
      BY <1>1, <2>5 DEF BillingInv, TablesOK
    <3> QED
      BY <2>2, <2>4, <3>1, <3>2, <3>3
  <2>6. CASE e # invoice[i].engagement
    <3>1. PaidFor(payment', invoice', e) = S
      BY <1>2, <1>4, <2>6 DEF PaidFor
    <3>2. SumOf(AmountsOf(payment'), S) = SumOf(AmountsOf(payment), S)
      <4> HIDE DEF S
      <4> QED
        BY <2>1, <2>3, SumOfSame
    <3>3. banked'[e] = banked[e]
      BY <1>1, <2>6 DEF BillingInv, TablesOK
    <3> QED
      BY <2>2, <2>4, <3>1, <3>2, <3>3
  <2> QED
    BY <2>5, <2>6
<1>7. ASSUME NEW e \in Billed
      PROVE  CostsOf(e)' = spent'[e]
  BY <1>2 DEF CostsOf, BillingInv, RowsExplainLedger
<1> QED
  BY <1>5, <1>6, <1>7 DEF RowsExplainLedger

\* A voided payment leaves the revenue of the engagement it was in.
LEMMA VoidPaymentAddsUp ==
  ASSUME BillingInv, NEW t \in BillTabs, VoidPayment(t)
  PROVE  RowsExplainLedger' /\ banked' \in [Billed -> Nat]
<1> DEFINE p == billTab[t].id
           at == invoice[payment[p].invoice].engagement
<1>1. /\ payment[p].status = "paid"
      /\ payment' = [payment EXCEPT ![p].status = "voided"]
      /\ banked' = [banked EXCEPT ![at] = @ - payment[p].amount]
      /\ invoice' = invoice /\ cost' = cost /\ spent' = spent
      /\ billTab[t].stage = "checked" /\ billTab[t].op = "void"
  BY DEF VoidPayment, BillWritten
<1>2. p \in There(payment) /\ p \in PaymentIds
  BY <1>1 DEF BillingInv, TabsPoint, PointsAt, There, TablesOK
<1>3. /\ payment[p].invoice \in InvoiceIds /\ at \in Billed
      /\ \A q \in PaymentIds : payment[q].amount \in Nat
  <2>1. /\ payment[p].invoice \in InvoiceIds
        /\ \A q \in PaymentIds : payment[q].amount \in Amounts \cup {0}
    BY <1>2 DEF BillingInv, TablesOK, PaymentRow
  <2>2. at \in Billed
    BY <2>1 DEF BillingInv, TablesOK, InvoiceRow
  <2>3. \A q \in PaymentIds : payment[q].amount \in Nat
    BY <2>1, AmountsAreNat
  <2> QED
    BY <2>1, <2>2, <2>3
<1>4. /\ payment'[p].status = "voided" /\ payment'[p].invoice = payment[p].invoice
      /\ payment'[p].amount = payment[p].amount
      /\ \A q \in PaymentIds \ {p} : payment'[q] = payment[q]
      /\ DOMAIN payment = PaymentIds /\ DOMAIN payment' = PaymentIds
  BY <1>1, <1>2 DEF BillingInv, TablesOK, PaymentRow
<1> HIDE DEF p
<1>5. ASSUME NEW e \in Billed
      PROVE  /\ Revenue(e)' = banked'[e]
             /\ banked'[e] \in Nat
  <2> DEFINE S == PaidFor(payment, invoice, e)
  <2>1. IsFiniteSet(S) /\ IntValues(AmountsOf(payment), S)
    BY RowsAreFinite DEF BillingInv
  <2>2. SumOf(AmountsOf(payment), S) = banked[e] /\ banked[e] \in Nat
    BY RevenueIs DEF BillingInv, RowsExplainLedger, TablesOK
  <2>3. /\ SameValues(AmountsOf(payment), AmountsOf(payment'), S)
        /\ AmountsOf(payment)[p] = payment[p].amount
        /\ \A x \in S : AmountsOf(payment)[x] \in Nat
    BY <1>2, <1>3, <1>4 DEF SameValues, AmountsOf, PaidFor
  <2>4. Revenue(e)' = SumOf(AmountsOf(payment'), PaidFor(payment', invoice', e))
    BY DEF Revenue, PaidFor
  <2>5. CASE e = at
    <3>1. p \in S /\ PaidFor(payment', invoice', e) = S \ {p}
      BY <1>1, <1>2, <1>4, <2>5 DEF PaidFor
    <3>2. /\ SumOf(AmountsOf(payment'), S \ {p}) = SumOf(AmountsOf(payment), S) - payment[p].amount
          /\ SumOf(AmountsOf(payment), S) - payment[p].amount \in Nat
      <4> HIDE DEF S
      <4>1. SumOf(AmountsOf(payment'), S \ {p})
              = SumOf(AmountsOf(payment), S) - AmountsOf(payment)[p]
        BY <2>1, <2>3, <3>1, RowLeaves
      <4>2. SumOf(AmountsOf(payment), S) - AmountsOf(payment)[p] \in Nat
        BY <2>1, <2>3, <3>1, PartOfSum
      <4> QED
        BY <2>3, <4>1, <4>2
    <3>3. banked'[e] = banked[e] - payment[p].amount
      BY <1>1, <2>5 DEF BillingInv, TablesOK
    <3> QED
      BY <2>2, <2>4, <3>1, <3>2, <3>3
  <2>6. CASE e # at
    <3>1. PaidFor(payment', invoice', e) = S
      BY <1>1, <1>2, <1>4, <2>6 DEF PaidFor
    <3>2. SumOf(AmountsOf(payment'), S) = SumOf(AmountsOf(payment), S)
      <4> HIDE DEF S
      <4> QED
        BY <2>1, <2>3, SumOfSame
    <3>3. banked'[e] = banked[e]
      BY <1>1, <2>6 DEF BillingInv, TablesOK
    <3> QED
      BY <2>2, <2>4, <3>1, <3>2, <3>3
  <2> QED
    BY <2>5, <2>6
<1>6. ASSUME NEW e \in Billed
      PROVE  CostsOf(e)' = spent'[e]
  BY <1>1 DEF CostsOf, BillingInv, RowsExplainLedger
<1>7. banked' \in [Billed -> Nat]
  <2>1. DOMAIN banked' = Billed /\ banked' = [e \in Billed |-> banked'[e]]
    BY <1>1 DEF BillingInv, TablesOK
  <2> QED
    BY <1>5, <2>1
<1> QED
  BY <1>5, <1>6, <1>7 DEF RowsExplainLedger

LEMMA CreateCostAddsUp ==
  ASSUME BillingInv, NEW c \in CostIds, CreateCost(c)
  PROVE  RowsExplainLedger' /\ spent' \in [Billed -> Nat]
<1>1. PICK at \in Billed, n \in Amounts :
        /\ cost' = [cost EXCEPT ![c] = [status |-> "kept", engagement |-> at, amount |-> n]]
        /\ spent' = [spent EXCEPT ![at] = @ + n]
  BY DEF CreateCost
<1>2. /\ c \notin There(cost)
      /\ invoice' = invoice /\ payment' = payment /\ banked' = banked
  BY DEF CreateCost, NextRow
<1>3. n \in Nat
  BY BillingAssumption
<1>4. /\ cost'[c].status = "kept" /\ cost'[c].engagement = at /\ cost'[c].amount = n
      /\ \A q \in CostIds \ {c} : cost'[q] = cost[q]
      /\ DOMAIN cost = CostIds /\ DOMAIN cost' = CostIds
      /\ cost[c].status = "none"
  BY <1>1, <1>2 DEF BillingInv, TablesOK, There
<1>5. spent' \in [Billed -> Nat]
  BY <1>1, <1>3 DEF BillingInv, TablesOK
<1>6. ASSUME NEW e \in Billed
      PROVE  CostsOf(e)' = spent'[e]
  <2> DEFINE S == KeptFor(cost, e)
  <2>1. IsFiniteSet(S) /\ IntValues(AmountsOf(cost), S) /\ c \notin S
    BY <1>4, RowsAreFinite DEF BillingInv, KeptFor
  <2>2. SumOf(AmountsOf(cost), S) = spent[e] /\ spent[e] \in Nat
    BY CostsAre DEF BillingInv, RowsExplainLedger, TablesOK
  <2>3. SameValues(AmountsOf(cost), AmountsOf(cost'), S) /\ AmountsOf(cost')[c] = n
    BY <1>4, <2>1 DEF SameValues, AmountsOf, KeptFor
  <2>4. CostsOf(e)' = SumOf(AmountsOf(cost'), KeptFor(cost', e))
    BY DEF CostsOf, KeptFor
  <2>5. CASE e = at
    <3>1. KeptFor(cost', e) = S \cup {c}
      BY <1>4, <2>5 DEF KeptFor
    <3>2. SumOf(AmountsOf(cost'), S \cup {c}) = SumOf(AmountsOf(cost), S) + n
      <4> HIDE DEF S
      <4>1. AmountsOf(cost')[c] \in Int
        BY <1>3, <2>3
      <4>2. SumOf(AmountsOf(cost'), S \cup {c})
              = SumOf(AmountsOf(cost), S) + AmountsOf(cost')[c]
        BY <2>1, <2>3, <4>1, RowEnters
      <4> QED
        BY <2>3, <4>2
    <3>3. spent'[e] = spent[e] + n
      BY <1>1, <2>5 DEF BillingInv, TablesOK
    <3> QED
      BY <2>2, <2>4, <3>1, <3>2, <3>3
  <2>6. CASE e # at
    <3>1. KeptFor(cost', e) = S
      BY <1>4, <2>6 DEF KeptFor
    <3>2. SumOf(AmountsOf(cost'), S) = SumOf(AmountsOf(cost), S)
      <4> HIDE DEF S
      <4> QED
        BY <2>1, <2>3, SumOfSame
    <3>3. spent'[e] = spent[e]
      BY <1>1, <2>6 DEF BillingInv, TablesOK
    <3> QED
      BY <2>2, <2>4, <3>1, <3>2, <3>3
  <2> QED
    BY <2>5, <2>6
<1>7. ASSUME NEW e \in Billed
      PROVE  Revenue(e)' = banked'[e]
  BY <1>2 DEF Revenue, BillingInv, RowsExplainLedger
<1> QED
  BY <1>5, <1>6, <1>7 DEF RowsExplainLedger

LEMMA DeleteCostAddsUp ==
  ASSUME BillingInv, NEW t \in BillTabs, DeleteCost(t)
  PROVE  RowsExplainLedger' /\ spent' \in [Billed -> Nat]
<1> DEFINE c == billTab[t].id
           at == cost[c].engagement
<1>1. /\ cost[c].status = "kept"
      /\ cost' = [cost EXCEPT ![c].status = "deleted"]
      /\ spent' = [spent EXCEPT ![at] = @ - cost[c].amount]
      /\ invoice' = invoice /\ payment' = payment /\ banked' = banked
      /\ billTab[t].stage = "checked" /\ billTab[t].op = "drop"
  BY DEF DeleteCost, BillWritten
<1>2. c \in CostIds
  BY <1>1 DEF BillingInv, TabsPoint, PointsAt, There, TablesOK
<1>3. at \in Billed /\ \A q \in CostIds : cost[q].amount \in Nat
  <2>1. at \in Billed /\ \A q \in CostIds : cost[q].amount \in Amounts \cup {0}
    BY <1>2 DEF BillingInv, TablesOK, CostRow
  <2>2. \A q \in CostIds : cost[q].amount \in Nat
    BY <2>1, AmountsAreNat
  <2> QED
    BY <2>1, <2>2
<1>4. /\ cost'[c].status = "deleted" /\ cost'[c].engagement = at
      /\ cost'[c].amount = cost[c].amount
      /\ \A q \in CostIds \ {c} : cost'[q] = cost[q]
      /\ DOMAIN cost = CostIds /\ DOMAIN cost' = CostIds
  BY <1>1, <1>2 DEF BillingInv, TablesOK, CostRow
<1> HIDE DEF c
<1>5. ASSUME NEW e \in Billed
      PROVE  CostsOf(e)' = spent'[e] /\ spent'[e] \in Nat
  <2> DEFINE S == KeptFor(cost, e)
  <2>1. IsFiniteSet(S) /\ IntValues(AmountsOf(cost), S)
    BY RowsAreFinite DEF BillingInv
  <2>2. SumOf(AmountsOf(cost), S) = spent[e] /\ spent[e] \in Nat
    BY CostsAre DEF BillingInv, RowsExplainLedger, TablesOK
  <2>3. /\ SameValues(AmountsOf(cost), AmountsOf(cost'), S)
        /\ AmountsOf(cost)[c] = cost[c].amount
        /\ \A x \in S : AmountsOf(cost)[x] \in Nat
    BY <1>2, <1>3, <1>4 DEF SameValues, AmountsOf, KeptFor
  <2>4. CostsOf(e)' = SumOf(AmountsOf(cost'), KeptFor(cost', e))
    BY DEF CostsOf, KeptFor
  <2>5. CASE e = at
    <3>1. c \in S /\ KeptFor(cost', e) = S \ {c}
      BY <1>1, <1>2, <1>4, <2>5 DEF KeptFor
    <3>2. /\ SumOf(AmountsOf(cost'), S \ {c}) = SumOf(AmountsOf(cost), S) - cost[c].amount
          /\ SumOf(AmountsOf(cost), S) - cost[c].amount \in Nat
      <4> HIDE DEF S
      <4>1. SumOf(AmountsOf(cost'), S \ {c}) = SumOf(AmountsOf(cost), S) - AmountsOf(cost)[c]
        BY <2>1, <2>3, <3>1, RowLeaves
      <4>2. SumOf(AmountsOf(cost), S) - AmountsOf(cost)[c] \in Nat
        BY <2>1, <2>3, <3>1, PartOfSum
      <4> QED
        BY <2>3, <4>1, <4>2
    <3>3. spent'[e] = spent[e] - cost[c].amount
      BY <1>1, <2>5 DEF BillingInv, TablesOK
    <3> QED
      BY <2>2, <2>4, <3>1, <3>2, <3>3
  <2>6. CASE e # at
    <3>1. KeptFor(cost', e) = S
      BY <1>1, <1>2, <1>4, <2>6 DEF KeptFor
    <3>2. SumOf(AmountsOf(cost'), S) = SumOf(AmountsOf(cost), S)
      <4> HIDE DEF S
      <4> QED
        BY <2>1, <2>3, SumOfSame
    <3>3. spent'[e] = spent[e]
      BY <1>1, <2>6 DEF BillingInv, TablesOK
    <3> QED
      BY <2>2, <2>4, <3>1, <3>2, <3>3
  <2> QED
    BY <2>5, <2>6
<1>6. ASSUME NEW e \in Billed
      PROVE  Revenue(e)' = banked'[e]
  BY <1>1 DEF Revenue, BillingInv, RowsExplainLedger
<1>7. spent' \in [Billed -> Nat]
  <2>1. DOMAIN spent' = Billed /\ spent' = [e \in Billed |-> spent'[e]]
    BY <1>1 DEF BillingInv, TablesOK
  <2> QED
    BY <1>5, <2>1
<1> QED
  BY <1>5, <1>6, <1>7 DEF RowsExplainLedger

-----------------------------------------------------------------------------
(* The forms.                                                              *)

LEMMA NoBillTabIs == NoBillTab \in BillTabRow /\ NoBillTab.stage = "closed"
BY DEF NoBillTab, BillTabRow

LEMMA TabsKeep ==
  ASSUME TabsPoint, RowsStay, billTab' = billTab
  PROVE  TabsPoint'
BY DEF TabsPoint, RowsStay, PointsAt

LEMMA TabCloses ==
  ASSUME TabsPoint, RowsStay, NEW t \in BillTabs,
         billTab' = [billTab EXCEPT ![t] = NoBillTab]
  PROVE  TabsPoint'
<1>1. billTab' \in [BillTabs -> BillTabRow]
  BY NoBillTabIs DEF TabsPoint
<1>2. \A u \in BillTabs : billTab'[u] = NoBillTab \/ billTab'[u] = billTab[u]
  BY DEF TabsPoint
<1> QED
  BY <1>1, <1>2, NoBillTabIs DEF TabsPoint, RowsStay, PointsAt

LEMMA TabChecks ==
  ASSUME TabsPoint, RowsStay, NEW t \in BillTabs, billTab[t].stage = "form",
         billTab' = [billTab EXCEPT ![t].stage = "checked"]
  PROVE  TabsPoint'
<1>1. billTab' \in [BillTabs -> BillTabRow]
  BY DEF TabsPoint, BillTabRow
<1>2. /\ billTab'[t].op = billTab[t].op /\ billTab'[t].id = billTab[t].id
      /\ \A u \in BillTabs \ {t} : billTab'[u] = billTab[u]
  BY DEF TabsPoint, BillTabRow
<1>3. ASSUME NEW u \in BillTabs
      PROVE  PointsAt(billTab'[u], There(arrangement)', There(invoice)',
                      There(payment)', There(cost)')
  <2>1. CASE u = t
    BY <1>2, <2>1 DEF TabsPoint, RowsStay, PointsAt
  <2>2. CASE u # t
    BY <1>2, <2>2 DEF TabsPoint, RowsStay, PointsAt
  <2> QED
    BY <2>1, <2>2
<1> QED
  BY <1>1, <1>3 DEF TabsPoint

LEMMA TabShows ==
  ASSUME TabsPoint, RowsStay, NEW t \in BillTabs,
         NEW op \in {"cancel", "status", "void", "drop", "invoice"}, NEW id, NEW v \in Nat,
         \/ op = "cancel" /\ id \in There(arrangement) /\ id \in ArrangementIds
         \/ op = "status" /\ id \in There(invoice) /\ id \in InvoiceIds
         \/ op = "void" /\ id \in There(payment) /\ id \in PaymentIds
         \/ op = "drop" /\ id \in There(cost) /\ id \in CostIds
         \/ op = "invoice" /\ id \in References,
         ShowBill(t, op, id, v)
  PROVE  TabsPoint'
<1> DEFINE row == [stage |-> "form", op |-> op, id |-> id, version |-> v]
<1>1. row \in BillTabRow
  BY DEF BillTabRow
<1>2. row.op = op /\ row.id = id
  OBVIOUS
<1>3. billTab' = [billTab EXCEPT ![t] = row]
  BY DEF ShowBill
<1>4. PointsAt(row, There(arrangement), There(invoice), There(payment), There(cost))
  BY DEF PointsAt
<1> HIDE DEF row
<1>5. billTab' \in [BillTabs -> BillTabRow]
  BY <1>1, <1>3 DEF TabsPoint
<1>6. \A u \in BillTabs : billTab'[u] = row \/ billTab'[u] = billTab[u]
  BY <1>3 DEF TabsPoint
<1> QED
  BY <1>4, <1>5, <1>6 DEF TabsPoint, RowsStay, PointsAt

-----------------------------------------------------------------------------
(* The report.                                                             *)

LEMMA MaxIs ==
  ASSUME NEW S, IsFiniteSet(S), S # {}, \A x \in S : x \in Nat
  PROVE  Max(S) \in S /\ \A y \in S : Max(S) >= y
BY GreatestExists DEF Max

ActiveFor(table, e) ==
  {a \in ArrangementIds : table[a].status = "active" /\ table[a].engagement = e}

\* The rate is that of an active arrangement, and none after it is active.
LEMMA RateIs ==
  ASSUME TablesOK, NEW e
  PROVE  /\ RateOf(e) \in Rates
         /\ RateOf(e) # NoRate =>
              \E a \in ArrangementIds :
                /\ arrangement[a].status = "active" /\ arrangement[a].rate = RateOf(e)
                /\ \A b \in ArrangementIds : b > a /\ arrangement[b].engagement = e
                                               => arrangement[b].status # "active"
<1> DEFINE S == ActiveFor(arrangement, e)
<1>1. RateOf(e) = IF S = {} THEN NoRate ELSE arrangement[Max(S)].rate
  BY DEF RateOf, ActiveFor
<1>2. CASE S = {}
  BY <1>1, <1>2, BillingAssumption
<1>3. CASE S # {}
  <2>1. S \subseteq ArrangementIds
    BY DEF ActiveFor
  <2>2. IsFiniteSet(S) /\ \A x \in S : x \in Nat
    BY <2>1, BillingAssumption, FS_Subset
  <2>3. Max(S) \in S /\ \A y \in S : Max(S) >= y
    <3> HIDE DEF S
    <3> QED
      BY <1>3, <2>2, MaxIs
  <2>4. Max(S) \in Nat
    BY <2>2, <2>3
  <2>5. ASSUME NEW b \in ArrangementIds, b > Max(S), arrangement[b].engagement = e
        PROVE  arrangement[b].status # "active"
    <3>1. b \in Nat
      BY BillingAssumption
    <3>2. b \notin S
      BY <2>3, <2>4, <2>5, <3>1
    <3> QED
      BY <2>5, <3>2 DEF ActiveFor
  <2>6. Max(S) \in ArrangementIds /\ arrangement[Max(S)].status = "active"
    BY <2>3 DEF ActiveFor
  <2>7. RateOf(e) = arrangement[Max(S)].rate /\ arrangement[Max(S)].rate \in Rates
    BY <1>1, <1>3, <2>6 DEF TablesOK, ArrangementRow
  <2> HIDE DEF S
  <2> QED
    BY <2>5, <2>6, <2>7
<1> QED
  BY <1>2, <1>3

\* A commission is part of what it is of.
LEMMA CommissionIsPart ==
  ASSUME NEW n \in Nat, NEW m \in Nat, m <= n * 10000
  PROVE  m \div 10000 <= n
OBVIOUS

LEMMA ReportIs ==
  ASSUME BillingInv
  PROVE  ReportIsLedger
<1> SUFFICES ASSUME report.stage = "shown", ~report.moved
             PROVE  LET e == report.engagement
                    IN  /\ report.collected = banked[e] /\ report.costs = spent[e]
                        /\ report.rate # NoRate =>
                             /\ Commission(report.collected, report.rate) <= banked[e]
                             /\ \E a \in ArrangementIds :
                                  /\ arrangement[a].status = "active"
                                  /\ arrangement[a].rate = report.rate
                                  /\ \A b \in ArrangementIds :
                                       b > a /\ arrangement[b].engagement = e
                                         => arrangement[b].status # "active"
  BY DEF ReportIsLedger
<1> DEFINE e == report.engagement
<1>1. /\ report.collected = banked[e] /\ report.costs = spent[e] /\ report.rate = RateOf(e)
      /\ report.collected \in Nat
  BY DEF BillingInv, ReportFollows, ReportRow
<1> HIDE DEF e
<1>2. ASSUME report.rate # NoRate
      PROVE  Commission(report.collected, report.rate) <= banked[e]
  <2>1. report.rate \in 0..10000
    BY <1>2, BillingAssumption, SMTT(30) DEF BillingInv, ReportRow
  <2> DEFINE n == report.collected
             r == report.rate
           m == n * r
  <2>2. m \div 10000 <= n
    <3>1. n \in Nat /\ r \in 0..10000
      BY <1>1, <2>1
    <3>2. m <= n * 10000 /\ m \in Nat
      <4> HIDE DEF n, r
      <4> QED
        BY <3>1
    <3> HIDE DEF n, m
    <3> QED
      BY <3>1, <3>2, CommissionIsPart
  <2>3. Commission(report.collected, report.rate) <= report.collected
    BY <2>2 DEF Commission
  <2> QED
    BY <1>1, <2>3, SMTT(30)
<1>3. report.rate # NoRate =>
        \E a \in ArrangementIds :
          /\ arrangement[a].status = "active" /\ arrangement[a].rate = report.rate
          /\ \A b \in ArrangementIds : b > a /\ arrangement[b].engagement = e
                                         => arrangement[b].status # "active"
  BY <1>1, RateIs DEF BillingInv
<1> QED
  BY <1>1, <1>2, <1>3 DEF e

\* A commit beside an open report leaves nothing to follow.
LEMMA ReportMoves ==
  ASSUME report \in ReportRow, LedgerMoved
  PROVE  report' \in ReportRow /\ ReportFollows'
<1>1. /\ report' \in ReportRow /\ report'.stage = report.stage
      /\ report'.moved = (report.stage # "none")
  BY DEF LedgerMoved, ReportRow
<1> QED
  BY <1>1 DEF ReportFollows

LEMMA ReportKeeps ==
  ASSUME report \in ReportRow, ReportFollows, report' = report, arrangement' = arrangement,
         banked' = banked, spent' = spent
  PROVE  report' \in ReportRow /\ ReportFollows'
<1>1. ASSUME NEW e
      PROVE  RateOf(e)' = RateOf(e)
  BY DEF RateOf
<1>2. RateOf(report.engagement)' = RateOf(report.engagement)
  BY <1>1 DEF RateOf
<1> QED
  BY <1>2 DEF ReportFollows

-----------------------------------------------------------------------------
(* Every step keeps the invariant.                                         *)

LEMMA BillingInitially == BillingInit => BillingInv
<1> SUFFICES ASSUME BillingInit
             PROVE  BillingInv
  OBVIOUS
<1>0. /\ AnyBilled \in Billed /\ (CHOOSE r \in References : TRUE) \in References
      /\ (CHOOSE i \in InvoiceIds : TRUE) \in InvoiceIds
  BY BillingAssumption DEF AnyBilled
<1>1. room \in Rooms
  BY DEF BillingInit
<1>2. TablesOK
  <2>1. /\ NoArrangement \in ArrangementRow /\ NoInvoice \in InvoiceRow
        /\ NoPayment \in PaymentRow /\ NoCost \in CostRow
    <3>1. 0 \in 0..room.versions /\ NoRate \in Rates
      BY <1>1, BillRoomIs, BillingAssumption
    <3> QED
      BY <1>0, <3>1 DEF NoArrangement, NoInvoice, NoPayment, NoCost,
                        ArrangementRow, InvoiceRow, PaymentRow, CostRow
  <2>2. There(payment) = {}
    BY DEF BillingInit, There, NoPayment
  <2> QED
    BY <1>1, <2>1, <2>2 DEF TablesOK, BillingInit
<1>3. TabsPoint
  BY NoBillTabIs DEF BillingInit, TabsPoint, PointsAt
<1>4. ReferencesUnique
  BY DEF BillingInit, ReferencesUnique, There, NoInvoice
<1>5. RowsExplainLedger
  <2> SUFFICES ASSUME NEW e \in Billed
               PROVE  Revenue(e) = 0 /\ CostsOf(e) = 0
    BY DEF RowsExplainLedger, BillingInit
  <2>1. PaidFor(payment, invoice, e) = {} /\ KeptFor(cost, e) = {}
    BY DEF BillingInit, PaidFor, KeptFor, NoPayment, NoCost
  <2>2. \A f : SumOf(f, {}) = 0
    BY FS_EmptySet, SumFacts DEF IntValues
  <2> QED
    BY <2>1, <2>2, RevenueIs, CostsAre
<1>6. report \in ReportRow /\ ReportFollows
  BY <1>0, BillingAssumption DEF BillingInit, NoReport, ReportRow, ReportFollows
<1> QED
  BY <1>2, <1>3, <1>4, <1>5, <1>6 DEF BillingInv

\* What a step that touches neither table nor ledger leaves as it is.
LEMMA OnlyTabs ==
  ASSUME BillingInv, UNCHANGED <<arrangement, invoice, ledgers, report>>, room' = room, TabsPoint'
  PROVE  BillingInv'
<1>1. /\ arrangement' = arrangement /\ invoice' = invoice /\ payment' = payment /\ cost' = cost
      /\ banked' = banked /\ spent' = spent /\ report' = report
  BY DEF ledgers
<1>2. TablesOK' /\ ReferencesUnique'
  BY <1>1 DEF BillingInv, TablesOK, ArrangementRow, InvoiceRow, There, ReferencesUnique
<1>3. RowsExplainLedger'
  BY <1>1, LedgerUntouched
<1>4. report' \in ReportRow /\ ReportFollows'
  BY <1>1, ReportKeeps DEF BillingInv
<1> QED
  BY <1>2, <1>3, <1>4 DEF BillingInv

LEMMA RowsStayWhenSame ==
  ASSUME UNCHANGED <<arrangement, invoice, ledgers>>
  PROVE  RowsStay
BY DEF RowsStay, There, ledgers

LEMMA ShowBillingKeeps ==
  ASSUME BillingInv, NEW t \in BillTabs, ShowBilling(t), room' = room
  PROVE  BillingInv'
<1>1. /\ There(arrangement) \subseteq ArrangementIds /\ There(invoice) \subseteq InvoiceIds
      /\ There(payment) \subseteq PaymentIds /\ There(cost) \subseteq CostIds
      /\ \A a \in ArrangementIds : arrangement[a].version \in Nat
      /\ \A i \in InvoiceIds : invoice[i].version \in Nat
  BY DEF BillingInv, TablesOK, There, ArrangementRow, InvoiceRow
<1>2. TabsPoint
  BY DEF BillingInv
<1>3. ASSUME NEW op, NEW id, NEW v, ShowBill(t, op, id, v)
      PROVE  UNCHANGED <<arrangement, invoice, ledgers, report>> /\ RowsStay
  BY <1>3, RowsStayWhenSame DEF ShowBill
<1>4. CASE \E a \in There(arrangement) : ShowBill(t, "cancel", a, arrangement[a].version)
  <2>1. PICK a \in There(arrangement) : ShowBill(t, "cancel", a, arrangement[a].version)
    BY <1>4
  <2>2. a \in ArrangementIds /\ arrangement[a].version \in Nat
    BY <1>1
  <2>3. TabsPoint'
    BY <1>2, <1>3, <2>1, <2>2, TabShows
  <2> QED
    BY <1>3, <2>1, <2>3, OnlyTabs
<1>5. CASE \E i \in There(invoice) : ShowBill(t, "status", i, invoice[i].version)
  <2>1. PICK i \in There(invoice) : ShowBill(t, "status", i, invoice[i].version)
    BY <1>5
  <2>2. i \in InvoiceIds /\ invoice[i].version \in Nat
    BY <1>1
  <2>3. TabsPoint'
    BY <1>2, <1>3, <2>1, <2>2, TabShows
  <2> QED
    BY <1>3, <2>1, <2>3, OnlyTabs
<1>6. CASE \E p \in There(payment) : ShowBill(t, "void", p, 0)
  <2>1. PICK p \in There(payment) : ShowBill(t, "void", p, 0)
    BY <1>6
  <2>2. TabsPoint'
    BY <1>1, <1>2, <1>3, <2>1, TabShows
  <2> QED
    BY <1>3, <2>1, <2>2, OnlyTabs
<1>7. CASE \E c \in There(cost) : ShowBill(t, "drop", c, 0)
  <2>1. PICK c \in There(cost) : ShowBill(t, "drop", c, 0)
    BY <1>7
  <2>2. TabsPoint'
    BY <1>1, <1>2, <1>3, <2>1, TabShows
  <2> QED
    BY <1>3, <2>1, <2>2, OnlyTabs
<1>8. CASE \E r \in References : ShowBill(t, "invoice", r, 0)
  <2>1. PICK r \in References : ShowBill(t, "invoice", r, 0)
    BY <1>8
  <2>2. TabsPoint'
    BY <1>2, <1>3, <2>1, TabShows
  <2> QED
    BY <1>3, <2>1, <2>2, OnlyTabs
<1> QED
  BY <1>4, <1>5, <1>6, <1>7, <1>8 DEF ShowBilling

LEMMA CloseBillKeeps ==
  ASSUME BillingInv, NEW t \in BillTabs, CloseBill(t), room' = room
  PROVE  BillingInv'
<1>1. UNCHANGED <<arrangement, invoice, ledgers, report>> /\ RowsStay
  BY RowsStayWhenSame DEF CloseBill
<1>2. TabsPoint'
  BY <1>1, TabCloses DEF CloseBill, BillingInv
<1> QED
  BY <1>1, <1>2, OnlyTabs

\* The checks of the four forms that have one.
LEMMA BillCheckedKeeps ==
  ASSUME BillingInv, NEW t \in BillTabs, NEW op, BillChecked(t, op), room' = room
  PROVE  BillingInv'
<1>1. UNCHANGED <<arrangement, invoice, ledgers, report>> /\ RowsStay
  BY RowsStayWhenSame DEF BillChecked
<1>2. TabsPoint'
  BY <1>1, TabChecks DEF BillChecked, BillingInv
<1> QED
  BY <1>1, <1>2, OnlyTabs

LEMMA CreateArrangementKeeps ==
  ASSUME BillingInv, NEW a \in ArrangementIds, CreateArrangement(a), room' = room
  PROVE  BillingInv' /\ \A b \in There(arrangement) : arrangement'[b] = arrangement[b]
<1>1. PICK e \in Billed, r \in Rates :
        arrangement' = [arrangement EXCEPT ![a] =
          [status |-> "active", engagement |-> e, rate |-> r, version |-> 1]]
  BY DEF CreateArrangement
<1>2. /\ invoice' = invoice /\ payment' = payment /\ cost' = cost /\ banked' = banked
      /\ spent' = spent /\ billTab' = billTab /\ a \notin There(arrangement) /\ LedgerMoved
  BY DEF CreateArrangement, ledgers, NextRow
<1>3. [status |-> "active", engagement |-> e, rate |-> r, version |-> 1] \in ArrangementRow
  BY BillRoomIs DEF ArrangementRow, BillingInv, TablesOK
<1>4. arrangement' \in [ArrangementIds -> ArrangementRow]
  BY <1>1, <1>3 DEF BillingInv, TablesOK
<1>5. \A b \in There(arrangement) : arrangement'[b] = arrangement[b]
  BY <1>1, <1>2 DEF BillingInv, TablesOK, There
<1>6. RowsStay
  BY <1>2, <1>4, <1>5 DEF RowsStay, There, BillingInv, TablesOK
<1>7. TablesOK' /\ ReferencesUnique'
  BY <1>2, <1>4 DEF BillingInv, TablesOK, ArrangementRow, InvoiceRow, There, ReferencesUnique
<1>8. TabsPoint'
  BY <1>2, <1>6, TabsKeep DEF BillingInv
<1>9. RowsExplainLedger' /\ report' \in ReportRow /\ ReportFollows'
  BY <1>2, LedgerUntouched, ReportMoves DEF BillingInv
<1> QED
  BY <1>5, <1>7, <1>8, <1>9 DEF BillingInv

LEMMA CancelArrangementKeeps ==
  ASSUME BillingInv, NEW t \in BillTabs, CancelArrangement(t), room' = room
  PROVE  /\ BillingInv'
         /\ \A b \in ArrangementIds : arrangement'[b] # arrangement[b] =>
              /\ arrangement[b].status = "active"
              /\ billTab[t].op = "cancel" /\ billTab[t].id = b
              /\ billTab[t].version = arrangement[b].version
<1> DEFINE a == billTab[t].id
<1>1. /\ billTab[t].stage = "checked" /\ billTab[t].op = "cancel"
      /\ arrangement[a].status = "active" /\ billTab[t].version = arrangement[a].version
      /\ arrangement[a].version < room.versions
      /\ arrangement' = [arrangement EXCEPT ![a].status = "cancelled", ![a].version = @ + 1]
      /\ invoice' = invoice /\ payment' = payment /\ cost' = cost /\ banked' = banked
      /\ spent' = spent /\ billTab' = [billTab EXCEPT ![t] = NoBillTab] /\ LedgerMoved
  BY DEF CancelArrangement, BillWritten, ledgers
<1>2. a \in ArrangementIds
  BY <1>1 DEF BillingInv, TabsPoint, PointsAt, There, TablesOK
<1>3. /\ arrangement[a].version \in 0..room.versions
      /\ arrangement[a].version + 1 \in 0..room.versions
  BY <1>1, <1>2, BillRoomIs DEF BillingInv, TablesOK, ArrangementRow
<1> HIDE DEF a
<1>4. arrangement' \in [ArrangementIds -> ArrangementRow]
  BY <1>1, <1>2, <1>3 DEF BillingInv, TablesOK, ArrangementRow
<1>5. /\ \A b \in ArrangementIds \ {a} : arrangement'[b] = arrangement[b]
      /\ arrangement'[a].status = "cancelled"
  BY <1>1, <1>2 DEF BillingInv, TablesOK, ArrangementRow
<1>6. RowsStay
  BY <1>1, <1>4, <1>5 DEF RowsStay, There, BillingInv, TablesOK
<1>7. TablesOK' /\ ReferencesUnique'
  BY <1>1, <1>4 DEF BillingInv, TablesOK, ArrangementRow, InvoiceRow, There, ReferencesUnique
<1>8. TabsPoint'
  BY <1>1, <1>6, TabCloses DEF BillingInv
<1>9. RowsExplainLedger' /\ report' \in ReportRow /\ ReportFollows'
  BY <1>1, LedgerUntouched, ReportMoves DEF BillingInv
<1>10. BillingInv'
  BY <1>7, <1>8, <1>9 DEF BillingInv
<1> QED
  BY <1>1, <1>5, <1>10 DEF a

LEMMA InsertInvoiceKeeps ==
  ASSUME BillingInv, NEW t \in BillTabs, NEW i \in InvoiceIds, InsertInvoice(t, i), room' = room
  PROVE  BillingInv' /\ \A j \in There(invoice) : invoice'[j] = invoice[j]
<1> DEFINE r == billTab[t].id
<1>1. /\ billTab[t].stage = "checked" /\ billTab[t].op = "invoice"
      /\ billTab' = [billTab EXCEPT ![t] = NoBillTab]
      /\ i \notin There(invoice) /\ ReferenceFree(r)
      /\ arrangement' = arrangement /\ payment' = payment /\ cost' = cost
      /\ banked' = banked /\ spent' = spent /\ report' = report
  BY DEF InsertInvoice, BillWritten, NextRow, ledgers
<1>2. PICK e \in Billed :
        invoice' = [invoice EXCEPT ![i] =
          [status |-> "draft", engagement |-> e, reference |-> r, version |-> 1]]
  BY DEF InsertInvoice
<1> DEFINE row == [status |-> "draft", engagement |-> e, reference |-> r, version |-> 1]
<1>3. r \in References
  BY <1>1 DEF BillingInv, TabsPoint, PointsAt
<1>4. row \in InvoiceRow /\ row.status = "draft" /\ row.reference = r
  BY <1>3, BillRoomIs, BillingAssumption DEF InvoiceRow, BillingInv, TablesOK
<1> HIDE DEF r, row
<1>5. /\ invoice' \in [InvoiceIds -> InvoiceRow] /\ invoice'[i] = row
      /\ \A j \in InvoiceIds \ {i} : invoice'[j] = invoice[j]
  BY <1>2, <1>4 DEF BillingInv, TablesOK, row
<1>6. \A j \in There(invoice) : j \in InvoiceIds /\ j # i /\ invoice'[j] = invoice[j]
  BY <1>1, <1>5 DEF BillingInv, TablesOK, There
<1>7. There(invoice)' = There(invoice) \cup {i}
  BY <1>4, <1>5 DEF BillingInv, TablesOK, There
<1>8. RowsStay
  BY <1>1, <1>7 DEF RowsStay, There
<1>9. TablesOK'
  <2>1. invoice' \in [InvoiceIds -> InvoiceRow']
    BY <1>5 DEF InvoiceRow
  <2>2. \A p \in There(payment) : payment[p].invoice \in There(invoice)'
    BY <1>7 DEF BillingInv, TablesOK
  <2> QED
    BY <1>1, <2>1, <2>2 DEF BillingInv, TablesOK, ArrangementRow, There
<1>10. ReferencesUnique'
  <2> SUFFICES ASSUME NEW j \in There(invoice)', NEW k \in There(invoice)',
                      invoice'[j].reference = invoice'[k].reference
               PROVE  j = k
    BY DEF ReferencesUnique
  <2>1. \A m \in There(invoice) : invoice'[m].reference # invoice'[i].reference
    BY <1>1, <1>4, <1>5, <1>6 DEF ReferenceFree
  <2>2. CASE j = i \/ k = i
    BY <1>7, <2>1, <2>2
  <2>3. CASE j # i /\ k # i
    <3>1. j \in There(invoice) /\ k \in There(invoice)
      BY <1>7, <2>3
    <3> QED
      BY <1>6, <3>1 DEF BillingInv, ReferencesUnique
  <2> QED
    BY <2>2, <2>3
<1>11. TabsPoint'
  BY <1>1, <1>8, TabCloses DEF BillingInv
<1>12. RowsExplainLedger'
  BY <1>1, <1>6, LedgerUntouched
<1>13. report' \in ReportRow /\ ReportFollows'
  BY <1>1, ReportKeeps DEF BillingInv
<1> QED
  BY <1>6, <1>9, <1>10, <1>11, <1>12, <1>13 DEF BillingInv

LEMMA SetStatusKeeps ==
  ASSUME BillingInv, NEW t \in BillTabs, SetStatus(t), room' = room
  PROVE  /\ BillingInv'
         /\ \A j \in InvoiceIds : invoice'[j] # invoice[j] =>
              /\ billTab[t].op = "status" /\ billTab[t].id = j
              /\ billTab[t].version = invoice[j].version
<1> DEFINE i == billTab[t].id
<1>1. /\ billTab[t].stage = "checked" /\ billTab[t].op = "status"
      /\ billTab' = [billTab EXCEPT ![t] = NoBillTab]
      /\ billTab[t].version = invoice[i].version /\ invoice[i].version < room.versions
      /\ arrangement' = arrangement /\ payment' = payment /\ cost' = cost
      /\ banked' = banked /\ spent' = spent /\ report' = report
  BY DEF SetStatus, BillWritten, ledgers
<1>2. PICK s \in InvoiceStatuses :
        invoice' = [invoice EXCEPT ![i].status = s, ![i].version = @ + 1]
  BY DEF SetStatus
<1>3. i \in There(invoice) /\ i \in InvoiceIds
  BY <1>1 DEF BillingInv, TabsPoint, PointsAt, There, TablesOK
<1>4. invoice[i].version \in 0..room.versions /\ invoice[i].version + 1 \in 0..room.versions
  BY <1>1, <1>3, BillRoomIs DEF BillingInv, TablesOK, InvoiceRow
<1> HIDE DEF i
<1>5. invoice' \in [InvoiceIds -> InvoiceRow]
  BY <1>2, <1>3, <1>4, SMTT(30) DEF BillingInv, TablesOK, InvoiceRow
<1>6. /\ \A j \in InvoiceIds \ {i} : invoice'[j] = invoice[j]
      /\ invoice'[i].status = s /\ invoice'[i].engagement = invoice[i].engagement
      /\ invoice'[i].reference = invoice[i].reference
      /\ s # "none"
  BY <1>2, <1>3, BillingAssumption DEF BillingInv, TablesOK, InvoiceRow
<1>7. \A j \in InvoiceIds : /\ invoice'[j].engagement = invoice[j].engagement
                            /\ invoice'[j].reference = invoice[j].reference
  BY <1>6
<1>8. There(invoice)' = There(invoice)
  BY <1>3, <1>5, <1>6 DEF BillingInv, TablesOK, There
<1>9. RowsStay
  BY <1>1, <1>8 DEF RowsStay, There
<1>10. TablesOK'
  <2>1. invoice' \in [InvoiceIds -> InvoiceRow']
    BY <1>5 DEF InvoiceRow
  <2>2. \A p \in There(payment) : payment[p].invoice \in There(invoice)'
    BY <1>8 DEF BillingInv, TablesOK
  <2> QED
    BY <1>1, <2>1, <2>2 DEF BillingInv, TablesOK, ArrangementRow, There
<1>11. There(invoice) \subseteq InvoiceIds
  BY DEF BillingInv, TablesOK, There
<1>12. ReferencesUnique'
  BY <1>7, <1>8, <1>11 DEF BillingInv, ReferencesUnique
<1>13. TabsPoint'
  BY <1>1, <1>9, TabCloses DEF BillingInv
<1>14. RowsExplainLedger'
  BY <1>1, <1>7, <1>11, LedgerUntouched
<1>15. report' \in ReportRow /\ ReportFollows'
  BY <1>1, ReportKeeps DEF BillingInv
<1>16. BillingInv'
  BY <1>10, <1>12, <1>13, <1>14, <1>15 DEF BillingInv
<1> QED
  BY <1>1, <1>6, <1>16 DEF i

LEMMA RecordPaymentKeeps ==
  ASSUME BillingInv, NEW p \in PaymentIds, NEW i \in InvoiceIds, RecordPayment(p, i), room' = room
  PROVE  BillingInv' /\ \A q \in There(payment) : payment'[q] = payment[q]
<1>1. PICK n \in Amounts :
        payment' = [payment EXCEPT ![p] = [status |-> "paid", invoice |-> i, amount |-> n]]
  BY DEF RecordPayment
<1>2. /\ p \notin There(payment) /\ i \in There(invoice)
      /\ arrangement' = arrangement /\ invoice' = invoice /\ cost' = cost /\ spent' = spent
      /\ billTab' = billTab /\ LedgerMoved
  BY DEF RecordPayment, NextRow
<1>3. RowsExplainLedger' /\ banked' \in [Billed -> Nat]
  BY RecordPaymentAddsUp
<1>4. payment' \in [PaymentIds -> PaymentRow]
  BY <1>1 DEF BillingInv, TablesOK, PaymentRow
<1>5. /\ payment'[p].status = "paid" /\ payment'[p].invoice = i
      /\ \A q \in PaymentIds \ {p} : payment'[q] = payment[q]
  BY <1>1 DEF BillingInv, TablesOK
<1>6. There(payment)' = There(payment) \cup {p}
  BY <1>4, <1>5 DEF BillingInv, TablesOK, There
<1>7. \A q \in There(payment) : payment'[q] = payment[q]
  BY <1>2, <1>5 DEF BillingInv, TablesOK, There
<1>8. RowsStay
  BY <1>2, <1>6 DEF RowsStay, There
<1>9. TablesOK'
  <2>1. There(invoice)' = There(invoice)
    BY <1>2 DEF There
  <2>2. \A q \in There(payment)' : payment'[q].invoice \in There(invoice)
    BY <1>2, <1>5, <1>6, <1>7 DEF BillingInv, TablesOK
  <2> QED
    BY <1>2, <1>3, <1>4, <2>1, <2>2
       DEF BillingInv, TablesOK, ArrangementRow, InvoiceRow, PaymentRow
<1>10. ReferencesUnique'
  BY <1>2 DEF BillingInv, ReferencesUnique, There
<1>11. TabsPoint' /\ report' \in ReportRow /\ ReportFollows'
  BY <1>2, <1>8, TabsKeep, ReportMoves DEF BillingInv
<1> QED
  BY <1>3, <1>7, <1>9, <1>10, <1>11 DEF BillingInv

LEMMA VoidPaymentKeeps ==
  ASSUME BillingInv, NEW t \in BillTabs, VoidPayment(t), room' = room
  PROVE  BillingInv' /\ \A q \in PaymentIds : payment'[q] # payment[q] => payment[q].status = "paid"
<1> DEFINE p == billTab[t].id
<1>1. /\ payment[p].status = "paid"
      /\ payment' = [payment EXCEPT ![p].status = "voided"]
      /\ arrangement' = arrangement /\ invoice' = invoice /\ cost' = cost /\ spent' = spent
      /\ billTab[t].stage = "checked" /\ billTab[t].op = "void"
      /\ billTab' = [billTab EXCEPT ![t] = NoBillTab] /\ LedgerMoved
  BY DEF VoidPayment, BillWritten
<1>2. p \in There(payment) /\ p \in PaymentIds
  BY <1>1 DEF BillingInv, TabsPoint, PointsAt, There, TablesOK
<1> HIDE DEF p
<1>3. RowsExplainLedger' /\ banked' \in [Billed -> Nat]
  BY VoidPaymentAddsUp
<1>4. payment' \in [PaymentIds -> PaymentRow]
  BY <1>1 DEF BillingInv, TablesOK, PaymentRow
<1>5. /\ payment'[p].status = "voided" /\ payment'[p].invoice = payment[p].invoice
      /\ \A q \in PaymentIds \ {p} : payment'[q] = payment[q]
  BY <1>1, <1>2 DEF BillingInv, TablesOK, PaymentRow
<1>6. There(payment)' = There(payment)
  BY <1>2, <1>4, <1>5 DEF BillingInv, TablesOK, There
<1>7. RowsStay
  BY <1>1, <1>6 DEF RowsStay, There
<1>8. TablesOK'
  <2>1. There(invoice)' = There(invoice)
    BY <1>1 DEF There
  <2>2. There(payment) \subseteq PaymentIds
    BY DEF BillingInv, TablesOK, There
  <2>3. \A q \in There(payment) : payment'[q].invoice \in There(invoice)
    BY <1>5, <2>2 DEF BillingInv, TablesOK
  <2> QED
    BY <1>1, <1>3, <1>4, <1>6, <2>1, <2>3
       DEF BillingInv, TablesOK, ArrangementRow, InvoiceRow, PaymentRow
<1>9. ReferencesUnique'
  BY <1>1 DEF BillingInv, ReferencesUnique, There
<1>10. TabsPoint' /\ report' \in ReportRow /\ ReportFollows'
  BY <1>1, <1>7, TabCloses, ReportMoves DEF BillingInv
<1> QED
  BY <1>1, <1>3, <1>5, <1>8, <1>9, <1>10 DEF BillingInv

\* Costs: what else there is to keep when one is entered or deleted.
LEMMA CostsKeep ==
  ASSUME BillingInv, room' = room, cost' \in [CostIds -> CostRow],
         \A c \in There(cost) : cost'[c].status # "none",
         arrangement' = arrangement, invoice' = invoice, payment' = payment, banked' = banked,
         LedgerMoved, RowsExplainLedger', spent' \in [Billed -> Nat],
         \/ billTab' = billTab
         \/ \E t \in BillTabs : billTab' = [billTab EXCEPT ![t] = NoBillTab]
  PROVE  BillingInv'
<1>1. There(cost) \subseteq There(cost)'
  BY DEF BillingInv, TablesOK, There
<1>2. RowsStay
  BY <1>1 DEF RowsStay, There
<1>3. TablesOK' /\ ReferencesUnique'
  BY DEF BillingInv, TablesOK, ArrangementRow, InvoiceRow, There, ReferencesUnique
<1>4. TabsPoint' /\ report' \in ReportRow /\ ReportFollows'
  BY <1>2, TabsKeep, TabCloses, ReportMoves DEF BillingInv
<1> QED
  BY <1>3, <1>4 DEF BillingInv

LEMMA CreateCostKeeps ==
  ASSUME BillingInv, NEW c \in CostIds, CreateCost(c), room' = room
  PROVE  BillingInv'
<1>1. PICK at \in Billed, n \in Amounts :
        cost' = [cost EXCEPT ![c] = [status |-> "kept", engagement |-> at, amount |-> n]]
  BY DEF CreateCost
<1>2. /\ arrangement' = arrangement /\ invoice' = invoice /\ payment' = payment
      /\ banked' = banked /\ billTab' = billTab /\ LedgerMoved
  BY DEF CreateCost
<1>3. cost' \in [CostIds -> CostRow]
  BY <1>1 DEF BillingInv, TablesOK, CostRow
<1>4. \A d \in There(cost) : cost'[d].status # "none"
  BY <1>1 DEF BillingInv, TablesOK, There
<1>5. RowsExplainLedger' /\ spent' \in [Billed -> Nat]
  BY CreateCostAddsUp
<1> QED
  BY <1>2, <1>3, <1>4, <1>5, CostsKeep

LEMMA DeleteCostKeeps ==
  ASSUME BillingInv, NEW t \in BillTabs, DeleteCost(t), room' = room
  PROVE  BillingInv'
<1> DEFINE c == billTab[t].id
<1>1. /\ cost' = [cost EXCEPT ![c].status = "deleted"]
      /\ arrangement' = arrangement /\ invoice' = invoice /\ payment' = payment
      /\ banked' = banked /\ billTab' = [billTab EXCEPT ![t] = NoBillTab] /\ LedgerMoved
  BY DEF DeleteCost, BillWritten
<1> HIDE DEF c
<1>2. cost' \in [CostIds -> CostRow]
  BY <1>1 DEF BillingInv, TablesOK, CostRow
<1>3. \A d \in There(cost) : cost'[d].status # "none"
  BY <1>1 DEF BillingInv, TablesOK, There, CostRow
<1>4. RowsExplainLedger' /\ spent' \in [Billed -> Nat]
  BY DeleteCostAddsUp
<1> QED
  BY <1>1, <1>2, <1>3, <1>4, CostsKeep

\* What a read of the report does to it.
LEMMA ReportReadKeeps ==
  ASSUME BillingInv, room' = room, UNCHANGED <<arrangement, invoice, ledgers, billTab>>,
         \/ \E e \in Billed : ReadRevenue(e)
         \/ ReadCosts \/ ReadRate \/ CloseReport
  PROVE  BillingInv'
<1>1. /\ arrangement' = arrangement /\ invoice' = invoice /\ payment' = payment /\ cost' = cost
      /\ banked' = banked /\ spent' = spent /\ billTab' = billTab
  BY DEF ledgers
<1>2. TablesOK' /\ ReferencesUnique'
  BY <1>1 DEF BillingInv, TablesOK, ArrangementRow, InvoiceRow, There, ReferencesUnique
<1>3. RowsExplainLedger'
  BY <1>1, LedgerUntouched
<1>4. RowsStay
  BY <1>1 DEF RowsStay, There
<1>5. TabsPoint'
  BY <1>1, <1>4, TabsKeep DEF BillingInv
<1>6. NoReport \in ReportRow /\ NoReport.stage = "none" /\ NoReport.moved = FALSE
  BY BillingAssumption DEF NoReport, ReportRow, AnyBilled
<1>7. \A e : RateOf(e)' = RateOf(e)
  BY <1>1 DEF RateOf
<1>8. ASSUME NEW e \in Billed, ReadRevenue(e)
      PROVE  report' \in ReportRow /\ ReportFollows'
  <2>1. report' = [NoReport EXCEPT !.stage = "costs", !.engagement = e, !.collected = Revenue(e)]
    BY <1>8 DEF ReadRevenue
  <2>2. Revenue(e) = banked[e] /\ banked[e] \in Nat
    BY DEF BillingInv, RowsExplainLedger, TablesOK
  <2>3. /\ report' \in ReportRow /\ report'.stage = "costs" /\ report'.engagement = e
        /\ report'.collected = banked[e]
    BY <1>6, <2>1, <2>2 DEF ReportRow
  <2> QED
    BY <1>1, <2>3 DEF ReportFollows
<1>9. ASSUME ReadCosts
      PROVE  report' \in ReportRow /\ ReportFollows'
  <2> DEFINE e == report.engagement
  <2>1. report.stage = "costs" /\ report' = [report EXCEPT !.stage = "rate", !.costs = CostsOf(e)]
    BY <1>9 DEF ReadCosts
  <2>2. CostsOf(e) = spent[e] /\ spent[e] \in Nat
    BY DEF BillingInv, RowsExplainLedger, TablesOK, ReportRow
  <2>3. /\ report' \in ReportRow /\ report'.stage = "rate" /\ report'.engagement = e
        /\ report'.collected = report.collected /\ report'.costs = spent[e]
        /\ report'.moved = report.moved
    BY <2>1, <2>2 DEF BillingInv, ReportRow
  <2> QED
    BY <1>1, <2>1, <2>3 DEF BillingInv, ReportFollows
<1>10. ASSUME ReadRate
       PROVE  report' \in ReportRow /\ ReportFollows'
  <2> DEFINE e == report.engagement
  <2>1. report.stage = "rate" /\ report' = [report EXCEPT !.stage = "shown", !.rate = RateOf(e)]
    BY <1>10 DEF ReadRate
  <2>2. RateOf(e) \in Rates
    BY RateIs DEF BillingInv
  <2>3. /\ report' \in ReportRow /\ report'.stage = "shown" /\ report'.engagement = e
        /\ report'.collected = report.collected /\ report'.costs = report.costs
        /\ report'.moved = report.moved /\ report'.rate = RateOf(e)
    BY <2>1, <2>2 DEF BillingInv, ReportRow
  <2>4. RateOf(report.engagement)' = RateOf(e)
    BY <1>1, <2>3 DEF RateOf
  <2> QED
    BY <1>1, <2>1, <2>3, <2>4 DEF BillingInv, ReportFollows
<1>11. ASSUME CloseReport
       PROVE  report' \in ReportRow /\ ReportFollows'
  BY <1>6, <1>11 DEF CloseReport, ReportFollows
<1> QED
  BY <1>2, <1>3, <1>5, <1>8, <1>9, <1>10, <1>11 DEF BillingInv

\* What a step of billing may change, row by row.
RowsSeen ==
  /\ \A i \in There(invoice) : invoice'[i] # invoice[i] =>
       \E t \in BillTabs : billTab[t].op = "status" /\ billTab[t].id = i
                             /\ billTab[t].version = invoice[i].version
  /\ \A a \in There(arrangement) : arrangement'[a] # arrangement[a] =>
       /\ arrangement[a].status = "active"
       /\ \E t \in BillTabs : billTab[t].op = "cancel" /\ billTab[t].id = a
                                /\ billTab[t].version = arrangement[a].version
  /\ \A p \in There(payment) : payment'[p] # payment[p] => payment[p].status = "paid"

LEMMA NothingWritten ==
  ASSUME arrangement' = arrangement, invoice' = invoice, payment' = payment
  PROVE  RowsSeen
BY DEF RowsSeen

LEMMA BillingStepKeeps ==
  ASSUME BillingInv, BillingNext
  PROVE  BillingInv' /\ RowsSeen
<1>1. BillingStep /\ room' = room
  BY DEF BillingNext
<1>2. /\ There(arrangement) \subseteq ArrangementIds /\ There(invoice) \subseteq InvoiceIds
      /\ There(payment) \subseteq PaymentIds
  BY DEF BillingInv, TablesOK, There
<1>3. ASSUME NEW a \in ArrangementIds, CreateArrangement(a)
      PROVE  BillingInv' /\ RowsSeen
  <2>1. invoice' = invoice /\ payment' = payment
    BY <1>3 DEF CreateArrangement, ledgers
  <2> QED
    BY <1>1, <1>3, <2>1, CreateArrangementKeeps DEF RowsSeen
<1>4. ASSUME NEW t \in BillTabs, ShowBilling(t)
      PROVE  BillingInv' /\ RowsSeen
  <2>1. arrangement' = arrangement /\ invoice' = invoice /\ payment' = payment
    BY <1>4 DEF ShowBilling, ShowBill, ledgers
  <2> QED
    BY <1>1, <1>4, <2>1, ShowBillingKeeps, NothingWritten
<1>5. ASSUME NEW t \in BillTabs, CloseBill(t)
      PROVE  BillingInv' /\ RowsSeen
  <2>1. arrangement' = arrangement /\ invoice' = invoice /\ payment' = payment
    BY <1>5 DEF CloseBill, ledgers
  <2> QED
    BY <1>1, <1>5, <2>1, CloseBillKeeps, NothingWritten
<1>6. ASSUME NEW t \in BillTabs, NEW op, BillChecked(t, op)
      PROVE  BillingInv' /\ RowsSeen
  <2>1. arrangement' = arrangement /\ invoice' = invoice /\ payment' = payment
    BY <1>6 DEF BillChecked, ledgers
  <2> QED
    BY <1>1, <1>6, <2>1, BillCheckedKeeps, NothingWritten
<1>7. ASSUME NEW t \in BillTabs, CancelArrangement(t)
      PROVE  BillingInv' /\ RowsSeen
  <2>1. invoice' = invoice /\ payment' = payment
    BY <1>7 DEF CancelArrangement, ledgers
  <2> QED
    BY <1>1, <1>2, <1>7, <2>1, CancelArrangementKeeps DEF RowsSeen
<1>8. ASSUME NEW t \in BillTabs, NEW i \in InvoiceIds, InsertInvoice(t, i)
      PROVE  BillingInv' /\ RowsSeen
  <2>1. arrangement' = arrangement /\ payment' = payment
    BY <1>8 DEF InsertInvoice, ledgers
  <2> QED
    BY <1>1, <1>8, <2>1, InsertInvoiceKeeps DEF RowsSeen
<1>9. ASSUME NEW t \in BillTabs, SetStatus(t)
      PROVE  BillingInv' /\ RowsSeen
  <2>1. arrangement' = arrangement /\ payment' = payment
    BY <1>9 DEF SetStatus, ledgers
  <2> QED
    BY <1>1, <1>2, <1>9, <2>1, SetStatusKeeps DEF RowsSeen
<1>10. ASSUME NEW t \in BillTabs, VoidPayment(t)
       PROVE  BillingInv' /\ RowsSeen
  <2>1. arrangement' = arrangement /\ invoice' = invoice
    BY <1>10 DEF VoidPayment
  <2> QED
    BY <1>1, <1>2, <1>10, <2>1, VoidPaymentKeeps DEF RowsSeen
<1>11. ASSUME NEW t \in BillTabs, DeleteCost(t)
       PROVE  BillingInv' /\ RowsSeen
  <2>1. arrangement' = arrangement /\ invoice' = invoice /\ payment' = payment
    BY <1>11 DEF DeleteCost
  <2> QED
    BY <1>1, <1>11, <2>1, DeleteCostKeeps, NothingWritten
<1>12. ASSUME NEW p \in PaymentIds, NEW i \in InvoiceIds, RecordPayment(p, i)
       PROVE  BillingInv' /\ RowsSeen
  <2>1. arrangement' = arrangement /\ invoice' = invoice
    BY <1>12 DEF RecordPayment
  <2> QED
    BY <1>1, <1>12, <2>1, RecordPaymentKeeps DEF RowsSeen
<1>13. ASSUME NEW c \in CostIds, CreateCost(c)
       PROVE  BillingInv' /\ RowsSeen
  <2>1. arrangement' = arrangement /\ invoice' = invoice /\ payment' = payment
    BY <1>13 DEF CreateCost
  <2> QED
    BY <1>1, <1>13, <2>1, CreateCostKeeps, NothingWritten
<1>14. ASSUME (\E e \in Billed : ReadRevenue(e)) \/ ReadCosts \/ ReadRate \/ CloseReport
       PROVE  BillingInv' /\ RowsSeen
  <2>1. UNCHANGED <<arrangement, invoice, ledgers, billTab>>
    BY <1>14 DEF ReadRevenue, ReadCosts, ReadRate, CloseReport
  <2>2. arrangement' = arrangement /\ invoice' = invoice /\ payment' = payment
    BY <2>1 DEF ledgers
  <2> QED
    BY <1>1, <1>14, <2>1, <2>2, ReportReadKeeps, NothingWritten
<1> QED
  BY <1>1, <1>3, <1>4, <1>5, <1>6, <1>7, <1>8, <1>9, <1>10, <1>11, <1>12, <1>13, <1>14
     DEF BillingStep, CheckCancel, CheckReference, CheckStatus, CheckVoid, CheckDrop

LEMMA BillingStutterKeeps ==
  ASSUME BillingInv, UNCHANGED billVars
  PROVE  BillingInv' /\ RowsSeen
<1>1. /\ UNCHANGED <<arrangement, invoice, ledgers, report>> /\ room' = room /\ billTab' = billTab
      /\ arrangement' = arrangement /\ invoice' = invoice /\ payment' = payment
  BY DEF billVars, ledgers
<1>2. TabsPoint'
  BY <1>1, RowsStayWhenSame, TabsKeep DEF BillingInv
<1> QED
  BY <1>1, <1>2, OnlyTabs, NothingWritten

LEMMA BillingInvGives ==
  ASSUME BillingInv
  PROVE  BillingTypeOK /\ BillsAddUp
<1>1. BillingTypeOK
  BY DEF BillingInv, TablesOK, BillingTypeOK, ArrangementRow, InvoiceRow, PaymentRow, CostRow
<1> QED
  BY <1>1, ReportIs DEF BillingInv, BillsAddUp

\* The tables of billing have their types, and a payment is of an invoice that is
\* there, whatever the numbers of rows, versions and open forms.
THEOREM BillingTyped == BillingSpec => []BillingTypeOK
<1>1. BillingInv /\ [BillingNext]_billVars => BillingInv'
  BY BillingStepKeeps, BillingStutterKeeps
<1> QED
  BY <1>1, BillingInitially, BillingInvGives, PTL DEF BillingSpec

\* The money is explained, for any numbers of rows and forms: rows and sums agree
\* with what was paid and spent (compute_engagement_profitability), nothing is
\* voided or deleted twice, and no two invoices carry one reference.
THEOREM BillsHold == BillingSpec => []BillsAddUp
<1>1. BillingInv /\ [BillingNext]_billVars => BillingInv'
  BY BillingStepKeeps, BillingStutterKeeps
<1> QED
  BY <1>1, BillingInitially, BillingInvGives, PTL DEF BillingSpec

\* Nobody replaces a status or cancels an arrangement he did not see as it is, and
\* what was cancelled, or voided, stays so.
THEOREM BillsAreSeen == BillingSpec => BillChangesAreSeen
<1>1. BillingInv /\ [BillingNext]_billVars => BillingInv'
  BY BillingStepKeeps, BillingStutterKeeps
<1>2. BillingInv /\ [BillingNext]_billVars =>
        [/\ \A i \in There(invoice) : invoice'[i] # invoice[i] =>
              \E t \in BillTabs : billTab[t].op = "status" /\ billTab[t].id = i
                                    /\ billTab[t].version = invoice[i].version
         /\ \A a \in There(arrangement) : arrangement'[a] # arrangement[a] =>
              /\ arrangement[a].status = "active"
              /\ \E t \in BillTabs : billTab[t].op = "cancel" /\ billTab[t].id = a
                                       /\ billTab[t].version = arrangement[a].version
         /\ \A p \in There(payment) : payment'[p] # payment[p] => payment[p].status = "paid"]_billVars
  BY BillingStepKeeps DEF RowsSeen
<1> QED
  BY <1>1, <1>2, BillingInitially, PTL DEF BillingSpec, BillChangesAreSeen

-----------------------------------------------------------------------------
(* The four together: a behaviour of all is a behaviour of each.           *)

LEMMA EachAlone ==
  CommercialSpec => ProposalSpec /\ DeliverySpec /\ BillingSpec /\ LibrarySpec
<1>1. CommercialInit => ProposalInit /\ DeliveryInit /\ BillingInit /\ LibraryInit
  BY DEF CommercialInit
<1>2. [CommercialNext]_CommercialVars => [ProposalNext]_proposalVars
  BY DEF CommercialNext, CommercialVars
<1>3. [CommercialNext]_CommercialVars => [DeliveryNext]_deliveryVars
  BY DEF CommercialNext, CommercialVars
<1>4. [CommercialNext]_CommercialVars => [BillingNext]_billVars
  BY DEF CommercialNext, CommercialVars
<1>5. [CommercialNext]_CommercialVars => [LibraryNext]_libraryVars
  BY DEF CommercialNext, CommercialVars
<1> QED
  BY <1>1, <1>2, <1>3, <1>4, <1>5, PTL
     DEF CommercialSpec, ProposalSpec, DeliverySpec, BillingSpec, LibrarySpec

\* The tables of all four have their types, whatever the constants.
THEOREM CommercialTyped == CommercialSpec => []CommercialTypeOK
<1>1. ProposalTypeOK /\ DeliveryTypeOK /\ BillingTypeOK /\ LibraryTypeOK => CommercialTypeOK
  BY DEF CommercialTypeOK
<1> QED
  BY <1>1, EachAlone, ProposalsTyped, DeliveryTyped, BillingTyped, LibraryTyped, PTL

\* Nobody writes over what he did not see, and what was decided, settled or
\* cancelled is final, in proposals, bills, templates and the company home.
THEOREM ChangesHold == CommercialSpec => ChangesAreSeen
BY EachAlone, ProposalsAreSeen, BillsAreSeen, LibraryIsSeen, PTL DEF ChangesAreSeen

\* What each of the four promises holds where all of them run beside each other.
THEOREM CommercialStands ==
  CommercialSpec => [](OfferStands /\ BillsAddUp /\ LibraryStands) /\ DeliveryStands
<1> QED
  BY EachAlone, ApprovedOffersStand, BillsHold, LibraryHolds, DeliveryHolds, PTL
================================================================================
