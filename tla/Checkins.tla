-------------------------------- MODULE Checkins --------------------------------
(***************************************************************************)
(* Daily check-ins, their running cash balance and the direction computed  *)
(* from each (app/routes/checkins.py, app/db/checkins.py).                 *)
(*                                                                         *)
(* Every row stores a balance.  A new one is computed from the newest row; *)
(* an edit or a deletion shifts the balances of the later rows by the      *)
(* difference.  All of them read before the lock.                          *)
(***************************************************************************)
EXTENDS Integers, FiniteSets, FiniteSetsExt, Sums

CONSTANTS
  CheckinIds,
  Movements,      \* cash_in - expenses of a submitted form
  CheckinKeys,    \* request keys; NoCheckinKey: none was sent
  NoCheckinKey,
  NoCash,         \* cash_in was left empty
  Balances,       \* balances typed into the edit form; NoCash: the field was empty
  Submitters,     \* requests
  CheckinRooms    \* bounds: requests at the same time, rows and edits, one record chosen at the start

ASSUME CheckinsAssumption ==
  /\ CheckinIds \subseteq Nat \ {0} /\ IsFiniteSet(CheckinIds)
  /\ Movements \subseteq Int /\ NoCash \notin Int /\ Balances \subseteq Int \cup {NoCash}
  /\ CheckinRooms \subseteq [submitters : Nat \ {0}, rows : Nat, edits : Nat]

VARIABLES
  checkin,    \* checkins
  direction,  \* how many directions each check-in has
  form,       \* what each request has read and is about to write
  balanceSet, \* history: a balance was typed, or a movement emptied, in an edit
  edits,      \* edits so far
  checkinRoom \* the record of CheckinRooms this behaviour has

checkinVars == <<checkin, direction, form, balanceSet, edits, checkinRoom>>

NoCheckin == [status |-> "none", cash |-> 0, movement |-> 0, key |-> NoCheckinKey]
NoForm == [op |-> "idle", id |-> 0, cash |-> 0, old |-> 0, new |-> 0]

CheckinInit ==
  /\ checkin = [c \in CheckinIds |-> NoCheckin]
  /\ direction = [c \in CheckinIds |-> 0]
  /\ form = [w \in Submitters |-> NoForm]
  /\ balanceSet = FALSE
  /\ edits = 0
  /\ checkinRoom \in CheckinRooms

Rows == {c \in CheckinIds : checkin[c].status = "kept"}
Moved == {c \in Rows : checkin[c].movement # NoCash}

\* The cash of the newest of some rows.
NewestCash(rows) == IF rows = {} THEN 0 ELSE checkin[Max(rows)].cash

\* _previous_cash_before
PreviousCash(c) == NewestCash({d \in Rows : d < c})

KeyUsedBy(key) == {c \in Rows : key # NoCheckinKey /\ checkin[c].key = key}

BeginForm(w, new) ==
  /\ form[w].op = "idle"
  /\ Cardinality({v \in Submitters : form[v].op # "idle"}) < checkinRoom.submitters
  /\ form' = [form EXCEPT ![w] = new]
  /\ UNCHANGED <<checkin, direction, balanceSet, edits>>

EndForm(w, op) == form[w].op = op /\ form' = [form EXCEPT ![w] = NoForm]

\* A retry that finds its check-in shows it; a form without its row is a 404 or
\* an error that rolls everything back.
GiveUpForm(w) ==
  /\ form[w].op # "idle"
  /\ form' = [form EXCEPT ![w] = NoForm]
  /\ UNCHANGED <<checkin, direction, balanceSet, edits>>

-----------------------------------------------------------------------------

\* create_checkin, up to its INSERT: the newest balance.
ReadNewest(w) ==
  BeginForm(w, [op |-> "create", id |-> 0, cash |-> NewestCash(Rows), old |-> 0, new |-> 0])

\* The INSERT, which does nothing when the key is taken, and the direction.
CreateCheckin(w, c) ==
  /\ EndForm(w, "create")
  /\ checkin[c].status = "none" /\ c <= checkinRoom.rows /\ \A d \in CheckinIds : d < c => checkin[d].status # "none"
  /\ \E m \in Movements, key \in CheckinKeys :
       /\ KeyUsedBy(key) = {}
       /\ checkin' = [checkin EXCEPT ![c] =
            [status |-> "kept", cash |-> form[w].cash + m, movement |-> m, key |-> key]]
  /\ direction' = [direction EXCEPT ![c] = 1]
  /\ UNCHANGED <<balanceSet, edits>>

\* _adjust_later_cash_balances
Shifted(rows, after, delta) ==
  [d \in CheckinIds |->
    IF rows[d].status = "kept" /\ d > after /\ rows[d].movement # NoCash
    THEN [rows[d] EXCEPT !.cash = @ + delta] ELSE rows[d]]

\* edit_checkin_submit, up to its UPDATE: the old row, and the balance before it.
ReadForEdit(w) ==
  \E c \in Rows, balance \in Balances, m \in Movements \cup {NoCash} :
    BeginForm(w, [op |-> "edit", id |-> c, old |-> checkin[c].movement, new |-> m,
                  cash |-> CASE balance # NoCash -> balance
                             [] balance = NoCash /\ m # NoCash -> PreviousCash(c) + m
                             [] OTHER -> checkin[c].cash])

\* The UPDATE, the later balances when both movements are known, and a new
\* direction for the old.  A row that is gone by now fails, and nothing is left.
EditCheckin(w) ==
  LET c == form[w].id
      old == form[w].old
      new == form[w].new
      edited == [checkin EXCEPT ![c].cash = form[w].cash, ![c].movement = new]
  IN  /\ EndForm(w, "edit")
      /\ edits < checkinRoom.edits /\ edits' = edits + 1
      /\ c \in Rows
      /\ checkin' = IF old # NoCash /\ new # NoCash THEN Shifted(edited, c, new - old) ELSE edited
      /\ direction' = [direction EXCEPT ![c] = 1]
      /\ balanceSet' = (balanceSet \/ old = NoCash \/ new = NoCash
                                   \/ form[w].cash # PreviousCash(c) + new)

ReadForDelete(w) ==
  \E c \in Rows :
    BeginForm(w, [op |-> "delete", id |-> c, cash |-> 0, old |-> checkin[c].movement,
                  new |-> 0])

\* Mutant: the direction stays.
DeleteRowOnly(w) ==
  LET c == form[w].id
  IN  /\ EndForm(w, "delete")
      /\ checkin' = [checkin EXCEPT ![c].status = "gone"]
      /\ UNCHANGED <<direction, balanceSet, edits>>

\* delete_checkin: the row counts of the DELETEs are not read, so the later
\* balances shift even when another request deleted the row first.
DeleteCheckin(w) ==
  LET c == form[w].id
      kept == [checkin EXCEPT ![c].status = "gone"]
  IN  /\ EndForm(w, "delete")
      /\ checkin' = IF form[w].old = NoCash THEN kept ELSE Shifted(kept, c, -form[w].old)
      /\ direction' = [direction EXCEPT ![c] = 0]
      /\ UNCHANGED <<balanceSet, edits>>

CheckinStep ==
  \E w \in Submitters :
    \/ ReadNewest(w) \/ \E c \in CheckinIds : CreateCheckin(w, c)
    \/ ReadForEdit(w) \/ EditCheckin(w)
    \/ ReadForDelete(w) \/ DeleteCheckin(w)
    \/ GiveUpForm(w)

CheckinNext == CheckinStep /\ UNCHANGED checkinRoom

CheckinSpec == CheckinInit /\ [][CheckinNext]_checkinVars

-----------------------------------------------------------------------------
(* Properties.                                                             *)

\* The variables have their types.
CheckinTypeOK ==
  /\ \A c \in CheckinIds :
       /\ checkin[c].status \in {"none", "kept", "gone"} /\ checkin[c].cash \in Int
       /\ checkin[c].movement \in Movements \cup {0, NoCash}
       /\ checkin[c].key \in CheckinKeys \cup {NoCheckinKey}
  /\ direction \in [CheckinIds -> {0, 1}] /\ balanceSet \in BOOLEAN
  /\ edits <= checkinRoom.edits

\* Every check-in shows the direction computed from it, once, and no direction
\* outlives its check-in, when edits and deletions of one row overlap.
OneDirectionEach ==
  \A c \in CheckinIds : direction[c] = IF c \in Rows THEN 1 ELSE 0

\* A form that is sent again, at the same time or later, makes no second check-in.
OneCheckinPerKey ==
  \A c, d \in Rows : checkin[c].key = checkin[d].key /\ checkin[c].key # NoCheckinKey => c = d

\* With one request at a time every balance is the sum of the movements up to it,
\* after any sequence of edits and deletions that leaves the balances to the
\* program.  Requests that overlap break it: two check-ins start from one balance
\* (routes/checkins.py:163), two deletions both shift the later rows (615).
BalancesAddUp ==
  checkinRoom.submitters = 1 /\ ~balanceSet =>
    \A c \in Rows :
      checkin[c].cash = SumOf([d \in Moved |-> checkin[d].movement], {d \in Moved : d <= c})

\* Check-ins, their directions and their balances agree after any order of
\* creations, edits and deletions.
CheckinsAgree == OneDirectionEach /\ OneCheckinPerKey /\ BalancesAddUp
=============================================================================
