--------------------------------- MODULE Memory ---------------------------------
(***************************************************************************)
(* One person's durable memories and the candidates for them               *)
(* (app/services/memory.py, app/routes/memories.py, app/db/memory.py).     *)
(*                                                                         *)
(* A handler reads in autocommit mode and takes the write lock with its    *)
(* first INSERT or UPDATE; the savepoint of _atomic undoes its writes on    *)
(* an error.  So a handler is its reads and one write action, which sees   *)
(* rows that may have changed since.                                       *)
(***************************************************************************)
EXTENDS Naturals, Sequences, FiniteSets, Bags

CONSTANTS
  Keys,           \* memory keys
  Contents,       \* what _content_hash tells apart under one key
  Requests,       \* worker threads with a memory request
  Resolutions,    \* statuses a review may give, of rejected and archived
  RequestKeys,    \* idempotency keys of candidate proposals
  NoKey,          \* a proposal without one
  Nothing,        \* no content, no key
  MaxMemories,    \* bound: rows in memories
  MaxCandidates   \* bound: rows in memory_candidates

ASSUME MemoryAssumption ==
  /\ IsFiniteSet(Requests)
  /\ Resolutions \subseteq {"rejected", "archived"}
  /\ NoKey \notin RequestKeys /\ Nothing \notin Contents \cup Keys
  /\ MaxMemories \in Nat /\ MaxCandidates \in Nat

VARIABLES
  memories,    \* table memories; the id is the position
  candidates,  \* table memory_candidates
  trail,       \* memory_audit_events, a bag of [event, memory, candidate]
  request      \* the handlers: operation, target, and what they have read

vars == <<memories, candidates, trail, request>>

Ids == DOMAIN memories
Proposals == DOMAIN candidates

\* _content_hash: equal for rows that say the same under the same key.
Fingerprint(row) == <<row.key, row.content>>

Under(k) == {m \in Ids : memories[m].key = k}
ActiveUnder(k) == {m \in Under(k) : memories[m].active}

\* SELECT COALESCE(MAX(version), 0) + 1.
NextVersion(k) ==
  CHOOSE n \in 1..Len(memories) + 1 :
    /\ \A m \in Under(k) : memories[m].version < n
    /\ n = 1 \/ \E m \in Under(k) : memories[m].version = n - 1

NoRow == [op |-> "none", id |-> 0, key |-> Nothing, existing |-> 0, version |-> 0]

Init ==
  /\ memories = <<>>
  /\ candidates = <<>>
  /\ trail = EmptyBag
  /\ request = [r \in Requests |-> NoRow]

-----------------------------------------------------------------------------
(* Rows and events.                                                        *)

NewMemory(k, c, n) ==
  [key |-> k, content |-> c, version |-> n, active |-> TRUE, superseded |-> 0]

\* Mutant: without the index on the active key.
InsertableAnyActive(rows, k, n) ==
  \A m \in DOMAIN rows : rows[m].key = k => rows[m].version # n

\* The unique indexes on the active key and on the version of a key.
Insertable(rows, k, n) ==
  \A m \in DOMAIN rows : rows[m].key = k => ~rows[m].active /\ rows[m].version # n

MemoryEvent(event, m, c) == [event |-> event, memory |-> m, candidate |-> c]

Record(events) == trail' = trail (+) SetToBag(events)

\* The answer, whatever it says: the thread is free again.
Finish(r) == request' = [request EXCEPT ![r] = NoRow]

Read(r, state) ==
  /\ request[r] = NoRow
  /\ request' = [request EXCEPT ![r] = state]
  /\ UNCHANGED <<memories, candidates, trail>>

\* An error: the savepoint and then the transaction are rolled back, or a
\* SELECT found that there is nothing to do.  No row changes.  A read snapshot
\* that is too old for a write (SQLITE_BUSY_SNAPSHOT) ends here as well.
GiveUp(r) ==
  /\ request[r] # NoRow
  /\ Finish(r)
  /\ UNCHANGED <<memories, candidates, trail>>

-----------------------------------------------------------------------------
(* Durable memories.                                                       *)

\* create_memory: nothing active under the key ...
ReadForCreate(r) ==
  \E k \in Keys :
    /\ ActiveUnder(k) = {}
    /\ Read(r, [NoRow EXCEPT !.op = "create", !.key = k])

\* ... then the version, a SELECT of its own ...
ReadVersion(r) ==
  /\ request[r].op = "create"
  /\ request' = [request EXCEPT ![r].op = "insert",
                                ![r].version = NextVersion(request[r].key)]
  /\ UNCHANGED <<memories, candidates, trail>>

\* ... then the INSERT, which a unique index may refuse.
CreateMemory(r) ==
  LET k == request[r].key
      n == request[r].version
  IN  /\ request[r].op = "insert" /\ Len(memories) < MaxMemories
      /\ Insertable(memories, k, n)
      /\ \E c \in Contents : memories' = Append(memories, NewMemory(k, c, n))
      /\ Record({MemoryEvent("memory_created", Len(memories) + 1, 0)})
      /\ Finish(r)
      /\ UNCHANGED candidates

\* revise_memory and archive_memory: the page shows an active version.  A
\* row keeps its version, so the version the form sends back says the same
\* as active = 1.
ReadForChange(r) ==
  \E m \in Ids, op \in {"revise", "archive"} :
    /\ memories[m].active
    /\ Read(r, [NoRow EXCEPT !.op = op, !.id = m])

\* Mutant: the new row's id is off by one.
SupersededNext(m, new) ==
  [memories EXCEPT ![m].active = FALSE, ![m].superseded = new + 1]

Superseded(m, new) ==
  [memories EXCEPT ![m].active = FALSE, ![m].superseded = new]

\* Mutant: the row is changed in place.
ReviseInPlace(r) ==
  LET m == request[r].id
  IN  /\ request[r].op = "revise"
      /\ memories[m].active
      /\ \E c \in Contents : memories' = [memories EXCEPT ![m].content = c]
      /\ Record({MemoryEvent("memory_created", m, 0)})
      /\ Finish(r)
      /\ UNCHANGED candidates

ReviseMemory(r) ==
  LET m == request[r].id
      k == memories[m].key
      new == Len(memories) + 1
      n == memories[m].version + 1
  IN  /\ request[r].op = "revise" /\ Len(memories) < MaxMemories
      /\ memories[m].active
      /\ Insertable(Superseded(m, new), k, n)
      /\ \E c \in Contents :
           memories' = Append(Superseded(m, new), NewMemory(k, c, n))
      /\ Record({MemoryEvent("memory_superseded", m, 0), MemoryEvent("memory_created", new, 0)})
      /\ Finish(r)
      /\ UNCHANGED candidates

ArchiveMemory(r) ==
  LET m == request[r].id
  IN  /\ request[r].op = "archive"
      /\ memories[m].active
      /\ memories' = [memories EXCEPT ![m].active = FALSE]
      /\ Record({MemoryEvent("memory_archived", m, 0)})
      /\ Finish(r)
      /\ UNCHANGED candidates

-----------------------------------------------------------------------------
(* Candidates.                                                             *)

\* The unique indexes on the request key and on a pending fingerprint.
Proposable(k, c, rk) ==
  \A p \in Proposals :
    /\ rk = NoKey \/ candidates[p].request # rk
    /\ candidates[p].status = "pending" =>
         Fingerprint(candidates[p]) # Fingerprint([key |-> k, content |-> c])

\* create_memory_candidate.  Its lookups ask what the unique indexes ask
\* again, and whichever refuses, an existing candidate is the answer.
ProposeMemory(k, c, rk) ==
  /\ Len(candidates) < MaxCandidates
  /\ Proposable(k, c, rk)
  /\ candidates' = Append(candidates, [key |-> k, content |-> c, request |-> rk,
                                       status |-> "pending", memory |-> 0])
  /\ Record({MemoryEvent("candidate_created", 0, Len(candidates) + 1)})
  /\ UNCHANGED <<memories, request>>

\* accept_memory_candidate reads the candidate and the active memory of its key.
ReadForAccept(r) ==
  \E p \in Proposals :
    /\ candidates[p].status = "pending"
    /\ \E m \in IF ActiveUnder(candidates[p].key) = {} THEN {0}
                ELSE ActiveUnder(candidates[p].key) :
         Read(r, [NoRow EXCEPT !.op = "accept", !.id = p, !.existing = m])

\* The candidate is still pending, or the whole acceptance is rolled back.
Accepted(p, m) ==
  /\ candidates[p].status = "pending"
  /\ candidates' = [candidates EXCEPT ![p].status = "accepted", ![p].memory = m]

\* The memory that was active says the same: it is linked.
AcceptSame(r) ==
  LET p == request[r].id
      m == request[r].existing
  IN  /\ request[r].op = "accept" /\ m # 0
      /\ Fingerprint(memories[m]) = Fingerprint(candidates[p])
      /\ Accepted(p, m)
      /\ Record({MemoryEvent("candidate_accepted", m, p)})
      /\ Finish(r)
      /\ UNCHANGED memories

\* Otherwise a new version, the transaction's first SELECT, supersedes it.
\* The UPDATE of the old row says active = 1 and its row count is not read.
AcceptNew(r) ==
  LET p == request[r].id
      m == request[r].existing
      k == candidates[p].key
      new == Len(memories) + 1
      rows == IF m = 0 THEN memories ELSE Superseded(m, new)
  IN  /\ request[r].op = "accept" /\ Len(memories) < MaxMemories
      /\ m # 0 => Fingerprint(memories[m]) # Fingerprint(candidates[p])
      /\ Insertable(rows, k, NextVersion(k))
      /\ memories' = Append(rows, NewMemory(k, candidates[p].content, NextVersion(k)))
      /\ Accepted(p, new)
      /\ Record({MemoryEvent("memory_created", new, p), MemoryEvent("candidate_accepted", new, p)}
                \cup IF m = 0 THEN {} ELSE {MemoryEvent("memory_superseded", m, p)})
      /\ Finish(r)

ReadForDecision(r) ==
  \E p \in Proposals, op \in Resolutions :
    /\ candidates[p].status = "pending"
    /\ Read(r, [NoRow EXCEPT !.op = op, !.id = p])

DecisionEvent(op) == IF op = "rejected" THEN "candidate_rejected" ELSE "candidate_archived"

\* Mutant: the UPDATE does not ask for status = 'pending'.
DecideAnyway(r) ==
  LET p == request[r].id
      op == request[r].op
  IN  /\ op \in Resolutions
      /\ candidates' = [candidates EXCEPT ![p].status = op]
      /\ Record({MemoryEvent(DecisionEvent(op), 0, p)})
      /\ Finish(r)
      /\ UNCHANGED memories

\* reject_memory_candidate and archive_memory_candidate: the UPDATE asks for
\* status = 'pending', the event is recorded whatever it found.
Decide(r) ==
  LET p == request[r].id
      op == request[r].op
  IN  /\ op \in Resolutions
      /\ candidates' = IF candidates[p].status = "pending"
                       THEN [candidates EXCEPT ![p].status = op] ELSE candidates
      /\ Record({MemoryEvent(DecisionEvent(op), 0, p)})
      /\ Finish(r)
      /\ UNCHANGED memories

Next ==
  \/ \E k \in Keys, c \in Contents, rk \in RequestKeys \cup {NoKey} : ProposeMemory(k, c, rk)
  \/ \E r \in Requests :
       \/ ReadForCreate(r) \/ ReadVersion(r) \/ CreateMemory(r)
       \/ ReadForChange(r) \/ ReviseMemory(r) \/ ArchiveMemory(r)
       \/ ReadForAccept(r) \/ AcceptSame(r) \/ AcceptNew(r)
       \/ ReadForDecision(r) \/ Decide(r)
       \/ GiveUp(r)

Spec == Init /\ [][Next]_vars

-----------------------------------------------------------------------------
(* Properties.                                                             *)

Statuses == {"pending", "accepted", "rejected", "archived"}

\* The variables have their types, and references point at rows.
TypeOK ==
  /\ memories \in Seq([key : Keys, content : Contents, version : Nat \ {0},
                       active : BOOLEAN, superseded : Nat])
  /\ candidates \in Seq([key : Keys, content : Contents, request : RequestKeys \cup {NoKey},
                         status : Statuses, memory : Nat])
  /\ \A m \in Ids : memories[m].superseded \in {0} \cup Ids
  /\ \A p \in Proposals : candidates[p].memory \in {0} \cup Ids
  /\ IsABag(trail)
  /\ \A e \in BagToSet(trail) : e.memory \in {0} \cup Ids /\ e.candidate \in {0} \cup Proposals
  /\ \A r \in Requests : request[r].existing \in {0} \cup Ids

\* The versions of a key are numbered without gaps in the order in which they
\* were written, whichever of three operations wrote them and however old the
\* maximum it had read (create_memory, revise_memory, accept_memory_candidate).
VersionsInOrder ==
  \A k \in Keys :
    /\ {memories[m].version : m \in Under(k)} = 1..Cardinality(Under(k))
    /\ \A m, n \in Under(k) : m < n => memories[m].version < memories[n].version

\* What is remembered under a key is its newest version: no operation leaves
\* two active rows or brings an old one back.
ActiveIsNewest ==
  \A m \in Ids : memories[m].active =>
    \A n \in Under(memories[m].key) \ {m} :
      ~memories[n].active /\ memories[n].version < memories[m].version

InTrail(event, m, p) == BagIn(MemoryEvent(event, m, p), trail)

\* The append-only trail explains every row: each memory was created once, and
\* one that is not active was archived or superseded by a newer one of its key.
TrailExplainsMemories ==
  \A m \in Ids :
    LET row == memories[m]
        About(event) == {e \in BagToSet(trail) : e.event = event /\ e.memory = m}
    IN  /\ \E e \in BagToSet(trail) : About("memory_created") = {e} /\ trail[e] = 1
        /\ row.active <=> About("memory_archived") \cup About("memory_superseded") = {}
        /\ (row.superseded # 0) <=> (About("memory_superseded") # {})
        /\ row.superseded # 0 =>
             /\ memories[row.superseded].key = row.key
             /\ memories[row.superseded].version > row.version

\* An accepted candidate is linked to a memory that says what was proposed,
\* and every decision left its event.
DecisionsInTrail ==
  \A p \in Proposals :
    LET c == candidates[p]
    IN  /\ c.status = "accepted" =>
             /\ c.memory # 0
             /\ Fingerprint(memories[c.memory]) = Fingerprint(c)
             /\ InTrail("candidate_accepted", c.memory, p)
        /\ c.status \in {"rejected", "archived"} => InTrail(DecisionEvent(c.status), 0, p)
        /\ c.status # "accepted" => c.memory = 0

\* Rows of memories are history: what one says never changes, it does not
\* become active again, and the trail only grows (revise_memory writes a new row).
HistoryKept ==
  [][/\ \A m \in Ids : \A f \in {"key", "content", "version"} : memories'[m][f] = memories[m][f]
     /\ \A m \in Ids : memories'[m].active => memories[m].active
     /\ trail \sqsubseteq trail']_vars

\* A candidate that was accepted, rejected or archived stays so, and linked to
\* the same memory, although three operations check its status before the lock.
DecidedStays ==
  [][\A p \in Proposals : candidates[p].status # "pending" =>
       candidates'[p] = candidates[p]]_vars

\* What is kept under a key, and why, and what was decided of each candidate, can
\* be read from the rows and the trail.
KeysExplained == VersionsInOrder /\ ActiveIsNewest /\ TrailExplainsMemories /\ DecisionsInTrail

\* What was decided and what was remembered stands: three operations check a
\* candidate before the lock, and none undoes what another has decided or written.
DecisionsStand == DecidedStays /\ HistoryKept

\* The memories implement a register per key.
Register == INSTANCE MemoryRegister WITH
  version <- [k \in Keys |-> Cardinality(Under(k))],
  content <- [k \in Keys |-> IF ActiveUnder(k) = {} THEN Nothing
                             ELSE memories[CHOOSE m \in ActiveUnder(k) : TRUE].content]

\* Every commit writes one register as a whole or none, whatever overlaps it.
ImplementsRegister == Register!RegisterSpec
=============================================================================
