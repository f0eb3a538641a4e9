----------------------------- MODULE Memory_proofs -----------------------------
(***************************************************************************)
(* That the life cycle of memories keeps its promises, for any number of   *)
(* keys, contents, worker threads and rows.                                *)
(*                                                                         *)
(* A handler reads before it locks, so what it knows may be old.  The      *)
(* argument is that what it relies on cannot become false: rows are never  *)
(* removed and keep their key, a maximum that was read is at most the      *)
(* maximum of now (RequestOK), and the two unique indexes refuse the       *)
(* insert whenever more than that would be needed.                         *)
(***************************************************************************)
EXTENDS Memory, FiniteSetTheorems, SequenceTheorems, TLAPS

MemoryRow == [key : Keys, content : Contents, version : Nat \ {0},
              active : BOOLEAN, superseded : Nat]
CandidateRow == [key : Keys, content : Contents, request : RequestKeys \cup {NoKey},
                 status : Statuses, memory : Nat]
RequestType == [op : {"none", "create", "insert", "revise", "archive", "accept"} \cup Resolutions,
                id : Nat, key : Keys \cup {Nothing}, existing : Nat, version : Nat]

\* What a handler in state q may rely on.
RequestOK(q) ==
  /\ q.op \in {"create", "insert"} => q.key \in Keys
  /\ q.op = "insert" => q.version \in 1..Cardinality(Under(q.key)) + 1
  /\ q.op \in {"revise", "archive"} => q.id \in Ids
  /\ q.op \in {"accept"} \cup Resolutions => q.id \in Proposals
  /\ q.op = "accept" => q.existing \in {0} \cup Under(candidates[q.id].key)
  /\ q.op # "accept" => q.existing = 0

RequestsOK ==
  /\ request \in [Requests -> RequestType]
  /\ \A r \in Requests : RequestOK(request[r])

\* The inductive invariant.
MemoryInv ==
  /\ TypeOK
  /\ VersionsInOrder
  /\ ActiveIsNewest
  /\ TrailExplainsMemories
  /\ DecisionsInTrail
  /\ RequestsOK

-----------------------------------------------------------------------------
(* The trail and the versions of a key.                                    *)

LEMMA RecordGrows ==
  ASSUME IsABag(trail), NEW events, Record(events)
  PROVE  /\ IsABag(trail')
         /\ BagToSet(trail') = BagToSet(trail) \cup events
         /\ trail \sqsubseteq trail'
         /\ \A e \in BagToSet(trail) \ events : trail'[e] = trail[e]
         /\ \A e \in events \ BagToSet(trail) : trail'[e] = 1
<1>1. trail \in [DOMAIN trail -> {n \in Nat : n > 0}]
  BY DEF IsABag
<1>2. trail' = [e \in DOMAIN trail \cup events |->
                  (IF e \in DOMAIN trail THEN trail[e] ELSE 0)
                  + (IF e \in events THEN 1 ELSE 0)]
  BY DEF Record, SetToBag, (+)
<1>3. DOMAIN trail' = DOMAIN trail \cup events
  BY <1>2
<1>4. \A e \in DOMAIN trail' : /\ trail'[e] \in {n \in Nat : n > 0}
                               /\ e \in DOMAIN trail => trail[e] <= trail'[e]
                               /\ e \in DOMAIN trail \ events => trail'[e] = trail[e]
                               /\ e \in events \ DOMAIN trail => trail'[e] = 1
  BY <1>1, <1>2, <1>3
<1>5. trail' \in [DOMAIN trail' -> {n \in Nat : n > 0}]
  BY <1>2, <1>3, <1>4
<1> QED
  BY <1>3, <1>4, <1>5 DEF IsABag, BagToSet, \sqsubseteq

LEMMA Rows ==
  ASSUME TypeOK
  PROVE  /\ memories \in Seq(MemoryRow) /\ candidates \in Seq(CandidateRow)
         /\ Len(memories) \in Nat /\ Len(candidates) \in Nat
         /\ Ids = 1..Len(memories) /\ Proposals = 1..Len(candidates)
         /\ \A m \in Ids : memories[m] \in MemoryRow
         /\ \A p \in Proposals : candidates[p] \in CandidateRow
<1>1. memories \in Seq(MemoryRow) /\ candidates \in Seq(CandidateRow)
  BY DEF TypeOK, MemoryRow, CandidateRow
<1> QED
  BY <1>1, LenProperties, ElementOfSeq DEF Ids, Proposals

LEMMA UnderIsFinite ==
  ASSUME TypeOK, NEW k
  PROVE  /\ IsFiniteSet(Under(k)) /\ Cardinality(Under(k)) \in Nat
         /\ Cardinality(Under(k)) <= Len(memories)
<1>1. Under(k) \in SUBSET (1..Len(memories)) /\ Len(memories) \in Nat
  BY Rows DEF Under
<1>2. IsFiniteSet(1..Len(memories)) /\ Cardinality(1..Len(memories)) = Len(memories)
  <2>1. /\ IsFiniteSet(1..Len(memories))
        /\ Cardinality(1..Len(memories)) = IF 1 > Len(memories) THEN 0 ELSE Len(memories) - 1 + 1
    BY <1>1, FS_Interval
  <2> QED
    BY <1>1, <2>1
<1> QED
  BY <1>1, <1>2, FS_Subset, FS_CardinalityType

\* SELECT COALESCE(MAX(version), 0) + 1 counts the rows of the key.
LEMMA NextVersionCounts ==
  ASSUME TypeOK, VersionsInOrder, NEW k \in Keys
  PROVE  NextVersion(k) = Cardinality(Under(k)) + 1
<1> DEFINE c == Cardinality(Under(k))
           IsNext(n) == /\ \A m \in Under(k) : memories[m].version < n
                        /\ n = 1 \/ \E m \in Under(k) : memories[m].version = n - 1
<1>1. c \in Nat /\ c <= Len(memories) /\ Len(memories) \in Nat
  BY UnderIsFinite, Rows
<1>2. {memories[m].version : m \in Under(k)} = 1..c
  BY DEF VersionsInOrder
<1>3. \A m \in Under(k) : memories[m].version \in 1..c
  BY <1>2
<1>4. \A i \in 1..c : \E m \in Under(k) : memories[m].version = i
  BY <1>2
<1> HIDE DEF c
<1>5. IsNext(c + 1) /\ c + 1 \in 1..Len(memories) + 1
  <2>1. \A m \in Under(k) : memories[m].version < c + 1
    BY <1>1, <1>3
  <2>2. c + 1 = 1 \/ \E m \in Under(k) : memories[m].version = c + 1 - 1
    BY <1>1, <1>4
  <2> QED
    BY <1>1, <2>1, <2>2
<1>6. ASSUME NEW n \in 1..Len(memories) + 1, IsNext(n)
      PROVE  n = c + 1
  <2>1. \A i \in 1..c : i < n
    BY <1>4, <1>6
  <2>2. n = 1 \/ n - 1 \in 1..c
    BY <1>3, <1>6
  <2> QED
    BY <1>1, <2>1, <2>2
<1>7. NextVersion(k) = CHOOSE n \in 1..Len(memories) + 1 : IsNext(n)
  BY DEF NextVersion
<1> HIDE DEF IsNext
<1> QED
  BY <1>5, <1>6, <1>7 DEF c

-----------------------------------------------------------------------------
(* The row every operation that remembers something writes: the next       *)
(* version under its key, when nothing but m is active under it.           *)

Insert(k, c, m) ==
  /\ m = 0 \/ m \in Under(k)
  /\ \A x \in Under(k) \ {m} : ~memories[x].active
  /\ memories' = Append(IF m = 0 THEN memories ELSE Superseded(m, Len(memories) + 1),
                        NewMemory(k, c, Cardinality(Under(k)) + 1))

LEMMA SupersededRows ==
  ASSUME TypeOK, NEW m \in Ids, NEW new \in Nat
  PROVE  /\ Superseded(m, new) \in Seq(MemoryRow) /\ Len(Superseded(m, new)) = Len(memories)
         /\ \A x \in Ids : Superseded(m, new)[x] =
              IF x = m THEN [memories[m] EXCEPT !.active = FALSE, !.superseded = new]
              ELSE memories[x]
<1> DEFINE row == [memories[m] EXCEPT !.active = FALSE, !.superseded = new]
<1>1. memories \in Seq(MemoryRow) /\ memories[m] \in MemoryRow /\ Ids = 1..Len(memories)
  BY Rows
<1>2. row \in MemoryRow
  BY <1>1 DEF MemoryRow
<1>3. Superseded(m, new) = [memories EXCEPT ![m] = row]
  BY <1>1 DEF Superseded
<1> HIDE DEF row
<1>4. /\ [memories EXCEPT ![m] = row] \in Seq(MemoryRow)
      /\ Len([memories EXCEPT ![m] = row]) = Len(memories)
      /\ \A x \in 1..Len(memories) :
           [memories EXCEPT ![m] = row][x] = IF x = m THEN row ELSE memories[x]
  BY <1>1, <1>2, ExceptSeq
<1> QED
  BY <1>1, <1>3, <1>4 DEF row

LEMMA InsertEffect ==
  ASSUME TypeOK, NEW k \in Keys, NEW c \in Contents, NEW m, Insert(k, c, m)
  PROVE  LET new == Len(memories) + 1 IN
         /\ memories' \in Seq(MemoryRow) /\ Len(memories') = new /\ new \in Nat \ {0}
         /\ Ids' = Ids \cup {new} /\ new \notin Ids
         /\ memories'[new].key = k /\ memories'[new].content = c
         /\ memories'[new].version = Cardinality(Under(k)) + 1
         /\ memories'[new].active /\ memories'[new].superseded = 0
         /\ \A x \in Ids :
              /\ memories'[x].key = memories[x].key
              /\ memories'[x].content = memories[x].content
              /\ memories'[x].version = memories[x].version
              /\ memories'[x].active <=> memories[x].active /\ x # m
              /\ memories'[x].superseded = IF x = m THEN new ELSE memories[x].superseded
<1> DEFINE new == Len(memories) + 1
           n == Cardinality(Under(k)) + 1
           rows == IF m = 0 THEN memories ELSE Superseded(m, new)
           row == NewMemory(k, c, n)
<1>1. /\ memories \in Seq(MemoryRow) /\ Len(memories) \in Nat /\ Ids = 1..Len(memories)
      /\ new \in Nat \ {0} /\ new \notin Ids
      /\ \A x \in Ids : memories[x] \in MemoryRow
  BY Rows
<1>2. n \in Nat \ {0}
  BY UnderIsFinite
<1> HIDE DEF n
<1>3. row \in MemoryRow
  BY <1>2 DEF NewMemory, MemoryRow
<1>4. m = 0 \/ m \in Ids
  BY DEF Insert, Under
<1>5. /\ rows \in Seq(MemoryRow) /\ Len(rows) = Len(memories)
      /\ \A x \in Ids : rows[x] =
              IF x = m THEN [memories[m] EXCEPT !.active = FALSE, !.superseded = new]
              ELSE memories[x]
  <2>1. CASE m = 0
    <3>1. rows = memories /\ \A x \in Ids : x # m
      BY <1>1, <2>1
    <3> QED
      BY <1>1, <3>1
  <2>2. CASE m \in Ids
    <3>1. m # 0
      BY <1>1, <2>2
    <3>2. rows = Superseded(m, new)
      BY <3>1
    <3> HIDE DEF new, rows
    <3>3. new \in Nat
      BY <1>1
    <3>4. /\ Superseded(m, new) \in Seq(MemoryRow) /\ Len(Superseded(m, new)) = Len(memories)
          /\ \A x \in Ids : Superseded(m, new)[x] =
               IF x = m THEN [memories[m] EXCEPT !.active = FALSE, !.superseded = new]
               ELSE memories[x]
      BY <2>2, <3>3, SupersededRows
    <3> QED
      BY <3>2, <3>4
  <2> QED
    BY <1>4, <2>1, <2>2
<1>6. memories' = Append(rows, row)
  BY DEF Insert, n
<1> HIDE DEF rows, row
<1>7. /\ memories' \in Seq(MemoryRow) /\ Len(memories') = new
      /\ \A x \in Ids : memories'[x] = rows[x]
      /\ memories'[new] = row
  BY <1>1, <1>3, <1>5, <1>6
<1>8. Ids' = Ids \cup {new}
  <2>1. Ids' = 1..Len(memories')
    BY <1>7, LenProperties DEF Ids
  <2> QED
    BY <1>1, <1>7, <2>1
<1> HIDE DEF new
<1>9. ASSUME NEW x \in Ids
      PROVE  /\ memories'[x].key = memories[x].key
             /\ memories'[x].content = memories[x].content
             /\ memories'[x].version = memories[x].version
             /\ memories'[x].active <=> memories[x].active /\ x # m
             /\ memories'[x].superseded = IF x = m THEN new ELSE memories[x].superseded
  <2>1. memories[x] \in MemoryRow
    BY <1>1
  <2>2. memories'[x] = IF x = m THEN [memories[m] EXCEPT !.active = FALSE, !.superseded = new]
                       ELSE memories[x]
    BY <1>5, <1>7
  <2>3. CASE x # m
    BY <2>2, <2>3
  <2>4. CASE x = m
    BY <2>1, <2>2, <2>4 DEF MemoryRow
  <2> QED
    BY <2>3, <2>4
<1>10. /\ row.key = k /\ row.content = c /\ row.version = n /\ row.active
       /\ row.superseded = 0
  BY DEF row, NewMemory
<1> QED
  BY <1>1, <1>7, <1>8, <1>9, <1>10 DEF new, n

LEMMA UnderAfterInsert ==
  ASSUME TypeOK, NEW k \in Keys, NEW c \in Contents, NEW m, Insert(k, c, m)
  PROVE  /\ \A j \in Keys \ {k} : Under(j)' = Under(j)
         /\ Under(k)' = Under(k) \cup {Len(memories) + 1}
         /\ Cardinality(Under(k)') = Cardinality(Under(k)) + 1
<1> DEFINE new == Len(memories) + 1
<1>1. /\ Ids' = Ids \cup {new} /\ new \notin Ids /\ memories'[new].key = k
      /\ \A x \in Ids : memories'[x].key = memories[x].key
  BY InsertEffect
<1> HIDE DEF new
<1>2. \A j \in Keys : Under(j)' = {x \in Ids \cup {new} : memories'[x].key = j}
  BY <1>1 DEF Under
<1>3. \A j \in Keys : Under(j)' = IF j = k THEN Under(j) \cup {new} ELSE Under(j)
  BY <1>1, <1>2 DEF Under
<1>4. new \notin Under(k) /\ IsFiniteSet(Under(k))
  BY <1>1, UnderIsFinite DEF Under
<1>5. Cardinality(Under(k) \cup {new}) = Cardinality(Under(k)) + 1
  BY <1>4, FS_AddElement
<1> QED
  BY <1>3, <1>5 DEF new

LEMMA InsertKeepsVersions ==
  ASSUME TypeOK, VersionsInOrder, NEW k \in Keys, NEW c \in Contents, NEW m, Insert(k, c, m)
  PROVE  VersionsInOrder'
<1> DEFINE new == Len(memories) + 1
           n == Cardinality(Under(k)) + 1
<1>1. /\ Ids' = Ids \cup {new} /\ new \notin Ids /\ memories'[new].version = n
      /\ \A x \in Ids : memories'[x].version = memories[x].version
      /\ \A x \in Ids : x < new
  BY InsertEffect, Rows
<1>2. /\ \A j \in Keys \ {k} : Under(j)' = Under(j)
      /\ Under(k)' = Under(k) \cup {new} /\ Cardinality(Under(k)') = n
  BY UnderAfterInsert
<1>3. Cardinality(Under(k)) \in Nat
  BY UnderIsFinite
<1>4. \A j : Under(j) \subseteq Ids
  BY DEF Under
<1> SUFFICES ASSUME NEW j \in Keys
             PROVE  /\ {memories'[x].version : x \in Under(j)'} = 1..Cardinality(Under(j)')
                    /\ \A x, y \in Under(j)' : x < y => memories'[x].version < memories'[y].version
  BY DEF VersionsInOrder
<1>5. /\ {memories[x].version : x \in Under(j)} = 1..Cardinality(Under(j))
      /\ \A x, y \in Under(j) : x < y => memories[x].version < memories[y].version
  BY DEF VersionsInOrder
<1>6. {memories'[x].version : x \in Under(j)} = 1..Cardinality(Under(j))
  BY <1>1, <1>4, <1>5
<1>7. CASE j # k
  BY <1>1, <1>2, <1>4, <1>5, <1>6, <1>7
<1>8. CASE j = k
  <2>1. \A x \in Under(k) : memories'[x].version \in 1..Cardinality(Under(k))
    BY <1>6, <1>8
  <2>2. {memories'[x].version : x \in Under(k) \cup {new}}
          = {memories'[x].version : x \in Under(k)} \cup {n}
    BY <1>1
  <2>3. 1..n = (1..Cardinality(Under(k))) \cup {n}
    BY <1>3
  <2>4. {memories'[x].version : x \in Under(k)'} = 1..Cardinality(Under(k)')
    BY <1>2, <1>6, <1>8, <2>2, <2>3
  <2>5. ASSUME NEW x \in Under(k)', NEW y \in Under(k)', x < y
        PROVE  memories'[x].version < memories'[y].version
    <3>1. x \in Under(k)
      <4>1. new \in Nat /\ \A z \in Under(k) : z \in Nat /\ z < new
        BY <1>1, <1>4, InsertEffect, Rows
      <4> HIDE DEF new
      <4> QED
        BY <1>2, <2>5, <4>1
    <3>2. CASE y \in Under(k)
      BY <1>1, <1>4, <1>5, <1>8, <2>5, <3>1, <3>2
    <3>3. CASE y = new
      BY <1>1, <1>3, <2>1, <3>1, <3>3
    <3> QED
      BY <1>2, <3>2, <3>3
  <2> QED
    BY <1>8, <2>4, <2>5
<1> QED
  BY <1>7, <1>8

LEMMA InsertKeepsActive ==
  ASSUME TypeOK, VersionsInOrder, ActiveIsNewest,
         NEW k \in Keys, NEW c \in Contents, NEW m, Insert(k, c, m)
  PROVE  ActiveIsNewest'
<1> DEFINE new == Len(memories) + 1
           n == Cardinality(Under(k)) + 1
<1>1. /\ Ids' = Ids \cup {new} /\ new \notin Ids
      /\ memories'[new].version = n /\ memories'[new].key = k
      /\ \A x \in Ids : /\ memories'[x].version = memories[x].version
                        /\ memories'[x].key = memories[x].key
                        /\ memories'[x].active <=> memories[x].active /\ x # m
  BY InsertEffect
<1>2. /\ \A j \in Keys \ {k} : Under(j)' = Under(j)
      /\ Under(k)' = Under(k) \cup {new}
  BY UnderAfterInsert
<1>3. \A x \in Under(k) : memories[x].version < n
  <2>1. Cardinality(Under(k)) \in Nat
    BY UnderIsFinite
  <2>2. \A x \in Under(k) : memories[x].version \in 1..Cardinality(Under(k))
    BY DEF VersionsInOrder
  <2> QED
    BY <2>1, <2>2
<1>4. \A x \in Under(k) : x \in Ids /\ ~memories'[x].active
  BY <1>1 DEF Insert, Under
<1> HIDE DEF new, n
<1> SUFFICES ASSUME NEW x \in Ids', memories'[x].active,
                    NEW y \in Ids' \ {x}, memories'[y].key = memories'[x].key
             PROVE  ~memories'[y].active /\ memories'[y].version < memories'[x].version
  BY DEF ActiveIsNewest, Under
<1>5. CASE x = new
  <2>1. y \in Under(k)
    BY <1>1, <1>5 DEF Under
  <2> QED
    BY <1>1, <1>3, <1>4, <1>5, <2>1
<1>6. CASE x \in Ids
  <2>1. memories[x].active /\ memories[x].key \in Keys /\ x \in Under(memories[x].key)
    BY <1>1, <1>6, Rows DEF MemoryRow, Under
  <2>2. memories[x].key # k
    BY <1>4, <2>1
  <2>3. y \in Under(memories[x].key) \ {x} /\ y \in Ids
    BY <1>1, <1>2, <1>6, <2>1, <2>2 DEF Under
  <2> QED
    BY <1>1, <1>6, <2>1, <2>3 DEF ActiveIsNewest
<1> QED
  BY <1>1, <1>5, <1>6

\* What the trail gets with such a row: its creation, and the end of the row it replaces.
InsertEvents(m, p) ==
  {MemoryEvent("memory_created", Len(memories) + 1, p)}
    \cup IF m = 0 THEN {} ELSE {MemoryEvent("memory_superseded", m, p)}

LEMMA InsertKeepsTrail ==
  ASSUME TypeOK, VersionsInOrder, TrailExplainsMemories, NEW k \in Keys, NEW c \in Contents,
         NEW m, Insert(k, c, m), NEW p,
         NEW accepted \in SUBSET {MemoryEvent("candidate_accepted", Len(memories) + 1, p)},
         Record(InsertEvents(m, p) \cup accepted)
  PROVE  TrailExplainsMemories'
<1> DEFINE new == Len(memories) + 1
           n == Cardinality(Under(k)) + 1
           events == InsertEvents(m, p) \cup accepted
           About(t, event, x) == {e \in BagToSet(t) : e.event = event /\ e.memory = x}
<1>1. /\ BagToSet(trail') = BagToSet(trail) \cup events
      /\ \A e \in BagToSet(trail) \ events : trail'[e] = trail[e]
      /\ \A e \in events \ BagToSet(trail) : trail'[e] = 1
  BY RecordGrows DEF TypeOK
<1>2. /\ Ids' = Ids \cup {new} /\ new \notin Ids /\ new # 0
      /\ memories'[new].key = k /\ memories'[new].version = n /\ memories'[new].active
      /\ memories'[new].superseded = 0
      /\ \A x \in Ids :
           /\ memories'[x].key = memories[x].key
           /\ memories'[x].version = memories[x].version
           /\ memories'[x].active <=> memories[x].active /\ x # m
           /\ memories'[x].superseded = IF x = m THEN new ELSE memories[x].superseded
  BY InsertEffect
<1>3. \A e \in BagToSet(trail) : e.memory \in {0} \cup Ids
  BY DEF TypeOK
<1>4. /\ \A e \in events : /\ e.event \in {"memory_created", "memory_superseded", "candidate_accepted"}
                           /\ e.event = "memory_created" =>
                                e = MemoryEvent("memory_created", new, p) /\ e.memory = new
                           /\ e.event = "memory_superseded" => e.memory = m /\ m # 0
      /\ MemoryEvent("memory_created", new, p) \in events
      /\ m # 0 => MemoryEvent("memory_superseded", m, p) \in events
  BY DEF InsertEvents, MemoryEvent
<1>5. \A x, e : /\ MemoryEvent(e, x, p).event = e /\ MemoryEvent(e, x, p).memory = x
  BY DEF MemoryEvent
<1>6. m # 0 => m \in Ids /\ memories[m].key = k /\ memories[m].version < n
  <2>1. Cardinality(Under(k)) \in Nat
    BY UnderIsFinite
  <2>2. \A x \in Under(k) : memories[x].version \in 1..Cardinality(Under(k))
    BY DEF VersionsInOrder
  <2> QED
    BY <2>1, <2>2 DEF Insert, Under
<1> HIDE DEF new, n, events
<1> SUFFICES ASSUME NEW x \in Ids'
             PROVE  /\ \E e \in BagToSet(trail') :
                         About(trail', "memory_created", x) = {e} /\ trail'[e] = 1
                    /\ memories'[x].active <=> About(trail', "memory_archived", x)
                                               \cup About(trail', "memory_superseded", x) = {}
                    /\ (memories'[x].superseded # 0) <=> (About(trail', "memory_superseded", x) # {})
                    /\ memories'[x].superseded # 0 =>
                         /\ memories'[memories'[x].superseded].key = memories'[x].key
                         /\ memories'[memories'[x].superseded].version > memories'[x].version
  BY DEF TrailExplainsMemories
<1>7. CASE x = new
  <2> DEFINE e == MemoryEvent("memory_created", new, p)
  <2>1. About(trail', "memory_created", x) = {e}
    BY <1>1, <1>2, <1>3, <1>4, <1>5, <1>7
  <2>2. e \notin BagToSet(trail)
    BY <1>2, <1>3, <1>5
  <2>3. trail'[e] = 1 /\ e \in BagToSet(trail')
    BY <1>1, <1>4, <2>2
  <2>4. m # new
    BY <1>2, <1>6
  <2>5. About(trail', "memory_archived", x) = {} /\ About(trail', "memory_superseded", x) = {}
    BY <1>1, <1>2, <1>3, <1>4, <1>7, <2>4
  <2> QED
    BY <1>2, <1>7, <2>1, <2>3, <2>5
<1>8. CASE x \in Ids
  <2>1. /\ \E e \in BagToSet(trail) : About(trail, "memory_created", x) = {e} /\ trail[e] = 1
        /\ memories[x].active <=> About(trail, "memory_archived", x)
                                  \cup About(trail, "memory_superseded", x) = {}
        /\ (memories[x].superseded # 0) <=> (About(trail, "memory_superseded", x) # {})
        /\ memories[x].superseded # 0 =>
             /\ memories[memories[x].superseded].key = memories[x].key
             /\ memories[memories[x].superseded].version > memories[x].version
    BY <1>8 DEF TrailExplainsMemories
  <2>2. x # new
    BY <1>2, <1>8
  <2>3. \E e \in BagToSet(trail') : About(trail', "memory_created", x) = {e} /\ trail'[e] = 1
    <3>1. PICK e \in BagToSet(trail) : About(trail, "memory_created", x) = {e} /\ trail[e] = 1
      BY <2>1
    <3>2. About(trail', "memory_created", x) = {e}
      BY <1>1, <1>4, <2>2, <3>1
    <3>3. e \notin events /\ e \in BagToSet(trail')
      BY <1>1, <1>4, <2>2, <3>1
    <3> QED
      BY <1>1, <3>1, <3>2, <3>3
  <2>4. About(trail', "memory_archived", x) = About(trail, "memory_archived", x)
    BY <1>1, <1>4
  <2>5. CASE x # m
    <3>1. About(trail', "memory_superseded", x) = About(trail, "memory_superseded", x)
      BY <1>1, <1>4, <2>5
    <3>2. memories[x].superseded \in {0} \cup Ids
      BY <1>8 DEF TypeOK
    <3> QED
      BY <1>2, <1>8, <2>1, <2>3, <2>4, <2>5, <3>1, <3>2
  <2>6. CASE x = m
    <3>1. m # 0
      BY <1>8, <2>6, Rows
    <3>2. About(trail', "memory_superseded", x) # {}
      BY <1>1, <1>4, <1>5, <2>6, <3>1
    <3>3. memories[m].version \in Nat /\ n \in Nat
      BY <1>6, <3>1, Rows, UnderIsFinite DEF MemoryRow, n
    <3> QED
      BY <1>2, <1>6, <1>8, <2>3, <2>6, <3>1, <3>2, <3>3
  <2> QED
    BY <2>5, <2>6
<1> QED
  BY <1>2, <1>7, <1>8

-----------------------------------------------------------------------------
(* Steps that only read, and what any step leaves of the other handlers.   *)

\* Rows and candidates stay, keep their key, and the rows of a key do not become fewer.
TablesGrow ==
  /\ Ids \subseteq Ids' /\ \A m \in Ids : memories'[m].key = memories[m].key
  /\ Proposals \subseteq Proposals'
  /\ \A p \in Proposals : candidates'[p].key = candidates[p].key
  /\ \A k \in Keys : /\ Cardinality(Under(k)') \in Nat
                      /\ Cardinality(Under(k)) <= Cardinality(Under(k)')

LEMMA RequestsStay ==
  ASSUME MemoryInv, TablesGrow, TypeOK',
         request' = request \/ \E r \in Requests : request' = [request EXCEPT ![r] = NoRow]
  PROVE  RequestsOK'
<1>1. /\ request \in [Requests -> RequestType]
      /\ \A q \in Requests : RequestOK(request[q])
  BY DEF MemoryInv, RequestsOK
<1>2. NoRow \in RequestType
  BY DEF NoRow, RequestType
<1>3. request' \in [Requests -> RequestType]
  BY <1>1, <1>2
<1>4. Resolutions \subseteq {"rejected", "archived"}
  BY MemoryAssumption
<1>5. ASSUME NEW q \in Requests
      PROVE  RequestOK(request[q])'
  <2>1. CASE request'[q] = NoRow
    BY <2>1, <1>4 DEF NoRow, RequestOK
  <2>2. CASE request'[q] = request[q]
    <3> DEFINE s == request[q]
    <3>1. RequestOK(s) /\ s \in RequestType
      BY <1>1
    <3>2. /\ s.op \in {"create", "insert"} => s.key \in Keys
          /\ s.op \in {"revise", "archive"} => s.id \in Ids'
          /\ s.op \in {"accept"} \cup Resolutions => s.id \in Proposals'
          /\ s.op # "accept" => s.existing = 0
      BY <3>1 DEF RequestOK, TablesGrow
    <3>3. s.op = "insert" => s.version \in 1..Cardinality(Under(s.key)') + 1
      <4> SUFFICES ASSUME s.op = "insert", NEW k, k = s.key
                   PROVE  s.version \in 1..Cardinality(Under(k)') + 1
        BY <2>2
      <4> DEFINE before == Cardinality(Under(k))
                 after == Cardinality(Under(k)')
      <4>1. k \in Keys /\ s.version \in 1..before + 1
        BY <3>1 DEF RequestOK
      <4>2. after \in Nat /\ before <= after
        BY <4>1 DEF TablesGrow
      <4>3. before \in Nat
        BY UnderIsFinite DEF MemoryInv
      <4> HIDE DEF before, after
      <4> QED
        BY <4>1, <4>2, <4>3 DEF before, after
    <3>4. s.op = "accept" /\ s.existing # 0 =>
            s.existing \in Ids' /\ memories'[s.existing].key = candidates'[s.id].key
      BY <3>1 DEF RequestOK, TablesGrow, Under
    <3>5. s.op = "accept" => s.existing \in {0} \cup Under(candidates[s.id].key)'
      BY <2>2, <3>4 DEF Under
    <3> QED
      BY <2>2, <3>2, <3>3, <3>5 DEF RequestOK
  <2> QED
    BY <1>1, <2>1, <2>2
<1> QED
  BY <1>3, <1>5 DEF RequestsOK

LEMMA AcceptEffect ==
  ASSUME TypeOK, NEW p \in Proposals, NEW x \in Nat, Accepted(p, x)
  PROVE  /\ candidates' \in Seq(CandidateRow) /\ Proposals' = Proposals
         /\ \A q \in Proposals \ {p} : candidates'[q] = candidates[q]
         /\ candidates'[p].status = "accepted" /\ candidates'[p].memory = x
         /\ candidates'[p].key = candidates[p].key
         /\ candidates'[p].content = candidates[p].content
<1> DEFINE row == [candidates[p] EXCEPT !.status = "accepted", !.memory = x]
<1>1. candidates \in Seq(CandidateRow) /\ candidates[p] \in CandidateRow /\ Proposals = 1..Len(candidates)
  BY Rows
<1>2. /\ row \in CandidateRow /\ row.status = "accepted" /\ row.memory = x
      /\ row.key = candidates[p].key /\ row.content = candidates[p].content
  BY <1>1 DEF CandidateRow, Statuses
<1>3. candidates' = [candidates EXCEPT ![p] = row]
  BY <1>1 DEF Accepted
<1> HIDE DEF row
<1>4. /\ [candidates EXCEPT ![p] = row] \in Seq(CandidateRow)
      /\ Len([candidates EXCEPT ![p] = row]) = Len(candidates)
      /\ \A q \in 1..Len(candidates) :
           [candidates EXCEPT ![p] = row][q] = IF q = p THEN row ELSE candidates[q]
  BY <1>1, <1>2, ExceptSeq
<1>5. Proposals' = Proposals
  <2>1. Proposals' = 1..Len(candidates')
    BY <1>3, <1>4, LenProperties DEF Proposals
  <2> QED
    BY <1>1, <1>3, <1>4, <2>1
<1> QED
  BY <1>1, <1>2, <1>3, <1>4, <1>5

\* A handler that remembered something, and accepted candidate p with it or not.
LEMMA InsertKeeps ==
  ASSUME MemoryInv, NEW r \in Requests, NEW k \in Keys, NEW c \in Contents, NEW m,
         Insert(k, c, m), NEW p \in {0} \cup Proposals, NEW accepted,
         \/ accepted = {} /\ candidates' = candidates
         \/ /\ p # 0 /\ accepted = {MemoryEvent("candidate_accepted", Len(memories) + 1, p)}
            /\ Accepted(p, Len(memories) + 1)
            /\ candidates[p].key = k /\ candidates[p].content = c,
         Record(InsertEvents(m, p) \cup accepted), Finish(r)
  PROVE  MemoryInv'
<1> DEFINE new == Len(memories) + 1
           events == InsertEvents(m, p) \cup accepted
<1>0. TypeOK /\ VersionsInOrder /\ ActiveIsNewest /\ TrailExplainsMemories /\ DecisionsInTrail
  BY DEF MemoryInv
<1>1. /\ memories' \in Seq(MemoryRow) /\ new \in Nat \ {0}
      /\ Ids' = Ids \cup {new} /\ new \notin Ids
      /\ memories'[new].key = k /\ memories'[new].content = c /\ memories'[new].superseded = 0
      /\ \A x \in Ids :
           /\ memories'[x].key = memories[x].key /\ memories'[x].content = memories[x].content
           /\ memories'[x].superseded = IF x = m THEN new ELSE memories[x].superseded
  BY <1>0, InsertEffect
<1>2. VersionsInOrder' /\ ActiveIsNewest'
  BY <1>0, InsertKeepsVersions, InsertKeepsActive
<1>3. accepted \in SUBSET {MemoryEvent("candidate_accepted", new, p)}
  OBVIOUS
<1>4. TrailExplainsMemories'
  BY <1>0, <1>3, InsertKeepsTrail
<1>5. /\ IsABag(trail') /\ BagToSet(trail') = BagToSet(trail) \cup events
  BY <1>0, RecordGrows DEF TypeOK
<1>6. m = 0 \/ m \in Ids
  BY DEF Insert, Under
<1>7. \A e \in events : e.memory \in {new, m} /\ e.candidate = p
  BY DEF InsertEvents, MemoryEvent
<1>8. accepted # {} => MemoryEvent("candidate_accepted", new, p) \in events
  OBVIOUS
<1>9. /\ candidates' \in Seq(CandidateRow) /\ Proposals' = Proposals
      /\ \A q \in Proposals : /\ candidates'[q].key = candidates[q].key
                              /\ candidates'[q].content = candidates[q].content
      /\ \A q \in Proposals : candidates'[q] # candidates[q] =>
           /\ accepted # {} /\ q = p
           /\ candidates'[q].status = "accepted" /\ candidates'[q].memory = new
           /\ candidates[q].key = k /\ candidates[q].content = c
  <2>1. CASE candidates' = candidates
    BY <1>0, <2>1, Rows DEF Proposals
  <2>2. CASE candidates' # candidates
    <3>1. p \in Proposals /\ Accepted(p, new) /\ accepted # {}
      BY <2>2
    <3> HIDE DEF new
    <3>2. /\ candidates' \in Seq(CandidateRow) /\ Proposals' = Proposals
          /\ \A q \in Proposals \ {p} : candidates'[q] = candidates[q]
          /\ candidates'[p].status = "accepted" /\ candidates'[p].memory = new
          /\ candidates'[p].key = candidates[p].key
          /\ candidates'[p].content = candidates[p].content
      BY <1>0, <1>1, <3>1, AcceptEffect
    <3> QED
      BY <2>2, <3>1, <3>2
  <2> QED
    BY <2>1, <2>2
<1> HIDE DEF new, events
<1>10. TypeOK'
  <2>1. \A x \in Ids' : memories'[x].superseded \in {0} \cup Ids'
    BY <1>0, <1>1 DEF TypeOK
  <2>2. \A q \in Proposals' : candidates'[q].memory \in {0} \cup Ids'
    BY <1>0, <1>1, <1>9 DEF TypeOK
  <2>3. \A e \in BagToSet(trail') : e.memory \in {0} \cup Ids' /\ e.candidate \in {0} \cup Proposals'
    BY <1>0, <1>1, <1>5, <1>6, <1>7, <1>9 DEF TypeOK
  <2>4. \A q \in Requests : request'[q].existing \in {0} \cup Ids'
    BY <1>0, <1>1 DEF TypeOK, Finish, NoRow, MemoryInv, RequestsOK
  <2> QED
    BY <1>1, <1>5, <1>9, <2>1, <2>2, <2>3, <2>4 DEF TypeOK, MemoryRow, CandidateRow
<1>11. DecisionsInTrail'
  <2> SUFFICES ASSUME NEW q \in Proposals'
               PROVE  /\ candidates'[q].status = "accepted" =>
                           /\ candidates'[q].memory # 0
                           /\ memories'[candidates'[q].memory].key = candidates'[q].key
                           /\ memories'[candidates'[q].memory].content = candidates'[q].content
                           /\ MemoryEvent("candidate_accepted", candidates'[q].memory, q)
                                \in BagToSet(trail')
                      /\ candidates'[q].status \in {"rejected", "archived"} =>
                           MemoryEvent(DecisionEvent(candidates'[q].status), 0, q) \in BagToSet(trail')
                      /\ candidates'[q].status # "accepted" => candidates'[q].memory = 0
    BY DEF DecisionsInTrail, Fingerprint, InTrail, BagIn
  <2>1. CASE candidates'[q] # candidates[q]
    BY <1>1, <1>5, <1>8, <1>9, <2>1
  <2>2. CASE candidates'[q] = candidates[q]
    <3>1. /\ candidates[q].status = "accepted" =>
               /\ candidates[q].memory # 0
               /\ memories[candidates[q].memory].key = candidates[q].key
               /\ memories[candidates[q].memory].content = candidates[q].content
               /\ MemoryEvent("candidate_accepted", candidates[q].memory, q) \in BagToSet(trail)
          /\ candidates[q].status \in {"rejected", "archived"} =>
               MemoryEvent(DecisionEvent(candidates[q].status), 0, q) \in BagToSet(trail)
          /\ candidates[q].status # "accepted" => candidates[q].memory = 0
      BY <1>0, <1>9 DEF DecisionsInTrail, Fingerprint, InTrail, BagIn
    <3>2. candidates[q].memory \in {0} \cup Ids
      BY <1>0, <1>9 DEF TypeOK
    <3> QED
      BY <1>1, <1>5, <2>2, <3>1, <3>2
  <2> QED
    BY <2>1, <2>2
<1>12. TablesGrow
  <2>1. /\ \A j \in Keys \ {k} : Under(j)' = Under(j)
        /\ Cardinality(Under(k)') = Cardinality(Under(k)) + 1
    BY <1>0, UnderAfterInsert
  <2>2. \A j \in Keys : Cardinality(Under(j)) \in Nat
    BY <1>0, UnderIsFinite
  <2>3. \A j \in Keys : /\ Cardinality(Under(j)') \in Nat
                        /\ Cardinality(Under(j)) <= Cardinality(Under(j)')
    <3> TAKE j \in Keys
    <3>1. CASE j = k
      BY <2>1, <2>2, <3>1
    <3>2. CASE j # k
      <4>1. Cardinality(Under(j)') = Cardinality(Under(j))
        BY <2>1, <3>2
      <4> QED
        BY <2>2, <4>1
    <3> QED
      BY <3>1, <3>2
  <2> QED
    BY <1>1, <1>9, <2>3 DEF TablesGrow
<1>13. RequestsOK'
  BY <1>10, <1>12, RequestsStay DEF Finish
<1> QED
  BY <1>2, <1>4, <1>10, <1>11, <1>13 DEF MemoryInv

-----------------------------------------------------------------------------
(* The operations that remember something.                                 *)

LEMMA UniqueIndexes ==
  ASSUME MemoryInv, NEW k \in Keys, NEW n \in 1..Cardinality(Under(k)) + 1,
         Insertable(memories, k, n)
  PROVE  n = Cardinality(Under(k)) + 1 /\ \A x \in Under(k) : ~memories[x].active
<1>1. Cardinality(Under(k)) \in Nat
  BY UnderIsFinite DEF MemoryInv
<1>2. \A x \in Under(k) : ~memories[x].active /\ memories[x].version # n
  BY DEF Insertable, Under, Ids
<1>3. n \notin 1..Cardinality(Under(k))
  BY <1>2 DEF MemoryInv, VersionsInOrder
<1> QED
  BY <1>1, <1>2, <1>3

LEMMA CreateInserts ==
  ASSUME MemoryInv, NEW r \in Requests, CreateMemory(r)
  PROVE  \E k \in Keys, c \in Contents : Insert(k, c, 0)
<1> DEFINE k == request[r].key
           n == request[r].version
<1>1. k \in Keys /\ n \in 1..Cardinality(Under(k)) + 1 /\ Insertable(memories, k, n)
  BY DEF CreateMemory, MemoryInv, RequestsOK, RequestOK
<1>2. n = Cardinality(Under(k)) + 1 /\ \A x \in Under(k) : ~memories[x].active
  BY <1>1, UniqueIndexes
<1>3. PICK c \in Contents : memories' = Append(memories, NewMemory(k, c, n))
  BY DEF CreateMemory
<1>4. Insert(k, c, 0)
  BY <1>2, <1>3 DEF Insert
<1> HIDE DEF k
<1> QED
  BY <1>1, <1>4

LEMMA CreateKeeps ==
  ASSUME MemoryInv, NEW r \in Requests, CreateMemory(r)
  PROVE  MemoryInv'
<1>1. PICK k \in Keys, c \in Contents : Insert(k, c, 0)
  BY CreateInserts
<1>2. Record(InsertEvents(0, 0) \cup {}) /\ Finish(r) /\ candidates' = candidates
  BY DEF CreateMemory, InsertEvents
<1> QED
  BY <1>1, <1>2, InsertKeeps

\* The active row of a key has its highest version.
LEMMA ActiveIsLast ==
  ASSUME MemoryInv, NEW m \in Ids, memories[m].active
  PROVE  /\ memories[m].key \in Keys /\ m \in Under(memories[m].key)
         /\ memories[m].version = Cardinality(Under(memories[m].key))
         /\ \A x \in Under(memories[m].key) \ {m} : ~memories[x].active
<1> DEFINE k == memories[m].key
           c == Cardinality(Under(k))
<1>1. k \in Keys /\ m \in Under(k) /\ c \in Nat /\ memories[m].version \in Nat
  BY Rows, UnderIsFinite DEF MemoryInv, MemoryRow, Under
<1>2. \A x \in Under(k) \ {m} : ~memories[x].active /\ memories[x].version < memories[m].version
  BY DEF MemoryInv, ActiveIsNewest
<1>3. /\ memories[m].version \in 1..c
      /\ \A i \in 1..c : \E x \in Under(k) : memories[x].version = i
  BY <1>1 DEF MemoryInv, VersionsInOrder
<1>4. PICK x \in Under(k) : memories[x].version = c
  BY <1>1, <1>3
<1>5. memories[m].version = c
  BY <1>1, <1>2, <1>3, <1>4
<1> QED
  BY <1>1, <1>2, <1>5

LEMMA ReviseInserts ==
  ASSUME MemoryInv, NEW r \in Requests, ReviseMemory(r)
  PROVE  request[r].id # 0 /\ \E k \in Keys, c \in Contents : Insert(k, c, request[r].id)
<1> DEFINE m == request[r].id
           k == memories[m].key
           new == Len(memories) + 1
<1>1. m \in Ids /\ memories[m].active
  BY DEF ReviseMemory, MemoryInv, RequestsOK, RequestOK
<1>2. /\ k \in Keys /\ m \in Under(k) /\ memories[m].version = Cardinality(Under(k))
      /\ \A x \in Under(k) \ {m} : ~memories[x].active
  BY <1>1, ActiveIsLast
<1>3. PICK c \in Contents :
        memories' = Append(Superseded(m, new), NewMemory(k, c, memories[m].version + 1))
  BY DEF ReviseMemory
<1>4. m # 0
  BY <1>1, Rows DEF MemoryInv
<1>5. Insert(k, c, m)
  BY <1>2, <1>3, <1>4 DEF Insert
<1> HIDE DEF k
<1> QED
  BY <1>2, <1>4, <1>5

LEMMA ReviseKeeps ==
  ASSUME MemoryInv, NEW r \in Requests, ReviseMemory(r)
  PROVE  MemoryInv'
<1> DEFINE m == request[r].id
<1>1. PICK k \in Keys, c \in Contents : Insert(k, c, m)
  BY ReviseInserts
<1>2. Record(InsertEvents(m, 0) \cup {}) /\ Finish(r) /\ candidates' = candidates
  <2>1. InsertEvents(m, 0) \cup {} =
          {MemoryEvent("memory_superseded", m, 0), MemoryEvent("memory_created", Len(memories) + 1, 0)}
    BY ReviseInserts DEF InsertEvents
  <2> QED
    BY <2>1 DEF ReviseMemory
<1> HIDE DEF m
<1> QED
  BY <1>1, <1>2, InsertKeeps

LEMMA AcceptNewInserts ==
  ASSUME MemoryInv, NEW r \in Requests, AcceptNew(r)
  PROVE  LET p == request[r].id
             k == candidates[p].key
             c == candidates[p].content
         IN  /\ p \in Proposals /\ p # 0 /\ k \in Keys /\ c \in Contents
             /\ Insert(k, c, request[r].existing)
<1> DEFINE p == request[r].id
           m == request[r].existing
           k == candidates[p].key
           c == candidates[p].content
           new == Len(memories) + 1
           n == NextVersion(k)
           rows == IF m = 0 THEN memories ELSE Superseded(m, new)
<1>1. p \in Proposals /\ (m = 0 \/ m \in Under(k))
  BY DEF AcceptNew, MemoryInv, RequestsOK, RequestOK
<1>2. k \in Keys /\ c \in Contents /\ p # 0
  BY <1>1, Rows DEF MemoryInv, CandidateRow
<1>3. n = Cardinality(Under(k)) + 1
  BY <1>2, NextVersionCounts DEF MemoryInv
<1>4. Insertable(rows, k, n) /\ memories' = Append(rows, NewMemory(k, c, n))
  BY DEF AcceptNew
<1>5. \A x \in Under(k) \ {m} : ~memories[x].active
  <2>1. CASE m = 0
    BY <1>4, <2>1 DEF Insertable, Under, Ids
  <2>2. CASE m # 0
    <3>1. m \in Ids /\ rows = Superseded(m, new) /\ new \in Nat
      BY <1>1, <2>2, Rows DEF Under, MemoryInv
    <3> HIDE DEF new, rows
    <3>2. /\ DOMAIN rows = Ids
          /\ \A x \in Ids \ {m} : rows[x] = memories[x]
      <4>1. /\ rows \in Seq(MemoryRow) /\ Len(rows) = Len(memories)
            /\ \A x \in Ids : rows[x] =
                 IF x = m THEN [memories[m] EXCEPT !.active = FALSE, !.superseded = new]
                 ELSE memories[x]
        <5>1. /\ Superseded(m, new) \in Seq(MemoryRow)
              /\ Len(Superseded(m, new)) = Len(memories)
              /\ \A x \in Ids : Superseded(m, new)[x] =
                   IF x = m THEN [memories[m] EXCEPT !.active = FALSE, !.superseded = new]
                   ELSE memories[x]
          BY <3>1, SupersededRows DEF MemoryInv
        <5> QED
          BY <3>1, <5>1
      <4>2. DOMAIN rows = 1..Len(memories)
        BY <4>1, LenProperties
      <4>3. Ids = 1..Len(memories)
        BY Rows DEF MemoryInv
      <4> QED
        BY <4>1, <4>2, <4>3
    <3> QED
      BY <1>4, <3>2 DEF Insertable, Under
  <2> QED
    BY <2>1, <2>2
<1>6. Insert(k, c, m)
  BY <1>1, <1>3, <1>4, <1>5 DEF Insert
<1> QED
  BY <1>1, <1>2, <1>6

LEMMA AcceptNewKeeps ==
  ASSUME MemoryInv, NEW r \in Requests, AcceptNew(r)
  PROVE  MemoryInv'
<1> DEFINE p == request[r].id
           m == request[r].existing
           k == candidates[p].key
           c == candidates[p].content
           new == Len(memories) + 1
           accepted == {MemoryEvent("candidate_accepted", new, p)}
<1>1. p \in Proposals /\ p # 0 /\ k \in Keys /\ c \in Contents /\ Insert(k, c, m)
  BY AcceptNewInserts
<1>2. Record(InsertEvents(m, p) \cup accepted) /\ Finish(r) /\ Accepted(p, new)
  <2>1. InsertEvents(m, p) \cup accepted =
          {MemoryEvent("memory_created", new, p), MemoryEvent("candidate_accepted", new, p)}
            \cup IF m = 0 THEN {} ELSE {MemoryEvent("memory_superseded", m, p)}
    BY DEF InsertEvents
  <2> QED
    BY <2>1 DEF AcceptNew
<1> HIDE DEF k, c, m, p
<1> QED
  BY <1>1, <1>2, InsertKeeps DEF k, c

-----------------------------------------------------------------------------
(* The other operations.                                                   *)

\* A step that changes no row of memories and only adds events that are not about the life
\* of one: what the trail says of memories stays.
LEMMA TrailOfMemoriesKept ==
  ASSUME MemoryInv, memories' = memories, NEW events, Record(events),
         \A e \in events : e.event \notin {"memory_created", "memory_archived", "memory_superseded"}
  PROVE  VersionsInOrder' /\ ActiveIsNewest' /\ TrailExplainsMemories'
<1>1. /\ BagToSet(trail') = BagToSet(trail) \cup events
      /\ \A e \in BagToSet(trail) \ events : trail'[e] = trail[e]
  BY RecordGrows DEF MemoryInv, TypeOK
<1>2. \A j : Under(j)' = Under(j)
  BY DEF Under, Ids
<1>3. VersionsInOrder' /\ ActiveIsNewest'
  BY <1>2 DEF MemoryInv, VersionsInOrder, ActiveIsNewest, Ids
<1>4. \A x : \A event \in {"memory_created", "memory_archived", "memory_superseded"} :
        {e \in BagToSet(trail') : e.event = event /\ e.memory = x}
          = {e \in BagToSet(trail) : e.event = event /\ e.memory = x}
  BY <1>1
<1> DEFINE About(t, event, x) == {e \in BagToSet(t) : e.event = event /\ e.memory = x}
<1>5. ASSUME NEW x \in Ids
      PROVE  /\ \E e \in BagToSet(trail') : About(trail', "memory_created", x) = {e} /\ trail'[e] = 1
             /\ memories[x].active <=> About(trail', "memory_archived", x)
                                       \cup About(trail', "memory_superseded", x) = {}
             /\ (memories[x].superseded # 0) <=> (About(trail', "memory_superseded", x) # {})
             /\ memories[x].superseded # 0 =>
                  /\ memories[memories[x].superseded].key = memories[x].key
                  /\ memories[memories[x].superseded].version > memories[x].version
  <2>1. /\ \E e \in BagToSet(trail) : About(trail, "memory_created", x) = {e} /\ trail[e] = 1
        /\ memories[x].active <=> About(trail, "memory_archived", x)
                                  \cup About(trail, "memory_superseded", x) = {}
        /\ (memories[x].superseded # 0) <=> (About(trail, "memory_superseded", x) # {})
        /\ memories[x].superseded # 0 =>
             /\ memories[memories[x].superseded].key = memories[x].key
             /\ memories[memories[x].superseded].version > memories[x].version
    BY DEF MemoryInv, TrailExplainsMemories
  <2>2. /\ About(trail', "memory_created", x) = About(trail, "memory_created", x)
        /\ About(trail', "memory_archived", x) = About(trail, "memory_archived", x)
        /\ About(trail', "memory_superseded", x) = About(trail, "memory_superseded", x)
    BY <1>4
  <2>3. PICK e \in BagToSet(trail) : About(trail, "memory_created", x) = {e} /\ trail[e] = 1
    BY <2>1
  <2>4. e \notin events /\ e \in BagToSet(trail')
    BY <1>1, <2>3
  <2>5. trail'[e] = 1
    BY <1>1, <2>3, <2>4
  <2> QED
    BY <2>1, <2>2, <2>3, <2>4, <2>5
<1>6. TrailExplainsMemories'
  BY <1>5 DEF TrailExplainsMemories, Ids
<1> QED
  BY <1>3, <1>6

\* A step of candidates alone: whichever it changes has its reason in the same step.
LEMMA CandidateStepKeeps ==
  ASSUME MemoryInv, memories' = memories,
         request' = request \/ \E r \in Requests : request' = [request EXCEPT ![r] = NoRow],
         NEW events, Record(events),
         \A e \in events : /\ e.event \notin {"memory_created", "memory_archived", "memory_superseded"}
                           /\ e.memory \in {0} \cup Ids /\ e.candidate \in {0} \cup Proposals',
         candidates' \in Seq(CandidateRow), Proposals \subseteq Proposals',
         \A q \in Proposals : candidates'[q].key = candidates[q].key,
         \A q \in Proposals' : q \notin Proposals \/ candidates'[q] # candidates[q] =>
           /\ candidates'[q].memory \in {0} \cup Ids
           /\ candidates'[q].status = "accepted" =>
                /\ candidates'[q].memory # 0
                /\ Fingerprint(memories[candidates'[q].memory]) = Fingerprint(candidates'[q])
                /\ MemoryEvent("candidate_accepted", candidates'[q].memory, q) \in events
           /\ candidates'[q].status \in {"rejected", "archived"} =>
                MemoryEvent(DecisionEvent(candidates'[q].status), 0, q) \in events
           /\ candidates'[q].status # "accepted" => candidates'[q].memory = 0
  PROVE  MemoryInv'
<1>1. VersionsInOrder' /\ ActiveIsNewest' /\ TrailExplainsMemories'
  BY TrailOfMemoriesKept
<1>2. /\ IsABag(trail') /\ BagToSet(trail') = BagToSet(trail) \cup events
  BY RecordGrows DEF MemoryInv, TypeOK
<1>3. Ids' = Ids /\ \A k : Under(k)' = Under(k)
  BY DEF Ids, Under
<1>4. TypeOK'
  <2>1. \A q \in Proposals' : candidates'[q].memory \in {0} \cup Ids'
    BY <1>3 DEF MemoryInv, TypeOK
  <2>2. \A e \in BagToSet(trail') : e.memory \in {0} \cup Ids' /\ e.candidate \in {0} \cup Proposals'
    BY <1>2, <1>3 DEF MemoryInv, TypeOK
  <2>3. \A q \in Requests : request'[q].existing \in {0} \cup Ids'
    <3>1. \A q \in Requests : request'[q] = request[q] \/ request'[q] = NoRow
      BY DEF MemoryInv, RequestsOK
    <3>2. \A q \in Requests : request[q].existing \in {0} \cup Ids
      BY DEF MemoryInv, TypeOK
    <3>3. NoRow.existing = 0
      BY DEF NoRow
    <3> QED
      BY <1>3, <3>1, <3>2, <3>3
  <2>4. /\ memories' \in Seq(MemoryRow)
        /\ \A x \in Ids' : memories'[x].superseded \in {0} \cup Ids'
    BY <1>3 DEF MemoryInv, TypeOK, MemoryRow
  <2> QED
    BY <1>2, <2>1, <2>2, <2>3, <2>4 DEF TypeOK, MemoryRow, CandidateRow
<1>5. DecisionsInTrail'
  <2> SUFFICES ASSUME NEW q \in Proposals'
               PROVE  /\ candidates'[q].status = "accepted" =>
                           /\ candidates'[q].memory # 0
                           /\ Fingerprint(memories[candidates'[q].memory]) = Fingerprint(candidates'[q])
                           /\ MemoryEvent("candidate_accepted", candidates'[q].memory, q)
                                \in BagToSet(trail')
                      /\ candidates'[q].status \in {"rejected", "archived"} =>
                           MemoryEvent(DecisionEvent(candidates'[q].status), 0, q) \in BagToSet(trail')
                      /\ candidates'[q].status # "accepted" => candidates'[q].memory = 0
    BY DEF DecisionsInTrail, InTrail, BagIn, Fingerprint
  <2>1. CASE q \notin Proposals \/ candidates'[q] # candidates[q]
    BY <1>2, <2>1
  <2>2. CASE q \in Proposals /\ candidates'[q] = candidates[q]
    BY <1>2, <2>2 DEF MemoryInv, DecisionsInTrail, InTrail, BagIn
  <2> QED
    BY <2>1, <2>2
<1>6. TablesGrow
  <2>1. \A k : Cardinality(Under(k)) \in Nat
    BY UnderIsFinite DEF MemoryInv
  <2> QED
    BY <1>3, <2>1 DEF TablesGrow
<1>7. RequestsOK'
  BY <1>4, <1>6, RequestsStay
<1> QED
  BY <1>1, <1>4, <1>5, <1>7 DEF MemoryInv

LEMMA AcceptSameKeeps ==
  ASSUME MemoryInv, NEW r \in Requests, AcceptSame(r)
  PROVE  MemoryInv'
<1> DEFINE p == request[r].id
           m == request[r].existing
           events == {MemoryEvent("candidate_accepted", m, p)}
<1>1. p \in Proposals /\ m \in Ids /\ m # 0
  BY DEF AcceptSame, MemoryInv, RequestsOK, RequestOK, Under
<1>2. m \in Nat
  BY <1>1, Rows DEF MemoryInv
<1>3. /\ Fingerprint(memories[m]) = Fingerprint(candidates[p]) /\ Accepted(p, m)
      /\ Record(events) /\ request' = [request EXCEPT ![r] = NoRow] /\ memories' = memories
  BY DEF AcceptSame, Finish
<1>4. \A e \in events : e.event = "candidate_accepted" /\ e.memory = m /\ e.candidate = p
  BY DEF MemoryEvent
<1>5. MemoryEvent("candidate_accepted", m, p) \in events
  OBVIOUS
<1> HIDE DEF m, p, events
<1>6. /\ candidates' \in Seq(CandidateRow) /\ Proposals' = Proposals
      /\ \A q \in Proposals \ {p} : candidates'[q] = candidates[q]
      /\ candidates'[p].status = "accepted" /\ candidates'[p].memory = m
      /\ candidates'[p].key = candidates[p].key
      /\ candidates'[p].content = candidates[p].content
  BY <1>1, <1>2, <1>3, AcceptEffect DEF MemoryInv
<1>7. Fingerprint(candidates'[p]) = Fingerprint(memories[m])
  BY <1>3, <1>6 DEF Fingerprint
<1>8. \A q \in Proposals' : q \notin Proposals \/ candidates'[q] # candidates[q] =>
        /\ q = p /\ candidates'[q].memory = m /\ candidates'[q].status = "accepted"
  BY <1>6
<1> QED
  BY <1>1, <1>3, <1>4, <1>5, <1>6, <1>7, <1>8, CandidateStepKeeps

LEMMA DecideKeeps ==
  ASSUME MemoryInv, NEW r \in Requests, Decide(r)
  PROVE  MemoryInv'
<1> DEFINE p == request[r].id
           op == request[r].op
           events == {MemoryEvent(DecisionEvent(op), 0, p)}
           row == [candidates[p] EXCEPT !.status = op]
<1>1. /\ op \in Resolutions /\ op \in {"rejected", "archived"}
      /\ Record(events) /\ request' = [request EXCEPT ![r] = NoRow] /\ memories' = memories
      /\ candidates' = IF candidates[p].status = "pending"
                       THEN [candidates EXCEPT ![p].status = op] ELSE candidates
  BY MemoryAssumption DEF Decide, Finish
<1>2. p \in Proposals
  BY <1>1 DEF MemoryInv, RequestsOK, RequestOK
<1>3. /\ candidates \in Seq(CandidateRow) /\ candidates[p] \in CandidateRow
      /\ Proposals = 1..Len(candidates)
  BY <1>2, Rows DEF MemoryInv
<1>4. /\ row \in CandidateRow /\ row.status = op /\ row.memory = candidates[p].memory
      /\ row.key = candidates[p].key
  BY <1>1, <1>3 DEF CandidateRow, Statuses
<1>5. \A e \in events : /\ e.event \in {"candidate_rejected", "candidate_archived"}
                        /\ e.memory = 0 /\ e.candidate = p
  BY DEF MemoryEvent, DecisionEvent
<1>6. MemoryEvent(DecisionEvent(op), 0, p) \in events
  OBVIOUS
<1>7. [candidates EXCEPT ![p].status = op] = [candidates EXCEPT ![p] = row]
  BY <1>3
<1> HIDE DEF row, events, p, op
<1>8. /\ [candidates EXCEPT ![p] = row] \in Seq(CandidateRow)
      /\ Len([candidates EXCEPT ![p] = row]) = Len(candidates)
      /\ \A q \in 1..Len(candidates) :
           [candidates EXCEPT ![p] = row][q] = IF q = p THEN row ELSE candidates[q]
  BY <1>2, <1>3, <1>4, ExceptSeq
<1>9. /\ candidates' \in Seq(CandidateRow) /\ Len(candidates') = Len(candidates)
      /\ \A q \in Proposals : candidates'[q] # candidates[q] =>
           q = p /\ candidates[p].status = "pending" /\ candidates'[q] = row
  BY <1>1, <1>3, <1>7, <1>8
<1>10. Proposals' = Proposals
  <2>1. Proposals' = 1..Len(candidates')
    BY <1>9, LenProperties DEF Proposals
  <2> QED
    BY <1>3, <1>9, <2>1
<1>11. candidates[p].status = "pending" => candidates[p].memory = 0
  BY <1>2 DEF MemoryInv, DecisionsInTrail
<1>12. \A q \in Proposals : candidates'[q].key = candidates[q].key
  BY <1>4, <1>9
<1>13. \A q \in Proposals' : q \notin Proposals \/ candidates'[q] # candidates[q] =>
         q = p /\ candidates'[q].memory = 0 /\ candidates'[q].status = op
  BY <1>4, <1>9, <1>10, <1>11
<1> QED
  BY <1>1, <1>2, <1>5, <1>6, <1>9, <1>10, <1>12, <1>13, CandidateStepKeeps

LEMMA ProposeKeeps ==
  ASSUME MemoryInv, NEW k \in Keys, NEW c \in Contents,
         NEW rk \in RequestKeys \cup {NoKey}, ProposeMemory(k, c, rk)
  PROVE  MemoryInv'
<1> DEFINE new == Len(candidates) + 1
           row == [key |-> k, content |-> c, request |-> rk, status |-> "pending", memory |-> 0]
           events == {MemoryEvent("candidate_created", 0, new)}
<1>1. /\ candidates' = Append(candidates, row) /\ Record(events)
      /\ memories' = memories /\ request' = request
  BY DEF ProposeMemory
<1>2. /\ row \in CandidateRow /\ row.status = "pending" /\ row.memory = 0
  BY DEF CandidateRow, Statuses
<1>3. /\ candidates \in Seq(CandidateRow) /\ Len(candidates) \in Nat
      /\ Proposals = 1..Len(candidates)
  BY Rows DEF MemoryInv
<1> HIDE DEF row
<1>4. /\ candidates' \in Seq(CandidateRow) /\ Len(candidates') = new
      /\ \A q \in Proposals : candidates'[q] = candidates[q]
      /\ candidates'[new] = row
  BY <1>1, <1>2, <1>3
<1>5. Proposals' = Proposals \cup {new}
  <2>1. Proposals' = 1..Len(candidates')
    BY <1>4, LenProperties DEF Proposals
  <2> QED
    BY <1>3, <1>4, <2>1
<1>6. \A e \in events : e.event = "candidate_created" /\ e.memory = 0 /\ e.candidate = new
  BY DEF MemoryEvent
<1> HIDE DEF events, new
<1>7. \A q \in Proposals' : q \notin Proposals \/ candidates'[q] # candidates[q] =>
        candidates'[q].memory = 0 /\ candidates'[q].status = "pending"
  BY <1>2, <1>4, <1>5
<1> QED
  BY <1>1, <1>4, <1>5, <1>6, <1>7, CandidateStepKeeps

Archived(m) == memories[m].active /\ memories' = [memories EXCEPT ![m].active = FALSE]

LEMMA ArchiveEffect ==
  ASSUME TypeOK, NEW m \in Ids, Archived(m)
  PROVE  /\ memories' \in Seq(MemoryRow) /\ Ids' = Ids /\ \A k : Under(k)' = Under(k)
         /\ \A x \in Ids : /\ memories'[x].key = memories[x].key
                           /\ memories'[x].content = memories[x].content
                           /\ memories'[x].version = memories[x].version
                           /\ memories'[x].superseded = memories[x].superseded
                           /\ memories'[x].active <=> memories[x].active /\ x # m
<1> DEFINE row == [memories[m] EXCEPT !.active = FALSE]
<1>1. memories \in Seq(MemoryRow) /\ memories[m] \in MemoryRow /\ Ids = 1..Len(memories)
  BY Rows
<1>2. /\ row \in MemoryRow /\ ~row.active /\ row.key = memories[m].key
      /\ row.content = memories[m].content /\ row.version = memories[m].version
      /\ row.superseded = memories[m].superseded
  BY <1>1 DEF MemoryRow
<1>3. memories' = [memories EXCEPT ![m] = row]
  BY <1>1 DEF Archived
<1> HIDE DEF row
<1>4. /\ memories' \in Seq(MemoryRow) /\ Len(memories') = Len(memories)
      /\ \A x \in 1..Len(memories) : memories'[x] = IF x = m THEN row ELSE memories[x]
  BY <1>1, <1>2, <1>3, ExceptSeq
<1>5. Ids' = Ids
  <2>1. Ids' = 1..Len(memories')
    BY <1>4, LenProperties DEF Ids
  <2> QED
    BY <1>1, <1>4, <2>1
<1>6. \A x \in Ids : /\ memories'[x].key = memories[x].key
                     /\ memories'[x].content = memories[x].content
                     /\ memories'[x].version = memories[x].version
                     /\ memories'[x].superseded = memories[x].superseded
                     /\ memories'[x].active <=> memories[x].active /\ x # m
  BY <1>1, <1>2, <1>4
<1>7. \A k : Under(k)' = Under(k)
  BY <1>5, <1>6 DEF Under
<1> QED
  BY <1>4, <1>5, <1>6, <1>7

LEMMA ArchiveKeeps ==
  ASSUME MemoryInv, NEW r \in Requests, ArchiveMemory(r)
  PROVE  MemoryInv'
<1> DEFINE m == request[r].id
           event == MemoryEvent("memory_archived", m, 0)
           About(t, name, x) == {e \in BagToSet(t) : e.event = name /\ e.memory = x}
<1>0. TypeOK /\ VersionsInOrder /\ ActiveIsNewest /\ TrailExplainsMemories /\ DecisionsInTrail
  BY DEF MemoryInv
<1>1. /\ Archived(m)
      /\ Record({event}) /\ request' = [request EXCEPT ![r] = NoRow]
      /\ candidates' = candidates
  BY DEF ArchiveMemory, Archived, Finish
<1>2. m \in Ids
  BY DEF ArchiveMemory, MemoryInv, RequestsOK, RequestOK
<1>3. event.event = "memory_archived" /\ event.memory = m /\ event.candidate = 0
  BY DEF MemoryEvent
<1> HIDE DEF m, event
<1>4. memories' \in Seq(MemoryRow) /\ Ids' = Ids /\ \A k : Under(k)' = Under(k)
  BY <1>0, <1>1, <1>2, ArchiveEffect
<1>5. \A x \in Ids : /\ memories'[x].key = memories[x].key
                     /\ memories'[x].content = memories[x].content
                     /\ memories'[x].version = memories[x].version
                     /\ memories'[x].superseded = memories[x].superseded
                     /\ memories'[x].active <=> memories[x].active /\ x # m
  BY <1>0, <1>1, <1>2, ArchiveEffect
<1>6. /\ IsABag(trail') /\ BagToSet(trail') = BagToSet(trail) \cup {event}
       /\ \A e \in BagToSet(trail) \ {event} : trail'[e] = trail[e]
  BY <1>0, <1>1, RecordGrows DEF TypeOK
<1>7. TypeOK'
  <2>1. \A x \in Ids' : memories'[x].superseded \in {0} \cup Ids'
    BY <1>0, <1>4, <1>5 DEF TypeOK
  <2>2. /\ candidates' \in Seq(CandidateRow) /\ Proposals' = Proposals
        /\ \A q \in Proposals' : candidates'[q].memory \in {0} \cup Ids'
    BY <1>0, <1>1, <1>4 DEF TypeOK, Proposals, CandidateRow
  <2>3. \A e \in BagToSet(trail') : e.memory \in {0} \cup Ids' /\ e.candidate \in {0} \cup Proposals'
    BY <1>0, <1>2, <1>3, <1>4, <1>6, <2>2 DEF TypeOK
  <2>4. \A q \in Requests : request'[q].existing \in {0} \cup Ids'
    <3>1. \A q \in Requests : request'[q] = request[q] \/ request'[q] = NoRow
      BY <1>1 DEF MemoryInv, RequestsOK
    <3>2. \A q \in Requests : request[q].existing \in {0} \cup Ids
      BY <1>0 DEF TypeOK
    <3>3. NoRow.existing = 0
      BY DEF NoRow
    <3> QED
      BY <1>4, <3>1, <3>2, <3>3
  <2> QED
    BY <1>4, <1>6, <2>1, <2>2, <2>3, <2>4 DEF TypeOK, MemoryRow, CandidateRow
<1>8. VersionsInOrder'
  <2> SUFFICES ASSUME NEW k \in Keys
               PROVE  /\ {memories'[x].version : x \in Under(k)} = 1..Cardinality(Under(k))
                      /\ \A x, y \in Under(k) : x < y => memories'[x].version < memories'[y].version
    BY <1>4 DEF VersionsInOrder
  <2>1. /\ {memories[x].version : x \in Under(k)} = 1..Cardinality(Under(k))
        /\ \A x, y \in Under(k) : x < y => memories[x].version < memories[y].version
    BY <1>0 DEF VersionsInOrder
  <2>2. \A x \in Under(k) : memories'[x].version = memories[x].version
    BY <1>5 DEF Under
  <2> QED
    BY <2>1, <2>2
<1>9. ActiveIsNewest'
  <2> SUFFICES ASSUME NEW x \in Ids, memories'[x].active,
                      NEW y \in Ids \ {x}, memories'[y].key = memories'[x].key
               PROVE  ~memories'[y].active /\ memories'[y].version < memories'[x].version
    BY <1>4 DEF ActiveIsNewest, Under
  <2>1. memories[x].active /\ y \in Under(memories[x].key) \ {x}
    BY <1>5 DEF Under
  <2> QED
    BY <1>0, <1>5, <2>1 DEF ActiveIsNewest
<1>10. TrailExplainsMemories'
  <2>1. ASSUME NEW x \in Ids
        PROVE  /\ \E e \in BagToSet(trail') : About(trail', "memory_created", x) = {e} /\ trail'[e] = 1
               /\ memories'[x].active <=> About(trail', "memory_archived", x)
                                          \cup About(trail', "memory_superseded", x) = {}
               /\ (memories'[x].superseded # 0) <=> (About(trail', "memory_superseded", x) # {})
               /\ memories'[x].superseded # 0 =>
                    /\ memories'[memories'[x].superseded].key = memories'[x].key
                    /\ memories'[memories'[x].superseded].version > memories'[x].version
    <3>1. /\ \E e \in BagToSet(trail) : About(trail, "memory_created", x) = {e} /\ trail[e] = 1
          /\ memories[x].active <=> About(trail, "memory_archived", x)
                                    \cup About(trail, "memory_superseded", x) = {}
          /\ (memories[x].superseded # 0) <=> (About(trail, "memory_superseded", x) # {})
          /\ memories[x].superseded # 0 =>
               /\ memories[memories[x].superseded].key = memories[x].key
               /\ memories[memories[x].superseded].version > memories[x].version
      BY <1>0 DEF TrailExplainsMemories
    <3>2. /\ About(trail', "memory_created", x) = About(trail, "memory_created", x)
          /\ About(trail', "memory_superseded", x) = About(trail, "memory_superseded", x)
          /\ x # m => About(trail', "memory_archived", x) = About(trail, "memory_archived", x)
          /\ x = m => About(trail', "memory_archived", x) # {}
      BY <1>3, <1>6
    <3>3. PICK e \in BagToSet(trail) : About(trail, "memory_created", x) = {e} /\ trail[e] = 1
      BY <3>1
    <3>4. e \in BagToSet(trail') /\ e # event
      BY <1>3, <1>6, <3>3
    <3>5. trail'[e] = 1
      BY <1>6, <3>3, <3>4
    <3>6. memories[x].superseded \in {0} \cup Ids
      BY <1>0 DEF TypeOK
    <3>7. memories'[x].active <=> About(trail', "memory_archived", x)
                                  \cup About(trail', "memory_superseded", x) = {}
      BY <1>5, <3>1, <3>2
    <3> HIDE DEF About
    <3> QED
      BY <1>5, <3>1, <3>2, <3>3, <3>4, <3>5, <3>6, <3>7
  <2> QED
    BY <1>4, <2>1 DEF TrailExplainsMemories
<1>11. DecisionsInTrail'
  <2> SUFFICES ASSUME NEW q \in Proposals
               PROVE  /\ candidates[q].status = "accepted" =>
                           /\ candidates[q].memory # 0
                           /\ memories'[candidates[q].memory].key = candidates[q].key
                           /\ memories'[candidates[q].memory].content = candidates[q].content
                           /\ MemoryEvent("candidate_accepted", candidates[q].memory, q)
                                \in BagToSet(trail')
                      /\ candidates[q].status \in {"rejected", "archived"} =>
                           MemoryEvent(DecisionEvent(candidates[q].status), 0, q) \in BagToSet(trail')
                      /\ candidates[q].status # "accepted" => candidates[q].memory = 0
    BY <1>1 DEF DecisionsInTrail, Fingerprint, InTrail, BagIn, Proposals
  <2>1. /\ candidates[q].status = "accepted" =>
             /\ candidates[q].memory # 0
             /\ memories[candidates[q].memory].key = candidates[q].key
             /\ memories[candidates[q].memory].content = candidates[q].content
             /\ MemoryEvent("candidate_accepted", candidates[q].memory, q) \in BagToSet(trail)
        /\ candidates[q].status \in {"rejected", "archived"} =>
             MemoryEvent(DecisionEvent(candidates[q].status), 0, q) \in BagToSet(trail)
        /\ candidates[q].status # "accepted" => candidates[q].memory = 0
    BY <1>0 DEF DecisionsInTrail, Fingerprint, InTrail, BagIn
  <2>2. candidates[q].memory \in {0} \cup Ids
    BY <1>0 DEF TypeOK
  <2> QED
    BY <1>5, <1>6, <2>1, <2>2
<1>12. RequestsOK'
  <2>1. \A k : Cardinality(Under(k)) \in Nat
    BY <1>0, UnderIsFinite
  <2>2. TablesGrow
    BY <1>1, <1>4, <1>5, <2>1 DEF TablesGrow, Proposals
  <2> QED
    BY <1>1, <1>7, <2>2, RequestsStay
<1> QED
  BY <1>7, <1>8, <1>9, <1>10, <1>11, <1>12 DEF MemoryInv

\* A handler that has read something it may rely on.
LEMMA ReadKeeps ==
  ASSUME MemoryInv, NEW r \in Requests, NEW q \in RequestType, RequestOK(q),
         request' = [request EXCEPT ![r] = q], UNCHANGED <<memories, candidates, trail>>
  PROVE  MemoryInv'
<1>1. Ids' = Ids /\ Proposals' = Proposals /\ \A k : Under(k)' = Under(k)
  BY DEF Ids, Proposals, Under
<1>2. request' \in [Requests -> RequestType]
  BY DEF MemoryInv, RequestsOK
<1>3. \A s \in Requests : request'[s] = q \/ request'[s] = request[s]
  BY DEF MemoryInv, RequestsOK
<1>4. \A s \in Requests : RequestOK(request'[s])
  BY <1>3 DEF MemoryInv, RequestsOK
<1>5. RequestsOK'
  <2> SUFFICES ASSUME NEW s \in Requests
               PROVE  RequestOK(request[s])'
    BY <1>2 DEF RequestsOK
  <2> DEFINE t == request[s]
  <2>1. RequestOK(request'[s])
    BY <1>4
  <2> QED
    BY <1>1, <2>1 DEF RequestOK
<1>6. \A s \in Requests : request'[s].existing \in {0} \cup Ids
  <2>1. \A s \in Requests : request'[s].op = "accept" =>
          request'[s].existing \in {0} \cup Under(candidates[request'[s].id].key)
    BY <1>4 DEF RequestOK
  <2>2. \A s \in Requests : request'[s].op # "accept" => request'[s].existing = 0
    BY <1>4 DEF RequestOK
  <2> QED
    BY <2>1, <2>2 DEF Under
<1>7. TypeOK'
  BY <1>1, <1>6 DEF MemoryInv, TypeOK
<1>8. VersionsInOrder' /\ ActiveIsNewest' /\ TrailExplainsMemories' /\ DecisionsInTrail'
  BY <1>1 DEF MemoryInv, VersionsInOrder, ActiveIsNewest, TrailExplainsMemories,
              DecisionsInTrail, InTrail
<1> QED
  BY <1>5, <1>7, <1>8 DEF MemoryInv

LEMMA ReadsKeep ==
  ASSUME MemoryInv, NEW r \in Requests,
         \/ ReadForCreate(r) \/ ReadVersion(r) \/ ReadForChange(r)
         \/ ReadForAccept(r) \/ ReadForDecision(r)
  PROVE  MemoryInv'
<1>0. TypeOK /\ Resolutions \subseteq {"rejected", "archived"}
  BY MemoryAssumption DEF MemoryInv
<1>1. CASE ReadForCreate(r)
  <2>1. PICK k \in Keys : Read(r, [NoRow EXCEPT !.op = "create", !.key = k])
    BY <1>1 DEF ReadForCreate
  <2> DEFINE q == [NoRow EXCEPT !.op = "create", !.key = k]
  <2>2. q \in RequestType /\ q.op = "create" /\ q.key \in Keys /\ q.existing = 0
    BY DEF NoRow, RequestType
  <2> HIDE DEF q
  <2>3. RequestOK(q)
    BY <1>0, <2>2 DEF RequestOK
  <2> QED
    BY <2>1, <2>2, <2>3, ReadKeeps DEF Read, q
<1>2. CASE ReadVersion(r)
  <2> DEFINE k == request[r].key
             n == NextVersion(k)
             q == [request[r] EXCEPT !.op = "insert", !.version = n]
  <2>1. k \in Keys /\ request[r].existing = 0 /\ request[r] \in RequestType
    BY <1>2 DEF ReadVersion, MemoryInv, RequestsOK, RequestOK
  <2>2. n = Cardinality(Under(k)) + 1 /\ Cardinality(Under(k)) \in Nat
    BY <1>0, <2>1, NextVersionCounts, UnderIsFinite DEF MemoryInv
  <2>3. /\ request' = [request EXCEPT ![r] = q] /\ UNCHANGED <<memories, candidates, trail>>
    BY <1>2 DEF ReadVersion, MemoryInv, RequestsOK
  <2> n \in Nat
    BY <2>2
  <2> HIDE DEF n
  <2>4. /\ q \in RequestType /\ q.op = "insert" /\ q.key = k /\ q.version = n /\ q.existing = 0
    BY <2>1 DEF RequestType
  <2> HIDE DEF q, k
  <2>5. RequestOK(q)
    BY <1>0, <2>1, <2>2, <2>4 DEF RequestOK
  <2> QED
    BY <2>3, <2>4, <2>5, ReadKeeps
<1>3. CASE ReadForChange(r)
  <2>1. PICK m \in Ids, op \in {"revise", "archive"} : Read(r, [NoRow EXCEPT !.op = op, !.id = m])
    BY <1>3 DEF ReadForChange
  <2> DEFINE q == [NoRow EXCEPT !.op = op, !.id = m]
  <2> m \in Nat
    BY <1>0, Rows
  <2>2. q \in RequestType /\ q.op = op /\ q.id = m /\ q.existing = 0
    BY DEF NoRow, RequestType
  <2> HIDE DEF q
  <2>3. RequestOK(q)
    BY <1>0, <2>2 DEF RequestOK
  <2> QED
    BY <2>1, <2>2, <2>3, ReadKeeps DEF Read, q
<1>4. CASE ReadForAccept(r)
  <2>1. PICK p \in Proposals :
          \E m \in IF ActiveUnder(candidates[p].key) = {} THEN {0} ELSE ActiveUnder(candidates[p].key) :
            Read(r, [NoRow EXCEPT !.op = "accept", !.id = p, !.existing = m])
    BY <1>4 DEF ReadForAccept
  <2>2. PICK m \in {0} \cup Under(candidates[p].key) :
          Read(r, [NoRow EXCEPT !.op = "accept", !.id = p, !.existing = m])
    BY <2>1 DEF ActiveUnder
  <2> DEFINE q == [NoRow EXCEPT !.op = "accept", !.id = p, !.existing = m]
  <2>3. p \in Nat /\ m \in Nat
    BY <1>0, Rows DEF Under
  <2>4. q \in RequestType /\ q.op = "accept" /\ q.id = p /\ q.existing = m
    BY <2>3 DEF NoRow, RequestType
  <2> HIDE DEF q
  <2>5. RequestOK(q)
    BY <1>0, <2>4 DEF RequestOK
  <2> QED
    BY <2>2, <2>4, <2>5, ReadKeeps DEF Read, q
<1>5. CASE ReadForDecision(r)
  <2>1. PICK p \in Proposals, op \in Resolutions : Read(r, [NoRow EXCEPT !.op = op, !.id = p])
    BY <1>5 DEF ReadForDecision
  <2> DEFINE q == [NoRow EXCEPT !.op = op, !.id = p]
  <2> p \in Nat
    BY <1>0, Rows
  <2>2. q \in RequestType /\ q.op = op /\ q.id = p /\ q.existing = 0
    BY DEF NoRow, RequestType
  <2> HIDE DEF q
  <2>3. RequestOK(q)
    BY <1>0, <2>2 DEF RequestOK
  <2> QED
    BY <2>1, <2>2, <2>3, ReadKeeps DEF Read, q
<1> QED
  BY <1>1, <1>2, <1>3, <1>4, <1>5

LEMMA GiveUpKeeps ==
  ASSUME MemoryInv, NEW r \in Requests, GiveUp(r)
  PROVE  MemoryInv'
<1>1. NoRow \in RequestType /\ NoRow.op = "none" /\ NoRow.existing = 0
  BY DEF NoRow, RequestType
<1>2. RequestOK(NoRow)
  BY <1>1, MemoryAssumption DEF RequestOK
<1> QED
  BY <1>1, <1>2, ReadKeeps DEF GiveUp, Finish

LEMMA StutterKeeps ==
  ASSUME MemoryInv, UNCHANGED vars
  PROVE  MemoryInv'
<1>1. UNCHANGED <<memories, candidates, trail, request>>
  BY DEF vars
<1>2. Ids' = Ids /\ Proposals' = Proposals /\ \A k : Under(k)' = Under(k)
  BY <1>1 DEF Ids, Proposals, Under
<1>3. TypeOK'
  BY <1>1, <1>2 DEF MemoryInv, TypeOK
<1>4. VersionsInOrder' /\ ActiveIsNewest' /\ TrailExplainsMemories' /\ DecisionsInTrail'
  BY <1>1, <1>2 DEF MemoryInv, VersionsInOrder, ActiveIsNewest, TrailExplainsMemories,
                    DecisionsInTrail, InTrail
<1>5. RequestsOK'
  BY <1>1, <1>2 DEF MemoryInv, RequestsOK, RequestOK
<1> QED
  BY <1>3, <1>4, <1>5 DEF MemoryInv

LEMMA InitHolds ==
  ASSUME Init
  PROVE  MemoryInv
<1>1. /\ memories = <<>> /\ candidates = <<>> /\ trail = EmptyBag
      /\ request = [r \in Requests |-> NoRow]
  BY DEF Init
<1>2. Ids = {} /\ Proposals = {} /\ \A k : Under(k) = {}
  BY <1>1 DEF Ids, Proposals, Under
<1>3. IsABag(trail) /\ BagToSet(trail) = {}
  BY <1>1 DEF EmptyBag, SetToBag, IsABag, BagToSet
<1>4. /\ NoRow \in RequestType /\ NoRow.op = "none" /\ NoRow.existing = 0
      /\ "none" \notin Resolutions
  BY MemoryAssumption DEF NoRow, RequestType
<1>5. TypeOK
  <2>1. /\ memories \in Seq(MemoryRow) /\ candidates \in Seq(CandidateRow)
    BY <1>1, EmptySeq
  <2>2. \A r \in Requests : request[r].existing \in {0} \cup Ids
    BY <1>1, <1>4
  <2> QED
    BY <1>2, <1>3, <2>1, <2>2 DEF TypeOK, MemoryRow, CandidateRow
<1>6. VersionsInOrder
  BY <1>2, FS_EmptySet DEF VersionsInOrder
<1>7. RequestsOK
  BY <1>1, <1>4 DEF RequestsOK, RequestOK
<1> QED
  BY <1>2, <1>5, <1>6, <1>7
  DEF MemoryInv, ActiveIsNewest, TrailExplainsMemories, DecisionsInTrail

LEMMA NextKeeps ==
  ASSUME MemoryInv, [Next]_vars
  PROVE  MemoryInv'
<1>1. CASE UNCHANGED vars
  BY <1>1, StutterKeeps
<1>2. CASE Next
  BY <1>2, ProposeKeeps, ReadsKeep, CreateKeeps, ReviseKeeps, ArchiveKeeps, AcceptSameKeeps,
     AcceptNewKeeps, DecideKeeps, GiveUpKeeps
  DEF Next
<1> QED
  BY <1>1, <1>2

LEMMA MemoriesStayExplained == Spec => []MemoryInv
<1>1. Init => MemoryInv
  BY InitHolds
<1>2. MemoryInv /\ [Next]_vars => MemoryInv'
  BY NextKeeps
<1> QED
  BY <1>1, <1>2, PTL DEF Spec

\* Every state has its type, and every reference between rows points at one.
THEOREM MemoriesTyped == Spec => []TypeOK
<1>1. MemoryInv => TypeOK
  BY DEF MemoryInv
<1> QED
  BY <1>1, MemoriesStayExplained, PTL

\* The versions of a key, its one active row, every end of a row and every decision can be
\* read from the tables and the trail.
THEOREM KeysAreExplained == Spec => []KeysExplained
<1>1. MemoryInv => KeysExplained
  BY DEF MemoryInv, KeysExplained
<1> QED
  BY <1>1, MemoriesStayExplained, PTL

-----------------------------------------------------------------------------
(* What one step may do to the tables, and what follows for history and    *)
(* for the register of each key.                                           *)

LEMMA MemoriesChange ==
  ASSUME MemoryInv, [Next]_vars
  PROVE  \/ memories' = memories
         \/ \E k \in Keys, c \in Contents : \E m : Insert(k, c, m)
         \/ \E m \in Ids : Archived(m)
<1>1. ASSUME NEW r \in Requests, CreateMemory(r) \/ ReviseMemory(r) \/ AcceptNew(r)
      PROVE  \E k \in Keys, c \in Contents : \E m : Insert(k, c, m)
  BY <1>1, CreateInserts, ReviseInserts, AcceptNewInserts
<1>2. ASSUME NEW r \in Requests, ArchiveMemory(r)
      PROVE  \E m \in Ids : Archived(m)
  BY <1>2 DEF ArchiveMemory, Archived, MemoryInv, RequestsOK, RequestOK
<1>3. ASSUME NEW r \in Requests,
             \/ ReadForCreate(r) \/ ReadVersion(r) \/ ReadForChange(r) \/ ReadForAccept(r)
             \/ AcceptSame(r) \/ ReadForDecision(r) \/ Decide(r) \/ GiveUp(r)
      PROVE  memories' = memories
  BY <1>3 DEF ReadForCreate, ReadVersion, ReadForChange, ReadForAccept, AcceptSame,
              ReadForDecision, Decide, GiveUp, Read
<1>4. CASE UNCHANGED vars
  BY <1>4 DEF vars
<1> QED
  BY <1>1, <1>2, <1>3, <1>4 DEF Next, ProposeMemory

LEMMA TrailGrows ==
  ASSUME MemoryInv, [Next]_vars
  PROVE  trail \sqsubseteq trail'
<1>1. trail' = trail \/ \E events : Record(events)
  BY DEF Next, vars, ProposeMemory, ReadForCreate, ReadVersion, CreateMemory, ReadForChange,
         ReviseMemory, ArchiveMemory, ReadForAccept, AcceptSame, AcceptNew, ReadForDecision,
         Decide, GiveUp, Read
<1>2. IsABag(trail)
  BY DEF MemoryInv, TypeOK
<1>3. CASE trail' = trail
  BY <1>2, <1>3 DEF IsABag, \sqsubseteq
<1> QED
  BY <1>1, <1>2, <1>3, RecordGrows

LEMMA RowsAreHistory ==
  ASSUME MemoryInv, [Next]_vars, NEW m \in Ids
  PROVE  /\ memories'[m].key = memories[m].key /\ memories'[m].content = memories[m].content
         /\ memories'[m].version = memories[m].version
         /\ memories'[m].active => memories[m].active
<1>1. TypeOK
  BY DEF MemoryInv
<1>2. ASSUME NEW k \in Keys, NEW c \in Contents, NEW x, Insert(k, c, x)
      PROVE  /\ memories'[m].key = memories[m].key /\ memories'[m].content = memories[m].content
             /\ memories'[m].version = memories[m].version
             /\ memories'[m].active => memories[m].active
  BY <1>1, <1>2, InsertEffect
<1>3. ASSUME NEW x \in Ids, Archived(x)
      PROVE  /\ memories'[m].key = memories[m].key /\ memories'[m].content = memories[m].content
             /\ memories'[m].version = memories[m].version
             /\ memories'[m].active => memories[m].active
  BY <1>1, <1>3, ArchiveEffect
<1> QED
  BY <1>2, <1>3, MemoriesChange

LEMMA DecisionsAreKept ==
  ASSUME MemoryInv, [Next]_vars, NEW p \in Proposals, candidates[p].status # "pending"
  PROVE  candidates'[p] = candidates[p]
<1>0. TypeOK /\ candidates \in Seq(CandidateRow) /\ Proposals = 1..Len(candidates)
  BY Rows DEF MemoryInv
<1>1. CASE candidates' = candidates
  BY <1>1
<1>2. ASSUME NEW k \in Keys, NEW c \in Contents, NEW rk \in RequestKeys \cup {NoKey},
             ProposeMemory(k, c, rk)
      PROVE  candidates'[p] = candidates[p]
  <2> DEFINE row == [key |-> k, content |-> c, request |-> rk, status |-> "pending", memory |-> 0]
  <2>1. candidates' = Append(candidates, row) /\ row \in CandidateRow
    BY <1>2 DEF ProposeMemory, CandidateRow, Statuses
  <2> HIDE DEF row
  <2> QED
    BY <1>0, <2>1
<1>3. ASSUME NEW q \in Proposals, NEW x \in Nat, Accepted(q, x)
      PROVE  candidates'[p] = candidates[p]
  BY <1>0, <1>3, AcceptEffect DEF Accepted
<1>4. ASSUME NEW r \in Requests, Decide(r)
      PROVE  candidates'[p] = candidates[p]
  BY <1>0, <1>4 DEF Decide
<1>5. ASSUME NEW r \in Requests, AcceptSame(r)
      PROVE  candidates'[p] = candidates[p]
  <2>1. request[r].id \in Proposals /\ request[r].existing \in Ids
    BY <1>5 DEF AcceptSame, MemoryInv, RequestsOK, RequestOK, Under
  <2>2. Accepted(request[r].id, request[r].existing) /\ request[r].existing \in Nat
    BY <1>0, <1>5, <2>1, Rows DEF AcceptSame
  <2> QED
    BY <2>1, <2>2, <1>3
<1>6. ASSUME NEW r \in Requests, AcceptNew(r)
      PROVE  candidates'[p] = candidates[p]
  <2>1. request[r].id \in Proposals
    BY <1>6 DEF AcceptNew, MemoryInv, RequestsOK, RequestOK
  <2>2. Accepted(request[r].id, Len(memories) + 1) /\ Len(memories) + 1 \in Nat
    BY <1>0, <1>6, Rows DEF AcceptNew
  <2> QED
    BY <2>1, <2>2, <1>3
<1>7. CASE Next
  <2>1. \/ candidates' = candidates
        \/ \E k \in Keys, c \in Contents, rk \in RequestKeys \cup {NoKey} : ProposeMemory(k, c, rk)
        \/ \E r \in Requests : Decide(r) \/ AcceptSame(r) \/ AcceptNew(r)
    BY <1>7 DEF Next, ReadForCreate, ReadVersion, CreateMemory, ReadForChange,
         ReviseMemory, ArchiveMemory, ReadForAccept, ReadForDecision, GiveUp, Read
  <2> QED
    BY <2>1, <1>1, <1>2, <1>4, <1>5, <1>6
<1> QED
  BY <1>1, <1>7 DEF vars

\* A decided candidate stays as it is, and a row of memories says the same for good and
\* does not come back, whatever read it before.
THEOREM DecisionsHold == Spec => DecisionsStand
<1>1. MemoryInv /\ [Next]_vars =>
        \A p \in Proposals : candidates[p].status # "pending" => candidates'[p] = candidates[p]
  BY DecisionsAreKept
<1>2. MemoryInv /\ [Next]_vars =>
        /\ \A m \in Ids : \A f \in {"key", "content", "version"} :
             memories'[m][f] = memories[m][f]
        /\ \A m \in Ids : memories'[m].active => memories[m].active
        /\ trail \sqsubseteq trail'
  BY RowsAreHistory, TrailGrows
<1> QED
  BY <1>1, <1>2, MemoriesStayExplained, PTL DEF Spec, DecisionsStand, DecidedStays, HistoryKept

-----------------------------------------------------------------------------
(* The register of each key.                                               *)

version == [k \in Keys |-> Cardinality(Under(k))]

content == [k \in Keys |-> IF ActiveUnder(k) = {} THEN Nothing
                           ELSE memories[CHOOSE m \in ActiveUnder(k) : TRUE].content]

LEMMA RegisterUnchanged ==
  ASSUME memories' = memories
  PROVE  version' = version /\ content' = content
BY DEF version, content, Under, ActiveUnder, Ids

LEMMA InsertRemembers ==
  ASSUME TypeOK, NEW k \in Keys, NEW c \in Contents, NEW m, Insert(k, c, m)
  PROVE  Register!Remember(k)
<1> DEFINE new == Len(memories) + 1
<1>1. /\ Ids' = Ids \cup {new} /\ new \notin Ids
      /\ memories'[new].content = c /\ memories'[new].active
      /\ \A x \in Ids : /\ memories'[x].content = memories[x].content
                        /\ memories'[x].active <=> memories[x].active /\ x # m
  BY InsertEffect
<1>2. /\ \A j \in Keys \ {k} : Under(j)' = Under(j)
      /\ Under(k)' = Under(k) \cup {new} /\ Cardinality(Under(k)') = Cardinality(Under(k)) + 1
  BY UnderAfterInsert
<1>3. /\ m = 0 \/ m \in Under(k)
      /\ \A x \in Under(k) \ {m} : ~memories[x].active
  BY DEF Insert
<1> HIDE DEF new
<1>4. version' = [version EXCEPT ![k] = version[k] + 1]
  BY <1>2 DEF version
<1>5. ActiveUnder(k)' = {new}
  BY <1>1, <1>2, <1>3 DEF ActiveUnder, Under
<1>6. \A j \in Keys \ {k} : ActiveUnder(j)' = ActiveUnder(j)
  <2> TAKE j \in Keys \ {k}
  <2>1. m \notin Under(j) \/ m = 0
    BY <1>3 DEF Under
  <2>2. \A x \in Under(j) : x \in Ids /\ x # m
    BY <2>1, Rows DEF Under
  <2> QED
    BY <1>1, <1>2, <2>2 DEF ActiveUnder
<1>7. content' = [content EXCEPT ![k] = c]
  <2>1. content'[k] = c
    BY <1>1, <1>5 DEF content
  <2>2. \A j \in Keys \ {k} : content'[j] = content[j]
    <3> TAKE j \in Keys \ {k}
    <3>1. CASE ActiveUnder(j) = {}
      BY <1>6, <3>1 DEF content
    <3>2. CASE ActiveUnder(j) # {}
      <4> DEFINE x == CHOOSE y \in ActiveUnder(j) : TRUE
      <4>1. x \in Ids
        BY <3>2 DEF ActiveUnder, Under
      <4>2. content'[j] = memories'[x].content /\ content[j] = memories[x].content
        BY <1>6, <3>2 DEF content
      <4> QED
        BY <1>1, <4>1, <4>2
    <3> QED
      BY <3>1, <3>2
  <2>3. DOMAIN content = Keys /\ content' = [j \in Keys |-> content'[j]]
    BY DEF content
  <2> QED
    BY <2>1, <2>2, <2>3
<1> QED
  BY <1>4, <1>7 DEF Register!Remember, version, content

LEMMA ArchiveForgets ==
  ASSUME MemoryInv, NEW m \in Ids, Archived(m)
  PROVE  Register!Forget(memories[m].key)
<1> DEFINE k == memories[m].key
<1>0. TypeOK /\ memories[m] \in MemoryRow /\ k \in Keys /\ memories[m].active
  BY Rows DEF MemoryInv, Archived, MemoryRow
<1>1. /\ m \in Under(k) /\ \A x \in Under(k) \ {m} : ~memories[x].active
  BY <1>0, ActiveIsLast
<1>2. ActiveUnder(k) = {m}
  BY <1>0, <1>1 DEF ActiveUnder
<1>3. /\ \A j : Under(j)' = Under(j)
      /\ \A x \in Ids : /\ memories'[x].content = memories[x].content
                        /\ memories'[x].active <=> memories[x].active /\ x # m
  BY <1>0, ArchiveEffect
<1>4. version' = version
  BY <1>3 DEF version
<1>5. \A x \in Under(k) : x \in Ids /\ ~memories'[x].active
  BY <1>1, <1>3 DEF Under
<1>6. \A j \in Keys \ {k} : ActiveUnder(j)' = ActiveUnder(j)
  BY <1>3 DEF ActiveUnder, Under
<1>7. content[k] # Nothing
  <2>1. content[k] = memories[m].content
    BY <1>0, <1>2 DEF content
  <2> QED
    BY <1>0, <2>1, MemoryAssumption DEF MemoryRow
<1>8. content' = [content EXCEPT ![k] = Nothing]
  <2>1. PICK j : j = k
    OBVIOUS
  <2>2. ActiveUnder(j)' = {}
    BY <1>3, <1>5, <2>1 DEF ActiveUnder
  <2>3. content'[j] = Nothing /\ j \in Keys
    BY <1>0, <2>1, <2>2 DEF content
  <2>4. \A i \in Keys \ {j} : content'[i] = content[i]
    <3> TAKE i \in Keys \ {j}
    <3>1. CASE ActiveUnder(i) = {}
      BY <1>6, <2>1, <3>1 DEF content
    <3>2. CASE ActiveUnder(i) # {}
      <4> DEFINE x == CHOOSE y \in ActiveUnder(i) : TRUE
      <4>1. x \in Ids
        BY <3>2 DEF ActiveUnder, Under
      <4>2. content'[i] = memories'[x].content /\ content[i] = memories[x].content
        BY <1>6, <2>1, <3>2 DEF content
      <4> QED
        BY <1>3, <4>1, <4>2
    <3> QED
      BY <3>1, <3>2
  <2>5. DOMAIN content = Keys /\ content' = [i \in Keys |-> content'[i]]
    BY DEF content
  <2>6. content' = [content EXCEPT ![j] = Nothing]
    BY <2>3, <2>4, <2>5
  <2> QED
    BY <2>1, <2>6
<1> QED
  BY <1>4, <1>7, <1>8 DEF Register!Forget, version, content

\* Every commit writes the register of one key as a whole or none at all, however old what
\* its handler had read.
THEOREM ImplementsTheRegister == Spec => ImplementsRegister
<1>1. Init => Register!RegisterInit
  <2> SUFFICES ASSUME Init PROVE Register!RegisterInit
    OBVIOUS
  <2>1. \A k \in Keys : Under(k) = {} /\ ActiveUnder(k) = {}
    BY DEF Init, Under, ActiveUnder, Ids
  <2> QED
    BY <2>1, FS_EmptySet DEF Register!RegisterInit
<1>2. MemoryInv /\ [Next]_vars => [Register!RegisterNext]_<<version, content>>
  <2> SUFFICES ASSUME MemoryInv, [Next]_vars
               PROVE  [Register!RegisterNext]_<<version, content>>
    OBVIOUS
  <2>1. CASE memories' = memories
    BY <2>1, RegisterUnchanged
  <2>2. ASSUME NEW k \in Keys, NEW c \in Contents, NEW m, Insert(k, c, m)
        PROVE  Register!RegisterNext
    BY <2>2, InsertRemembers DEF MemoryInv, Register!RegisterNext
  <2>3. ASSUME NEW m \in Ids, Archived(m)
        PROVE  Register!RegisterNext
    <3>1. memories[m].key \in Keys
      BY Rows DEF MemoryInv, MemoryRow
    <3> QED
      BY <2>3, <3>1, ArchiveForgets DEF Register!RegisterNext
  <2> QED
    BY <2>1, <2>2, <2>3, MemoriesChange
<1>3. <<version, content>> = <<[k \in Keys |-> Cardinality(Under(k))],
        [k \in Keys |-> IF ActiveUnder(k) = {} THEN Nothing
                        ELSE memories[CHOOSE m \in ActiveUnder(k) : TRUE].content]>>
  BY DEF version, content
<1> QED
  BY <1>1, <1>2, MemoriesStayExplained, PTL
     DEF Spec, ImplementsRegister, Register!RegisterSpec, version, content
=============================================================================
