----------------------------- MODULE Backups_proofs -----------------------------
(***************************************************************************)
(* That retention keeps what it should, the status check is right and a    *)
(* restore leaves a sound file, for any number of jobs and any room.       *)
(*                                                                         *)
(* Modification times number the copies, so how many files are newer than  *)
(* a file follows from its time alone, and a listing says what must go     *)
(* although files come and go while it is acted upon.                      *)
(***************************************************************************)
EXTENDS Backups, FiniteSetTheorems, WellFoundedInduction, TLAPS

Unplaced == {"idle", "copy", "verify", "place"}
Unwritten == {"inspect", "manifest"}
Written == {"list", "sort", "remove", "unmanifest", "log", "succeeded"}
Removing == {"remove", "unmanifest"}
Broken == {"failed", "killed"}

\* The file of j was in the directory at some time.
Placed(j) == mtime[j] # 0 /\ pc[j] \notin Unplaced

\* What each stage of a job knows of its own file and of those it will remove.
StageInv ==
  \A j \in Jobs :
    /\ pc[j] \in {"idle", "copy"} => mtime[j] = 0
    /\ pc[j] \in (Active \ {"copy"}) \cup {"succeeded"} => mtime[j] # 0
    /\ Exists(j) => Placed(j)
    /\ manifest[j] # NoFile => pc[j] \notin Unplaced \cup Unwritten
    /\ pc[j] = "place" => Sound(temp[j])
    /\ pc[j] \in Written /\ Exists(j) => manifest[j] # NoFile
    /\ pc[j] = "manifest" => seen[j].content # NoFile
    /\ pc[j] \in Removing => seen[j].doomed # {}
    /\ pc[j] = "unmanifest" =>
         \E d \in seen[j].doomed :
           ~Exists(d) /\ \A x \in seen[j].doomed : mtime[x] <= mtime[d]
    /\ pc[j] = "sort" => \A x \in seen[j].found : Placed(x)
    /\ pc[j] \in Removing => \A x \in seen[j].doomed : Placed(x)
    /\ events[j] = "succeeded" => pc[j] = "succeeded"

\* A file holds what was verified, unless it was damaged since, and its manifest
\* vouches for that.
ContentInv ==
  \A j \in Jobs :
    /\ file[j] \in {NoFile, Torn} \/ Sound(file[j])
    /\ damage.rots = 0 =>
         /\ file[j] # Torn
         /\ pc[j] = "manifest" /\ Exists(j) => seen[j].content = file[j]
         /\ Exists(j) /\ manifest[j] # NoFile => manifest[j] = file[j]

\* The copies are numbered.
Copies == Cardinality(Copied)

TimesInv ==
  /\ \A j \in Jobs : mtime[j] <= Copies
  /\ \A i, j \in Copied : mtime[i] = mtime[j] => i = j

\* A file that is gone, or will go, was among the too many.
GoneInv ==
  /\ \A j \in Copied : pc[j] \notin Broken \cup {"verify", "place"} /\ ~Exists(j)
                          => mtime[j] + room.keep <= Copies
  /\ \A k \in Jobs : pc[k] \in Removing =>
       \A d \in seen[k].doomed : mtime[d] + room.keep <= Copies

\* A file among the too many will be removed: by a job that has yet to list the
\* directory, or by one that has listed it and found as many newer ones.
Handles(k, j) ==
  \/ pc[k] \in {"verify", "place", "inspect", "manifest", "list"}
  \/ pc[k] = "sort" /\ j \in TooMany(seen[k].found)
  \/ pc[k] \in Removing /\ j \in seen[k].doomed

DropInv ==
  (\A k \in Jobs : pc[k] \notin Broken) =>
    \A j \in BackupFiles : mtime[j] + room.keep <= Copies => \E k \in Jobs : Handles(k, j)

\* Files with a manifest, and files that will never have one.
Complete == {j \in BackupFiles : manifest[j] # NoFile}
Bare == {j \in BackupFiles : manifest[j] = NoFile /\ pc[j] \in Broken}
Working == {j \in Jobs : pc[j] \in Active}

CountInv ==
  /\ Cardinality(Bare) <= damage.kills + damage.faults
  /\ Cardinality(Working) <= room.active

\* A job that is alone has the newest file, and nobody removes it.
AloneInv ==
  room.active <= 1 =>
    \A k \in Jobs : pc[k] \in Active \ {"copy"} =>
      /\ \A i \in Jobs : mtime[i] <= mtime[k]
      /\ pc[k] \in {"inspect", "manifest", "list", "sort"} => Exists(k)

\* Of the files with a manifest, one is newer than all a job will remove.
Since(files, m) == {x \in files : mtime[x] >= mtime[m]}

SurviveInv ==
  FewWithoutManifest =>
    \A k \in Jobs :
      /\ pc[k] \in Written => Complete # {}
      /\ pc[k] \in Unwritten /\ ~Exists(k) => Complete # {}
      /\ pc[k] = "sort" =>
           \E m \in Complete : Cardinality(Since(seen[k].found, m)) <= room.keep
      /\ pc[k] \in Removing => \E m \in Complete : \A d \in seen[k].doomed : mtime[d] < mtime[m]

\* What the restore command has checked of what it carries.
RestoreInv ==
  /\ restore.stage \in {"check", "vouch", "copy"} => restore.from \in Jobs
  /\ restore.stage \in {"unlink", "replace"} => Sound(restore.temp)
  /\ RestoreSound

\* The inductive invariant.
BackupsInv ==
  /\ TypeOK /\ StageInv /\ ContentInv /\ TimesInv /\ GoneInv /\ DropInv
  /\ CountInv /\ AloneInv /\ SurviveInv /\ RestoreInv

-----------------------------------------------------------------------------
(* Numbers.                                                                *)

\* Where n things have different numbers from 1 to n, n - m have one above m.
LEMMA CountAbove ==
  ASSUME NEW S, IsFiniteSet(S), NEW f \in [S -> 1..Cardinality(S)],
         \A x, y \in S : f[x] = f[y] => x = y,
         NEW m \in 0..Cardinality(S)
  PROVE  Cardinality({x \in S : f[x] > m}) = Cardinality(S) - m
<1> DEFINE n == Cardinality(S)
           A == {x \in S : f[x] > m}
           B == S \ A
<1>1. n \in Nat /\ m \in Nat /\ m <= n
  BY FS_CardinalityType
<1>2. IsFiniteSet(A) /\ IsFiniteSet(B) /\ Cardinality(A) \in Nat /\ Cardinality(B) \in Nat
  BY FS_Subset, FS_CardinalityType
<1>3. Cardinality(A) + Cardinality(B) = n
  <2>1. S \cap A = A
    OBVIOUS
  <2>2. Cardinality(B) = n - Cardinality(A)
    BY <2>1, FS_Difference
  <2> QED
    BY <1>1, <1>2, <2>2
<1>4. Cardinality(A) <= n - m
  <2> DEFINE g == [x \in A |-> f[x]]
             T == m + 1 .. n
  <2>1. g \in [A -> T] /\ \A x, y \in A : g[x] = g[y] => x = y
    BY <1>1
  <2>2. IsFiniteSet(T) /\ Cardinality(T) = n - m
    BY <1>1, FS_Interval, SMTT(30)
  <2>3. g \in Injection(A, T)
    BY <2>1 DEF Injection, IsInjective
  <2> HIDE DEF g, T, A
  <2> QED
    BY <2>2, <2>3, FS_Injection
<1>5. Cardinality(B) <= m
  <2> DEFINE g == [x \in B |-> f[x]]
             T == 1 .. m
  <2>1. g \in [B -> T] /\ \A x, y \in B : g[x] = g[y] => x = y
    BY <1>1
  <2>2. IsFiniteSet(T) /\ Cardinality(T) = m
    BY <1>1, FS_Interval
  <2>3. g \in Injection(B, T)
    BY <2>1 DEF Injection, IsInjective
  <2> HIDE DEF g, T, B
  <2> QED
    BY <2>2, <2>3, FS_Injection
<1> HIDE DEF A, B
<1>6. Cardinality(A) = n - m
  BY <1>1, <1>2, <1>3, <1>4, <1>5
<1> QED
  BY <1>6 DEF A

LEMMA RoomIs ==
  ASSUME room \in BackupRooms
  PROVE  /\ room.keep \in Nat \ {0} /\ room.active \in Nat /\ room.kills \in Nat
         /\ room.faults \in Nat /\ room.rots \in Nat
BY BackupsAssumption

LEMMA JobSets ==
  ASSUME NEW S, S \subseteq Jobs
  PROVE  IsFiniteSet(S) /\ Cardinality(S) \in Nat
BY BackupsAssumption, FS_Subset, FS_CardinalityType

LEMMA SmallerSet ==
  ASSUME NEW S, S \subseteq Jobs, NEW T, T \subseteq S
  PROVE  Cardinality(T) <= Cardinality(S)
BY JobSets, FS_Subset

LEMMA CopiedIs ==
  ASSUME TypeOK
  PROVE  /\ Copied \subseteq Jobs /\ IsFiniteSet(Copied) /\ Copies \in Nat
         /\ \A j \in Jobs : mtime[j] \in Nat
BY JobSets DEF Copied, Copies, TypeOK

\* How many files are newer follows from the time alone.
LEMMA NewerCount ==
  ASSUME TypeOK, TimesInv, NEW j \in Copied
  PROVE  /\ mtime[j] \in 1..Copies
         /\ Cardinality(Newer(Copied, j)) = Copies - mtime[j]
<1> DEFINE f == [x \in Copied |-> mtime[x]]
<1>1. \A x \in Copied : mtime[x] \in 1..Copies
  BY CopiedIs DEF TimesInv, Copied
<1>2. f \in [Copied -> 1..Cardinality(Copied)]
  BY <1>1 DEF Copies
<1>3. \A x, y \in Copied : f[x] = f[y] => x = y
  BY DEF TimesInv
<1>4. mtime[j] \in 0..Cardinality(Copied)
  BY <1>1 DEF Copies
<1>5. Newer(Copied, j) = {x \in Copied : f[x] > mtime[j]}
  BY DEF Newer
<1> HIDE DEF f
<1>6. Cardinality({x \in Copied : f[x] > mtime[j]}) = Cardinality(Copied) - mtime[j]
  BY <1>2, <1>3, <1>4, CopiedIs, CountAbove
<1> QED
  BY <1>1, <1>5, <1>6 DEF Copies

\* What is among the too many of a listing is, by its time, among the too many.
LEMMA TooManyIsOld ==
  ASSUME TypeOK, TimesInv, NEW files, files \subseteq Copied, NEW j \in TooMany(files)
  PROVE  j \in Copied /\ mtime[j] + room.keep <= Copies
<1>1. j \in Copied /\ Cardinality(Newer(files, j)) >= room.keep
  BY DEF TooMany
<1>2. Newer(files, j) \subseteq Newer(Copied, j) /\ Newer(Copied, j) \subseteq Jobs
  BY CopiedIs DEF Newer
<1>3. /\ Cardinality(Newer(files, j)) <= Cardinality(Newer(Copied, j))
      /\ Cardinality(Newer(files, j)) \in Nat
  BY <1>2, SmallerSet, JobSets
<1>4. /\ mtime[j] \in Nat /\ Copies \in Nat /\ room.keep \in Nat
      /\ Cardinality(Newer(Copied, j)) = Copies - mtime[j]
  BY <1>1, CopiedIs, NewerCount, RoomIs DEF TypeOK
<1> QED
  BY <1>1, <1>3, <1>4

\* And the other way round where the newest of all are there.
LEMMA OldIsTooMany ==
  ASSUME TypeOK, TimesInv, NEW files, NEW j \in files, files \subseteq Copied,
         mtime[j] + room.keep <= Copies,
         \A i \in Copied : mtime[i] + room.keep > Copies => i \in files
  PROVE  j \in TooMany(files)
<1>1. room.keep \in Nat \ {0} /\ Copies \in Nat /\ \A i \in Copied : mtime[i] \in Nat
  BY CopiedIs, RoomIs DEF TypeOK
<1> DEFINE f == [x \in Copied |-> mtime[x]]
           m == Copies - room.keep
           T == {x \in Copied : f[x] > m}
<1>2. m \in 0..Cardinality(Copied) /\ mtime[j] <= m
  BY <1>1 DEF Copies
<1>3. /\ f \in [Copied -> 1..Cardinality(Copied)]
      /\ \A x, y \in Copied : f[x] = f[y] => x = y
  BY NewerCount DEF TimesInv, Copies
<1>4. T \subseteq Newer(files, j)
  BY <1>1, <1>2 DEF Newer
<1>5. Cardinality(T) = Cardinality(Copied) - m
  <2> HIDE DEF f, m
  <2> QED
    BY <1>2, <1>3, CopiedIs, CountAbove
<1>6. Cardinality(T) = room.keep
  BY <1>1, <1>5 DEF Copies
<1>7. Newer(files, j) \subseteq Jobs
  BY CopiedIs DEF Newer
<1>8. Cardinality(T) <= Cardinality(Newer(files, j)) /\ Cardinality(Newer(files, j)) \in Nat
  <2> HIDE DEF T
  <2> QED
    BY <1>4, <1>7, SmallerSet, JobSets
<1> HIDE DEF T
<1>9. Cardinality(Newer(files, j)) >= room.keep
  BY <1>1, <1>6, <1>8
<1> QED
  BY <1>9 DEF TooMany

LEMMA NewestExists ==
  ASSUME TypeOK, TimesInv, NEW S, S \subseteq Jobs, S # {}
  PROVE  \E m \in S : \A x \in S : mtime[x] <= mtime[m]
<1>1. Copies \in Nat /\ \A x \in S : mtime[x] \in Nat /\ mtime[x] <= Copies
  BY CopiedIs DEF TimesInv
<1> DEFINE R == {Copies - mtime[x] : x \in S}
           Less == OpToRel(<, Nat)
<1>2. R \subseteq Nat /\ R # {}
  BY <1>1
<1>3. PICK r \in R : \A y \in R : <<y, r>> \notin Less
  <2>1. IsWellFoundedOn(Less, Nat)
    BY NatLessThanWellFounded
  <2> HIDE DEF Less, R
  <2> QED
    BY <1>2, <2>1, WFMin
<1>4. \A y \in R : ~(y < r)
  BY <1>2, <1>3 DEF OpToRel
<1>5. PICK m \in S : r = Copies - mtime[m]
  BY <1>3
<1>6. \A x \in S : ~(Copies - mtime[x] < Copies - mtime[m])
  BY <1>4, <1>5
<1> QED
  BY <1>1, <1>6

LEMMA NextIs ==
  ASSUME TypeOK, TimesInv, NEW S, S \subseteq Jobs, S # {}
  PROVE  NextOf(S) \in S /\ \A x \in S : mtime[x] <= mtime[NextOf(S)]
<1>1. PICK m \in S : \A x \in S : mtime[x] <= mtime[m]
  BY NewestExists
<1>2. \A x \in S : mtime[x] \in Nat
  BY CopiedIs
<1>3. Newer(S, m) = {}
  BY <1>1, <1>2 DEF Newer
<1>4. NextOf(S) \in S /\ Newer(S, NextOf(S)) = {}
  BY <1>3 DEF NextOf
<1> QED
  BY <1>2, <1>4 DEF Newer

-----------------------------------------------------------------------------
(* Types, and what a restore carries.                                      *)

\* A step of a job, a failure or a kill of one, or damage to its file.
JobStep(j) == Backup(j) \/ Fault(j) \/ Kill(j) \/ Rot(j)

LEMMA NextSplits ==
  ASSUME Next
  PROVE  (\E j \in Jobs : JobStep(j)) \/ Restoring \/ WriteLive
BY DEF Next, JobStep

LEMMA RemovalIs ==
  ASSUME TypeOK, TimesInv, StageInv, NEW j \in Jobs, pc[j] \in Removing
  PROVE  /\ NextOf(seen[j].doomed) \in seen[j].doomed
         /\ NextOf(seen[j].doomed) \in Jobs
         /\ \A x \in seen[j].doomed : mtime[x] <= mtime[NextOf(seen[j].doomed)]
<1>1. seen[j].doomed \subseteq Jobs /\ seen[j].doomed # {}
  BY DEF TypeOK, StageInv
<1> QED
  BY <1>1, NextIs

SeenRow == [content : Versions \cup {NoFile, Torn}, found : SUBSET Jobs, doomed : SUBSET Jobs]

\* A change of one field of what a job has seen.
LEMMA SeenContent ==
  ASSUME TypeOK, NEW j \in Jobs, NEW c, c \in Versions \cup {NoFile, Torn},
         seen' = [seen EXCEPT ![j].content = c]
  PROVE  /\ seen' \in [Jobs -> SeenRow]
         /\ seen'[j].content = c /\ seen'[j].found = seen[j].found
         /\ seen'[j].doomed = seen[j].doomed
         /\ \A i \in Jobs \ {j} : seen'[i] = seen[i]
<1>1. seen \in [Jobs -> SeenRow]
  BY DEF TypeOK, SeenRow
<1> QED
  BY <1>1 DEF SeenRow

LEMMA SeenFound ==
  ASSUME TypeOK, NEW j \in Jobs, NEW f, f \subseteq Jobs,
         seen' = [seen EXCEPT ![j].found = f]
  PROVE  /\ seen' \in [Jobs -> SeenRow]
         /\ seen'[j].content = seen[j].content /\ seen'[j].found = f
         /\ seen'[j].doomed = seen[j].doomed
         /\ \A i \in Jobs \ {j} : seen'[i] = seen[i]
<1>1. seen \in [Jobs -> SeenRow]
  BY DEF TypeOK, SeenRow
<1> QED
  BY <1>1 DEF SeenRow

LEMMA SeenDoomed ==
  ASSUME TypeOK, NEW j \in Jobs, NEW d, d \subseteq Jobs,
         seen' = [seen EXCEPT ![j].doomed = d]
  PROVE  /\ seen' \in [Jobs -> SeenRow]
         /\ seen'[j].content = seen[j].content /\ seen'[j].found = seen[j].found
         /\ seen'[j].doomed = d
         /\ \A i \in Jobs \ {j} : seen'[i] = seen[i]
<1>1. seen \in [Jobs -> SeenRow]
  BY DEF TypeOK, SeenRow
<1> QED
  BY <1>1 DEF SeenRow

\* Where a job ends in the except clause, and where it goes on.
PcTypes ==
  /\ pc' \in [Jobs -> Active \cup JobEnded \cup {"idle"}]
  /\ temp' \in [Jobs -> Versions \cup {NoFile}]
  /\ events' \in [Jobs -> {"none", "failed", "succeeded"}]

LEMMA FailTypes ==
  ASSUME TypeOK, NEW j \in Jobs, FailJob(j)
  PROVE  PcTypes
BY DEF TypeOK, FailJob, Goto, JobEnded, PcTypes

LEMMA GotoTypes ==
  ASSUME TypeOK, NEW j \in Jobs, NEW s \in Active, Goto(j, s), temp' = temp, events' = events
  PROVE  PcTypes
BY DEF TypeOK, Goto, PcTypes

LEMMA JobTypes ==
  ASSUME TypeOK, TimesInv, StageInv, NEW j \in Jobs, JobStep(j)
  PROVE  TypeOK'
<1>0. Copies \in Nat /\ BackupFiles \subseteq Jobs /\ \A x \in Jobs : TooMany(seen[x].found) \subseteq Jobs
  BY CopiedIs DEF BackupFiles, TooMany, TypeOK
<1>1. CASE Start(j)
  BY <1>1 DEF Start, Goto, TypeOK, Active
<1>2. CASE Copy(j)
  <2>1. mtime' \in [Jobs -> Nat]
    BY <1>0, <1>2 DEF Copy, TypeOK, Copies
  <2> QED
    BY <1>2, <2>1 DEF Copy, Goto, TypeOK, Active
<1>3. CASE Verify(j)
  <2>1. PcTypes
    BY <1>3, FailTypes, GotoTypes DEF Verify, Active
  <2> QED
    BY <1>3, <2>1 DEF Verify, TypeOK, PcTypes
<1>4. CASE Place(j)
  BY <1>4 DEF Place, Goto, TypeOK, Active
<1>5. CASE Inspect(j)
  <2>1. seen' \in [Jobs -> SeenRow]
    <3>1. file[j] \in Versions \cup {NoFile, Torn} /\ seen \in [Jobs -> SeenRow]
      BY DEF TypeOK, SeenRow
    <3> QED
      BY <1>5, <3>1, SeenContent DEF Inspect
  <2>2. PcTypes
    BY <1>5, FailTypes, GotoTypes DEF Inspect, Active
  <2> QED
    BY <1>5, <2>1, <2>2 DEF Inspect, TypeOK, PcTypes, SeenRow
<1>6. CASE WriteManifest(j)
  BY <1>6 DEF WriteManifest, Goto, TypeOK, Active
<1>7. CASE List(j)
  <2>1. seen' \in [Jobs -> SeenRow]
    BY <1>0, <1>7, SeenFound DEF List
  <2> QED
    BY <1>7, <2>1 DEF List, Goto, TypeOK, Active, SeenRow
<1>8. CASE Sort(j)
  <2>1. seen' \in [Jobs -> SeenRow]
    <3>1. seen \in [Jobs -> SeenRow]
      BY DEF TypeOK, SeenRow
    <3>2. CASE seen' = [seen EXCEPT ![j].doomed = TooMany(seen[j].found)]
      BY <1>0, <3>2, SeenDoomed
    <3> QED
      BY <1>8, <3>1, <3>2 DEF Sort
  <2>2. PcTypes
    <3>1. CASE FailJob(j)
      BY <3>1, FailTypes
    <3>2. CASE ~FailJob(j)
      <4> DEFINE s == IF TooMany(seen[j].found) # {} THEN "remove" ELSE "log"
      <4>1. s \in Active /\ Goto(j, s) /\ temp' = temp /\ events' = events
        BY <1>8, <3>2 DEF Sort, Active
      <4> QED
        BY <4>1, GotoTypes
    <3> QED
      BY <3>1, <3>2
  <2> QED
    BY <1>8, <2>1, <2>2 DEF Sort, TypeOK, PcTypes, SeenRow
<1>9. CASE RemoveBackup(j)
  BY <1>9 DEF RemoveBackup, Goto, TypeOK, Active
<1>10. CASE RemoveManifest(j)
  <2>1. seen' \in [Jobs -> SeenRow]
    <3>1. seen' = [seen EXCEPT ![j].doomed = seen[j].doomed \ {NextOf(seen[j].doomed)}]
      BY <1>10 DEF RemoveManifest
    <3>2. seen[j].doomed \ {NextOf(seen[j].doomed)} \subseteq Jobs
      BY DEF TypeOK
    <3> QED
      BY <3>1, <3>2, SeenDoomed
  <2> QED
    BY <1>10, <2>1 DEF RemoveManifest, Goto, TypeOK, Active, SeenRow
<1>11. CASE Log(j)
  BY <1>11 DEF Log, Goto, TypeOK, JobEnded
<1>12. CASE Fault(j)
  <2>1. damage' \in [kills : 0..room.kills, faults : 0..room.faults, rots : 0..room.rots]
    BY <1>12, RoomIs DEF Fault, TypeOK
  <2> QED
    BY <1>12, <2>1 DEF Fault, FailJob, Goto, TypeOK, JobEnded
<1>13. CASE Kill(j)
  <2>1. damage' \in [kills : 0..room.kills, faults : 0..room.faults, rots : 0..room.rots]
    BY <1>13, RoomIs, SMTT(30) DEF Kill, TypeOK
  <2> QED
    BY <1>13, <2>1 DEF Kill, Goto, TypeOK, JobEnded
<1>14. CASE Rot(j)
  <2>1. damage' \in [kills : 0..room.kills, faults : 0..room.faults, rots : 0..room.rots]
    BY <1>14, RoomIs DEF Rot, TypeOK
  <2> QED
    BY <1>14, <2>1 DEF Rot, TypeOK
<1> QED
  BY <1>1, <1>2, <1>3, <1>4, <1>5, <1>6, <1>7, <1>8, <1>9, <1>10, <1>11, <1>12, <1>13, <1>14
     DEF JobStep, Backup

RestoreRow == [stage : {"idle", "check", "vouch", "copy", "verify", "unlink",
                        "replace", "done", "refused"},
               from : Jobs \cup {NoJob}, strict : BOOLEAN, over : BOOLEAN,
               temp : Versions \cup {NoFile, Torn}]

\* A restore, and a write of the application, touch no backup.
OnlyRestore ==
  /\ pc' = pc /\ temp' = temp /\ file' = file /\ manifest' = manifest /\ mtime' = mtime
  /\ seen' = seen /\ events' = events /\ room' = room
  /\ \/ damage' = damage
     \/ damage.kills < room.kills /\ damage' = [damage EXCEPT !.kills = @ + 1]

LEMMA StageChange ==
  ASSUME TypeOK,
         NEW s \in {"idle", "check", "vouch", "copy", "verify", "unlink",
                    "replace", "done", "refused"},
         AtRestore(s)
  PROVE  /\ restore' \in RestoreRow /\ restore'.stage = s
         /\ restore'.temp = restore.temp /\ restore'.from = restore.from
<1>1. restore \in RestoreRow /\ restore' = [restore EXCEPT !.stage = s]
  BY DEF TypeOK, RestoreRow, AtRestore
<1> QED
  BY <1>1 DEF RestoreRow

LEMMA RestoreKeeps ==
  ASSUME TypeOK, RestoreInv, Restoring
  PROVE  /\ OnlyRestore /\ live' = live
         /\ restore' \in RestoreRow /\ dest' \in Versions \cup {NoFile}
         /\ RestoreInv'
<1>0. restore \in RestoreRow /\ dest \in Versions \cup {NoFile} /\ NoRestore \in RestoreRow
      /\ NoRestore.stage = "idle"
  BY DEF TypeOK, RestoreRow, NoRestore
<1>1. CASE BeginRestore
  <2>1. PICK j \in BackupFiles, strict \in BOOLEAN, over \in BOOLEAN :
          restore' = [stage |-> IF dest # NoFile /\ ~over THEN "refused" ELSE "check",
                      from |-> j, strict |-> strict, over |-> over, temp |-> NoFile]
    BY <1>1 DEF BeginRestore
  <2>2. restore' \in RestoreRow /\ restore'.from \in Jobs /\ restore'.stage \in {"refused", "check"}
    BY <2>1 DEF RestoreRow, BackupFiles
  <2> QED
    BY <1>0, <1>1, <2>2 DEF BeginRestore, OnlyRestore, RestoreInv, RestoreSound, Sound
<1>2. CASE CheckBackup
  BY <1>0, <1>2, StageChange DEF CheckBackup, OnlyRestore, RestoreInv, RestoreSound, Sound
<1>3. CASE CheckManifest
  BY <1>0, <1>3, StageChange DEF CheckManifest, OnlyRestore, RestoreInv, RestoreSound, Sound
<1>4. CASE CopyOut
  <2>1. restore.from \in Jobs /\ file[restore.from] \in Versions \cup {NoFile, Torn}
    BY <1>4 DEF CopyOut, RestoreInv, TypeOK
  <2>2. restore' \in RestoreRow /\ restore'.stage \in {"verify", "refused"}
    BY <1>0, <1>4, <2>1 DEF CopyOut, RestoreRow
  <2> QED
    BY <1>0, <1>4, <2>2 DEF CopyOut, OnlyRestore, RestoreInv, RestoreSound, Sound
<1>5. CASE VerifyOut
  BY <1>0, <1>5, StageChange DEF VerifyOut, OnlyRestore, RestoreInv, RestoreSound, Sound
<1>6. CASE UnlinkDest
  BY <1>0, <1>6, StageChange DEF UnlinkDest, OnlyRestore, RestoreInv, RestoreSound, Sound
<1>7. CASE ReplaceDest
  <2>1. Sound(restore.temp) /\ restore.temp \in Versions
    BY <1>7 DEF ReplaceDest, RestoreInv, Sound
  <2> QED
    BY <1>0, <1>7, <2>1, StageChange DEF ReplaceDest, OnlyRestore, RestoreInv, RestoreSound, Sound
<1>8. CASE KillRestore
  BY <1>0, <1>8 DEF KillRestore, OnlyRestore, RestoreInv, RestoreSound, Sound
<1> QED
  BY <1>1, <1>2, <1>3, <1>4, <1>5, <1>6, <1>7, <1>8 DEF Restoring

LEMMA OnlyRestoreTypes ==
  ASSUME TypeOK, OnlyRestore, live' \in Versions, restore' \in RestoreRow,
         dest' \in Versions \cup {NoFile}
  PROVE  TypeOK'
<1>1. damage' \in [kills : 0..room.kills, faults : 0..room.faults, rots : 0..room.rots]
  BY RoomIs DEF OnlyRestore, TypeOK
<1> QED
  BY <1>1 DEF OnlyRestore, TypeOK, RestoreRow

LEMMA WriteLiveKeeps ==
  ASSUME TypeOK, RestoreInv, WriteLive
  PROVE  /\ OnlyRestore /\ live' \in Versions
         /\ restore' \in RestoreRow /\ dest' \in Versions \cup {NoFile} /\ RestoreInv'
<1>1. live' \in Versions
  BY BackupsAssumption DEF WriteLive, TypeOK, Versions
<1> QED
  BY <1>1 DEF WriteLive, OnlyRestore, TypeOK, RestoreRow, RestoreInv, RestoreSound, Sound

LEMMA JobsLeaveRestore ==
  ASSUME RestoreInv, NEW j \in Jobs, JobStep(j)
  PROVE  RestoreInv' /\ room' = room
<1>1. restore' = restore /\ dest' = dest /\ room' = room
  BY DEF JobStep, Backup, Start, Copy, Verify, Place, Inspect, WriteManifest, List, Sort,
         RemoveBackup, RemoveManifest, Log, Fault, Kill, Rot
<1> QED
  BY <1>1 DEF RestoreInv, RestoreSound, Sound

-----------------------------------------------------------------------------
(* What the steps of a job do to what the invariant speaks of.             *)

\* j goes to the stage, and the other jobs stay where they are.
Moves(j, stage) == pc'[j] = stage /\ \A i \in Jobs \ {j} : pc'[i] = pc[i]

SameFiles == file' = file /\ manifest' = manifest /\ mtime' = mtime
SameSeen == seen' = seen
SameEvents == events' = events

LEMMA GotoMoves ==
  ASSUME TypeOK, NEW j \in Jobs, NEW stage, Goto(j, stage)
  PROVE  Moves(j, stage)
BY DEF TypeOK, Goto, Moves

Fails(j) == Moves(j, "failed") /\ events'[j] = "failed" /\ \A i \in Jobs \ {j} : events'[i] = events[i]

LEMMA FailJobFails ==
  ASSUME TypeOK, NEW j \in Jobs, FailJob(j)
  PROVE  Fails(j)
BY GotoMoves DEF FailJob, Fails, TypeOK

LEMMA StartDoes ==
  ASSUME TypeOK, NEW j \in Jobs, Start(j)
  PROVE  /\ pc[j] = "idle" /\ Moves(j, "copy") /\ SameFiles /\ SameSeen /\ SameEvents
         /\ temp' = temp /\ damage' = damage /\ room' = room
BY GotoMoves DEF Start, SameFiles, SameSeen, SameEvents

LEMMA CopyDoes ==
  ASSUME TypeOK, NEW j \in Jobs, Copy(j)
  PROVE  /\ pc[j] = "copy" /\ Moves(j, "verify") /\ file' = file /\ manifest' = manifest
         /\ SameSeen /\ SameEvents /\ damage' = damage /\ room' = room
         /\ mtime'[j] = Copies + 1 /\ \A i \in Jobs \ {j} : mtime'[i] = mtime[i]
         /\ \A i \in Jobs \ {j} : temp'[i] = temp[i]
BY GotoMoves DEF Copy, SameFiles, SameSeen, SameEvents, Copies, TypeOK

LEMMA VerifyDoes ==
  ASSUME TypeOK, NEW j \in Jobs, Verify(j)
  PROVE  /\ pc[j] = "verify" /\ SameFiles /\ SameSeen /\ damage' = damage /\ room' = room
         /\ \A i \in Jobs \ {j} : temp'[i] = temp[i]
         /\ \/ Sound(temp[j]) /\ temp' = temp /\ Moves(j, "place") /\ SameEvents
            \/ Fails(j)
BY GotoMoves, FailJobFails DEF Verify, FailJob, SameFiles, SameSeen, SameEvents, TypeOK

LEMMA PlaceDoes ==
  ASSUME TypeOK, NEW j \in Jobs, Place(j)
  PROVE  /\ pc[j] = "place" /\ Moves(j, "inspect") /\ manifest' = manifest /\ mtime' = mtime
         /\ SameSeen /\ SameEvents /\ damage' = damage /\ room' = room
         /\ file'[j] = temp[j] /\ \A i \in Jobs \ {j} : file'[i] = file[i] /\ temp'[i] = temp[i]
BY GotoMoves DEF Place, SameSeen, SameEvents, TypeOK

LEMMA InspectDoes ==
  ASSUME TypeOK, NEW j \in Jobs, Inspect(j)
  PROVE  /\ pc[j] = "inspect" /\ SameFiles /\ damage' = damage /\ room' = room
         /\ \A i \in Jobs \ {j} : temp'[i] = temp[i]
         /\ \A i \in Jobs \ {j} : seen'[i] = seen[i]
         /\ \/ /\ Exists(j) /\ seen'[j].content = file[j] /\ Moves(j, "manifest") /\ SameEvents
               /\ seen'[j].found = seen[j].found /\ seen'[j].doomed = seen[j].doomed
            \/ ~Exists(j) /\ Fails(j) /\ SameSeen
<1>1. file[j] \in Versions \cup {NoFile, Torn}
  BY DEF TypeOK
<1>2. CASE Exists(j) /\ seen' = [seen EXCEPT ![j].content = file[j]] /\ Goto(j, "manifest")
           /\ UNCHANGED <<temp, events>>
  BY <1>1, <1>2, SeenContent, GotoMoves DEF Inspect, SameFiles, SameEvents
<1>3. CASE ~Exists(j) /\ FailJob(j) /\ UNCHANGED seen
  BY <1>3, FailJobFails DEF Inspect, FailJob, SameFiles, SameSeen, TypeOK
<1> QED
  BY <1>2, <1>3 DEF Inspect

LEMMA WriteManifestDoes ==
  ASSUME TypeOK, NEW j \in Jobs, WriteManifest(j)
  PROVE  /\ pc[j] = "manifest" /\ Moves(j, "list") /\ file' = file /\ mtime' = mtime
         /\ temp' = temp /\ SameSeen /\ SameEvents /\ damage' = damage /\ room' = room
         /\ manifest'[j] = seen[j].content
         /\ \A i \in Jobs \ {j} : manifest'[i] = manifest[i]
BY GotoMoves DEF WriteManifest, SameSeen, SameEvents, TypeOK

LEMMA ListDoes ==
  ASSUME TypeOK, NEW j \in Jobs, List(j)
  PROVE  /\ pc[j] = "list" /\ Moves(j, "sort") /\ SameFiles /\ SameEvents
         /\ temp' = temp /\ damage' = damage /\ room' = room
         /\ seen'[j].found = BackupFiles /\ seen'[j].content = seen[j].content
         /\ seen'[j].doomed = seen[j].doomed
         /\ \A i \in Jobs \ {j} : seen'[i] = seen[i]
<1>1. BackupFiles \subseteq Jobs /\ seen' = [seen EXCEPT ![j].found = BackupFiles]
  BY DEF List, BackupFiles
<1> QED
  BY <1>1, SeenFound, GotoMoves DEF List, SameFiles, SameEvents

LEMMA SortDoes ==
  ASSUME TypeOK, NEW j \in Jobs, Sort(j)
  PROVE  /\ pc[j] = "sort" /\ SameFiles /\ damage' = damage /\ room' = room
         /\ \A i \in Jobs \ {j} : temp'[i] = temp[i]
         /\ \A i \in Jobs \ {j} : seen'[i] = seen[i]
         /\ \/ /\ seen'[j].doomed = TooMany(seen[j].found) /\ SameEvents
               /\ seen'[j].content = seen[j].content
               /\ \/ TooMany(seen[j].found) # {} /\ Moves(j, "remove")
                  \/ TooMany(seen[j].found) = {} /\ Moves(j, "log")
            \/ Fails(j) /\ SameSeen
<1>1. TooMany(seen[j].found) \subseteq Jobs
  BY DEF TooMany, TypeOK
<1>2. CASE /\ seen' = [seen EXCEPT ![j].doomed = TooMany(seen[j].found)]
           /\ Goto(j, IF TooMany(seen[j].found) # {} THEN "remove" ELSE "log")
           /\ UNCHANGED <<temp, events>>
  <2>1. \/ TooMany(seen[j].found) # {} /\ Moves(j, "remove")
        \/ TooMany(seen[j].found) = {} /\ Moves(j, "log")
    BY <1>2, GotoMoves
  <2>2. /\ seen'[j].doomed = TooMany(seen[j].found) /\ seen'[j].content = seen[j].content
        /\ \A i \in Jobs \ {j} : seen'[i] = seen[i]
    BY <1>1, <1>2, SeenDoomed
  <2> QED
    BY <1>2, <2>1, <2>2 DEF Sort, SameFiles, SameEvents
<1>3. CASE FailJob(j) /\ UNCHANGED seen
  BY <1>3, FailJobFails DEF Sort, FailJob, SameFiles, SameSeen, TypeOK
<1> QED
  BY <1>2, <1>3 DEF Sort

LEMMA RemoveBackupDoes ==
  ASSUME TypeOK, TimesInv, StageInv, NEW j \in Jobs, RemoveBackup(j)
  PROVE  LET d == NextOf(seen[j].doomed) IN
         /\ pc[j] = "remove" /\ Moves(j, "unmanifest") /\ manifest' = manifest /\ mtime' = mtime
         /\ temp' = temp /\ SameSeen /\ SameEvents /\ damage' = damage /\ room' = room
         /\ d \in seen[j].doomed /\ d \in Jobs
         /\ \A x \in seen[j].doomed : mtime[x] <= mtime[d]
         /\ file'[d] = NoFile /\ \A i \in Jobs \ {d} : file'[i] = file[i]
<1>1. pc[j] \in Removing
  BY DEF RemoveBackup, Removing
<1> QED
  BY <1>1, RemovalIs, GotoMoves DEF RemoveBackup, SameSeen, SameEvents, TypeOK

LEMMA RemoveManifestDoes ==
  ASSUME TypeOK, TimesInv, StageInv, NEW j \in Jobs, RemoveManifest(j)
  PROVE  LET d == NextOf(seen[j].doomed) IN
         /\ pc[j] = "unmanifest" /\ file' = file /\ mtime' = mtime
         /\ temp' = temp /\ SameEvents /\ damage' = damage /\ room' = room
         /\ d \in seen[j].doomed /\ d \in Jobs /\ ~Exists(d)
         /\ manifest'[d] = NoFile /\ \A i \in Jobs \ {d} : manifest'[i] = manifest[i]
         /\ seen'[j].doomed = seen[j].doomed \ {d} /\ seen'[j].content = seen[j].content
         /\ \A i \in Jobs \ {j} : seen'[i] = seen[i]
         /\ \/ seen[j].doomed = {d} /\ Moves(j, "log")
            \/ seen[j].doomed # {d} /\ Moves(j, "remove")
<1> DEFINE d == NextOf(seen[j].doomed)
<1>1. pc[j] \in Removing /\ pc[j] = "unmanifest"
  BY DEF RemoveManifest, Removing
<1>2. d \in seen[j].doomed /\ d \in Jobs /\ \A x \in seen[j].doomed : mtime[x] <= mtime[d]
  BY <1>1, RemovalIs
<1>3. PICK e \in seen[j].doomed : ~Exists(e) /\ \A x \in seen[j].doomed : mtime[x] <= mtime[e]
  BY <1>1 DEF StageInv
<1>4. e = d
  <2>1. mtime[e] <= mtime[d] /\ mtime[d] <= mtime[e]
    BY <1>2, <1>3
  <2>2. e \in Copied /\ d \in Copied
    BY <1>1, <1>2, <1>3 DEF StageInv, Placed, Copied, TypeOK
  <2>3. mtime[e] \in Nat /\ mtime[d] \in Nat
    BY <2>2, CopiedIs
  <2>4. mtime[e] = mtime[d]
    BY <2>1, <2>3
  <2> QED
    BY <2>2, <2>4 DEF TimesInv
<1>5. /\ seen' = [seen EXCEPT ![j].doomed = seen[j].doomed \ {d}]
      /\ seen[j].doomed \ {d} \subseteq Jobs
  BY DEF RemoveManifest, TypeOK
<1>6. /\ seen'[j].doomed = seen[j].doomed \ {d} /\ seen'[j].content = seen[j].content
      /\ \A i \in Jobs \ {j} : seen'[i] = seen[i]
  BY <1>5, SeenDoomed
<1>7. \/ seen[j].doomed = {d} /\ Moves(j, "log")
      \/ seen[j].doomed # {d} /\ Moves(j, "remove")
  BY GotoMoves DEF RemoveManifest
<1>8. manifest'[d] = NoFile /\ \A i \in Jobs \ {d} : manifest'[i] = manifest[i]
  BY <1>2 DEF RemoveManifest, TypeOK
<1> HIDE DEF d
<1> QED
  BY <1>1, <1>2, <1>3, <1>4, <1>6, <1>7, <1>8 DEF RemoveManifest, SameEvents, d

LEMMA LogDoes ==
  ASSUME TypeOK, NEW j \in Jobs, Log(j)
  PROVE  /\ pc[j] = "log" /\ Moves(j, "succeeded") /\ SameFiles /\ SameSeen
         /\ temp' = temp /\ damage' = damage /\ room' = room
         /\ events'[j] = "succeeded" /\ \A i \in Jobs \ {j} : events'[i] = events[i]
BY GotoMoves DEF Log, SameFiles, SameSeen, TypeOK

LEMMA FaultDoes ==
  ASSUME TypeOK, NEW j \in Jobs, Fault(j)
  PROVE  /\ pc[j] \in Active /\ Fails(j) /\ SameFiles /\ SameSeen /\ room' = room
         /\ \A i \in Jobs \ {j} : temp'[i] = temp[i]
         /\ damage'.kills = damage.kills /\ damage'.faults = damage.faults + 1
         /\ damage'.rots = damage.rots
BY FailJobFails DEF Fault, FailJob, SameFiles, SameSeen, TypeOK

LEMMA KillDoes ==
  ASSUME TypeOK, NEW j \in Jobs, Kill(j)
  PROVE  /\ pc[j] \in Active /\ Moves(j, "killed") /\ SameFiles /\ SameSeen /\ SameEvents
         /\ temp' = temp /\ room' = room
         /\ damage'.kills = damage.kills + 1 /\ damage'.faults = damage.faults
         /\ damage'.rots = damage.rots
BY GotoMoves DEF Kill, SameFiles, SameSeen, SameEvents, TypeOK

LEMMA RotDoes ==
  ASSUME TypeOK, NEW j \in Jobs, Rot(j)
  PROVE  /\ Exists(j) /\ file'[j] = Torn /\ \A i \in Jobs \ {j} : file'[i] = file[i]
         /\ pc' = pc /\ temp' = temp /\ manifest' = manifest /\ mtime' = mtime
         /\ SameSeen /\ SameEvents /\ room' = room
         /\ damage'.kills = damage.kills /\ damage'.faults = damage.faults
         /\ damage'.rots = damage.rots + 1
BY DEF Rot, SameSeen, SameEvents, TypeOK

-----------------------------------------------------------------------------
(* Times and stages.                                                       *)

LEMMA TimesSame ==
  ASSUME TimesInv, mtime' = mtime
  PROVE  TimesInv' /\ Copied' = Copied /\ Copies' = Copies
BY DEF TimesInv, Copied, Copies

LEMMA CopyTimes ==
  ASSUME TypeOK, TimesInv, StageInv, NEW j \in Jobs, Copy(j)
  PROVE  /\ TimesInv' /\ j \notin Copied /\ Copied' = Copied \cup {j} /\ Copies' = Copies + 1
<1>1. /\ mtime[j] = 0 /\ mtime'[j] = Copies + 1
      /\ \A i \in Jobs \ {j} : mtime'[i] = mtime[i]
  BY CopyDoes DEF StageInv
<1>2. Copies \in Nat /\ \A i \in Jobs : mtime[i] \in Nat
  BY CopiedIs
<1>3. j \notin Copied /\ Copied' = Copied \cup {j}
  BY <1>1, <1>2 DEF Copied
<1>4. Copies' = Copies + 1
  BY <1>3, CopiedIs, FS_AddElement DEF Copies
<1>5. \A i \in Jobs : mtime'[i] <= Copies + 1
  BY <1>1, <1>2 DEF TimesInv
<1>6. \A i \in Copied : mtime'[i] = mtime[i] /\ mtime[i] <= Copies
  BY <1>1, <1>3, CopiedIs DEF TimesInv
<1>7. ASSUME NEW i \in Copied', NEW k \in Copied', mtime'[i] = mtime'[k]
      PROVE  i = k
  <2>1. CASE i = j /\ k = j
    BY <2>1
  <2>2. CASE i # j /\ k # j
    BY <1>3, <1>6, <1>7, <2>2 DEF TimesInv
  <2>3. CASE i = j /\ k # j
    <3>1. k \in Copied /\ mtime[k] \in Nat
      BY <1>2, <1>3, <2>3, CopiedIs
    <3> QED
      BY <1>1, <1>2, <1>6, <1>7, <2>3, <3>1
  <2>4. CASE i # j /\ k = j
    <3>1. i \in Copied /\ mtime[i] \in Nat
      BY <1>2, <1>3, <2>4, CopiedIs
    <3> QED
      BY <1>1, <1>2, <1>6, <1>7, <2>4, <3>1
  <2> QED
    BY <2>1, <2>2, <2>3, <2>4
<1> QED
  BY <1>3, <1>4, <1>5, <1>7 DEF TimesInv

LEMMA JobTimes ==
  ASSUME TypeOK, TimesInv, StageInv, NEW j \in Jobs, JobStep(j), ~Copy(j)
  PROVE  mtime' = mtime
BY DEF JobStep, Backup, Start, Verify, Place, Inspect, WriteManifest, List, Sort,
       RemoveBackup, RemoveManifest, Log, Fault, Kill, Rot

\* StageInv, for one job.
StageOf(j) ==
  /\ pc[j] \in {"idle", "copy"} => mtime[j] = 0
  /\ pc[j] \in (Active \ {"copy"}) \cup {"succeeded"} => mtime[j] # 0
  /\ Exists(j) => Placed(j)
  /\ manifest[j] # NoFile => pc[j] \notin Unplaced \cup Unwritten
  /\ pc[j] = "place" => Sound(temp[j])
  /\ pc[j] \in Written /\ Exists(j) => manifest[j] # NoFile
  /\ pc[j] = "manifest" => seen[j].content # NoFile
  /\ pc[j] \in Removing => seen[j].doomed # {}
  /\ pc[j] = "unmanifest" =>
       \E d \in seen[j].doomed :
         ~Exists(d) /\ \A x \in seen[j].doomed : mtime[x] <= mtime[d]
  /\ pc[j] = "sort" => \A x \in seen[j].found : Placed(x)
  /\ pc[j] \in Removing => \A x \in seen[j].doomed : Placed(x)
  /\ events[j] = "succeeded" => pc[j] = "succeeded"

LEMMA StageIs == StageInv <=> \A j \in Jobs : StageOf(j)
BY DEF StageInv, StageOf

\* A file that was placed stays placed: its job does not go back.
LEMMA PlacedStays ==
  ASSUME TypeOK, TimesInv, StageInv, NEW j \in Jobs, JobStep(j), NEW x \in Jobs, Placed(x)
  PROVE  Placed(x)' /\ mtime'[x] = mtime[x]
<1>1. CASE Copy(j)
  <2>1. pc[j] = "copy" /\ x # j
    BY <1>1, CopyDoes DEF Placed, Unplaced
  <2> QED
    BY <1>1, <2>1, CopyDoes DEF Placed, Moves
<1>2. CASE ~Copy(j)
  <2>1. mtime' = mtime
    BY <1>2, JobTimes
  <2>2. pc'[x] \notin Unplaced
    <3>1. x # j => pc'[x] = pc[x]
      BY StartDoes, VerifyDoes, PlaceDoes, InspectDoes, WriteManifestDoes, ListDoes, SortDoes,
         RemoveBackupDoes, RemoveManifestDoes, LogDoes, FaultDoes, KillDoes, RotDoes, <1>2
         DEF JobStep, Backup, Moves, Fails
    <3>2. x = j => pc'[x] \notin Unplaced
      BY StartDoes, VerifyDoes, PlaceDoes, InspectDoes, WriteManifestDoes, ListDoes, SortDoes,
         RemoveBackupDoes, RemoveManifestDoes, LogDoes, FaultDoes, KillDoes, RotDoes, <1>2
         DEF JobStep, Backup, Moves, Fails, Placed, Unplaced
    <3> QED
      BY <3>1, <3>2 DEF Placed
  <2> QED
    BY <2>1, <2>2 DEF Placed
<1> QED
  BY <1>1, <1>2

\* What the other jobs know is still so after a step of j that leaves them alone.
LEMMA OthersKeepStage ==
  ASSUME TypeOK, TimesInv, StageInv, NEW j \in Jobs, JobStep(j), NEW i \in Jobs \ {j},
         pc'[i] = pc[i], mtime'[i] = mtime[i], temp'[i] = temp[i],
         seen'[i] = seen[i], events'[i] = events[i],
         room' = room,
         file'[i] # NoFile => file[i] # NoFile,
         manifest'[i] = manifest[i] \/ (manifest'[i] = NoFile /\ file'[i] = NoFile),
         \A x \in Jobs : Placed(x) /\ ~Exists(x) => file'[x] = NoFile
  PROVE  StageOf(i)'
<1>1. StageOf(i)
  BY StageIs
<1>2. \A x \in Jobs : Placed(x) => Placed(x)' /\ mtime'[x] = mtime[x]
  BY PlacedStays
<1>3. seen[i].found \subseteq Jobs /\ seen[i].doomed \subseteq Jobs
  BY DEF TypeOK
<1>4. Exists(i)' => Exists(i)
  BY DEF Exists
<1>5. Placed(i) => Placed(i)'
  BY <1>2
<1>6. pc'[i] = "place" => Sound(temp[i])'
  BY <1>1 DEF StageOf, Sound
<1>7. pc'[i] \in Written /\ Exists(i)' => manifest'[i] # NoFile
  BY <1>1, <1>4 DEF StageOf, Exists
<1>8. ASSUME pc'[i] = "unmanifest"
      PROVE  \E d \in seen[i].doomed :
               ~Exists(d)' /\ \A x \in seen[i].doomed : mtime'[x] <= mtime'[d]
  <2>1. \A x \in seen[i].doomed : Placed(x) /\ x \in Jobs
    BY <1>1, <1>3, <1>8 DEF StageOf, Removing
  <2>2. PICK d \in seen[i].doomed : ~Exists(d) /\ \A x \in seen[i].doomed : mtime[x] <= mtime[d]
    BY <1>1, <1>8 DEF StageOf
  <2>3. ~Exists(d)'
    BY <2>1, <2>2 DEF Exists
  <2>4. \A x \in seen[i].doomed : mtime'[x] = mtime[x]
    BY <1>2, <2>1
  <2> QED
    BY <2>2, <2>3, <2>4
<1>9. pc'[i] = "sort" => \A x \in seen[i].found : Placed(x)'
  BY <1>1, <1>2, <1>3 DEF StageOf
<1>10. pc'[i] \in Removing => \A x \in seen[i].doomed : Placed(x)'
  BY <1>1, <1>2, <1>3 DEF StageOf
<1> QED
  BY <1>1, <1>4, <1>5, <1>6, <1>7, <1>8, <1>9, <1>10 DEF StageOf

\* The job's own step: it knows of itself what its new stage says.
LEMMA OwnStage ==
  ASSUME TypeOK, TimesInv, StageInv, NEW j \in Jobs, JobStep(j)
  PROVE  StageOf(j)'
<1>0. StageOf(j) /\ mtime[j] \in Nat /\ Copies \in Nat
  BY StageIs, CopiedIs
<1>1. CASE Start(j)
  BY <1>0, <1>1, StartDoes DEF Moves, SameFiles, SameEvents, StageOf, Exists, Placed, Unplaced,
     Unwritten, Written, Removing, Active
<1>2. CASE Copy(j)
  BY <1>0, <1>2, CopyDoes DEF Moves, SameEvents, StageOf, Exists, Placed, Unplaced,
     Unwritten, Written, Removing, Active
<1>3. CASE Verify(j)
  <2>1. Sound(temp[j]) /\ temp' = temp => Sound(temp[j])'
    BY <1>3, VerifyDoes DEF Sound
  <2> QED
    BY <1>0, <1>3, <2>1, VerifyDoes DEF Moves, Fails, SameFiles, SameSeen, SameEvents, StageOf,
       Exists, Placed, Unplaced, Unwritten, Written, Removing, Active
<1>4. CASE Place(j)
  BY <1>0, <1>4, PlaceDoes DEF Moves, SameSeen, SameEvents, StageOf, Exists, Placed, Unplaced,
     Unwritten, Written, Removing, Active
<1>5. CASE Inspect(j)
  BY <1>0, <1>5, InspectDoes DEF Moves, Fails, SameFiles, SameSeen, SameEvents, StageOf, Exists,
     Placed, Unplaced, Unwritten, Written, Removing, Active
<1>6. CASE WriteManifest(j)
  BY <1>0, <1>6, WriteManifestDoes DEF Moves, SameSeen, SameEvents, StageOf, Exists, Placed,
     Unplaced, Unwritten, Written, Removing, Active
<1>7. CASE List(j)
  <2>1. \A x \in BackupFiles : Placed(x) /\ x \in Jobs
    BY DEF BackupFiles, StageInv
  <2>2. \A x \in seen'[j].found : Placed(x)'
    BY <1>7, <2>1, ListDoes, PlacedStays
  <2> QED
    BY <1>0, <1>7, <2>2, ListDoes DEF Moves, SameFiles, SameEvents, StageOf, Exists, Placed,
       Unplaced, Unwritten, Written, Removing, Active
<1>8. CASE Sort(j)
  <2>1. \A x \in TooMany(seen[j].found) : Placed(x) /\ x \in Jobs
    BY <1>0, <1>8, SortDoes DEF TooMany, StageOf, TypeOK
  <2>2. \A x \in TooMany(seen[j].found) : Placed(x)'
    BY <2>1, PlacedStays
  <2>3. CASE /\ seen'[j].doomed = TooMany(seen[j].found) /\ SameEvents
             /\ TooMany(seen[j].found) # {} /\ Moves(j, "remove")
    BY <1>0, <1>8, <2>2, <2>3, SortDoes DEF Moves, SameFiles, SameEvents, StageOf, Exists,
       Placed, Unplaced, Unwritten, Written, Removing, Active
  <2>4. CASE SameEvents /\ Moves(j, "log")
    BY <1>0, <1>8, <2>4, SortDoes DEF Moves, SameFiles, SameEvents, StageOf, Exists,
       Placed, Unplaced, Unwritten, Written, Removing, Active
  <2>5. CASE Fails(j)
    BY <1>0, <1>8, <2>5, SortDoes DEF Moves, Fails, SameFiles, StageOf, Exists,
       Placed, Unplaced, Unwritten, Written, Removing, Active
  <2> QED
    BY <1>8, <2>3, <2>4, <2>5, SortDoes
<1>9. CASE RemoveBackup(j)
  <2> DEFINE d == NextOf(seen[j].doomed)
  <2>1. /\ d \in seen[j].doomed /\ d \in Jobs /\ \A x \in seen[j].doomed : mtime[x] <= mtime[d]
        /\ file'[d] = NoFile /\ \A i \in Jobs \ {d} : file'[i] = file[i]
    BY <1>9, RemoveBackupDoes
  <2>2. /\ pc[j] = "remove" /\ Moves(j, "unmanifest") /\ manifest' = manifest /\ mtime' = mtime
        /\ seen' = seen /\ events' = events
    BY <1>9, RemoveBackupDoes DEF SameSeen, SameEvents
  <2> HIDE DEF d
  <2>3. Exists(j)' => Exists(j)
    BY <2>1 DEF Exists
  <2>4. \E e \in seen'[j].doomed : ~Exists(e)' /\ \A x \in seen'[j].doomed : mtime'[x] <= mtime'[e]
    BY <2>1, <2>2 DEF Exists
  <2>5. \A x \in seen'[j].doomed : Placed(x)'
    <3>1. \A x \in seen[j].doomed : Placed(x) /\ x \in Jobs
      BY <1>0, <2>2 DEF StageOf, Removing, TypeOK
    <3> QED
      BY <2>2, <3>1, PlacedStays
  <2>6. Exists(j)' => Placed(j)'
    BY <1>0, <2>3, PlacedStays DEF StageOf
  <2>7. Exists(j)' => manifest'[j] # NoFile
    BY <1>0, <2>2, <2>3 DEF StageOf, Written
  <2>8. seen'[j].doomed # {} /\ mtime'[j] # 0 /\ events'[j] # "succeeded"
    BY <1>0, <2>1, <2>2 DEF StageOf, Active
  <2>9. pc'[j] = "unmanifest"
    BY <2>2 DEF Moves
  <2> QED
    BY <2>4, <2>5, <2>6, <2>7, <2>8, <2>9 DEF StageOf, Unplaced, Unwritten, Written, Removing, Active
<1>10. CASE RemoveManifest(j)
  <2> DEFINE d == NextOf(seen[j].doomed)
  <2>1. /\ d \in seen[j].doomed /\ d \in Jobs /\ ~Exists(d)
        /\ manifest'[d] = NoFile /\ \A i \in Jobs \ {d} : manifest'[i] = manifest[i]
        /\ seen'[j].doomed = seen[j].doomed \ {d}
        /\ \/ seen[j].doomed = {d} /\ Moves(j, "log")
           \/ seen[j].doomed # {d} /\ Moves(j, "remove")
    BY <1>10, RemoveManifestDoes
  <2>2. pc[j] = "unmanifest" /\ file' = file /\ mtime' = mtime /\ events' = events
    BY <1>10, RemoveManifestDoes DEF SameEvents
  <2> HIDE DEF d
  <2>3. Exists(j)' = Exists(j)
    BY <2>2 DEF Exists
  <2>4. \A x \in seen'[j].doomed : Placed(x)'
    <3>1. \A x \in seen[j].doomed : Placed(x) /\ x \in Jobs
      BY <1>0, <2>2 DEF StageOf, Removing, TypeOK
    <3> QED
      BY <2>1, <3>1, PlacedStays
  <2>5. Exists(j)' => Placed(j)'
    BY <1>0, <2>3, PlacedStays DEF StageOf
  <2>6. Exists(j)' => manifest'[j] # NoFile
    BY <1>0, <2>1, <2>2, <2>3 DEF StageOf, Written
  <2>7. mtime'[j] # 0 /\ events'[j] # "succeeded"
    BY <1>0, <2>2 DEF StageOf, Active
  <2>8. \/ pc'[j] = "log"
        \/ pc'[j] = "remove" /\ seen'[j].doomed # {}
    BY <2>1 DEF Moves
  <2> QED
    BY <2>4, <2>5, <2>6, <2>7, <2>8 DEF StageOf, Unplaced, Unwritten, Written, Removing, Active
<1>11. CASE Log(j)
  BY <1>0, <1>11, LogDoes DEF Moves, SameFiles, StageOf, Exists, Placed, Unplaced,
     Unwritten, Written, Removing, Active
<1>12. CASE Fault(j)
  BY <1>0, <1>12, FaultDoes DEF Moves, Fails, SameFiles, StageOf, Exists, Placed, Unplaced,
     Unwritten, Written, Removing, Active
<1>13. CASE Kill(j)
  BY <1>0, <1>13, KillDoes DEF Moves, SameFiles, SameEvents, StageOf, Exists, Placed, Unplaced,
     Unwritten, Written, Removing, Active
<1>14. CASE Rot(j)
  <2>1. \A x \in Jobs : Placed(x)' = Placed(x)
    BY <1>14, RotDoes DEF Placed
  <2>2. Sound(temp[j])' = Sound(temp[j])
    BY <1>14, RotDoes DEF Sound
  <2>3. \A x \in Jobs : ~Exists(x) => ~Exists(x)'
    BY <1>14, RotDoes DEF Exists
  <2>4. seen[j].doomed \subseteq Jobs /\ seen[j].found \subseteq Jobs
    BY DEF TypeOK
  <2>5. Exists(j)
    BY <1>14, RotDoes
  <2> QED
    BY <1>0, <1>14, <2>1, <2>2, <2>3, <2>4, <2>5, RotDoes DEF SameSeen, SameEvents, StageOf
<1> QED
  BY <1>1, <1>2, <1>3, <1>4, <1>5, <1>6, <1>7, <1>8, <1>9, <1>10, <1>11, <1>12, <1>13, <1>14
     DEF JobStep, Backup

LEMMA JobStages ==
  ASSUME TypeOK, TimesInv, StageInv, NEW j \in Jobs, JobStep(j)
  PROVE  StageInv'
<1>1. room' = room
  BY StartDoes, CopyDoes, VerifyDoes, PlaceDoes, InspectDoes, WriteManifestDoes, ListDoes,
     SortDoes, RemoveBackupDoes, RemoveManifestDoes, LogDoes, FaultDoes, KillDoes, RotDoes
     DEF JobStep, Backup
<1>2. \A i \in Jobs \ {j} : /\ pc'[i] = pc[i] /\ mtime'[i] = mtime[i] /\ temp'[i] = temp[i]
                            /\ seen'[i] = seen[i] /\ events'[i] = events[i]
  BY StartDoes, CopyDoes, VerifyDoes, PlaceDoes, InspectDoes, WriteManifestDoes, ListDoes,
     SortDoes, RemoveBackupDoes, RemoveManifestDoes, LogDoes, FaultDoes, KillDoes, RotDoes
     DEF JobStep, Backup, Moves, Fails, SameFiles, SameSeen, SameEvents
<1>3. \A i \in Jobs \ {j} : /\ file'[i] # NoFile => file[i] # NoFile
                            /\ \/ manifest'[i] = manifest[i]
                               \/ manifest'[i] = NoFile /\ file'[i] = NoFile
  <2>1. CASE RemoveManifest(j)
    <3> DEFINE d == NextOf(seen[j].doomed)
    <3>1. /\ file' = file /\ ~Exists(d) /\ manifest'[d] = NoFile
          /\ \A i \in Jobs \ {d} : manifest'[i] = manifest[i]
      BY <2>1, RemoveManifestDoes
    <3> HIDE DEF d
    <3> QED
      BY <3>1 DEF Exists
  <2>2. CASE RemoveBackup(j)
    <3> DEFINE d == NextOf(seen[j].doomed)
    <3>1. manifest' = manifest /\ file'[d] = NoFile /\ \A i \in Jobs \ {d} : file'[i] = file[i]
      BY <2>2, RemoveBackupDoes
    <3> HIDE DEF d
    <3> QED
      BY <3>1
  <2> QED
    BY <2>1, <2>2, StartDoes, CopyDoes, VerifyDoes, PlaceDoes, InspectDoes, WriteManifestDoes,
       ListDoes, SortDoes, LogDoes, FaultDoes, KillDoes, RotDoes
       DEF JobStep, Backup, SameFiles
<1>4. \A x \in Jobs : Placed(x) /\ ~Exists(x) => file'[x] = NoFile
  <2>1. CASE Place(j)
    BY <2>1, PlaceDoes DEF Placed, Unplaced, Exists
  <2>2. CASE RemoveBackup(j)
    <3> DEFINE d == NextOf(seen[j].doomed)
    <3>1. file'[d] = NoFile /\ \A i \in Jobs \ {d} : file'[i] = file[i]
      BY <2>2, RemoveBackupDoes
    <3> HIDE DEF d
    <3> QED
      BY <3>1 DEF Exists
  <2> QED
    BY <2>1, <2>2, StartDoes, CopyDoes, VerifyDoes, InspectDoes, WriteManifestDoes,
       ListDoes, SortDoes, RemoveManifestDoes, LogDoes, FaultDoes, KillDoes, RotDoes
       DEF JobStep, Backup, SameFiles, Exists
<1>5. \A i \in Jobs \ {j} : StageOf(i)'
  BY <1>1, <1>2, <1>3, <1>4, OthersKeepStage
<1>6. StageOf(j)'
  BY OwnStage
<1>7. \A i \in Jobs : StageOf(i)'
  BY <1>5, <1>6
<1> QED
  BY <1>7 DEF StageInv, StageOf

-----------------------------------------------------------------------------
(* Contents, and what is gone.                                             *)

\* What every step of a job leaves alone.
LEMMA RoomStays ==
  ASSUME TypeOK, NEW j \in Jobs, JobStep(j)
  PROVE  room' = room /\ FewWithoutManifest' = FewWithoutManifest
<1>1. room' = room
  BY DEF JobStep, Backup, Start, Copy, Verify, Place, Inspect, WriteManifest, List, Sort,
         RemoveBackup, RemoveManifest, Log, Fault, Kill, Rot
<1> QED
  BY <1>1 DEF FewWithoutManifest

LEMMA OthersStay ==
  ASSUME TypeOK, TimesInv, StageInv, NEW j \in Jobs, JobStep(j), NEW i \in Jobs \ {j}
  PROVE  pc'[i] = pc[i] /\ mtime'[i] = mtime[i] /\ seen'[i] = seen[i] /\ events'[i] = events[i]
BY StartDoes, CopyDoes, VerifyDoes, PlaceDoes, InspectDoes, WriteManifestDoes, ListDoes,
   SortDoes, RemoveBackupDoes, RemoveManifestDoes, LogDoes, FaultDoes, KillDoes, RotDoes
   DEF JobStep, Backup, Moves, Fails, SameFiles, SameSeen, SameEvents

\* ContentInv, for one job.
ContentOf(j) ==
  /\ file[j] \in {NoFile, Torn} \/ Sound(file[j])
  /\ damage.rots = 0 =>
       /\ file[j] # Torn
       /\ pc[j] = "manifest" /\ Exists(j) => seen[j].content = file[j]
       /\ Exists(j) /\ manifest[j] # NoFile => manifest[j] = file[j]

\* A job of which the step changes nothing but, perhaps, takes away a file or a
\* manifest.
LEMMA ContentStays ==
  ASSUME TypeOK, NEW i \in Jobs, ContentOf(i), room' = room,
         damage'.rots = damage.rots,
         file'[i] \in {file[i], NoFile}, manifest'[i] \in {manifest[i], NoFile},
         pc'[i] = "manifest" => pc[i] = "manifest" /\ seen'[i] = seen[i]
  PROVE  ContentOf(i)'
BY DEF ContentOf, Sound, Exists, NoFile, Torn

LEMMA JobContent ==
  ASSUME TypeOK, TimesInv, StageInv, ContentInv, NEW j \in Jobs, JobStep(j)
  PROVE  ContentInv'
<1>0. \A i \in Jobs : ContentOf(i)
  BY DEF ContentInv, ContentOf
<1>1. room' = room
  BY RoomStays
<1>2. StageOf(j)
  BY StageIs
<1>3. CASE Start(j) \/ Copy(j) \/ Verify(j) \/ List(j) \/ Sort(j) \/ Log(j) \/ Fault(j) \/ Kill(j)
  <2>1. ASSUME NEW i \in Jobs
        PROVE  ContentOf(i)'
    <3>1. file' = file /\ manifest' = manifest /\ damage'.rots = damage.rots
      BY <1>3, StartDoes, CopyDoes, VerifyDoes, ListDoes, SortDoes, LogDoes, FaultDoes, KillDoes
         DEF SameFiles
    <3>2. pc'[j] # "manifest"
      BY <1>3, StartDoes, CopyDoes, VerifyDoes, ListDoes, SortDoes, LogDoes, FaultDoes, KillDoes
         DEF Moves, Fails
    <3>3. i # j => pc'[i] = pc[i] /\ seen'[i] = seen[i]
      BY OthersStay
    <3> QED
      BY <1>0, <1>1, <3>1, <3>2, <3>3, ContentStays
  <2> QED
    BY <2>1 DEF ContentInv, ContentOf
<1>4. CASE Place(j)
  <2>1. Sound(temp[j]) /\ manifest[j] = NoFile
    BY <1>2, <1>4, PlaceDoes DEF StageOf, Unplaced
  <2>2. ContentOf(j)'
    BY <1>1, <1>4, <2>1, PlaceDoes DEF ContentOf, Moves, Sound, Exists, Versions, Torn
  <2>3. ASSUME NEW i \in Jobs \ {j}
        PROVE  ContentOf(i)'
    BY <1>0, <1>1, <1>4, ContentStays, PlaceDoes, OthersStay
  <2> QED
    BY <2>2, <2>3 DEF ContentInv, ContentOf
<1>5. CASE Inspect(j)
  <2>1. ContentOf(j)'
    <3>1. ContentOf(j) /\ file' = file /\ manifest' = manifest /\ damage' = damage
      BY <1>0, <1>5, InspectDoes DEF SameFiles
    <3>2. pc'[j] = "manifest" => seen'[j].content = file[j]
      BY <1>5, InspectDoes DEF Moves, Fails
    <3> QED
      BY <1>1, <3>1, <3>2 DEF ContentOf, Sound, Exists
  <2>2. ASSUME NEW i \in Jobs \ {j}
        PROVE  ContentOf(i)'
    BY <1>0, <1>1, <1>5, ContentStays, InspectDoes, OthersStay DEF SameFiles
  <2> QED
    BY <2>1, <2>2 DEF ContentInv, ContentOf
<1>6. CASE WriteManifest(j)
  <2>1. ContentOf(j)'
    BY <1>0, <1>1, <1>6, WriteManifestDoes DEF ContentOf, Moves, Sound, Exists
  <2>2. ASSUME NEW i \in Jobs \ {j}
        PROVE  ContentOf(i)'
    BY <1>0, <1>1, <1>6, ContentStays, WriteManifestDoes, OthersStay
  <2> QED
    BY <2>1, <2>2 DEF ContentInv, ContentOf
<1>7. CASE RemoveBackup(j) \/ RemoveManifest(j)
  <2>1. ASSUME NEW i \in Jobs
        PROVE  ContentOf(i)'
    <3>1. damage' = damage /\ pc'[j] # "manifest"
      BY <1>7, RemoveBackupDoes, RemoveManifestDoes DEF Moves
    <3>2. file'[i] \in {file[i], NoFile} /\ manifest'[i] \in {manifest[i], NoFile}
      <4> DEFINE d == NextOf(seen[j].doomed)
      <4>1. /\ file' = file \/ (file'[d] = NoFile /\ \A x \in Jobs \ {d} : file'[x] = file[x])
            /\ \/ manifest' = manifest
               \/ manifest'[d] = NoFile /\ \A x \in Jobs \ {d} : manifest'[x] = manifest[x]
        BY <1>7, RemoveBackupDoes, RemoveManifestDoes
      <4> HIDE DEF d
      <4> QED
        BY <4>1
    <3>3. i # j => pc'[i] = pc[i] /\ seen'[i] = seen[i]
      BY OthersStay
    <3> QED
      BY <1>0, <1>1, <3>1, <3>2, <3>3, ContentStays
  <2> QED
    BY <2>1 DEF ContentInv, ContentOf
<1>8. CASE Rot(j)
  <2>1. damage'.rots # 0 /\ \A i \in Jobs : file'[i] = Torn \/ file'[i] = file[i]
    <3>1. damage.rots \in Nat
      BY RoomIs DEF TypeOK
    <3> QED
      BY <1>8, <3>1, RotDoes
  <2> QED
    BY <1>0, <1>1, <2>1 DEF ContentInv, ContentOf, Sound
<1> QED
  BY <1>3, <1>4, <1>5, <1>6, <1>7, <1>8 DEF JobStep, Backup

\* Copies are only added.
LEMMA CopiesGrow ==
  ASSUME TypeOK, TimesInv, StageInv, NEW j \in Jobs, JobStep(j)
  PROVE  /\ Copies' \in Nat /\ Copies \in Nat /\ Copies <= Copies' /\ TimesInv'
         /\ \A x \in Copied : x \in Copied' /\ mtime'[x] = mtime[x] /\ mtime[x] \in Nat
<1>0. Copies \in Nat /\ Copied \subseteq Jobs /\ \A x \in Copied : mtime[x] \in Nat
  BY CopiedIs
<1>1. CASE Copy(j)
  <2>1. TimesInv' /\ j \notin Copied /\ Copied' = Copied \cup {j} /\ Copies' = Copies + 1
    BY <1>1, CopyTimes
  <2>2. \A x \in Copied : mtime'[x] = mtime[x]
    BY <1>0, <1>1, <2>1, CopyDoes
  <2> QED
    BY <1>0, <2>1, <2>2
<1>2. CASE ~Copy(j)
  <2>1. mtime' = mtime
    BY <1>2, JobTimes
  <2> QED
    BY <1>0, <2>1, TimesSame
<1> QED
  BY <1>1, <1>2

\* What is in the directory was copied.
LEMMA FilesAreCopied ==
  ASSUME TypeOK, StageInv
  PROVE  /\ BackupFiles \subseteq Copied
         /\ \A k \in Jobs : pc[k] = "sort" => seen[k].found \subseteq Copied
         /\ \A k \in Jobs : pc[k] \in Removing => seen[k].doomed \subseteq Copied
BY DEF BackupFiles, StageInv, Placed, Copied, TypeOK

\* A file of which it is not already so is gone only by a removal.
LEMMA GoneBefore ==
  ASSUME TypeOK, TimesInv, StageInv, NEW j \in Jobs, JobStep(j), NEW x \in Copied',
         pc'[x] \notin Broken \cup {"verify", "place"}, ~Exists(x)'
  PROVE  /\ x \in Copied
         /\ \/ pc[x] \notin Broken \cup {"verify", "place"} /\ ~Exists(x)
            \/ pc[j] \in Removing /\ x \in seen[j].doomed
<1>0. StageOf(j)
  BY StageIs
<1>1. x \in Jobs
  BY DEF Copied
<1>2. x # j => pc'[x] = pc[x]
  BY <1>1, OthersStay
<1>3. CASE Copy(j)
  <2>1. x # j /\ file' = file
    BY <1>3, CopyDoes DEF Moves
  <2>2. x \in Copied
    BY <1>3, <2>1, CopyTimes
  <2> QED
    BY <1>2, <2>1, <2>2 DEF Exists
<1>4. CASE ~Copy(j)
  <2>1. x \in Copied
    BY <1>4, JobTimes, TimesSame
  <2>2. CASE Place(j)
    <3>1. Sound(temp[j])
      BY <1>0, <2>2, PlaceDoes DEF StageOf
    <3>2. file'[j] # NoFile
      BY <2>2, <3>1, PlaceDoes DEF Sound, Versions, NoFile
    <3> QED
      BY <1>1, <1>2, <2>1, <2>2, <3>2, PlaceDoes DEF Exists
  <2>3. CASE RemoveBackup(j)
    <3> DEFINE d == NextOf(seen[j].doomed)
    <3>1. /\ pc[j] = "remove" /\ d \in seen[j].doomed
          /\ file'[d] = NoFile /\ \A i \in Jobs \ {d} : file'[i] = file[i]
      BY <2>3, RemoveBackupDoes
    <3> HIDE DEF d
    <3>2. CASE x = d
      BY <2>1, <3>1, <3>2 DEF Removing
    <3>3. CASE x # d
      <4>1. ~Exists(x)
        BY <1>1, <3>1, <3>3 DEF Exists
      <4>2. pc[x] \notin Broken \cup {"verify", "place"}
        BY <1>2, <3>1 DEF Broken
      <4> QED
        BY <2>1, <4>1, <4>2
    <3> QED
      BY <3>2, <3>3
  <2>4. CASE Verify(j)
    BY <1>2, <2>1, <2>4, VerifyDoes DEF Moves, Fails, Broken, SameFiles, Exists
  <2>5. CASE ~Place(j) /\ ~RemoveBackup(j) /\ ~Verify(j)
    <3>1. file'[x] = NoFile => file[x] = NoFile
      BY <1>1, <1>4, <2>5, StartDoes, InspectDoes, WriteManifestDoes, ListDoes, SortDoes,
         RemoveManifestDoes, LogDoes, FaultDoes, KillDoes, RotDoes
         DEF JobStep, Backup, SameFiles, NoFile, Torn
    <3>2. x = j => pc[x] \notin Broken \cup {"verify", "place"}
      BY <1>4, <2>5, StartDoes, InspectDoes, WriteManifestDoes, ListDoes, SortDoes,
         RemoveManifestDoes, LogDoes, FaultDoes, KillDoes, RotDoes
         DEF JobStep, Backup, Broken, Fails, Moves
    <3> QED
      BY <1>2, <2>1, <3>1, <3>2 DEF Exists
  <2> QED
    BY <2>2, <2>3, <2>4, <2>5
<1> QED
  BY <1>3, <1>4

LEMMA JobGone ==
  ASSUME TypeOK, TimesInv, StageInv, GoneInv, NEW j \in Jobs, JobStep(j)
  PROVE  GoneInv'
<1>0. /\ Copies' \in Nat /\ Copies \in Nat /\ Copies <= Copies'
      /\ \A x \in Copied : x \in Copied' /\ mtime'[x] = mtime[x] /\ mtime[x] \in Nat
  BY CopiesGrow
<1>1. room' = room /\ room.keep \in Nat
  BY RoomStays, RoomIs DEF TypeOK
<1>2. ASSUME NEW x \in Copied, mtime[x] + room.keep <= Copies
      PROVE  mtime'[x] + room'.keep <= Copies'
  BY <1>0, <1>1, <1>2
<1>3. ASSUME NEW x \in Copied', pc'[x] \notin Broken \cup {"verify", "place"}, ~Exists(x)'
      PROVE  mtime'[x] + room'.keep <= Copies'
  <2>1. /\ x \in Copied
        /\ \/ pc[x] \notin Broken \cup {"verify", "place"} /\ ~Exists(x)
           \/ pc[j] \in Removing /\ x \in seen[j].doomed
    BY <1>3, GoneBefore
  <2>2. mtime[x] + room.keep <= Copies
    BY <2>1 DEF GoneInv
  <2> QED
    BY <1>2, <2>1, <2>2
<1>4. ASSUME NEW k \in Jobs, pc'[k] \in Removing, NEW d \in seen'[k].doomed
      PROVE  mtime'[d] + room'.keep <= Copies'
  <2>1. CASE /\ pc[k] \in Removing /\ seen'[k].doomed \subseteq seen[k].doomed
    <3>1. d \in Copied /\ mtime[d] + room.keep <= Copies
      BY <1>4, <2>1, FilesAreCopied DEF GoneInv
    <3> QED
      BY <1>2, <3>1
  <2>2. CASE k = j /\ Sort(j)
    <3>1. pc[j] = "sort" /\ seen'[j].doomed = TooMany(seen[j].found)
      BY <1>4, <2>2, SortDoes DEF Fails, Moves, Removing
    <3>2. seen[j].found \subseteq Copied /\ d \in TooMany(seen[j].found)
      BY <1>4, <2>2, <3>1, FilesAreCopied
    <3>3. d \in Copied /\ mtime[d] + room.keep <= Copies
      BY <3>2, TooManyIsOld
    <3> QED
      BY <1>2, <3>3
  <2>3. k # j => pc[k] \in Removing /\ seen'[k].doomed \subseteq seen[k].doomed
    BY <1>4, OthersStay
  <2>4. k = j /\ ~Sort(j) => pc[k] \in Removing /\ seen'[k].doomed \subseteq seen[k].doomed
    <3>1. CASE RemoveManifest(j)
      <4>1. pc[j] = "unmanifest" /\ seen'[j].doomed \subseteq seen[j].doomed
        BY <3>1, RemoveManifestDoes
      <4> QED
        BY <4>1 DEF Removing
    <3>2. CASE RemoveBackup(j)
      <4>1. pc[j] = "remove" /\ seen' = seen
        BY <3>2, RemoveBackupDoes DEF SameSeen
      <4> QED
        BY <4>1 DEF Removing
    <3> QED
      BY <1>4, <3>1, <3>2, StartDoes, CopyDoes, VerifyDoes, PlaceDoes, InspectDoes,
         WriteManifestDoes, ListDoes, LogDoes, FaultDoes, KillDoes, RotDoes
         DEF JobStep, Backup, Moves, Fails, Removing, SameSeen
  <2> QED
    BY <2>1, <2>2, <2>3, <2>4
<1> QED
  BY <1>3, <1>4 DEF GoneInv

-----------------------------------------------------------------------------
(* What is too many will be removed.                                       *)

\* A job that is left alone by a step handles what it did.
LEMMA HandlesStays ==
  ASSUME NEW k \in Jobs, NEW x \in Jobs, Handles(k, x),
         pc'[k] = pc[k], seen'[k] = seen[k], mtime' = mtime, room' = room
  PROVE  Handles(k, x)'
BY DEF Handles, TooMany, Newer

\* Where no job has yet to list, the listing shows what is too many.
LEMMA ListedHandles ==
  ASSUME TypeOK, TimesInv, StageInv, GoneInv,
         \A k \in Jobs : pc[k] \notin Broken \cup {"verify", "place"},
         NEW x \in BackupFiles, mtime[x] + room.keep <= Copies
  PROVE  x \in TooMany(BackupFiles)
<1>1. BackupFiles \subseteq Copied /\ Copied \subseteq Jobs
  BY FilesAreCopied, CopiedIs
<1>2. room.keep \in Nat /\ Copies \in Nat /\ \A i \in Copied : mtime[i] \in Nat
  BY <1>1, RoomIs, CopiedIs DEF TypeOK
<1>3. ASSUME NEW i \in Copied, mtime[i] + room.keep > Copies
      PROVE  i \in BackupFiles
  <2>1. ~(mtime[i] + room.keep <= Copies)
    BY <1>2, <1>3
  <2>2. i \in Jobs /\ Exists(i)
    BY <1>1, <2>1 DEF GoneInv
  <2> QED
    BY <2>2 DEF BackupFiles
<1> QED
  BY <1>1, <1>3, OldIsTooMany

\* The job's own step, where it handles x before, or lists the directory.
LEMMA JobHandles ==
  ASSUME TypeOK, TimesInv, StageInv, NEW j \in Jobs, JobStep(j),
         pc'[j] \notin Broken, NEW x \in Jobs, Exists(x)',
         Handles(j, x), ~List(j), ~Copy(j)
  PROVE  Handles(j, x)'
<1>1. mtime' = mtime /\ room' = room
  BY JobTimes, RoomStays
<1>2. CASE Sort(j)
  <2>1. pc[j] = "sort" /\ x \in TooMany(seen[j].found)
    BY <1>2, SortDoes DEF Handles, Removing
  <2>2. pc'[j] = "remove" /\ seen'[j].doomed = TooMany(seen[j].found)
    BY <1>2, <2>1, SortDoes DEF Fails, Moves, Broken
  <2> QED
    BY <2>1, <2>2 DEF Handles, Removing
<1>3. CASE RemoveBackup(j)
  <2>1. pc[j] = "remove" /\ pc'[j] = "unmanifest" /\ seen' = seen
    BY <1>3, RemoveBackupDoes DEF Moves, SameSeen
  <2> QED
    BY <2>1 DEF Handles, Removing
<1>4. CASE RemoveManifest(j)
  <2> DEFINE d == NextOf(seen[j].doomed)
  <2>1. /\ pc[j] = "unmanifest" /\ file' = file /\ ~Exists(d)
        /\ seen'[j].doomed = seen[j].doomed \ {d}
        /\ \/ seen[j].doomed = {d} /\ Moves(j, "log")
           \/ seen[j].doomed # {d} /\ Moves(j, "remove")
    BY <1>4, RemoveManifestDoes
  <2> HIDE DEF d
  <2>2. x \in seen[j].doomed
    BY <2>1 DEF Handles
  <2>3. x # d
    BY <2>1 DEF Exists
  <2>4. pc'[j] = "remove"
    BY <2>1, <2>2, <2>3 DEF Moves
  <2> QED
    BY <2>1, <2>2, <2>3, <2>4 DEF Handles, Removing
<1>5. CASE Rot(j)
  BY <1>1, <1>5, RotDoes, HandlesStays DEF SameSeen
<1>6. CASE Verify(j) \/ Place(j) \/ Inspect(j) \/ WriteManifest(j)
  BY <1>6, VerifyDoes, PlaceDoes, InspectDoes, WriteManifestDoes DEF Handles, Moves, Fails, Broken
<1>7. ~Start(j) /\ ~Log(j) /\ ~Fault(j) /\ ~Kill(j)
  BY StartDoes, LogDoes, FaultDoes, KillDoes DEF Handles, Removing, Moves, Fails, Broken
<1> QED
  BY <1>2, <1>3, <1>4, <1>5, <1>6, <1>7 DEF JobStep, Backup

\* A file appears when its own job, which has yet to list, places it.
LEMMA FilesAppear ==
  ASSUME TypeOK, TimesInv, StageInv, NEW j \in Jobs, JobStep(j), NEW x \in Jobs, Exists(x)'
  PROVE  Exists(x) \/ (Place(j) /\ x = j)
<1>1. CASE Place(j)
  BY <1>1, PlaceDoes DEF Exists
<1>2. CASE RemoveBackup(j)
  <2> DEFINE d == NextOf(seen[j].doomed)
  <2>1. file'[d] = NoFile /\ \A i \in Jobs \ {d} : file'[i] = file[i]
    BY <1>2, RemoveBackupDoes
  <2> HIDE DEF d
  <2> QED
    BY <2>1 DEF Exists
<1>3. CASE Rot(j)
  BY <1>3, RotDoes DEF Exists
<1>4. CASE ~Place(j) /\ ~RemoveBackup(j) /\ ~Rot(j)
  <2>1. file' = file
    BY <1>4, StartDoes, CopyDoes, VerifyDoes, InspectDoes, WriteManifestDoes, ListDoes, SortDoes,
       RemoveManifestDoes, LogDoes, FaultDoes, KillDoes DEF JobStep, Backup, SameFiles
  <2> QED
    BY <2>1 DEF Exists
<1> QED
  BY <1>1, <1>2, <1>3, <1>4

LEMMA JobDrop ==
  ASSUME TypeOK, TimesInv, StageInv, GoneInv, DropInv, NEW j \in Jobs, JobStep(j)
  PROVE  DropInv'
<1> SUFFICES ASSUME \A k \in Jobs : pc'[k] \notin Broken,
                    NEW x \in Jobs, Exists(x)', mtime'[x] + room'.keep <= Copies'
             PROVE  \E k \in Jobs : Handles(k, x)'
  BY DEF DropInv, BackupFiles
<1>0. room' = room
  BY RoomStays
<1>1. \A k \in Jobs : pc[k] \notin Broken
  <2>1. \A k \in Jobs \ {j} : pc[k] \notin Broken
    BY OthersStay
  <2>2. pc[j] \notin Broken
    <3>1. Rot(j) => pc'[j] = pc[j]
      BY RotDoes
    <3> QED
      BY <3>1, StartDoes, CopyDoes, VerifyDoes, PlaceDoes, InspectDoes, WriteManifestDoes,
         ListDoes, SortDoes, RemoveBackupDoes, RemoveManifestDoes, LogDoes, FaultDoes, KillDoes
         DEF JobStep, Backup, Broken, Active
  <2> QED
    BY <2>1, <2>2
<1>2. CASE Copy(j) \/ Place(j)
  BY <1>2, CopyDoes, PlaceDoes DEF Handles, Moves
<1>3. CASE ~Copy(j) /\ ~Place(j)
  <2>1. mtime' = mtime /\ Copies' = Copies
    BY <1>3, JobTimes, TimesSame
  <2>2. x \in BackupFiles /\ mtime[x] + room.keep <= Copies
    BY <1>0, <1>3, <2>1, FilesAppear DEF BackupFiles
  <2>3. PICK k \in Jobs : Handles(k, x)
    BY <1>1, <2>2 DEF DropInv
  <2>4. \A i \in Jobs \ {j} : Handles(i, x) => Handles(i, x)'
    BY <1>0, <2>1, OthersStay, HandlesStays
  <2>5. CASE List(j)
    <3>1. CASE \E i \in Jobs \ {j} : Handles(i, x)
      BY <2>4, <3>1
    <3>2. CASE \A i \in Jobs \ {j} : ~Handles(i, x)
      <4>1. \A i \in Jobs : pc[i] \notin Broken \cup {"verify", "place"}
        <5>1. pc[j] = "list"
          BY <2>5, ListDoes
        <5> QED
          BY <1>1, <3>2, <5>1 DEF Handles
      <4>2. x \in TooMany(BackupFiles)
        BY <2>2, <4>1, ListedHandles
      <4>3. pc'[j] = "sort" /\ seen'[j].found = BackupFiles
        BY <2>5, ListDoes DEF Moves
      <4>4. TooMany(BackupFiles) = TooMany(seen[j].found)'
        BY <1>0, <2>1, <4>3 DEF TooMany, Newer
      <4> QED
        BY <4>2, <4>3, <4>4 DEF Handles
    <3> QED
      BY <3>1, <3>2
  <2>6. CASE ~List(j)
    <3>1. Handles(j, x) => Handles(j, x)'
      BY <1>3, <2>6, JobHandles
    <3> QED
      BY <2>3, <2>4, <3>1
  <2> QED
    BY <2>5, <2>6
<1> QED
  BY <1>2, <1>3

-----------------------------------------------------------------------------
(* How many files can be without a manifest, and a job that is alone.      *)

LEMMA JobSetsAre ==
  ASSUME TypeOK
  PROVE  /\ Bare \subseteq Jobs /\ Working \subseteq Jobs /\ Complete \subseteq Jobs
         /\ IsFiniteSet(Bare) /\ Cardinality(Bare) \in Nat
         /\ IsFiniteSet(Working) /\ Cardinality(Working) \in Nat
         /\ damage.kills \in Nat /\ damage.faults \in Nat /\ damage.rots \in Nat
         /\ damage.kills <= room.kills /\ damage.faults <= room.faults
<1>1. Bare \subseteq Jobs /\ Working \subseteq Jobs /\ Complete \subseteq Jobs
  BY DEF Bare, Working, Complete, BackupFiles
<1>2. /\ damage.kills \in 0..room.kills /\ damage.faults \in 0..room.faults
      /\ damage.rots \in 0..room.rots
  BY DEF TypeOK
<1> QED
  BY <1>1, <1>2, JobSets, RoomIs DEF TypeOK

LEMMA JobCount ==
  ASSUME TypeOK, TimesInv, StageInv, CountInv, NEW j \in Jobs, JobStep(j)
  PROVE  CountInv'
<1>0. /\ room' = room /\ StageOf(j) /\ room.active \in Nat
      /\ damage.kills \in Nat /\ damage.faults \in Nat
      /\ Bare \subseteq Jobs /\ Working \subseteq Jobs
      /\ Cardinality(Bare) \in Nat /\ Cardinality(Working) \in Nat
      /\ IsFiniteSet(Bare) /\ IsFiniteSet(Working)
  BY RoomStays, StageIs, JobSetsAre, RoomIs DEF TypeOK
<1>1. Cardinality(Working') <= room'.active
  <2>1. CASE Start(j)
    <3>1. Working' = Working \cup {j} /\ j \notin Working
      BY <2>1, StartDoes DEF Working, Moves, Active
    <3>2. Cardinality(Working) < room.active
      BY <2>1 DEF Start, Working
    <3>3. Cardinality(Working') = Cardinality(Working) + 1
      BY <1>0, <3>1, FS_AddElement
    <3> QED
      BY <1>0, <3>2, <3>3
  <2>2. CASE ~Start(j)
    <3>1. pc[j] \in Active \/ pc' = pc
      BY <2>2, CopyDoes, VerifyDoes, PlaceDoes, InspectDoes, WriteManifestDoes, ListDoes,
         SortDoes, RemoveBackupDoes, RemoveManifestDoes, LogDoes, FaultDoes, KillDoes, RotDoes
         DEF JobStep, Backup, Active
    <3>2. Working' \subseteq Working
      BY <3>1, OthersStay DEF Working
    <3>3. Cardinality(Working') <= Cardinality(Working)
      BY <1>0, <3>2, SmallerSet
    <3>4. Cardinality(Working') \in Nat
      BY <1>0, <3>2, JobSets
    <3> QED
      BY <1>0, <3>3, <3>4 DEF CountInv
  <2> QED
    BY <2>1, <2>2
<1>2. Bare' \subseteq Jobs
  BY DEF Bare, BackupFiles
<1>3. CASE Fault(j) \/ Kill(j)
  <2>1. file' = file /\ manifest' = manifest
    BY <1>3, FaultDoes, KillDoes DEF SameFiles
  <2>2. Bare' \subseteq Bare \cup {j}
    BY <2>1, OthersStay DEF Bare, BackupFiles, Exists
  <2>3. Cardinality(Bare \cup {j}) <= Cardinality(Bare) + 1
    <3> DEFINE n == Cardinality(Bare)
               m == Cardinality(Bare \cup {j})
    <3>1. n \in Nat /\ (m = n \/ m = n + 1)
      BY <1>0, FS_AddElement
    <3> HIDE DEF n, m
    <3>2. m <= n + 1
      BY <3>1
    <3> QED
      BY <3>2 DEF n, m
  <2>4. /\ Cardinality(Bare') <= Cardinality(Bare \cup {j})
        /\ Cardinality(Bare') \in Nat /\ Cardinality(Bare \cup {j}) \in Nat
    BY <1>0, <1>2, <2>2, SmallerSet, JobSets
  <2>5. damage'.kills + damage'.faults = damage.kills + damage.faults + 1
    BY <1>0, <1>3, FaultDoes, KillDoes
  <2>6. Cardinality(Bare') <= damage'.kills + damage'.faults
    BY <1>0, <2>3, <2>4, <2>5 DEF CountInv
  <2> QED
    BY <1>1, <2>6 DEF CountInv
<1>4. CASE ~Fault(j) /\ ~Kill(j)
  <2>1. damage'.kills = damage.kills /\ damage'.faults = damage.faults
    BY <1>4, StartDoes, CopyDoes, VerifyDoes, PlaceDoes, InspectDoes, WriteManifestDoes, ListDoes,
       SortDoes, RemoveBackupDoes, RemoveManifestDoes, LogDoes, RotDoes DEF JobStep, Backup
  <2>2. ASSUME NEW x \in Bare'
        PROVE  x \in Bare
    <3>1. x \in Jobs /\ Exists(x)' /\ manifest'[x] = NoFile /\ pc'[x] \in Broken
      BY <2>2 DEF Bare, BackupFiles
    <3>2. CASE Place(j) /\ x = j
      BY <3>1, <3>2, PlaceDoes DEF Moves, Broken
    <3>3. CASE ~(Place(j) /\ x = j)
      <4>1. Exists(x)
        BY <3>1, <3>3, FilesAppear
      <4>2. manifest[x] = NoFile
        <5>1. CASE WriteManifest(j)
          BY <3>1, <5>1, WriteManifestDoes DEF Moves, Broken
        <5>2. CASE RemoveManifest(j)
          <6> DEFINE d == NextOf(seen[j].doomed)
          <6>1. ~Exists(d) /\ \A i \in Jobs \ {d} : manifest'[i] = manifest[i]
            BY <5>2, RemoveManifestDoes
          <6> HIDE DEF d
          <6> QED
            BY <3>1, <4>1, <6>1
        <5>3. CASE ~WriteManifest(j) /\ ~RemoveManifest(j)
          <6>1. manifest' = manifest
            BY <1>4, <5>3, StartDoes, CopyDoes, VerifyDoes, PlaceDoes, InspectDoes, ListDoes,
               SortDoes, RemoveBackupDoes, LogDoes, RotDoes DEF JobStep, Backup, SameFiles
          <6> QED
            BY <3>1, <6>1
        <5> QED
          BY <5>1, <5>2, <5>3
      <4>3. CASE x # j \/ Rot(j)
        BY <3>1, <4>1, <4>2, <4>3, OthersStay, RotDoes DEF Bare, BackupFiles
      <4>4. CASE x = j /\ ~Rot(j)
        <5>1. Verify(j) \/ Inspect(j) \/ Sort(j)
          BY <1>4, <3>1, <4>4, StartDoes, CopyDoes, PlaceDoes, WriteManifestDoes, ListDoes,
             RemoveBackupDoes, RemoveManifestDoes, LogDoes DEF JobStep, Backup, Moves, Broken
        <5>2. CASE Verify(j)
          BY <1>0, <4>1, <4>4, <5>2, VerifyDoes DEF StageOf, Placed, Unplaced
        <5>3. CASE Inspect(j)
          BY <3>1, <4>1, <4>4, <5>3, InspectDoes DEF Moves, Broken
        <5>4. CASE Sort(j)
          BY <1>0, <4>1, <4>2, <4>4, <5>4, SortDoes DEF StageOf, Written
        <5> QED
          BY <5>1, <5>2, <5>3, <5>4
      <4> QED
        BY <4>3, <4>4
    <3> QED
      BY <3>2, <3>3
  <2>3. Cardinality(Bare') <= Cardinality(Bare) /\ Cardinality(Bare') \in Nat
    BY <1>0, <1>2, <2>2, SmallerSet, JobSets
  <2>4. Cardinality(Bare') <= damage'.kills + damage'.faults
    BY <1>0, <2>1, <2>3 DEF CountInv
  <2> QED
    BY <1>1, <2>4 DEF CountInv
<1> QED
  BY <1>3, <1>4

\* Where one job may run at a time, there is one.
LEMMA OneWorking ==
  ASSUME TypeOK, CountInv, room.active <= 1, NEW i \in Working, NEW k \in Working
  PROVE  i = k
<1> SUFFICES ASSUME i # k PROVE FALSE
  OBVIOUS
<1>1. {i, k} \subseteq Working /\ Working \subseteq Jobs
  BY JobSetsAre
<1>2. Cardinality({i, k}) = 2
  <2>1. IsFiniteSet({i}) /\ Cardinality({i}) = 1
    BY FS_Singleton
  <2>2. {i, k} = {i} \cup {k} /\ k \notin {i}
    OBVIOUS
  <2> QED
    BY <2>1, <2>2, FS_AddElement, SMTT(30)
<1>3. Cardinality({i, k}) <= Cardinality(Working)
  BY <1>1, SmallerSet
<1> QED
  BY <1>2, <1>3, JobSetsAre, RoomIs DEF CountInv, TypeOK

LEMMA JobAlone ==
  ASSUME TypeOK, TimesInv, StageInv, CountInv, AloneInv, NEW j \in Jobs, JobStep(j)
  PROVE  AloneInv'
<1>0. room' = room /\ Copies \in Nat /\ \A i \in Jobs : mtime[i] \in Nat /\ mtime[i] <= Copies
  BY RoomStays, CopiedIs DEF TimesInv
<1> SUFFICES ASSUME room.active <= 1, NEW k \in Jobs, pc'[k] \in Active \ {"copy"}
             PROVE  /\ \A i \in Jobs : mtime'[i] <= mtime'[k]
                    /\ pc'[k] \in {"inspect", "manifest", "list", "sort"} => Exists(k)'
  BY <1>0 DEF AloneInv
<1>1. CASE Start(j)
  <2>1. k # j /\ pc'[k] = pc[k]
    BY <1>1, StartDoes, OthersStay DEF Moves
  <2>2. k \in Working
    BY <2>1 DEF Working
  <2>3. Cardinality(Working) < room.active /\ Working \subseteq Jobs
    BY <1>1, JobSetsAre DEF Start, Working
  <2>4. Cardinality({k}) <= Cardinality(Working) /\ Cardinality({k}) = 1
    BY <2>2, <2>3, SmallerSet, FS_Singleton
  <2> QED
    BY <2>3, <2>4, JobSetsAre, RoomIs DEF TypeOK
<1>2. CASE Rot(j)
  <2>1. pc' = pc /\ mtime' = mtime /\ \A i \in Jobs : Exists(i) => Exists(i)'
    BY <1>2, RotDoes DEF Exists, NoFile, Torn
  <2> QED
    BY <2>1 DEF AloneInv
<1>3. CASE ~Start(j) /\ ~Rot(j)
  <2>1. pc[j] \in Active
    BY <1>3, CopyDoes, VerifyDoes, PlaceDoes, InspectDoes, WriteManifestDoes, ListDoes, SortDoes,
       RemoveBackupDoes, RemoveManifestDoes, LogDoes, FaultDoes, KillDoes
       DEF JobStep, Backup, Active
  <2>2. k = j
    <3>1. k # j => k \in Working
      BY OthersStay DEF Working
    <3> QED
      BY <2>1, <3>1, OneWorking DEF Working
  <2>3. CASE Copy(j)
    BY <1>0, <2>2, <2>3, CopyDoes DEF Moves
  <2>4. CASE ~Copy(j)
    <3>1. mtime' = mtime
      BY <2>4, JobTimes
    <3>2. pc[j] \in Active \ {"copy"}
      BY <1>3, <2>1, <2>4, VerifyDoes, PlaceDoes, InspectDoes, WriteManifestDoes, ListDoes,
         SortDoes, RemoveBackupDoes, RemoveManifestDoes, LogDoes, FaultDoes, KillDoes, <2>2
         DEF JobStep, Backup, Moves, Fails, Active
    <3>3. \A i \in Jobs : mtime'[i] <= mtime'[k]
      BY <2>2, <3>1, <3>2 DEF AloneInv
    <3>4. ASSUME pc'[j] \in {"inspect", "manifest", "list", "sort"}
          PROVE  Exists(j)'
      <4>1. Place(j) \/ Inspect(j) \/ WriteManifest(j) \/ List(j)
        BY <1>3, <2>4, <3>4, VerifyDoes, SortDoes, RemoveBackupDoes, RemoveManifestDoes, LogDoes,
           FaultDoes, KillDoes DEF JobStep, Backup, Moves, Fails
      <4>2. CASE Place(j)
        <5>1. Sound(temp[j])
          BY <4>2, StageIs, PlaceDoes DEF StageOf
        <5> QED
          BY <4>2, <5>1, PlaceDoes DEF Exists, Sound, Versions, NoFile
      <4>3. CASE Inspect(j) \/ WriteManifest(j) \/ List(j)
        <5>1. pc[j] \in {"inspect", "manifest", "list"} /\ file' = file
          BY <4>3, InspectDoes, WriteManifestDoes, ListDoes DEF SameFiles
        <5>2. Exists(j)
          BY <5>1 DEF AloneInv, Active
        <5> QED
          BY <5>1, <5>2 DEF Exists
      <4> QED
        BY <4>1, <4>2, <4>3
    <3> QED
      BY <2>2, <3>3, <3>4
  <2> QED
    BY <2>3, <2>4
<1> QED
  BY <1>1, <1>2, <1>3

-----------------------------------------------------------------------------
(* A backup with a manifest survives.                                      *)

\* SurviveInv, for one job.
SurviveOf(k) ==
  /\ pc[k] \in Written => Complete # {}
  /\ pc[k] \in Unwritten /\ ~Exists(k) => Complete # {}
  /\ pc[k] = "sort" =>
       \E m \in Complete : Cardinality(Since(seen[k].found, m)) <= room.keep
  /\ pc[k] \in Removing => \E m \in Complete : \A d \in seen[k].doomed : mtime[d] < mtime[m]

\* A listing holds, from some complete file on, no more files than are kept.
LEMMA ListingKeeps ==
  ASSUME TypeOK, TimesInv, StageInv, CountInv, AloneInv, FewWithoutManifest,
         Complete # {}, NEW j \in Jobs, pc[j] = "list"
  PROVE  \E m \in Complete : Cardinality(Since(BackupFiles, m)) <= room.keep
<1>0. /\ room.keep \in Nat \ {0} /\ room.active \in Nat /\ room.kills \in Nat /\ room.faults \in Nat
      /\ BackupFiles \subseteq Jobs /\ BackupFiles \subseteq Copied /\ Complete \subseteq BackupFiles
      /\ \A x \in Jobs : mtime[x] \in Nat
  BY RoomIs, FilesAreCopied, CopiedIs DEF TypeOK, BackupFiles, Complete
<1>1. \A m \in Complete : \A x \in Since(BackupFiles, m) :
        (\A y \in Complete : mtime[y] <= mtime[m]) /\ x \in Complete => x = m
  <2> SUFFICES ASSUME NEW m \in Complete, NEW x \in Since(BackupFiles, m), mtime[x] <= mtime[m]
               PROVE  x = m
    OBVIOUS
  <2>1. mtime[x] >= mtime[m] /\ x \in Copied /\ m \in Copied
    BY <1>0 DEF Since
  <2>2. mtime[x] = mtime[m]
    BY <1>0, <2>1, CopiedIs
  <2> QED
    BY <2>1, <2>2 DEF TimesInv
<1>2. CASE room.active <= 1
  <2>1. Exists(j) /\ \A i \in Jobs : mtime[i] <= mtime[j]
    BY <1>2 DEF AloneInv, Active
  <2>2. j \in Complete
    BY <2>1 DEF Complete, BackupFiles, StageInv, Written
  <2>3. \A x \in Since(BackupFiles, j) : x = j
    <3> SUFFICES ASSUME NEW x \in BackupFiles, mtime[x] >= mtime[j]
                 PROVE  x = j
      BY DEF Since
    <3>1. mtime[x] = mtime[j] /\ x \in Copied /\ j \in Copied
      BY <1>0, <2>1, <2>2
    <3> QED
      BY <3>1 DEF TimesInv
  <2>4. Since(BackupFiles, j) \subseteq {j}
    BY <2>3
  <2>5. Cardinality(Since(BackupFiles, j)) <= 1 /\ Cardinality(Since(BackupFiles, j)) \in Nat
    <3>1. {j} \subseteq Jobs /\ Cardinality({j}) = 1
      BY FS_Singleton
    <3>2. /\ Cardinality(Since(BackupFiles, j)) <= Cardinality({j})
          /\ Since(BackupFiles, j) \subseteq Jobs
      BY <2>4, <3>1, SmallerSet
    <3>3. Cardinality(Since(BackupFiles, j)) \in Nat
      BY <3>2, JobSets
    <3> QED
      BY <3>1, <3>2, <3>3
  <2>6. Cardinality(Since(BackupFiles, j)) <= room.keep
    BY <1>0, <2>5
  <2> QED
    BY <2>2, <2>6
<1>3. CASE room.active + room.kills + room.faults <= room.keep
  <2>1. PICK m \in Complete : \A y \in Complete : mtime[y] <= mtime[m]
    BY <1>0, NewestExists
  <2> DEFINE Rest == Working \ {j}
  <2>2. Since(BackupFiles, m) \subseteq {m} \cup (Bare \cup Rest)
    <3> SUFFICES ASSUME NEW x \in Since(BackupFiles, m)
                 PROVE  x \in {m} \cup (Bare \cup Rest)
      OBVIOUS
    <3>1. x \in BackupFiles /\ x \in Jobs /\ Placed(x)
      BY <1>0 DEF Since, StageInv, BackupFiles
    <3>2. CASE x \in Complete
      BY <1>1, <2>1, <3>2
    <3>3. CASE manifest[x] = NoFile
      <4>1. pc[x] \notin Unplaced \cup Written
        BY <3>1, <3>3 DEF StageInv, Placed, BackupFiles
      <4>2. pc[x] \in Unwritten \cup Broken
        BY <3>1, <4>1 DEF TypeOK, Active, JobEnded, Unplaced, Written, Unwritten, Broken
      <4> QED
        BY <3>1, <3>3, <4>2 DEF Bare, Working, Unwritten, Active
    <3> QED
      BY <3>1, <3>2, <3>3 DEF Complete
  <2> DEFINE w == Cardinality(Working)
             b == Cardinality(Bare)
             r == Cardinality(Rest)
             u == Cardinality(Bare \cup Rest)
             a == Cardinality({m} \cup (Bare \cup Rest))
             c == Cardinality(Since(BackupFiles, m))
  <2>3. /\ w \in Nat /\ b \in Nat /\ Working \subseteq Jobs /\ Bare \subseteq Jobs
        /\ IsFiniteSet(Working) /\ IsFiniteSet(Bare)
        /\ damage.kills \in Nat /\ damage.faults \in Nat
        /\ damage.kills <= room.kills /\ damage.faults <= room.faults
    BY JobSetsAre
  <2>4. IsFiniteSet(Rest) /\ r = w - 1 /\ r \in Nat
    <3>1. j \in Working
      BY DEF Working, Active
    <3>2. IsFiniteSet(Rest) /\ r = w - 1
      BY <2>3, <3>1, FS_RemoveElement
    <3> QED
      BY <3>2, FS_CardinalityType
  <2>5. u <= b + r /\ u \in Nat /\ IsFiniteSet(Bare \cup Rest)
    <3>1. /\ IsFiniteSet(Bare \cup Rest)
          /\ u = b + r - Cardinality(Bare \cap Rest)
      BY <2>3, <2>4, FS_Union
    <3>2. Cardinality(Bare \cap Rest) \in Nat /\ u \in Nat
      BY <2>3, <3>1, FS_CardinalityType, FS_Intersection
    <3> HIDE DEF u, b, r, Rest
    <3>3. u <= b + r
      BY <2>3, <2>4, <3>1, <3>2
    <3> QED
      BY <3>1, <3>2, <3>3
  <2>6. a <= u + 1 /\ a \in Nat
    <3>1. {m} \cup (Bare \cup Rest) = (Bare \cup Rest) \cup {m}
      OBVIOUS
    <3>2. a = u \/ a = u + 1
      <4> HIDE DEF Rest
      <4> QED
        BY <2>5, <3>1, FS_AddElement
    <3> HIDE DEF u, a
    <3> QED
      BY <2>5, <3>2
  <2>7. c <= a /\ c \in Nat
    <3>1. {m} \cup (Bare \cup Rest) \subseteq Jobs
      BY <1>0, <2>3
    <3>2. Since(BackupFiles, m) \subseteq Jobs
      BY <1>0 DEF Since
    <3> HIDE DEF Rest
    <3> QED
      BY <2>2, <3>1, <3>2, SmallerSet, JobSets
  <2>8. b <= damage.kills + damage.faults /\ w <= room.active
    BY DEF CountInv
  <2> HIDE DEF w, b, r, u, a, c
  <2>9. c <= room.keep
    BY <1>0, <1>3, <2>3, <2>4, <2>5, <2>6, <2>7, <2>8
  <2> QED
    BY <2>9 DEF c
<1> QED
  BY <1>2, <1>3 DEF FewWithoutManifest

\* What a job dooms is older than that complete file.
LEMMA DoomedAreOlder ==
  ASSUME TypeOK, TimesInv, NEW files, files \subseteq Copied, NEW m \in Copied,
         Cardinality(Since(files, m)) <= room.keep, NEW d \in TooMany(files)
  PROVE  mtime[d] < mtime[m]
<1>0. /\ room.keep \in Nat /\ Copied \subseteq Jobs /\ \A x \in Jobs : mtime[x] \in Nat
  BY RoomIs, CopiedIs DEF TypeOK
<1>1. d \in files /\ d \in Jobs /\ Cardinality(Newer(files, d)) >= room.keep
  BY <1>0 DEF TooMany
<1> SUFFICES ASSUME mtime[d] >= mtime[m]
             PROVE  FALSE
  BY <1>0, <1>1
<1> DEFINE N == Newer(files, d)
<1>2. N \subseteq Jobs /\ d \notin N /\ N \cup {d} \subseteq Since(files, m)
  BY <1>0, <1>1 DEF Newer, Since
<1>3. Since(files, m) \subseteq Jobs
  BY <1>0 DEF Since
<1> DEFINE n == Cardinality(N)
           s == Cardinality(Since(files, m))
           u == Cardinality(N \cup {d})
<1>4. n \in Nat /\ s \in Nat /\ u = n + 1
  <2> HIDE DEF N
  <2> QED
    BY <1>2, <1>3, JobSets, FS_AddElement
<1>5. u <= s
  <2> HIDE DEF N
  <2> QED
    BY <1>2, <1>3, SmallerSet
<1>6. n >= room.keep /\ s <= room.keep
  BY <1>1
<1> HIDE DEF n, s, u
<1> QED
  BY <1>0, <1>4, <1>5, <1>6

\* The complete files that a job's step leaves.
LEMMA CompleteStays ==
  ASSUME TypeOK, TimesInv, StageInv, NEW j \in Jobs, JobStep(j), NEW m \in Complete
  PROVE  /\ mtime'[m] = mtime[m]
         /\ m \in Complete' \/ (RemoveBackup(j) /\ m = NextOf(seen[j].doomed))
<1>1. m \in Jobs /\ Exists(m) /\ manifest[m] # NoFile /\ Placed(m)
      /\ pc[m] \notin Unplaced \cup Unwritten
  BY DEF Complete, BackupFiles, StageInv
<1>2. mtime'[m] = mtime[m]
  BY <1>1, PlacedStays
<1>3. CASE RemoveBackup(j)
  <2> DEFINE d == NextOf(seen[j].doomed)
  <2>1. manifest' = manifest /\ \A i \in Jobs \ {d} : file'[i] = file[i]
    BY <1>3, RemoveBackupDoes
  <2> HIDE DEF d
  <2>2. m # d => m \in Complete'
    BY <1>1, <2>1 DEF Complete, BackupFiles, Exists
  <2> QED
    BY <1>2, <1>3, <2>2 DEF d
<1>4. CASE RemoveManifest(j)
  <2> DEFINE d == NextOf(seen[j].doomed)
  <2>1. file' = file /\ ~Exists(d) /\ \A i \in Jobs \ {d} : manifest'[i] = manifest[i]
    BY <1>4, RemoveManifestDoes
  <2> HIDE DEF d
  <2>2. m # d
    BY <1>1, <2>1
  <2> QED
    BY <1>1, <1>2, <2>1, <2>2 DEF Complete, BackupFiles, Exists
<1>5. CASE Rot(j)
  BY <1>1, <1>2, <1>5, RotDoes DEF Complete, BackupFiles, Exists, NoFile, Torn
<1>6. CASE Place(j) \/ WriteManifest(j)
  <2>1. m # j
    BY <1>1, <1>6, PlaceDoes, WriteManifestDoes DEF Unplaced, Unwritten
  <2> QED
    BY <1>1, <1>2, <1>6, <2>1, PlaceDoes, WriteManifestDoes DEF Complete, BackupFiles, Exists
<1>7. CASE Start(j) \/ Copy(j) \/ Verify(j) \/ Inspect(j) \/ List(j) \/ Sort(j) \/ Log(j)
           \/ Fault(j) \/ Kill(j)
  <2>1. file' = file /\ manifest' = manifest
    BY <1>7, StartDoes, CopyDoes, VerifyDoes, InspectDoes, ListDoes, SortDoes, LogDoes,
       FaultDoes, KillDoes DEF SameFiles
  <2> QED
    BY <1>1, <1>2, <2>1 DEF Complete, BackupFiles, Exists
<1> QED
  BY <1>3, <1>4, <1>5, <1>6, <1>7 DEF JobStep, Backup

\* The times of what is in a listing or doomed do not change.
LEMMA ListingStays ==
  ASSUME TypeOK, TimesInv, StageInv, NEW j \in Jobs, JobStep(j),
         NEW files, files \subseteq Copied, NEW m \in Copied
  PROVE  /\ {x \in files : mtime'[x] >= mtime'[m]} = Since(files, m)
         /\ \A x \in files : mtime'[x] = mtime[x]
<1>1. \A x \in Copied : mtime'[x] = mtime[x]
  BY CopiesGrow
<1> QED
  BY <1>1 DEF Since

\* For a complete file there is still one as new after a step.
LEMMA CompleteFollows ==
  ASSUME TypeOK, TimesInv, StageInv, SurviveInv, FewWithoutManifest,
         NEW j \in Jobs, JobStep(j), NEW m \in Complete
  PROVE  \E n \in Complete' : n \in Complete /\ mtime[n] >= mtime[m] /\ mtime'[n] = mtime[n]
<1>0. Complete \subseteq Jobs /\ \A x \in Jobs : mtime[x] \in Nat
  BY CopiedIs DEF Complete, BackupFiles
<1>1. CASE m \in Complete'
  <2>1. mtime'[m] = mtime[m] /\ mtime[m] >= mtime[m]
    BY <1>0, CompleteStays
  <2> QED
    BY <1>1, <2>1
<1>2. CASE m \notin Complete'
  <2> DEFINE d == NextOf(seen[j].doomed)
  <2>1. RemoveBackup(j) /\ m = d
    BY <1>2, CompleteStays
  <2>2. pc[j] \in Removing /\ d \in seen[j].doomed
    BY <2>1, RemoveBackupDoes DEF Removing
  <2>3. PICK n \in Complete : \A x \in seen[j].doomed : mtime[x] < mtime[n]
    BY <2>2 DEF SurviveInv
  <2> HIDE DEF d
  <2>4. mtime[m] < mtime[n]
    BY <2>1, <2>2, <2>3
  <2>5. n # m
    BY <1>0, <2>4
  <2>6. n \in Complete' /\ mtime'[n] = mtime[n]
    BY <2>1, <2>5, CompleteStays DEF d
  <2> QED
    BY <1>0, <2>4, <2>6
<1> QED
  BY <1>1, <1>2

\* A job that is left alone by a step.
LEMMA SurviveStays ==
  ASSUME TypeOK, TimesInv, StageInv, SurviveInv, FewWithoutManifest,
         NEW j \in Jobs, JobStep(j), NEW k \in Jobs, pc'[k] = pc[k], seen'[k] = seen[k]
  PROVE  SurviveOf(k)'
<1>0. SurviveOf(k) /\ SurviveOf(j) /\ room' = room /\ Complete \subseteq Jobs
      /\ \A x \in Jobs : mtime[x] \in Nat
  BY RoomStays, CopiedIs DEF SurviveInv, SurviveOf, Complete, BackupFiles
<1>1. Complete # {} => Complete' # {}
  BY CompleteFollows
<1>2. ASSUME pc'[k] \in Unwritten, ~Exists(k)'
      PROVE  Complete # {}
  <2>1. CASE ~Exists(k)
    BY <1>0, <1>2, <2>1 DEF SurviveOf
  <2>2. CASE RemoveBackup(j)
    <3>1. pc[j] \in Removing
      BY <2>2, RemoveBackupDoes DEF Removing
    <3> QED
      BY <1>0, <3>1 DEF SurviveOf
  <2>3. CASE Exists(k) /\ ~RemoveBackup(j)
    <3>1. Exists(k)'
      <4>1. CASE Place(j)
        <5>1. k # j
          BY <1>2, <4>1, PlaceDoes DEF Moves, Unwritten
        <5> QED
          BY <2>3, <4>1, <5>1, PlaceDoes DEF Exists
      <4>2. CASE Rot(j)
        BY <2>3, <4>2, RotDoes DEF Exists, NoFile, Torn
      <4>3. CASE ~Place(j) /\ ~Rot(j)
        <5>1. file' = file
          BY <2>3, <4>3, StartDoes, CopyDoes, VerifyDoes, InspectDoes, WriteManifestDoes,
             ListDoes, SortDoes, RemoveManifestDoes, LogDoes, FaultDoes, KillDoes
             DEF JobStep, Backup, SameFiles
        <5> QED
          BY <2>3, <5>1 DEF Exists
      <4> QED
        BY <4>1, <4>2, <4>3
    <3> QED
      BY <1>2, <3>1
  <2> QED
    BY <2>1, <2>2, <2>3
<1>3. ASSUME pc'[k] = "sort"
      PROVE  \E m \in Complete' : Cardinality({x \in seen[k].found : mtime'[x] >= mtime'[m]})
                                    <= room.keep
  <2>1. PICK m \in Complete : Cardinality(Since(seen[k].found, m)) <= room.keep
    BY <1>0, <1>3 DEF SurviveOf
  <2>2. PICK n \in Complete' : n \in Complete /\ mtime[n] >= mtime[m] /\ mtime'[n] = mtime[n]
    BY CompleteFollows
  <2>3. seen[k].found \subseteq Copied /\ n \in Copied /\ Copied \subseteq Jobs
    BY <1>3, <2>2, FilesAreCopied, CopiedIs DEF Complete
  <2>4. Since(seen[k].found, n) \subseteq Since(seen[k].found, m)
    BY <1>0, <2>2, <2>3 DEF Since
  <2>5. Since(seen[k].found, m) \subseteq Jobs /\ Since(seen[k].found, n) \subseteq Jobs
    BY <2>3 DEF Since
  <2> DEFINE a == Cardinality(Since(seen[k].found, n))
             b == Cardinality(Since(seen[k].found, m))
  <2>6. a \in Nat /\ b \in Nat /\ a <= b /\ b <= room.keep /\ room.keep \in Nat
    BY <2>1, <2>4, <2>5, SmallerSet, JobSets, RoomIs DEF TypeOK
  <2> HIDE DEF a, b
  <2>7. a <= room.keep
    BY <2>6
  <2>8. {x \in seen[k].found : mtime'[x] >= mtime'[n]} = Since(seen[k].found, n)
    BY <2>3, ListingStays
  <2>9. Cardinality({x \in seen[k].found : mtime'[x] >= mtime'[n]}) <= room.keep
    BY <2>7, <2>8 DEF a
  <2> QED
    BY <2>9
<1>4. ASSUME pc'[k] \in Removing
      PROVE  \E m \in Complete' : \A d \in seen[k].doomed : mtime'[d] < mtime'[m]
  <2>1. PICK m \in Complete : \A d \in seen[k].doomed : mtime[d] < mtime[m]
    BY <1>0, <1>4 DEF SurviveOf
  <2>2. PICK n \in Complete' : n \in Complete /\ mtime[n] >= mtime[m] /\ mtime'[n] = mtime[n]
    BY CompleteFollows
  <2>3. seen[k].doomed \subseteq Copied /\ Copied \subseteq Jobs
    BY <1>4, FilesAreCopied, CopiedIs
  <2>4. \A d \in seen[k].doomed : mtime'[d] = mtime[d] /\ mtime[d] \in Nat
    BY <1>0, <2>3, CopiesGrow
  <2>5. \A d \in seen[k].doomed : mtime'[d] < mtime'[n]
    BY <1>0, <2>1, <2>2, <2>4
  <2> QED
    BY <2>5
<1>5. pc'[k] \in Written => Complete' # {}
  BY <1>0, <1>1 DEF SurviveOf
<1> QED
  BY <1>0, <1>1, <1>2, <1>3, <1>4, <1>5 DEF SurviveOf, Since

\* The job's own step.
LEMMA SurviveOwn ==
  ASSUME TypeOK, TimesInv, StageInv, CountInv, AloneInv, SurviveInv, FewWithoutManifest,
         NEW j \in Jobs, JobStep(j)
  PROVE  SurviveOf(j)'
<1>0. SurviveOf(j) /\ StageOf(j) /\ room' = room
  BY RoomStays, StageIs DEF SurviveInv, SurviveOf
<1>1. Complete # {} => Complete' # {}
  BY CompleteFollows
<1>2. CASE Start(j) \/ Copy(j) \/ Verify(j) \/ Fault(j) \/ Kill(j)
  <2>1. pc'[j] \notin Written \cup Unwritten
    BY <1>2, StartDoes, CopyDoes, VerifyDoes, FaultDoes, KillDoes
       DEF Moves, Fails, Written, Unwritten
  <2> QED
    BY <2>1 DEF SurviveOf, Written, Removing
<1>3. CASE Place(j)
  <2>1. Sound(temp[j]) /\ pc'[j] = "inspect"
    BY <1>0, <1>3, PlaceDoes DEF StageOf, Moves
  <2>2. Exists(j)'
    BY <1>3, <2>1, PlaceDoes DEF Exists, Sound, Versions, NoFile
  <2> QED
    BY <2>1, <2>2 DEF SurviveOf, Written, Removing
<1>4. CASE Inspect(j)
  <2>1. \/ pc'[j] = "manifest" /\ Exists(j)'
        \/ pc'[j] = "failed"
    BY <1>4, InspectDoes DEF Moves, Fails, SameFiles, Exists
  <2> QED
    BY <2>1 DEF SurviveOf, Written, Unwritten, Removing
<1>5. CASE WriteManifest(j)
  <2>1. pc'[j] = "list"
    BY <1>5, WriteManifestDoes DEF Moves
  <2>2. Complete' # {}
    <3>1. CASE Exists(j)
      <4>1. file' = file /\ manifest'[j] # NoFile
        BY <1>0, <1>5, WriteManifestDoes DEF StageOf
      <4>2. j \in Complete'
        BY <3>1, <4>1 DEF Complete, BackupFiles, Exists
      <4> QED
        BY <4>2
    <3>2. CASE ~Exists(j)
      <4>1. Complete # {}
        BY <1>0, <1>5, <3>2, WriteManifestDoes DEF SurviveOf, Unwritten
      <4> QED
        BY <1>1, <4>1
    <3> QED
      BY <3>1, <3>2
  <2> QED
    BY <2>1, <2>2 DEF SurviveOf, Unwritten, Removing
<1>6. CASE List(j)
  <2>1. /\ pc[j] = "list" /\ pc'[j] = "sort" /\ seen'[j].found = BackupFiles
        /\ file' = file /\ manifest' = manifest /\ mtime' = mtime
    BY <1>6, ListDoes DEF Moves, SameFiles
  <2>2. Complete # {} /\ Complete' = Complete
    BY <1>0, <2>1 DEF SurviveOf, Written, Complete, BackupFiles, Exists
  <2>3. PICK m \in Complete : Cardinality(Since(BackupFiles, m)) <= room.keep
    BY <2>1, <2>2, ListingKeeps
  <2>4. {x \in BackupFiles : mtime'[x] >= mtime'[m]} = Since(BackupFiles, m)
    BY <2>1 DEF Since
  <2>5. m \in Complete' /\ Cardinality({x \in seen'[j].found : mtime'[x] >= mtime'[m]}) <= room'.keep
    BY <1>0, <2>1, <2>2, <2>3, <2>4
  <2> QED
    BY <2>1, <2>2, <2>5 DEF SurviveOf, Since, Unwritten, Removing
<1>7. CASE Sort(j)
  <2>1. CASE Fails(j)
    BY <2>1 DEF Fails, Moves, SurviveOf, Written, Unwritten, Removing
  <2>2. CASE ~Fails(j)
    <3>1. /\ pc[j] = "sort" /\ seen'[j].doomed = TooMany(seen[j].found)
          /\ file' = file /\ manifest' = manifest /\ mtime' = mtime
          /\ pc'[j] \in {"remove", "log"}
      BY <1>7, <2>2, SortDoes DEF Moves, SameFiles
    <3>2. PICK m \in Complete : Cardinality(Since(seen[j].found, m)) <= room.keep
      BY <1>0, <3>1 DEF SurviveOf
    <3>3. seen[j].found \subseteq Copied /\ m \in Copied
      BY <3>1, FilesAreCopied DEF Complete
    <3>4. \A d \in TooMany(seen[j].found) : mtime[d] < mtime[m]
      BY <3>2, <3>3, DoomedAreOlder
    <3>5. m \in Complete'
      BY <3>1 DEF Complete, BackupFiles, Exists
    <3>6. \A d \in seen'[j].doomed : mtime'[d] < mtime'[m]
      BY <3>1, <3>4
    <3> QED
      BY <3>1, <3>5, <3>6 DEF SurviveOf, Unwritten
  <2> QED
    BY <2>1, <2>2
<1>8. CASE RemoveBackup(j)
  <2>1. pc[j] = "remove" /\ pc'[j] = "unmanifest" /\ seen' = seen /\ mtime' = mtime
    BY <1>8, RemoveBackupDoes DEF Moves, SameSeen
  <2>2. PICK m \in Complete : \A d \in seen[j].doomed : mtime[d] < mtime[m]
    BY <1>0, <2>1 DEF SurviveOf, Removing
  <2>3. PICK n \in Complete' : n \in Complete /\ mtime[n] >= mtime[m] /\ mtime'[n] = mtime[n]
    BY CompleteFollows
  <2>4. \A d \in seen'[j].doomed : mtime'[d] < mtime'[n]
    <3>1. /\ \A d \in seen[j].doomed : mtime[d] \in Nat
          /\ mtime[m] \in Nat /\ mtime[n] \in Nat
      BY <2>1, <2>3, CopiedIs DEF TypeOK, Complete, BackupFiles
    <3> QED
      BY <2>1, <2>2, <2>3, <3>1
  <2> QED
    BY <2>1, <2>3, <2>4 DEF SurviveOf, Unwritten
<1>9. CASE RemoveManifest(j)
  <2> DEFINE e == NextOf(seen[j].doomed)
  <2>1. /\ pc[j] = "unmanifest" /\ mtime' = mtime /\ seen'[j].doomed = seen[j].doomed \ {e}
        /\ Moves(j, "log") \/ Moves(j, "remove")
    BY <1>9, RemoveManifestDoes
  <2> HIDE DEF e
  <2>2. PICK m \in Complete : \A d \in seen[j].doomed : mtime[d] < mtime[m]
    BY <1>0, <2>1 DEF SurviveOf, Removing
  <2>3. m \in Complete'
    <3>1. ~RemoveBackup(j)
      BY <2>1, RemoveBackupDoes
    <3> QED
      BY <3>1, CompleteStays
  <2>4. \A d \in seen'[j].doomed : mtime'[d] < mtime'[m]
    BY <2>1, <2>2
  <2>5. pc'[j] \in {"log", "remove"}
    BY <2>1 DEF Moves
  <2> QED
    BY <2>3, <2>4, <2>5 DEF SurviveOf, Unwritten
<1>10. CASE Log(j)
  <2>1. pc[j] = "log" /\ pc'[j] = "succeeded"
    BY <1>10, LogDoes DEF Moves
  <2>2. Complete' # {}
    BY <1>0, <1>1, <2>1 DEF SurviveOf, Written
  <2> QED
    BY <2>1, <2>2 DEF SurviveOf, Unwritten, Removing
<1>11. CASE Rot(j)
  BY <1>11, RotDoes, SurviveStays DEF SameSeen
<1> QED
  BY <1>2, <1>3, <1>4, <1>5, <1>6, <1>7, <1>8, <1>9, <1>10, <1>11 DEF JobStep, Backup

LEMMA JobSurvive ==
  ASSUME TypeOK, TimesInv, StageInv, CountInv, AloneInv, SurviveInv, NEW j \in Jobs, JobStep(j)
  PROVE  SurviveInv'
<1>1. CASE FewWithoutManifest
  <2>1. \A k \in Jobs \ {j} : SurviveOf(k)'
    BY <1>1, OthersStay, SurviveStays
  <2>2. SurviveOf(j)'
    BY <1>1, SurviveOwn
  <2> QED
    BY <2>1, <2>2 DEF SurviveInv, SurviveOf
<1>2. CASE ~FewWithoutManifest
  BY <1>2, RoomStays DEF SurviveInv
<1> QED
  BY <1>1, <1>2

-----------------------------------------------------------------------------
(* The invariant.                                                          *)

LEMMA JobKeeps ==
  ASSUME BackupsInv, NEW j \in Jobs, JobStep(j)
  PROVE  BackupsInv'
<1>1. /\ TypeOK /\ StageInv /\ ContentInv /\ TimesInv /\ GoneInv /\ DropInv
      /\ CountInv /\ AloneInv /\ SurviveInv /\ RestoreInv
  BY DEF BackupsInv
<1>2. TypeOK' /\ StageInv' /\ ContentInv' /\ TimesInv'
  BY <1>1, JobTypes, JobStages, JobContent, CopiesGrow
<1>3. GoneInv' /\ DropInv' /\ CountInv' /\ AloneInv' /\ SurviveInv'
  BY <1>1, JobGone, JobDrop, JobCount, JobAlone, JobSurvive
<1>4. RestoreInv'
  BY <1>1, JobsLeaveRestore
<1> QED
  BY <1>2, <1>3, <1>4 DEF BackupsInv

\* A restore and a write of the application touch none of it.
LEMMA RestoreLeaves ==
  ASSUME BackupsInv, OnlyRestore, TypeOK', RestoreInv'
  PROVE  BackupsInv'
<1>0. /\ TypeOK /\ StageInv /\ ContentInv /\ TimesInv /\ GoneInv /\ DropInv
      /\ CountInv /\ AloneInv /\ SurviveInv
  BY DEF BackupsInv
<1>1. /\ pc' = pc /\ temp' = temp /\ file' = file /\ manifest' = manifest /\ mtime' = mtime
      /\ seen' = seen /\ events' = events /\ room' = room
  BY DEF OnlyRestore
<1>2. /\ damage'.rots = damage.rots /\ damage'.faults = damage.faults
      /\ damage'.kills \in Nat /\ damage.kills \in Nat /\ damage.kills <= damage'.kills
      /\ damage.faults \in Nat
  BY <1>0, JobSetsAre DEF OnlyRestore, TypeOK
<1>3. \A j : (Exists(j)' <=> Exists(j)) /\ (Placed(j)' <=> Placed(j))
  BY <1>1 DEF Exists, Placed
<1>4. TimesInv' /\ Copied' = Copied /\ Copies' = Copies
  BY <1>0, <1>1, TimesSame
<1>5. BackupFiles' = BackupFiles /\ Complete' = Complete /\ Bare' = Bare /\ Working' = Working
  BY <1>1 DEF BackupFiles, Complete, Bare, Working, Exists
<1>6. StageInv'
  BY <1>0, <1>1, <1>3 DEF StageInv, Sound
<1>7. ContentInv'
  BY <1>0, <1>1, <1>2, <1>3 DEF ContentInv, Sound
<1>8. GoneInv'
  BY <1>0, <1>1, <1>3, <1>4 DEF GoneInv
<1>9. DropInv'
  <2>1. \A k, j \in Jobs : Handles(k, j) => Handles(k, j)'
    BY <1>1, HandlesStays
  <2>2. BackupFiles \subseteq Jobs
    BY DEF BackupFiles
  <2> QED
    BY <1>0, <1>1, <1>4, <1>5, <2>1, <2>2 DEF DropInv
<1>10. CountInv'
  <2>1. Cardinality(Bare') = Cardinality(Bare) /\ Cardinality(Working') = Cardinality(Working)
    BY <1>5
  <2>2. Cardinality(Bare) \in Nat /\ Cardinality(Bare) <= damage.kills + damage.faults
    BY <1>0, JobSetsAre DEF CountInv
  <2>3. Cardinality(Bare') <= damage'.kills + damage'.faults
    BY <1>2, <2>1, <2>2
  <2> QED
    BY <1>0, <1>1, <2>1, <2>3 DEF CountInv
<1>11. AloneInv'
  BY <1>0, <1>1, <1>3 DEF AloneInv
<1>12. SurviveInv'
  BY <1>0, <1>1, <1>3, <1>5 DEF SurviveInv, FewWithoutManifest, Since
<1> QED
  BY <1>4, <1>6, <1>7, <1>8, <1>9, <1>10, <1>11, <1>12 DEF BackupsInv

LEMMA NextKeeps ==
  ASSUME BackupsInv, Next
  PROVE  BackupsInv'
<1>0. TypeOK /\ RestoreInv
  BY DEF BackupsInv
<1>1. CASE \E j \in Jobs : JobStep(j)
  BY <1>1, JobKeeps
<1>2. CASE Restoring
  <2>1. OnlyRestore /\ RestoreInv' /\ TypeOK'
    <3>1. live' \in Versions
      BY <1>0, <1>2, RestoreKeeps DEF TypeOK
    <3> QED
      BY <1>0, <1>2, <3>1, RestoreKeeps, OnlyRestoreTypes
  <2> QED
    BY <2>1, RestoreLeaves
<1>3. CASE WriteLive
  <2>1. OnlyRestore /\ RestoreInv' /\ TypeOK'
    BY <1>0, <1>3, WriteLiveKeeps, OnlyRestoreTypes
  <2> QED
    BY <2>1, RestoreLeaves
<1> QED
  BY <1>1, <1>2, <1>3, NextSplits

LEMMA StutterKeeps ==
  ASSUME BackupsInv, UNCHANGED vars
  PROVE  BackupsInv'
<1>1. OnlyRestore /\ live' = live /\ restore' = restore /\ dest' = dest
  BY DEF vars, OnlyRestore
<1>2. TypeOK'
  BY <1>1, OnlyRestoreTypes DEF BackupsInv, TypeOK, RestoreRow
<1>3. RestoreInv'
  BY <1>1 DEF BackupsInv, RestoreInv, RestoreSound, Sound, OnlyRestore
<1> QED
  BY <1>1, <1>2, <1>3, RestoreLeaves

LEMMA InitHolds ==
  ASSUME Init
  PROVE  BackupsInv
<1>0. /\ room.keep \in Nat \ {0} /\ room.active \in Nat /\ room.kills \in Nat
      /\ room.faults \in Nat /\ room.rots \in Nat
  BY RoomIs DEF Init
<1>1. TypeOK
  <2>1. /\ live \in Versions /\ room \in BackupRooms
        /\ damage \in [kills : 0..room.kills, faults : 0..room.faults, rots : 0..room.rots]
    BY <1>0, BackupsAssumption DEF Init, Versions
  <2>2. restore \in RestoreRow
    BY DEF Init, NoRestore, RestoreRow
  <2>3. seen \in [Jobs -> SeenRow]
    BY DEF Init, SeenRow
  <2> QED
    BY <2>1, <2>2, <2>3 DEF Init, TypeOK, RestoreRow, SeenRow
<1>2. Copied = {} /\ Bare = {} /\ Working = {} /\ BackupFiles = {}
  BY DEF Init, Copied, Bare, Working, BackupFiles, Exists, Active
<1>3. Copies = 0 /\ Cardinality(Bare) = 0 /\ Cardinality(Working) = 0
  BY <1>2, FS_EmptySet DEF Copies
<1>4. \A j \in Jobs : pc[j] = "idle" /\ mtime[j] = 0 /\ ~Exists(j) /\ file[j] = NoFile
                      /\ manifest[j] = NoFile /\ events[j] = "none"
  BY DEF Init, Exists
<1>5. StageInv
  BY <1>4 DEF StageInv, Active, Written, Unwritten, Removing
<1>6. ContentInv
  BY <1>4 DEF ContentInv, NoFile, Torn
<1>7. TimesInv
  BY <1>2, <1>3, <1>4 DEF TimesInv
<1>8. GoneInv /\ DropInv
  BY <1>2, <1>4 DEF GoneInv, DropInv, Removing
<1>9. CountInv
  BY <1>0, <1>3 DEF CountInv, Init
<1>10. AloneInv /\ SurviveInv
  BY <1>4 DEF AloneInv, SurviveInv, Active, Written, Unwritten, Removing
<1>11. RestoreInv
  BY DEF Init, RestoreInv, RestoreSound, NoRestore
<1> QED
  BY <1>1, <1>5, <1>6, <1>7, <1>8, <1>9, <1>10, <1>11 DEF BackupsInv

LEMMA BackupsHold == Spec => []BackupsInv
<1>1. BackupsInv /\ [Next]_vars => BackupsInv'
  BY NextKeeps, StutterKeeps
<1> QED
  BY <1>1, InitHolds, PTL DEF Spec

-----------------------------------------------------------------------------
(* What follows.                                                           *)

\* Where a manifest is, and nothing was damaged, the file can be restored.
LEMMA CompleteIsRestorable ==
  ASSUME BackupsInv, damage.rots = 0, NEW j \in Complete
  PROVE  j \in BackupFiles /\ Restorable(j)
<1>1. j \in Jobs /\ Exists(j) /\ manifest[j] # NoFile
  BY DEF Complete, BackupFiles
<1>2. file[j] # Torn /\ file[j] # NoFile /\ manifest[j] = file[j]
  BY <1>1 DEF BackupsInv, ContentInv, Exists
<1>3. Sound(file[j])
  BY <1>1, <1>2 DEF BackupsInv, ContentInv
<1> QED
  BY <1>1, <1>2, <1>3 DEF Restorable, BackupFiles

LEMMA CompleteDoes == BackupsInv => CompleteSurvives
<1> SUFFICES ASSUME BackupsInv, FewWithoutManifest, damage.rots = 0,
                    NEW j \in Jobs, events[j] = "succeeded"
             PROVE  \E i \in BackupFiles : Restorable(i)
  BY DEF CompleteSurvives
<1>1. pc[j] \in Written
  BY DEF BackupsInv, StageInv, Written
<1>2. Complete # {}
  BY <1>1 DEF BackupsInv, SurviveInv
<1> QED
  BY <1>2, CompleteIsRestorable

\* When every job started has succeeded, what is in the directory is what has
\* fewer newer copies than are kept.
LEMMA NewestDoes == BackupsInv => NewestKept
<1> SUFFICES ASSUME BackupsInv, \A j \in Jobs : pc[j] \in {"idle", "succeeded"}
             PROVE  LET kept == {j \in Copied : Cardinality(Newer(Copied, j)) < room.keep}
                    IN  /\ BackupFiles = kept
                        /\ damage.rots = 0 => \A j \in kept : manifest[j] = file[j]
  BY DEF NewestKept
<1>0. /\ TypeOK /\ StageInv /\ TimesInv /\ GoneInv /\ DropInv
      /\ Copied \subseteq Jobs /\ Copies \in Nat /\ \A j \in Jobs : mtime[j] \in Nat
      /\ room.keep \in Nat
  BY CopiedIs, RoomIs DEF BackupsInv, TypeOK
<1>1. BackupFiles \subseteq Copied
  BY <1>0, FilesAreCopied
<1>2. ASSUME NEW j \in Copied
      PROVE  j \in BackupFiles <=> Cardinality(Newer(Copied, j)) < room.keep
  <2>1. j \in Jobs /\ mtime[j] \in Nat /\ Cardinality(Newer(Copied, j)) = Copies - mtime[j]
    BY <1>0, NewerCount
  <2>2. pc[j] \in {"idle", "succeeded"}
    BY <2>1
  <2>3. ~Exists(j) => mtime[j] + room.keep <= Copies
    BY <1>0, <2>2 DEF GoneInv, Broken
  <2>4. Exists(j) => ~(mtime[j] + room.keep <= Copies)
    <3>1. \A k \in Jobs : pc[k] \notin Broken /\ ~Handles(k, j)
      BY DEF Broken, Handles, Removing
    <3> QED
      BY <1>0, <2>1, <3>1 DEF DropInv, BackupFiles
  <2>5. Exists(j) <=> Copies - mtime[j] < room.keep
    BY <1>0, <2>1, <2>3, <2>4
  <2> QED
    BY <2>1, <2>5 DEF BackupFiles
<1>3. ASSUME NEW j \in BackupFiles, damage.rots = 0
      PROVE  manifest[j] = file[j]
  <2>1. j \in Jobs /\ Exists(j) /\ pc[j] \in Written
    BY <1>0, <1>3 DEF BackupFiles, StageInv, Placed, Unplaced, Written
  <2>2. manifest[j] # NoFile
    BY <1>0, <2>1 DEF StageInv
  <2> QED
    BY <1>3, <2>1, <2>2 DEF BackupsInv, ContentInv
<1> QED
  BY <1>1, <1>2, <1>3

LEMMA NoAlarm == BackupsInv => NoFalseAlarm
<1> SUFFICES ASSUME BackupsInv, damage.rots = 0,
                    \A j \in Jobs : pc[j] \in {"idle", "succeeded"}, Copied # {}
             PROVE  Status = "healthy"
  BY DEF NoFalseAlarm
<1>0. TypeOK /\ TimesInv /\ StageInv /\ Copied \subseteq Jobs /\ Copies \in Nat
      /\ room.keep \in Nat \ {0}
  BY CopiedIs, RoomIs DEF BackupsInv, TypeOK
<1>1. BackupFiles # {}
  <2>1. PICK m \in Copied : \A x \in Copied : mtime[x] <= mtime[m]
    BY <1>0, NewestExists
  <2>2. Newer(Copied, m) = {}
    BY <1>0, <2>1, CopiedIs DEF Newer
  <2>3. Cardinality(Newer(Copied, m)) < room.keep
    BY <1>0, <2>2, FS_EmptySet
  <2>4. m \in BackupFiles
    BY <2>1, <2>3, NewestDoes DEF NewestKept
  <2> QED
    BY <2>4
<1>2. ASSUME NEW j \in BackupFiles
      PROVE  Restorable(j)
  <2>1. j \in Jobs /\ Exists(j) /\ pc[j] \in Written
    BY <1>0 DEF BackupFiles, StageInv, Placed, Unplaced, Written
  <2>2. j \in Complete
    BY <1>0, <2>1 DEF StageInv, Complete
  <2> QED
    BY <2>2, CompleteIsRestorable
<1> QED
  BY <1>1, <1>2 DEF Status

\* Every variable keeps its type.
THEOREM BackupsTyped == Spec => []TypeOK
<1>1. BackupsInv => TypeOK
  BY DEF BackupsInv
<1> QED
  BY <1>1, BackupsHold, PTL

\* _remove_old_backups, with any number of jobs overlapping, dying and failing:
\* where fewer than keep_last files can be without a manifest, or jobs do not
\* overlap, a backup can be restored once a job has succeeded; and when every job
\* started has succeeded, exactly the newest keep_last are left.
THEOREM RetentionHolds == Spec => []RetentionSafe
<1>1. BackupsInv => RetentionSafe
  BY CompleteDoes, NewestDoes DEF RetentionSafe
<1> QED
  BY <1>1, BackupsHold, PTL

\* check_backup_status never calls invalid or missing what jobs that all
\* succeeded have left.
THEOREM AlarmsAreTrue == Spec => []NoFalseAlarm
<1> QED
  BY NoAlarm, BackupsHold, PTL

\* restore_sqlite_backup leaves no database at its destination that fails
\* verification, whatever jobs and decay do meanwhile.
THEOREM RestoresAreSound == Spec => []RestoreSound
<1>1. BackupsInv => RestoreSound
  BY DEF BackupsInv, RestoreInv
<1> QED
  BY <1>1, BackupsHold, PTL
=================================================================================
