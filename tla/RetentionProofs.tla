-------------------------- MODULE RetentionProofs --------------------------
(***************************************************************************)
(* Retention keeps the archive of its own run and, while the destination   *)
(* of the job stays the same, loses track of none, for any limits, number  *)
(* of runs, faults and crashes, and any calendar.                          *)
(***************************************************************************)
EXTENDS Retention, FiniteSetTheorems, TLAPS

\* What a statement or a file operation does to the bookkeeping of faults.
LEMMA DbTypes ==
    ASSUME TypeOK, count > 0, DbOk \/ DbFails \/ Fault \/ UNCHANGED <<faults, hit>>
    PROVE  /\ faults' \in 0..MaxFaults /\ hit' \subseteq 1..count
           /\ hit \subseteq hit'
           /\ DbFails => cur \in hit' \/ ctxDone
<1>1. cur \in 1..count
  BY RetentionAssumption DEF TypeOK, RunTypeOK, cur
<1>2. CASE UNCHANGED <<faults, hit>>
  BY <1>2, Zenon DEF TypeOK, RunTypeOK, ArchiveTypeOK, DbFails, Fault
<1>3. CASE Fault
  BY <1>1, <1>3, RetentionAssumption DEF Fault, TypeOK, RunTypeOK, ArchiveTypeOK
<1> QED
  BY <1>2, <1>3, Zenon DEF DbOk, DbFails

\* Types of the run and its clock.
LEMMA StepRunTypes ==
    ASSUME RetentionInv, [Next]_vars
    PROVE  RunTypeOK'
<1> TypeOK /\ RunTypeOK /\ (pc # "idle" => count > 0) /\ MaxRuns \in Nat
  BY RetentionAssumption DEF RetentionInv, TypeOK, RunsInOrder
<1> USE DEF RunTypeOK
<1>1. ASSUME NEW t \in Time, NEW d \in Dirs, BeginRun(t, d) PROVE RunTypeOK'
  <2>1. count' \in 0..MaxRuns
    BY <1>1 DEF BeginRun
  <2>2. startedAt' \in [Runs -> Time] /\ dirOf' \in [Runs -> Dirs]
    BY <1>1 DEF BeginRun
  <2> QED
    BY <1>1, <2>1, <2>2 DEF BeginRun
<1>2. CASE FailsEarly
  BY <1>2 DEF FailsEarly
<1>3. CASE Verifies
  BY <1>3 DEF Verifies
<1>4. CASE SkipsRetention \/ ReachesRetention
  BY <1>4 DEF SkipsRetention, ReachesRetention
<1>5. CASE PersistOwn
  BY <1>5, DbTypes DEF PersistOwn
<1>6. ASSUME NEW t \in Time, ListArchived(t) PROVE RunTypeOK'
  BY <1>6, DbTypes DEF ListArchived
<1>7. ASSUME NEW r \in Runs, RemoveFile(r) PROVE RunTypeOK'
  BY <1>7, DbTypes DEF RemoveFile
<1>8. CASE ClearRow
  BY <1>8, DbTypes DEF ClearRow
<1>9. CASE ApplyEnds
  BY <1>9 DEF ApplyEnds
<1>10. CASE FinalUpdate
  BY <1>10, DbTypes DEF FinalUpdate
<1>11. CASE Cancel
  BY <1>11 DEF Cancel
<1>12. CASE Crash
  BY <1>12, RetentionAssumption DEF Crash
<1>13. CASE UNCHANGED vars
  BY <1>13 DEF vars, runVars
<1> QED
  BY <1>1, <1>2, <1>3, <1>4, <1>5, <1>6, <1>7, <1>8, <1>9, <1>10, <1>11, <1>12, <1>13 DEF Next

\* Types of the archives and of what Apply knows of them.
LEMMA StepArchiveTypes ==
    ASSUME RetentionInv, [Next]_vars
    PROVE  ArchiveTypeOK'
<1> /\ TypeOK /\ ArchiveTypeOK /\ count \in Nat /\ cur = count
    /\ pc # "idle" => count > 0
    /\ pc \notin {"delete", "clear"} => todo = {}
    /\ pc = "clear" => victim \notin todo
  BY RetentionAssumption DEF RetentionInv, TypeOK, RunTypeOK, RunsInOrder, RunControl, cur
<1> USE DEF ArchiveTypeOK
<1>1. ASSUME NEW t \in Time, NEW d \in Dirs, BeginRun(t, d) PROVE ArchiveTypeOK'
  <2>1. 1..count \subseteq 1..count' /\ 0..count \subseteq 0..count'
    BY <1>1 DEF BeginRun
  <2> QED
    BY <1>1, <2>1 DEF BeginRun, applyVars
<1>2. CASE FailsEarly \/ SkipsRetention \/ ReachesRetention \/ ApplyEnds
  BY <1>2 DEF FailsEarly, SkipsRetention, ReachesRetention, ApplyEnds, applyVars
<1>3. CASE Verifies
  <2>0. cur \in 0..count
    OBVIOUS
  <2>1. disk' \in [Dirs \X Time -> 0..count]
    BY <1>3, <2>0 DEF Verifies
  <2> QED
    BY <1>3, <2>1 DEF Verifies, applyVars
<1>4. CASE PersistOwn
  <2>1. hit' \subseteq 1..count
    BY <1>4, DbTypes DEF PersistOwn
  <2>2. cur \in 1..count /\ todo' = {}
    BY <1>4 DEF PersistOwn, applyVars
  <2>3. named' \in {named, named \cup {cur}}
    BY <1>4, Zenon DEF PersistOwn
  <2> QED
    BY <1>4, <2>1, <2>2, <2>3 DEF PersistOwn, applyVars
<1>5. ASSUME NEW t \in Time, ListArchived(t) PROVE ArchiveTypeOK'
  BY <1>5, DbTypes DEF ListArchived
<1>6. ASSUME NEW r \in Runs, RemoveFile(r) PROVE ArchiveTypeOK'
  <2>1. hit' \subseteq 1..count
    BY <1>6, DbTypes DEF RemoveFile
  <2>2. disk' \in [Dirs \X Time -> 0..count] /\ victim' \in 0..count
    BY <1>6 DEF RemoveFile, IsNext, None
  <2> QED
    BY <1>6, <2>1, <2>2 DEF RemoveFile
<1>7. CASE ClearRow
  <2>1. hit' \subseteq 1..count
    BY <1>7, DbTypes DEF ClearRow
  <2>2. named' \subseteq 1..count /\ todo' \subseteq named'
    BY <1>7 DEF ClearRow
  <2> QED
    BY <1>7, <2>1, <2>2 DEF ClearRow, None
<1>8. CASE FinalUpdate
  <2>1. hit' \subseteq 1..count
    BY <1>8, DbTypes DEF FinalUpdate
  <2>2. named' \in {named, named \cup {count}, named \ {count}} /\ todo' = {}
    BY <1>8, Zenon DEF FinalUpdate, applyVars
  <2> QED
    BY <1>8, <2>1, <2>2 DEF FinalUpdate, applyVars
<1>9. CASE Cancel
  BY <1>9 DEF Cancel, applyVars
<1>10. CASE Crash
  BY <1>10 DEF Crash, None
<1>11. CASE UNCHANGED vars
  BY <1>11 DEF vars, applyVars
<1> QED
  BY <1>1, <1>2, <1>3, <1>4, <1>5, <1>6, <1>7, <1>8, <1>9, <1>10, <1>11 DEF Next

\* Runs begin in order.
LEMMA StepOrder ==
    ASSUME RetentionInv, [Next]_vars
    PROVE  RunsInOrder'
<1> RunsInOrder /\ RunTypeOK /\ MaxTime \in Nat /\ MaxRuns \in Nat
  BY RetentionAssumption DEF RetentionInv, TypeOK
<1>1. ASSUME NEW t \in Time, NEW d \in Dirs, BeginRun(t, d) PROVE RunsInOrder'
  <2>1. /\ count' = count + 1 /\ startedAt'[count'] = t /\ clock' = t /\ clock < t
        /\ count \in Nat /\ clock \in Int /\ t \in Int
    BY <1>1 DEF BeginRun, RunTypeOK, Runs, Time
  <2>2. ASSUME NEW r \in 1..count
        PROVE  startedAt'[r] = startedAt[r] /\ startedAt[r] \in Int /\ startedAt[r] <= clock
    BY <1>1, <2>1 DEF BeginRun, RunTypeOK, Runs, Time, RunsInOrder
  <2>3. ASSUME NEW r \in 1..count', r \notin 1..count PROVE r = count'
    BY <2>1, <2>3
  <2>4. \A r \in 1..count' : startedAt'[r] <= clock'
    BY <2>1, <2>2, <2>3
  <2>5. ASSUME NEW q \in 1..count', NEW r \in 1..count', q < r PROVE startedAt'[q] < startedAt'[r]
    <3>1. q \in 1..count
      BY <2>1, <2>5
    <3>2. CASE r \in 1..count
      BY <2>2, <2>5, <3>1, <3>2 DEF RunsInOrder
    <3>3. CASE r = count'
      BY <2>1, <2>2, <3>1, <3>3
    <3> QED
      BY <2>3, <3>2, <3>3
  <2> QED
    BY <2>1, <2>4, <2>5 DEF RunsInOrder
<1>2. ASSUME NEW t \in Time, ListArchived(t) PROVE RunsInOrder'
  <2>1. /\ UNCHANGED <<count, startedAt>> /\ clock' = t /\ clock <= t /\ count > 0
        /\ clock \in Int /\ t \in Int
    BY <1>2 DEF ListArchived, RunTypeOK, Time, RunsInOrder
  <2>2. \A r \in 1..count : startedAt[r] \in Int
    BY DEF RunTypeOK, Runs, Time
  <2> QED
    BY <2>1, <2>2 DEF RunsInOrder
<1>3. CASE UNCHANGED <<count, startedAt, clock>> /\ (pc' # "idle" => pc # "idle")
  BY <1>3 DEF RunsInOrder
<1>4. CASE FailsEarly \/ Verifies \/ SkipsRetention \/ ReachesRetention \/ PersistOwn \/ ClearRow
           \/ ApplyEnds
  BY <1>3, <1>4
     DEF FailsEarly, Verifies, SkipsRetention, ReachesRetention, PersistOwn, ClearRow, ApplyEnds
<1>5. CASE FinalUpdate \/ Cancel \/ Crash \/ \E r \in Runs : RemoveFile(r)
  BY <1>3, <1>5 DEF FinalUpdate, Cancel, Crash, RemoveFile
<1>6. CASE UNCHANGED vars
  BY <1>3, <1>6 DEF vars, runVars
<1> QED
  BY <1>1, <1>2, <1>4, <1>5, <1>6 DEF Next

\* The run in progress is the first in the list, so keep_last protects it.
LEMMA OwnIsFirst ==
    ASSUME RetentionInv, pc # "idle", KeepLast # 0, NEW t
    PROVE  ~shouldDelete(cur, t)
<1>1. ASSUME NEW q \in named PROVE ~(startedAt[q] > startedAt[cur])
  <2>1. q \in 1..count /\ count \in Nat /\ count > 0
    BY <1>1 DEF RetentionInv, TypeOK, RunTypeOK, ArchiveTypeOK, RunsInOrder
  <2>2. q = cur \/ (q < cur /\ cur \in 1..count)
    BY <2>1 DEF cur
  <2>3. q < cur => startedAt[q] < startedAt[cur]
    BY <2>1, <2>2 DEF RetentionInv, RunsInOrder
  <2>4. startedAt[q] \in Int /\ startedAt[cur] \in Int
    <3>1. q \in Runs /\ cur \in Runs
      BY <2>1, RetentionAssumption DEF RetentionInv, TypeOK, RunTypeOK, Runs, cur
    <3>2. startedAt \in [Runs -> Time] /\ Time \subseteq Int
      BY RetentionAssumption DEF RetentionInv, TypeOK, RunTypeOK, Time
    <3> QED
      BY <3>1, <3>2
  <2> QED
    BY <2>2, <2>3, <2>4
<1>2. {q \in named : startedAt[q] > startedAt[cur]} = {}
  BY <1>1
<1>3. indexOf(cur) = 0
  BY <1>2, FS_EmptySet DEF indexOf
<1> QED
  BY <1>3, RetentionAssumption DEF shouldDelete

\* What the file lemmas need of the types: a path is a place on the disk, and a
\* file belongs to a run that has begun.
LEMMA FileFacts ==
    ASSUME RetentionInv
    PROVE  /\ count \in Nat /\ (pc # "idle" => cur \in 1..count) /\ None \notin 1..count
           /\ disk \in [Dirs \X Time -> 0..count]
           /\ \A r \in Runs : Path(r) \in Dirs \X Time
           /\ pc # "idle" => \A r \in Runs : removePath(r) \in Dirs \X Time
           /\ \A r \in 1..count : r \in Runs
<1>1. /\ count \in Nat /\ count <= MaxRuns /\ disk \in [Dirs \X Time -> 0..count]
      /\ startedAt \in [Runs -> Time] /\ dirOf \in [Runs -> Dirs]
  BY RetentionAssumption DEF RetentionInv, TypeOK, RunTypeOK, ArchiveTypeOK
<1>2. pc # "idle" => count > 0
  BY DEF RetentionInv, RunsInOrder
<1>3. \A r \in 1..count : r \in Runs
  BY <1>1, RetentionAssumption DEF Runs
<1>4. \A r \in Runs : ArchiveFileName(r) \in Time
  BY <1>1, RetentionAssumption DEF ArchiveFileName
<1>5. \A r \in Runs : Path(r) \in Dirs \X Time
  BY <1>1, <1>4 DEF Path
<1>6. pc # "idle" => \A r \in Runs : removePath(r) \in Dirs \X Time
  BY <1>1, <1>2, <1>3, <1>4 DEF removePath, cur
<1> QED
  BY <1>1, <1>2, <1>3, <1>5, <1>6 DEF cur, None

\* Control.
LEMMA StepControl ==
    ASSUME RetentionInv, [Next]_vars
    PROVE  RunControl'
<1> /\ TypeOK /\ RunControl /\ (pc # "idle" => count > 0)
    /\ hasName \in BOOLEAN /\ verified \in BOOLEAN /\ ctxDone \in BOOLEAN
  BY DEF RetentionInv, RunsInOrder, TypeOK, RunTypeOK
<1> USE DEF RunControl, cur
<1>1. ASSUME NEW t \in Time, NEW d \in Dirs, BeginRun(t, d) PROVE RunControl'
  <2>1. todo' = {} /\ pc' = "stages" /\ ~verified' /\ ~hasName' /\ ~ctxDone'
    BY <1>1 DEF BeginRun, applyVars
  <2> QED
    BY <2>1
<1>2. CASE FailsEarly
  BY <1>2 DEF FailsEarly, applyVars
<1>3. CASE Verifies
  BY <1>3 DEF Verifies, applyVars
<1>4. CASE SkipsRetention \/ ReachesRetention
  BY <1>4 DEF SkipsRetention, ReachesRetention, applyVars
<1>5. CASE PersistOwn
  BY <1>5, DbTypes DEF PersistOwn, applyVars
<1>6. ASSUME NEW t \in Time, ListArchived(t) PROVE RunControl'
  <2>1. hit \subseteq hit' /\ pc = "list"
    BY <1>6, DbTypes DEF ListArchived
  <2>2. KeepLast # 0 => cur \notin todo'
    BY <1>6, <2>1, OwnIsFirst DEF ListArchived
  <2> QED
    BY <1>6, <2>1, <2>2 DEF ListArchived
<1>7. ASSUME NEW r \in Runs, RemoveFile(r) PROVE RunControl'
  <2>1. hit \subseteq hit' /\ pc = "delete" /\ r \in todo /\ todo' = todo \ {r}
    BY <1>7, DbTypes DEF RemoveFile, IsNext
  <2>2. r \in 1..count /\ count \in Nat /\ r > 0 /\ removePath(r) \in Dirs \X Time
    BY <2>1, FileFacts DEF TypeOK, RunTypeOK, ArchiveTypeOK
  <2>3. disk' = [disk EXCEPT ![removePath(r)] = None] => disk'[removePath(r)] = None
    BY <2>2 DEF TypeOK, ArchiveTypeOK
  <2>4. removePath(r)' = removePath(r)
    BY <1>7 DEF RemoveFile, removePath, ArchiveFileName
  <2> QED
    BY <1>7, <2>1, <2>2, <2>3, <2>4 DEF RemoveFile
<1>8. CASE ClearRow
  BY <1>8, DbTypes DEF ClearRow
<1>9. CASE ApplyEnds
  BY <1>9 DEF ApplyEnds, applyVars
<1>10. CASE FinalUpdate
  BY <1>10 DEF FinalUpdate, applyVars
<1>11. CASE Cancel
  BY <1>11 DEF Cancel, applyVars, removePath, ArchiveFileName
<1>12. CASE Crash
  BY <1>12 DEF Crash
<1>13. CASE UNCHANGED vars
  BY <1>13 DEF vars, runVars, applyVars, removePath, ArchiveFileName
<1> QED
  BY <1>1, <1>2, <1>3, <1>4, <1>5, <1>6, <1>7, <1>8, <1>9, <1>10, <1>11, <1>12, <1>13 DEF Next

\* A step that leaves the files and the run in progress alone keeps what is
\* said about them.
LEMMA QuietStep ==
    ASSUME RetentionInv, UNCHANGED <<count, startedAt, dirOf, disk, verified>>,
           pc' # "idle" => pc # "idle"
    PROVE  FilesVerified' /\ OwnFile'
BY DEF RetentionInv, FilesVerified, OwnFile, HasFile, Path, Unique, ArchiveFileName, cur

\* Files on the disk are verified, and the own one stays.
LEMMA StepFiles ==
    ASSUME RetentionInv, [Next]_vars
    PROVE  FilesVerified' /\ OwnFile'
<1>1. ASSUME NEW t \in Time, NEW d \in Dirs, BeginRun(t, d) PROVE FilesVerified' /\ OwnFile'
  <2>1. count' = count + 1 /\ disk' = disk /\ ~verified' /\ count \in Nat /\ count + 1 \in Runs
    BY <1>1, FileFacts, RetentionAssumption DEF BeginRun, Runs, RetentionInv, TypeOK, RunTypeOK
  <2>2. startedAt'[count + 1] = t /\ dirOf'[count + 1] = d
    BY <1>1, <2>1 DEF BeginRun, RetentionInv, TypeOK, RunTypeOK
  <2>3. LocalTime[t] \in Time
    BY RetentionAssumption
  <2>4. disk[<<d, LocalTime[t]>>] # count + 1
    BY <2>1, <2>3, FileFacts
  <2> QED
    BY <2>1, <2>2, <2>4 DEF FilesVerified, OwnFile, HasFile, Path, ArchiveFileName, cur
<1>2. CASE Verifies
  <2>1. /\ verified' /\ UNCHANGED <<count, startedAt, dirOf>>
        /\ disk' = [disk EXCEPT ![Path(cur)] = cur] /\ pc # "idle"
    BY <1>2 DEF Verifies
  <2>2. disk'[Path(cur)] = cur
    BY <2>1, FileFacts
  <2> QED
    BY <2>1, <2>2 DEF FilesVerified, OwnFile, HasFile, Path, ArchiveFileName, cur
<1>3. ASSUME NEW r \in Runs, RemoveFile(r) PROVE FilesVerified' /\ OwnFile'
  <2>1. CASE UNCHANGED disk
    BY <1>3, <2>1, QuietStep DEF RemoveFile
  <2>2. CASE disk' = [disk EXCEPT ![removePath(r)] = None]
    <3>1. /\ r \in todo /\ r \in 1..count /\ pc = "delete"
          /\ UNCHANGED <<count, startedAt, dirOf, verified>>
      BY <1>3 DEF RemoveFile, IsNext, RetentionInv, TypeOK, ArchiveTypeOK
    <3>2. verified /\ (KeepLast # 0 => r # cur)
      BY <3>1 DEF RetentionInv, RunControl
    <3>3. FilesVerified'
      BY <3>1, <3>2 DEF FilesVerified
    <3>4. ASSUME KeepLast # 0, Unique(cur) PROVE disk'[Path(cur)] = cur
      <4>1. removePath(r) # Path(cur)
        BY <3>1, <3>2, <3>4 DEF Unique, removePath, Path
      <4>2. Path(cur) \in Dirs \X Time /\ removePath(r) \in Dirs \X Time
        BY <3>1, FileFacts
      <4>3. disk[Path(cur)] = cur
        BY <3>1, <3>2, <3>4 DEF RetentionInv, OwnFile, HasFile
      <4> QED
        BY <2>2, <4>1, <4>2, <4>3, FileFacts
    <3> QED
      BY <3>1, <3>3, <3>4 DEF OwnFile, HasFile, Path, Unique, ArchiveFileName, cur
  <2> QED
    BY <1>3, <2>1, <2>2 DEF RemoveFile
<1>4. CASE FailsEarly \/ SkipsRetention \/ ReachesRetention \/ PersistOwn \/ ClearRow \/ ApplyEnds
  BY <1>4, QuietStep DEF FailsEarly, SkipsRetention, ReachesRetention, PersistOwn, ClearRow, ApplyEnds
<1>5. CASE FinalUpdate \/ Cancel \/ Crash \/ \E t \in Time : ListArchived(t)
  BY <1>5, QuietStep DEF FinalUpdate, Cancel, Crash, ListArchived
<1>6. CASE UNCHANGED vars
  BY <1>6, QuietStep DEF vars, runVars
<1> QED
  BY <1>1, <1>2, <1>3, <1>4, <1>5, <1>6 DEF Next

\* A step that adds no file, keeps the run in progress and forgets no name.
LEMMA RememberingStep ==
    ASSUME NoForgottenFile, UNCHANGED <<count, startedAt, dirOf>>, pc # "idle" => pc' # "idle",
           \A r \in 1..count : disk'[Path(r)] = r =>
               HasFile(r) /\ (r \in named => r \in named' \/ Moved(r)) /\ (r \in hit => r \in hit')
    PROVE  NoForgottenFile'
<1>1. \A r \in 1..count : (Path(r)' = Path(r)) /\ (Moved(r)' <=> Moved(r))
  BY DEF Path, ArchiveFileName, Moved
<1> QED
  BY <1>1 DEF NoForgottenFile, HasFile, cur

\* Retention loses track of no file.
LEMMA StepRemembers ==
    ASSUME RetentionInv, [Next]_vars
    PROVE  NoForgottenFile'
<1> NoForgottenFile /\ TypeOK /\ (pc # "idle" => count > 0)
  BY DEF RetentionInv, RunsInOrder
<1>1. ASSUME NEW t \in Time, NEW d \in Dirs, BeginRun(t, d) PROVE NoForgottenFile'
  <2>1. /\ pc = "idle" /\ pc' # "idle" /\ count' = count + 1 /\ UNCHANGED <<disk, named, hit>>
        /\ count \in Nat
    BY <1>1, FileFacts DEF BeginRun
  <2>2. ASSUME NEW r \in 1..count PROVE startedAt'[r] = startedAt[r] /\ dirOf'[r] = dirOf[r]
    BY <1>1, <2>1, FileFacts DEF BeginRun, TypeOK, RunTypeOK
  <2>3. ASSUME NEW r \in 1..count, Moved(r) PROVE Moved(r)'
    <3>1. PICK q \in (r + 1)..count : dirOf[q] # dirOf[r]
      BY <2>3 DEF Moved
    <3>2. q \in 1..count /\ q \in (r + 1)..count'
      BY <2>1, <3>1
    <3> QED
      BY <2>2, <3>1, <3>2 DEF Moved
  <2>4. ASSUME NEW r \in 1..count, disk'[Path(r)'] = r PROVE r \in named' \/ r \in hit' \/ Moved(r)'
    <3>1. Path(r)' = Path(r)
      BY <2>2 DEF Path, ArchiveFileName
    <3> QED
      BY <2>1, <2>3, <2>4, <3>1 DEF NoForgottenFile, HasFile
  <2>5. \A r \in 1..count' : r \in 1..count \/ r = count'
    BY <2>1
  <2> QED
    BY <2>1, <2>4, <2>5 DEF NoForgottenFile, HasFile, cur
<1>2. CASE Verifies
  <2>1. /\ pc # "idle" /\ pc' # "idle" /\ UNCHANGED <<count, startedAt, dirOf, named, hit>>
        /\ disk' = [disk EXCEPT ![Path(cur)] = cur]
    BY <1>2 DEF Verifies
  <2>2. ASSUME NEW r \in 1..count, r # cur, disk'[Path(r)] = r PROVE HasFile(r)
    <3>1. Path(r) \in Dirs \X Time
      BY FileFacts
    <3> QED
      BY <2>1, <2>2, <3>1, FileFacts DEF HasFile
  <2>3. \A r \in 1..count : (Path(r)' = Path(r)) /\ (Moved(r)' <=> Moved(r))
    BY <2>1 DEF Path, ArchiveFileName, Moved
  <2> QED
    BY <2>1, <2>2, <2>3 DEF NoForgottenFile, HasFile, cur
<1>3. CASE PersistOwn
  <2>1. hit \subseteq hit'
    BY <1>3, DbTypes DEF PersistOwn
  <2>2. named \subseteq named'
    BY <1>3, Zenon DEF PersistOwn
  <2> QED
    BY <1>3, <2>1, <2>2, RememberingStep DEF PersistOwn, HasFile
<1>4. ASSUME NEW t \in Time, ListArchived(t) PROVE NoForgottenFile'
  <2>1. hit \subseteq hit'
    BY <1>4, DbTypes DEF ListArchived
  <2> QED
    BY <1>4, <2>1, RememberingStep DEF ListArchived, HasFile
<1>5. ASSUME NEW r \in Runs, RemoveFile(r) PROVE NoForgottenFile'
  <2>1. hit \subseteq hit'
    BY <1>5, DbTypes DEF RemoveFile
  <2>2. ASSUME NEW q \in 1..count, disk'[Path(q)] = q PROVE HasFile(q)
    <3>1. Path(q) \in Dirs \X Time /\ removePath(r) \in Dirs \X Time /\ q # None
      BY <1>5, FileFacts DEF RemoveFile
    <3>2. disk' \in {disk, [disk EXCEPT ![removePath(r)] = None]}
      BY <1>5 DEF RemoveFile
    <3> QED
      BY <2>2, <3>1, <3>2, FileFacts DEF HasFile
  <2> QED
    BY <1>5, <2>1, <2>2, RememberingStep DEF RemoveFile
<1>6. CASE ClearRow
  <2>1. hit \subseteq hit'
    BY <1>6, DbTypes DEF ClearRow
  <2>2. disk[removePath(victim)] = None /\ named \ {victim} \subseteq named' /\ pc # "idle"
    BY <1>6 DEF ClearRow, RetentionInv, RunControl
  <2>3. ASSUME NEW r \in 1..count, HasFile(r), r = victim PROVE Moved(r)
    <3>1. Path(r) # removePath(r) /\ cur \in 1..count /\ count \in Nat
      BY <2>2, <2>3, FileFacts DEF HasFile
    <3>2. dirOf[cur] # dirOf[r]
      BY <3>1 DEF Path, removePath
    <3>3. cur \in (r + 1)..count
      BY <3>1, <3>2 DEF cur
    <3> QED
      BY <3>2, <3>3 DEF Moved
  <2> QED
    BY <1>6, <2>1, <2>2, <2>3, RememberingStep DEF ClearRow, HasFile
<1>7. CASE FinalUpdate
  <2>1. hit \subseteq hit' /\ UNCHANGED <<count, startedAt, disk>> /\ pc # "idle"
    BY <1>7, DbTypes DEF FinalUpdate
  <2>2. named \ {cur} \subseteq named'
    BY <1>7, Zenon DEF FinalUpdate
  <2>3. HasFile(cur) => hasName
    BY <2>1 DEF RetentionInv, FilesVerified, RunControl
  <2>4. ctxDone => cur \in hit
    BY <2>1 DEF RetentionInv, RunControl
  <2>5. HasFile(cur) => cur \in named' \/ cur \in hit'
    <3>1. CASE DbOk /\ named' = IF hasName THEN named \cup {cur} ELSE named \ {cur}
      BY <2>3, <3>1
    <3>2. CASE DbFails
      BY <2>1, <2>4, <3>2, DbTypes
    <3> QED
      BY <1>7, <3>1, <3>2 DEF FinalUpdate
  <2>6. \A r \in 1..count : (Path(r)' = Path(r)) /\ (Moved(r)' <=> Moved(r))
    BY <1>7 DEF FinalUpdate, Path, ArchiveFileName, Moved
  <2> QED
    BY <2>1, <2>2, <2>5, <2>6 DEF NoForgottenFile, HasFile, cur
<1>8. CASE FailsEarly \/ SkipsRetention \/ ReachesRetention \/ ApplyEnds \/ Cancel
  BY <1>8, RememberingStep
     DEF FailsEarly, SkipsRetention, ReachesRetention, ApplyEnds, Cancel, HasFile
<1>9. CASE Crash
  BY <1>9 DEF Crash, NoForgottenFile, HasFile, Path, Moved, ArchiveFileName, cur
<1>10. CASE UNCHANGED vars
  BY <1>10, RememberingStep DEF vars, runVars, HasFile
<1> QED
  BY <1>1, <1>2, <1>3, <1>4, <1>5, <1>6, <1>7, <1>8, <1>9, <1>10 DEF Next

\* The inductive invariant holds in every reachable state.
LEMMA RetentionInvariant == Spec => []RetentionInv
<1>1. Init => RetentionInv
  <2> SUFFICES ASSUME Init PROVE RetentionInv
    OBVIOUS
  <2>1. TypeOK
    <3>1. RunTypeOK
      <4>1. 0 \in Time /\ 0 \in 0..MaxRuns /\ 0 \in 0..MaxFaults /\ 0 \in 0..MaxCrashes
        BY RetentionAssumption DEF Time
      <4>2. startedAt \in [Runs -> Time] /\ dirOf \in [Runs -> Dirs]
        BY <4>1, RetentionAssumption DEF Init
      <4> QED
        BY <4>1, <4>2 DEF Init, RunTypeOK
    <3>2. disk \in [Dirs \X Time -> 0..count] /\ 0 \in 0..count
      BY DEF Init, None
    <3>3. ArchiveTypeOK
      BY <3>2 DEF Init, ArchiveTypeOK, None
    <3> QED
      BY <3>1, <3>3 DEF TypeOK
  <2>2. RunsInOrder /\ RunControl
    BY DEF Init, RunsInOrder, RunControl, cur
  <2> QED
    BY <2>1, <2>2 DEF Init, RetentionInv, FilesVerified, OwnFile, NoForgottenFile
<1>2. RetentionInv /\ [Next]_vars => RetentionInv'
  BY StepRunTypes, StepArchiveTypes, StepOrder, StepControl, StepFiles, StepRemembers
     DEF RetentionInv, TypeOK
<1> QED
  BY <1>1, <1>2, PTL DEF Spec

\* The types hold for every policy, calendar, number of runs, faults and
\* crashes.
THEOREM RetentionTypes == Spec => []TypeOK
<1>1. RetentionInv => TypeOK
  BY DEF RetentionInv
<1> QED
  BY <1>1, RetentionInvariant, PTL

\* With keep_last, Apply never deletes the archive of the run it is called
\* for, unless another run of the job shows the same local time.
THEOREM OwnArchiveIsSafe == Spec => []OwnArchiveSurvives
<1>1. RetentionInv => OwnArchiveSurvives
  BY DEF RetentionInv, OwnFile, OwnArchiveSurvives
<1> QED
  BY <1>1, RetentionInvariant, PTL

\* An archive of an undisturbed run can be on the disk without its name in the
\* history only if a later run of the job had another destination.
THEOREM NothingForgotten == Spec => []NoForgottenFile
<1>1. RetentionInv => NoForgottenFile
  BY DEF RetentionInv
<1> QED
  BY <1>1, RetentionInvariant, PTL

-----------------------------------------------------------------------------
(* The limits are enforced *)

\* Clearing rows only moves the others forward in the list, so what was within
\* the limits stays there.
LEMMA ShorterList ==
    ASSUME RetentionInv, named' \subseteq named, UNCHANGED <<startedAt, clock>>,
           NEW r, ~shouldDelete(r, clock)
    PROVE  ~shouldDelete(r, clock)'
<1> DEFINE before == {q \in named : startedAt[q] > startedAt[r]}
           after == {q \in named' : startedAt[q] > startedAt[r]}
<1>1. IsFiniteSet(before) /\ after \subseteq before
  <2>1. named \subseteq 1..count /\ count \in Int /\ 1 \in Int
    BY DEF RetentionInv, TypeOK, RunTypeOK, ArchiveTypeOK
  <2>2. IsFiniteSet(1..count)
    BY <2>1, FS_Interval
  <2>3. before \subseteq 1..count
    BY <2>1
  <2> QED
    BY <2>2, <2>3, FS_Subset
<1> HIDE DEF before, after
<1>2. Cardinality(after) <= Cardinality(before) /\ Cardinality(after) \in Nat /\ Cardinality(before) \in Nat
  BY <1>1, FS_Subset, FS_CardinalityType
<1>3. indexOf(r) = Cardinality(before) /\ indexOf(r)' = Cardinality(after)
  BY DEF indexOf, before, after
<1>4. ASSUME KeepLast # 0, indexOf(r) < KeepLast PROVE indexOf(r)' < KeepLast
  BY <1>2, <1>3, <1>4, RetentionAssumption
<1> QED
  BY <1>4 DEF shouldDelete

\* Every step keeps track of what is left to delete.
LEMMA StepPurged ==
    ASSUME RetentionInv, Purged, [Next]_vars
    PROVE  Purged'
<1>0. RunControl /\ TypeOK
  BY DEF RetentionInv
<1>1. CASE pc' \notin {"delete", "clear"}
  BY <1>1 DEF Purged
<1>2. ASSUME NEW t \in Time, ListArchived(t) PROVE Purged'
  <2>1. CASE todo' = {r \in named : shouldDelete(r, t)}
    <3>1. UNCHANGED <<startedAt, named>> /\ clock' = t
      BY <1>2 DEF ListArchived
    <3>2. \A r : shouldDelete(r, clock)' <=> shouldDelete(r, t)
      BY <3>1 DEF shouldDelete, indexOf
    <3> QED
      BY <2>1, <3>1, <3>2 DEF Purged
  <2>2. CASE pc' = "final"
    BY <1>1, <2>2
  <2> QED
    BY <1>2, <2>1, <2>2 DEF ListArchived
<1>3. ASSUME NEW q \in Runs, RemoveFile(q) PROVE Purged'
  <2>1. UNCHANGED <<startedAt, named, clock, count>> /\ pc = "delete" /\ todo' = todo \ {q}
    BY <1>3 DEF RemoveFile
  <2>2. \A r : shouldDelete(r, clock)' <=> shouldDelete(r, clock)
    BY <2>1 DEF shouldDelete, indexOf
  <2>3. CASE victim' = q /\ pc' = "clear" /\ hit' = hit
    <3>1. SUFFICES ASSUME cur' \notin hit', NEW r \in named'
                   PROVE  ~shouldDelete(r, clock)' \/ r \in todo' \/ r = victim'
      BY <2>3 DEF Purged
    <3>2. ~shouldDelete(r, clock) \/ r \in todo
      BY <2>1, <2>3, <3>1 DEF Purged, cur
    <3> QED
      BY <2>1, <2>2, <2>3, <3>2
  <2>4. CASE Fault
    BY <2>1, <2>4 DEF Fault, Purged, cur
  <2> QED
    BY <1>3, <2>3, <2>4 DEF RemoveFile
<1>4. CASE ClearRow
  <2>1. UNCHANGED <<startedAt, clock, count, todo>> /\ pc = "clear" /\ pc' = "delete"
    BY <1>4 DEF ClearRow
  <2>2. CASE hit' = hit /\ named' = named \ {victim}
    <3>1. SUFFICES ASSUME cur' \notin hit', NEW r \in named'
                   PROVE  ~shouldDelete(r, clock)' \/ r \in todo'
      BY DEF Purged
    <3>2. ~shouldDelete(r, clock) \/ r \in todo
      BY <2>1, <2>2, <3>1 DEF Purged, cur
    <3> QED
      BY <2>1, <2>2, <3>2, ShorterList
  <2>3. CASE DbFails
    <3>1. cur' \in hit'
      BY <1>0, <2>1, <2>3 DEF DbFails, Fault, RunControl, cur
    <3> QED
      BY <3>1 DEF Purged
  <2> QED
    BY <1>4, <2>2, <2>3 DEF ClearRow, DbOk
<1>5. CASE Cancel
  <2>1. cur' \in hit'
    BY <1>5 DEF Cancel, cur
  <2> QED
    BY <2>1 DEF Purged
<1>6. CASE UNCHANGED vars
  BY <1>6 DEF vars, runVars, applyVars, Purged, shouldDelete, indexOf, cur
<1>7. ASSUME NEW t \in Time, NEW d \in Dirs, BeginRun(t, d) PROVE Purged'
  BY <1>1, <1>7 DEF BeginRun
<1>8. CASE FailsEarly \/ Verifies \/ SkipsRetention \/ ReachesRetention \/ PersistOwn \/ ApplyEnds
           \/ FinalUpdate \/ Crash
  BY <1>1, <1>8
     DEF FailsEarly, Verifies, SkipsRetention, ReachesRetention, PersistOwn, ApplyEnds, FinalUpdate, Crash
<1> QED
  BY <1>2, <1>3, <1>4, <1>5, <1>6, <1>7, <1>8 DEF Next

\* When Apply has gone through undisturbed, no run outside the limits has a
\* name any more, whatever crashes and errors left behind in earlier runs
\* (Applier.Apply, shouldDelete).
THEOREM LimitsAreEnforced == Spec => []PolicyEnforced
<1>1. Init => Purged
  BY DEF Init, Purged
<1>2. RetentionInv /\ Purged /\ [Next]_vars => Purged'
  BY StepPurged
<1>3. Purged => PolicyEnforced
  BY DEF Purged, PolicyEnforced
<1> QED
  BY <1>1, <1>2, <1>3, RetentionInvariant, PTL DEF Spec
=============================================================================
