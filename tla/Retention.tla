----------------------------- MODULE Retention -----------------------------
(***************************************************************************)
(* The local archives of one job over many runs: what a run does to its    *)
(* row and to the destination directory, and Applier.Apply, which deletes  *)
(* archives file by file (internal/retention, backup/retention_stage.go,   *)
(* the archive columns of store/runs.go).                                  *)
(*                                                                         *)
(* Runs of a job come one after the other (module Service).  Their start   *)
(* times differ and grow; the file name has the local time of the start,   *)
(* which may repeat itself when the clocks go back.  Each run works on the *)
(* job as it was loaded, and jobs.update may have changed the destination  *)
(* directory since the run before.  A limit of 0 stands for one that is    *)
(* not configured.                                                         *)
(***************************************************************************)
EXTENDS Integers, FiniteSets

CONSTANTS
    MaxRuns,    \* bound on runs
    MaxTime,    \* bound on the clock, in days
    LocalTime,  \* local time that a file name shows for a start time
    Dirs,       \* directories the job may have as its local destination
    KeepLast, MaxAge,
    MaxFaults,  \* bound on failing updates, listings and file operations
    MaxCrashes  \* bound on crashes

Runs == 1..MaxRuns
Time == 0..MaxTime

\* No file, no run.
None == 0

ASSUME RetentionAssumption ==
    /\ MaxRuns \in Nat \ {0} /\ MaxTime \in Nat
    /\ KeepLast \in Nat /\ MaxAge \in Nat
    /\ LocalTime \in [Time -> Time] /\ Dirs # {}
    /\ MaxFaults \in Nat /\ MaxCrashes \in Nat

VARIABLES
    clock,
    count,      \* runs begun so far; the last one may be in progress
    pc,         \* where the run in progress is, "idle" if there is none
    startedAt,  \* started_at column
    dirOf,      \* LocalDestination of the job the run has loaded
    named,      \* rows with a non-empty archive_name
    disk,       \* archive files: directory and name -> run that wrote the file
    hasName,    \* ArchiveName of the run in memory has been set
    verified,   \* the archive of the run in progress is verified and renamed
    ctxDone,    \* the context of the run has been cancelled
    todo,       \* archives Apply has still to delete
    victim,     \* archive whose file has just been removed
    faults, crashes,
    hit         \* history: runs touched by a crash, a cancellation or a fault

runVars == <<pc, hasName, verified, ctxDone>>
applyVars == <<todo, victim>>
vars == <<clock, count, startedAt, dirOf, named, disk, runVars, applyVars, faults, crashes, hit>>

-----------------------------------------------------------------------------

RunTypeOK ==
    /\ clock \in Time /\ count \in 0..MaxRuns
    /\ pc \in {"idle", "stages", "later", "persist", "list", "delete", "clear", "final"}
    /\ startedAt \in [Runs -> Time] /\ dirOf \in [Runs -> Dirs]
    /\ hasName \in BOOLEAN /\ verified \in BOOLEAN /\ ctxDone \in BOOLEAN
    /\ faults \in 0..MaxFaults /\ crashes \in 0..MaxCrashes

ArchiveTypeOK ==
    /\ disk \in [Dirs \X Time -> 0..count]
    /\ named \subseteq 1..count /\ hit \subseteq 1..count
    /\ todo \subseteq named /\ victim \in 0..count

TypeOK == RunTypeOK /\ ArchiveTypeOK

\* The run in progress; the last one begun when there is none.
cur == count

\* ArchiveFileName
ArchiveFileName(r) == LocalTime[startedAt[r]]

\* Where a run puts its archive.
Path(r) == <<dirOf[r], ArchiveFileName(r)>>

\* Where the run in progress looks for the archive of a run: in the directory
\* of its own job record.
removePath(r) == <<dirOf[cur], ArchiveFileName(r)>>

Fault == faults < MaxFaults /\ faults' = faults + 1 /\ hit' = hit \cup {cur}

\* A statement through the context of the run.
DbOk == ~ctxDone /\ UNCHANGED <<faults, hit>>
DbFails == IF ctxDone THEN UNCHANGED <<faults, hit>> ELSE Fault

Init ==
    /\ clock = 0 /\ count = 0 /\ pc = "idle"
    /\ startedAt = [r \in Runs |-> 0] /\ dirOf = [r \in Runs |-> CHOOSE d \in Dirs : TRUE]
    /\ named = {} /\ disk = [p \in Dirs \X Time |-> None]
    /\ hasName = FALSE /\ verified = FALSE /\ ctxDone = FALSE
    /\ todo = {} /\ victim = None
    /\ faults = 0 /\ crashes = 0 /\ hit = {}

-----------------------------------------------------------------------------
(* A run up to retention (module RunEngine in detail) *)

BeginRun(t, d) ==
    /\ pc = "idle" /\ count < MaxRuns /\ t > clock
    /\ clock' = t
    /\ count' = count + 1
    /\ startedAt' = [startedAt EXCEPT ![count + 1] = t]
    /\ dirOf' = [dirOf EXCEPT ![count + 1] = d]
    /\ pc' = "stages"
    /\ hasName' = FALSE /\ verified' = FALSE /\ ctxDone' = FALSE
    /\ UNCHANGED <<named, disk, applyVars, faults, crashes, hit>>

\* The run fails before the archive stage, or in it or after it: then its
\* record has a name, although there is no file.
FailsEarly ==
    /\ pc = "stages"
    /\ hasName' \in BOOLEAN
    /\ pc' = "final"
    /\ UNCHANGED <<clock, count, startedAt, dirOf, named, disk, verified, ctxDone, applyVars, faults,
                   crashes, hit>>

\* runArchive sets the name; the verified download gets it, replacing a file
\* that is there.
Verifies ==
    /\ pc = "stages"
    /\ hasName' = TRUE /\ verified' = TRUE
    /\ disk' = [disk EXCEPT ![Path(cur)] = cur]
    /\ pc' = "later"
    /\ UNCHANGED <<clock, count, startedAt, dirOf, named, ctxDone, applyVars, faults, crashes, hit>>

\* A script or the cancellation check after that ends the run without retention.
SkipsRetention ==
    /\ pc = "later" /\ pc' = "final"
    /\ UNCHANGED <<clock, count, startedAt, dirOf, named, disk, hasName, verified, ctxDone, applyVars,
                   faults, crashes, hit>>

ReachesRetention ==
    /\ pc = "later" /\ pc' = "persist"
    /\ UNCHANGED <<clock, count, startedAt, dirOf, named, disk, hasName, verified, ctxDone, applyVars,
                   faults, crashes, hit>>

-----------------------------------------------------------------------------
(* applyRetention and Applier.Apply *)

\* applyRetention persists the run's own archive first; an error is logged.
PersistOwn ==
    /\ pc = "persist" /\ pc' = "list"
    /\ \/ DbOk /\ named' = named \cup {cur}
       \/ DbFails /\ UNCHANGED named
    /\ UNCHANGED <<clock, count, startedAt, dirOf, disk, hasName, verified, ctxDone, applyVars, crashes>>

\* Position of a run in the list, newest first.
indexOf(r) == Cardinality({q \in named : startedAt[q] > startedAt[r]})

\* Mutant: an archive outside one of the limits is deleted.
shouldDelete_either(r, now) ==
    \/ KeepLast # 0 /\ ~(indexOf(r) < KeepLast)
    \/ MaxAge # 0 /\ ~(startedAt[r] >= now - MaxAge)

\* Outside every limit that is configured.
shouldDelete(r, now) ==
    /\ KeepLast # 0 \/ MaxAge # 0
    /\ KeepLast # 0 => ~(indexOf(r) < KeepLast)
    /\ MaxAge # 0 => ~(startedAt[r] >= now - MaxAge)

\* Mutant: runs without an archive name are listed, too.
ListArchived_all(t) ==
    /\ pc = "list" /\ t >= clock /\ clock' = t
    /\ \/ DbOk /\ todo' = {r \in 1..count : shouldDelete(r, t)} /\ pc' = "delete"
       \/ DbFails /\ UNCHANGED todo /\ pc' = "final"
    /\ UNCHANGED <<count, startedAt, dirOf, named, disk, hasName, verified, ctxDone, victim, crashes>>

\* ListArchived and the cutoff, at a time when the run may have taken long.
ListArchived(t) ==
    /\ pc = "list" /\ t >= clock /\ clock' = t
    /\ \/ DbOk /\ todo' = {r \in named : shouldDelete(r, t)} /\ pc' = "delete"
       \/ DbFails /\ UNCHANGED todo /\ pc' = "final"
    /\ UNCHANGED <<count, startedAt, dirOf, named, disk, hasName, verified, ctxDone, victim, crashes>>

\* The newest of the archives that are left to delete.
IsNext(r) == r \in todo /\ \A q \in todo : startedAt[q] <= startedAt[r]

\* Mutant: the row is cleared although the file could not be removed.
RemoveFile_ignoresError(r) ==
    /\ pc = "delete" /\ IsNext(r)
    /\ todo' = todo \ {r}
    /\ victim' = r /\ pc' = "clear"
    /\ \/ disk' = [disk EXCEPT ![removePath(r)] = None] /\ UNCHANGED <<faults, hit>>
       \/ disk[removePath(r)] # None /\ Fault /\ UNCHANGED disk
    /\ UNCHANGED <<clock, count, startedAt, dirOf, named, hasName, verified, ctxDone, crashes>>

\* Mutant: a file that is not there is an error.
RemoveFile_missingIsError(r) ==
    /\ pc = "delete" /\ IsNext(r)
    /\ todo' = todo \ {r}
    /\ \/ /\ disk[removePath(r)] # None
          /\ disk' = [disk EXCEPT ![removePath(r)] = None]
          /\ victim' = r /\ pc' = "clear"
       \/ /\ disk[removePath(r)] = None
          /\ UNCHANGED <<disk, victim, pc>>
    /\ UNCHANGED <<clock, count, startedAt, dirOf, named, hasName, verified, ctxDone, faults, crashes, hit>>

\* os.Remove; a file that is not there counts as removed, an error leaves file
\* and row as they are.
RemoveFile(r) ==
    /\ pc = "delete" /\ IsNext(r)
    /\ todo' = todo \ {r}
    /\ \/ /\ disk' = [disk EXCEPT ![removePath(r)] = None]
          /\ victim' = r /\ pc' = "clear"
          /\ UNCHANGED <<faults, hit>>
       \/ /\ disk[removePath(r)] # None
          /\ Fault
          /\ UNCHANGED <<disk, victim, pc>>
    /\ UNCHANGED <<clock, count, startedAt, dirOf, named, hasName, verified, ctxDone, crashes>>

\* Update of its row with an empty name; an error leaves the name.
ClearRow ==
    /\ pc = "clear" /\ pc' = "delete"
    /\ victim' = None
    /\ \/ DbOk /\ named' = named \ {victim}
       \/ DbFails /\ UNCHANGED named
    /\ UNCHANGED <<clock, count, startedAt, dirOf, disk, hasName, verified, ctxDone, todo, crashes>>

ApplyEnds ==
    /\ pc = "delete" /\ todo = {}
    /\ pc' = "final"
    /\ UNCHANGED <<clock, count, startedAt, dirOf, named, disk, hasName, verified, ctxDone, applyVars,
                   faults, crashes, hit>>

-----------------------------------------------------------------------------
(* The end of a run, cancellation, crash *)

\* finishRun: Update with what the run has in memory.
FinalUpdate ==
    /\ pc = "final" /\ pc' = "idle"
    /\ \/ DbOk /\ named' = IF hasName THEN named \cup {cur} ELSE named \ {cur}
       \/ DbFails /\ UNCHANGED named
    /\ UNCHANGED <<clock, count, startedAt, dirOf, disk, hasName, verified, ctxDone, applyVars, crashes>>

Cancel ==
    /\ pc # "idle" /\ ~ctxDone /\ ctxDone' = TRUE
    /\ hit' = hit \cup {cur}
    /\ UNCHANGED <<clock, count, startedAt, dirOf, named, disk, pc, hasName, verified, applyVars, faults,
                   crashes>>

\* The process dies; the recovery at the next start keeps the row's name.
Crash ==
    /\ pc # "idle" /\ crashes < MaxCrashes
    /\ crashes' = crashes + 1 /\ hit' = hit \cup {cur}
    /\ pc' = "idle" /\ todo' = {} /\ victim' = None
    /\ UNCHANGED <<clock, count, startedAt, dirOf, named, disk, hasName, verified, ctxDone, faults>>

-----------------------------------------------------------------------------

Next ==
    \/ \E t \in Time, d \in Dirs : BeginRun(t, d)
    \/ \E t \in Time : ListArchived(t)
    \/ FailsEarly \/ Verifies \/ SkipsRetention \/ ReachesRetention
    \/ PersistOwn \/ ClearRow \/ ApplyEnds \/ FinalUpdate
    \/ \E r \in Runs : RemoveFile(r)
    \/ Cancel \/ Crash

Spec == Init /\ [][Next]_vars

-----------------------------------------------------------------------------
(* Properties *)

Unique(r) == \A q \in 1..count : q # r => ArchiveFileName(q) # ArchiveFileName(r)

HasFile(r) == disk[Path(r)] = r

\* The archive a run has just verified survives the retention of that run, if
\* keep_last is configured and no other run of the job has the same local time
\* in its name (Apply over a list that has the run itself in it).
OwnArchiveSurvives ==
    KeepLast # 0 /\ pc \in {"persist", "list", "delete", "clear", "final"} /\ verified /\ Unique(cur)
        => HasFile(cur)

\* When Apply has gone through without an error, no run outside the limits has
\* a name any more: also not one that an earlier crash or error left behind.
PolicyEnforced ==
    pc = "delete" /\ todo = {} /\ ~ctxDone /\ cur \notin hit =>
        \A r \in named : ~shouldDelete(r, clock)

\* A later run had another destination than this one.
Moved(r) == \E q \in (r + 1)..count : dirOf[q] # dirOf[r]

\* Retention loses track of a file (remove first, then the row) only if its run
\* was disturbed or the destination of the job has changed since: every other
\* archive is named in the history or gone.  After such an edit Apply looks for
\* the old archives in the new directory, finds none and clears their rows.
NoForgottenFile ==
    \A r \in 1..count :
        HasFile(r) => r \in named \/ r \in hit \/ (r = cur /\ pc # "idle") \/ Moved(r)

-----------------------------------------------------------------------------
(* Inductive invariant (RetentionProofs) *)

\* Runs begin one after the other, so the run in progress is the newest.
RunsInOrder ==
    /\ pc # "idle" => count > 0
    /\ \A q, r \in 1..count : q < r => startedAt[q] < startedAt[r]
    /\ \A r \in 1..count : startedAt[r] <= clock

\* What the control says about the run in progress and about Apply.
RunControl ==
    /\ pc = "stages" => ~verified /\ ~hasName
    /\ pc \in {"later", "persist", "list", "delete", "clear"} => verified
    /\ verified => hasName
    /\ pc \notin {"delete", "clear"} => todo = {}
    /\ pc # "idle" /\ ctxDone => cur \in hit
    /\ pc = "clear" => victim > 0 /\ victim \notin todo /\ disk[removePath(victim)] = None
    /\ KeepLast # 0 => cur \notin todo /\ (pc = "clear" => victim # cur)

\* Only a verified archive is on the disk.
FilesVerified == pc # "idle" /\ HasFile(cur) => verified

OwnFile ==
    KeepLast # 0 /\ pc # "idle" /\ verified /\ Unique(cur) => HasFile(cur)

\* What Apply has still to do: of the named archives outside the limits each
\* is in its list, or its file has just been removed.
Purged ==
    pc \in {"delete", "clear"} /\ cur \notin hit =>
        \A r \in named : ~shouldDelete(r, clock) \/ r \in todo \/ (pc = "clear" /\ r = victim)

RetentionInv ==
    TypeOK /\ RunsInOrder /\ RunControl /\ FilesVerified /\ OwnFile /\ NoForgottenFile

=============================================================================
