----------------------------- MODULE Workspace -----------------------------
(***************************************************************************)
(* A workspace directory under deterministic validation: a patch is        *)
(* planned, applied file by file with an undo journal, and unwound when a  *)
(* write fails; a snapshot is backed up and restored.  Somebody else may   *)
(* edit the files between any two steps.                                   *)
(*                                                                         *)
(* A file is a sequence of lines.  Parsing is left out: a patch is a       *)
(* sequence of file sections, each with its hunks.                         *)
(***************************************************************************)
EXTENDS Integers, Sequences, FiniteSets, SequencesExt

CONSTANTS
    Paths,         \* files of the workspace
    Lines,         \* what a line may be
    Patches,       \* patches to explore: sequences of [path, action, hunks]
    StartFiles,    \* contents to start from: functions on Paths
    MaxLineOffset, \* max_line_offset
    MaxFaults      \* bound: OSErrors, edits by others, damage to the backup

\* The files to start from give every path its content.
ASSUME WorkspaceAssumption == \A f \in StartFiles : f = [p \in Paths |-> f[p]]

Missing == <<"no file">>
NotCaptured == [p \in Paths |-> <<"not captured">>]
Escapes == "outside"    \* a path safe_relative_path refuses

VARIABLES
    fs,       \* [Paths -> lines, or Missing]
    patch,    \* the patch text
    asked,    \* which checks the artifact enables, and how the pure ones end
    work,     \* control state: [pc, at, verdict, failed]
    plan,     \* PatchPlan.entries
    journal,  \* PatchJournal.entries
    before,   \* ghost: fs when apply() began
    manifest, \* snapshot entries, NotCaptured before capture
    backup,   \* the mirrored tree
    faults,
    edited    \* ghost: others wrote to the workspace since before was taken

spaceVars == <<fs, patch, asked, work, plan, journal, before, manifest, backup, faults, edited>>

Fault == faults < MaxFaults /\ faults' = faults + 1

Go(pc, at) == work' = [work EXCEPT !.pc = pc, !.at = at]

-----------------------------------------------------------------------------
(* UnifiedDiffValidator *)

Distance(p, q) == IF p >= q THEN p - q ELSE q - p

MatchesAt(file, source, at) ==
    at + Len(source) <= Len(file) /\ SubSeq(file, at + 1, at + Len(source)) = source

NotFound == 0 - 1

\* _locate: the nearest place within the tolerance, the earlier of two as near;
\* an insertion has no lines to match and goes where it says, within the file.
Locate(file, source, expected) ==
    LET near == {p \in 0 .. Len(file) : /\ MatchesAt(file, source, p)
                                        /\ Distance(p, expected) <= MaxLineOffset}
    IN  CASE source = <<>> -> IF expected < 0 THEN 0
                              ELSE IF expected > Len(file) THEN Len(file) ELSE expected
          [] source # <<>> /\ near = {} -> NotFound
          [] OTHER -> CHOOSE p \in near : \A q \in near :
                          \/ Distance(p, expected) < Distance(q, expected)
                          \/ Distance(p, expected) = Distance(q, expected) /\ p <= q

\* One turn of _apply_hunks: drift is the net growth of the hunks before it.
ApplyHunk(acc, hunk) ==
    LET p == Locate(acc.file, hunk.source, hunk.start - 1 + acc.drift) IN
    IF ~acc.ok \/ p = NotFound THEN [acc EXCEPT !.ok = FALSE]
    ELSE [acc EXCEPT
            !.file  = SubSeq(@, 1, p) \o hunk.target \o SubSeq(@, p + Len(hunk.source) + 1, Len(@)),
            !.drift = @ + Len(hunk.target) - Len(hunk.source)]

\* _apply_hunks
ApplyHunks(file, hunks) ==
    FoldLeft(ApplyHunk, [ok |-> TRUE, file |-> file, drift |-> 0], hunks)

\* _plan_file, against the files as they are now.
PlanFile(section) ==
    LET now   == fs[section.path]
        patched == ApplyHunks(IF section.action = "CREATE" THEN <<>> ELSE now, section.hunks)
    IN  [path  |-> section.path,
         clean |-> CASE section.action = "CREATE" -> now = Missing /\ patched.ok
                     [] section.action = "DELETE" -> now # Missing
                     [] OTHER                     -> now # Missing /\ patched.ok,
         new   |-> IF section.action = "DELETE" THEN Missing ELSE patched.file]

Rejected == \E i \in DOMAIN patch : patch[i].path = Escapes

\* dry_run: every section is planned from the disk, none from another section.
DryRun ==
    LET inside == SelectSeq(patch, LAMBDA section : section.path # Escapes)
    IN  [i \in DOMAIN inside |-> PlanFile(inside[i])]

PlanOk(p) == ~Rejected /\ p # <<>> /\ \A i \in DOMAIN p : p[i].clean

-----------------------------------------------------------------------------
(* DeterministicValidationEngine.validate *)

\* A blocking finding below CRITICAL fails the artifact and does not stop it.
HardFailure ==
    asked.schema = "fail" \/ asked.scan = "critical" \/ Rejected

Drifted == asked.drift /\ manifest # NotCaptured /\ fs # manifest

Validate ==
    /\ work.pc = "idle"
    /\ plan' = DryRun
    /\ work' = [work EXCEPT
         !.pc = IF asked.tests /\ ~HardFailure THEN "tests" ELSE "planned",
         !.verdict = IF asked.schema = "fail" \/ asked.scan \in {"high", "critical"}
                        \/ ~PlanOk(DryRun) \/ Drifted \/ HardFailure THEN "FAIL" ELSE "PASS"]
    /\ UNCHANGED <<fs, patch, asked, journal, before, manifest, backup, faults, edited>>

\* PytestRunner: a pass needs tests that were collected, ran and passed.
RunTests ==
    /\ work.pc = "tests"
    /\ \E result \in {"passed", "failed", "none collected", "timed out", "no pytest"} :
         work' = [work EXCEPT !.pc = "planned", !.verdict = IF result = "passed" THEN @ ELSE "FAIL"]
    /\ UNCHANGED <<fs, patch, asked, plan, journal, before, manifest, backup, faults, edited>>

-----------------------------------------------------------------------------
(* PatchApplier *)

\* The caller applies what passed; apply() itself only asks whether the plan is ok.
Apply ==
    /\ work.pc = "planned"
    /\ IF PlanOk(plan) /\ work.verdict = "PASS"
         THEN Go("write", 1) /\ before' = fs /\ journal' = <<>> /\ edited' = FALSE
         ELSE Go("refused", 0) /\ UNCHANGED <<before, journal, edited>>
    /\ UNCHANGED <<fs, patch, asked, plan, manifest, backup, faults>>

Journalled(entry) == Append(journal, [path |-> entry.path, prior |-> fs[entry.path]])

\* One entry: the prior bytes are journalled, then the file replaced or removed.
WriteEntry ==
    LET entry == plan[work.at] IN
    /\ work.pc = "write" /\ work.at <= Len(plan)
    /\ journal' = Journalled(entry)
    /\ \/ /\ ~(entry.new = Missing /\ fs[entry.path] = Missing)
          /\ fs' = [fs EXCEPT ![entry.path] = entry.new]
          /\ Go("write", work.at + 1) /\ UNCHANGED faults
       \/ /\ entry.new = Missing /\ fs[entry.path] = Missing    \* unlink raises
          /\ UNCHANGED <<fs, faults>> /\ Go("rollback", Len(journal'))
       \/ Fault /\ UNCHANGED fs /\ Go("rollback", Len(journal'))
    /\ UNCHANGED <<patch, asked, plan, before, manifest, backup, edited>>

Applied ==
    /\ work.pc = "write" /\ work.at > Len(plan)
    /\ Go("applied", 0)
    /\ UNCHANGED <<fs, patch, asked, plan, journal, before, manifest, backup, faults, edited>>

UndoAt_Forward(at) == journal[Len(journal) + 1 - at]

\* rollback goes through the journal backwards.
UndoAt(at) == journal[at]

\* A failing undo is logged and the next one is tried.
UndoEntry ==
    LET entry == UndoAt(work.at) IN
    /\ work.pc = "rollback" /\ work.at > 0
    /\ \/ /\ fs' = [fs EXCEPT ![entry.path] = entry.prior]
          /\ Go("rollback", work.at - 1) /\ UNCHANGED faults
       \/ /\ Fault /\ UNCHANGED fs
          /\ work' = [work EXCEPT !.at = @ - 1, !.failed = TRUE]
    /\ UNCHANGED <<patch, asked, plan, journal, before, manifest, backup, edited>>

RolledBack ==
    /\ work.pc = "rollback" /\ work.at = 0
    /\ Go("rolled back", 0)
    /\ UNCHANGED <<fs, patch, asked, plan, journal, before, manifest, backup, faults, edited>>

-----------------------------------------------------------------------------
(* WorkspaceSnapshot *)

Ended == work.pc \in {"applied", "rolled back", "refused"}

\* capture and backup; a file that cannot be copied is skipped.
CaptureAndBackup ==
    /\ work.pc = "idle" /\ manifest = NotCaptured
    /\ manifest' = fs
    /\ \/ backup' = fs /\ UNCHANGED faults
       \/ \E p \in Paths : Fault /\ backup' = [fs EXCEPT ![p] = Missing]
    /\ UNCHANGED <<fs, patch, asked, work, plan, journal, before, edited>>

\* The backup rots between the snapshot and the incident.
Damage ==
    /\ manifest # NotCaptured /\ work.pc # "restored"
    /\ Fault
    /\ \E p \in Paths, l \in Lines : backup[p] # Missing /\ backup' = [backup EXCEPT ![p] = <<l>>]
    /\ UNCHANGED <<fs, patch, asked, work, plan, journal, before, manifest, edited>>

\* missing_from_backup, or a hash that is not the manifest's after the copy.
Unclean(p) == manifest[p] # Missing /\ backup[p] # manifest[p]

\* restore: copies what the backup has, then removes what the manifest does not list.
Restored(p) ==
    IF manifest[p] = Missing THEN Missing ELSE IF backup[p] = Missing THEN fs[p] ELSE backup[p]

Restore ==
    /\ Ended /\ manifest # NotCaptured
    /\ fs' = [p \in Paths |-> Restored(p)]
    /\ edited' = FALSE
    /\ work' = [work EXCEPT !.pc = "restored", !.failed = \E p \in Paths : Unclean(p)]
    /\ UNCHANGED <<patch, asked, plan, journal, before, manifest, backup, faults>>

\* Somebody else writes, creates or removes a file.
Edit ==
    /\ work.pc \in {"idle", "tests", "planned", "write"}
    /\ Fault
    /\ \E p \in Paths, l \in Lines \union {"gone"} :
         fs' = [fs EXCEPT ![p] = IF l = "gone" THEN Missing ELSE <<l>>]
    /\ edited' = (work.pc = "write" \/ edited)
    /\ UNCHANGED <<patch, asked, work, plan, journal, before, manifest, backup>>

-----------------------------------------------------------------------------
SpaceInit ==
    /\ fs \in StartFiles
    /\ patch \in Patches
    /\ asked \in [schema : {"ok", "fail"}, scan : {"ok", "high", "critical"},
                  drift : BOOLEAN, tests : BOOLEAN]
    /\ work = [pc |-> "idle", at |-> 0, verdict |-> "none", failed |-> FALSE]
    /\ plan = <<>> /\ journal = <<>>
    /\ before = fs
    /\ manifest = NotCaptured /\ backup = fs
    /\ faults = 0 /\ edited = FALSE

SpaceNext ==
    \/ Validate \/ RunTests \/ Apply \/ WriteEntry \/ Applied \/ UndoEntry \/ RolledBack
    \/ CaptureAndBackup \/ Damage \/ Restore \/ Edit

-----------------------------------------------------------------------------
\* A patch that could not be applied to the end leaves the workspace as it found
\* it, although each file may be touched by several of its sections, unless an
\* undo failed as well or somebody else was writing.
FailedApplyLeavesNothing ==
    work.pc = "rolled back" /\ ~work.failed /\ ~edited => fs = before

\* A restore that reports itself clean brought the snapshot back, whatever
\* happened to the workspace and to the backup in between.
CleanRestoreIsExact ==
    work.pc = "restored" /\ ~work.failed => fs = manifest

\* The content of every file after a patch that applied is the content all of
\* its sections together ask for.
Sections(p) == SelectSeq(patch, LAMBDA section : section.path = p)

PlanIsComplete ==
    work.pc = "applied" /\ ~edited =>
        \A p \in Paths :
            LET mine == Sections(p) IN
            \A i \in DOMAIN mine : \A h \in DOMAIN mine[i].hunks :
                mine[i].action # "DELETE" =>
                    \E at \in 0 .. Len(fs[p]) : MatchesAt(fs[p], mine[i].hunks[h].target, at)

\* A patch that fails leaves the tree as it was, and a restore that reports
\* nothing unclean is exact.
WorkspaceSound == FailedApplyLeavesNothing /\ CleanRestoreIsExact
=============================================================================
