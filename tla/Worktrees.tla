------------------------------ MODULE Worktrees ------------------------------
(***************************************************************************)
(* The worktree of one execution and its preparation (adapters/git,        *)
(* execution.ts prepare, called by modules/factory, execution.ts).  Four   *)
(* things must fit together: the branch payo/<id>, git's entry for the     *)
(* worktree, its directory and the file that says whose it is.  A          *)
(* preparation may fail, be aborted or be cut off by a crash between any   *)
(* two git commands, someone else may touch the four things, and a resumed *)
(* run prepares again.  The server (up, aborted, faults) is shared with    *)
(* the other parts of module Workspace.                                    *)
(***************************************************************************)
EXTENDS Naturals

CONSTANT MaxFaults     \* bound: failures, aborts, crashes and foreign changes

VARIABLES
  up,        \* the server runs
  aborted,   \* the signal of its tasks
  faults,
  branch,    \* payo/<id>: "none", at the "base" commit, or "moved"
  entry,     \* git lists the path as a worktree of that branch
  dir,       \* the directory: "none", "clean" or "dirty" (or anything else)
  meta,      \* the ownership file: "none", "own", or "other" (or unreadable)
  step,      \* where the preparation is
  recorded,  \* the run has recorded the workspace it was given
  mine,      \* history: this preparation has added the worktree
  touched,   \* history: someone else changed one of them during this preparation
  foreign,   \* history: ... or ever
  torn       \* history: an addition, or the undoing of one, did not get to its end

server == <<up, aborted, faults>>
tree == <<branch, entry, dir, meta>>
notes == <<mine, touched, foreign, torn>>
treeVars == <<tree, step, recorded, notes>>

Disturb == faults < MaxFaults /\ faults' = faults + 1 /\ UNCHANGED <<up, aborted>>

InitTree ==
  /\ branch = "none" /\ entry = FALSE /\ dir = "none" /\ meta = "none"
  /\ step = "none" /\ recorded = FALSE
  /\ mine = FALSE /\ touched = FALSE /\ foreign = FALSE /\ torn = FALSE

Nothing == branch = "none" /\ ~entry /\ dir = "none" /\ meta = "none"
Whole == branch # "none" /\ entry /\ dir # "none"
\* An ownership file that cannot be read counts as somebody else's.
NotOurs == meta = "other"

\* A git command is refused before or after it ran when the signal is aborted.
Goes(next) == step' = next /\ UNCHANGED <<server, tree, recorded, notes>>

-----------------------------------------------------------------------------
\* The engine prepares when nothing is recorded, at the start and when the gate
\* that a failure raised is resumed.
Begin ==
  /\ up /\ ~aborted /\ ~recorded /\ step \in {"none", "failed"}
  /\ step' = "look" /\ mine' = FALSE /\ touched' = FALSE
  /\ UNCHANGED <<server, tree, recorded, foreign, torn>>

\* What is there?  All or nothing, and nobody else's.
Look ==
  /\ up /\ step = "look"
  /\ Goes(IF aborted THEN "failed"
          ELSE IF Nothing THEN "add"
          ELSE IF Whole /\ ~NotOurs THEN "reuse"
          ELSE "failed")

\* A worktree left by an earlier preparation is inspected; a missing ownership file
\* is written.
Reusable == branch = "base" /\ dir = "clean"

Reuse ==
  /\ up /\ step = "reuse"
  /\ IF Reusable /\ ~aborted
     THEN meta' = "own" /\ step' = "prepared"
     ELSE meta' = meta /\ step' = "failed"
  /\ UNCHANGED <<server, branch, entry, dir, recorded, notes>>

\* git worktree add -b: it makes the branch, the entry and the directory, and refuses
\* when one of them exists.
Free == branch = "none" /\ ~entry /\ dir = "none"

Add ==
  /\ up /\ ~aborted /\ step = "add" /\ Free
  /\ branch' = "base" /\ entry' = TRUE /\ dir' = "clean"
  /\ mine' = TRUE /\ step' = "verify"
  /\ UNCHANGED <<server, meta, recorded, touched, foreign, torn>>

\* What throws before the worktree is known to be made undoes nothing.
\* Mutant: the addition itself is inside the try.
AfterRefusalUndo == "remove"
AfterRefusal == "failed"

AddRefused ==
  /\ up /\ step = "add" /\ (aborted \/ ~Free)
  /\ Goes(AfterRefusal)

\* A command that is killed leaves nothing, the branch alone, or the worktree with
\* all or some of its files: external, git.
Torn ==
  /\ torn' = TRUE
  /\ \/ UNCHANGED tree
     \/ /\ branch' = "base" /\ meta' = meta
        /\ \/ UNCHANGED <<entry, dir>>
           \/ entry' = TRUE /\ dir' \in {"clean", "dirty"}

AddTorn ==
  /\ Disturb /\ up /\ step = "add" /\ Free
  /\ Torn /\ step' = AfterRefusal
  /\ UNCHANGED <<recorded, mine, touched, foreign>>

\* The new worktree is inspected, but for changes in it.
Verify ==
  /\ up /\ step = "verify"
  /\ Goes(IF ~aborted /\ branch = "base" /\ entry /\ dir # "none" THEN "own" ELSE "remove")

WriteOwnership ==
  /\ up /\ step = "own"
  /\ meta' = "own" /\ step' = "prepared"
  /\ UNCHANGED <<server, branch, entry, dir, recorded, notes>>

\* git, or the file system, fails; nothing was changed.
Fails ==
  /\ Disturb /\ up
  /\ \/ step \in {"look", "reuse"} /\ step' = "failed"
     \/ step \in {"verify", "own"} /\ step' = "remove"
  /\ UNCHANGED <<tree, recorded, notes>>

\* Undone is what this preparation has added.  Without --force the removal refuses a
\* worktree with changes; a failure of either command is ignored, and with the
\* signal aborted neither is run.
Remove ==
  /\ up /\ step = "remove"
  /\ \/ /\ ~aborted /\ dir # "dirty"
        /\ entry' = FALSE /\ dir' = "none"
        /\ UNCHANGED server
     \/ (aborted \/ dir = "dirty") /\ UNCHANGED <<server, entry, dir>>
     \/ Disturb /\ UNCHANGED <<entry, dir>>
  /\ step' = "unbranch"
  /\ UNCHANGED <<branch, meta, recorded, notes>>

\* git branch -D, refused while the branch is checked out.
\* Mutant: the branch is left.
BranchAfterwardsKept == branch
BranchAfterwards == IF entry THEN branch ELSE "none"

Unbranch ==
  /\ up /\ step = "unbranch"
  /\ \/ ~aborted /\ branch' = BranchAfterwards /\ UNCHANGED <<server, torn>>
     \/ aborted /\ branch' = branch /\ torn' = (torn \/ ~entry) /\ UNCHANGED server
     \/ Disturb /\ branch' = branch /\ torn' = (torn \/ ~entry)
  /\ step' = "failed"
  /\ UNCHANGED <<entry, dir, meta, recorded, mine, touched, foreign>>

\* The run records the workspace; from then on it is not prepared again, and how it
\* was prepared is history.
Record ==
  /\ up /\ step = "prepared"
  /\ recorded' = TRUE /\ step' = "none"
  /\ mine' = FALSE /\ touched' = FALSE /\ foreign' = FALSE /\ torn' = FALSE
  /\ UNCHANGED <<server, tree>>

-----------------------------------------------------------------------------
\* The server crashes: a git command under way gets to some end without it.
TreeCrash ==
  /\ step' = "none"
  /\ IF step = "add" /\ Free THEN Torn
     ELSE /\ torn' = (torn \/ (step = "unbranch" /\ ~entry))
          /\ UNCHANGED tree
  /\ UNCHANGED <<recorded, mine, touched, foreign>>

\* Someone else makes or moves the branch, makes, changes or deletes the directory,
\* or the file.
Meddle ==
  /\ Disturb /\ ~recorded
  /\ \/ branch # "moved" /\ branch' = "moved" /\ UNCHANGED <<dir, meta>>
     \/ dir = "none" /\ dir' = "dirty" /\ UNCHANGED <<branch, meta>>
     \/ dir = "clean" /\ dir' \in {"dirty", "none"} /\ UNCHANGED <<branch, meta>>
     \/ meta # "other" /\ meta' = "other" /\ UNCHANGED <<branch, dir>>
  /\ touched' = TRUE /\ foreign' = TRUE
  /\ UNCHANGED <<entry, step, recorded, mine, torn>>

TreeStep ==
  \/ Begin \/ Look \/ Reuse \/ Add \/ AddRefused \/ AddTorn \/ Verify
  \/ WriteOwnership \/ Fails \/ Remove \/ Unbranch \/ Record \/ Meddle

-----------------------------------------------------------------------------
TreeTypeOK ==
  /\ branch \in {"none", "base", "moved"} /\ entry \in BOOLEAN
  /\ dir \in {"none", "clean", "dirty"} /\ meta \in {"none", "own", "other"}
  /\ step \in {"none", "look", "reuse", "add", "verify", "own", "remove", "unbranch",
               "prepared", "failed"}
  /\ recorded \in BOOLEAN /\ mine \in BOOLEAN
  /\ touched \in BOOLEAN /\ foreign \in BOOLEAN /\ torn \in BOOLEAN

\* The workspace an execution is given is its own, whole, at the pinned commit and
\* without a change, however many preparations were cut off before it (unless
\* somebody changes it while it is being prepared); and a preparation deletes
\* neither a branch nor a directory that it has not made itself.
PreparesItsOwn ==
  [][/\ step' = "prepared" /\ step # "prepared" /\ ~touched
        => branch' = "base" /\ entry' /\ dir' = "clean" /\ meta' = "own"
     /\ step' # step /\ ((branch # "none" /\ branch' = "none") \/ (dir # "none" /\ dir' = "none"))
        => mine]_treeVars

\* A preparation that failed by itself can be repeated: nothing of it is left, or a
\* worktree that the next one takes over.  Only a git command that was cut off in
\* between leaves a branch every further preparation collides with.
FailureIsRepeatable ==
  step \in {"none", "failed"} /\ ~recorded /\ ~foreign /\ ~torn
    => Nothing \/ (Whole /\ Reusable /\ meta # "other")
=============================================================================
