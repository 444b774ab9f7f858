---------------------------- MODULE PatchManager ----------------------------
(***************************************************************************)
(* PatchManager.apply_patch (builder/cmake_builder.py:17-155) over the     *)
(* repeated builds of one library, together with what happens to the       *)
(* source tree between two builds: git commands of a developer in the      *)
(* submodule, and a build interrupted at any point.                        *)
(*                                                                         *)
(* The source tree is abstracted to the revision checked out and the parts *)
(* of the patch that are in place: "edit", its changes to tracked files,   *)
(* and "add", the files it creates (several patches of patches/ have       *)
(* both), because git treats the two differently.                          *)
(***************************************************************************)
CONSTANTS
  Revision,   \* the commits the submodule can be at
  NoTarget    \* a patch without a target-commit line

ASSUME NoTargetAssumption == NoTarget \notin Revision

Part == {"edit", "add"}

(* What developers do to the submodule between two builds.                 *)
DeveloperOp == {"update", "force", "clean"}

(* A file of patches/: its target-commit line, the revisions it applies to *)
(* and what it changes.                                                    *)
Patch == [exists  : BOOLEAN,
          target  : Revision \cup {NoTarget},
          fits    : SUBSET Revision,
          parts   : (SUBSET Part) \ {{}}]

VARIABLES
  patch,      \* patches/<lib>.patch
  git,        \* git is installed
  headKnown,  \* git rev-parse HEAD answers in the source directory
  habits,     \* the commands this developer uses
  torn,       \* git apply may be stopped half way through its writes
  rev,        \* the revision checked out
  inPlace,    \* the parts of the patch present in the source tree
  marker,     \* source_dir/.patch_applied exists
  pc          \* where apply_patch is: "compile" once it has returned True,
              \* "refused" once it has returned False

vars == <<patch, git, headKnown, habits, torn, rev, inPlace, marker, pc>>
world == <<patch, git, headKnown, habits, torn>>

Init ==
  /\ patch \in Patch
  /\ git \in BOOLEAN /\ headKnown \in {FALSE, git}
  /\ habits \in SUBSET DeveloperOp /\ torn \in BOOLEAN
  /\ rev \in Revision
  /\ inPlace = {} /\ marker = FALSE
  /\ pc = "idle"

-----------------------------------------------------------------------------
(* apply_patch.                                                            *)

(* Mutant of Drifted: no guard.                                            *)
NeverDrifted == FALSE

(* Lines 100-124: a patch that declares a target commit is refused at any  *)
(* other revision, provided the revision can be told.                      *)
Drifted == patch.target # NoTarget /\ headKnown /\ rev # patch.target

(* No patch file, or the marker is there: nothing to do (lines 90-98).     *)
NothingToDo ==
  /\ pc = "idle" /\ (~patch.exists \/ marker)
  /\ pc' = "compile"
  /\ UNCHANGED <<world, rev, inPlace, marker>>

Refuse ==
  /\ pc = "idle" /\ patch.exists /\ ~marker /\ Drifted
  /\ pc' = "refused"
  /\ UNCHANGED <<world, rev, inPlace, marker>>

(* Mutant of Start: the marker is written before git apply.                *)
StartMarked ==
  /\ pc = "idle" /\ patch.exists /\ ~marker /\ ~Drifted
  /\ pc' = IF git THEN "check" ELSE "compile"
  /\ marker' = git
  /\ UNCHANGED <<world, rev, inPlace>>

(* Without git the patch is skipped with a warning (lines 153-155).        *)
Start ==
  /\ pc = "idle" /\ patch.exists /\ ~marker /\ ~Drifted
  /\ pc' = IF git THEN "check" ELSE "compile"
  /\ UNCHANGED <<world, rev, inPlace, marker>>

(* git apply --check accepts the patch on a revision it was made for when  *)
(* no part of it is in place.  A failed check counts as success: the patch *)
(* "may already be applied" (lines 129-137).                               *)
CheckPasses == rev \in patch.fits /\ inPlace = {}

Check ==
  /\ pc = "check"
  /\ pc' = IF CheckPasses THEN "apply" ELSE "compile"
  /\ UNCHANGED <<world, rev, inPlace, marker>>

(* Mutant of Apply: another library's patch file is applied.               *)
ApplyWrongPatch ==
  /\ pc = "apply"
  /\ inPlace' = Part
  /\ pc' = "mark"
  /\ UNCHANGED <<world, rev, marker>>

(* git apply (lines 139-142); when it fails, apply_patch returns False.    *)
Apply ==
  /\ pc = "apply"
  /\ inPlace' = patch.parts
  /\ pc' = "mark"
  /\ UNCHANGED <<world, rev, marker>>

Stopped == IF torn THEN SUBSET patch.parts ELSE {{}}

(* Mutant of ApplyFails: the exit status of git apply is not looked at.    *)
ApplyUnchecked ==
  /\ pc = "apply"
  /\ inPlace' \in Stopped
  /\ pc' = "mark"
  /\ UNCHANGED <<world, rev, marker>>

ApplyFails ==
  /\ pc = "apply"
  /\ inPlace' \in Stopped
  /\ pc' = "refused"
  /\ UNCHANGED <<world, rev, marker>>

(* The marker is written once git apply has returned (lines 144-149).      *)
Mark ==
  /\ pc = "mark"
  /\ marker' = TRUE
  /\ pc' = "compile"
  /\ UNCHANGED <<world, rev, inPlace>>

(* apply_patch has returned: on True the builder configures and compiles   *)
(* the tree as it is, on False the library's build fails                   *)
(* (cmake_builder.py:201-221, autotools_builder.py:111-113 and the others).*)
BuildEnds ==
  /\ pc \in {"compile", "refused"}
  /\ pc' = "idle"
  /\ UNCHANGED <<world, rev, inPlace, marker>>

(* The build is interrupted (Ctrl-C reaches git too), possibly inside, or  *)
(* right after, git apply.                                                 *)
Interrupt ==
  /\ pc # "idle"
  /\ pc' = "idle"
  /\ IF pc = "apply" THEN inPlace' \in Stopped \cup {patch.parts}
                     ELSE UNCHANGED inPlace
  /\ UNCHANGED <<world, rev, marker>>

-----------------------------------------------------------------------------
(* Between builds.  The marker is an untracked file of the submodule, and  *)
(* so are the files the patch adds.                                        *)

(* git submodule update / git checkout r: local edits are carried along.   *)
UpdateSubmodule(r) ==
  /\ pc = "idle" /\ "update" \in habits
  /\ rev' = r
  /\ UNCHANGED <<world, inPlace, marker, pc>>

(* git checkout -f r / git submodule update --force: edits are discarded,  *)
(* untracked files stay.                                                   *)
ForceCheckout(r) ==
  /\ pc = "idle" /\ "force" \in habits
  /\ rev' = r /\ inPlace' = inPlace \ {"edit"}
  /\ UNCHANGED <<world, marker, pc>>

(* git clean -fdx: untracked files go, edits stay.                         *)
CleanTree ==
  /\ pc = "idle" /\ "clean" \in habits
  /\ inPlace' = inPlace \ {"add"} /\ marker' = FALSE
  /\ UNCHANGED <<world, rev, pc>>

Next ==
  \/ NothingToDo \/ Refuse \/ Start \/ Check \/ Apply \/ ApplyFails \/ Mark
  \/ BuildEnds \/ Interrupt \/ CleanTree
  \/ \E r \in Revision : UpdateSubmodule(r) \/ ForceCheckout(r)

Spec == Init /\ [][Next]_vars

-----------------------------------------------------------------------------
(* Properties.                                                             *)

TypeOK ==
  /\ patch \in Patch /\ git \in BOOLEAN /\ headKnown \in BOOLEAN
  /\ habits \subseteq DeveloperOp /\ torn \in BOOLEAN
  /\ rev \in Revision
  /\ inPlace \subseteq patch.parts
  /\ marker \in BOOLEAN
  /\ pc \in {"idle", "check", "apply", "mark", "compile", "refused"}

(* cmake_builder.py:94: the marker says that the patch is already applied. *)
(* It is written last, so an interruption never leaves it on a tree that   *)
(* has only a part of the patch, and a later build may trust it - unless   *)
(* edits are discarded by force, which the untracked marker survives.      *)
MarkerMeansApplied ==
  "force" \notin habits => (marker => inPlace = patch.parts)

(* The guard of lines 100-103 is about the tree the patch is written into: *)
(* a guarded patch never reaches the files of another revision.            *)
AppliedAtTarget ==
  [][inPlace' \ inPlace # {} /\ patch.target # NoTarget /\ headKnown
       => rev' = rev /\ rev = patch.target]_vars

(* The environment a failed git apply --check is a success for: the patch  *)
(* fits the revision, nobody else touches the tree, and git apply is never *)
(* stopped half way.                                                       *)
Undisturbed == patch.fits = Revision /\ habits = {} /\ ~torn

(* apply_patch "Returns True on success" (line 89): however often a build  *)
(* is interrupted and run again, between the patch and its marker too, the *)
(* builder goes on with the whole patch in place.                          *)
CompiledPatched ==
  Undisturbed /\ pc = "compile" /\ patch.exists /\ git
    => inPlace = patch.parts

(* cmake_builder.py:100-103: a declared target commit makes the build bail *)
(* out "when the source has moved underneath it".                          *)
CompiledAtTarget ==
  pc = "compile" /\ patch.exists /\ patch.target # NoTarget /\ headKnown
    => rev = patch.target

=============================================================================
