------------------------------- MODULE BuildRun -------------------------------
(***************************************************************************)
(* Successive runs of build.py over the same output directories: the loop  *)
(* of main (build.py:264-398), what the four builders do to                *)
(* output/<configuration>/lib from their install step on, the validation   *)
(* after each library with the cache of validated archives the process     *)
(* keeps, the dependencies test, and --clean.  Any step may fail and a run *)
(* may be interrupted anywhere; what it has installed stays.               *)
(*                                                                         *)
(* Which libraries are built, and in which order, is BuildOrder's result;  *)
(* what precedes the install step is abstracted to one step (PatchManager  *)
(* and AutotoolsBuilder refine it).                                        *)
(***************************************************************************)
EXTENDS ArchiveValidation, Naturals, Sequences

CONSTANTS
  Library, Archive,
  Config,        \* the configurations in use
  BuildSystem,   \* Library.get_build_system of each library
  Deps,          \* the enabled dependencies of each library
  Installs,      \* the archives each library installs, by build type
  ReleaseTwins,  \* vpxmt.lib and vpxmd.lib
  Content,       \* what compilers may put into an archive
  Absent,        \* no such file
  Requests,      \* what main may be asked to build
  Linked         \* the archives the dependencies test links, by build type

Request == [libs : Seq(Library), all : BOOLEAN]

ASSUME LibrariesAssumption ==
  /\ Config \subseteq AnyConfig /\ Content \subseteq AnyContent
  /\ Absent \notin Content
  /\ BuildSystem \in [Library -> {"cmake", "autotools", "meson", "msys2"}]
  /\ Deps \in [Library -> SUBSET Library]
  /\ Installs \in [Library -> [BuildType -> SUBSET Archive]]
  /\ ReleaseTwins \subseteq Archive
  /\ Linked \in [BuildType -> SUBSET Archive]

(* main leaves when there is nothing to build; a library is in the list    *)
(* once (what BuildOrder establishes).                                     *)
ASSUME RequestsAssumption ==
  /\ Requests \subseteq Request
  /\ \A r \in Requests :
       /\ r.libs # << >>
       /\ \A i, j \in DOMAIN r.libs : r.libs[i] = r.libs[j] => i = j

VARIABLES
  lib,        \* the archives in lib/ of every output directory
  staged,     \* those installed where, or as, lib/*.lib does not match them
  step,       \* where main is; "exited" between two runs
  config, request, index,   \* the arguments, and the loop of main
  validated,  \* the class attribute _validated_libs
  warned,     \* archives the tool gave no answer for when last asked
  unscanned,  \* /GL archives this process has validated without reading them
  fresh,      \* the run started on an empty output directory
  result      \* the exit status of the last run

vars == <<lib, staged, step, config, request, index, validated, warned,
          unscanned, fresh, result>>
args == <<config, request, fresh>>
cache == <<validated, warned, unscanned>>
disk == <<lib, staged>>

Lib == lib[config]
Staged == staged[config]
Empty == [a \in Archive |-> Absent]
Present == {a \in Archive : Lib[a] # Absent}
Current == request.libs[index]
Files(l) == Installs[l][config.build_type]

Init ==
  /\ lib = [c \in Config |-> Empty] /\ staged = [c \in Config |-> Empty]
  /\ step = "exited"
  /\ config \in Config /\ request \in Requests /\ index = 1
  /\ validated = {} /\ warned = {} /\ unscanned = {}
  /\ fresh = TRUE
  /\ result = "none"

-----------------------------------------------------------------------------
(* A new process: the cache is empty (build.py:273-334, 361-367).          *)
StartRun(c, r) ==
  /\ step = "exited"
  /\ config' = c /\ request' = r /\ index' = 1
  /\ validated' = {} /\ warned' = {} /\ unscanned' = {}
  /\ fresh' = (lib[c] = Empty /\ staged[c] = Empty)
  /\ result' = "none"
  /\ step' = "compile"
  /\ UNCHANGED disk

Exit(status) == step' = "exited" /\ result' = status

(* Patches, configuration and compilation have gone well.                  *)
Compile ==
  /\ step = "compile"
  /\ step' = "install"
  /\ UNCHANGED <<disk, args, index, cache, result>>

(* Libraries whose archives have to be put into place after the install:   *)
(* Meson's lib<name>.a on Windows (meson_builder.py:90-96) and the ones    *)
(* libvpx puts into lib/x64 (msys2_builder.py:75).  The fix-up takes all   *)
(* the files of that form it finds, whichever build left them there.       *)
Stages(l) == \/ BuildSystem[l] = "msys2"
             \/ BuildSystem[l] = "meson" /\ Platform = "windows"

Pending ==
  IF ~Stages(Current) THEN {}
  ELSE {a \in Archive :
          /\ Staged[a] # Absent
          /\ \E l \in Library : /\ BuildSystem[l] = BuildSystem[Current]
                                /\ \E b \in BuildType : a \in Installs[l][b]}

Written(old, S, made) == [a \in Archive |-> IF a \in S THEN made[a] ELSE old[a]]

InstallFiles(S) ==
  \E made \in [S -> Content] :
    IF Stages(Current)
    THEN /\ staged' = [staged EXCEPT ![config] = Written(@, S, made)]
         /\ UNCHANGED lib
    ELSE /\ lib' = [lib EXCEPT ![config] = Written(@, S, made)]
         /\ UNCHANGED staged

Install ==
  /\ step = "install"
  /\ InstallFiles(Files(Current))
  /\ step' = "fixup"
  /\ UNCHANGED <<args, index, cache, result>>

(* _rename_static_libs_to_lib and _flatten_lib_dir: one file is moved over *)
(* the one of that name in lib/, which goes first.                         *)
PutInPlace(a) ==
  /\ step = "fixup" /\ a \in Pending
  /\ lib' = [lib EXCEPT ![config][a] = Staged[a]]
  /\ staged' = [staged EXCEPT ![config][a] = Absent]
  /\ UNCHANGED <<step, args, index, cache, result>>

(* Mutant of ToPurge: the purge looks where make install puts the files,   *)
(* which the flattening has emptied.                                       *)
ToPurgeStaged == IF BuildSystem[Current] = "msys2" /\ config.build_type = "Debug"
                 THEN {a \in ReleaseTwins \cap Present : Staged[a] # Absent}
                 ELSE {}

(* _purge_release_libs, after the flattening (msys2_builder.py:80-81).     *)
ToPurge == IF BuildSystem[Current] = "msys2" /\ config.build_type = "Debug"
           THEN ReleaseTwins \cap Present ELSE {}

Purge(a) ==
  /\ step = "fixup" /\ Pending = {} /\ a \in ToPurge
  /\ lib' = [lib EXCEPT ![config][a] = Absent]
  /\ UNCHANGED <<staged, step, args, index, cache, result>>

FixedUp ==
  /\ step = "fixup" /\ Pending = {} /\ ToPurge = {}
  /\ step' = "validate"
  /\ UNCHANGED <<disk, args, index, cache, result>>

(* Which builder asks the platform for which validation.                   *)
Validates(l) ==
  \/ Platform = "windows" /\ BuildSystem[l] # "autotools"
  \/ Platform = "macos" /\ BuildSystem[l] # "msys2"

(* All the archives in lib/ that this process has not validated yet are    *)
(* looked at.  Reading those in blind raises an OSError (for the others    *)
(* than /GL archives that makes no difference); for those in mute dumpbin  *)
(* or lipo fails or times out, which is a warning only.                    *)
Unseen == IF Validates(Current) THEN Present \ validated ELSE {}

Unread == SUBSET {a \in Unseen : HidesCrt(Lib[a])}
Asked(blind) == {a \in Unseen : ~RejectedUnasked(Lib[a], a \notin blind)}
Good(blind, mute) ==
  {a \in Unseen \ mute : Accepted(config, Lib[a], a \notin blind)}

Record(good, blind) ==
  /\ validated' = validated \cup good
  /\ unscanned' = unscanned \cup (good \cap blind)

(* Mutant of Validate: a bad archive is reported but does not fail the     *)
(* build.                                                                  *)
ValidateWarnsOnly ==
  /\ step = "validate"
  /\ \E blind \in Unread : \E mute \in SUBSET Asked(blind) :
       Record(Good(blind, mute), blind) /\ warned' = mute
  /\ step' = "assert"
  /\ UNCHANGED <<disk, args, index, result>>

Validate ==
  /\ step = "validate"
  /\ \E blind \in Unread : \E mute \in SUBSET Asked(blind) :
       /\ Record(Good(blind, mute), blind)
       /\ warned' = IF Validates(Current) THEN mute ELSE warned
       /\ IF Unseen = Good(blind, mute) \cup mute
          THEN step' = "assert" /\ UNCHANGED result
          ELSE Exit("failed")
  /\ UNCHANGED <<disk, args, index>>

(* Mutants of NextLibrary: the loop ends too late, or one too early.       *)
NextLibraryLate ==
  /\ step = "assert"
  /\ IF index <= Len(request.libs)
     THEN index' = index + 1 /\ step' = "compile" /\ UNCHANGED result
     ELSE UNCHANGED index /\ Exit("success")
  /\ UNCHANGED <<disk, args, cache>>

NextLibraryEarly ==
  /\ step = "assert"
  /\ IF index < Len(request.libs) - 1
     THEN index' = index + 1 /\ step' = "compile" /\ UNCHANGED result
     ELSE /\ UNCHANGED index
          /\ IF request.all THEN step' = "test" /\ UNCHANGED result
                            ELSE Exit("success")
  /\ UNCHANGED <<disk, args, cache>>

(* The post-build assertions (CMake libraries) hold.  The loop of main     *)
(* goes on; after the last library the dependencies test is run, if the    *)
(* whole platform was built (build.py:367-396).                            *)
NextLibrary ==
  /\ step = "assert"
  /\ IF index < Len(request.libs)
     THEN index' = index + 1 /\ step' = "compile" /\ UNCHANGED result
     ELSE /\ UNCHANGED index
          /\ IF request.all THEN step' = "test" /\ UNCHANGED result
                            ELSE Exit("success")
  /\ UNCHANGED <<disk, args, cache>>

(* run_dependencies_test: a missing archive is a link error.               *)
Test ==
  /\ step = "test"
  /\ Linked[config.build_type] \subseteq Present
  /\ Exit("success")
  /\ UNCHANGED <<disk, args, index, cache>>

(* Mutant of Stop: the loop goes on after a library that failed.           *)
StopAndGoOn ==
  /\ step \notin {"exited", "clean"} /\ index < Len(request.libs)
  /\ step' = "compile" /\ index' = index + 1
  /\ UNCHANGED <<disk, args, cache, result>>

(* The step at hand fails, which ends the run (build.py:382-388), or the   *)
(* run is interrupted.  The install step may have written any part of its  *)
(* files, and a move may have removed the old file only.                   *)
Stop ==
  /\ step # "exited"
  /\ Exit("failed")
  /\ \/ UNCHANGED disk
     \/ step = "install" /\ \E S \in SUBSET Files(Current) : InstallFiles(S)
     \/ /\ step = "fixup"
        /\ \E a \in Pending : lib' = [lib EXCEPT ![config][a] = Absent]
        /\ UNCHANGED staged
  /\ UNCHANGED <<args, index, cache>>

(* --clean (build.py:124-184, 268-271): every output directory is emptied, *)
(* file by file.                                                           *)
StartClean(c) ==
  /\ step = "exited"
  /\ step' = "clean" /\ config' = c /\ result' = "none"
  /\ validated' = {} /\ warned' = {} /\ unscanned' = {}
  /\ UNCHANGED <<disk, request, index, fresh>>

CleanFile(c, a) ==
  /\ step = "clean"
  /\ \/ /\ lib[c][a] # Absent
        /\ lib' = [lib EXCEPT ![c][a] = Absent] /\ UNCHANGED staged
     \/ /\ staged[c][a] # Absent
        /\ staged' = [staged EXCEPT ![c][a] = Absent] /\ UNCHANGED lib
  /\ UNCHANGED <<step, args, index, cache, result>>

Cleaned ==
  /\ step = "clean"
  /\ \A c \in Config : lib[c] = Empty /\ staged[c] = Empty
  /\ Exit("cleaned")
  /\ UNCHANGED <<disk, args, index, cache>>

Next ==
  \/ \E c \in Config, r \in Requests : StartRun(c, r)
  \/ Compile \/ Install \/ FixedUp
  \/ \E a \in Archive : PutInPlace(a) \/ Purge(a)
  \/ Validate \/ NextLibrary \/ Test \/ Stop
  \/ \E c \in Config : StartClean(c)
  \/ \E c \in Config, a \in Archive : CleanFile(c, a)
  \/ Cleaned

Spec == Init /\ [][Next]_vars

-----------------------------------------------------------------------------
(* Properties.                                                             *)

TypeOK ==
  /\ lib \in [Config -> [Archive -> Content \cup {Absent}]]
  /\ staged \in [Config -> [Archive -> Content \cup {Absent}]]
  /\ step \in {"compile", "install", "fixup", "validate", "assert", "test",
               "clean", "exited"}
  /\ config \in Config /\ request \in Requests
  /\ index \in DOMAIN request.libs
  /\ validated \subseteq Archive /\ warned \subseteq Archive
  /\ unscanned \subseteq Archive
  /\ fresh \in BOOLEAN
  /\ result \in {"none", "success", "failed", "cleaned"}

(* windows.py:394 and macos.py:85: the validation is there so that all     *)
(* the archives of a successful run are right.  Two kinds escape it: those *)
(* it has warned about, because the tool did not answer, and on Windows,   *)
(* without a word, /GL archives whose scan met an OSError.                 *)
AllFit == \A a \in Present : a \in warned \cup unscanned \/ Fits(config, Lib[a])

SuccessMeansValidated == result = "success" => AllFit

(* This is so when the output directory was empty at the start, whatever   *)
(* the compilers produce and whatever the tools fail to read: no rename,   *)
(* purge, retry or library built later brings in an archive past it.       *)
FreshRunIsValidated == fresh => SuccessMeansValidated

(* build.py:367-388: the loop stops at the first failure and the list has  *)
(* dependencies first, so a library is only ever compiled when what its    *)
(* dependencies leave behind is in place, and nothing in between (the      *)
(* moves and the purge of another builder, the wipe of an interrupted run) *)
(* has taken it away.                                                      *)
Kept(l, b) == IF BuildSystem[l] = "msys2" /\ b = "Debug"
              THEN Installs[l][b] \ ReleaseTwins ELSE Installs[l][b]
Left(l) == Kept(l, config.build_type)

Closed(libs) ==
  \A i \in DOMAIN libs : Deps[libs[i]] \subseteq {libs[j] : j \in 1 .. (i - 1)}

DepsInPlace ==
  step \in {"compile", "install"} /\ Closed(request.libs) =>
    \A d \in Deps[Current] : Left(d) \subseteq Present

(* build.py:391-396: the test is run "once everything is present".  (Not   *)
(* so for a Debug build on Windows: CMakeLists.txt:260-267 links vpxmt or  *)
(* vpxmd there too, which msys2_builder.py:302-306 removes.)               *)
TestFindsLibraries ==
  step = "test" => Linked[config.build_type] \subseteq Present

(* What is so instead: of the archives it links the test misses those the  *)
(* purge of this run has removed (msys2_builder.py:79-83), and no other;   *)
(* and none of them comes back, with what a run before has left in lib/ or *)
(* lib/x64 or with a library built after the purge.                        *)
UsesMsys2(libs) == \E i \in DOMAIN libs : BuildSystem[libs[i]] = "msys2"
Purged == IF config.build_type = "Debug" /\ UsesMsys2(request.libs)
          THEN ReleaseTwins ELSE {}

TestLacksThePurged ==
  step = "test" =>
    Linked[config.build_type] \ Present = Linked[config.build_type] \cap Purged

(***************************************************************************)
(* The inductive invariants.                                               *)
(***************************************************************************)
Building == step \in {"compile", "install", "fixup", "validate", "assert", "test"}

(* The libraries the loop is through with, and the one it is at once its   *)
(* files are in place.                                                     *)
Before(n) == {request.libs[j] : j \in 1 .. (n - 1)}
Through == IF step \in {"validate", "assert", "test"} THEN Before(index + 1)
           ELSE Before(index)

InPlaceInv ==
  /\ Building => \A l \in Through : Left(l) \subseteq Present
  /\ step = "fixup" =>
       \A a \in Left(Current) :
         a \in Present \/ (Stages(Current) /\ Staged[a] # Absent)
  /\ step = "test" => request.all /\ index = Len(request.libs)

(* Once an MSYS2 library of a Debug run is through, the Release twins are  *)
(* gone; only another one's fix-up brings them back, and purges them again.*)
PurgedInv ==
  /\ Building /\ config.build_type = "Debug"
  /\ \E l \in Through : BuildSystem[l] = "msys2"
  => \/ step = "fixup" /\ BuildSystem[Current] = "msys2"
     \/ ReleaseTwins \cap Present = {}

(* In a run that started on an empty directory everything in lib/ comes    *)
(* from the libraries built so far, a validated archive is not written     *)
(* again, and only the current library has files that are not validated.   *)
FilesOfAll(S) == UNION {Files(l) : l \in S}

NoResultYet == step # "exited" => result = "none"

FreshInv ==
  fresh /\ Building =>
    /\ \A a \in Archive : Staged[a] # Absent =>
         step = "fixup" /\ Stages(Current) /\ a \in Files(Current)
    /\ Present \subseteq FilesOfAll(IF step \in {"compile", "install"}
                                   THEN Before(index) ELSE Before(index + 1))
    /\ validated \subseteq FilesOfAll(IF step \in {"assert", "test"}
                                     THEN Before(index + 1) ELSE Before(index))
    /\ \A a \in validated \cap Present : a \in unscanned \/ Fits(config, Lib[a])
    /\ \A a \in Present :
         \/ a \in warned \cup unscanned \/ Fits(config, Lib[a])
         \/ step \in {"fixup", "validate"} /\ a \in Files(Current)

=============================================================================
