------------------------------- MODULE CefBuild -------------------------------
(***************************************************************************)
(* build_cef.py over many runs that share a download directory (depot_tools,*)
(* automate-git.py, the Chromium checkout) and output/cef_binary_*: the    *)
(* bootstrap with its prompt, one automate-git.py run per architecture, the *)
(* choice of the distribution to install, its merge into output/, the      *)
(* archive, and both kinds of --clean.  A run may be interrupted anywhere. *)
(*                                                                         *)
(* automate-git.py is not part of the repository; it is modelled by what   *)
(* build_cef.py says of it (lines 239-252, 440-447, 496-500, 570-571).     *)
(***************************************************************************)
EXTENDS Naturals, Sequences

CONSTANTS
  Version,   \* what --branch and --checkout select
  Platform,  \* BuildConfig.platform_name
  Host,      \* the architecture of the machine
  NoVersion, \* no checkout
  Requests   \* the command lines in use

ASSUME HostAssumption ==
  /\ Platform \in {"linux", "macos", "windows"}
  /\ Host \in {"arm64", "x86_64"}
  /\ NoVersion \notin Version

Arch == {"arm64", "x86_64"}
BuildType == {"Release", "Debug"}

(* cef_binary_<version>_<platform>, with what changes inside it: the shared *)
(* files (include, Resources, *.txt and so on) and a directory per type.   *)
Name == [version : Version, arch : Arch]
Entry == BuildType \cup {"shared"}

(* An entry is missing, cut short, made by an earlier run or by this one.  *)
State == {"absent", "torn", "old", "new"}
Folder == [Entry -> State]
Nothing == [e \in Entry |-> "absent"]

Tool == {"absent", "torn", "whole"}

Request == [archs : {<<"arm64">>, <<"x86_64">>, <<"arm64", "x86_64">>},
            types : (SUBSET BuildType) \ {{}},
            version : Version,
            force_build : BOOLEAN, sync_only : BOOLEAN, archive : BOOLEAN]

(* Lines 661-673 and check_cross_compile (396-412).                        *)
Valid(r) ==
  /\ Len(r.archs) = 2 => Platform = "macos" /\ ~r.sync_only
  /\ r.sync_only => ~r.force_build /\ ~r.archive
  /\ Platform # "macos" => r.archs = <<Host>>

ASSUME RequestsAssumption == Requests \subseteq {r \in Request : Valid(r)}

VARIABLES
  depot_tools, automate,  \* the tools in the download directory
  synced,     \* the version the Chromium checkout is at, "torn" if unknown
  gn,         \* the architectures out/*_GN_* is configured for
  distribs,   \* binary_distrib/cef_binary_* of the checkout
  newest,     \* the one with the latest modification time
  output,     \* output/cef_binary_*
  archives,   \* output/cef_binary_*.tar.bz2; "torn" when a part of it is
  step, request, index,   \* main and its loop over configs
  todo,       \* the entries of the distribution still to be copied
  consent,    \* somebody, or an automation, agreed to this download directory
  result

tools == <<depot_tools, automate>>
tree == <<synced, gn, distribs, newest>>
published == <<output, archives>>
local == <<request, index, todo>>
vars == <<tools, tree, published, step, local, consent, result>>

Target == [version |-> request.version, arch |-> request.archs[index]]

NoFolders == [n \in Name |-> Nothing]
NoArchives == [n \in Name |-> "absent"]

Init ==
  /\ depot_tools = "absent" /\ automate = "absent"
  /\ synced = NoVersion /\ gn = {} /\ distribs = NoFolders /\ newest = NoVersion
  /\ output = NoFolders /\ archives = NoArchives
  /\ step = "idle" /\ request \in Requests /\ index = 1
  /\ todo = {}
  /\ consent = FALSE /\ result = "none"

(* The process ends.                                                       *)
Exit(status) == step' = "idle" /\ result' = status

-----------------------------------------------------------------------------
(* A new run: what lies around is old.                                     *)
Aged(x) == IF x = "new" THEN "old" ELSE x
AllAged(fs) == [n \in Name |-> [e \in Entry |-> Aged(fs[n][e])]]

StartRun(r) ==
  /\ step = "idle"
  /\ request' = r /\ index' = 1
  /\ distribs' = AllAged(distribs)
  /\ output' = AllAged(output)
  /\ archives' = [n \in Name |-> Aged(archives[n])]
  /\ step' = "confirm" /\ result' = "none"
  /\ UNCHANGED <<tools, synced, gn, newest, todo, consent>>

(* confirm_bootstrap (lines 378-393): the prompt is for a directory that   *)
(* has neither automate-git.py nor a checkout in it.                       *)
CheckoutExists == automate # "absent" \/ synced # NoVersion

(* Mutant of Confirm: the answer does not stop the run.                    *)
ConfirmAnyway ==
  /\ step = "confirm"
  /\ \E yes \in BOOLEAN : consent' = (consent \/ (~CheckoutExists /\ yes))
  /\ step' = "depot_tools"
  /\ UNCHANGED <<tools, tree, published, local, result>>

Confirm ==
  /\ step = "confirm"
  /\ \/ /\ CheckoutExists
        /\ step' = "depot_tools" /\ UNCHANGED <<consent, result>>
     \/ /\ ~CheckoutExists
        /\ step' = "depot_tools" /\ consent' = TRUE /\ UNCHANGED result
     \/ /\ ~CheckoutExists
        /\ Exit("failed") /\ UNCHANGED consent
  /\ UNCHANGED <<tools, tree, published, local>>

(* ensure_depot_tools, ensure_automate_git (lines 453-485): a directory or *)
(* file that exists is taken as it is.                                     *)
EnsureDepotTools ==
  /\ step = "depot_tools"
  /\ depot_tools' = IF depot_tools = "absent" THEN "whole" ELSE depot_tools
  /\ step' = "automate"
  /\ UNCHANGED <<automate, tree, published, local, consent, result>>

EnsureAutomateGit ==
  /\ step = "automate"
  /\ automate' = IF automate = "absent" THEN "whole" ELSE automate
  /\ step' = "run"
  /\ UNCHANGED <<depot_tools, tree, published, local, consent, result>>

-----------------------------------------------------------------------------
(* automate-git.py, with the flags of automate_git_command (488-564).      *)

(* --no-update on the second architecture.                                 *)
Updates == index = 1

(* Mutant of Forces: --force-build is only passed on when it was asked for.*)
ForcesIfAsked == request.force_build

Forces == request.force_build \/ index > 1

(* build_environment is called once, with configs[0] (line 680): only its  *)
(* architecture is configured by an update.                                *)
Configured == IF Updates THEN gn \cup {request.archs[1]} ELSE gn

(* The build and the distribution are skipped, with success, when nothing  *)
(* has changed and nothing forces them (lines 243-250).                    *)
Builds == /\ ~request.sync_only
          /\ Forces \/ (Updates /\ synced # request.version)

Made == [e \in Entry |-> IF e \in request.types \cup {"shared"} THEN "new"
                         ELSE "absent"]

Automate ==
  /\ step = "run" /\ depot_tools = "whole" /\ automate = "whole"
  /\ Builds => Target.arch \in Configured
  /\ synced' = IF Updates THEN request.version ELSE synced
  /\ gn' = Configured
  /\ IF Builds THEN /\ distribs' = [distribs EXCEPT ![Target] = Made]
                    /\ newest' = Target
               ELSE UNCHANGED <<distribs, newest>>
  /\ IF request.sync_only THEN Exit("synced")
                          ELSE step' = "locate" /\ UNCHANGED result
  /\ UNCHANGED <<tools, published, local, consent>>

(* It fails, or is interrupted, in the sync or in the build.               *)
AutomateFails ==
  /\ step = "run" /\ Exit("failed")
  /\ \/ UNCHANGED tree
     \/ /\ Updates /\ depot_tools = "whole" /\ automate = "whole"
        /\ synced' = "torn" /\ UNCHANGED <<gn, distribs, newest>>
     \/ /\ Builds /\ Target.arch \in Configured
        /\ depot_tools = "whole" /\ automate = "whole"
        /\ synced' = IF Updates THEN request.version ELSE synced
        /\ gn' = Configured
        /\ \/ UNCHANGED <<distribs, newest>>
           \/ /\ newest' = Target
              /\ distribs' = [distribs EXCEPT ![Target] =
                   [e \in Entry |-> IF Made[e] = "new" THEN "torn" ELSE "absent"]]
  /\ UNCHANGED <<tools, published, local, consent>>

-----------------------------------------------------------------------------
(* locate_distribution (567-581), install_distribution (584-613).          *)

(* The distribution located is the newest one, and stays so: nothing else  *)
(* touches the checkout until it is installed.                             *)
dist == newest

(* Mutant of Parts: the target folder is wiped as a whole.                 *)
AllParts(f) == Entry

Parts(f) == {e \in Entry : f[e] # "absent"}

Locate ==
  /\ step = "locate"
  /\ IF newest = NoVersion
     THEN Exit("failed") /\ UNCHANGED todo
     ELSE /\ todo' = Parts(distribs[newest])
          /\ step' = "install" /\ UNCHANGED result
  /\ UNCHANGED <<tools, tree, published, request, index, consent>>

(* rmtree, then copytree, of one entry; the order is iterdir's.            *)
InstallEntry(e) ==
  /\ step = "install" /\ e \in todo
  /\ output' = [output EXCEPT ![dist][e] = distribs[dist][e]]
  /\ todo' = todo \ {e}
  /\ UNCHANGED <<tools, tree, archives, step, request, index, consent,
                 result>>

(* Mutant of Last: the loop goes one too far.                              *)
LastLate == index > Len(request.archs)

(* archive_dist (616-630), and the end of the loop (line 740).             *)
Last == index = Len(request.archs)

Archived ==
  [archives EXCEPT ![dist] =
     IF \E e \in Entry : output[dist][e] = "torn" THEN "torn" ELSE "new"]

Installed ==
  /\ step = "install" /\ todo = {}
  /\ archives' = IF request.archive THEN Archived ELSE archives
  /\ IF Last THEN Exit("success") /\ UNCHANGED index
             ELSE step' = "run" /\ index' = index + 1 /\ UNCHANGED result
  /\ UNCHANGED <<tools, tree, output, request, todo, consent>>

(* An interruption anywhere else: a clone or a download is cut short, an   *)
(* entry is removed or copied in part, or the archive is packed in part.   *)
Stop ==
  /\ step \notin {"idle", "run"} /\ Exit("failed")
  /\ \/ UNCHANGED <<tools, published>>
     \/ /\ step = "depot_tools" /\ depot_tools = "absent"
        /\ depot_tools' = "torn" /\ UNCHANGED <<automate, published>>
     \/ /\ step = "automate" /\ automate = "absent"
        /\ automate' = "torn" /\ UNCHANGED <<depot_tools, published>>
     \/ \E e \in todo : /\ step = "install"
                        /\ output' = [output EXCEPT ![dist][e] = "torn"]
                        /\ UNCHANGED <<tools, archives>>
     \/ /\ step = "install" /\ todo = {} /\ request.archive
        /\ archives' = [archives EXCEPT ![dist] = "torn"]
        /\ UNCHANGED <<tools, output>>
  /\ todo' = {}
  /\ UNCHANGED <<tree, request, index, consent>>

-----------------------------------------------------------------------------
(* Between runs.                                                           *)

(* Either --clean is interrupted: seen one entry of a folder at a time,    *)
(* which rmtree has removed or cut short, or one archive.                  *)
CleanStops ==
  /\ step = "idle" /\ result' = "failed"
  /\ \E n \in Name :
       \/ \E e \in Entry, x \in {"torn", "absent"} :
            /\ output[n][e] # "absent"
            /\ output' = [output EXCEPT ![n][e] = x]
            /\ UNCHANGED archives
       \/ archives' = [archives EXCEPT ![n] = "absent"] /\ UNCHANGED output
  /\ UNCHANGED <<tools, tree, step, local, consent>>

(* build_cef.py --clean (clean_output, 335-354).                           *)
Clean ==
  /\ step = "idle" /\ result' = "cleaned"
  /\ output' = NoFolders /\ archives' = NoArchives
  /\ UNCHANGED <<tools, tree, step, local, consent>>

(* build.py --clean (build.py:163-171) empties the folders of output/, the *)
(* CEF ones too, and leaves the archives.                                  *)
BuildPyClean ==
  /\ step = "idle" /\ result' = "cleaned"
  /\ output' = NoFolders
  /\ UNCHANGED <<tools, tree, archives, step, local, consent>>

(* The disk with the download directory is not mounted, or not named       *)
(* (docstring of confirm_bootstrap): the run meets an empty one.           *)
LoseDownloadDir ==
  /\ step = "idle"
  /\ depot_tools' = "absent" /\ automate' = "absent"
  /\ synced' = NoVersion /\ gn' = {} /\ distribs' = NoFolders
  /\ newest' = NoVersion
  /\ consent' = FALSE
  /\ UNCHANGED <<published, step, local, result>>

Next ==
  \/ \E r \in Requests : StartRun(r)
  \/ Confirm \/ EnsureDepotTools \/ EnsureAutomateGit
  \/ Automate \/ AutomateFails \/ Locate
  \/ \E e \in Entry : InstallEntry(e)
  \/ Installed \/ Stop
  \/ CleanStops \/ Clean \/ BuildPyClean \/ LoseDownloadDir

Spec == Init /\ [][Next]_vars

-----------------------------------------------------------------------------
(* Properties.                                                             *)

TypeOK ==
  /\ depot_tools \in Tool /\ automate \in Tool
  /\ synced \in Version \cup {NoVersion, "torn"} /\ gn \subseteq Arch
  /\ distribs \in [Name -> Folder] /\ newest \in Name \cup {NoVersion}
  /\ output \in [Name -> Folder] /\ archives \in [Name -> State]
  /\ step \in {"idle", "confirm", "depot_tools", "automate", "run", "locate",
               "install"}
  /\ request \in Requests /\ index \in DOMAIN request.archs
  /\ todo \subseteq Entry
  /\ consent \in BOOLEAN
  /\ result \in {"none", "failed", "success", "synced", "cleaned"}

(* What "CEF build completed successfully!" (line 747) stands for when the *)
(* build was forced, by --force-build or as the second of two              *)
(* architectures: the folder of that version and architecture has, whole,  *)
(* what this run has made, over whatever interrupted runs and cleans have  *)
(* left there; and its archive is packed anew, and whole if the directory  *)
(* of the other build type is.                                             *)
ForcedBuildIsInstalled ==
  result = "success" =>
    \A i \in DOMAIN request.archs :
      request.force_build \/ i > 1 =>
        LET n == [version |-> request.version, arch |-> request.archs[i]]
        IN  /\ \A e \in request.types \cup {"shared"} : output[n][e] = "new"
            /\ request.archive /\ (\A e \in Entry : output[n][e] # "torn") =>
                 archives[n] = "new"

(* install_distribution (lines 591-597) replaces only what the new         *)
(* distribution has: at no moment of an installation, interruptions        *)
(* included, is a directory of the other build type, of another version or *)
(* of another architecture touched.                                        *)
MergeKeepsTheOther ==
  [][step = "install" =>
       \A n \in Name, e \in Entry :
         output'[n][e] # output[n][e] =>
           n = dist /\ distribs[n][e] # "absent"]_vars

(* confirm_bootstrap: nothing is downloaded into a directory nobody has    *)
(* agreed to, also when an earlier run into it was interrupted half way or *)
(* the directory has changed since.                                        *)
ConsentBeforeDownload ==
  depot_tools # "absent" \/ automate # "absent" \/ synced # NoVersion => consent

(* locate_distribution is to find "the freshly produced CEF binary         *)
(* distribution folder" (line 568).                                        *)
LocatedIsFresh ==
  step = "install" => dist = Target /\ distribs[dist]["shared"] = "new"

=============================================================================
