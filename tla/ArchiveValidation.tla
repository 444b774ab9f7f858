--------------------------- MODULE ArchiveValidation ---------------------------
(***************************************************************************)
(* What the platforms check of one static library: validate_architecture   *)
(* (builder/platforms/macos.py:82-143) and validate_crt_linkage with       *)
(* _contains_ltcg_objects (builder/platforms/windows.py:354-480).          *)
(*                                                                         *)
(* An archive is what the two tools can tell of it: the architectures it   *)
(* has code for, the C runtimes its objects ask for, and whether they are  *)
(* /GL (LTCG) objects.                                                     *)
(***************************************************************************)
CONSTANTS
  Platform,   \* BuildConfig.platform_name
  Arch        \* --arch

ASSUME PlatformAssumption == Platform \in {"linux", "macos", "windows"}

BuildType == {"Release", "Debug"}
Runtime == {"MD", "MT"}
Crt == {"LIBCMT", "LIBCMTD", "MSVCRT", "MSVCRTD"}

AnyConfig == [arch : Arch, build_type : BuildType, runtime_lib : Runtime]

AnyContent == [archs : (SUBSET Arch) \ {{}}, crts : SUBSET Crt, ltcg : BOOLEAN]

(* windows.py:371-389.                                                     *)
ExpectedCrt(c) ==
  IF c.runtime_lib = "MT"
  THEN IF c.build_type = "Debug" THEN "LIBCMTD" ELSE "LIBCMT"
  ELSE IF c.build_type = "Debug" THEN "MSVCRTD" ELSE "MSVCRT"

ForbiddenCrts(c) == Crt \ {ExpectedCrt(c)}

(* /GL objects keep their directives in metadata dumpbin cannot read       *)
(* (windows.py:25-31).                                                     *)
HidesCrt(x) == Platform = "windows" /\ x.ltcg

(* What dumpbin /directives prints.                                        *)
Directives(x) == IF HidesCrt(x) THEN {} ELSE x.crts

(* Mutant of RejectedUnasked: /GL objects are not looked for.              *)
NeverRejected(x, scanned) == FALSE

(* windows.py:436-444: an archive in which /GL objects are found is        *)
(* rejected before dumpbin is asked.  _contains_ltcg_objects finds none    *)
(* when reading the file raises an OSError (364-368): it was not scanned.  *)
RejectedUnasked(x, scanned) == scanned /\ HidesCrt(x)

(* The verdict on an archive the tool has answered for (macos.py:127-135,  *)
(* windows.py:458-474).                                                    *)
Accepted(c, x, scanned) ==
  CASE Platform = "windows" ->
         ~RejectedUnasked(x, scanned) /\ Directives(x) \cap ForbiddenCrts(c) = {}
    [] Platform = "macos" -> c.arch \in x.archs
    [] OTHER -> TRUE

(* What an archive must be for the programs that link it: code for the     *)
(* architecture, and no other C runtime than theirs.                       *)
Fits(c, x) ==
  /\ Platform = "windows" => x.crts \subseteq {ExpectedCrt(c)}
  /\ Platform = "macos" => c.arch \in x.archs

=============================================================================
