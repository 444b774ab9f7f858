--------------------------- MODULE AutotoolsBuilder ---------------------------
(***************************************************************************)
(* AutotoolsBuilder.build (builder/autotools_builder.py:88-181) for one    *)
(* library, over builds that follow one another with other compilers and   *)
(* other configurations and share build directories inside the source      *)
(* tree.  Each of them may fail or be interrupted at any step, in the      *)
(* middle of the wipe and of the writing of the stamp too.                 *)
(*                                                                         *)
(* Patches are the business of PatchManager, validation of                 *)
(* ArchiveValidation; both appear here as steps that may fail.             *)
(***************************************************************************)
CONSTANTS
  Path, Version,   \* what tells two compilers apart
  NoBanner,        \* --version did not answer
  Arch, BuildType, \* --arch and --build-type
  Tag,             \* --macos-sdk, or the libc of the host
  Object,          \* what make produces
  Makefile,        \* what configure produces
  Absent, Torn     \* a file that is not there; a stamp that is there, empty

Toolchain == [path : Path, version : Version]
Signature == [path : Path, version : Version \cup {NoBanner}]
Config == [arch : Arch, build_type : BuildType, tag : Tag]
Entry == Object \cup {Makefile}

(* What a file of a build directory was made with.                         *)
Made == [toolchain : Toolchain, config : Config]

ASSUME DistinctValues ==
  /\ NoBanner \notin Version /\ Makefile \notin Object
  /\ Absent \notin Made /\ Absent \notin Signature /\ Torn \notin Signature
  /\ Absent # Torn

VARIABLES
  toolchain, config,  \* the compiler and the configuration of the build
  signature,          \* the local of _ensure_toolchain_match
  pc,                 \* the step build is at
  stamp,              \* .toolchain_stamp of every build directory
  built,              \* the rest of every build directory
  output              \* what is installed in every output directory

vars == <<toolchain, config, signature, pc, stamp, built, output>>
job == <<toolchain, config>>
disk == <<stamp, built, output>>

(* Mutant of BuildDir: one build directory for all architectures.          *)
BuildDirOfType(c) ==
  [arch |-> CHOOSE a \in Arch : TRUE, build_type |-> c.build_type]

(* Line 120: the build directory depends on these two parts of the         *)
(* configuration; the output directory on all three (config.py:83-111).    *)
BuildDir(c) == [arch |-> c.arch, build_type |-> c.build_type]
Dir == [arch : Arch, build_type : BuildType]
Here == BuildDir(config)

(* _toolchain_signature (lines 28-69): a compiler whose --version fails or *)
(* times out contributes its path alone.                                   *)
SignatureOf(t, answers) ==
  IF answers THEN t ELSE [path |-> t.path, version |-> NoBanner]

(* What a signature tells of the compiler it was taken of.                 *)
Names(sig, t) ==
  sig.path = t.path /\ (sig.version # NoBanner => sig.version = t.version)

HasArtifacts(d) == \E e \in Entry : built[d][e] # Absent

(* Build directories may hold the artifacts of builds that are older than  *)
(* the stamp (lines 169-170).                                              *)
Init ==
  /\ toolchain \in Toolchain /\ config \in Config
  /\ signature = toolchain
  /\ pc = "idle"
  /\ stamp = [d \in Dir |-> Absent]
  /\ \E m \in Made : \E old \in SUBSET Entry :
       built = [d \in Dir |-> [e \in Entry |->
                  IF d = BuildDir(m.config) /\ e \in old THEN m ELSE Absent]]
  /\ output = [c \in Config |-> [o \in Object |-> Absent]]

-----------------------------------------------------------------------------
StartBuild(t, c) ==
  /\ pc = "idle"
  /\ toolchain' = t /\ config' = c
  /\ pc' = "prepare"
  /\ UNCHANGED <<signature, disk>>

(* Mutant of CompareStamp: artifacts without a stamp are not wiped.        *)
CompareExistingStamp ==
  /\ pc = "prepare"
  /\ \E answers \in BOOLEAN : signature' = SignatureOf(toolchain, answers)
  /\ pc' = IF stamp[Here] \notin {signature', Absent} /\ HasArtifacts(Here)
           THEN "wipe" ELSE "truncate"
  /\ UNCHANGED <<job, disk>>

(* Lines 110-126: the patch and autogen.sh have succeeded, and             *)
(* _ensure_toolchain_match compares the signature with the stamp.          *)
CompareStamp ==
  /\ pc = "prepare"
  /\ \E answers \in BOOLEAN : signature' = SignatureOf(toolchain, answers)
  /\ pc' = IF stamp[Here] # signature' /\ HasArtifacts(Here)
           THEN "wipe" ELSE "truncate"
  /\ UNCHANGED <<job, disk>>

(* shutil.rmtree removes the entries one by one, the stamp like the others *)
(* and in no particular order.                                             *)
WipeEntry(e) ==
  /\ pc = "wipe" /\ built[Here][e] # Absent
  /\ built' = [built EXCEPT ![Here][e] = Absent]
  /\ UNCHANGED <<job, signature, pc, stamp, output>>

WipeStamp ==
  /\ pc = "wipe" /\ stamp[Here] # Absent
  /\ stamp' = [stamp EXCEPT ![Here] = Absent]
  /\ UNCHANGED <<job, signature, pc, built, output>>

(* Mutant of Wiped: errors of rmtree are ignored, and files may be left.   *)
WipedInPart ==
  /\ pc = "wipe"
  /\ pc' = "truncate"
  /\ UNCHANGED <<job, signature, disk>>

(* The directory is empty; it is made anew (line 179).                     *)
Wiped ==
  /\ pc = "wipe" /\ ~HasArtifacts(Here) /\ stamp[Here] = Absent
  /\ pc' = "truncate"
  /\ UNCHANGED <<job, signature, disk>>

(* Line 181, write_text: the file is emptied by its opening and gets its   *)
(* text when it is closed.                                                 *)
TruncateStamp ==
  /\ pc = "truncate"
  /\ stamp' = [stamp EXCEPT ![Here] = Torn]
  /\ pc' = "write"
  /\ UNCHANGED <<job, signature, built, output>>

WriteStamp ==
  /\ pc = "write"
  /\ stamp' = [stamp EXCEPT ![Here] = signature]
  /\ pc' = "configure"
  /\ UNCHANGED <<job, signature, built, output>>

(* Mutant of Current: what was made does not tell the configuration.       *)
CurrentToolchain == toolchain

(* Lines 129-131, 193-242: the Makefile is written for this compiler and   *)
(* these flags.                                                            *)
Current == [toolchain |-> toolchain, config |-> config]

Configure ==
  /\ pc = "configure"
  /\ built' = [built EXCEPT ![Here][Makefile] = Current]
  /\ pc' = "make"
  /\ UNCHANGED <<job, signature, stamp, output>>

(* make compiles what is missing and what it takes for out of date; what   *)
(* is there already it may leave as it is.                                 *)
Compile(o) ==
  /\ pc = "make"
  /\ built' = [built EXCEPT ![Here][o] = Current]
  /\ UNCHANGED <<job, signature, pc, stamp, output>>

MakeDone ==
  /\ pc = "make" /\ \A o \in Object : built[Here][o] # Absent
  /\ pc' = "install"
  /\ UNCHANGED <<job, signature, disk>>

(* make install copies the files of S (lines 140-142); all of them when it *)
(* succeeds.                                                               *)
Installed(S) ==
  output' = [output EXCEPT ![config] =
               [o \in Object |-> IF o \in S THEN built[Here][o] ELSE @[o]]]

Install ==
  /\ pc = "install"
  /\ Installed(Object)
  /\ pc' = "validate"
  /\ UNCHANGED <<job, signature, stamp, built>>

Succeed ==
  /\ pc = "validate"
  /\ pc' = "idle"
  /\ UNCHANGED <<job, signature, disk>>

(* The step fails and build returns False, or the program is killed:       *)
(* configure and make install may have done a part of their work.          *)
Stop ==
  /\ pc # "idle"
  /\ pc' = "idle"
  /\ \/ UNCHANGED disk
     \/ /\ pc = "configure"
        /\ built' = [built EXCEPT ![Here][Makefile] = Current]
        /\ UNCHANGED <<stamp, output>>
     \/ /\ pc = "install"
        /\ \E S \in SUBSET Object : Installed(S)
        /\ UNCHANGED <<stamp, built>>
  /\ UNCHANGED <<job, signature>>

Next ==
  \/ \E t \in Toolchain, c \in Config : StartBuild(t, c)
  \/ CompareStamp \/ \E e \in Entry : WipeEntry(e)
  \/ WipeStamp \/ Wiped \/ TruncateStamp \/ WriteStamp
  \/ Configure \/ \E o \in Object : Compile(o)
  \/ MakeDone \/ Install \/ Succeed \/ Stop

Spec == Init /\ [][Next]_vars

-----------------------------------------------------------------------------
(* Properties.                                                             *)

TypeOK ==
  /\ toolchain \in Toolchain /\ config \in Config
  /\ signature \in Signature
  /\ pc \in {"idle", "prepare", "wipe", "truncate", "write", "configure",
             "make", "install", "validate"}
  /\ stamp \in [Dir -> Signature \cup {Absent, Torn}]
  /\ built \in [Dir -> [Entry -> Made \cup {Absent}]]
  /\ output \in [Config -> [Object -> Made \cup {Absent}]]

(* The stamp may be trusted at any time, however the builds before were    *)
(* interrupted: what lies next to it was made with the compiler it names.  *)
(* A crash inside rmtree or inside write_text leaves a stamp that matches  *)
(* nothing, or the old stamp with old files only; and a stamp written      *)
(* while --version failed never turns into one that names a version.       *)
StampIdentifiesArtifacts ==
  \A d \in Dir : \A e \in Entry :
    stamp[d] \in Signature /\ built[d][e] # Absent =>
      Names(stamp[d], built[d][e].toolchain)

(* What _ensure_toolchain_match is for (autotools_builder.py:122-125):     *)
(* configure, make and make install never meet a file of another compiler, *)
(* as far as the compiler told its version.                                *)
MakeSeesOneToolchain ==
  pc \in {"configure", "make", "install"} =>
    \A e \in Entry : built[Here][e] # Absent =>
      /\ built[Here][e].toolchain.path = toolchain.path
      /\ signature.version # NoBanner => built[Here][e].toolchain = toolchain

(* "arch-specific to prevent cross-architecture contamination" (line 119): *)
(* nothing built for an architecture, or as Debug, is ever installed among *)
(* the libraries of another one.                                           *)
OutputKeepsArch ==
  \A c \in Config : \A o \in Object :
    output[c][o] # Absent =>
      /\ output[c][o].config.arch = c.arch
      /\ output[c][o].config.build_type = c.build_type

(* config.py:94-95: the tag in the name of the output directory is there   *)
(* so that ABI-incompatible builds do not overwrite one another in it.     *)
OutputKeepsTag ==
  \A c \in Config : \A o \in Object :
    output[c][o] # Absent => output[c][o].config.tag = c.tag

(***************************************************************************)
(* What the two inductive invariants of AutotoolsBuilder_proofs rest on.   *)
(***************************************************************************)

(* The last comparison vouches for the directory until the stamp is there. *)
Vouched ==
  /\ pc \notin {"idle", "prepare"} => Names(signature, toolchain)
  /\ pc \in {"truncate", "write", "configure", "make", "install"} =>
       \A e \in Entry :
         built[Here][e] # Absent => Names(signature, built[Here][e].toolchain)
  /\ pc \in {"configure", "make", "install", "validate"} =>
       stamp[Here] = signature

OwnDirectory ==
  \A d \in Dir : \A e \in Entry :
    built[d][e] # Absent => BuildDir(built[d][e].config) = d

=============================================================================
