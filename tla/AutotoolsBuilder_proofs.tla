----------------------- MODULE AutotoolsBuilder_proofs -----------------------
(***************************************************************************)
(* For every set of compilers, configurations and files: the toolchain     *)
(* stamp does its work through every failure and every crash, as long as   *)
(* compilers tell their version, and build directories keep architectures  *)
(* apart.                                                                  *)
(***************************************************************************)
EXTENDS AutotoolsBuilder, TLAPS

(* The variables keep their types, whatever a compiler answers.            *)
THEOREM TypeCorrect == Spec => []TypeOK
<1> USE DEF TypeOK, Toolchain, Signature, Config, Entry, Made, Dir, Here,
            BuildDir
<1>1. Init => TypeOK
  BY DEF Init
<1>2. TypeOK /\ [Next]_vars => TypeOK'
  <2> SUFFICES ASSUME TypeOK, [Next]_vars PROVE TypeOK'
    OBVIOUS
  <2> USE DEF job, disk
  <2>1. ASSUME NEW t \in Toolchain, NEW c \in Config, StartBuild(t, c)
        PROVE  TypeOK'
    BY <2>1 DEF StartBuild
  <2>2. CASE CompareStamp
    <3>1. PICK answers \in BOOLEAN :
            signature' = SignatureOf(toolchain, answers)
      BY <2>2 DEF CompareStamp
    <3>2. signature' \in Signature
      BY <3>1 DEF SignatureOf
    <3>3. /\ UNCHANGED <<toolchain, config, stamp, built, output>>
          /\ pc' \in {"wipe", "truncate"}
      BY <2>2 DEF CompareStamp
    <3> QED
      BY <3>2, <3>3
  <2>3. ASSUME NEW e \in Entry, WipeEntry(e) PROVE TypeOK'
    BY <2>3 DEF WipeEntry
  <2>4. CASE WipeStamp
    BY <2>4 DEF WipeStamp
  <2>5. CASE Wiped
    BY <2>5 DEF Wiped
  <2>6. CASE TruncateStamp
    BY <2>6 DEF TruncateStamp
  <2>7. CASE WriteStamp
    BY <2>7 DEF WriteStamp
  <2>8. CASE Configure
    BY <2>8 DEF Configure, Current
  <2>9. ASSUME NEW o \in Object, Compile(o) PROVE TypeOK'
    BY <2>9 DEF Compile, Current
  <2>10. CASE MakeDone
    BY <2>10 DEF MakeDone
  <2>11. ASSUME NEW S \in SUBSET Object, Installed(S)
         PROVE  output' \in [Config -> [Object -> Made \cup {Absent}]]
    <3>1. built[Here] \in [Entry -> Made \cup {Absent}]
      OBVIOUS
    <3>2. [o \in Object |-> IF o \in S THEN built[Here][o]
                            ELSE output[config][o]]
             \in [Object -> Made \cup {Absent}]
      <4>1. output[config] \in [Object -> Made \cup {Absent}]
        OBVIOUS
      <4>2. \A o \in Object : /\ built[Here][o] \in Made \cup {Absent}
                             /\ output[config][o] \in Made \cup {Absent}
        <5> HIDE DEF Made, Config, Here, Dir, BuildDir
        <5> QED
          BY <3>1, <4>1
      <4> HIDE DEF Made, Config, Here, Dir, BuildDir
      <4> QED
        BY <4>2
    <3>3. output' = [output EXCEPT ![config] =
             [o \in Object |-> IF o \in S THEN built[Here][o]
                               ELSE output[config][o]]]
      BY <2>11 DEF Installed
    <3> QED
      BY <3>2, <3>3
  <2>12. CASE Install
    BY <2>12, <2>11 DEF Install
  <2>13. CASE Succeed
    BY <2>13 DEF Succeed
  <2>14. CASE Stop
    <3>1. pc' = "idle" /\ UNCHANGED <<toolchain, config, signature>>
      BY <2>14 DEF Stop
    <3>2. CASE UNCHANGED disk
      BY <3>1, <3>2
    <3>3. CASE /\ built' = [built EXCEPT ![Here][Makefile] = Current]
               /\ UNCHANGED <<stamp, output>>
      BY <3>1, <3>3 DEF Current
    <3>4. CASE /\ \E S \in SUBSET Object : Installed(S)
               /\ UNCHANGED <<stamp, built>>
      BY <3>1, <3>4, <2>11
    <3> QED
      BY <2>14, <3>2, <3>3, <3>4 DEF Stop
  <2>15. CASE UNCHANGED vars
    BY <2>15 DEF vars
  <2> QED
    BY <2>1, <2>2, <2>3, <2>4, <2>5, <2>6, <2>7, <2>8, <2>9, <2>10, <2>12,
       <2>13, <2>14, <2>15 DEF Next
<1> QED
  BY <1>1, <1>2, PTL DEF Spec

(***************************************************************************)
(* The directories.                                                        *)
(***************************************************************************)

(* Line 119: build directories are "arch-specific to prevent               *)
(* cross-architecture contamination".  Whatever the builds and however     *)
(* they end, an output directory only gets files of its own architecture   *)
(* and build type, because all that is in a build directory was made for a *)
(* configuration that belongs there.                                       *)
THEOREM BuildDirsKeepArch == Spec => []OutputKeepsArch
<1> DEFINE ArchInv == OwnDirectory /\ OutputKeepsArch
<1>1. Init => ArchInv
  BY DistinctValues DEF Init, OwnDirectory, OutputKeepsArch
<1>2. TypeOK /\ ArchInv /\ [Next]_vars => ArchInv'
  <2> SUFFICES ASSUME TypeOK, ArchInv, [Next]_vars PROVE ArchInv'
    OBVIOUS
  <2> USE DEF job, disk
  <2>1. Here \in Dir /\ config \in Config /\ BuildDir(config) = Here
    BY DEF TypeOK, Config, Here, BuildDir, Dir
  <2>2. ASSUME UNCHANGED <<built, output>> PROVE ArchInv'
    BY <2>2 DEF OwnDirectory, OutputKeepsArch
  <2>3. ASSUME NEW e \in Entry, UNCHANGED output,
               \/ built' = [built EXCEPT ![Here][e] = Current]
               \/ built' = [built EXCEPT ![Here][e] = Absent]
        PROVE  ArchInv'
    <3>1. ASSUME NEW d \in Dir, NEW f \in Entry, built'[d][f] # Absent
          PROVE  BuildDir(built'[d][f].config) = d
      <4>1. CASE d = Here /\ f = e
        <5>1. built'[d][f] = Current
          BY <2>3, <3>1, <4>1 DEF TypeOK
        <5> QED
          BY <5>1, <4>1, <2>1 DEF Current
      <4>2. CASE ~(d = Here /\ f = e)
        <5>1. built'[d][f] = built[d][f]
          BY <2>3, <4>2 DEF TypeOK
        <5> QED
          BY <5>1, <3>1 DEF OwnDirectory
      <4> QED
        BY <4>1, <4>2
    <3>2. OutputKeepsArch'
      BY <2>3 DEF OutputKeepsArch
    <3> QED
      BY <3>1, <3>2 DEF OwnDirectory
  <2>4. ASSUME NEW S \in SUBSET Object, Installed(S), UNCHANGED built
        PROVE  ArchInv'
    <3>1. ASSUME NEW c \in Config, NEW o \in Object, output'[c][o] # Absent
          PROVE  /\ output'[c][o].config.arch = c.arch
                 /\ output'[c][o].config.build_type = c.build_type
      <4>1. CASE c = config /\ o \in S
        <5>1. output'[c][o] = built[Here][o]
          BY <2>4, <4>1 DEF Installed, TypeOK
        <5>2. BuildDir(built[Here][o].config) = BuildDir(c)
          BY <5>1, <3>1, <4>1, <2>1 DEF OwnDirectory, Entry
        <5> QED
          BY <5>1, <5>2 DEF BuildDir
      <4>2. CASE ~(c = config /\ o \in S)
        <5>1. output'[c][o] = output[c][o]
          BY <2>4, <4>2 DEF Installed, TypeOK
        <5> QED
          BY <5>1, <3>1 DEF OutputKeepsArch
      <4> QED
        BY <4>1, <4>2
    <3>2. OwnDirectory'
      BY <2>4 DEF OwnDirectory
    <3> QED
      BY <3>1, <3>2 DEF OutputKeepsArch
  <2>5. Makefile \in Entry /\ Object \subseteq Entry
    BY DEF Entry
  <2>6. ASSUME NEW t \in Toolchain, NEW c \in Config, StartBuild(t, c)
        PROVE  ArchInv'
    BY <2>6, <2>2 DEF StartBuild
  <2>7. CASE CompareStamp
    BY <2>7, <2>2 DEF CompareStamp
  <2>8. ASSUME NEW e \in Entry, WipeEntry(e) PROVE ArchInv'
    BY <2>8, <2>3 DEF WipeEntry
  <2>9. CASE WipeStamp
    BY <2>9, <2>2 DEF WipeStamp
  <2>10. CASE Wiped \/ TruncateStamp \/ WriteStamp \/ MakeDone \/ Succeed
    BY <2>10, <2>2 DEF Wiped, TruncateStamp, WriteStamp, MakeDone, Succeed
  <2>11. CASE Configure
    BY <2>11, <2>3, <2>5 DEF Configure
  <2>12. ASSUME NEW o \in Object, Compile(o) PROVE ArchInv'
    BY <2>12, <2>3, <2>5 DEF Compile
  <2>13. CASE Install
    BY <2>13, <2>4 DEF Install
  <2>14. CASE Stop
    BY <2>14, <2>2, <2>3, <2>4, <2>5 DEF Stop
  <2>15. CASE UNCHANGED vars
    BY <2>15, <2>2 DEF vars
  <2> QED
    BY <2>6, <2>7, <2>8, <2>9, <2>10, <2>11, <2>12, <2>13, <2>14, <2>15
       DEF Next
<1> QED
  BY <1>1, <1>2, TypeCorrect, PTL DEF Spec

(***************************************************************************)
(* The stamp.  ToolInv is inductive: the stamp vouches for the files next  *)
(* to it, and between the comparison and the writing of the stamp, when    *)
(* there is none to rely on, the comparison itself does.                   *)
(***************************************************************************)
ToolInv == Vouched /\ StampIdentifiesArtifacts

(* A directory that passed the comparison, or was wiped after it, holds    *)
(* files of the current compiler only.                                     *)
LEMMA ComparedDirectory ==
  ASSUME TypeOK, ToolInv, CompareStamp
  PROVE  ToolInv'
<1>1. Names(signature', toolchain)
  BY DEF CompareStamp, SignatureOf, Names, TypeOK, Toolchain
<1>2. /\ UNCHANGED <<toolchain, config, stamp, built, output>>
      /\ pc' = IF stamp[Here] # signature' /\ HasArtifacts(Here)
              THEN "wipe" ELSE "truncate"
  BY DEF CompareStamp, job, disk
<1>3. Here' = Here
  BY <1>2 DEF Here
<1>4. StampIdentifiesArtifacts'
  BY <1>2 DEF StampIdentifiesArtifacts, ToolInv
<1>5. ASSUME pc' = "truncate", NEW e \in Entry, built[Here][e] # Absent
      PROVE  Names(signature', built[Here][e].toolchain)
  <2>1. stamp[Here] = signature'
    BY <1>2, <1>5 DEF HasArtifacts
  <2>2. Here \in Dir
    BY DEF TypeOK, Here, BuildDir, Config, Dir
  <2>3. signature' \in Signature
    BY DEF CompareStamp, SignatureOf, TypeOK, Toolchain, Signature
  <2> QED
    BY <2>1, <2>2, <2>3, <1>5 DEF ToolInv, StampIdentifiesArtifacts
<1> QED
  BY <1>1, <1>2, <1>3, <1>4, <1>5 DEF ToolInv, Vouched

LEMMA ToolInvStep ==
  ASSUME TypeOK, ToolInv, [Next]_vars
  PROVE  ToolInv'
<1> USE DEF job, disk
<1>1. Here \in Dir
  BY DEF TypeOK, Here, BuildDir, Config, Dir
<1>2. Makefile \in Entry /\ Object \subseteq Entry
  BY DEF Entry
(* Steps that neither touch the files nor start anything.                  *)
<1>3. ASSUME UNCHANGED <<toolchain, config, signature, stamp, built>>,
             \/ pc' = pc \/ pc' = "idle"
             \/ pc = "wipe" /\ pc' = "truncate" /\ ~HasArtifacts(Here)
             \/ pc = "make" /\ pc' = "install"
             \/ pc = "install" /\ pc' = "validate"
      PROVE  ToolInv'
  <2>1. Here' = Here
    BY <1>3 DEF Here
  <2>2. StampIdentifiesArtifacts'
    BY <1>3 DEF StampIdentifiesArtifacts, ToolInv
  <2>3. Vouched'
    BY <1>3, <2>1 DEF Vouched, HasArtifacts, ToolInv
  <2> QED
    BY <2>2, <2>3 DEF ToolInv
(* Steps that write a file with the current compiler.                      *)
<1>4. ASSUME UNCHANGED <<toolchain, config, signature, stamp>>,
             NEW e \in Entry, built' = [built EXCEPT ![Here][e] = Current],
             \/ pc = "configure" /\ pc' \in {"make", "idle"}
             \/ pc = "make" /\ pc' = "make"
      PROVE  ToolInv'
  <2>1. Here' = Here
    BY <1>4 DEF Here
  <2>2. stamp[Here] = signature /\ Names(signature, toolchain)
    BY <1>4 DEF ToolInv, Vouched
  <2>3. ASSUME NEW d \in Dir, NEW f \in Entry
        PROVE  built'[d][f] = IF d = Here /\ f = e THEN Current ELSE built[d][f]
    BY <1>1, <1>4 DEF TypeOK
  <2>4. StampIdentifiesArtifacts'
    <3> SUFFICES ASSUME NEW d \in Dir, NEW f \in Entry,
                        stamp[d] \in Signature, built'[d][f] # Absent
                 PROVE  Names(stamp[d], built'[d][f].toolchain)
      BY <1>4 DEF StampIdentifiesArtifacts
    <3>1. CASE d = Here /\ f = e
      BY <3>1, <2>2, <2>3 DEF Current
    <3>2. CASE ~(d = Here /\ f = e)
      BY <3>2, <2>3 DEF ToolInv, StampIdentifiesArtifacts
    <3> QED
      BY <3>1, <3>2
  <2>5. \A f \in Entry : built'[Here][f] # Absent =>
                          Names(signature, built'[Here][f].toolchain)
    BY <1>1, <1>4, <2>3 DEF Current, ToolInv, Vouched
  <2>6. Vouched'
    BY <1>4, <2>1, <2>5 DEF Vouched, ToolInv
  <2> QED
    BY <2>4, <2>6 DEF ToolInv
(* The actions.                                                            *)
<1>5. ASSUME NEW t \in Toolchain, NEW c \in Config, StartBuild(t, c)
      PROVE  ToolInv'
  BY <1>5 DEF StartBuild, ToolInv, Vouched, StampIdentifiesArtifacts
<1>6. CASE CompareStamp
  BY <1>6, ComparedDirectory
<1>7. ASSUME NEW e \in Entry, WipeEntry(e) PROVE ToolInv'
  <2>1. ASSUME NEW d \in Dir, NEW f \in Entry
        PROVE  built'[d][f] = IF d = Here /\ f = e THEN Absent ELSE built[d][f]
    BY <1>1, <1>7 DEF WipeEntry, TypeOK
  <2>2. StampIdentifiesArtifacts'
    BY <1>7, <2>1 DEF WipeEntry, ToolInv, StampIdentifiesArtifacts
  <2>3. Vouched'
    BY <1>7 DEF WipeEntry, ToolInv, Vouched, Here
  <2> QED
    BY <2>2, <2>3 DEF ToolInv
<1>8. CASE WipeStamp
  <2>1. StampIdentifiesArtifacts'
    BY <1>1, <1>8, DistinctValues
       DEF WipeStamp, ToolInv, StampIdentifiesArtifacts, TypeOK
  <2> QED
    BY <1>8, <2>1 DEF WipeStamp, ToolInv, Vouched, Here
<1>9. CASE Wiped
  BY <1>9, <1>3 DEF Wiped
<1>10. CASE TruncateStamp
  <2>1. StampIdentifiesArtifacts'
    BY <1>1, <1>10, DistinctValues
       DEF TruncateStamp, ToolInv, StampIdentifiesArtifacts, TypeOK
  <2> QED
    BY <1>10, <2>1 DEF TruncateStamp, ToolInv, Vouched, Here
<1>11. CASE WriteStamp
  <2>1. \A d \in Dir : stamp'[d] = IF d = Here THEN signature ELSE stamp[d]
    BY <1>1, <1>11 DEF WriteStamp, ToolInv, Vouched, TypeOK
  <2>2. Here' = Here /\ built' = built
    BY <1>11 DEF WriteStamp, Here
  <2>3. StampIdentifiesArtifacts'
    BY <1>11, <2>1, <2>2
       DEF WriteStamp, ToolInv, Vouched, StampIdentifiesArtifacts
  <2>4. Vouched'
    BY <1>1, <1>11, <2>1, <2>2 DEF WriteStamp, ToolInv, Vouched
  <2> QED
    BY <2>3, <2>4 DEF ToolInv
<1>12. CASE Configure
  BY <1>12, <1>4, <1>2 DEF Configure
<1>13. ASSUME NEW o \in Object, Compile(o) PROVE ToolInv'
  BY <1>13, <1>4, <1>2 DEF Compile
<1>14. CASE MakeDone \/ Install \/ Succeed
  BY <1>14, <1>3 DEF MakeDone, Install, Succeed
<1>15. CASE Stop
  BY <1>15, <1>3, <1>4, <1>2 DEF Stop
<1>16. CASE UNCHANGED vars
  BY <1>16, <1>3 DEF vars
<1> QED
  BY <1>5, <1>6, <1>7, <1>8, <1>9, <1>10, <1>11, <1>12, <1>13, <1>14, <1>15,
     <1>16 DEF Next

LEMMA ToolInvHolds == Spec => []ToolInv
<1>1. Init => ToolInv
  BY DistinctValues DEF Init, ToolInv, Vouched, StampIdentifiesArtifacts
<1>2. TypeOK /\ ToolInv /\ [Next]_vars => ToolInv'
  BY ToolInvStep
<1> QED
  BY <1>1, <1>2, TypeCorrect, PTL DEF Spec

(* Lines 156-164: the stamp of a directory, when it is a signature, names  *)
(* the compiler that made everything next to it, after any sequence of     *)
(* failed and interrupted builds.                                          *)
THEOREM StampIsSound == Spec => []StampIdentifiesArtifacts
<1>1. ToolInv => StampIdentifiesArtifacts
  BY DEF ToolInv
<1> QED
  BY <1>1, ToolInvHolds, PTL

(* Lines 122-126: configure, make and make install only meet files of the  *)
(* compiler that runs them.                                                *)
THEOREM MakeIsUniform == Spec => []MakeSeesOneToolchain
<1>1. TypeOK /\ ToolInv => MakeSeesOneToolchain
  <2> SUFFICES ASSUME TypeOK, ToolInv, pc \in {"configure", "make", "install"},
                      NEW e \in Entry, built[Here][e] # Absent
               PROVE  /\ built[Here][e].toolchain.path = toolchain.path
                      /\ signature.version # NoBanner =>
                           built[Here][e].toolchain = toolchain
    BY DEF MakeSeesOneToolchain
  <2>1. /\ Names(signature, toolchain)
        /\ Names(signature, built[Here][e].toolchain)
    BY DEF ToolInv, Vouched
  <2>2. Here \in Dir
    BY DEF TypeOK, Here, BuildDir, Config, Dir
  <2>3. toolchain \in Toolchain /\ built[Here][e].toolchain \in Toolchain
    BY <2>2 DEF TypeOK, Made
  <2>4. \A t \in Toolchain : t = [path |-> t.path, version |-> t.version]
    BY DEF Toolchain
  <2>5. /\ built[Here][e].toolchain.path = toolchain.path
        /\ signature.version # NoBanner =>
             built[Here][e].toolchain.version = toolchain.version
    BY <2>1 DEF Names
  <2> QED
    BY <2>3, <2>4, <2>5
<1> QED
  BY <1>1, ToolInvHolds, TypeCorrect, PTL

=============================================================================
