---------------------------- MODULE BuildRun_proofs ----------------------------
(***************************************************************************)
(* For every set of libraries, archives and configurations: what a run of  *)
(* build.py may rely on while it goes through its list, and what its       *)
(* success says of the archives.                                           *)
(***************************************************************************)
EXTENDS BuildRun, SequenceTheorems, TLAPS

(* What an install step writes has the type of a directory.                *)
LEMMA WrittenType ==
  ASSUME NEW old \in [Archive -> Content \cup {Absent}],
         NEW S \in SUBSET Archive, NEW made \in [S -> Content]
  PROVE  /\ Written(old, S, made) \in [Archive -> Content \cup {Absent}]
         /\ \A a \in Archive :
              Written(old, S, made)[a] = IF a \in S THEN made[a] ELSE old[a]
BY DEF Written

LEMMA CurrentType ==
  ASSUME TypeOK
  PROVE  /\ request \in Request /\ request.libs # << >>
         /\ Current \in Library
         /\ Files(Current) \in SUBSET Archive
         /\ config.build_type \in BuildType
         /\ Lib \in [Archive -> Content \cup {Absent}]
         /\ Staged \in [Archive -> Content \cup {Absent}]
<1>1. request \in Request /\ request.libs # << >>
  BY RequestsAssumption DEF TypeOK
<1>2. Current \in Library
  BY <1>1 DEF TypeOK, Current, Request
<1>3. config.build_type \in BuildType
  BY LibrariesAssumption DEF TypeOK, AnyConfig
<1>4. Files(Current) \in SUBSET Archive
  BY <1>2, <1>3, LibrariesAssumption DEF Files
<1> QED
  BY <1>1, <1>2, <1>3, <1>4 DEF TypeOK, Lib, Staged

(* The two ways an install step can go.                                    *)
LEMMA InstallFilesCases ==
  ASSUME TypeOK, NEW S \in SUBSET Archive, InstallFiles(S)
  PROVE  \E made \in [S -> Content] :
           \/ /\ Stages(Current)
              /\ staged' = [staged EXCEPT ![config] = Written(Staged, S, made)]
              /\ lib' = lib
           \/ /\ ~Stages(Current)
              /\ lib' = [lib EXCEPT ![config] = Written(Lib, S, made)]
              /\ staged' = staged
BY DEF InstallFiles, Lib, Staged

LEMMA DiskType ==
  ASSUME TypeOK, NEW S \in SUBSET Archive, InstallFiles(S)
  PROVE  /\ lib' \in [Config -> [Archive -> Content \cup {Absent}]]
         /\ staged' \in [Config -> [Archive -> Content \cup {Absent}]]
<1>1. PICK made \in [S -> Content] :
           \/ /\ Stages(Current)
              /\ staged' = [staged EXCEPT ![config] = Written(Staged, S, made)]
              /\ lib' = lib
           \/ /\ ~Stages(Current)
              /\ lib' = [lib EXCEPT ![config] = Written(Lib, S, made)]
              /\ staged' = staged
  BY InstallFilesCases
<1>2. /\ Written(Staged, S, made) \in [Archive -> Content \cup {Absent}]
      /\ Written(Lib, S, made) \in [Archive -> Content \cup {Absent}]
  BY CurrentType, WrittenType
<1> QED
  BY <1>1, <1>2 DEF TypeOK

(* One file is written or removed.                                         *)
LEMMA OneFile ==
  ASSUME NEW V, NEW d \in [Config -> [Archive -> V]],
         NEW c \in Config, NEW a \in Archive, NEW v \in V
  PROVE  /\ [d EXCEPT ![c][a] = v] \in [Config -> [Archive -> V]]
         /\ \A f \in Archive :
              [d EXCEPT ![c][a] = v][c][f] = IF f = a THEN v ELSE d[c][f]
OBVIOUS

(* The variables keep their types; in particular the loop never leaves the *)
(* list.                                                                   *)
THEOREM TypeCorrect == Spec => []TypeOK
<1>1. Init => TypeOK
  <2>1. \A r \in Requests : 1 \in DOMAIN r.libs
    BY RequestsAssumption, EmptySeq DEF Request
  <2> QED
    BY <2>1 DEF Init, TypeOK, Empty
<1>2. TypeOK /\ [Next]_vars => TypeOK'
  <2> SUFFICES ASSUME TypeOK, [Next]_vars PROVE TypeOK'
    OBVIOUS
  <2> USE DEF args, cache, disk
  <2>1. ASSUME NEW c \in Config, NEW r \in Requests, StartRun(c, r)
        PROVE  TypeOK'
    <3>1. 1 \in DOMAIN r.libs
      BY RequestsAssumption, EmptySeq DEF Request
    <3> QED
      BY <2>1, <3>1 DEF StartRun, TypeOK
  <2>2. CASE Compile
    BY <2>2 DEF Compile, TypeOK
  <2>3. CASE Install
    <3>1. /\ lib' \in [Config -> [Archive -> Content \cup {Absent}]]
          /\ staged' \in [Config -> [Archive -> Content \cup {Absent}]]
      BY <2>3, CurrentType, DiskType DEF Install
    <3> QED
      BY <2>3, <3>1 DEF Install, TypeOK
  <2>4. CASE FixedUp
    BY <2>4 DEF FixedUp, TypeOK
  <2>5. ASSUME NEW a \in Archive, PutInPlace(a) PROVE TypeOK'
    BY <2>5, CurrentType DEF PutInPlace, TypeOK
  <2>6. ASSUME NEW a \in Archive, Purge(a) PROVE TypeOK'
    BY <2>6 DEF Purge, TypeOK
  <2>7. CASE Validate
    <3>1. Present \subseteq Archive
      BY DEF Present
    <3>2. UNCHANGED <<disk, args, index>>
      BY <2>7 DEF Validate
    <3>3. /\ validated' \subseteq Archive /\ warned' \subseteq Archive
          /\ unscanned' \subseteq Archive
          /\ \/ step' = "assert" /\ result' = result
             \/ step' = "exited" /\ result' = "failed"
      BY <2>7, <3>1 DEF Validate, Record, Good, Unread, Asked, Unseen, Exit, TypeOK
    <3> QED
      BY <3>2, <3>3 DEF TypeOK
  <2>9. CASE NextLibrary
    <3>1. index < Len(request.libs) => index + 1 \in DOMAIN request.libs
      BY CurrentType DEF TypeOK, Request
    <3>2. UNCHANGED <<disk, args, cache>>
      BY <2>9 DEF NextLibrary
    <3>3. /\ index' \in DOMAIN request.libs
          /\ step' \in {"compile", "test", "exited"}
          /\ result' \in {result, "success"}
      BY <2>9, <3>1 DEF NextLibrary, Exit, TypeOK
    <3> QED
      BY <3>2, <3>3 DEF TypeOK
  <2>10. CASE Test
    BY <2>10 DEF Test, Exit, TypeOK
  <2>11. CASE Stop
    <3>1. UNCHANGED <<args, index, cache>> /\ step' = "exited" /\ result' = "failed"
      BY <2>11 DEF Stop, Exit
    <3>2. /\ lib' \in [Config -> [Archive -> Content \cup {Absent}]]
          /\ staged' \in [Config -> [Archive -> Content \cup {Absent}]]
      <4>1. CASE UNCHANGED disk
        BY <4>1 DEF TypeOK
      <4>2. CASE \E S \in SUBSET Files(Current) : InstallFiles(S)
        <5>1. PICK S \in SUBSET Files(Current) : InstallFiles(S)
          BY <4>2
        <5>2. S \in SUBSET Archive
          BY CurrentType
        <5> QED
          BY <5>1, <5>2, DiskType
      <4>3. CASE /\ \E a \in Pending : lib' = [lib EXCEPT ![config][a] = Absent]
                 /\ UNCHANGED staged
        <5>1. PICK a \in Pending : lib' = [lib EXCEPT ![config][a] = Absent]
          BY <4>3
        <5>2. a \in Archive
          BY <5>1 DEF Pending
        <5>3. lib' \in [Config -> [Archive -> Content \cup {Absent}]]
          BY <5>1, <5>2, OneFile DEF TypeOK
        <5> QED
          BY <4>3, <5>3 DEF TypeOK
      <4> QED
        BY <2>11, <4>1, <4>2, <4>3 DEF Stop
    <3> QED
      BY <3>1, <3>2 DEF TypeOK
  <2>12. ASSUME NEW c \in Config, StartClean(c) PROVE TypeOK'
    BY <2>12 DEF StartClean, TypeOK
  <2>13. ASSUME NEW c \in Config, NEW a \in Archive, CleanFile(c, a)
         PROVE  TypeOK'
    <3>1. /\ lib' \in [Config -> [Archive -> Content \cup {Absent}]]
          /\ staged' \in [Config -> [Archive -> Content \cup {Absent}]]
      <4>1. CASE lib' = [lib EXCEPT ![c][a] = Absent] /\ UNCHANGED staged
        <5>1. lib' \in [Config -> [Archive -> Content \cup {Absent}]]
          BY <4>1, OneFile DEF TypeOK
        <5> QED
          BY <4>1, <5>1 DEF TypeOK
      <4>2. CASE staged' = [staged EXCEPT ![c][a] = Absent] /\ UNCHANGED lib
        <5>1. staged' \in [Config -> [Archive -> Content \cup {Absent}]]
          BY <4>2, OneFile DEF TypeOK
        <5> QED
          BY <4>2, <5>1 DEF TypeOK
      <4> QED
        BY <2>13, <4>1, <4>2 DEF CleanFile
    <3> QED
      BY <2>13, <3>1 DEF CleanFile, TypeOK
  <2>14. CASE Cleaned
    BY <2>14 DEF Cleaned, Exit, TypeOK
  <2>15. CASE UNCHANGED vars
    BY <2>15 DEF vars, TypeOK
  <2> QED
    BY <2>1, <2>2, <2>3, <2>4, <2>5, <2>6, <2>7, <2>9, <2>10, <2>11,
       <2>12, <2>13, <2>14, <2>15 DEF Next
<1> QED
  BY <1>1, <1>2, PTL DEF Spec

(***************************************************************************)
(* What is in place stays in place.                                        *)
(***************************************************************************)

(* Only the MSYS2 builder's libraries install what the purge removes.      *)
OwnTwins ==
  \A l \in Library : BuildSystem[l] # "msys2" =>
    \A b \in BuildType : Installs[l][b] \cap ReleaseTwins = {}

LEMMA BeforeNext ==
  ASSUME TypeOK
  PROVE  /\ Before(1) = {}
         /\ Before(index + 1) = Before(index) \cup {Current}
         /\ Before(index) \subseteq Library
         /\ Before(index + 1) \subseteq Library
<1>1. index \in Nat \ {0} /\ index <= Len(request.libs)
  BY CurrentType DEF TypeOK, Request
<1>2. \A j \in 1 .. index : request.libs[j] \in Library
  BY <1>1, CurrentType DEF Request
<1>3. Before(index + 1) = Before(index) \cup {Current}
  BY <1>1 DEF Before, Current
<1>4. Before(1) = {}
  <2>1. 1 .. (1 - 1) = {}
    OBVIOUS
  <2> QED
    BY <2>1 DEF Before
<1>5. Before(index) \subseteq Library
  <2>1. 1 .. (index - 1) \subseteq 1 .. index
    BY <1>1
  <2> QED
    BY <1>2, <2>1 DEF Before
<1> QED
  BY <1>3, <1>4, <1>5, CurrentType

(* No purge touches what a library leaves behind.                          *)
LEMMA LeftIsKept ==
  ASSUME OwnTwins, TypeOK, NEW l \in Library, NEW a \in ToPurge
  PROVE  a \notin Left(l)
<1>1. config.build_type = "Debug" /\ a \in ReleaseTwins
  BY DEF ToPurge
<1>2. CASE BuildSystem[l] = "msys2"
  BY <1>1, <1>2 DEF Left, Kept
<1>3. CASE BuildSystem[l] # "msys2"
  BY <1>1, <1>3, CurrentType DEF OwnTwins, Left, Kept
<1> QED
  BY <1>2, <1>3

LEMMA LeftIsInstalled ==
  ASSUME NEW l \in Library
  PROVE  Left(l) \subseteq Files(l)
BY DEF Left, Kept, Files

LEMMA InPlaceStep ==
  ASSUME OwnTwins, TypeOK, InPlaceInv, [Next]_vars
  PROVE  InPlaceInv'
<1> USE DEF args, cache, disk
<1>1. ASSUME UNCHANGED <<lib, staged, config, request, index>>,
             \/ step' = step
             \/ step = "compile" /\ step' = "install"
             \/ step = "validate" /\ step' = "assert"
      PROVE  InPlaceInv'
  <2>1. /\ Present' = Present /\ Staged' = Staged /\ Current' = Current
        /\ \A l \in Library : Left(l)' = Left(l)
    BY <1>1 DEF Present, Lib, Staged, Current, Left
  <2>2. Through' = Through /\ Building' = Building
    BY <1>1 DEF Through, Before, Building
  <2>3. Through \subseteq Library
    BY BeforeNext DEF Through
  <2>4. Current \in Library
    BY CurrentType
  <2> QED
    BY <1>1, <2>1, <2>2, <2>3, <2>4 DEF InPlaceInv, Stages
<1>2. ASSUME ~Building' PROVE InPlaceInv'
  BY <1>2 DEF Building, InPlaceInv
<1>3. ASSUME NEW c \in Config, NEW r \in Requests, StartRun(c, r)
      PROVE  InPlaceInv'
  <2>1. Through' = {}
    BY <1>3 DEF StartRun, Through, Before
  <2> QED
    BY <1>3, <2>1 DEF StartRun, InPlaceInv
<1>4. CASE Compile
  BY <1>4, <1>1 DEF Compile
<1>5. CASE Install
  <2>1. PICK made \in [Files(Current) -> Content] :
           \/ /\ Stages(Current)
              /\ staged' = [staged EXCEPT ![config] =
                               Written(Staged, Files(Current), made)]
              /\ lib' = lib
           \/ /\ ~Stages(Current)
              /\ lib' = [lib EXCEPT ![config] =
                            Written(Lib, Files(Current), made)]
              /\ staged' = staged
    BY <1>5, CurrentType, InstallFilesCases DEF Install
  <2>2. /\ UNCHANGED <<config, request, index>>
        /\ step = "install" /\ step' = "fixup"
    BY <1>5 DEF Install
  <2>3. /\ Through' = Before(index) /\ Through = Before(index)
        /\ Current' = Current
        /\ \A l \in Library : Left(l)' = Left(l)
    BY <2>2 DEF Through, Before, Current, Left
  <2>4. \A a \in Files(Current) : made[a] # Absent
    BY <2>1, LibrariesAssumption
  <2>5. Left(Current) \subseteq Files(Current) /\ Files(Current) \subseteq Archive
    BY CurrentType, LeftIsInstalled
  <2>6. CASE Stages(Current)
    <3>1. lib' = lib /\ Staged' = Written(Staged, Files(Current), made)
      BY <2>1, <2>2, <2>6 DEF Staged, TypeOK
    <3>2. \A a \in Files(Current) : Staged'[a] # Absent
      BY <3>1, <2>4, <2>5, CurrentType, WrittenType
    <3>3. Present' = Present
      BY <3>1, <2>2 DEF Present, Lib
    <3> QED
      BY <2>2, <2>3, <2>5, <2>6, <3>2, <3>3, BeforeNext, CurrentType
         DEF InPlaceInv, Stages, Building
  <2>7. CASE ~Stages(Current)
    <3>1. Lib' = Written(Lib, Files(Current), made)
      BY <2>1, <2>2, <2>7 DEF Lib, TypeOK
    <3>2. \A a \in Archive : Lib'[a] = IF a \in Files(Current) THEN made[a]
                                       ELSE Lib[a]
      BY <3>1, <2>5, CurrentType, WrittenType
    <3>3. Present \cup Files(Current) \subseteq Present'
      BY <3>2, <2>4, <2>5 DEF Present
    <3> QED
      BY <2>2, <2>3, <2>5, <3>3, BeforeNext, CurrentType
         DEF InPlaceInv, Building
  <2> QED
    BY <2>6, <2>7
<1>6. CASE FixedUp
  <2>1. /\ UNCHANGED <<lib, staged, config, request, index>>
        /\ step = "fixup" /\ step' = "validate"
        /\ Pending = {}
    BY <1>6 DEF FixedUp
  <2>2. /\ Present' = Present
        /\ \A l \in Library : Left(l)' = Left(l)
        /\ Through' = Before(index) \cup {Current} /\ Through = Before(index)
    BY <2>1, BeforeNext DEF Present, Lib, Left, Through, Before
  <2>3. Left(Current) \subseteq Present
    <3> SUFFICES ASSUME NEW a \in Left(Current), Stages(Current),
                        Staged[a] # Absent
                 PROVE  FALSE
      BY <2>1 DEF InPlaceInv
    <3>1. a \in Archive /\ a \in Installs[Current][config.build_type]
      BY CurrentType, LeftIsInstalled DEF Files
    <3> QED
      BY <2>1, <3>1, CurrentType DEF Pending
  <2> QED
    BY <2>1, <2>2, <2>3, BeforeNext, CurrentType DEF InPlaceInv, Building
<1>7. ASSUME NEW a \in Archive, PutInPlace(a) PROVE InPlaceInv'
  <2>1. /\ UNCHANGED <<config, request, index, step>> /\ step = "fixup"
        /\ Staged[a] # Absent
        /\ lib' = [lib EXCEPT ![config][a] = Staged[a]]
        /\ staged' = [staged EXCEPT ![config][a] = Absent]
    BY <1>7 DEF PutInPlace, Pending
  <2>2. /\ \A f \in Archive : Lib'[f] = IF f = a THEN Staged[a] ELSE Lib[f]
        /\ \A f \in Archive : Staged'[f] = IF f = a THEN Absent ELSE Staged[f]
    BY <2>1, CurrentType, OneFile DEF TypeOK, Lib, Staged
  <2>3. Present' = Present \cup {a}
    BY <2>1, <2>2 DEF Present
  <2>4. /\ Through' = Through /\ Through \subseteq Library
        /\ Current' = Current /\ Current \in Library
        /\ \A l \in Library : Left(l)' = Left(l)
    BY <2>1, BeforeNext, CurrentType DEF Through, Before, Current, Left
  <2>5. Left(Current) \subseteq Archive
    BY CurrentType, LeftIsInstalled
  <2> QED
    BY <2>1, <2>2, <2>3, <2>4, <2>5 DEF InPlaceInv, Building, Stages
<1>8. ASSUME NEW a \in Archive, Purge(a) PROVE InPlaceInv'
  <2>1. /\ UNCHANGED <<config, request, index, step, staged>> /\ step = "fixup"
        /\ a \in ToPurge
        /\ lib' = [lib EXCEPT ![config][a] = Absent]
    BY <1>8 DEF Purge
  <2>2. \A f \in Archive : Lib'[f] = IF f = a THEN Absent ELSE Lib[f]
    BY <2>1, OneFile DEF TypeOK, Lib
  <2>3. Present' = Present \ {a} /\ Staged' = Staged
    BY <2>1, <2>2 DEF Present, Staged
  <2>4. /\ Through' = Through /\ Through \subseteq Library
        /\ Current' = Current /\ Current \in Library
        /\ \A l \in Library : Left(l)' = Left(l)
    BY <2>1, BeforeNext, CurrentType DEF Through, Before, Current, Left
  <2>5. \A l \in Library : a \notin Left(l)
    BY <2>1, LeftIsKept
  <2> QED
    BY <2>1, <2>3, <2>4, <2>5 DEF InPlaceInv, Building, Stages
<1>9. CASE Validate
  <2>1. /\ UNCHANGED <<disk, args, index>> /\ step = "validate"
        /\ step' \in {"assert", "exited"}
    BY <1>9 DEF Validate, Exit
  <2> QED
    BY <2>1, <1>1, <1>2 DEF Building
<1>11. CASE NextLibrary
  <2>1. /\ UNCHANGED <<lib, staged, config, request>> /\ step = "assert"
        /\ \/ index' = index + 1 /\ step' = "compile"
           \/ /\ index' = index /\ index >= Len(request.libs)
              /\ step' = "test" /\ request.all
           \/ step' = "exited"
    BY <1>11, CurrentType DEF NextLibrary, Exit, TypeOK, Request
  <2>2. /\ Present' = Present
        /\ \A l \in Library : Left(l)' = Left(l)
    BY <2>1 DEF Present, Lib, Left
  <2>3. Through = Before(index + 1) /\ Through \subseteq Library
    BY <2>1, BeforeNext DEF Through
  <2>4. CASE step' # "exited"
    <3>1. Through' = Before(index + 1)
      BY <2>1, <2>4 DEF Through, Before
    <3>2. index <= Len(request.libs) /\ index \in Nat
      BY CurrentType DEF TypeOK, Request
    <3>3. Len(request.libs) \in Nat
      BY CurrentType DEF Request
    <3> QED
      BY <2>1, <2>2, <2>3, <2>4, <3>1, <3>2, <3>3 DEF InPlaceInv, Building
  <2> QED
    BY <2>4, <1>2 DEF Building
<1>12. CASE Test \/ Stop \/ Cleaned
  BY <1>12, <1>2 DEF Test, Stop, Cleaned, Exit, Building
<1>13. ASSUME NEW c \in Config, StartClean(c) PROVE InPlaceInv'
  BY <1>13, <1>2 DEF StartClean, Building
<1>14. ASSUME NEW c \in Config, NEW a \in Archive, CleanFile(c, a)
       PROVE  InPlaceInv'
  BY <1>14, <1>2 DEF CleanFile, Building
<1>15. CASE UNCHANGED vars
  BY <1>15, <1>1 DEF vars
<1> QED
  BY <1>3, <1>4, <1>5, <1>6, <1>7, <1>8, <1>9, <1>11, <1>12, <1>13,
     <1>14, <1>15 DEF Next

LEMMA InPlaceHolds ==
  ASSUME OwnTwins
  PROVE  Spec => []InPlaceInv
<1>1. Init => InPlaceInv
  BY DEF Init, InPlaceInv, Building
<1>2. TypeOK /\ InPlaceInv /\ [Next]_vars => InPlaceInv'
  BY InPlaceStep
<1> QED
  BY <1>1, <1>2, TypeCorrect, PTL DEF Spec

(* build.py:367-388: with a list that has dependencies first, a library is *)
(* compiled only when all that its dependencies leave behind is in place,  *)
(* after any history of failed, interrupted and cleaned runs.              *)
THEOREM DependenciesAreInPlace ==
  ASSUME OwnTwins
  PROVE  Spec => []DepsInPlace
<1>1. TypeOK /\ InPlaceInv => DepsInPlace
  <2> SUFFICES ASSUME TypeOK, InPlaceInv, step \in {"compile", "install"},
                      Closed(request.libs), NEW d \in Deps[Current]
               PROVE  Left(d) \subseteq Present
    BY DEF DepsInPlace
  <2>1. d \in Before(index)
    BY DEF Closed, Current, Before, TypeOK
  <2>2. Through = Before(index) /\ Building
    BY DEF Through, Building
  <2> QED
    BY <2>1, <2>2 DEF InPlaceInv
<1> QED
  BY <1>1, InPlaceHolds, TypeCorrect, PTL

(* The purge is not undone: what is written to lib/ afterwards is no       *)
(* Release twin, whatever lib/x64 or lib/ still has of an earlier run.     *)
LEMMA PurgedStep ==
  ASSUME OwnTwins, TypeOK, PurgedInv, [Next]_vars
  PROVE  PurgedInv'
<1> USE DEF args, cache, disk
<1>1. ASSUME ~Building' PROVE PurgedInv'
  BY <1>1 DEF PurgedInv
<1>2. ASSUME Present' \cap ReleaseTwins \subseteq Present,
             UNCHANGED <<config, request, index>>,
             \/ step' = step
             \/ step = "compile" /\ step' = "install"
             \/ step = "install" /\ step' = "fixup"
             \/ step = "validate" /\ step' = "assert"
      PROVE  PurgedInv'
  <2>1. Through' = Through /\ Building' = Building /\ Current' = Current
    BY <1>2 DEF Through, Before, Building, Current
  <2> QED
    BY <1>2, <2>1 DEF PurgedInv
<1>3. ASSUME UNCHANGED <<lib, config>> PROVE Present' = Present
  BY <1>3 DEF Present, Lib
<1>4. ASSUME NEW c \in Config, NEW r \in Requests, StartRun(c, r)
      PROVE  PurgedInv'
  <2>1. Through' = {}
    BY <1>4 DEF StartRun, Through, Before
  <2> QED
    BY <2>1 DEF PurgedInv
<1>5. CASE Compile
  BY <1>2, <1>3, <1>5 DEF Compile
<1>6. CASE Install
  <2>1. PICK made \in [Files(Current) -> Content] :
           \/ /\ Stages(Current)
              /\ staged' = [staged EXCEPT ![config] =
                               Written(Staged, Files(Current), made)]
              /\ lib' = lib
           \/ /\ ~Stages(Current)
              /\ lib' = [lib EXCEPT ![config] =
                            Written(Lib, Files(Current), made)]
              /\ staged' = staged
    BY <1>6, CurrentType, InstallFilesCases DEF Install
  <2>2. /\ UNCHANGED <<config, request, index>>
        /\ step = "install" /\ step' = "fixup"
    BY <1>6 DEF Install
  <2>3. CASE Stages(Current)
    BY <1>2, <1>3, <2>1, <2>2, <2>3
  <2>4. CASE ~Stages(Current)
    <3>1. Lib' = Written(Lib, Files(Current), made)
      BY <2>1, <2>2, <2>4 DEF Lib, TypeOK
    <3>2. \A a \in Archive \ Files(Current) : Lib'[a] = Lib[a]
      BY <3>1, CurrentType, WrittenType
    <3>3. Files(Current) \cap ReleaseTwins = {}
      BY <2>4, CurrentType DEF OwnTwins, Stages, Files
    <3> QED
      BY <1>2, <2>2, <3>2, <3>3 DEF Present
  <2> QED
    BY <2>3, <2>4
<1>7. CASE FixedUp
  <2>1. /\ UNCHANGED <<lib, config, request, index>> /\ ToPurge = {}
        /\ step = "fixup" /\ step' = "validate"
    BY <1>7 DEF FixedUp
  <2>2. /\ Through' = Before(index) \cup {Current} /\ Through = Before(index)
        /\ Building
    BY <2>1, BeforeNext DEF Through, Before, Building
  <2>3. CASE BuildSystem[Current] = "msys2" /\ config.build_type = "Debug"
    BY <1>3, <2>1, <2>3 DEF ToPurge, PurgedInv
  <2>4. CASE ~(BuildSystem[Current] = "msys2" /\ config.build_type = "Debug")
    BY <1>3, <2>1, <2>2, <2>4 DEF PurgedInv
  <2> QED
    BY <2>3, <2>4
<1>8. ASSUME NEW a \in Archive, PutInPlace(a) PROVE PurgedInv'
  <2>1. /\ UNCHANGED <<config, request, index, step>> /\ step = "fixup"
        /\ a \in Pending /\ lib' = [lib EXCEPT ![config][a] = Staged[a]]
    BY <1>8 DEF PutInPlace
  <2>2. \A f \in Archive : Lib'[f] = IF f = a THEN Staged[a] ELSE Lib[f]
    BY <2>1, CurrentType, OneFile DEF TypeOK, Lib
  <2>3. CASE BuildSystem[Current] = "msys2"
    <3>1. Current' = Current
      BY <2>1 DEF Current
    <3> QED
      BY <2>1, <2>3, <3>1 DEF PurgedInv
  <2>4. CASE BuildSystem[Current] # "msys2"
    <3>1. a \notin ReleaseTwins
      BY <2>1, <2>4 DEF Pending, OwnTwins
    <3>2. Present' \cap ReleaseTwins \subseteq Present
      BY <2>2, <3>1 DEF Present
    <3> QED
      BY <1>2, <2>1, <3>2
  <2> QED
    BY <2>3, <2>4
<1>9. ASSUME NEW a \in Archive, Purge(a) PROVE PurgedInv'
  <2>1. /\ UNCHANGED <<config, request, index, step>>
        /\ lib' = [lib EXCEPT ![config][a] = Absent]
    BY <1>9 DEF Purge
  <2>2. \A f \in Archive : Lib'[f] = IF f = a THEN Absent ELSE Lib[f]
    BY <2>1, OneFile DEF TypeOK, Lib
  <2> QED
    BY <1>2, <2>1, <2>2 DEF Present
<1>10. CASE Validate
  <2>1. /\ UNCHANGED <<disk, args, index>> /\ step = "validate"
        /\ step' \in {"assert", "exited"}
    BY <1>10 DEF Validate, Exit
  <2> QED
    BY <1>1, <1>2, <1>3, <2>1 DEF Building
<1>11. CASE NextLibrary
  <2>1. /\ UNCHANGED <<lib, config, request>> /\ step = "assert"
        /\ \/ index' = index + 1 /\ step' = "compile"
           \/ index' = index /\ step' = "test"
           \/ step' = "exited"
    BY <1>11 DEF NextLibrary, Exit
  <2>2. CASE step' # "exited"
    <3>1. Through' = Before(index + 1) /\ Through = Before(index + 1) /\ Building
      BY <2>1, <2>2 DEF Through, Before, Building
    <3> QED
      BY <1>3, <2>1, <3>1 DEF PurgedInv
  <2> QED
    BY <1>1, <2>2 DEF Building
<1>12. CASE Test \/ Stop \/ Cleaned
  BY <1>1, <1>12 DEF Test, Stop, Cleaned, Exit, Building
<1>13. ASSUME NEW c \in Config, StartClean(c) PROVE PurgedInv'
  BY <1>1, <1>13 DEF StartClean, Building
<1>14. ASSUME NEW c \in Config, NEW a \in Archive, CleanFile(c, a)
       PROVE  PurgedInv'
  BY <1>1, <1>14 DEF CleanFile, Building
<1>15. CASE UNCHANGED vars
  BY <1>2, <1>3, <1>15 DEF vars
<1> QED
  BY <1>4, <1>5, <1>6, <1>7, <1>8, <1>9, <1>10, <1>11, <1>12, <1>13, <1>14,
     <1>15 DEF Next

(* The test links what the libraries of a whole build install.             *)
TestLinksWhatIsInstalled ==
  \A r \in Requests, b \in BuildType : r.all =>
    Linked[b] \subseteq UNION {Installs[r.libs[j]][b] : j \in DOMAIN r.libs}

(* build.py:391-396, CMakeLists.txt:257-267 and msys2_builder.py:79-83: the*)
(* test finds all it links except, in a Debug build with an MSYS2 library, *)
(* the Release twins, of which it finds none.                              *)
THEOREM TestLacksOnlyThePurged ==
  ASSUME OwnTwins, TestLinksWhatIsInstalled
  PROVE  Spec => []TestLacksThePurged
<1>1. Init => PurgedInv
  BY DEF Init, PurgedInv, Building
<1>2. TypeOK /\ PurgedInv /\ [Next]_vars => PurgedInv'
  BY PurgedStep
<1>3. TypeOK /\ InPlaceInv /\ PurgedInv => TestLacksThePurged
  <2> SUFFICES ASSUME TypeOK, InPlaceInv, PurgedInv, step = "test",
                      NEW a \in Linked[config.build_type]
               PROVE  a \notin Present <=> a \in Purged
    BY DEF TestLacksThePurged
  <2>1. request.all /\ index = Len(request.libs) /\ Building
    BY DEF InPlaceInv, Building
  <2>2. \A j \in DOMAIN request.libs : request.libs[j] \in Through
    BY <2>1, CurrentType DEF Through, Before, Request
  <2>3. ASSUME a \notin Present PROVE a \in Purged
    <3>1. PICK j \in DOMAIN request.libs :
             a \in Installs[request.libs[j]][config.build_type]
      BY <2>1, CurrentType DEF TestLinksWhatIsInstalled, TypeOK
    <3>2. a \notin Kept(request.libs[j], config.build_type)
      BY <2>1, <2>2, <2>3 DEF InPlaceInv, Left
    <3> QED
      BY <3>1, <3>2 DEF Kept, Purged, UsesMsys2
  <2>4. ASSUME a \in Purged PROVE a \notin Present
    <3>1. PICK j \in DOMAIN request.libs : BuildSystem[request.libs[j]] = "msys2"
      BY <2>4 DEF Purged, UsesMsys2
    <3> QED
      BY <2>1, <2>2, <2>4, <3>1 DEF Purged, PurgedInv
  <2> QED
    BY <2>3, <2>4
<1> QED
  BY <1>1, <1>2, <1>3, InPlaceHolds, TypeCorrect, PTL DEF Spec

(***************************************************************************)
(* What a successful run that started on an empty directory says of the    *)
(* archives.                                                               *)
(***************************************************************************)

(* No two libraries install an archive of the same name.                   *)
OwnFiles ==
  \A l, m \in Library : l # m =>
    \A b \in BuildType : Installs[l][b] \cap Installs[m][b] = {}

(* The builder of every library validates on this platform: none of them   *)
(* is an autotools library on Windows or an MSYS2 one on macOS.            *)
AllValidated ==
  Platform \in {"windows", "macos"} => \A l \in Library : Validates(l)

(* The checks of an archive are strong enough, but for a /GL archive that  *)
(* was not scanned.                                                        *)
LEMMA AcceptedFits ==
  ASSUME NEW c \in Config, NEW x \in Content, NEW scanned \in BOOLEAN,
         Accepted(c, x, scanned), scanned \/ ~HidesCrt(x)
  PROVE  Fits(c, x)
<1>1. x.crts \subseteq Crt /\ c \in AnyConfig
  BY LibrariesAssumption DEF AnyContent
<1>2. CASE Platform = "windows"
  <2>1. ~HidesCrt(x) /\ Directives(x) \cap ForbiddenCrts(c) = {}
    BY <1>2 DEF Accepted, RejectedUnasked
  <2>2. x.crts \cap ForbiddenCrts(c) = {}
    BY <2>1 DEF Directives
  <2> QED
    BY <1>1, <1>2, <2>2 DEF Fits, ForbiddenCrts
<1>3. CASE Platform = "macos"
  BY <1>3 DEF Accepted, Fits
<1>4. CASE Platform = "linux"
  BY <1>4 DEF Fits
<1> QED
  BY <1>2, <1>3, <1>4, PlatformAssumption

(* The current library is none of those before it, so it does not write    *)
(* any file of theirs.                                                     *)
LEMMA CurrentIsNew ==
  ASSUME OwnFiles, TypeOK
  PROVE  FilesOfAll(Before(index)) \cap Files(Current) = {}
<1>1. \A l \in Before(index) : l \in Library /\ l # Current
  <2> SUFFICES ASSUME NEW j \in 1 .. (index - 1)
               PROVE  /\ request.libs[j] \in Library
                      /\ request.libs[j] # Current
    BY DEF Before
  <2>1. j \in DOMAIN request.libs /\ j # index
    BY CurrentType DEF TypeOK, Request
  <2> QED
    BY <2>1, CurrentType, RequestsAssumption DEF TypeOK, Request, Current
<1>2. \A l \in Before(index) : Files(l) \cap Files(Current) = {}
  BY <1>1, CurrentType DEF OwnFiles, Files
<1> QED
  BY <1>2 DEF FilesOfAll

LEMMA FilesNext ==
  ASSUME TypeOK
  PROVE  FilesOfAll(Before(index + 1)) =
           FilesOfAll(Before(index)) \cup Files(Current)
BY BeforeNext DEF FilesOfAll

LEMMA NoResultStep ==
  ASSUME TypeOK, NoResultYet, [Next]_vars
  PROVE  NoResultYet'
<1> USE DEF NoResultYet, args, cache, disk
<1>1. ASSUME NEW c \in Config, NEW r \in Requests, StartRun(c, r)
      PROVE  NoResultYet'
  BY <1>1 DEF StartRun
<1>2. CASE Compile \/ Install \/ FixedUp
  BY <1>2 DEF Compile, Install, FixedUp
<1>3. ASSUME NEW a \in Archive, PutInPlace(a) \/ Purge(a)
      PROVE  NoResultYet'
  BY <1>3 DEF PutInPlace, Purge
<1>4. CASE Validate
  <2>1. step = "validate" /\ (step' = "exited" \/ result' = result)
    BY <1>4 DEF Validate, Exit
  <2> QED
    BY <2>1
<1>5. CASE NextLibrary
  <2>1. step = "assert" /\ (step' = "exited" \/ result' = result)
    BY <1>5 DEF NextLibrary, Exit
  <2> QED
    BY <2>1
<1>6. CASE Test \/ Stop \/ Cleaned
  BY <1>6 DEF Test, Stop, Cleaned, Exit
<1>7. ASSUME NEW c \in Config, StartClean(c) PROVE NoResultYet'
  BY <1>7 DEF StartClean
<1>8. ASSUME NEW c \in Config, NEW a \in Archive, CleanFile(c, a)
      PROVE  NoResultYet'
  BY <1>8 DEF CleanFile
<1>9. CASE UNCHANGED vars
  BY <1>9 DEF vars
<1> QED
  BY <1>1, <1>2, <1>3, <1>4, <1>5, <1>6, <1>7, <1>8, <1>9 DEF Next

LEMMA FreshStep ==
  ASSUME OwnFiles, AllValidated, TypeOK, FreshInv, [Next]_vars
  PROVE  FreshInv'
<1> USE DEF args, cache, disk
<1>1. ASSUME ~(fresh' /\ Building') PROVE FreshInv'
  BY <1>1 DEF FreshInv
<1>2. ASSUME UNCHANGED <<lib, staged, step, config, request, index,
                         validated, warned,
                       unscanned, fresh>>
      PROVE  FreshInv'
  BY <1>2 DEF FreshInv, Building, Present, Lib, Staged, Current, Files,
              FilesOfAll, Before, Stages
<1>3. ASSUME NEW c \in Config, NEW r \in Requests, StartRun(c, r)
      PROVE  FreshInv'
  <2> SUFFICES ASSUME fresh' PROVE FreshInv'
    BY <1>1
  <2>1. /\ lib' = lib /\ staged' = staged /\ config' = c
        /\ lib[c] = Empty /\ staged[c] = Empty
        /\ validated' = {} /\ step' = "compile"
    BY <1>3 DEF StartRun
  <2>2. /\ \A a \in Archive : Staged'[a] = Absent
        /\ Present' = {}
    BY <2>1 DEF Present, Lib, Staged, Empty
  <2> QED
    BY <2>1, <2>2 DEF FreshInv
<1>5. CASE Compile
  <2>1. /\ UNCHANGED <<lib, staged, config, request, index, validated, warned, unscanned,
                       fresh>>
        /\ step = "compile" /\ step' = "install"
    BY <1>5 DEF Compile
  <2> QED
    BY <2>1 DEF FreshInv, Building, Present, Lib, Staged, Current, Files,
                FilesOfAll, Before, Stages
<1>6. CASE Install
  <2> SUFFICES ASSUME fresh PROVE FreshInv'
    BY <1>1, <1>6 DEF Install
  <2>1. PICK made \in [Files(Current) -> Content] :
           \/ /\ Stages(Current)
              /\ staged' = [staged EXCEPT ![config] =
                               Written(Staged, Files(Current), made)]
              /\ lib' = lib
           \/ /\ ~Stages(Current)
              /\ lib' = [lib EXCEPT ![config] =
                            Written(Lib, Files(Current), made)]
              /\ staged' = staged
    BY <1>6, CurrentType, InstallFilesCases DEF Install
  <2>2. /\ UNCHANGED <<config, request, index, validated, warned,
                       unscanned, fresh>>
        /\ step = "install" /\ step' = "fixup"
    BY <1>6 DEF Install
  <2>3. /\ Current' = Current /\ Files(Current)' = Files(Current)
        /\ Stages(Current)' = Stages(Current)
        /\ FilesOfAll(Before(index))' = FilesOfAll(Before(index))
        /\ FilesOfAll(Before(index + 1))' = FilesOfAll(Before(index + 1))
    BY <2>2 DEF Current, Files, FilesOfAll, Before, Stages
  <2>4. /\ \A a \in Archive : Staged[a] = Absent
        /\ Present \subseteq FilesOfAll(Before(index))
        /\ validated \subseteq FilesOfAll(Before(index))
        /\ \A a \in validated \cap Present :
             a \in unscanned \/ Fits(config, Lib[a])
        /\ \A a \in Present : a \in warned \cup unscanned \/ Fits(config, Lib[a])
    BY <2>2 DEF FreshInv, Building
  <2>5. validated \cap Files(Current) = {}
    BY <2>4, CurrentIsNew
  <2>6. CASE Stages(Current)
    <3>1. lib' = lib /\ Staged' = Written(Staged, Files(Current), made)
      BY <2>1, <2>2, <2>6 DEF Staged, TypeOK
    <3>2. \A a \in Archive : Staged'[a] # Absent => a \in Files(Current)
      BY <3>1, <2>4, CurrentType, WrittenType
    <3>3. Present' = Present /\ Lib' = Lib
      BY <3>1, <2>2 DEF Present, Lib
    <3> QED
      BY <2>2, <2>3, <2>4, <2>6, <3>2, <3>3, FilesNext DEF FreshInv
  <2>7. CASE ~Stages(Current)
    <3>1. Lib' = Written(Lib, Files(Current), made) /\ Staged' = Staged
      BY <2>1, <2>2, <2>7 DEF Lib, Staged, TypeOK
    <3>2. \A a \in Archive \ Files(Current) : Lib'[a] = Lib[a]
      BY <3>1, CurrentType, WrittenType
    <3>3. /\ Present' \subseteq Present \cup Files(Current)
          /\ \A a \in Present' \ Files(Current) : a \in Present /\ Lib'[a] = Lib[a]
      BY <3>2 DEF Present
    <3>4. /\ \A a \in Archive : Staged'[a] = Absent
          /\ Present' \subseteq FilesOfAll(Before(index + 1))
      BY <2>4, <3>1, <3>3, FilesNext
    <3>5. \A a \in validated \cap Present' :
             a \in unscanned \/ Fits(config, Lib'[a])
      BY <2>4, <2>5, <3>3
    <3>6. \A a \in Present' : \/ a \in warned \cup unscanned \/ Fits(config, Lib'[a])
                              \/ a \in Files(Current)
      BY <2>4, <3>3
    <3> QED
      BY <2>2, <2>3, <2>4, <3>4, <3>5, <3>6 DEF FreshInv
  <2> QED
    BY <2>6, <2>7
<1>7. CASE FixedUp
  <2>1. /\ UNCHANGED <<lib, staged, config, request, index, validated, warned, unscanned,
                       fresh>>
        /\ step = "fixup" /\ step' = "validate" /\ Pending = {}
    BY <1>7 DEF FixedUp
  <2>2. /\ Present' = Present /\ Lib' = Lib /\ Staged' = Staged
        /\ Files(Current)' = Files(Current)
        /\ FilesOfAll(Before(index))' = FilesOfAll(Before(index))
        /\ FilesOfAll(Before(index + 1))' = FilesOfAll(Before(index + 1))
    BY <2>1 DEF Present, Lib, Staged, Current, Files, FilesOfAll, Before
  <2>3. fresh => \A a \in Archive : Staged[a] = Absent
    <3> SUFFICES ASSUME fresh, NEW a \in Archive, Staged[a] # Absent
                 PROVE  FALSE
      OBVIOUS
    <3>1. Stages(Current) /\ a \in Files(Current)
      BY <2>1 DEF FreshInv, Building
    <3>2. a \in Pending
      BY <3>1, CurrentType DEF Pending, Files
    <3> QED
      BY <2>1, <3>2
  <2> QED
    BY <2>1, <2>2, <2>3 DEF FreshInv, Building
<1>8. ASSUME NEW a \in Archive, PutInPlace(a) PROVE FreshInv'
  <2> SUFFICES ASSUME fresh PROVE FreshInv'
    BY <1>1, <1>8 DEF PutInPlace
  <2>1. /\ UNCHANGED <<config, request, index, step, validated, warned,
                       unscanned, fresh>>
        /\ step = "fixup" /\ Staged[a] # Absent
        /\ lib' = [lib EXCEPT ![config][a] = Staged[a]]
        /\ staged' = [staged EXCEPT ![config][a] = Absent]
    BY <1>8 DEF PutInPlace, Pending
  <2>2. /\ \A f \in Archive : Lib'[f] = IF f = a THEN Staged[a] ELSE Lib[f]
        /\ \A f \in Archive : Staged'[f] = IF f = a THEN Absent ELSE Staged[f]
    BY <2>1, CurrentType, OneFile DEF TypeOK, Lib, Staged
  <2>3. /\ Present' = Present \cup {a}
        /\ \A f \in Present \ {a} : Lib'[f] = Lib[f]
    BY <2>1, <2>2 DEF Present
  <2>4. /\ Stages(Current)' = Stages(Current)
        /\ Files(Current)' = Files(Current)
        /\ FilesOfAll(Before(index))' = FilesOfAll(Before(index))
        /\ FilesOfAll(Before(index + 1))' = FilesOfAll(Before(index + 1))
    BY <2>1 DEF Current, Files, FilesOfAll, Before, Stages
  <2>5. a \in Files(Current) /\ a \notin validated
    BY <2>1, CurrentIsNew DEF FreshInv, Building
  <2>6. a \in FilesOfAll(Before(index + 1))
    BY <2>5, FilesNext
  <2> QED
    BY <2>1, <2>2, <2>3, <2>4, <2>5, <2>6 DEF FreshInv, Building
<1>9. ASSUME NEW a \in Archive, Purge(a) PROVE FreshInv'
  <2>1. /\ UNCHANGED <<config, request, index, step, staged, validated, warned, unscanned,
                       fresh>>
        /\ step = "fixup" /\ lib' = [lib EXCEPT ![config][a] = Absent]
    BY <1>9 DEF Purge
  <2>2. \A f \in Archive : Lib'[f] = IF f = a THEN Absent ELSE Lib[f]
    BY <2>1, OneFile DEF TypeOK, Lib
  <2>3. /\ Present' = Present \ {a} /\ Staged' = Staged
        /\ \A f \in Present' : Lib'[f] = Lib[f]
    BY <2>1, <2>2 DEF Present, Staged
  <2>4. /\ Stages(Current)' = Stages(Current)
        /\ Files(Current)' = Files(Current)
        /\ FilesOfAll(Before(index))' = FilesOfAll(Before(index))
        /\ FilesOfAll(Before(index + 1))' = FilesOfAll(Before(index + 1))
    BY <2>1 DEF Current, Files, FilesOfAll, Before, Stages
  <2> QED
    BY <2>1, <2>3, <2>4 DEF FreshInv, Building
<1>10. CASE Validate /\ Validates(Current)
  <2> SUFFICES ASSUME fresh, step' # "exited" PROVE FreshInv'
    BY <1>1, <1>10 DEF Validate, Building
  <2>1. UNCHANGED <<lib, staged, config, request, index, fresh>>
        /\ step = "validate"
    BY <1>10 DEF Validate
  <2>12. PICK blind \in Unread : \E mute \in SUBSET Asked(blind) :
           /\ Record(Good(blind, mute), blind)
           /\ warned' = mute
           /\ Unseen = Good(blind, mute) \cup mute
           /\ step' = "assert"
    BY <1>10 DEF Validate, Exit
  <2>2. PICK mute \in SUBSET Asked(blind) :
          /\ Record(Good(blind, mute), blind)
          /\ warned' = mute
          /\ Unseen = Good(blind, mute) \cup mute
          /\ step' = "assert"
    BY <2>12
  <2>3. /\ Present' = Present /\ Lib' = Lib /\ Staged' = Staged
        /\ Files(Current)' = Files(Current)
        /\ FilesOfAll(Before(index + 1))' = FilesOfAll(Before(index + 1))
    BY <2>1 DEF Present, Lib, Staged, Current, Files, FilesOfAll, Before
  <2>4. /\ \A a \in Archive : Staged[a] = Absent
        /\ Present \subseteq FilesOfAll(Before(index + 1))
        /\ validated \subseteq FilesOfAll(Before(index))
        /\ \A a \in validated \cap Present :
             a \in unscanned \/ Fits(config, Lib[a])
    BY <2>1 DEF FreshInv, Building
  <2>5. \A a \in Present : a \in Archive /\ Lib[a] \in Content
    BY CurrentType DEF Present
  <2>6. config \in Config
    BY DEF TypeOK
  <2>7. \A a \in Good(blind, mute) :
          /\ a \in Present
          /\ a \in unscanned' \/ Fits(config, Lib[a])
    <3> SUFFICES ASSUME NEW a \in Good(blind, mute)
                 PROVE  /\ a \in Present
                        /\ a \in unscanned' \/ Fits(config, Lib[a])
      OBVIOUS
    <3>1. /\ a \in Unseen /\ a \in Present
          /\ Accepted(config, Lib[a], a \notin blind)
      BY <1>10 DEF Good, Unseen
    <3>2. CASE a \in blind
      BY <2>2, <3>1, <3>2 DEF Record
    <3>3. CASE a \notin blind
      BY <2>5, <2>6, <3>1, <3>3, AcceptedFits
    <3> QED
      BY <3>1, <3>2, <3>3
  <2>8. /\ validated' = validated \cup Good(blind, mute)
        /\ unscanned \subseteq unscanned'
        /\ \A a \in Present : a \in validated' \/ a \in warned'
    BY <1>10, <2>2 DEF Unseen, Record
  <2>9. validated' \subseteq FilesOfAll(Before(index + 1))
    BY <2>4, <2>7, <2>8, FilesNext
  <2>10. /\ \A a \in validated' \cap Present :
              a \in unscanned' \/ Fits(config, Lib[a])
         /\ \A a \in Present : a \in warned' \cup unscanned' \/ Fits(config, Lib[a])
    BY <2>4, <2>7, <2>8
  <2>11. step' = "assert" /\ config' = config
    BY <2>1, <2>2
  <2> QED
    BY <2>3, <2>4, <2>9, <2>10, <2>11 DEF FreshInv
<1>11. CASE Validate /\ ~Validates(Current)
  <2> SUFFICES ASSUME fresh PROVE FreshInv'
    BY <1>1, <1>11 DEF Validate
  <2>1. /\ UNCHANGED <<lib, staged, config, request, index, validated, warned, unscanned,
                       fresh>>
        /\ step = "validate" /\ step' = "assert" /\ ~Validates(Current)
    <3>1. Unseen = {}
      BY <1>11 DEF Unseen
    <3>2. /\ UNCHANGED <<disk, args, index, warned>> /\ step = "validate"
          /\ \E blind \in Unread : \E mute \in SUBSET Asked(blind) :
               /\ Record(Good(blind, mute), blind)
               /\ Unseen = Good(blind, mute) \cup mute => step' = "assert"
      BY <1>11 DEF Validate
    <3>3. PICK blind \in Unread : \E mute \in SUBSET Asked(blind) :
               /\ Record(Good(blind, mute), blind)
               /\ Unseen = Good(blind, mute) \cup mute => step' = "assert"
      BY <3>2
    <3>4. PICK mute \in SUBSET Asked(blind) :
               /\ Record(Good(blind, mute), blind)
               /\ Unseen = Good(blind, mute) \cup mute => step' = "assert"
      BY <3>3
    <3>5. mute = {} /\ Good(blind, mute) = {}
      BY <3>1 DEF Asked, Good
    <3> QED
      BY <1>11, <3>1, <3>2, <3>4, <3>5 DEF Record
  <2>2. /\ Present' = Present /\ Lib' = Lib /\ Staged' = Staged
        /\ FilesOfAll(Before(index))' = FilesOfAll(Before(index))
        /\ FilesOfAll(Before(index + 1))' = FilesOfAll(Before(index + 1))
    BY <2>1 DEF Present, Lib, Staged, Current, Files, FilesOfAll, Before
  <2>3. \A x : Fits(config, x)
    BY <2>1, CurrentType DEF AllValidated, Fits
  <2> QED
    BY <2>1, <2>2, <2>3, FilesNext DEF FreshInv, Building
<1>12. CASE NextLibrary
  <2> SUFFICES ASSUME fresh, step' # "exited" PROVE FreshInv'
    BY <1>1, <1>12 DEF NextLibrary, Building
  <2>1. /\ UNCHANGED <<lib, staged, config, request, validated, warned,
                       unscanned, fresh>>
        /\ step = "assert"
        /\ \/ index' = index + 1 /\ step' = "compile"
           \/ index' = index /\ step' = "test"
    BY <1>12 DEF NextLibrary, Exit
  <2>2. /\ Present' = Present /\ Lib' = Lib /\ Staged' = Staged
    BY <2>1 DEF Present, Lib, Staged
  <2>3. CASE index' = index + 1 /\ step' = "compile"
    <3>1. FilesOfAll(Before(index))' = FilesOfAll(Before(index + 1))
      BY <2>1, <2>3 DEF FilesOfAll, Before, Files
    <3> QED
      BY <2>1, <2>2, <2>3, <3>1 DEF FreshInv, Building
  <2>4. CASE index' = index /\ step' = "test"
    <3>1. FilesOfAll(Before(index + 1))' = FilesOfAll(Before(index + 1))
      BY <2>1, <2>4 DEF FilesOfAll, Before, Files
    <3> QED
      BY <2>1, <2>2, <2>4, <3>1 DEF FreshInv, Building
  <2> QED
    BY <2>1, <2>3, <2>4
<1>13. CASE Test \/ Stop \/ Cleaned
  BY <1>1, <1>13 DEF Test, Stop, Cleaned, Exit, Building
<1>14. ASSUME NEW c \in Config, StartClean(c) PROVE FreshInv'
  BY <1>1, <1>14 DEF StartClean, Building
<1>15. ASSUME NEW c \in Config, NEW a \in Archive, CleanFile(c, a)
       PROVE  FreshInv'
  BY <1>1, <1>15 DEF CleanFile, Building
<1>16. CASE UNCHANGED vars
  BY <1>2, <1>16 DEF vars
<1> QED
  BY <1>3, <1>5, <1>6, <1>7, <1>8, <1>9, <1>10, <1>11, <1>12, <1>13, <1>14,
     <1>15, <1>16 DEF Next

(* A run can only succeed from a state in which all its archives are       *)
(* right, and nothing changes them before the next run starts.             *)
LEMMA ValidatedStep ==
  ASSUME TypeOK, FreshInv, NoResultYet, FreshRunIsValidated, [Next]_vars
  PROVE  FreshRunIsValidated'
<1> USE DEF args, cache, disk
<1>1. ASSUME result' # "success" PROVE FreshRunIsValidated'
  BY <1>1 DEF FreshRunIsValidated, SuccessMeansValidated
<1>2. ASSUME UNCHANGED <<lib, config, warned, unscanned, fresh>>,
             \/ result' = result
             \/ step \in {"assert", "test"}
      PROVE  FreshRunIsValidated'
  <2>1. /\ Present' = Present /\ Lib' = Lib
    BY <1>2 DEF Present, Lib
  <2>2. step \in {"assert", "test"} /\ fresh => AllFit
    BY DEF FreshInv, AllFit, Building
  <2> QED
    BY <1>2, <2>1, <2>2 DEF FreshRunIsValidated, SuccessMeansValidated, AllFit
<1>3. ASSUME step # "exited", result' = result PROVE FreshRunIsValidated'
  BY <1>1, <1>3 DEF NoResultYet
<1>4. ASSUME NEW c \in Config, NEW r \in Requests, StartRun(c, r)
      PROVE  FreshRunIsValidated'
  BY <1>1, <1>4 DEF StartRun
<1>5. CASE Compile \/ Install \/ FixedUp
  BY <1>3, <1>5 DEF Compile, Install, FixedUp
<1>6. ASSUME NEW a \in Archive, PutInPlace(a) \/ Purge(a)
      PROVE  FreshRunIsValidated'
  BY <1>3, <1>6 DEF PutInPlace, Purge
<1>7. CASE Validate
  <2>1. step = "validate" /\ (result' = result \/ result' = "failed")
    BY <1>7 DEF Validate, Exit
  <2> QED
    BY <1>1, <1>3, <2>1
<1>8. CASE NextLibrary
  BY <1>2, <1>8 DEF NextLibrary
<1>9. CASE Test
  BY <1>2, <1>9 DEF Test
<1>10. CASE Stop \/ Cleaned
  BY <1>1, <1>10 DEF Stop, Cleaned, Exit
<1>11. ASSUME NEW c \in Config, StartClean(c) PROVE FreshRunIsValidated'
  BY <1>1, <1>11 DEF StartClean
<1>12. ASSUME NEW c \in Config, NEW a \in Archive, CleanFile(c, a)
       PROVE  FreshRunIsValidated'
  BY <1>3, <1>12 DEF CleanFile
<1>13. CASE UNCHANGED vars
  BY <1>2, <1>13 DEF vars
<1> QED
  BY <1>4, <1>5, <1>6, <1>7, <1>8, <1>9, <1>10, <1>11, <1>12, <1>13 DEF Next

(* windows.py:394 and macos.py:85: when a run that started on an empty     *)
(* output directory succeeds, every archive in lib/ is right, but for      *)
(* those its last validation has warned about and the /GL archives it      *)
(* validated without reading them; whatever the compilers make and         *)
(* whatever runs came before.  The two assumptions are what the library    *)
(* files promise.                                                          *)
THEOREM FreshRunsAreValidated ==
  ASSUME OwnFiles, AllValidated
  PROVE  Spec => []FreshRunIsValidated
<1>1. Init => FreshInv /\ NoResultYet /\ FreshRunIsValidated
  BY DEF Init, FreshInv, Building, NoResultYet, FreshRunIsValidated,
         SuccessMeansValidated
<1>2. TypeOK /\ FreshInv /\ NoResultYet /\ FreshRunIsValidated /\ [Next]_vars
        => (FreshInv /\ NoResultYet /\ FreshRunIsValidated)'
  BY FreshStep, NoResultStep, ValidatedStep
<1> QED
  BY <1>1, <1>2, TypeCorrect, PTL DEF Spec

=============================================================================
