--------------------------- MODULE CefBuild_proofs ---------------------------
(***************************************************************************)
(* Theorems about CefBuild, for every set of versions, every host and every*)
(* set of command lines.                                                   *)
(***************************************************************************)
EXTENDS CefBuild, TLAPS

USE DEF tools, tree, published, local

LEMMA RequestType ==
  ASSUME NEW r \in Requests
  PROVE  /\ r \in Request
         /\ r.version \in Version /\ r.types \subseteq BuildType
         /\ r.archs \in {<<"arm64">>, <<"x86_64">>, <<"arm64", "x86_64">>}
         /\ Len(r.archs) \in {1, 2} /\ DOMAIN r.archs = 1 .. Len(r.archs)
         /\ 1 \in DOMAIN r.archs
         /\ \A i \in DOMAIN r.archs : r.archs[i] \in Arch
<1>1. r \in Request
  BY RequestsAssumption
<1>2. r.archs \in {<<"arm64">>, <<"x86_64">>, <<"arm64", "x86_64">>}
  BY <1>1 DEF Request
<1>3. CASE r.archs = <<"arm64">> \/ r.archs = <<"x86_64">>
  BY <1>1, <1>3 DEF Request, Arch
<1>4. CASE r.archs = <<"arm64", "x86_64">>
  BY <1>1, <1>4 DEF Request, Arch
<1> QED
  BY <1>2, <1>3, <1>4

LEMMA TargetType == TypeOK => Target \in Name /\ request.archs[1] \in Arch
  BY RequestType DEF TypeOK, Target, Name

(* The entries of a folder are overwritten one at a time.                  *)
LEMMA OneEntry ==
  ASSUME NEW f \in [Name -> Folder], NEW n \in Name, NEW e \in Entry,
         NEW x \in State
  PROVE  /\ [f EXCEPT ![n][e] = x] \in [Name -> Folder]
         /\ \A m \in Name, d \in Entry :
              [f EXCEPT ![n][e] = x][m][d]
                = IF m = n /\ d = e THEN x ELSE f[m][d]
  BY DEF Folder

LEMMA NothingType ==
  /\ NoFolders \in [Name -> Folder] /\ NoArchives \in [Name -> State]
  /\ "absent" \in Tool
<1>1. Nothing \in Folder
  BY DEF Nothing, Folder, State
<1>2. NoFolders \in [Name -> Folder]
  BY <1>1 DEF NoFolders
<1>3. NoArchives \in [Name -> State]
  BY DEF NoArchives, State
<1> QED
  BY <1>2, <1>3 DEF Tool

(* Every variable has its type, through every interruption and every       *)
(* clean: in particular the loop's index stays in the list of architectures*)
(* the command line gave.                                                  *)
THEOREM TypeCorrect == Spec => []TypeOK
<1>1. Init => TypeOK
  <2> SUFFICES ASSUME Init PROVE TypeOK
    OBVIOUS
  <2>1. request \in Requests /\ index \in DOMAIN request.archs
    BY RequestType DEF Init
  <2>2. /\ distribs \in [Name -> Folder] /\ output \in [Name -> Folder]
        /\ archives \in [Name -> State]
        /\ depot_tools \in Tool /\ automate \in Tool
    BY NothingType DEF Init
  <2> QED
    BY <2>1, <2>2 DEF Init, TypeOK
<1>2. TypeOK /\ [Next]_vars => TypeOK'
  <2> SUFFICES ASSUME TypeOK, [Next]_vars PROVE TypeOK'
    OBVIOUS
  <2>1. ASSUME NEW r \in Requests, StartRun(r) PROVE TypeOK'
    BY <2>1, RequestType DEF StartRun, TypeOK, AllAged, Aged, Folder, State
  <2>2. CASE Confirm
    BY <2>2 DEF Confirm, Exit, TypeOK
  <2>3. CASE EnsureDepotTools \/ EnsureAutomateGit
    BY <2>3 DEF EnsureDepotTools, EnsureAutomateGit, TypeOK, Tool
  <2>4. Target \in Name /\ request.archs[1] \in Arch
    BY TargetType
  <2>5. Configured \subseteq Arch /\ request.version \in Version
    BY <2>4, RequestType DEF Configured, TypeOK
  <2>6. Made \in Folder
        /\ [e \in Entry |-> IF Made[e] = "new" THEN "torn" ELSE "absent"]
             \in Folder
    BY DEF Made, Folder, State
  <2>7. CASE Automate
    <3>1. distribs' \in [Name -> Folder] /\ newest' \in Name \cup {NoVersion}
      BY <2>4, <2>6, <2>7 DEF Automate, TypeOK
    <3>2. UNCHANGED <<tools, published, local, consent>>
          /\ synced' \in Version \cup {NoVersion, "torn"} /\ gn' \subseteq Arch
          /\ step' \in {"idle", "locate"} /\ result' \in {"synced", result}
      BY <2>5, <2>7 DEF Automate, Exit, TypeOK
    <3> QED
      BY <3>1, <3>2 DEF TypeOK
  <2>8. CASE AutomateFails
    <3>1. distribs' \in [Name -> Folder] /\ newest' \in Name \cup {NoVersion}
      BY <2>4, <2>6, <2>8 DEF AutomateFails, TypeOK
    <3>2. UNCHANGED <<tools, published, local, consent>>
          /\ synced' \in Version \cup {NoVersion, "torn"} /\ gn' \subseteq Arch
          /\ step' = "idle" /\ result' = "failed"
      BY <2>5, <2>8 DEF AutomateFails, Exit, TypeOK
    <3> QED
      BY <3>1, <3>2 DEF TypeOK
  <2>9. CASE Locate
    BY <2>9 DEF Locate, Exit, TypeOK, Parts
  <2>10. ASSUME NEW e \in Entry, InstallEntry(e) PROVE TypeOK'
    <3>1. CASE newest \in Name
      <4>1. output' \in [Name -> Folder]
        BY <2>10, <3>1, OneEntry DEF InstallEntry, TypeOK, dist, Folder
      <4> QED
        BY <2>10, <4>1 DEF InstallEntry, TypeOK
    <3>2. CASE newest \notin Name
      <4>1. output' = output
        BY <2>10, <3>2 DEF InstallEntry, TypeOK, dist
      <4> QED
        BY <2>10, <4>1 DEF InstallEntry, TypeOK
    <3> QED
      BY <3>1, <3>2
  <2>11. CASE Installed
    <3>1. archives' \in [Name -> State]
      BY <2>11 DEF Installed, Archived, TypeOK, State
    <3>2. index' \in DOMAIN request.archs
      BY <2>11, RequestType DEF Installed, Last, TypeOK
    <3> QED
      BY <2>11, <3>1, <3>2 DEF Installed, Exit, TypeOK
  <2>12. CASE Stop
    <3>1. output' \in [Name -> Folder]
      BY <2>12 DEF Stop, TypeOK, Folder, State
    <3>2. archives' \in [Name -> State] /\ depot_tools' \in Tool
          /\ automate' \in Tool
      BY <2>12 DEF Stop, TypeOK, State, Tool
    <3> QED
      BY <2>12, <3>1, <3>2 DEF Stop, Exit, TypeOK
  <2>13. CASE Clean \/ BuildPyClean \/ LoseDownloadDir
    <3>1. CASE Clean
      BY <3>1, NothingType DEF Clean, TypeOK
    <3>2. CASE BuildPyClean
      BY <3>2, NothingType DEF BuildPyClean, TypeOK
    <3>3. CASE LoseDownloadDir
      BY <3>3, NothingType DEF LoseDownloadDir, TypeOK
    <3> QED
      BY <2>13, <3>1, <3>2, <3>3
  <2>14. CASE UNCHANGED vars
    BY <2>14 DEF vars, TypeOK
  <2>15. CASE CleanStops
    <3>1. PICK n \in Name :
            \/ \E e \in Entry, x \in {"torn", "absent"} :
                 output' = [output EXCEPT ![n][e] = x] /\ UNCHANGED archives
            \/ archives' = [archives EXCEPT ![n] = "absent"] /\ UNCHANGED output
      BY <2>15 DEF CleanStops
    <3>2. output' \in [Name -> Folder] /\ archives' \in [Name -> State]
      <4>1. CASE UNCHANGED output
        BY <3>1, <4>1 DEF TypeOK, State
      <4>2. ASSUME NEW e \in Entry, NEW x \in State,
                   output' = [output EXCEPT ![n][e] = x], UNCHANGED archives
            PROVE  output' \in [Name -> Folder] /\ archives' \in [Name -> State]
        BY <4>2 DEF TypeOK, Folder
      <4> QED
        BY <3>1, <4>1, <4>2 DEF State
    <3> QED
      BY <2>15, <3>2 DEF CleanStops, TypeOK
  <2> QED
    BY <2>1, <2>2, <2>3, <2>7, <2>8, <2>9, <2>10, <2>11, <2>12, <2>13, <2>14,
       <2>15
       DEF Next
<1> QED
  BY <1>1, <1>2, PTL DEF Spec

-----------------------------------------------------------------------------
(* MergeKeepsTheOther, for every set of versions and command lines: the    *)
(* merge of install_distribution (lines 591-597), cut anywhere, touches    *)
(* nothing the located distribution does not have.  It needs no more than  *)
(* that what is still to be copied is part of the distribution located,    *)
(* which holds because the checkout does not change during an installation.*)
TodoIsOfDist ==
  step = "install" =>
    newest \in Name /\ todo \subseteq Parts(distribs[newest])

LEMMA TodoInvariant == TypeOK /\ TodoIsOfDist /\ [Next]_vars => TodoIsOfDist'
<1> SUFFICES ASSUME TypeOK, TodoIsOfDist, [Next]_vars, step' = "install"
             PROVE  newest' \in Name /\ todo' \subseteq Parts(distribs'[newest'])
  BY DEF TodoIsOfDist, Parts
<1>1. CASE Locate
  BY <1>1 DEF Locate, Exit, TypeOK, Parts
<1>2. ASSUME NEW e \in Entry, InstallEntry(e)
      PROVE  newest' \in Name /\ todo' \subseteq Parts(distribs'[newest'])
  BY <1>2 DEF InstallEntry, TodoIsOfDist
<1>3. CASE UNCHANGED vars
  BY <1>3 DEF vars, TodoIsOfDist
<1>4. ASSUME NEW r \in Requests, StartRun(r) PROVE FALSE
  BY <1>4 DEF StartRun
<1>5. ~(Confirm \/ EnsureDepotTools \/ EnsureAutomateGit)
  BY DEF Confirm, EnsureDepotTools, EnsureAutomateGit, Exit
<1>6. ~Automate /\ ~AutomateFails
  BY DEF Automate, AutomateFails, Exit
<1>7. ~Installed /\ ~Stop
  BY DEF Installed, Stop, Exit
<1>8. ~(CleanStops \/ Clean \/ BuildPyClean \/ LoseDownloadDir)
  BY DEF CleanStops, Clean, BuildPyClean, LoseDownloadDir
<1> QED
  BY <1>1, <1>2, <1>3, <1>4, <1>5, <1>6, <1>7, <1>8 DEF Next

THEOREM MergeIsLocal == Spec => MergeKeepsTheOther
<1> DEFINE Kept ==
      step = "install" =>
        \A n \in Name, e \in Entry :
          output'[n][e] # output[n][e] => n = dist /\ distribs[n][e] # "absent"
<1>1. Init => TodoIsOfDist
  BY DEF Init, TodoIsOfDist
<1>2. TypeOK /\ TodoIsOfDist /\ [Next]_vars => Kept
  <2> SUFFICES ASSUME TypeOK, TodoIsOfDist, [Next]_vars, step = "install",
                      NEW n \in Name, NEW e \in Entry,
                      output'[n][e] # output[n][e]
               PROVE  n = dist /\ distribs[n][e] # "absent"
    OBVIOUS
  <2>1. newest \in Name /\ todo \subseteq Parts(distribs[newest])
    BY DEF TodoIsOfDist
  <2>2. ASSUME NEW d \in todo, NEW x \in State,
               output' = [output EXCEPT ![dist][d] = x]
        PROVE  n = dist /\ distribs[n][e] # "absent"
    <3>1. n = dist /\ e = d
      BY <2>1, <2>2, OneEntry DEF dist, TypeOK, Parts
    <3> QED
      BY <2>1, <2>2, <3>1 DEF dist, Parts
  <2>3. ASSUME NEW d \in Entry, InstallEntry(d)
        PROVE  n = dist /\ distribs[n][e] # "absent"
    <3>1. distribs[dist][d] \in State
      BY <2>1 DEF TypeOK, dist, Folder
    <3> QED
      BY <2>2, <2>3, <3>1 DEF InstallEntry
  <2>4. CASE Stop
    <3>1. \E d \in todo : output' = [output EXCEPT ![dist][d] = "torn"]
      BY <2>4 DEF Stop
    <3> QED
      BY <2>2, <3>1 DEF State
  <2>5. output' = output \/ Stop \/ \E d \in Entry : InstallEntry(d)
    BY DEF Next, vars, StartRun, Confirm, EnsureDepotTools, EnsureAutomateGit,
           Automate, AutomateFails, Locate, Installed, CleanStops, Clean,
           BuildPyClean, LoseDownloadDir
  <2> QED
    BY <2>3, <2>4, <2>5
<1>3. TypeOK /\ TodoIsOfDist /\ [Next]_vars => [Kept]_vars
  BY <1>2
<1> QED
  BY <1>1, <1>3, TypeCorrect, TodoInvariant, PTL DEF Spec, MergeKeepsTheOther

-----------------------------------------------------------------------------
(* ConsentBeforeDownload, for every set of versions and command lines, as  *)
(* part of a stronger invariant: past confirm_bootstrap somebody has       *)
(* agreed, whatever is or is not in the directory.                         *)
Agreed ==
  /\ ConsentBeforeDownload
  /\ step \notin {"idle", "confirm"} => consent

THEOREM Consent == Spec => []ConsentBeforeDownload
<1>1. Init => Agreed
  BY DEF Init, Agreed, ConsentBeforeDownload
<1>2. Agreed /\ [Next]_vars => Agreed'
  <2> SUFFICES ASSUME Agreed, [Next]_vars PROVE Agreed'
    OBVIOUS
  <2> USE DEF Agreed, ConsentBeforeDownload
  <2>1. ASSUME NEW r \in Requests, StartRun(r) PROVE Agreed'
    BY <2>1 DEF StartRun
  <2>2. CASE Confirm
    BY <2>2 DEF Confirm, CheckoutExists, Exit
  <2>3. CASE EnsureDepotTools \/ EnsureAutomateGit
    BY <2>3 DEF EnsureDepotTools, EnsureAutomateGit
  <2>4. CASE Automate
    BY <2>4 DEF Automate, Exit
  <2>5. CASE AutomateFails
    BY <2>5 DEF AutomateFails, Exit
  <2>6. CASE Locate \/ Installed
    BY <2>6 DEF Locate, Installed, Exit
  <2>7. ASSUME NEW e \in Entry, InstallEntry(e) PROVE Agreed'
    BY <2>7 DEF InstallEntry
  <2>8. CASE Stop
    BY <2>8 DEF Stop, Exit
  <2>9. CASE CleanStops \/ Clean \/ BuildPyClean \/ LoseDownloadDir
    BY <2>9 DEF CleanStops, Clean, BuildPyClean, LoseDownloadDir
  <2>10. CASE UNCHANGED vars
    BY <2>10 DEF vars
  <2> QED
    BY <2>1, <2>2, <2>3, <2>4, <2>5, <2>6, <2>7, <2>8, <2>9, <2>10 DEF Next
<1>3. Agreed => ConsentBeforeDownload
  BY DEF Agreed
<1> QED
  BY <1>1, <1>2, <1>3, PTL DEF Spec

-----------------------------------------------------------------------------
(* ForcedBuildIsInstalled, for every set of versions and command lines.    *)

(* The folder of one architecture of a request, whether its build is       *)
(* forced, and what the success message is to stand for.                   *)
FolderOf(r, k) == [version |-> r.version, arch |-> r.archs[k]]

Forced(r, k) == r.force_build \/ k > 1

InPlace(r, k, out, arc) ==
  LET n == FolderOf(r, k)
  IN  /\ \A e \in r.types \cup {"shared"} : out[n][e] = "new"
      /\ r.archive /\ (\A e \in Entry : out[n][e] # "torn") => arc[n] = "new"

(* The architectures gone through are in place; a forced build is the      *)
(* newest distribution from the moment it is made to the end of its        *)
(* installation, so that it is the one located; and what is not to be      *)
(* copied any more has been.                                               *)
InstallInv ==
  /\ step # "idle" =>
       \A k \in DOMAIN request.archs :
         k < index /\ Forced(request, k) => InPlace(request, k, output, archives)
  /\ step \in {"locate", "install"} /\ Forced(request, index) =>
       newest = Target /\ distribs[newest] = Made
  /\ step = "install" /\ Forced(request, index) =>
       \A e \in request.types \cup {"shared"} :
         e \in todo \/ output[newest][e] = "new"
  /\ result = "success" =>
       /\ step = "idle"
       /\ \A k \in DOMAIN request.archs :
            Forced(request, k) => InPlace(request, k, output, archives)

LEMMA EntriesOf ==
  ASSUME NEW r \in Requests
  PROVE  r.types \cup {"shared"} \subseteq Entry
  BY RequestType DEF Entry

(* The two architectures of a request are two folders.                     *)
LEMMA TwoFolders ==
  ASSUME NEW r \in Requests, NEW j \in DOMAIN r.archs, NEW k \in DOMAIN r.archs,
         j # k
  PROVE  FolderOf(r, j) # FolderOf(r, k)
<1>1. r.archs \in {<<"arm64">>, <<"x86_64">>, <<"arm64", "x86_64">>}
  BY RequestType
<1>2. CASE r.archs = <<"arm64">> \/ r.archs = <<"x86_64">>
  BY <1>2
<1>3. CASE r.archs = <<"arm64", "x86_64">>
  <2>1. r.archs[j] # r.archs[k]
    BY <1>3
  <2>2. QED
    BY <2>1 DEF FolderOf
<1>4. QED
  BY <1>1, <1>2, <1>3

(* What is in place is so by the folder and the archive of that            *)
(* architecture alone.                                                     *)
LEMMA InPlaceLocal ==
  ASSUME NEW r, NEW k, NEW out, NEW arc, NEW out2, NEW arc2,
         InPlace(r, k, out, arc),
         out2[FolderOf(r, k)] = out[FolderOf(r, k)],
         arc2[FolderOf(r, k)] = arc[FolderOf(r, k)]
  PROVE  InPlace(r, k, out2, arc2)
  BY DEF InPlace

LEMMA InstallStep == TypeOK /\ InstallInv /\ [Next]_vars => InstallInv'
<1> SUFFICES ASSUME TypeOK, InstallInv, [Next]_vars PROVE InstallInv'
  OBVIOUS
<1>0. /\ request \in Requests /\ index \in DOMAIN request.archs
      /\ DOMAIN request.archs = 1 .. Len(request.archs)
      /\ Len(request.archs) \in {1, 2}
      /\ Target = FolderOf(request, index) /\ Target \in Name
      /\ output \in [Name -> Folder] /\ archives \in [Name -> State]
  BY RequestType, TargetType DEF TypeOK, Target, FolderOf
<1>1. ASSUME NEW r \in Requests, StartRun(r) PROVE InstallInv'
  <2>1. /\ step' = "confirm" /\ result' = "none" /\ index' = 1 /\ request' = r
    BY <1>1 DEF StartRun
  <2>2. \A k \in DOMAIN r.archs : ~(k < 1)
    BY RequestType
  <2>3. QED
    BY <2>1, <2>2 DEF InstallInv
<1>2. CASE Confirm \/ EnsureDepotTools \/ EnsureAutomateGit
  <2>1. /\ step' \in {"idle", "depot_tools", "automate", "run"} /\ step # "idle"
        /\ result' \in {result, "failed"}
        /\ UNCHANGED <<request, index, output, archives>>
    BY <1>2 DEF Confirm, EnsureDepotTools, EnsureAutomateGit, Exit
  <2>2. QED
    BY <2>1 DEF InstallInv
<1>3. CASE Automate
  <2>1. /\ step = "run" /\ UNCHANGED <<request, index, output, archives>>
        /\ \/ step' = "idle" /\ result' = "synced"
           \/ step' = "locate" /\ result' = result /\ ~request.sync_only
        /\ Builds => distribs' = [distribs EXCEPT ![Target] = Made]
                     /\ newest' = Target
    BY <1>3 DEF Automate, Exit
  <2>2. Target' = Target /\ Made' = Made
    BY <2>1 DEF Target, Made
  <2>3. ASSUME step' = "locate", Forced(request, index)
        PROVE  newest' = Target /\ distribs'[newest'] = Made
    <3>1. Builds
      BY <2>1, <2>3 DEF Builds, Forces, Forced
    <3>2. QED
      BY <1>0, <2>1, <3>1 DEF TypeOK
  <2>4. QED
    BY <2>1, <2>2, <2>3 DEF InstallInv
<1>4. CASE AutomateFails \/ Stop \/ CleanStops \/ Clean \/ BuildPyClean
  <2>1. step' = "idle" /\ result' \in {"failed", "cleaned"}
    BY <1>4 DEF AutomateFails, Stop, CleanStops, Clean, BuildPyClean, Exit
  <2>2. QED
    BY <2>1 DEF InstallInv
<1>5. CASE Locate
  <2>1. /\ step = "locate" /\ UNCHANGED <<request, index, output, archives,
                                           newest, distribs>>
        /\ \/ step' = "idle" /\ result' = "failed"
           \/ /\ step' = "install" /\ result' = result
              /\ todo' = Parts(distribs[newest])
    BY <1>5 DEF Locate, Exit
  <2>2. Target' = Target /\ Made' = Made
    BY <2>1 DEF Target, Made
  <2>3. ASSUME step' = "install", Forced(request, index),
               NEW e \in request.types \cup {"shared"}
        PROVE  e \in todo'
    <3>1. distribs[newest] = Made /\ todo' = Parts(Made)
      BY <2>1, <2>3 DEF InstallInv
    <3>2. e \in Entry /\ Made[e] = "new"
      BY <1>0, EntriesOf DEF Made
    <3>3. QED
      BY <3>1, <3>2 DEF Parts
  <2>4. QED
    BY <2>1, <2>2, <2>3 DEF InstallInv
<1>6. ASSUME NEW d \in Entry, InstallEntry(d) PROVE InstallInv'
  <2>1. /\ step = "install" /\ d \in todo /\ todo' = todo \ {d}
        /\ output' = [output EXCEPT ![newest][d] = distribs[newest][d]]
        /\ UNCHANGED <<step, request, index, archives, newest, distribs, result>>
    BY <1>6 DEF InstallEntry, dist
  <2>2. Target' = Target /\ Made' = Made
    BY <2>1 DEF Target, Made
  <2>3. CASE ~Forced(request, index)
    <3>1. \A k \in DOMAIN request.archs : ~(k < index)
      BY <1>0, <2>3 DEF Forced
    <3>2. QED
      BY <2>1, <2>3, <3>1 DEF InstallInv
  <2>4. CASE Forced(request, index)
    <3>1. newest = Target /\ distribs[newest] = Made
      BY <2>1, <2>4 DEF InstallInv
    <3>2. \A n \in Name, e \in Entry :
            output'[n][e] = IF n = Target /\ e = d THEN Made[d] ELSE output[n][e]
      <4>1. Made[d] \in State
        BY DEF Made, State
      <4>2. output' = [output EXCEPT ![Target][d] = Made[d]]
        BY <2>1, <3>1
      <4> DEFINE x == Made[d]
                 t == Target
      <4> HIDE DEF x, t
      <4>3. output' = [output EXCEPT ![t][d] = x] /\ x \in State /\ t \in Name
        BY <1>0, <4>1, <4>2 DEF x, t
      <4>4. \A n \in Name, e \in Entry :
              output'[n][e] = IF n = t /\ e = d THEN x ELSE output[n][e]
        BY <1>0, <4>3, OneEntry
      <4>5. QED
        BY <4>4 DEF x, t
    <3>3. ASSUME NEW e \in request.types \cup {"shared"}
          PROVE  e \in todo' \/ output'[newest][e] = "new"
      <4>1. e \in Entry /\ Made[e] = "new"
        BY <1>0, EntriesOf DEF Made
      <4>2. e \in todo \/ output[newest][e] = "new"
        BY <2>1, <2>4 DEF InstallInv
      <4>3. QED
        BY <1>0, <2>1, <3>1, <3>2, <4>1, <4>2
    <3>4. ASSUME NEW k \in DOMAIN request.archs, k < index, Forced(request, k)
          PROVE  InPlace(request, k, output', archives')
      <4>1. FolderOf(request, k) # Target
        BY <1>0, <3>4, TwoFolders
      <4>2. output'[FolderOf(request, k)] = output[FolderOf(request, k)]
        BY <2>1, <3>1, <4>1
      <4>3. InPlace(request, k, output, archives)
        BY <2>1, <3>4 DEF InstallInv
      <4>4. archives'[FolderOf(request, k)] = archives[FolderOf(request, k)]
        BY <2>1
      <4>5. QED
        BY <4>2, <4>3, <4>4, InPlaceLocal
    <3>5. QED
      BY <2>1, <2>2, <3>1, <3>3, <3>4 DEF InstallInv
  <2>5. QED
    BY <2>3, <2>4
<1>7. CASE Installed
  <2>1. /\ step = "install" /\ todo = {} /\ UNCHANGED <<request, output>>
        /\ archives' = IF request.archive THEN Archived ELSE archives
        /\ \/ Last /\ step' = "idle" /\ result' = "success"
           \/ ~Last /\ step' = "run" /\ index' = index + 1 /\ result' = result
    BY <1>7 DEF Installed, Exit
  <2>2. ASSUME Forced(request, index)
        PROVE  InPlace(request, index, output', archives')
    <3>1. newest = FolderOf(request, index)
          /\ \A e \in request.types \cup {"shared"} : output[newest][e] = "new"
      BY <1>0, <2>1, <2>2 DEF InstallInv
    <3>2. ASSUME request.archive, \A e \in Entry : output[newest][e] # "torn"
          PROVE  archives'[newest] = "new"
      BY <1>0, <2>1, <3>1, <3>2 DEF Archived, dist
    <3>3. QED
      BY <2>1, <3>1, <3>2 DEF InPlace
  <2>3. ASSUME NEW k \in DOMAIN request.archs, k < index, Forced(request, k)
        PROVE  InPlace(request, k, output', archives')
    <3>1. Forced(request, index) /\ k # index
      BY <1>0, <2>3 DEF Forced
    <3>2. newest = Target
      BY <2>1, <3>1 DEF InstallInv
    <3>3. FolderOf(request, k) # Target
      BY <1>0, <3>1, TwoFolders
    <3>4. archives'[FolderOf(request, k)] = archives[FolderOf(request, k)]
      BY <2>1, <3>2, <3>3 DEF Archived, dist
    <3>5. InPlace(request, k, output, archives)
      BY <2>1, <2>3 DEF InstallInv
    <3>6. QED
      BY <2>1, <3>4, <3>5, InPlaceLocal
  <2>4. \A k \in DOMAIN request.archs :
          k <= index /\ Forced(request, k) => InPlace(request, k, output', archives')
    <3>1. \A k \in DOMAIN request.archs : k <= index => k < index \/ k = index
      BY <1>0
    <3>2. QED
      BY <2>2, <2>3, <3>1
  <2>5. CASE Last /\ step' = "idle" /\ result' = "success"
    <3>1. \A k \in DOMAIN request.archs : k <= index
      BY <1>0, <2>5 DEF Last
    <3>2. QED
      BY <2>1, <2>4, <2>5, <3>1 DEF InstallInv
  <2>6. CASE ~Last /\ step' = "run" /\ index' = index + 1 /\ result' = result
    <3>1. \A k \in DOMAIN request.archs : k < index + 1 => k <= index
      BY <1>0
    <3>2. result' # "success"
      BY <2>1, <2>6 DEF InstallInv
    <3>3. QED
      BY <2>1, <2>4, <2>6, <3>1, <3>2 DEF InstallInv
  <2>7. QED
    BY <2>1, <2>5, <2>6
<1>8. CASE LoseDownloadDir
  <2>1. /\ step = "idle" /\ step' = "idle"
        /\ UNCHANGED <<request, index, output, archives, result>>
    BY <1>8 DEF LoseDownloadDir
  <2>2. QED
    BY <2>1 DEF InstallInv
<1>9. CASE UNCHANGED vars
  <2>1. Target' = Target /\ Made' = Made
    BY <1>9 DEF vars, Target, Made
  <2>2. QED
    BY <1>9, <2>1 DEF vars, InstallInv
<1>10. QED
  BY <1>1, <1>2, <1>3, <1>4, <1>5, <1>6, <1>7, <1>8, <1>9 DEF Next

(* "CEF build completed successfully!" (line 747) for a forced build: what *)
(* the run made is installed whole, for both architectures where there are *)
(* two, and the archive is of this run.                                    *)
THEOREM ForcedInstallation == Spec => []ForcedBuildIsInstalled
<1>1. Init => InstallInv
  BY DEF Init, InstallInv
<1>2. InstallInv => ForcedBuildIsInstalled
  BY DEF InstallInv, ForcedBuildIsInstalled, Forced, InPlace, FolderOf
<1>3. QED
  BY <1>1, <1>2, InstallStep, TypeCorrect, PTL DEF Spec

=============================================================================
