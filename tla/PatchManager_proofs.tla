------------------------ MODULE PatchManager_proofs ------------------------
(***************************************************************************)
(* Theorems about PatchManager, for every set of revisions and every patch.*)
(***************************************************************************)
EXTENDS PatchManager, TLAPS

(* Between the guard and the end of apply_patch the tree is as the guard   *)
(* and git apply --check saw it.                                           *)
CallInv ==
  /\ pc \in {"check", "apply", "mark"} => patch.exists /\ git /\ ~Drifted
  /\ pc = "apply" => inPlace = {}
  /\ pc = "mark" => inPlace = patch.parts
  /\ pc \in {"check", "apply"} => ~marker

LEMMA TypeInit == Init => TypeOK
  BY DEF Init, TypeOK

LEMMA TypeStep == TypeOK /\ [Next]_vars => TypeOK'
<1> SUFFICES ASSUME TypeOK, [Next]_vars PROVE TypeOK'
  OBVIOUS
<1> USE DEF TypeOK, world
<1>1. CASE NothingToDo
  BY <1>1 DEF NothingToDo
<1>2. CASE Refuse
  BY <1>2 DEF Refuse
<1>3. CASE Start
  BY <1>3 DEF Start
<1>4. CASE Check
  BY <1>4 DEF Check
<1>5. CASE Apply
  BY <1>5 DEF Apply
<1>6. CASE ApplyFails
  BY <1>6 DEF ApplyFails, Stopped
<1>7. CASE Mark
  BY <1>7 DEF Mark
<1>8. CASE BuildEnds
  BY <1>8 DEF BuildEnds
<1>9. CASE Interrupt
  BY <1>9 DEF Interrupt, Stopped
<1>10. CASE CleanTree
  BY <1>10 DEF CleanTree
<1>11. CASE \E r \in Revision : UpdateSubmodule(r) \/ ForceCheckout(r)
  BY <1>11 DEF UpdateSubmodule, ForceCheckout
<1>12. CASE UNCHANGED vars
  BY <1>12 DEF vars
<1>13. QED
  BY <1>1, <1>2, <1>3, <1>4, <1>5, <1>6, <1>7, <1>8, <1>9, <1>10, <1>11,
     <1>12 DEF Next

LEMMA CallStep == TypeOK /\ CallInv /\ [Next]_vars => CallInv'
<1> SUFFICES ASSUME TypeOK, CallInv, [Next]_vars PROVE CallInv'
  OBVIOUS
<1> USE DEF CallInv, Drifted, world
<1>1. CASE NothingToDo \/ Refuse \/ Start
  BY <1>1 DEF NothingToDo, Refuse, Start
<1>2. CASE Check \/ Apply
  BY <1>2 DEF Check, Apply, CheckPasses
<1>3. CASE ApplyFails \/ Mark \/ BuildEnds \/ Interrupt
  BY <1>3 DEF ApplyFails, Mark, BuildEnds, Interrupt
<1>4. CASE \/ CleanTree
           \/ \E r \in Revision : UpdateSubmodule(r) \/ ForceCheckout(r)
  BY <1>4 DEF CleanTree, UpdateSubmodule, ForceCheckout
<1>5. CASE UNCHANGED vars
  BY <1>5 DEF vars
<1>6. QED
  BY <1>1, <1>2, <1>3, <1>4, <1>5 DEF Next

LEMMA BaseInv == Spec => [](TypeOK /\ CallInv)
<1>1. Init => TypeOK /\ CallInv
  BY TypeInit DEF Init, CallInv
<1>2. QED
  BY <1>1, TypeStep, CallStep, PTL DEF Spec

(* Only parts of the patch itself are ever written into the source tree,   *)
(* and apply_patch is always at one of its steps.                          *)
THEOREM TypeCorrect == Spec => []TypeOK
  BY BaseInv, PTL

(* Nothing is ever written over another revision than the declared one     *)
(* (cmake_builder.py:100-124), whatever developers do between builds.      *)
THEOREM GuardHolds == Spec => AppliedAtTarget
<1>1. TypeOK /\ CallInv /\ [Next]_vars
        => [inPlace' \ inPlace # {} /\ patch.target # NoTarget /\ headKnown
              => rev' = rev /\ rev = patch.target]_vars
  <2> SUFFICES ASSUME TypeOK, CallInv, [Next]_vars, inPlace' \ inPlace # {},
                      patch.target # NoTarget, headKnown
               PROVE  rev' = rev /\ rev = patch.target
    OBVIOUS
  <2>1. CASE Apply \/ ApplyFails \/ Interrupt
    BY <2>1 DEF Apply, ApplyFails, Interrupt, CallInv, Drifted
  <2>2. CASE inPlace' \subseteq inPlace
    BY <2>2
  <2>3. QED
    BY <2>1, <2>2 DEF Next, vars, NothingToDo, Refuse, Start, Check, Mark,
       BuildEnds, CleanTree, UpdateSubmodule, ForceCheckout
<1>2. QED
  BY <1>1, BaseInv, PTL DEF Spec, AppliedAtTarget

(* As long as nobody discards edits with git checkout -f, the marker can   *)
(* be trusted: partial writes, interruptions, moves of the submodule and   *)
(* git clean included.                                                     *)
THEOREM MarkerIsSound == Spec => []MarkerMeansApplied
<1>1. Init => MarkerMeansApplied
  BY DEF Init, MarkerMeansApplied
<1>2. TypeOK /\ CallInv /\ MarkerMeansApplied /\ [Next]_vars
        => MarkerMeansApplied'
  <2> SUFFICES ASSUME TypeOK, CallInv, MarkerMeansApplied, [Next]_vars
               PROVE  MarkerMeansApplied'
    OBVIOUS
  <2> USE DEF MarkerMeansApplied, world
  <2>1. CASE NothingToDo \/ Refuse \/ Start \/ Check \/ BuildEnds
    BY <2>1 DEF NothingToDo, Refuse, Start, Check, BuildEnds
  <2>2. CASE Apply \/ ApplyFails \/ Mark
    BY <2>2 DEF Apply, ApplyFails, Mark, CallInv
  <2>3. CASE Interrupt
    BY <2>3 DEF Interrupt, CallInv
  <2>4. CASE CleanTree
    BY <2>4 DEF CleanTree
  <2>5. CASE \E r \in Revision : UpdateSubmodule(r) \/ ForceCheckout(r)
    BY <2>5 DEF UpdateSubmodule, ForceCheckout
  <2>6. CASE UNCHANGED vars
    BY <2>6 DEF vars
  <2>7. QED
    BY <2>1, <2>2, <2>3, <2>4, <2>5, <2>6 DEF Next
<1>3. QED
  BY <1>1, <1>2, BaseInv, PTL DEF Spec

(* In an undisturbed tree the patch is in place as a whole or not at all,  *)
(* and there is no third state a failed check could stand for.             *)
WholeInv ==
  Undisturbed =>
    /\ inPlace \in {{}, patch.parts}
    /\ patch.parts # {}
    /\ marker => inPlace = patch.parts
    /\ pc = "compile" /\ patch.exists /\ git => inPlace = patch.parts

(* The success returned for a failed git apply --check is right in the     *)
(* environment it is meant for.                                            *)
THEOREM RetryCompilesThePatch == Spec => []CompiledPatched
<1>1. Init => WholeInv
  BY DEF Init, WholeInv, Patch
<1>2. TypeOK /\ CallInv /\ WholeInv /\ [Next]_vars => WholeInv'
  <2> SUFFICES ASSUME TypeOK, CallInv, WholeInv, [Next]_vars, Undisturbed'
               PROVE  WholeInv'
    BY DEF WholeInv
  <2>1. Undisturbed /\ UNCHANGED world
    BY DEF Undisturbed, Next, vars, world, NothingToDo, Refuse, Start, Check,
       Apply, ApplyFails, Mark, BuildEnds, Interrupt, CleanTree,
       UpdateSubmodule, ForceCheckout
  <2> USE <2>1 DEF WholeInv, Undisturbed, world
  <2>2. CASE NothingToDo \/ Refuse \/ Start
    BY <2>2 DEF NothingToDo, Refuse, Start
  <2>3. CASE Check
    BY <2>3 DEF Check, CheckPasses, TypeOK
  <2>4. CASE Apply \/ ApplyFails \/ Mark
    BY <2>4 DEF Apply, ApplyFails, Mark, Stopped, CallInv
  <2>5. CASE BuildEnds \/ Interrupt
    BY <2>5 DEF BuildEnds, Interrupt, Stopped, CallInv
  <2>6. CASE \/ CleanTree
             \/ \E r \in Revision : UpdateSubmodule(r) \/ ForceCheckout(r)
    BY <2>6 DEF CleanTree, UpdateSubmodule, ForceCheckout
  <2>7. CASE UNCHANGED vars
    BY <2>7 DEF vars
  <2>8. QED
    BY <2>2, <2>3, <2>4, <2>5, <2>6, <2>7 DEF Next
<1>3. WholeInv => CompiledPatched
  BY DEF WholeInv, CompiledPatched
<1>4. QED
  BY <1>1, <1>2, <1>3, BaseInv, PTL DEF Spec

=============================================================================
