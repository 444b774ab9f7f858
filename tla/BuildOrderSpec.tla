--------------------------- MODULE BuildOrderSpec ---------------------------
(***************************************************************************)
(* What the library registry promises about the order in which libraries   *)
(* are handed to the builders (docstring of                                *)
(* LibraryRegistry.get_build_order, builder/config.py:399-403: "...applies *)
(* topological sort to ensure dependencies are built first"): libraries    *)
(* are emitted one at a time, each one at most once, and none before       *)
(* the libraries it depends on.  How the next one is chosen is left open.  *)
(***************************************************************************)
EXTENDS Sequences

CONSTANT Name

VARIABLES
  needs,      \* [Name -> SUBSET Name]: what each enabled library waits for
  available,  \* the libraries enabled on the platform
  emitted     \* the libraries emitted so far, in order

avars == <<needs, available, emitted>>

Emitted == {emitted[i] : i \in DOMAIN emitted}

AInit ==
  /\ needs \in [Name -> SUBSET Name]
  /\ available \in SUBSET Name
  /\ emitted = << >>

Emit(l) ==
  /\ l \in available \ Emitted
  /\ needs[l] \subseteq Emitted
  /\ emitted' = Append(emitted, l)
  /\ UNCHANGED <<needs, available>>

ANext == \E l \in Name : Emit(l)

ASpec == AInit /\ [][ANext]_avars

=============================================================================
