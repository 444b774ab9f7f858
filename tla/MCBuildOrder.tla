---------------------------- MODULE MCBuildOrder ----------------------------
(***************************************************************************)
(* Small registries for TLC: three names, every way of letting each depend *)
(* on up to two of them (self-dependencies, cycles, diamonds cut short by  *)
(* a disabled library), listed in a few orders.                            *)
(***************************************************************************)
EXTENDS BuildOrder, ShippedRegistry

MCName == {"a", "b", "c"}
MCAlphabet == <<"a", "b", "c">>

DepLists == {<< >>} \cup {<<x>> : x \in MCName}
              \cup {d \in MCName \X MCName : d[1] # d[2]}

(* Listed in part, in reverse, with a repetition and a name of no library. *)
MCOrders == {<< >>, <<"c", "a">>, <<"b", "b", "a">>}

(* Every graph over registered libraries, any of them disabled.            *)
MCRegistries ==
  {[libs |-> MCName, disabled |-> d, depends_on |-> f, order |-> o] :
     d \in SUBSET MCName, f \in [MCName -> DepLists], o \in MCOrders}

(* The same graphs with "c" mentioned by the others but not registered.    *)
MCUnregistered ==
  {[libs |-> {"a", "b"}, disabled |-> d, depends_on |-> f, order |-> <<"c", "b">>] :
     d \in SUBSET {"a"},
     f \in {g \in [MCName -> DepLists] : g["c"] = << >>}}

MCAllRegistries == MCRegistries \cup MCUnregistered

=============================================================================
