------------------------------ MODULE MCCefBuild ------------------------------
(***************************************************************************)
(* An Apple-Silicon host, which builds for both architectures.             *)
(***************************************************************************)
EXTENDS CefBuild

Run(archs, types, force, sync, archive) ==
  [archs |-> archs, types |-> types, version |-> "7871",
   force_build |-> force, sync_only |-> sync, archive |-> archive]

MCRequests ==
  {Run(<<"arm64">>, {"Release"}, FALSE, FALSE, FALSE),
   Run(<<"arm64">>, {"Debug"}, TRUE, FALSE, TRUE),
   Run(<<"x86_64">>, {"Release"}, TRUE, FALSE, FALSE),
   Run(<<"arm64", "x86_64">>, {"Release"}, FALSE, FALSE, TRUE),
   Run(<<"arm64">>, {"Release"}, FALSE, TRUE, FALSE)}

OneVersion == {"7871"}

=============================================================================
