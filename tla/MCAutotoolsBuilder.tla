-------------------------- MODULE MCAutotoolsBuilder --------------------------
(***************************************************************************)
(* Names for the small instances of the .cfg files: an upgrade of a        *)
(* compiler in place, and another compiler beside it.                      *)
(***************************************************************************)
EXTENDS AutotoolsBuilder

Gcc == {"gcc"}
Compilers == {"gcc", "clang"}
Upgrade == {12, 14}
OneArch == {"x86_64"}
TwoArchs == {"x86_64", "arm64"}
Release == {"Release"}
OneTag == {"sdk12.0"}
TwoTags == {"sdk12.0", "sdk13.0"}

=============================================================================
