------------------------------ MODULE MCBuildRun ------------------------------
(***************************************************************************)
(* Three libraries: zlib (CMake), harfbuzz (Meson) and libvpx (MSYS2 on    *)
(* Windows, autotools elsewhere).  For the purpose of these instances      *)
(* harfbuzz needs zlib and libvpx needs nothing.                           *)
(***************************************************************************)
EXTENDS BuildRun

(* Each configuration has an output directory of its own (config.py:112),  *)
(* and a process builds into one: histories of one directory at a time.    *)
OneDirectory == config' = config

X86 == {"x86_64"}
BothArchs == {"x86_64", "arm64"}

MCLibrary == {"zlib", "harfbuzz", "libvpx"}
MCArchive == {"z", "hb", "vpx", "vpxd"}
MCTwins == {"vpx"}

System(vpx) == [l \in MCLibrary |-> CASE l = "zlib" -> "cmake"
                                      [] l = "harfbuzz" -> "meson"
                                      [] OTHER -> vpx]
WindowsSystem == System("msys2")
UnixSystem == System("autotools")

MCDeps == [l \in MCLibrary |-> IF l = "harfbuzz" THEN {"zlib"} ELSE {}]

FilesOf(vpxDebug) ==
  [l \in MCLibrary |-> [b \in BuildType |->
     CASE l = "zlib" -> {"z"}
       [] l = "harfbuzz" -> {"hb"}
       [] OTHER -> IF b = "Debug" THEN vpxDebug ELSE {"vpx"}]]
WindowsInstalls == FilesOf({"vpx", "vpxd"})
UnixInstalls == FilesOf({"vpx"})

(* The dependencies test links the same libvpx name for both build types    *)
(* (CMakeLists.txt:260-267).                                               *)
LinkAll == [b \in BuildType |-> {"z", "hb", "vpx"}]

Run(libs, all) == [libs |-> libs, all |-> all]
FullBuild == Run(<<"zlib", "harfbuzz", "libvpx">>, TRUE)
MCRequests == {FullBuild, Run(<<"zlib", "harfbuzz">>, FALSE),
               Run(<<"libvpx">>, FALSE)}
FullOnly == {FullBuild}

Cfg(arch, build, runtime) ==
  [arch |-> arch, build_type |-> build, runtime_lib |-> runtime]
Debug == {Cfg("x86_64", "Debug", "MD")}
DebugAndRelease == {Cfg("x86_64", b, "MD") : b \in BuildType}
Arm == {Cfg("arm64", "Release", "MD")}

Built(archs, crts, ltcg) == [archs |-> archs, crts |-> crts, ltcg |-> ltcg]

(* The C runtimes of a Debug and of a Release build, and the latter hidden *)
(* in /GL objects.                                                         *)
WindowsContent == {Built(X86, {"MSVCRTD"}, FALSE), Built(X86, {"MSVCRT"}, FALSE),
                   Built(X86, {"MSVCRT"}, TRUE)}
MacContent == {Built({"arm64"}, {}, FALSE), Built(BothArchs, {}, FALSE),
               Built({"x86_64"}, {}, FALSE)}

=============================================================================
