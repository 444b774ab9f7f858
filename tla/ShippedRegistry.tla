-------------------------- MODULE ShippedRegistry --------------------------
(***************************************************************************)
(* The registry as the repository ships it: the names, depends_on and      *)
(* disabled_platforms of libraries/*.yaml and the order of                 *)
(* libraries/_build_order.yaml.  Linux and macOS disable the same library, *)
(* Windows none.  The two assumptions are the conditions under which       *)
(* BuildOrder_proofs proves ListedOrderHolds and RequestIsPlanned to say   *)
(* something of this registry; TLC evaluates them.                         *)
(***************************************************************************)
EXTENDS Naturals, Sequences

ShippedAlphabet ==
  <<"bc7enc_rdo", "brotli", "bzip2", "clipper2", "cppzmq", "cpu_features",
    "cryptopp-cmake", "fastgltf", "flac", "freetype", "glslang",
    "harfbuzz", "hwloc", "jsoncpp", "ktx", "lame", "lib3mf",
    "libjpeg-turbo", "libogg", "libpng", "libressl", "libsamplerate",
    "libsndfile", "libtiff", "libvorbis", "libvpx", "libwebp", "libzip",
    "libzmq", "lunasvg", "meshoptimizer", "mpg123", "openal-soft", "opus",
    "pthread-win32", "reproc", "spirv-headers", "spirv-tools", "taglib",
    "tinyusdz", "ufbx", "xz", "zlib", "zstd">>

ShippedName == {ShippedAlphabet[i] : i \in DOMAIN ShippedAlphabet}

ShippedOrder ==
  <<"zlib", "bzip2", "xz", "zstd", "brotli", "harfbuzz", "libjpeg-turbo",
    "cpu_features", "hwloc", "openal-soft", "libsamplerate", "libogg",
    "opus", "libvorbis", "flac", "mpg123", "lame", "libzmq", "libwebp",
    "libvpx", "cryptopp-cmake", "libressl", "clipper2", "pthread-win32",
    "reproc", "bc7enc_rdo", "ktx", "meshoptimizer", "ufbx",
    "spirv-headers", "spirv-tools", "glslang", "taglib", "libsndfile",
    "libpng", "libtiff", "libzip", "lib3mf", "freetype", "cppzmq">>

ShippedDependsOn(l) ==
  CASE l = "cppzmq"      -> <<"libzmq">>
    [] l = "flac"        -> <<"libogg">>
    [] l = "freetype"    -> <<"zlib", "bzip2", "libpng", "harfbuzz", "brotli">>
    [] l = "glslang"     -> <<"spirv-tools">>
    [] l = "lib3mf"      -> <<"libzip">>
    [] l = "libpng"      -> <<"zlib">>
    [] l = "libsndfile"  -> <<"libogg", "libvorbis", "flac", "opus", "mpg123",
                              "lame">>
    [] l = "libtiff"     -> <<"zlib", "libjpeg-turbo", "xz", "zstd">>
    [] l = "libvorbis"   -> <<"libogg">>
    [] l = "libzip"      -> <<"zlib", "bzip2", "xz", "zstd">>
    [] l = "spirv-tools" -> <<"spirv-headers">>
    [] l = "taglib"      -> <<"zlib">>
    [] OTHER             -> << >>

ShippedDisabled == {{}, {"pthread-win32"}}

ShippedNeeds(l) ==
  {ShippedDependsOn(l)[i] : i \in DOMAIN ShippedDependsOn(l)}

(* base_order of get_build_order: the listed names, then all the others.   *)
ShippedBase == ShippedOrder \o ShippedAlphabet

ListedBefore(d, l) ==
  \E i \in DOMAIN ShippedBase :
    ShippedBase[i] = d /\ \A j \in 1 .. i : ShippedBase[j] # l

(* Whatever a platform disables, a library is listed after those it needs. *)
ASSUME ShippedListsDependenciesFirst ==
  \A l \in ShippedName : \A d \in ShippedNeeds(l) :
    d \in ShippedName /\ ListedBefore(d, l)

(* A library disabled somewhere needs none that is enabled there.          *)
ASSUME ShippedDisabledNeedNothing ==
  \A D \in ShippedDisabled : \A l \in D : ShippedNeeds(l) \subseteq D

=============================================================================
