# A verification project for ext-deps-generator

ext-deps-generator builds about forty third-party libraries as static archives
for one platform, architecture, build type and C runtime at a time. The program
is a handful of Python scripts (`build.py`, the package `builder/`,
`build_cef.py`, `check_releases.py`) and one YAML file per library. It is
sequential; what makes it hard is what stays on disk between two runs. Source
trees with patches in them, build directories of other compilers, one `lib/`
directory all libraries are installed into, and a multi-hour Chromium checkout
survive a run that failed or was interrupted, and the next run has to make sense
of them.

The repository also holds the source of one of these libraries, LibreSSL
(`repositories/libressl`), which its `libressl` entry builds. Two parts of it
carry the protocols and the concurrency that tests reach least, and are modelled
too: the DTLS handshake over a network that loses datagrams, and the session
cache that the threads of a server share.

This directory holds TLA+ models of those parts, the TLC runs that check them on
small instances, and TLAPS proofs of the properties that matter most for every
instance. Paths below are relative to the root of the repository.

## 1. Inventory

| Component | State it keeps | Operations | Hard part |
|---|---|---|---|
| `LibraryRegistry` (`builder/config.py:353-476`) | the YAML registry; locals of two recursions | `get_build_order`, `get_with_dependencies`, choice in `main` (`build.py:308-334`) | cycles against diamonds, disabled and unregistered names, two orders that have to agree |
| `PatchManager` (`builder/cmake_builder.py:17-155`) | the source tree, `.patch_applied` | `apply_patch` (`revert_patch` has no caller) | interruption between `git apply` and the marker; what git does to the tree between builds |
| `AutotoolsBuilder` (`builder/autotools_builder.py`) | `build-<arch>-<type>` in the source tree, `.toolchain_stamp` | `build`, `_ensure_toolchain_match` | artifacts of another compiler, crash inside `rmtree` / `write_text`, a directory shared by configurations |
| `CMakeBuilder`, `MesonBuilder`, `Msys2Builder` | files of `output/<config>/lib` | `build`, `_rename_static_libs_to_lib`, `_flatten_lib_dir`, `_purge_release_libs` | all of them work on one shared directory, file by file |
| platform validators (`builder/platforms/windows.py:354-480`, `macos.py:82-143`) | class attribute `_validated_libs` | `validate_crt_linkage`, `validate_architecture` | a cache keyed by path over files that are rewritten; tools that time out |
| `build.py` (`main`, `run_dependencies_test`, `clean_directories`) | the loop, the exit status | runs, `--clean` | failure of one library among several, runs over what is left of earlier ones |
| option merging, post-build assertions (`builder/config.py`) | none | pure functions | precedence of platform and build-type sections |
| `tools_check` | none | pure functions | version parsing |
| `build_cef.py` | the download directory, `output/cef_binary_*` | bootstrap, automate-git, installation, archive, `--clean` | interrupted downloads, stale distributions, merging into a folder that is there |
| `check_releases.py` | none | pure functions, one thread pool over independent rows | ordering of tags |
| `DependenciesTest` (`CMakeLists.txt`, `src/main.cpp`) | none | links every library | which archive names exist in which configuration |
| DTLS handshake (`repositories/libressl/ssl/d1_*.c`, `ssl_clnt.c`, `ssl_srvr.c`) | per connection: handshake state, sequence numbers, epochs, replay windows, queues of early messages and records, retransmission queue, timer | `SSL_connect`, `SSL_accept`, `DTLSv1_listen`, `SSL_read`, `SSL_write`, `DTLSv1_handle_timeout` | lost, duplicated and reordered datagrams, timers against late answers, the change of keys |
| session cache (`ssl_sess.c`, `ssl_lib.c`) | per `SSL_CTX`: hash table, list, limit; per session: references, id, expiry | lookup, addition, eviction, removal, expiry, callbacks | threads, references owned by several, two structures that must agree |
| rest of LibreSSL | - | cryptography, certificates, TLS 1.3, `openssl(1)` | not a matter of interleavings |

How they interact. `main` asks the registry for a list and builds it from left
to right; each builder calls `PatchManager.apply_patch` first, compiles, installs
into `output/<config>`, then calls the validator of the platform, which reads
*everything* in `lib/`; the first failure ends the run; after a complete build
of the platform `DependenciesTest` is compiled against the directory. There are
no messages and no threads between these parts: they share files. The two parts
of LibreSSL share nothing with them. The endpoints of a DTLS handshake exchange
datagrams; the threads of a server meet in the cache of their `SSL_CTX`, which
every handshake reads when it begins and writes when it ends.

What makes each part correct:

* selection: the list contains what was asked for and its enabled dependencies
  and nothing else, dependencies first; a cycle is reported exactly when there
  is one; the configured order is overruled only by a dependency;
* patches: a guarded patch only reaches the commit it names; the marker stands
  for a whole patch; a tree left alone is compiled patched however often the
  build is interrupted;
* autotools: a build never uses or installs objects of another compiler,
  architecture or build type;
* runs: a library is compiled when what it needs is in place; a run that
  succeeds on an empty directory has only archives that fit the configuration,
  but for those it warned about and those it could not read; the dependencies test
  finds what it links, but for what a Debug run has purged;
* CEF: a forced build that reports success has installed, whole, what it made;
  an installation leaves the other build type alone wherever it is cut; no
  download starts in a directory nobody has agreed to;
* DTLS: what the network does to datagrams ends no handshake; both sides compute
  the same transcript and change keys in order; nobody waits for ever; no data is
  read twice;
* session cache: a session is freed when the last pointer to it is gone and not
  before; table and list hold the same sessions, no more than the limit; a session
  that was removed does not come back.

The hazards, each at its line and with the properties that watch it, are the
list `hazards` of `PROJECT.json`.

## 2. Modules

    BuildOrderSpec            what an ordering of libraries promises
    BuildOrder                the selection of build.py, call by call
      BuildOrder_proofs         theorems
      MCBuildOrder              every graph over three names
      ShippedRegistry           the 44 libraries of the repository
    PatchManager              apply_patch and the source tree between builds
      PatchManager_proofs, MCPatchManager
    AutotoolsBuilder          toolchain stamp and shared build directories
      AutotoolsBuilder_proofs, MCAutotoolsBuilder
    ArchiveValidation         what a validator says of one archive
    BuildRun                  runs over shared output directories
      BuildRun_proofs, MCBuildRun
    CefBuild                  runs of build_cef.py over one download directory
      CefBuild_proofs, MCCefBuild
    Dtls                      a DTLS 1.2 client and server over a lossy network
      Dtls_proofs               one conversation, whatever the network does
      DtlsTolerance_proofs      how many faults it survives
      MCDtls
    SessionCache              the session cache of an SSL_CTX and its threads
      SessionCache_proofs       counts, lock, list, limit; removed sessions stay out
      MCSessionCache

`BuildRun` extends `ArchiveValidation` and takes the result of `BuildOrder` (a
list in which no library comes twice, by theorem `PlanIsProperList`, with
dependencies first, by `PlanIsClosed`) as its constant `Requests`; the steps before the install step
are one action there, which `PatchManager` and `AutotoolsBuilder` spell out.

### BuildOrder

One behaviour is one call of `build.py`. `Init` picks a registry (libraries,
`depends_on`, the libraries disabled on the platform, the configured order) and a
request (a library or none, with or without `--no-deps`). The two recursive
functions are modelled with an explicit `stack` of calls `[lib, next]`; each
evaluation of the loop body `for dep in lib.depends_on` is one step:

| Action | Code |
|---|---|
| `SelectAlone`, `SelectUnknown`, `SelectWithDeps`, `SelectAll` | `build.py:308-330`, `config.py:454-460` |
| `CollectDep`, `CollectReturn` | `collect_deps`, `config.py:464-474` |
| `VisitNext`, `VisitDep`, `VisitReturn` | `visit` and its loop, `config.py:428-450` |
| `OrderDone`, `FilterNext`, `FilterDone` | `config.py:452, 475`, `build.py:322-334` |

`visited`, `temp_mark` and `ordered` are the code's. `outcome` is how the call
ended: `planned`, `unknown`, `unavailable` and `nothing` as in `main`, `circular` for
the `ValueError`, `recursion` for the `RecursionError` of a `collect_deps` that runs
deeper than the interpreter's stack (constant `RecursionLimit`). Sorting by name
is the constant sequence `Alphabet`. `AtOrBefore` says of two names which one
`base_order` has first.

`ShippedRegistry` is data: the names, `depends_on`, `disabled_platforms` and order
of `libraries/*.yaml`. Its two assumptions say that the shipped registry meets the
conditions under which the theorems `ListedOrderIsKept` and `RequestsArePlanned`
(section 4) say something of it; TLC evaluates them in `MCBuildOrder`, which extends
the module.

`BuildOrderSpec` knows what each library needs, which are available, and the
order emitted so far: it emits an available library, once, when all it needs has
been emitted. `ImplementsBuildOrderSpec` is `INSTANCE BuildOrderSpec WITH ...`:
`ordered` is what is emitted, `Enabled` is available, `EnabledDeps` is needed.

### PatchManager

The source tree is a revision and the parts of the patch that are in place
(`edit` for changed files, `add` for files the patch creates - git treats them
differently). `marker` is `.patch_applied`. The steps of `apply_patch` are
separate actions because a build can be interrupted between any two of them.
The patch itself (exists, target commit, the revisions it applies to, what it
changes), whether git is installed and answers, whether a `git apply` can be torn
in the middle, and the habits of the developer (`update`, `force`, `clean`) are
variables `Init` chooses and nothing changes; the properties speak of them.
`git` is external and modelled as the code uses it: `CheckPasses` (`--check`
accepts the patch on a revision it fits, when no part is in place), `Apply`,
`UpdateSubmodule` (local edits are carried along), `ForceCheckout` (edits are
lost, untracked files - the marker - stay), `CleanTree` (`git clean -fdx`).

### AutotoolsBuilder

`stamp[d]` and `built[d]` are a build directory; each file records the compiler
and the configuration it was made with. `rmtree` removes entry by entry
in any order (`WipeEntry`, `WipeStamp`), `write_text` truncates, then writes
(`TruncateStamp`, `WriteStamp`), and `Stop` may come at any point. A compiler's
`--version` may fail at any build (`SignatureOf`), which leaves the path alone
in the signature. `Compile` may recompile any object and may leave any object that
is there as it is: make decides by time stamps, and nothing stronger is assumed.

### ArchiveValidation, BuildRun

An archive is its architectures, the C runtimes its objects ask for and whether
it holds `/GL` objects, whose directives `dumpbin` cannot read (`HidesCrt`).
Such an archive is rejected unasked when the scan finds those objects; when the file
cannot be read the scan finds none, `dumpbin` prints no directive, and the archive
is validated (`RejectedUnasked`, `Accepted`). `Fits` is what a user needs.

`BuildRun` has the content of `lib/` of each output directory, what is still to
be moved there (`staged`: `lib<name>.a` of Meson, `lib/x64` of libvpx), the loop
of `main`, the cache `validated`, the archives the last validation only warned
about (`warned`) and those validated without having been read (`unscanned`), and the
exit status. A validation picks the archives whose read raises an `OSError` and,
among those it asks the tool about, the ones the tool gives no answer for. The moves, the purge and `--clean` go file by file
and can be cut anywhere; the cache lives as long as the process.

### CefBuild

The state is what `build_cef.py` finds on disk: the two tools of the download
directory (each absent, torn or whole), the version the checkout is at, the
architectures its build directories are configured for, the distributions in
`binary_distrib` with the newest one, and the folders and archives of `output/`.
A folder is a directory per build type and the shared files; each entry is
absent, torn, left by an earlier run (`old`) or made by this one (`new`).

| Action | Code |
|---|---|
| `StartRun`, `Confirm` | `main` up to the checks, `confirm_bootstrap` |
| `EnsureDepotTools`, `EnsureAutomateGit` | the functions of these names |
| `Automate`, `AutomateFails` | `automate_git_command` and the call in `main` |
| `Locate`, `InstallEntry`, `Installed` | `locate_distribution`, the loop of `install_distribution`, `archive_dist` and the end of the loop over architectures |
| `Stop` | an interruption or an exception anywhere outside automate-git |
| `Clean`, `BuildPyClean`, `CleanStops`, `LoseDownloadDir` | the two `--clean`, and either of them interrupted; the disk is not mounted or `CEF_DOWNLOAD_DIR` not set |

`automate-git.py` is downloaded and not part of the repository. What is known of
it is what `build_cef.py` says: it does nothing, successfully, when
neither the checkout has changed nor a build is forced (lines 241-251, `Builds`),
and it fails for an architecture that has not been configured (lines 440-447,
`Configured`). It may fail, or be cut, before the sync, in it, and in the build.

### Dtls

`conn[e]` is the SSL object of endpoint `e`: a record with the fields of
`struct dtls1_state_st` and `struct ssl_st` the handshake depends on. `net[e]` are the
datagrams on their way to `e`. Each handler of the code is an operator from SSL
object to SSL object; an action runs one of them.

| Definition | Code |
|---|---|
| `SendFlight` (`WriteFlight`, `Write`, `Put`) | `ssl3_connect` / `ssl3_accept` from one flush to the next, `dtls1_do_write`, `dtls1_buffer_message`, `do_dtls1_write` |
| `Receive` (`GetRecord`, `Process`, `GetFragment`, `Consume`) | `dtls1_get_record`, `dtls1_read_bytes`, `dtls1_get_message_fragment`, `dtls1_get_message` and the state machine behind it |
| `OutOfSeq`, `TakeBuffered` | `dtls1_process_out_of_seq_message`, `dtls1_retrieve_buffered_fragment` |
| `TakeUnprocessed`, `TakeApp` | `dtls1_process_buffered_record`, `dtls1_retrieve_buffered_rcontent` |
| `ReadCcs`, `Finish` | `ssl3_read_change_cipher_spec`, `ssl3_get_*_finished` |
| `UnexpectedHandshake` | `dtls1_read_handshake_unexpected`, which answers a repeated Finished |
| `Timeout` (`CheckedRetransmit`) | `dtls1_handle_timeout` |
| `Lose`, and `copy` and `i` of `Receive` | the network |

A handshake message is its type; a Finished carries the transcript it was
computed over in place of its digest, so that verifying it compares transcripts.
A datagram carries one record: retransmissions are sent so (each message is
flushed, `d1_both.c:1061`), and flights larger than the MTU. A timer runs
out on its own when nothing is under way, the shorter of two first (both double
from one second); anything else is an early timeout and counts as a fault.

### SessionCache

`table` are the nodes of the hash table, each with the id it was filed under;
`list` is the doubly linked list with the code's end markers; `obj` are the
session objects with their `references`; `hold` are the variables of the threads
that own a reference. `pc` and `then` say in which function a thread is and where
it returns to: `SSL_CTX_add_session`, `SSL_CTX_remove_session` and
`SSL_CTX_flush_sessions` are called from several places. A critical section of
`CRYPTO_LOCK_SSL_CTX` without a loop is one action; eviction and the walk of a
flush hold `lock` over several.

| Action | Code |
|---|---|
| `FromCache`, `FromCallback`, `Resume`, `TooOld`, `Drop`, `New` | `ssl_get_prev_session` with its two sources, `ssl_get_new_session` |
| `Connect`, `ConnectWith`, `Save`, `Forget` | a client with and without `SSL_set_session`; `SSL_get1_session` |
| `FinishResumed`, `FinishNew`, `Notify` | `ssl_update_cache` and its callback |
| `Fail`, `Close` | a fatal alert or `ssl_clear_bad_session`; `SSL_free` |
| `AddReference`, `Insert`, `Replace`, `InsertAgain`, `Evict`, `Added` | `SSL_CTX_add_session` |
| `Unlink`, `NotThere`, `Removed` | `remove_session_lock` with the lock, and after it |
| `StartFlush`, `FlushOne`, `KeepOne`, `Flushed` | `SSL_CTX_flush_sessions`, `timeout_doall_arg` |

## 3. Runs

| Run | Instance | States | Shows |
|---|---|---|---|
| `MCBuildOrder` | every `depends_on` over 3 names of which one may be unregistered, disabled sets, 3 configured orders, all requests | 1.3 M | selection properties, refinement, termination; the assumptions of `ShippedRegistry` |
| `MCPatchManager` | 2 revisions (symmetric), all patches and habits | 14 k | the guard, the marker, retries |
| `MCAutotoolsBuilder` | 2 versions of a compiler, 2 architectures, Makefile and 1 object | 0.4 M | the stamp, uniform builds, separate architectures |
| `MCWindows` | Release and Debug of zlib (CMake), harfbuzz (Meson, needs zlib), libvpx (MSYS2), each archive with the Debug runtime, the Release runtime or the latter hidden in `/GL` objects, reads and `dumpbin` that fail, complete and partial requests | 2.1 M | dependencies in place, fresh runs validated, the test lacks what was purged and nothing else |
| `MCCefBuild` | one version, five command lines on Apple Silicon: Release, forced Debug with archive, forced x86_64, both architectures with archive, sync only | 4.5 M | forced builds are installed whole, merges are local, consent comes first |
| `MCDtls` | full handshake, with a ticket, behind `DTLSv1_listen`; server data; two faults | 160 k | faults are tolerated, transcripts agree, keys change in order, data once, completion |
| `MCSessionCache` | 2 threads (one also a client), 3 objects, 3 ids, limits 1 and 3, external cache, an application that adds sessions | 3.4 M | exact counts, table and list, the limit, removal |

Five runs end in a violation. Each checks one sentence of the repository that
the code does not keep:

| Run | Sentence | What happens |
|---|---|---|
| `MCPatchDrift` | `cmake_builder.py:100`: "Guard against silent drift" | the marker is looked at first, so a submodule that moved after the first build is compiled without the guard |
| `MCDebugTest` | `build.py:393`: the test is run "once everything is present" | a Debug run purges `vpxmt.lib` / `vpxmd.lib` (`msys2_builder.py:302`), which `CMakeLists.txt:260-267` links in Debug too |
| `MCRebuild` | `macos.py:85-88`: all archives are validated, new files once | after the first library of a run over a used directory the old archives are in the cache, and their replacements are not looked at |
| `MCDtlsResumed` | `ssl_pkt.c:760`: a ChangeCipherSpec that comes while messages are missing is dropped | the check before it alerts when there is no cipher yet: in a resumed handshake a lost or late ServerHello is fatal |
| `MCSessionRenewal` | man page of `SSL_CTX_sess_set_cache_size`: a cache above its size drops sessions | a client that gets a new ticket for a resumed session changes its id in place; the table cannot find it any more and eviction stops |

Disagreements that have no run of their own:

* Two `--macos-sdk` values share one autotools build directory, whose name has no
  tag: objects made for one are up to date for the next and installed under its
  tag (`OutputKeepsTag` of `AutotoolsBuilder` states the opposite, as
  `config.py:94` does).
* The scan for `/GL` objects has a false negative where `windows.py:359` says that
  none is possible: it takes a file it cannot read for one without them, "let
  dumpbin report the real error downstream" (`windows.py:366`), and if that file is a
  `/GL` archive which can be read again by then, dumpbin reports nothing, and the
  archive is validated without a word. `FreshRunIsValidated` therefore leaves
  `unscanned` out, next to `warned`.
* `locate_distribution` finds the newest folder, not "the freshly produced" one
  (`build_cef.py:568`): after an interrupted build, a run that is not forced
  takes the torn folder for its result (`LocatedIsFresh` of `CefBuild`).
* DTLS, with the other instances of `MCDtls`: with a client certificate, a
  ChangeCipherSpec that overtakes the CertificateVerify is taken
  (`ssl_srvr.c:604`; `CertModes` violates `CcsInOrder`); with the cookie exchange in
  `SSL_accept`, a lost HelloVerifyRequest is never sent again and the
  retransmitted ClientHello is not taken (`CookieModes` violates
  `HandshakeCompletes`); a retransmitted message of the server that reaches a client
  after it has completed is answered with a fatal alert
  (`d1_pkt.c:695`, `StaleIsHarmless`).

`ForcedBuildIsInstalled` is therefore stated for forced builds: those of
`--force-build`, and the second architecture of `--arch both`.

Smaller ones: the environment of `--arch both` is made
from the first architecture alone (`build_cef.py:680`), while the comment at
440-447 says the other one must be enabled for automate-git to get through; a
failed `git apply --check` counts as success also for a conflict
(`cmake_builder.py:134-137`), so `CompiledPatched` is stated for patches that
fit; a forced checkout leaves the marker behind,
so `MarkerMeansApplied` is stated without it; `--library X` for an `X` that is
disabled builds its dependencies and reports success (`config.py:475`, latent:
in the shipped registry no disabled library needs an enabled one, which is the
condition of `RequestIsPlanned`); a cycle met by
`collect_deps` ends in a `RecursionError` and not in the message of
`config.py:430` (`RecursionErrorOnlyIfCyclic` says that nothing else does);
`--clean` is "for current configuration" (`build.py:99`) and empties the output
directories of all of them (`CleanFile`).

Why the bounds are enough. The recursions of `BuildOrder` look at one edge at a
time: three names give self-loops, two- and three-cycles, diamonds with
a disabled or unregistered corner, and a configured order that is right, wrong or
partial; `RecursionLimit = 5` is deeper than any acyclic graph over them. A patch
meets its own revision and one other. Two compilers and two architectures
are enough for one build to meet the leftovers of another; with the
Makefile and one object a wipe has an order. Three libraries give a
dependency, an unrelated library whose fix-up works on the same directory, and
a partial request. For CEF, five command lines are one for each way two runs can
meet in the same folder or checkout: the same folder with another build type,
another architecture, both, none. Which version it is never decides a step but by
being the same or another one, and `LoseDownloadDir` and torn syncs give "another".
No counter is bounded in these: their state spaces are finite because
runs repeat over the same files.

`MCWindows` has one bound of its own, the action constraint `OneDirectory`: each
configuration has an output directory of its own and a process works in one
(`config.py:112`), so the histories of the Release and of the Debug directory are
explored side by side and not interleaved. The purge and the names of the archives
differ between the two; the test links the same name in both, as the shipped
`CMakeLists.txt` does.

A DTLS run is bounded by `MaxFaults`: losses, duplicates, datagrams taken before
older ones and early timeouts together. Two faults let one of them hit the
retransmission that repairs the other, and let a stale flight meet a new one;
each wrong variant of the code in the module is found with at most two. The replay window
(64) and the limit on timeouts (12) are the code's and out of reach. Resumed
sessions are left to `MCDtlsResumed`, whose instance has no tickets. Two threads
meet in every pair of critical sections of the session cache; three objects are
one in the cache, one being added and one being removed; a limit of one makes
each addition evict, and a limit of three none. Objects and ids are only
compared, so the run takes them as symmetric.

Deadlock is checked except in `MCBuildOrder`, where the call ends (in
`Dtls`, `Over` says when nothing has to happen any more).

Fairness. `Terminates` uses `FairSpec` of `BuildOrder`, with `WF_vars(Next)`. `build.py`
is one sequential process that takes its next step unless it is killed, which is
what weak fairness of the whole next-state relation says, and no more.
`HandshakeCompletes` uses the fairness of `Dtls`: weak fairness of each endpoint's
own steps (an application that calls `SSL_connect`, `SSL_accept` or `SSL_read` in a
loop), of reception (a datagram that is not lost arrives), and of the timer (the
application calls `DTLSv1_handle_timeout` or reads when it is due). Nothing is
assumed of `Lose`; that losses are finitely many is `MaxFaults`.

## 4. Proofs

All theorems hold for every value of the constants under the named assumptions
of the modules (values that stand for "none" are no ordinary values; requests
list no library twice).

`BuildOrder_proofs`: `TypeCorrect`, `PlanIsClosed`, `PlanIsComplete`,
`CyclesAreCaught`, `Refinement`, `PlanIsMinimal`, `RequestsArePlanned`,
`RecursionErrorMeansCycle`, `BaseOrderIsRespected`, `ListedOrderIsKept`,
`PlanIsProperList`.
`CycleVerdict` is not inductive: that `visit`
raises only on a cycle needs the shape of the stack. `IInv` says that each call
was made for the dependency its caller is at (`Chained`), that `temp_mark` is the
set of libraries on the stack, each once (`MarksInv`), that what a call has
passed is visited (`VisitInv`) and what is visited is ordered after its
dependencies (`OrderedInv`), that no enabled name is lost (`CoverInv`), and the same of the
collection and the filter (`CollectInv`, `FilterInv`). A marked dependency is
then on the stack below, and the chain from there is a cycle. That a complete
order means no cycle follows from the positions of `ordered`. `Refinement`
uses `IInv` to show that each `VisitReturn` is an `Emit` and every other
step stutters.

On `IInv` rest three more layers.

* Requests (`RequestInv`): what `collect_deps` has collected is reachable from the
  library asked for. `Reach` is the intersection of all closed sets; `ReachFacts`
  shows that it is closed itself, which is all that `PlanIsMinimal` needs.
  `RequestIsPlanned` is about registries in which no library that is disabled needs
  an enabled one (`DisabledNeedNothing`): nothing is then reachable from a disabled
  request, and the empty list is reported. The shipped registry is such
  (`ShippedDisabledNeedNothing`); without it the plan can miss the request, see
  section 3.
* Depth. `RecursionErrorMeansCycle` assumes that the stack is deeper than the
  number of enabled libraries, which are finitely many. More pending calls than
  libraries repeat one (`DeepIsCyclic`, with the pigeonhole theorem of the
  library), and the calls between the two are a cycle.
* Order. `LoopInv` says where the outer loop is: what it is through with is
  visited, and all that is being visited is reachable from the name it took last.
  `RankInv` keeps that for each library in the order: it came in the turn of some
  name that reaches it, when all names with an earlier turn were there already
  (`InTurn`), and none comes twice. `BaseOrderIsRespected` and `PlanIsProperList`
  follow; the latter is the assumption `RequestsAssumption` of `BuildRun`.
  `ListedOrderIsKept` is about registries that list dependencies first
  (`ListsDependenciesFirst`; that the shipped one does is the assumption
  `ShippedListsDependenciesFirst`): all that a name reaches is then listed before it
  (`ReachIsListedBefore`), so a library that comes in the turn of another one is
  listed before that one anyway, and the sort moves nothing.

`PatchManager_proofs`: `TypeCorrect`, `GuardHolds`, `MarkerIsSound`,
`RetryCompilesThePatch`, from `CallInv` (between the guard and the end of a call
the tree is as the guard and `git apply --check` saw it) and `WholeInv` (in an
undisturbed tree the patch is there as a whole or not at all).

`AutotoolsBuilder_proofs`: `TypeCorrect`, `BuildDirsKeepArch` (from
`OwnDirectory`: what lies in a directory was made for it), `StampIsSound` and
`MakeIsUniform` (from `ToolInv`: the stamp vouches for the files; between the
comparison and the new stamp, when there is none to rely on, the comparison does).

`BuildRun_proofs`: `TypeCorrect`, `DependenciesAreInPlace` and
`TestLacksOnlyThePurged` (from `InPlaceInv`: what the libraries the loop is through
with leave behind is in `lib/`, and the purge takes only what no library leaves; and
from `PurgedInv`: once an MSYS2 library of a Debug run is through, the Release twins are
gone, and only the fix-up of another one brings them back, which purges them
again), and `FreshRunsAreValidated` (from `FreshInv`: in a run on an empty directory
all files come from the libraries built so far, a validated archive is not written
again, and only the current library has files that are not validated).
`TestLacksOnlyThePurged` assumes `OwnTwins` (only MSYS2 libraries install the twins)
and `TestLinksWhatIsInstalled` (a complete build installs all the test links), both
true of the shipped build. `FreshRunsAreValidated` assumes `OwnFiles` (no two
libraries install the same archive) and `AllValidated` (the platform validates what
each library's builder makes: on Windows no shipped library is built with autotools,
on macOS none with MSYS2), and has the two exceptions of the property: archives the
tool gave no answer for, and `/GL` archives whose read failed.

`CefBuild_proofs`: `TypeCorrect`, `MergeIsLocal` (from `TodoIsOfDist`: what is
still to be copied is part of the distribution located, and the checkout does
not move during an installation), `Consent` (from `Agreed`: past the prompt
somebody has agreed, whatever the directory holds) and `ForcedInstallation`. Its
`InstallInv` follows a forced build from automate-git.py to the message: the
distribution made is the newest, hence the one located; each entry of it is
still to be copied or new in the folder; and the folder of the first of two
architectures, which is another one, stays as it is while the second is installed.

`SessionCache_proofs`: `TypesHold`, `ReferencesExact`, `LockExcludes`,
`ListAndTableAgree` and `LimitIsKept`, for any
number of threads, sessions and ids, any limit, and without renewed tickets
(`~Renewals`): a renewal files a session under an id it no longer has, and
`MCSessionRenewal` shows what follows. The counts alone are not inductive. `Core`
adds that a node of the table is filed under the id its session has and no two
under one id, so that each removal takes out the session it frees; `Control(t)`
says which variables of a thread are empty at each place (a call overwrites none
that owns a reference), that the session to be added has an id, that a thread is in eviction
or in a walk exactly when it holds the lock, and that what the walk has yet to
visit is still in the table. The lemmas `TakeCore`, `FreeCore`, `MoveCore` ... say
once what each way of passing a reference on does to the counts; `HeldKeepsId`
and `OthersKeep` that a step of one thread leaves what the others rely on.

For the list, `Listed` replaces the walk along the pointers, which is recursive, by
a row `q[1] .. q[n]` of distinct sessions, linked both ways between the two end markers, whose
members are the sessions of the table. `WithoutIs` and `WithIs` say what unlinking one
and linking one at the head do to a row, `ListedMatches` that
the row is what `ListMatchesTable` walks along. They need that the addresses of
the end markers, inside the `SSL_CTX`, are no session's
(`SessionCacheAssumption`). `Limited` explains the limit: while the cache is
above it, some thread is in its eviction loop, and the last of the row, which the
loop takes, is in the table under its id, so that it can be removed. A renewed
ticket breaks the latter, which is `MCSessionRenewal`.

`RemovedIsOut` is the property `RemovedStaysOut`, under the same assumption. The
invariant `RInv` adds `Private`: a session that a thread is about to add, or has
from a handshake that resumed none, is held by that thread alone, was never in the
cache and bears no mark. So nobody else can remove it first (`Distant`), and what
is inserted is never what was taken out; a thread that has unlinked a session
(`removed`) marks one that is no longer cached.

`Dtls_proofs`: `TypesHold`, `TranscriptsHold`, `EpochsHold`, `TimersHold`,
`ReadOnceHolds` for every kind of handshake in `ModeSpace` (the run explores
three), any replay window, any limit on timeouts and any number of faults;
`CcsHolds` and `OnlyTimeoutsHolds` for those kinds of which they are true.
`HandshakeInv` is the invariant. None of the properties is inductive: why a
datagram cannot do harm depends on what its writer was doing when it wrote it.
The argument is that a handshake of one kind is one conversation.

* What is written. Each message type has, in its direction, one sequence number
  (`Number`) and a Finished one transcript (`FinDigest`); `Good` says that a
  record carries these, and is protected exactly when it must be. All that is on
  its way, buffered or kept for retransmission is good.
* Where an endpoint is. Each state of the state machine has one next sequence number in
  each direction (`Numbers`), one transcript (`Transcript`) and one pair of epochs
  (`Epochs`), and a timer where it waits (`Timers`). As types and numbers
  are one to one, the message with the number a reader waits for is the message
  it waits for, and the transcripts of both sides grow along the same list.
* What the ends know of each other. That the client has passed its
  ServerHello means that the server has sent one, and that an endpoint
  reads under the new keys that its peer has sent a Finished (`Peers`,
  `Reached`). Both facts are never undone (`Onward`), so a step of one endpoint
  leaves what the other relies on.
* `ReadOnce`: what has been read, or waits in the queue of a handshake that is
  about to end, is no longer `Unseen` in the replay window, also after the window of the
  next epoch has become the current one.

A handler maps an SSL object to an SSL object: most lemmas are about one object, its peer
and the object the handler makes of it (`Core` and `Placed`; the second
is what an endpoint that has failed gives up). `Next` is taken apart only at the
end. Lemmas per operator (`PutIs`, `WriteIs`, `FlightIs` ...) say once what it
does to each field.

`CcsHolds` assumes that no handshake has a client certificate, and none of a
resumed session a ticket: with the first a ChangeCipherSpec may overtake the
CertificateVerify (section 3), with the second the NewSessionTicket; TLC has
counterexamples for both. `OnlyTimeoutsHolds` (before it has completed, an
endpoint fails only after its own timeouts or because its peer has failed) assumes a
full handshake without a client certificate, for the reasons that
`MCDtlsResumed` and the CertificateVerify show. It is what can be said of
`LossIsTolerated` without a bound on the faults: with more of them than
`TmoAlertCount` an endpoint does give up.

`DtlsTolerance_proofs`: `FewFaultsAreTolerated`, which is `LossIsTolerated` under two
assumptions. The handshakes are full, without a client certificate and without a
cookie demanded by `SSL_accept`: of each other kind TLC finds one that a single
fault breaks. And `2 * MaxFaults + 1 <= TmoAlertCount`: with the 12 of the code
(`DTLS1_TMO_ALERT_COUNT`) five faults, where the run explores two. The bound is
enough, not sharp: TLC finds no violation with two faults and a limit of 3.

That no message is fatal rests on the invariant `IInv` of `Dtls_proofs`, as
`OnlyTimeoutsHolds` does; what is left to show is that no timer runs out more often than
`TmoAlertCount`. `TInv` is `IInv` and, until the client has completed, `Tolerated`:

* `Quiet`, `Clocks`, `Flights` and `Stages` say what each endpoint keeps for
  retransmission and waits for, and how far the one can be when the other has come so
  far.
* `Link` is about record numbers. They only grow, so what is on its way is
  ordered by them, and what is sent next is newer than all that the reader has
  seen: the replay window drops nothing the reader waits for (`NewSent`).
  `Opening` replaces it until the server is through with cookies, when its records
  bear the numbers of the requests.
* `Budget` counts. `Hoped` bounds the timeouts of whoever waits by twice the
  faults plus the hope there is: 2 when only a fault can keep the next flight
  away, 1 when what makes the peer send it is on its way, 0 when
  another timeout has to ask for it. A fault adds 2 and may destroy all
  hope (`Faulty`); reading in order carries hope on (`ComingNext`); a timeout without
  a fault finds the network empty, so it spends one and restores one.
* The completed server counts each Finished it answers as a timeout
  (`dtls1_read_handshake_unexpected`). `Paid` says that it has answered fewer than
  are `Gone` for good, and each of those is one try of the client.

Model-checked only:

* `Terminates` and `HandshakeCompletes` are liveness properties.
* That the shipped registry meets the conditions of `ListedOrderIsKept` and
  `RequestsArePlanned`: TLC computes it from the data of `ShippedRegistry`.

## 5. Not modelled, and why

* Compiler and linker flags, `cmake`, `meson` and `configure` arguments: data the
  builders pass on; nothing in the scripts depends on them later.
* Finding `dumpbin`, the MSVC environment, MSYS2's bash: queries of the host.
* `revert_patch`: nothing calls it.
* Two `build.py` processes at a time: nothing in the repository supports it.
* Option merging, the post-build assertions, `tools_check` and `check_releases.py`:
  functions without state over YAML data, version tuples and tags; nothing reads what
  `check_releases.py` reports. (Its `DEV_MINOR_RE` matches a 9x in any component of
  a tag, its comment says the last one.)
* Three properties that no run checks stay in the modules because section 3
  speaks of them: `OutputKeepsTag`, `LocatedIsFresh` and `StaleIsHarmless`. A fourth,
  `ListedOrderHolds`, is proved.
* DTLS: fragments of one message (a message is one record), renegotiation, alerts
  that are not fatal, MTU discovery, failing writes of the socket, and errors in
  what the messages say.
* Session cache: sessions decrypted from tickets (a server never caches them),
  `SSL_CTX_set_session_cache_mode`, which switches steps off, TLS 1.3's duplicates,
  failing allocations, `SSL_CTX_flush_sessions(ctx, 0)`, and `SSL_CTX_free`.
* The rest of LibreSSL: cryptography, ASN.1, certificates, TLS 1.3, BIOs and the
  applications are computations over data, or protocols of their own. The other
  submodules are not part of the repository's files.
* Command-line parsing, listing, messages.

## 6. What is left

1. Proofs: the sharp bound on the faults a handshake of `Dtls` survives, which
   `FewFaultsAreTolerated` bounds from below.
2. Fragmentation in `Dtls`, which would split `Consume` in two.
3. The BIO pair (`crypto/bio/bss_bio.c`) as the network below two SSL objects.
