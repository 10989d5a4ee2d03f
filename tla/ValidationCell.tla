--------------------------- MODULE ValidationCell ---------------------------
(***************************************************************************)
(* The artifact tree of one Linux validation cell, and the operations that *)
(* containers/container-entrypoint.sh performs on it: build-validation,    *)
(* test, build-benchmarks and run-benchmarks.  Each is a shell script of   *)
(* several steps under `set -e`; the tree outlives it.  Between any two    *)
(* steps the developer may edit the source, which is mounted into the      *)
(* container, and the container may be killed, when the matrix run that    *)
(* started it is cancelled for instance.                                   *)
(*                                                                         *)
(* What a later operation may rely on is written in a manifest: the digest *)
(* of the source, the hash of the CMake cache, and an inventory with the   *)
(* hash of every test executable.                                          *)
(***************************************************************************)
EXTENDS Naturals

CONSTANTS
  Contents,     (* What the source tree may contain.                        *)
  Caches,       (* What CMakeCache.txt may contain.                         *)
  Configured(_, _), (* The cache that CMake makes of a source and of the    *)
                (* cache it finds, whose values it keeps.                   *)
  Nothing,      (* What has never been built or computed.                   *)
  MainTests,    (* Test executables of the main build.                      *)
  Consumers,    (* Those of the external consumer; {} if the cell has none. *)
  MayRevert,    (* Whether an edit may restore an earlier content.          *)
  MaxCrashes    (* Bound on the crashes of one behaviour.                   *)

ASSUME ValidationCellAssumption ==
  /\ Contents # {} /\ Nothing \notin Contents \cup Caches
  /\ \A s \in Contents : \A c \in Caches \cup {Nothing} :
       Configured(s, c) \in Caches /\ Configured(s, Configured(s, c)) = Configured(s, c)
  /\ MainTests # {} /\ MainTests \cap Consumers = {}
  /\ MayRevert \in BOOLEAN /\ MaxCrashes \in Nat

Tests == MainTests \cup Consumers

VARIABLES
  source,      (* the content of the source tree                            *)
  past,        (* the contents it has had                                   *)
  cache,       (* CMakeCache.txt of the build tree                          *)
  binary,      (* the source every test executable was built from           *)
  benchmarks,  (* the source the benchmark executable was built from        *)
  inventory,   (* the executables recorded before the manifest is written   *)
  manifest,    (* validation-build.manifest, or none                        *)
  benchmark_manifest, (* benchmark-build.manifest, or none                  *)
  crashes,     (* crashes so far                                            *)
  stage,       (* the step of the operation that is running, or "idle"      *)
  source_digest, (* its local variable of that name                         *)
  unbuilt      (* the executables its cmake --build has still to look at    *)

tree == <<cache, binary, benchmarks>>
records == <<inventory, manifest, benchmark_manifest>>
world == <<source, past, crashes>>
validation_vars == <<world, tree, records, stage, source_digest, unbuilt>>

ValidationInit ==
  /\ source \in Contents /\ past = {source}
  /\ cache = Nothing
  /\ binary = [t \in Tests |-> Nothing]
  /\ benchmarks = Nothing
  /\ inventory = [t \in Tests |-> Nothing]
  /\ manifest = {} /\ benchmark_manifest = {}
  /\ crashes = 0 /\ stage = "idle" /\ source_digest = Nothing /\ unbuilt = {}

\* A manifest is the empty set or the singleton of its record.  A shell step that
\* fails ends the script.
Goto(step) == stage' = step
Fail == stage' = "idle" /\ source_digest' = Nothing /\ unbuilt' = {}

-----------------------------------------------------------------------------
(***************************************************************************)
(* build-validation                                                        *)
(***************************************************************************)

\* Mutant: the manifest of the last build stays until it is replaced.
ManifestKept == UNCHANGED manifest

RemoveManifest == manifest' = {}

BuildStart ==
  /\ stage = "idle"
  /\ RemoveManifest
  /\ Goto("digest")
  /\ UNCHANGED <<world, tree, inventory, benchmark_manifest, source_digest, unbuilt>>

\* Mutant: the script never assigns source_digest.
DigestForgotten == UNCHANGED source_digest

TakeDigest == source_digest' = source

BuildDigest ==
  /\ stage = "digest"
  /\ TakeDigest
  /\ Goto("configure")
  /\ UNCHANGED <<world, tree, records, unbuilt>>

\* configure_main_project.  Without --fresh, which only a CI run passes, CMake
\* starts from the cache it finds; one that fails may have written the new one.
Configure ==
  /\ stage = "configure"
  /\ \/ /\ cache' = Configured(source, cache)
        /\ unbuilt' = MainTests
        /\ Goto("compile")
        /\ UNCHANGED <<source_digest, binary, benchmarks>>
     \/ cache' \in {cache, Configured(source, cache)} /\ Fail /\ UNCHANGED <<binary, benchmarks>>
  /\ UNCHANGED <<world, records>>

\* cmake --build looks at the executables one after the other, and rebuilds one
\* that is not up to date from what the source contains by then.
Compile ==
  /\ stage \in {"compile", "consumer"} /\ unbuilt # {}
  /\ \/ /\ \E t \in unbuilt :
             /\ binary' = [binary EXCEPT ![t] = source]
             /\ unbuilt' = unbuilt \ {t}
        /\ UNCHANGED <<stage, source_digest>>
     \/ Fail /\ UNCHANGED binary
  /\ UNCHANGED <<world, cache, benchmarks, records>>

MainBuilt ==
  /\ stage = "compile" /\ unbuilt = {}
  /\ unbuilt' = Consumers
  /\ Goto("consumer")
  /\ UNCHANGED <<world, tree, records, source_digest>>

\* record_test_inventory, write_codegen_record_index and audit_validation_inventory.
RecordInventories ==
  /\ stage = "consumer" /\ unbuilt = {}
  /\ \/ inventory' = binary /\ Goto("manifest") /\ UNCHANGED <<source_digest, unbuilt>>
     \/ /\ \E recorded \in {{}, MainTests, Tests} :
             inventory' = [t \in Tests |-> IF t \in recorded THEN binary[t] ELSE inventory[t]]
        /\ Fail
  /\ UNCHANGED <<world, tree, manifest, benchmark_manifest>>

\* Mutant: the manifest is given the digest of the source as it is by then.
DigestAtTheEnd == source

\* The third argument of write_completed_manifest, computed before the build began.
ManifestDigest == source_digest

\* write_completed_manifest writes a temporary file and renames it: a crash leaves
\* the manifest or none.
WriteManifest ==
  /\ stage = "manifest"
  /\ manifest' = {[source_digest |-> ManifestDigest, cmake_cache |-> cache,
                   test_inventory |-> inventory]}
  /\ Fail
  /\ UNCHANGED <<world, tree, inventory, benchmark_manifest>>

-----------------------------------------------------------------------------
(***************************************************************************)
(* test                                                                    *)
(***************************************************************************)

\* validate_validation_manifest, and validate_test_inventory: the manifest is for
\* this source, cache and inventory, and every executable is as recorded.
Validated(m) ==
  /\ m.source_digest = source
  /\ m.cmake_cache = cache
  /\ m.test_inventory = inventory
  /\ binary = inventory

MayTest == \E m \in manifest : Validated(m)

\* The tests run as soon as the validation has passed; what ctest finds changes
\* nothing the manifest is about.  The cmake -P scripts that ctest reads from the
\* source tree are validated by nothing, and are left out.
Test ==
  /\ stage = "idle" /\ MayTest
  /\ Goto("testing")
  /\ source_digest' = source
  /\ UNCHANGED <<world, tree, records, unbuilt>>

-----------------------------------------------------------------------------
(***************************************************************************)
(* build-benchmarks and run-benchmarks                                     *)
(***************************************************************************)
BenchmarkStart ==
  /\ stage = "idle"
  /\ benchmark_manifest' = {}
  /\ Goto("benchmark digest")
  /\ UNCHANGED <<world, tree, inventory, manifest, source_digest, unbuilt>>

BenchmarkDigest ==
  /\ stage = "benchmark digest"
  /\ source_digest' = source
  /\ Goto("benchmark reuse")
  /\ UNCHANGED <<world, tree, records, unbuilt>>

\* can_reuse_validation_configuration computes the source digest again.
CanReuse == \E m \in manifest : m.source_digest = source /\ m.cmake_cache = cache

BenchmarkReuse ==
  /\ stage = "benchmark reuse"
  /\ IF CanReuse THEN Goto("benchmark build") /\ UNCHANGED <<source_digest, unbuilt>> ELSE Fail
  /\ UNCHANGED <<world, tree, records>>

\* CMake first generates the tree again if an edit since then touched its inputs.
BenchmarkBuild ==
  /\ stage = "benchmark build"
  /\ cache' \in {cache, Configured(source, cache)}
  /\ \/ benchmarks' = source /\ Goto("benchmark manifest")
        /\ UNCHANGED <<source_digest, unbuilt>>
     \/ UNCHANGED benchmarks /\ Fail
  /\ UNCHANGED <<world, binary, records>>

WriteBenchmarkManifest ==
  /\ stage = "benchmark manifest"
  /\ benchmark_manifest' = {[source_digest |-> ManifestDigest, cmake_cache |-> cache]}
  /\ Fail
  /\ UNCHANGED <<world, tree, inventory, manifest>>

\* validate_benchmark_manifest, and the benchmarks that run at once.
RunBenchmarks ==
  /\ stage = "idle"
  /\ \E m \in benchmark_manifest : m.source_digest = source /\ m.cmake_cache = cache
  /\ Goto("benchmarking")
  /\ source_digest' = source
  /\ UNCHANGED <<world, tree, records, unbuilt>>

Finish ==
  /\ stage \in {"testing", "benchmarking"}
  /\ Fail
  /\ UNCHANGED <<world, tree, records>>

Operation ==
  \/ BuildStart \/ BuildDigest \/ Configure \/ Compile \/ MainBuilt \/ RecordInventories
  \/ WriteManifest \/ Test \/ BenchmarkStart \/ BenchmarkDigest \/ BenchmarkReuse
  \/ BenchmarkBuild \/ WriteBenchmarkManifest \/ RunBenchmarks \/ Finish

-----------------------------------------------------------------------------
(***************************************************************************)
(* The developer and the host                                              *)
(***************************************************************************)
Edit ==
  /\ source' \in Contents \ {source}
  /\ MayRevert \/ source' \notin past
  /\ past' = past \cup {source'}
  /\ UNCHANGED <<crashes, tree, records, stage, source_digest, unbuilt>>

Crash ==
  /\ stage # "idle" /\ crashes < MaxCrashes
  /\ crashes' = crashes + 1
  /\ Fail
  /\ UNCHANGED <<source, past, tree, records>>

ValidationNext == Operation \/ Edit \/ Crash

ValidationSpec == ValidationInit /\ [][ValidationNext]_validation_vars

-----------------------------------------------------------------------------
ValidationTypeOK ==
  LET Known == Contents \cup {Nothing} IN
  /\ source \in Contents /\ past \subseteq Contents /\ source \in past
  /\ cache \in Caches \cup {Nothing} /\ benchmarks \in Known
  /\ binary \in [Tests -> Known] /\ inventory \in [Tests -> Known]
  /\ manifest \subseteq [source_digest : Contents, cmake_cache : Caches,
                         test_inventory : [Tests -> Contents]]
  /\ benchmark_manifest \subseteq [source_digest : Contents, cmake_cache : Caches]
  /\ \A m, n \in manifest : m = n
  /\ \A m, n \in benchmark_manifest : m = n
  /\ crashes \in 0 .. MaxCrashes
  /\ source_digest \in Known
  /\ unbuilt \subseteq Tests

\* "Tests reject stale source inputs" (docs/ContainerValidation.md): the tests that
\* run were all built from the source that was there when they were admitted.
TestsRunCurrentSource ==
  stage = "testing" => \A t \in Tests : binary[t] = source_digest

\* The same of the benchmarks, which are built into the validated tree.
BenchmarksRunCurrentSource == stage = "benchmarking" => benchmarks = source_digest

\* No interrupted or failed build leaves a manifest behind that describes a tree
\* it has changed: the executables are those of the manifest and, as long as no
\* edit has made it stale, so is the configuration a benchmark build may renew.
ManifestDescribesTree ==
  \A m \in manifest :
    /\ m.test_inventory = inventory /\ inventory = binary
    /\ m.source_digest = source => m.cmake_cache = cache
=============================================================================
