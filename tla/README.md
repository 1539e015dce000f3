# TLA+ models of the Metro-MPI partitioner

Metro-MPI splits a Verilator simulation across MPI processes. The code is
under `src/src/`, and two algorithms in `V3Metro_MPI.h` decide everything:

1. **The hierarchy-duplication finder.** `HierCellsGraphVisitor` (lines 915–1282)
   walks the instance tree and computes subtree weights by DFS. It hashes every
   instance's type-path with Blake2b, and searches level by level (BFS) for the
   heaviest group of instances that share a hash. The group's module is the
   *partition*; its common parent is the *parent module*.
2. **The port/wire communication analyzer.** `PartitionPortAnalyzer`
   (lines 115–828) runs on the parent module and the partition instances:
   - **Phase 1** records every endpoint of every net: the parent's own ports,
     every instance pin, and the parent's "logic" on both sides of every
     continuous assignment. It also records assignment aliases.
   - **Phase 2** handles each partition port in turn. It resolves the port's net
     through the alias chain and migrates the port's endpoint to the resolved
     net. It then lists the valid partners on that net and classifies the port
     as NULL, P2P or broadcast.
   - **Phase 3** groups all partner relations into directed channels
     (sender rank, receiver rank) and renames duplicate remote names.

Everything downstream reads the analyzer's JSON report back:
- `V3MMPI_Include.h` (`MPICodeGenerator`) extracts one point-to-point link per
  connection from the report and emits a message struct per (sender rank,
  receiver rank) pair, plus send/receive functions. Its link extraction is
  modelled.
- `V3MMPI_Verilog.h` (`MPIFileGenerator`) produces the Verilog stub and one
  wrapper per partition instance, then rewrites the parent module's source so
  that each partition instance uses its wrapper. The rewrite is modelled.
- `V3EmitMpiMk.cpp` (`EmitMpiMk`) writes the Makefile that reruns verilator
  on the source files with the original flags. It is modelled, together with
  how make and the shell read the text it writes.

The finder hands `(partition module, parent hierarchy)` to
`findAndPrintPartitionPorts`. That function builds the analyzer on the parent
module and writes the JSON report the generators read.

## Inventory

| Part | State | Operations | Status |
|---|---|---|---|
| PartitionPortAnalyzer | `m_wireToEndpoints`, `m_wireAliasMap`, `m_partitionData`, `m_instanceToModulePtr`, `m_mpiRankMap` | constructor (rank map); Phase 1 (parent ports, `visit(AstAssignW/Assign/AssignDly/Cell)`); Phase 2 per port (Steps 2.1–2.3); Phase 3 (grouping, renaming) | modelled in `PortAnalyzer` (widths and the report text left out) |
| Report writer (`printReport`, `writeJsonReport`) | the report file | formatting | `writeJsonReport` modelled as `JsonOf` in `Pipeline` (the fields the generator reads); `printReport` not modelled |
| HierCellsGraphVisitor | `nodeMetadata`, `edges`, `adjacency`, `m_hier` | `visit(AstNodeModule/AstCell)`, `dfs`, `runBFSCheckDuplicateHashes`, `findAndPrintPartitionPorts` | modelled in `HierGraph`, refining `HierSelect`, with the partition's file collection (dot and adjacency dumps left out) |
| MPICodeGenerator | `communication_graph`, `processed_physical_links` | Phase 1 link extraction and deduplication; struct emission | modelled in `MpiLinks`, composed with the analyzer in `Pipeline`; member types and MPI datatypes from port widths included |
| MPIFileGenerator | the parent file's text | stub and wrappers (Parts 1–2), regex rewrite of the parent (Part 3) | Part 3 modelled in `ParentRewrite`; the stub and wrapper texts abstracted to each wrapper's `PARTITION_ID` |
| InstancePortPrinterVisitor, StringTable | `m_connectionMap`, `m_keyTable` | diagnostic printing | not modelled: nothing in this repository constructs it, and it only prints |
| EmitMpiMk | the Makefile text, `source_file_set`, `flags_for_makefile` | `emit` | modelled in `EmitMpiMk` (fixed comment and rule lines abstracted) |
| Blake2b | none | hash | partly: the hex encoding is `Blake2bHex` in `HierGraph`; the libsodium digest is the constant operator `Digest`, an injective table in `MC_HierGraph` |

The code is single-threaded, so nothing runs concurrently. What makes it hard is
the order of a sequential pass. Partition ports are processed in `std::map` order
of the instance names, and each one mutates the shared endpoint map (the Step 2.1
migration) that later ports read. The alias map keeps only the last assignment to
each net. Phase 3 renames names that are also read and written by other
relations.

## Modules

### `PortAnalyzer.tla`: the analyzer

- **Constants:**
  - `SortedPartitions` is the partition names in sort order. The constructor's
    `std::sort` has already run.
  - `Others` are the ordinary instances.
  - `Nets` are the canonical net names.
  - `CONSTEXPR` and `OTHEREXPR` are a pin on a constant and a pin on an
    unhandled expression.
  - `Designs` is the set of parent-module bodies to analyze.
- **Design record:**
  - the partition module's port declarations, as (name, direction keyword);
  - the pins of each partition instance;
  - the ports and pins of the ordinary instances;
  - the parent's IO ports;
  - the body, as a sequence of `Cell`, `AssignW`, `Assign` and `AssignDly`
    items in visitor order.
- **Names are token sequences.** `"logic_" + p` and `remote + "_" + local` are
  sequence concatenations, so the model's names collide exactly when the
  code's strings do.
- **Direction keywords are character sequences.** `find` is a
  contiguous-subsequence test (`SubSeqs`).

Variables and actions follow `analyze()` one step at a time:

| Action | Code |
|---|---|
| `GatherParentPorts` | Phase 1 `foreach(AstVar)` over IO vars (568–577) |
| `VisitAssignW` | `visit(AstAssignW*)`: alias and two logic endpoints (255–271) |
| `VisitProcAssign` | `visit(AstAssign*)`, `visit(AstAssignDly*)`: alias only (278–293) |
| `VisitCell` | `visit(AstCell*)`: module map, endpoints, partition `Port` records (301–397) |
| `ProcessPort` | one iteration of the Phase 2 loop body, Steps 2.1–2.3 (585–681) |
| `NextPartition`, `PortsDone`, `GatherDone` | the loop structure of `analyze()` |
| `BuildLinks` | building `comm_links` (684–700) |
| `RenameLink` | one iteration over a channel (702–718) |
| `Finish` | `analyze()` returns |

The helpers are named after the code they translate:
- `ResolveWireChain` is recursive, like `resolveWireChain`.
- `GetPortDirection` follows the four cases of `getPortDirection`.
- `FindVar` is `findVarInModule`.
- `IsValidConnection` follows the if/else chain of Step 2.2.

`PROJECT.json` `map` gives the lines for every definition.

`MC_PortAnalyzer.tla` instantiates the module:
- two partitions `p1`, `p2`, each with ports `i` and `o`;
- one ordinary instance `q` with a port `d`;
- three nets `<<a>>`, `<<b>>`, `<<c>>` over model values, which makes the
  permutations of `{a, b, c}` a sound symmetry;
- bodies made of the three cells followed by assignments. Each net is assigned
  at most once (see "Not modelled").

### `HierSelect.tla` and `HierGraph.tla`: the finder

`HierSelect` is the abstract contract of spec §4.1, with two variables:
- `tree` is the elaborated instance tree: instance path ↦ module.
- `result` goes from pending to a report in one step.

The allowed reports are:
- the shallowest level that has two instances with the same type-path;
- at that level, a group of same-type-path instances with the largest sum of
  leaf-count weights, with any such group allowed on a tie;
- the group is reported with its module, its members and the parent they
  share;
- "none" when there is no duplicate.

A winner whose members do not share a parent has no correct report.

`HierGraph` follows the code:

| Action | Code |
|---|---|
| `Init` | constructor and `visit(AstNodeModule*)`: the `"$root"` node, `m_hier = "$root"` (1020–1028, 985–990) |
| `VisitCell` / `LeaveCell` | `visit(AstCell*)`: the `ModNode`, `nodeMetadata`, `adjacency`, the descent and the restore of `m_hier` (993–1016) |
| `RunDFS` | `runDFS` with the recursive `dfs` (`DfsWeight`) (967–983, 1094–1097) |
| `BfsNextLevel` / `BfsFound` / `BfsNone` | one iteration of the `while` loop of `runBFSCheckDuplicateHashes`, by outcome (1030–1091) |
| `MkdirFails` / `LookupParent` | `findAndPrintPartitionPorts` up to the analyzer call (1121–1170), with `collectPartitionFiles` (`CollectPartitionFiles`, 954–966) |

Other modelling choices:
- **Recursion.** The visitor's recursion is an explicit stack of frames
  `[hier, modHier, rest]`.
- **Hashes.** A hash is `Blake2bHex` of the type-path (`V3Blake2b.h`):
  the digest bytes in hex, two zero-filled digits per byte (`HexByte`). The
  libsodium digest is the constant operator `Digest`. `MC_HierGraph` gives it
  as an injective table of two-byte digests (the code's 16 bytes have the same
  shape), since spec §9 assumes no collisions. The table gives `$root.A` and
  `$root.B` the digests 01 23 and 12 03, which read the same if a byte loses
  its leading zero. The frames keep the type-path itself (`modHier`), as the
  code keeps `m_hierWRTModuleName`.
- **Ties.** The tie among equally heavy groups is a nondeterministic choice:
  `unordered_map` order is unspecified, and spec §9 accepts any tied group.
- **The designs.**
  - `MC_HierGraph.tla` enumerates 840 designs.
  - The modules are T, A, B and C. A module instantiates only later ones, so
    every design is a finite tree.
  - T has up to 3 cells, and A and B up to 2.
  - A design whose T has one cell is the design after `wrapTop`.
- **The tree field.** Each design carries its elaborated tree (`ElabTreeOf`),
  which the refinement mapping uses.
- **Source files.** Each design also maps every module to its source file.
  A and B share `ab.v`, so the file set must merge them.

### `MpiLinks.tla` and `Pipeline.tla`: the generator and the pass

`MpiLinks` models `MPICodeGenerator::generateMpiVerificationFile`
(`V3MMPI_Include.h` lines 66–256). A report is a sequence of
`<<partition, ports>>` in nlohmann's sorted key order. Each port is a record
with the fields the code reads (`port_name`, `direction`, `active`, `Comm`,
`mpi_rank`, `width`, and the partners' `instance`, `port` and `mpi_rank`).

| Code | Model |
|---|---|
| `communication_graph`, `processed_physical_links` | `graph`, `processed` |
| the three nested loops | `Items`, cursor `k`: one step per partner of a port |
| open/parse failure (lines 68–81) | `LoadFails` |
| port filter (90–91), `#ifdef EXCLUDE_RANK_ZERO` (96–98) | `SkipItem` |
| `processed_physical_links.count` (112) | `SkipProcessed` |
| key insert, direction branch, `push_back` (112–137) | `RecordLink`, `PhysicalKey`, `NewLink` |
| `getCppType`, `getMpiType` (44–62) | `CppType`, `MpiType` |
| struct emission (143–254) | `EmitStructs`: member names and types per rank pair (`structs`), the datatypes of `initialize_mpi_types` (`fieldTypes`) |

The compile-time flag `EXCLUDE_RANK_ZERO` is the variable `excludeRankZero`.
It is chosen in `Init` from the constant `Builds` and never changes.

`Pipeline` EXTENDS `PortAnalyzer` and instances `MpiLinks`. It follows the call
chain at `V3Metro_MPI.h` lines 1190–1206:
1. `analyze()` runs (`Analyze`).
2. `writeJsonReport` writes the report, or fails to open the file
   (`WriteReport`; `JsonOf` prints the direction as the `xmlKwd` text
   `in`/`out`/`inout`, and the width declared for the port in the partition
   module, the constant `Widths`).
3. The generator reads the report (`Generate`).

The generator therefore sees exactly the reports the analyzer produces.

### `ParentRewrite.tla`: the parent rewrite

`ParentRewrite` models `MPIFileGenerator::generateAndModifyFiles`
(`V3MMPI_Verilog.h` lines 26–224). The parent file is a sequence of tokens:
identifiers, punctuation, and the line break `"\n"`. A token boundary is a
`\b` boundary, and ECMAScript `.` matches anything except a line break. So the
search regex `(\bMOD\b)(.*?\bINST\b\s*\()` matches from a token `MOD` to the
first `INST (` with no line break in between.

| Code | Model |
|---|---|
| Parts 1–2: stub, one wrapper per instance, `PARTITION_ID = front().mpi_rank` (39–179) | `WriteStubAndWrappers`: `wrappers` maps each instance to its `PARTITION_ID` |
| open failure and return (188–192) | `OpenFails` |
| read into `parentFileContent` (193–196) | `ReadParent` |
| `wrapperModuleName` (201) | `Wrapper(x)`, the same string concatenation |
| one `regex_replace` per instance, in map order (199–216) | `ReplaceInstance`, `RegexReplace` (leftmost match, lazy end `MatchEnd`, search resumes after the match) |
| write `modified_<parent>.v` (218–222) | `WriteParent` |

`MC_ParentRewrite` builds the parent files. Each has two instances `p1` and
`p2` of `Mod` and one `q` of `Q`, declared in every order. Each declaration
uses one of four layouts: one line, a parameter list on the line, a parameter
list over three lines, or the instance name on the next line. `p1` and `p2`
may also share one declaration (`Mod p1 (...), p2 (...);`).

### `EmitMpiMk.tla`: the Makefile

`EmitMpiMk` models `EmitMpiMk::emit` (`V3EmitMpiMk.cpp` lines 18–129). Every
text is a sequence of tokens. A file name or a flag is a word of tokens, for
example `<<"a", ".", "v">>`. Blank, tab, backslash and line break are tokens of
their own. Each fixed comment line is one token. `V3OutMkFile` is not part of
this repository and is taken to write its text unchanged.

| Code | Model |
|---|---|
| `endsWith` (21–26) | `EndsWith`, `IsSuffix` of SequencesExt |
| header, variables, `SRC_FILES = \` (31–57) | `WriteHead`, `HeadText` |
| one AST file, kept if `.v` or `.sv` (59–66) | `AddSourceFile`, `SkipFile` |
| the line break after the loop (67) | `EndSourceFiles` |
| `istream_iterator` split of `argString` (70–73) | `Words`, `tokens` |
| one token, dropped if a source file or `--mmpi-mk` (76–80) | `AddFlag`, `DropFlag` |
| `VERILATOR_FLAGS`, `erase(length - 2)`, user flags, rules (82–121) | `WriteFlagsAndRules`, `Continued` |

The property reads the written text back the way it is used:
- `Joined` models GNU make joining a line that ends in a backslash with the
  next one;
- `Lines` and `MakeValue` find a variable's value, up to a `#` comment;
- `ShellWords` models the shell splitting the expanded value at blanks, where
  a backslash makes the next character part of the word.

`MC_EmitMpiMk` enumerates:
- file lists of up to two distinct names among `a.v`, `b.sv` and `h.vh`;
- argStrings of up to three words among `a.v`, `h.vh`, `--cc` and
  `--mmpi-mk`, joined by single blanks.

## Runs

| Run | cfg | Checks | Result |
|---|---|---|---|
| `analysis_safety` | `MC_PortAnalyzer.cfg` | `TypeOK`, `ResolvedIsTerminal`, `EndpointConservation` | pass, about 1.03M states |
| `unique_remote_names` | `MC_PortAnalyzer_unique.cfg` | `UniqueRemoteNames` | violation |
| `inout_ports` | `MC_PortAnalyzer_inout.cfg` | `InoutPortsTalk` | violation |
| `partner_symmetry` | `MC_PortAnalyzer_symmetric.cfg` | `PartnerSymmetric` | violation |
| `parent_input` | `MC_PortAnalyzer_parentio.cfg` | `ParentInputDrives` | violation |
| `alias_reassign` | `MC_PortAnalyzer_reassign.cfg` | `InputSeesAllSources` | violation |
| `hier_finder` | `MC_HierGraph.cfg` | `TypeOK`, `WeightIsLeafCount`, `PartitionFilesComplete`, `RefinesHierSelect` | pass, about 14k states |
| `hier_parent_lookup` | `MC_HierGraph_parent.cfg` | `AnalyzerRunsWhenFound` | violation |
| `pipeline_links` | `MC_Pipeline.cfg` | `WiresLinkedOnce`, `LinksFlowOutToIn`, `MessageLayoutMatches`, for both values of `EXCLUDE_RANK_ZERO` | pass, about 147k states |
| `struct_fields` | `MC_Pipeline_fields.cfg` | `StructFieldsArePorts` | violation |
| `parent_rewrite` | `MC_ParentRewrite.cfg` | `RewriteComplete` | violation |
| `makefile_text` | `MC_EmitMpiMk.cfg` | `MakefileVariablesHoldInputs` | violation |

What the properties say:
- **`ResolvedIsTerminal`:** the net a wire port ends on equals a non-recursive
  reference walk over the final alias map (`ChainEnd`), through cycles.
- **`EndpointConservation`:** each partition wire port's endpoint is in the map
  exactly once, on the net the port records, across everyone's migrations.
- **`WeightIsLeafCount`:** after `runDFS`, every node weighs the number of
  leaf instances at or below it.
- **`PartitionFilesComplete`:** when the analyzer runs, the partition's file
  set, collected by recursion over module definitions, is exactly the files
  of the modules elaborated at or below a member of the group.
- **`RefinesHierSelect`:** `HierSelect!Spec` under the mapping from the design
  to `tree` and from the BFS outputs to `result`. It implies the following:
  - the shallowest duplicate level is chosen;
  - the group is a heaviest group;
  - all members are distinct children of the reported parent, which is
    taken from `bestNodes[0]` alone;
  - the reported module is theirs;
  - the search ends.

- **`WiresLinkedOnce`:** when the report names every partner of a
  partition by a port that partition declares (`PartnersAsDeclared`), every
  connection in it, met from one end or from both, becomes exactly one
  generator link, with ends compared as `<<rank, port>>`. A report in which
  Phase 3 renamed a partner to `<remote>_<local>` is outside it: the two
  ends of such a wire get different keys and the wire two links (finding 6,
  `StructFieldsArePorts`).
- **`LinksFlowOutToIn`:** no link sends from an input port or into an output
  port.
- **`MessageLayoutMatches`:** the i-th member of every message struct
  (`getCppType`) and the i-th datatype `MPI_Type_create_struct` is given
  (`getMpiType`) have the same width, and that width holds the link's port
  width (for ports of at most 64 bits). The two tables are also compared
  at every width from 1 to 64, so the boundaries 16 and 32, which no
  checked port has, are covered too. The two tables are written
  separately, and a mismatch only shows as corrupted messages at run time.

Each property of a passing run has a mutant (see `PROJECT.json`):
- ranks numbered from 2;
- `resolveWireChain` without its visited set;
- a migration without the erase;
- the parent cut one level too high;
- `dfs` counting every node;
- `collectPartitionFiles` adding only the files of instantiated modules;
- the hash taken over instance names;
- a digest byte written without its leading zero (`setw(2)` dropped);
- the physical-link key not normalised to the lower rank first;
- only `"Input"` accepted as an input direction;
- the rank-zero exclusion written as `<= 1`;
- `getMpiType` testing `width < 8` for `width <= 8`.

TLC finds each of these.

### Findings

The violation runs each show a disagreement between the code and the
specification:

1. **Duplicate logic partners survive renaming.** Two continuous assignments
   reading one net push the parent's "logic" endpoint twice (line 265). A
   partition output on that net then lists `logic_o` twice. Phase 3 renames both
   to `logic_o_o`, so the names stay equal (line 715). This contradicts spec
   §4.2 Phase 3.
2. **Inout is read as input.** `"inout"` contains `"in"` (line 609, and
   line 476), so an inout port never reaches the Inout branch. It then rejects
   an input port on its net.
3. **One-sided links.** An output processed before an input that migrates onto
   its net never lists that input, but the input lists the output (line 592).
4. **A parent input never drives a partition input.** A parent port is classified
   with the parent's own direction (line 499). So a parent *input* looks like an
   Input endpoint to the partition, and the connection is rejected. The spec says
   the parent's ports make "system" a partner.
5. **A group directly under the top module is dropped.** The top is recorded
   as node `"$root"` with module name `"$root"`, and `moduleNameToModulePtr`
   holds only modules instantiated by a cell. So `findAndPrintPartitionPorts`
   stops with "Could not find AST pointer" (line 1159). This affects a design
   before `wrapTop`, which the code supports explicitly (lines 1246–1248). Spec §7
   makes only the absence of a group fatal.
6. **Duplicate struct members.** Suppose a partition output drives both an
   ordinary instance and a parent port, which are both rank 0. This gives two
   links with different physical keys and the same sender port. Both go into
   `mpi_rank_1_to_0_t`, so the member `o` is declared twice
   (`V3MMPI_Include.h` lines 159–162 and 195) and the generated
   `metro_mpi.cpp` does not compile. A fan-out has a second effect. When one
   output of `p1` feeds inputs `i1` and `i2` of `p2`, Phase 3 renames the
   partners on `p2`'s side to `o_i1` and `o_i2`. The generator then keys the
   two ends of each wire differently (line 103), and `mpi_rank_1_to_2_t`
   declares `o, o, o_i1, o_i2`: four members for two wires, two of them naming
   no port of `p1`. The property `StructFieldsArePorts` states both conditions
   (distinct members, each a port of the sender).
7. **An assignment in one branch of an `if` is lost.** Spec §2 records an
   AliasEdge for every assignment. The code keeps one alias per net
   (`m_wireAliasMap[lhs] = rhs`, line 282), so of `a = b; a = c;` in one
   always block only `a -> c` survives. Partition inputs on `a` resolve to
   `c`. In TLC's trace nothing drives `c`, so the inputs have no partner at
   all, although `q` drives `b`. With every net assigned once, the property
   holds (checked separately on the single-assignment designs). The trace has
   a second cause: its assignments are procedural, and
   `visit(AstAssign/AstAssignDly)` (lines 275–293) marks no parent-logic
   endpoint, although spec §4.2 Phase 1 marks the parent's logic on both
   sides of every net-to-net assignment, continuous or procedural. With that
   endpoint the input would list `logic_i` and the property would hold. The
   run shows the two divergences together.
8. **The parent rewrite misses instances.** The comment at line 203 says the
   regex captures parameters, comments and whitespace up to the instance name.
   But `.` does not cross a line break, so the following are not rewritten:
   - `Mod #(` / `.W(8)` / `) p1 (...)`, a parameter list over several lines;
   - `Mod` / `p1 (...)`, the instance name on the next line.

   A one-line parameter list is kept (`$2`) on a wrapper that declares no
   parameters. In `Mod p1 (...), p2 (...);`, the match for `p1` consumes the
   module name, so `p2` becomes a second instance of `p1`'s wrapper (with
   `PARTITION_ID` 1). TLC's trace shows this shared declaration. Run one
   layout at a time, every layout except the one-line form violates the
   property.
9. **The Makefile hands verilator its files behind a tab.** The comments say
   `SRC_FILES` holds the .v and .sv files and `VERILATOR_FLAGS` the other
   flags. But each source file is written as `"\t" + file + " \\"` with no
   line break (line 63). So all of them share the line `SRC_FILES = \`, and
   the first kept flag shares the line `VERILATOR_FLAGS = \` (line 83). make
   keeps a backslash that is not before a line break. The shell of the
   `elaborate` rule then reads each backslash-tab as a literal tab, so every
   source file and the first flag reach verilator with a tab in front. TLC's
   trace has the argString `a.v` and no files, which gives `VERILATOR_FLAGS = \<TAB>a.v`. With the file list `a.v`
   alone, `SRC_FILES` fails the same way. A writer that ends these lines with
   a line break satisfies the property on the same inputs (checked
   separately).

## Bounds and why they are enough

- **Two partitions.** This is the smallest number for which partition-to-partition
  links, processing order and rank assignment matter.
- **One ordinary instance.** The "system" partner may be another module.
- **Three nets.** Enough for an assignment between two nets and a third,
  independent net.
- **Two ports per partition.** Different local names for the renaming and two
  directions.
- **At most one assignment in the main run.** The body holds one parent port
  and one procedural or continuous assignment, with pins also on a constant or an
  unhandled expression. This reaches every branch of `VisitCell`, `NewPort`,
  `GetPortDirection` and the validity chain.
- **Two continuous assignments** (`MCDesignsTwoAssigns`, also part of the
  main run). These give two-hop chains and alias cycles.
- **Two procedural assignments, possibly to the same net, in the reassign
  run.** Only designs that drive each net once are kept: no output pin on an
  assigned net, and no two output pins on one net. A violation is then not
  an artefact of a multi-driven net.

For the finder, the bounds are:
- four module types;
- up to 21 instances;
- three levels.

Within them, duplicates occur at every level, as do several groups on one
level with equal weights, groups under the top module, and designs with no
duplicate.

For the pipeline, the partition modules come in two kinds:
- two ports with every pair of `in`/`out` keywords;
- the fan-out module, with inputs `i1` and `i2` and an output `o`.

The declared widths are 8 for `i`, 64 for `o`, 1 for `i1` and 17 for `i2`:
the one-bit case, two boundaries of the type tables, and one width just
past a boundary. A link takes the width of the end met first, so both ends'
widths occur.

There is one port on `q` and at most one parent port, all on three nets. This
covers:
- partition-to-partition links seen from both ends, in both name orders;
- fan-out to rank 0 through `q` and the parent;
- fan-out between partitions, which Phase 3 renames;
- failed report writes.

For the parent rewrite, three declarations in every order, four layouts each,
plus the shared declaration, give 832 parent files. The one-line layout
alone passes.

For the Makefile, one file and one word already show the bug. Two files and
three words also cover a `.vh` file skipped by `endsWith`, a source file
repeated in argString and dropped, `--mmpi-mk` dropped, and an empty
`VERILATOR_FLAGS`.

The depth limit of 5 hops needs chains of six nets and is left to the planned
`WireChain` run.

## Fairness

`analyze()` is a sequential pass with no waiting: whenever a step is enabled,
the program takes it. `Spec` therefore assumes weak fairness of `Next`. The
end state has no successor because `analyze()` returns, so the runs use
`CHECK_DEADLOCK FALSE`. The same holds for the finder, a sequential walk
followed by a bounded BFS, for `Pipeline`, whose three stages are
consecutive calls in `findAndPrintPartitionPorts`, and for the two file
writers. The finder's termination is part of `RefinesHierSelect`.
Termination of `analyze()` is not checked as a property: TLC's symmetry
reduction is unsound for liveness, and the analyzer's runs need it to
finish.

## Not modelled

- **Port widths** are not used by the analysis. The report's widths are the
  declared widths (`Widths`); `getDTypeWidth` is not modelled. Ports wider than
  64 bits fall to the `uint64_t` default. Neither the code nor the spec says
  what such a port should become, so no run checks it.
- **Bit-selects** (`bus[3]`) are just further canonical names in `Nets`.
- **Strings of constants** are one `CONSTEXPR` value.
- **Procedural assignments with an expression on the right** (`x <= a + 1`).
  They mark no endpoint at all. The spec marks the parent's logic only for
  net-to-net assignments, so it does not say what the report should contain.
  For net-to-net procedural assignments the code also marks no logic
  endpoint, against the spec (hazard at line 278, part of finding 7).
- **Inout ports in the pipeline.** The analyzer already reads an inout as an
  input (finding 2). The generator's choice of sender for an inout port
  (`V3MMPI_Include.h` line 118) depends on that divergence.
- **`printReport`, the texts of the stub and wrappers.** A partition module without ports, where `front()` at
  `V3MMPI_Verilog.h` line 131 is undefined, is not among the inputs.
- **The generators `V3Metro_MPI.h` includes but this repository does not
  contain**: `MakefileGenerator` (`V3MMPI_Makefile.h`, which receives the
  partition's file list), `MPIMainGenerator` and `Rank0MainGenerator`. The
  model stops at the file list they are given.
- **Assignments in the pipeline's bodies.** Chains are checked in the
  analyzer's runs.

## Plan

1. `PortAnalyzer` plus the runs above. Done.
2. `WireChain`:
   - the step-level resolution of one chain longer than the depth limit
     (repeated targets are covered by `alias_reassign`);
   - an abstract "end of chain" spec, refined through `INSTANCE ... WITH`.
3. `HierGraph` refining `HierSelect`. Done.
4. `MpiLinks` and `Pipeline`: the analyzer's report fed to the code generator.
   Done.
5. Extend the pipeline with a three-port (fan-out) partition module, to reach
   Phase 3 renaming between partitions. Done.
7. `ParentRewrite`, Part 3 of `MPIFileGenerator`. Done.
8. `EmitMpiMk`, the Makefile writer. Done.
9. The hex encoding of the Blake2b hash, and the member types and MPI
   datatypes of the message structs. Done.
6. Feed the finder's choice to the analyzer: derive the partitions and the
   parent body from a `HierGraph` result.
