------------------------------ MODULE HierGraph ------------------------------
(***************************************************************************)
(* HierCellsGraphVisitor of src/src/V3Metro_MPI.h: the constructor and    *)
(* visit(AstCell)   build nodeMetadata and adjacency by a pre-order walk of *)
(* the instance tree; runDFS sets the weights; runBFSCheckDuplicateHashes *)
(* searches level by level for a group of same-hash nodes; and           *)
(* findAndPrintPartitionPorts looks up the chosen group's parent module    *)
(* before it runs the port analyzer.                                      *)
(*                                                                         *)
(* The design is a library chosen in Init: a top module and, for every    *)
(* module, its cells in body order as [inst, mod] records. Hierarchical   *)
(* names are sequences of names from "$root" down (the code joins them    *)
(* with "."). A hash is blake2b_128_hex of the type-path: the BLAKE2b     *)
(* digest (libsodium) is a constant operator Digest from a path to its    *)
(* bytes, taken as injective as the specification allows, and the hex    *)
(* string is a sequence of digits 0..15, two per byte.                    *)
(***************************************************************************)
EXTENDS Integers, Sequences, SequencesExt, FiniteSets, FiniteSetsExt

CONSTANTS
    Libs,       \* the designs the visitor may be run on: [top, children, file, tree]
    Digest(_)   \* crypto_generichash of a path: a sequence of bytes 0..255

ROOT == "$root"

VARIABLES
    lib,         \* the design (read only)
    pc,          \* where the run is
    stack,       \* the visitor's recursion: [hier, modHier, rest] frames
    meta,        \* nodeMetadata
    adjacency,   \* adjacency
    modPtrs,     \* keys of moduleNameToModulePtr
    queue,       \* the BFS queue
    visited,     \* the BFS visited set
    partModule,  \* o_partitionModuleName
    partInsts,   \* o_partitionInstanceNames
    parentHier,  \* o_parentHier
    outcome,     \* how findAndPrintPartitionPorts ended
    partFiles    \* partitionFileSet

vars == <<lib, pc, stack, meta, adjacency, modPtrs, queue, visited,
          partModule, partInsts, parentHier, outcome, partFiles>>

\* Mutant: a byte written without setw(2) and setfill('0').
HexByteNoPad(b) == IF b < 16 THEN <<b>> ELSE <<b \div 16, b % 16>>

\* oss << std::hex << std::setw(2) << std::setfill('0') << (int)hash[i]
HexByte(b) == <<b \div 16, b % 16>>

\* blake2b_128_hex(input): the digest's bytes in hex, in order.
Blake2bHex(s) == FlattenSeq([j \in DOMAIN Digest(s) |-> HexByte(Digest(s)[j])])

\* Mutant: the hash taken over the instance path instead of the type-path.
ModNodeInstHash(c, fr) ==
    [moduleName |-> c.mod, instanceName |-> c.inst,
     hash |-> Blake2bHex(fr.hier \o <<c.inst>>), weight |-> 0]

\* The ModNode of a cell: named after the cell, hashed over the type-path
\* extended by the cell's module, weight 0.
ModNode(c, fr) ==
    [moduleName   |-> c.mod,
     instanceName |-> c.inst,
     hash         |-> Blake2bHex(fr.modHier \o <<c.mod>>),
     weight       |-> 0]

\* adjacency[parentHier].push_back(child)
AppendChild(adj, p, h) ==
    IF p \in DOMAIN adj THEN [adj EXCEPT ![p] = Append(@, h)]
    ELSE (p :> <<h>>) @@ adj

Init ==
    /\ lib \in Libs
    /\ pc = "visit"
    /\ stack = << [hier |-> <<ROOT>>, modHier |-> <<ROOT>>,
                   rest |-> lib.children[lib.top]] >>
    /\ meta = (<<ROOT>> :> [moduleName |-> ROOT, instanceName |-> ROOT,
                            hash |-> Blake2bHex(<<ROOT>>), weight |-> 0])
    /\ adjacency = <<>>
    /\ modPtrs = {}
    /\ queue = <<>> /\ visited = {}
    /\ partModule = "" /\ partInsts = <<>> /\ parentHier = <<>>
    /\ outcome = "none"
    /\ partFiles = {}

Frame == stack[Len(stack)]

\* visit(AstCell*): record the cell, then descend into its module.
VisitCell ==
    /\ pc = "visit" /\ Frame.rest # <<>>
    /\ LET c == Head(Frame.rest)
           n == ModNode(c, Frame)
           h == Frame.hier \o <<c.inst>>
       IN  /\ modPtrs' = modPtrs \cup {c.mod}
           /\ meta' = (h :> n) @@ meta
           /\ adjacency' = AppendChild(adjacency, Frame.hier, h)
           /\ stack' = Append([stack EXCEPT ![Len(stack)].rest = Tail(@)],
                              [hier |-> h, modHier |-> Frame.modHier \o <<c.mod>>,
                               rest |-> lib.children[c.mod]])
    /\ UNCHANGED <<lib, pc, queue, visited, partModule, partInsts, parentHier, outcome, partFiles>>

\* The end of visit(AstCell*): m_hier and m_hierWRTModuleName restored.
LeaveCell ==
    /\ pc = "visit" /\ Frame.rest = <<>> /\ Len(stack) > 1
    /\ stack' = Front(stack)
    /\ UNCHANGED <<lib, pc, meta, adjacency, modPtrs, queue, visited,
                   partModule, partInsts, parentHier, outcome, partFiles>>

VisitDone ==
    /\ pc = "visit" /\ Frame.rest = <<>> /\ Len(stack) = 1
    /\ stack' = <<>> /\ pc' = "dfs"
    /\ UNCHANGED <<lib, meta, adjacency, modPtrs, queue, visited,
                   partModule, partInsts, parentHier, outcome, partFiles>>

-----------------------------------------------------------------------------
Kids(adj, h) == IF h \in DOMAIN adj THEN adj[h] ELSE <<>>

\* Mutant: dfs counting every node, 1 plus the children's weights.
RECURSIVE DfsWeightPlusOne(_, _), KidsWeightPlusOne(_, _)
DfsWeightPlusOne(adj, h) == 1 + KidsWeightPlusOne(adj, Kids(adj, h))
KidsWeightPlusOne(adj, s) ==
    IF s = <<>> THEN 0 ELSE DfsWeightPlusOne(adj, Head(s)) + KidsWeightPlusOne(adj, Tail(s))

(***************************************************************************)
(* dfs: a node with children weighs the sum of its children's weights,    *)
(* a node without children weighs 1.                                      *)
(***************************************************************************)
RECURSIVE DfsWeight(_, _), KidsWeight(_, _)
DfsWeight(adj, h) ==
    IF Kids(adj, h) # <<>> THEN KidsWeight(adj, Kids(adj, h)) ELSE 1
KidsWeight(adj, s) ==
    IF s = <<>> THEN 0 ELSE DfsWeight(adj, Head(s)) + KidsWeight(adj, Tail(s))

\* runDFS, then the set-up of runBFSCheckDuplicateHashes.
RunDFS ==
    /\ pc = "dfs"
    /\ meta' = [h \in DOMAIN meta |-> [meta[h] EXCEPT !.weight = DfsWeight(adjacency, h)]]
    /\ queue' = <<<<ROOT>>>> /\ visited' = {<<ROOT>>}
    /\ pc' = "bfs"
    /\ UNCHANGED <<lib, stack, adjacency, modPtrs, partModule, partInsts, parentHier, outcome, partFiles>>

\* The unvisited children of the nodes of the current level, in queue order.
LevelNodes ==
    SelectSeq(FlattenSeq([i \in DOMAIN queue |-> Kids(adjacency, queue[i])]),
              LAMBDA c : c \notin visited)

\* hashToNodes[hh]
GroupOf(hh) == SelectSeq(LevelNodes, LAMBDA c : meta[c].hash = hh)

DupHashes == {hh \in {meta[c].hash : c \in ToSet(LevelNodes)} : Len(GroupOf(hh)) > 1}

WeightSum(s) == FoldLeft(LAMBDA acc, c : acc + meta[c].weight, 0, s)

\* Mutant: the parent cut one level too high.
ParentOfTwoUp(h) == SubSeq(h, 1, Len(h) - 2)

\* o_parentHier: the hierarchy up to the last ".".
ParentOf(h) == SubSeq(h, 1, Len(h) - 1)

\* A level with no group of two or more: the loop goes on to the next level.
BfsNextLevel ==
    /\ pc = "bfs" /\ queue # <<>>
    /\ DupHashes = {}
    /\ queue' = LevelNodes /\ visited' = visited \cup ToSet(LevelNodes)
    /\ UNCHANGED <<lib, pc, stack, meta, adjacency, modPtrs,
                   partModule, partInsts, parentHier, outcome, partFiles>>

\* A level with duplicates: the heaviest group wins; among groups of equal
\* weight, the one the unordered_map yields first.
BfsFound ==
    /\ pc = "bfs" /\ queue # <<>>
    /\ DupHashes # {}
    /\ \E best \in DupHashes :
          /\ \A hh \in DupHashes : WeightSum(GroupOf(hh)) <= WeightSum(GroupOf(best))
          /\ LET nodes == GroupOf(best)
             IN  /\ partModule' = meta[nodes[1]].moduleName
                 /\ parentHier' = ParentOf(nodes[1])
                 /\ partInsts' = [i \in DOMAIN nodes |-> meta[nodes[i]].instanceName]
    /\ queue' = LevelNodes /\ visited' = visited \cup ToSet(LevelNodes)
    /\ pc' = "found"
    /\ UNCHANGED <<lib, stack, meta, adjacency, modPtrs, outcome, partFiles>>

\* The queue is empty: no duplicate anywhere, nothing further is done.
BfsNone ==
    /\ pc = "bfs" /\ queue = <<>>
    /\ pc' = "none"
    /\ UNCHANGED <<lib, stack, meta, adjacency, modPtrs, queue, visited,
                   partModule, partInsts, parentHier, outcome, partFiles>>

-----------------------------------------------------------------------------
\* findAndPrintPartitionPorts: the output directory cannot be created.
MkdirFails ==
    /\ pc = "found"
    /\ outcome' = "mkdir_error" /\ pc' = "done"
    /\ UNCHANGED <<lib, stack, meta, adjacency, modPtrs, queue, visited,
                   partModule, partInsts, parentHier, partFiles>>

\* Mutant: only the files of the modules a module instantiates are added.
RECURSIVE CollectChildFiles(_)
CollectChildFiles(m) ==
    UNION {{lib.file[c.mod]} \cup CollectChildFiles(c.mod) : c \in ToSet(lib.children[m])}

\* collectPartitionFiles: the module's own file, then recursively the files
\* of every module one of its cells instantiates.
RECURSIVE CollectPartitionFiles(_)
CollectPartitionFiles(m) ==
    {lib.file[m]} \cup UNION {CollectPartitionFiles(c.mod) : c \in ToSet(lib.children[m])}

\* findAndPrintPartitionPorts: the parent's metadata, then its module.
LookupParent ==
    /\ pc = "found"
    /\ outcome' =
         IF parentHier \notin DOMAIN meta THEN "no_metadata"
         ELSE IF meta[parentHier].moduleName \notin modPtrs THEN "no_module"
         ELSE "analyzed"
    /\ partFiles' =
         IF outcome' = "analyzed" /\ partModule \in modPtrs
         THEN CollectPartitionFiles(partModule) ELSE {}
    /\ pc' = "done"
    /\ UNCHANGED <<lib, stack, meta, adjacency, modPtrs, queue, visited,
                   partModule, partInsts, parentHier>>

Next ==
    \/ VisitCell \/ LeaveCell \/ VisitDone
    \/ RunDFS
    \/ BfsNextLevel \/ BfsFound \/ BfsNone
    \/ MkdirFails \/ LookupParent

\* One sequential pass: every enabled step is eventually taken.
Spec == Init /\ [][Next]_vars /\ WF_vars(Next)

-----------------------------------------------------------------------------
(***************************************************************************)
(*                              PROPERTIES                                 *)
(***************************************************************************)
\* The elaborated instance tree of design l: instance path (below the top
\* module) |-> module. Each design of Libs carries it as its field tree.
RECURSIVE Expand(_, _, _)
Expand(l, m, p) ==
    UNION {{<<p \o <<c.inst>>, c.mod>>} \cup Expand(l, c.mod, p \o <<c.inst>>) :
              c \in ToSet(l.children[m])}

ElabTreeOf(l) ==
    LET E == Expand(l, l.top, <<>>)
    IN  [x \in {e[1] : e \in E} |-> (CHOOSE e \in E : e[1] = x)[2]]

ElabTree == lib.tree

Hier == {h \in Seq(STRING) : h # <<>> /\ h[1] = ROOT}

\* Every variable holds values of its type.
TypeOK ==
    /\ pc \in {"visit", "dfs", "bfs", "found", "none", "done"}
    /\ DOMAIN meta \subseteq Hier
    /\ \A h \in DOMAIN meta : meta[h].weight \in Nat /\ meta[h].hash \in Seq(0..15)
    /\ DOMAIN adjacency \subseteq DOMAIN meta
    /\ \A h \in DOMAIN adjacency : ToSet(adjacency[h]) \subseteq DOMAIN meta
    /\ ToSet(queue) \cup visited \subseteq DOMAIN meta
    /\ pc \in {"found", "done"} =>
          /\ parentHier \in Hier
          /\ partInsts \in Seq(STRING) /\ partInsts # <<>>
    /\ outcome \in {"none", "mkdir_error", "no_metadata", "no_module", "analyzed"}
    /\ partFiles \subseteq Range(lib.file)

\* After runDFS, every node of nodeMetadata (the "$root" node included)
\* weighs the number of leaf instances at or below it: the recursion adds
\* each child's weight after visiting it, and the visitor recorded every
\* child of every node.
WeightIsLeafCount ==
    pc \notin {"visit", "dfs"} =>
      LET nodes == DOMAIN ElabTree \cup {<<>>}
          leaf(x) == ~\E y \in nodes : Len(y) = Len(x) + 1 /\ IsPrefix(x, y)
      IN  \A h \in DOMAIN meta :
             meta[h].weight = Cardinality({x \in nodes : IsPrefix(Tail(h), x) /\ leaf(x)})

NoReport(st) == [status |-> st, module |-> "", parent |-> <<>>, members |-> {}, count |-> 0]

\* The refinement mapping: the choice of runBFSCheckDuplicateHashes as
\* HierSelect's result; the members are the listed names under the
\* reported parent.
SelectResult ==
    IF pc \in {"visit", "dfs", "bfs"} THEN NoReport("pending")
    ELSE IF pc = "none" THEN NoReport("none")
    ELSE [status  |-> "found",
          module  |-> partModule,
          parent  |-> Tail(parentHier),
          members |-> {Tail(parentHier) \o <<partInsts[i]>> : i \in DOMAIN partInsts},
          count   |-> Len(partInsts)]


Abstract == INSTANCE HierSelect WITH tree <- ElabTree, result <- SelectResult

\* The visitor, runDFS and the BFS implement the finder's contract: the
\* shallowest level with a duplicate type-path, a heaviest group there,
\* all of whose members are distinct children of the one reported parent,
\* or "none" when there is no duplicate; and the search ends.
RefinesHierSelect == Abstract!Spec

(***************************************************************************)
(* The source files collected for the partition (handed to the makefile   *)
(* generator) are those of every module elaborated at or below a member   *)
(* of the group: the recursion over module definitions must reach every   *)
(* module of the member's instance subtree and no other.                  *)
(***************************************************************************)
PartitionFilesComplete ==
    outcome = "analyzed" =>
      LET member == Tail(parentHier) \o <<partInsts[1]>>
      IN  partFiles = {lib.file[partModule]} \cup
                      {lib.file[ElabTree[q]] : q \in {q \in DOMAIN ElabTree : IsStrictPrefix(member, q)}}

\* Spec 4.1 and 7: when a duplicate group is found, the port analyzer is
\* run on its parent; only the absence of a group or an I/O failure stops
\* findAndPrintPartitionPorts.
AnalyzerRunsWhenFound ==
    pc = "done" => outcome \in {"analyzed", "mkdir_error"}

=============================================================================
