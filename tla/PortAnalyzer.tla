---------------------------- MODULE PortAnalyzer ----------------------------
(***************************************************************************)
(* PartitionPortAnalyzer of src/src/V3Metro_MPI.h: the constructor (rank  *)
(* map), Phase 1 (PortGatherVisitor over the parent module's body),      *)
(* Phase 2 (per partition port: wire-chain resolution with migration of  *)
(* the port's endpoint, partner discovery, classification) and Phase 3   *)
(* (grouping of partner relations by (sender rank, receiver rank) and    *)
(* renaming of duplicate remote port names).                             *)
(*                                                                         *)
(* The parent's body is an input chosen in Init from the set Designs.    *)
(* Names of ports and nets are sequences of tokens, so the string        *)
(* concatenations of the code ("logic_" + p, remote + "_" + local) are   *)
(* sequence concatenations and collide exactly when the strings would.   *)
(* Direction keywords (VDirection::xmlKwd) are sequences of characters,  *)
(* and std::string::find is a contiguous-subsequence test.               *)
(***************************************************************************)
EXTENDS Integers, Sequences, SequencesExt, FiniteSets, TLC

CONSTANTS
    Parent,            \* m_parentModuleName
    SortedPartitions,  \* partition instance names, in std::string order
    Others,            \* instances of the parent that are not partitions
    Nets,              \* canonical net names (getCanonicalName results)
    CONSTEXPR,         \* a pin tied to an AstConst
    OTHEREXPR,         \* a pin expression with no canonical name
    Designs            \* the parent-module bodies the analyzer may be run on

Partitions == ToSet(SortedPartitions)
Instances  == Partitions \cup Others

ASSUME /\ Len(SortedPartitions) = Cardinality(Partitions)
       /\ Partitions \cap Others = {}
       /\ Parent \notin Instances
       /\ "system" \notin Instances

\* Direction keywords as printed by VDirection::xmlKwd.
KwIn    == <<"i", "n">>
KwOut   == <<"o", "u", "t">>
KwInout == <<"i", "n", "o", "u", "t">>

\* std::string::find(t) != npos
Finds(s, t) == t \in SubSeqs(s)

LOGIC == <<"logic">>
\* "logic_" + port.name
LogicName(p) == <<"logic", "_">> \o p
\* partner.port + "_" + local_port.name
Suffixed(r, l) == r \o <<"_">> \o l

\* The maximum recursion depth of resolveWireChain (its default argument).
MaxChainDepth == 5

(***************************************************************************)
(* resolveWireChain: follow the alias map from wireName, stopping at the  *)
(* depth limit, at a net already visited, or at a net with no alias.      *)
(***************************************************************************)
\* Mutant: resolveWireChain without the visited-set check.
RECURSIVE ResolveNoVisited(_, _, _, _)
ResolveNoVisited(al, w, visited, maxDepth) ==
    IF maxDepth <= 0 THEN w
    ELSE IF w \in DOMAIN al
         THEN ResolveNoVisited(al, al[w], visited \cup {w}, maxDepth - 1)
         ELSE w

RECURSIVE ResolveWireChain(_, _, _, _)
ResolveWireChain(al, w, visited, maxDepth) ==
    IF maxDepth <= 0 THEN w
    ELSE IF w \in visited THEN w
    ELSE IF w \in DOMAIN al
         THEN ResolveWireChain(al, al[w], visited \cup {w}, maxDepth - 1)
         ELSE w

(***************************************************************************)
(* The constructor's rank map: "system" is 0, sorted partitions 1..N.     *)
(***************************************************************************)
\* Mutant: partition ranks numbered from 2.
RankFromTwo(x) ==
    IF x = "system" THEN 0
    ELSE CHOOSE j \in 2..Len(SortedPartitions)+1 : SortedPartitions[j-1] = x

RankOf(x) ==
    IF x = "system" THEN 0
    ELSE CHOOSE j \in 1..Len(SortedPartitions) : SortedPartitions[j] = x

Rank == [x \in {"system"} \cup Partitions |-> RankOf(x)]

VARIABLES
    design,     \* the parent module being analyzed (read only)
    pc,         \* phase of analyze()
    k,          \* position of the gather visitor in the parent's body
    endpoints,  \* m_wireToEndpoints
    alias,      \* m_wireAliasMap
    instMods,   \* keys of m_instanceToModulePtr
    data,       \* m_partitionData
    ci, pi,     \* Phase 2 loop cursors: partition, port
    links,      \* Phase 3 comm_links
    linkOrder,  \* the keys of comm_links in std::map order
    li          \* Phase 3 loop cursor

vars == <<design, pc, k, endpoints, alias, instMods, data, ci, pi,
          links, linkOrder, li>>

Decls(inst) ==
    IF inst \in Partitions THEN design.ports ELSE design.otherPorts[inst]
Pins(inst) ==
    IF inst \in Partitions THEN design.pin[inst] ELSE design.otherPin[inst]

\* findVarInModule: the first declaration named name, 0 when there is none.
FindVar(decls, name) ==
    LET hits == {j \in DOMAIN decls : decls[j][1] = name}
    IN  IF hits = {} THEN 0 ELSE CHOOSE j \in hits : \A h \in hits : j <= h

\* The normalisation used by getPortDirection.
EndpointDir(kwd) ==
    IF Finds(kwd, KwIn) THEN "Input"
    ELSE IF Finds(kwd, KwOut) THEN "Output"
    ELSE "Inout"

\* The normalisation of the port's own direction in Step 2.2.
SourceDir(kwd) ==
    IF Finds(kwd, KwIn) THEN "Input"
    ELSE IF Finds(kwd, KwOut) THEN "Output"
    ELSE IF Finds(kwd, KwInout) THEN "Inout"
    ELSE "Unknown"

(***************************************************************************)
(* getPortDirection: partition ports, then the module of any instance,    *)
(* then the parent's own ports, then the parent's logic.                  *)
(***************************************************************************)
GetPortDirection(inst, port) ==
    LET pj == IF inst \in DOMAIN data
              THEN FindVar([j \in DOMAIN data[inst] |->
                              <<data[inst][j].name, data[inst][j].kwd>>], port)
              ELSE 0
        mj == IF inst \in instMods THEN FindVar(Decls(inst), port) ELSE 0
        rj == IF inst = Parent THEN FindVar(design.parentIO, port) ELSE 0
    IN  IF pj # 0 THEN EndpointDir(data[inst][pj].kwd)
        ELSE IF mj # 0 THEN EndpointDir(Decls(inst)[mj][2])
        ELSE IF rj # 0 THEN EndpointDir(design.parentIO[rj][2])
        ELSE IF port = LOGIC THEN "Output"
        ELSE "Unknown"

\* The Port record built for one pin of a partition instance.
NewPort(decl, expr) ==
    [name      |-> decl[1],
     kwd       |-> decl[2],
     type      |-> IF expr \in Nets THEN "wire"
                   ELSE IF expr = CONSTEXPR THEN "init" ELSE "logic",
     other_end |-> expr,
     active    |-> IF expr \in Nets THEN "idk"
                   ELSE IF expr = CONSTEXPR THEN "No" ELSE "Yes",
     process   |-> "idk",
     rank      |-> -1,
     comm      |-> "idk",
     partners  |-> <<>>]

\* Append the endpoint of every pin of inst that names a net, in pin order.
AddPinEndpoints(ep, inst) ==
    LET pins  == Pins(inst)
        on(n) == SelectSeq([j \in DOMAIN pins |-> j], LAMBDA j : pins[j] = n)
    IN  [n \in Nets |-> ep[n] \o [t \in DOMAIN on(n) |->
                                    <<inst, Decls(inst)[on(n)[t]][1]>>]]

AddLogic(ep, n) ==
    IF n \in Nets THEN [ep EXCEPT ![n] = Append(@, <<Parent, LOGIC>>)] ELSE ep

AddAlias(al, lhs, rhs) ==
    IF lhs \in Nets /\ rhs \in Nets THEN (lhs :> rhs) @@ al ELSE al

-----------------------------------------------------------------------------
Init ==
    /\ design \in Designs
    /\ pc = "io"
    /\ k = 1
    /\ endpoints = [n \in Nets |-> <<>>]
    /\ alias = <<>>
    /\ instMods = {}
    /\ data = <<>>
    /\ ci = 1 /\ pi = 1
    /\ links = <<>> /\ linkOrder = <<>> /\ li = 1

\* Phase 1: every IO variable of the parent is an endpoint of its own net.
GatherParentPorts ==
    /\ pc = "io"
    /\ LET io(n) == SelectSeq(design.parentIO, LAMBDA d : d[1] = n)
       IN  endpoints' = [n \in Nets |->
                           endpoints[n] \o [t \in DOMAIN io(n) |-> <<Parent, n>>]]
    /\ pc' = "gather"
    /\ UNCHANGED <<design, k, alias, instMods, data, ci, pi, links, linkOrder, li>>

Item == design.body[k]

\* PortGatherVisitor::visit(AstAssignW*)
VisitAssignW ==
    /\ pc = "gather" /\ k <= Len(design.body)
    /\ Item.kind = "AssignW"
    /\ alias' = AddAlias(alias, Item.lhs, Item.rhs)
    /\ endpoints' = AddLogic(AddLogic(endpoints, Item.lhs), Item.rhs)
    /\ k' = k + 1
    /\ UNCHANGED <<design, pc, instMods, data, ci, pi, links, linkOrder, li>>

\* PortGatherVisitor::visit(AstAssign*) and visit(AstAssignDly*)
VisitProcAssign ==
    /\ pc = "gather" /\ k <= Len(design.body)
    /\ Item.kind \in {"Assign", "AssignDly"}
    /\ alias' = AddAlias(alias, Item.lhs, Item.rhs)
    /\ k' = k + 1
    /\ UNCHANGED <<design, pc, endpoints, instMods, data, ci, pi, links, linkOrder, li>>

\* PortGatherVisitor::visit(AstCell*)
VisitCell ==
    /\ pc = "gather" /\ k <= Len(design.body)
    /\ Item.kind = "Cell"
    /\ LET inst == Item.inst
       IN  /\ instMods' = instMods \cup {inst}
           /\ endpoints' = AddPinEndpoints(endpoints, inst)
           /\ data' = IF inst \in Partitions
                      THEN (inst :> [j \in DOMAIN design.ports |->
                                       NewPort(design.ports[j], design.pin[inst][j])])
                           @@ data
                      ELSE data
    /\ k' = k + 1
    /\ UNCHANGED <<design, pc, alias, ci, pi, links, linkOrder, li>>

GatherDone ==
    /\ pc = "gather" /\ k > Len(design.body)
    /\ pc' = "ports"
    /\ UNCHANGED <<design, k, endpoints, alias, instMods, data, ci, pi, links, linkOrder, li>>

-----------------------------------------------------------------------------
\* std::map iteration order of m_partitionData.
Order == SelectSeq(SortedPartitions, LAMBDA x : x \in DOMAIN data)

\* Mutant: the endpoint is copied to the final net but not erased.
MigrateNoErase(ep, from, to, e) ==
    [ep EXCEPT ![to] = @ \o SelectSeq(ep[from], LAMBDA x : x = e)]

\* Step 2.1: move the port's own endpoint from its initial to its final net.
Migrate(ep, from, to, e) ==
    [ep EXCEPT ![to]   = @ \o SelectSeq(ep[from], LAMBDA x : x = e),
               ![from] = SelectSeq(@, LAMBDA x : x # e)]

\* The validity rule of Step 2.2, in the order of the code's if/else chain.
IsValidConnection(src, epDir, isLogic, trueOut) ==
    IF src = "Input" /\ trueOut /\ isLogic THEN FALSE
    ELSE \/ isLogic
         \/ src = "Inout" \/ epDir = "Inout"
         \/ src = "Input" /\ epDir = "Output"
         \/ src = "Output" /\ epDir = "Input"

ProcessOf(inst) == IF inst \in Partitions THEN inst ELSE "system"

NewPartner(e, portName) ==
    [instance |-> e[1],
     port     |-> IF e = <<Parent, LOGIC>> THEN LogicName(portName) ELSE e[2],
     process  |-> ProcessOf(e[1]),
     rank     |-> Rank[ProcessOf(e[1])]]

CommType(n) == IF n = 0 THEN "NULL" ELSE IF n = 1 THEN "P2P" ELSE "broadcast"

(***************************************************************************)
(* One iteration of the main analysis loop: Steps 2.1, 2.2 and 2.3 for   *)
(* port pi of partition Order[ci].                                        *)
(***************************************************************************)
ProcessPort ==
    /\ pc = "ports" /\ ci <= Len(Order)
    /\ pi <= Len(data[Order[ci]])
    /\ LET inst  == Order[ci]
           port  == data[inst][pi]
           wire  == port.type = "wire"
           init  == port.other_end
           fin   == IF wire THEN ResolveWireChain(alias, init, {}, MaxChainDepth)
                    ELSE init
           ep    == IF wire /\ init # fin
                    THEN Migrate(endpoints, init, fin, <<inst, port.name>>)
                    ELSE endpoints
           eps   == IF wire THEN ep[fin] ELSE <<>>
           src   == SourceDir(port.kwd)
           trueOut == /\ src = "Input"
                      /\ \E j \in DOMAIN eps :
                            /\ eps[j][1] # inst
                            /\ GetPortDirection(eps[j][1], eps[j][2]) = "Output"
           valid == SelectSeq(eps, LAMBDA e :
                        /\ e[1] # inst
                        /\ IsValidConnection(src, GetPortDirection(e[1], e[2]),
                                             e = <<Parent, LOGIC>>, trueOut))
           found == [j \in DOMAIN valid |-> NewPartner(valid[j], port.name)]
           all   == port.partners \o found
       IN  /\ endpoints' = ep
           /\ data' = [data EXCEPT ![inst][pi] =
                         [port EXCEPT !.other_end = fin,
                                      !.partners  = all,
                                      !.process   = inst,
                                      !.rank      = Rank[inst],
                                      !.comm      = CommType(Len(all)),
                                      !.active    = IF @ = "idk"
                                                    THEN IF all = <<>> THEN "No" ELSE "Yes"
                                                    ELSE @]]
    /\ pi' = pi + 1
    /\ UNCHANGED <<design, pc, k, alias, instMods, ci, links, linkOrder, li>>

NextPartition ==
    /\ pc = "ports" /\ ci <= Len(Order)
    /\ pi > Len(data[Order[ci]])
    /\ ci' = ci + 1 /\ pi' = 1
    /\ UNCHANGED <<design, pc, k, endpoints, alias, instMods, data, links, linkOrder, li>>

PortsDone ==
    /\ pc = "ports" /\ ci > Len(Order)
    /\ pc' = "links"
    /\ UNCHANGED <<design, k, endpoints, alias, instMods, data, ci, pi, links, linkOrder, li>>

-----------------------------------------------------------------------------
\* Every partner relation <<instance, port index, partner index>>, in the
\* order Phase 3 visits them.
Relations ==
    FlattenSeq([a \in DOMAIN Order |->
      LET inst == Order[a] IN
      FlattenSeq([p \in DOMAIN data[inst] |->
        [q \in DOMAIN data[inst][p].partners |-> <<inst, p, q>>]])])

\* The comm_links key: the port is the sender when its keyword contains "out".
LinkKey(r) ==
    LET port == data[r[1]][r[2]]
        peer == port.partners[r[3]]
    IN  IF Finds(port.kwd, KwOut) THEN <<port.rank, peer.rank>>
        ELSE <<peer.rank, port.rank>>

PairLess(x, y) == x[1] < y[1] \/ (x[1] = y[1] /\ x[2] < y[2])

BuildLinks ==
    /\ pc = "links"
    /\ LET keys == {LinkKey(Relations[j]) : j \in DOMAIN Relations}
       IN  /\ links' = [key \in keys |->
                          SelectSeq(Relations, LAMBDA r : LinkKey(r) = key)]
           /\ linkOrder' = SortSeq(SetToSeq(keys), PairLess)
    /\ li' = 1 /\ pc' = "rename"
    /\ UNCHANGED <<design, k, endpoints, alias, instMods, data, ci, pi>>

RemoteName(r) == data[r[1]][r[2]].partners[r[3]].port

\* Rename every relation of link rel whose remote name occurs more than once.
Disambiguate(rel) ==
    LET count(nm) == Len(SelectSeq(rel, LAMBDA r : RemoteName(r) = nm))
        dup       == {nm \in {RemoteName(r) : r \in ToSet(rel)} : count(nm) > 1}
        hit(r)    == r \in ToSet(rel) /\ RemoteName(r) \in dup
    IN  [inst \in DOMAIN data |-> [p \in DOMAIN data[inst] |->
           LET port == data[inst][p]
           IN  [port EXCEPT !.partners =
                  [q \in DOMAIN port.partners |->
                     IF hit(<<inst, p, q>>)
                     THEN [port.partners[q] EXCEPT !.port = Suffixed(@, port.name)]
                     ELSE port.partners[q]]]]]

RenameLink ==
    /\ pc = "rename" /\ li <= Len(linkOrder)
    /\ LET rel == links[linkOrder[li]]
       IN  data' = IF Len(rel) <= 1 THEN data ELSE Disambiguate(rel)
    /\ li' = li + 1
    /\ UNCHANGED <<design, pc, k, endpoints, alias, instMods, ci, pi, links, linkOrder>>

Finish ==
    /\ pc = "rename" /\ li > Len(linkOrder)
    /\ pc' = "done"
    /\ UNCHANGED <<design, k, endpoints, alias, instMods, data, ci, pi, links, linkOrder, li>>

Next ==
    \/ GatherParentPorts
    \/ VisitAssignW \/ VisitProcAssign \/ VisitCell \/ GatherDone
    \/ ProcessPort \/ NextPartition \/ PortsDone
    \/ BuildLinks \/ RenameLink \/ Finish

\* analyze() is a sequential pass: every enabled step is eventually taken.
Spec == Init /\ [][Next]_vars /\ WF_vars(Next)

-----------------------------------------------------------------------------
(***************************************************************************)
(*                              PROPERTIES                                 *)
(***************************************************************************)
Token    == STRING \cup UNION {ToSet(n) : n \in Nets}
Endpoint == (Instances \cup {Parent}) \X Seq(Token)
Ranks    == 0..Len(SortedPartitions)

PartnerType ==
    [instance : Instances \cup {Parent}, port : Seq(Token),
     process : Partitions \cup {"system"}, rank : Ranks]

\* Every variable holds values of its type; ranks lie in 0..N (-1 before
\* Step 2.3 stamps them), as the constructor's rank map promises.
TypeOK ==
    /\ pc \in {"io", "gather", "ports", "links", "rename", "done"}
    /\ endpoints \in [Nets -> Seq(Endpoint)]
    /\ DOMAIN alias \subseteq Nets /\ \A n \in DOMAIN alias : alias[n] \in Nets
    /\ instMods \subseteq Instances
    /\ DOMAIN data \subseteq Partitions
    /\ \A inst \in DOMAIN data : \A p \in DOMAIN data[inst] :
         LET port == data[inst][p] IN
         /\ port.type \in {"wire", "init", "logic"}
         /\ port.active \in {"idk", "Yes", "No"}
         /\ port.comm \in {"idk", "NULL", "P2P", "broadcast"}
         /\ port.rank \in Ranks \cup {-1}
         /\ \A q \in DOMAIN port.partners : port.partners[q] \in PartnerType

\* A partition port already through Step 2.3.
Processed(port) == port.process # "idk"

\* Ports of partition instances, as <<instance, index>>.
PortIds == {<<inst, p>> : inst \in DOMAIN data, p \in 1..Len(design.ports)}
PortAt(id) == data[id[1]][id[2]]

(***************************************************************************)
(* Reference for resolveWireChain: walk the alias edges from n; the       *)
(* resolved net is the first one on the walk that has no alias, that      *)
(* repeats a net already walked, or that lies MaxChainDepth hops away.    *)
(***************************************************************************)
ChainEnd(al, n) ==
    LET walk[j \in 0..MaxChainDepth] ==
            IF j = 0 THEN n
            ELSE IF walk[j-1] \in DOMAIN al THEN al[walk[j-1]] ELSE walk[j-1]
        stops(j) == \/ j = MaxChainDepth
                    \/ walk[j] \notin DOMAIN al
                    \/ \E i \in 0..(j-1) : walk[i] = walk[j]
        first == CHOOSE j \in 0..MaxChainDepth :
                    stops(j) /\ \A i \in 0..(j-1) : ~stops(i)
    IN  walk[first]

\* Step 2.1 resolves every wire port to the end of its net's assignment
\* chain, through alias cycles and chains cut at the depth limit, using the
\* alias map the whole parent body built (the last assignment to a net wins).
ResolvedIsTerminal ==
    \A id \in PortIds :
        LET port == PortAt(id) IN
        (port.type = "wire" /\ Processed(port)) =>
            port.other_end = ChainEnd(alias, design.pin[id[1]][id[2]])

\* The migration of Step 2.1 keeps each partition wire port's own endpoint
\* exactly once in m_wireToEndpoints, on the net the port records as its
\* other end, across all the migrations of the other ports.
EndpointConservation ==
    \A id \in PortIds :
        LET port == PortAt(id)
            e    == <<id[1], port.name>>
        IN  port.type = "wire" =>
              \A n \in Nets :
                 Len(SelectSeq(endpoints[n], LAMBDA x : x = e)) =
                    IF n = port.other_end THEN 1 ELSE 0

-----------------------------------------------------------------------------
(* Properties the code is checked against and that it violates.           *)

\* Spec 4.2 Phase 3 and 8: after disambiguation, the remote port names of
\* the relations of one (sender rank, receiver rank) channel are pairwise
\* distinct.
UniqueRemoteNames ==
    pc = "done" =>
      \A r1, r2 \in ToSet(Relations) :
         (r1 # r2 /\ LinkKey(r1) = LinkKey(r2)) => RemoteName(r1) # RemoteName(r2)

\* Spec 4.2 Step 2: a port whose normalised direction is Inout, or whose
\* endpoint is Inout, is a valid partner; so an inout partition port lists
\* every other instance's port on its resolved net.
InoutPortsTalk ==
    \A id \in PortIds :
        LET port == PortAt(id) IN
        (port.kwd = KwInout /\ port.type = "wire" /\ Processed(port)) =>
           \A j \in DOMAIN endpoints[port.other_end] :
              LET e == endpoints[port.other_end][j] IN
              (e[1] \in Instances /\ e[1] # id[1]) =>
                 \E q \in DOMAIN port.partners : port.partners[q].instance = e[1]

\* The two ends of a link between partitions agree: when Phase 2 is over,
\* if port x of partition A lists port y of partition B, then port y of B
\* lists port x of A.
PartnerSymmetric ==
    pc \in {"links", "rename", "done"} =>
      \A id \in PortIds : \A q \in DOMAIN PortAt(id).partners :
        LET peer == PortAt(id).partners[q] IN
        peer.instance \in Partitions =>
          \E id2 \in PortIds :
             /\ id2[1] = peer.instance /\ PortAt(id2).name = peer.port
             /\ \E q2 \in DOMAIN PortAt(id2).partners :
                   /\ PortAt(id2).partners[q2].instance = id[1]
                   /\ PortAt(id2).partners[q2].port = PortAt(id).name

\* Spec 4.2 Phase 1: the parent's own ports make the parent reachable as
\* a partner ("system"); a partition input driven straight from an input
\* port of the parent therefore has the parent as a partner.
ParentInputDrives ==
    \A id \in PortIds :
        LET port == PortAt(id) IN
        (/\ port.kwd = KwIn /\ port.type = "wire" /\ Processed(port)
         /\ \E j \in DOMAIN design.parentIO :
               design.parentIO[j] = <<port.other_end, KwIn>>)
          => \E q \in DOMAIN port.partners : port.partners[q].instance = Parent

\* The AliasEdges of spec 2: one per assignment of the parent body between
\* two nets, however many assign the same net.
LOCAL Rel == INSTANCE Relation
AliasEdges == [x, y \in Nets |->
                  \E j \in DOMAIN design.body :
                     /\ design.body[j].kind # "Cell"
                     /\ design.body[j].lhs = x /\ design.body[j].rhs = y]
FeedsFrom == Rel!ReflexiveTransitiveClosure(AliasEdges, Nets)

\* The output pins of the instances of the body that sit on net n.
DriversOn(n) ==
    LET drives(i, j) == Pins(i)[j] = n /\ EndpointDir(Decls(i)[j][2]) = "Output"
    IN  UNION {{<<i, Decls(i)[j][1]>> : j \in {j \in DOMAIN Pins(i) : drives(i, j)}} :
                 i \in Instances}

\* Spec 4.2 Step 1 and the glossary (resolved net): a partition input
\* reads every source its net is fed from through the parent's assignments.
\* So once Phase 2 is over, every output pin of another instance on a net
\* that is assigned nowhere and that the input's net is fed from is a
\* partner of the input, or the parent's logic is (it stands between them).
InputSeesAllSources ==
    pc \in {"links", "rename", "done"} =>
      \A id \in PortIds :
        LET port == PortAt(id)
            own  == design.pin[id[1]][id[2]]
        IN  (port.kwd = KwIn /\ port.type = "wire") =>
              \A n \in {n \in Nets : FeedsFrom[own, n] /\ \A m \in Nets : ~AliasEdges[n, m]} :
                \A d \in DriversOn(n) :
                  d[1] # id[1] =>
                    \E q \in DOMAIN port.partners :
                       \/ port.partners[q].instance = d[1]
                       \/ port.partners[q].port = LogicName(port.name)

=============================================================================
