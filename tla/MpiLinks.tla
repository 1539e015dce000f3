------------------------------- MODULE MpiLinks -------------------------------
(***************************************************************************)
(* MPICodeGenerator::generateMpiVerificationFile (V3MMPI_Include.h): read *)
(* the communication report, collect one P2P_Link per physical connection *)
(* into communication_graph (keyed by sender and receiver rank), then     *)
(* emit one message struct per rank pair whose fields are the links'      *)
(* sender port names.                                                     *)
(*                                                                         *)
(* A report is a sequence of <<partition name, ports>> in the order        *)
(* nlohmann::json iterates an object (sorted keys); each port is a record *)
(* with the fields the generator reads. Each iteration of the innermost   *)
(* loop (one communication partner of one port) is one step. A link keeps *)
(* the width of the port it was met from, which picks the C++ type of its *)
(* struct member and the MPI datatype of the same member.                 *)
(***************************************************************************)
EXTENDS Integers, Sequences, SequencesExt, FiniteSets, Functions

CONSTANTS
    Reports,             \* the JSON reports the generator may be given
    Builds               \* the values of the compile-time flag EXCLUDE_RANK_ZERO

VARIABLES
    excludeRankZero, \* whether the build defines EXCLUDE_RANK_ZERO (fixed)
    report,      \* the parsed JSON
    readable,    \* whether the file opens and parses
    pc,          \* "load", "collect", "done" or "failed"
    k,           \* the current (partition, port, partner) iteration
    graph,       \* communication_graph: <<sender rank, receiver rank>> -> links
    processed,   \* processed_physical_links
    structs,     \* emitted: rank pair -> the struct's field names, in order
    fieldTypes   \* emitted: rank pair -> [member, mpi] types of the fields

vars == <<excludeRankZero, report, readable, pc, k, graph, processed, structs, fieldTypes>>

\* The loop nest of Phase 1 flattened into its iterations.
Items(rep) ==
    LET part(i) == rep[i]
        one(i, j) == [l \in 1..Len(part(i)[2][j].partners) |->
                        [partition |-> part(i)[1], port |-> part(i)[2][j],
                         partner |-> part(i)[2][j].partners[l]]]
    IN  FoldLeft(LAMBDA acc, s : acc \o s, <<>>,
                 [i \in 1..Len(rep) |->
                    FoldLeft(LAMBDA acc, s : acc \o s, <<>>,
                             [j \in 1..Len(part(i)[2]) |-> one(i, j)])])

Ranks(rep) == {it.port.mpi_rank : it \in ToSet(Items(rep))}
              \cup {it.partner.mpi_rank : it \in ToSet(Items(rep))}

Cur == Items(report)[k]

\* The port filter of Phase 1.
Communicates(p) == p.active = "Yes" /\ p.Comm \in {"P2P", "broadcast"}

\* Mutant: the physical-link key taken in the iteration's own orientation.
PhysicalKeyAsSeen(cr, pr, cp, pp) == <<cr, pr, cp, pp>>

\* The key of a physical link: the two ranks and ports, lower rank first.
PhysicalKey(cr, pr, cp, pp) ==
    IF cr < pr THEN <<cr, pr, cp, pp>> ELSE <<pr, cr, pp, cp>>

\* Mutant: the rank-zero exclusion written as "rank <= 1".
RankExcludedUpToOne(cr, pr) == excludeRankZero /\ (cr <= 1 \/ pr <= 1)

\* #ifdef EXCLUDE_RANK_ZERO: skip a link that has rank 0 at either end.
RankExcluded(cr, pr) == excludeRankZero /\ (cr = 0 \/ pr = 0)

\* Mutant: only the capitalised spelling is taken for an input.
IsInputOnlyCap(dir) == dir = "Input"

\* direction == "in" || direction == "Input"
IsInput(dir) == dir = "in" \/ dir = "Input"

\* The link the iteration builds: the current port is the receiver when it
\* is an input, the sender otherwise.
NewLink(it) ==
    IF IsInput(it.port.direction)
    THEN [sender_instance |-> it.partner.instance, sender_rank |-> it.partner.mpi_rank,
          sender_port |-> it.partner.port,
          receiver_partition |-> it.partition, receiver_rank |-> it.port.mpi_rank,
          receiver_port |-> it.port.port_name, width |-> it.port.width]
    ELSE [sender_instance |-> it.partition, sender_rank |-> it.port.mpi_rank,
          sender_port |-> it.port.port_name,
          receiver_partition |-> it.partner.instance, receiver_rank |-> it.partner.mpi_rank,
          receiver_port |-> it.partner.port, width |-> it.port.width]

\* getCppType(width)
CppType(width) ==
    CASE width = 1   -> "bool"
      [] width <= 8  -> "uint8_t"
      [] width <= 16 -> "uint16_t"
      [] width <= 32 -> "uint32_t"
      [] OTHER       -> "uint64_t"

\* Mutant: getMpiType with "width < 8" for "width <= 8".
MpiTypeBelowEight(width) ==
    CASE width = 1   -> "MPI_C_BOOL"
      [] width < 8   -> "MPI_UINT8_T"
      [] width <= 16 -> "MPI_UINT16_T"
      [] width <= 32 -> "MPI_UINT32_T"
      [] OTHER       -> "MPI_UINT64_T"

\* getMpiType(width)
MpiType(width) ==
    CASE width = 1   -> "MPI_C_BOOL"
      [] width <= 8  -> "MPI_UINT8_T"
      [] width <= 16 -> "MPI_UINT16_T"
      [] width <= 32 -> "MPI_UINT32_T"
      [] OTHER       -> "MPI_UINT64_T"

ItemKey(it) ==
    PhysicalKey(it.port.mpi_rank, it.partner.mpi_rank, it.port.port_name, it.partner.port)

Init ==
    /\ excludeRankZero \in Builds
    /\ report \in Reports
    /\ readable \in BOOLEAN
    /\ pc = "load"
    /\ k = 1
    /\ graph = <<>>
    /\ processed = {}
    /\ structs = <<>>
    /\ fieldTypes = <<>>

\* The file cannot be opened or does not parse: an error and an early return.
LoadFails ==
    /\ pc = "load" /\ ~readable
    /\ pc' = "failed"
    /\ UNCHANGED <<excludeRankZero, report, readable, k, graph, processed, structs, fieldTypes>>

Load ==
    /\ pc = "load" /\ readable
    /\ pc' = "collect"
    /\ graph' = [rk \in Ranks(report) \X Ranks(report) |-> <<>>]
    /\ UNCHANGED <<excludeRankZero, report, readable, k, processed, structs, fieldTypes>>

\* A partner of a port the filter drops, or (with the flag) a link to rank 0.
SkipItem ==
    /\ pc = "collect" /\ k <= Len(Items(report))
    /\ \/ ~Communicates(Cur.port)
       \/ RankExcluded(Cur.port.mpi_rank, Cur.partner.mpi_rank)
    /\ k' = k + 1
    /\ UNCHANGED <<excludeRankZero, report, readable, pc, graph, processed, structs, fieldTypes>>

\* The physical link was already met from its other end.
SkipProcessed ==
    /\ pc = "collect" /\ k <= Len(Items(report))
    /\ Communicates(Cur.port)
    /\ ~RankExcluded(Cur.port.mpi_rank, Cur.partner.mpi_rank)
    /\ ItemKey(Cur) \in processed
    /\ k' = k + 1
    /\ UNCHANGED <<excludeRankZero, report, readable, pc, graph, processed, structs, fieldTypes>>

RecordLink ==
    /\ pc = "collect" /\ k <= Len(Items(report))
    /\ Communicates(Cur.port)
    /\ ~RankExcluded(Cur.port.mpi_rank, Cur.partner.mpi_rank)
    /\ ItemKey(Cur) \notin processed
    /\ LET l == NewLink(Cur)
           rk == <<l.sender_rank, l.receiver_rank>>
       IN  graph' = [graph EXCEPT ![rk] = Append(@, l)]
    /\ processed' = processed \cup {ItemKey(Cur)}
    /\ k' = k + 1
    /\ UNCHANGED <<excludeRankZero, report, readable, pc, structs, fieldTypes>>

\* Emission: a struct per non-empty rank pair, one field per link named
\* after the sender port and typed by getCppType; initialize_mpi_types
\* gives the same fields, in the same order, the datatypes of getMpiType.
EmitStructs ==
    /\ pc = "collect" /\ k > Len(Items(report))
    /\ structs' = [rk \in {r \in DOMAIN graph : graph[r] # <<>>} |->
                     [i \in 1..Len(graph[rk]) |-> graph[rk][i].sender_port]]
    /\ fieldTypes' = [rk \in {r \in DOMAIN graph : graph[r] # <<>>} |->
                        [i \in 1..Len(graph[rk]) |->
                           [member |-> CppType(graph[rk][i].width),
                            mpi    |-> MpiType(graph[rk][i].width)]]]
    /\ pc' = "done"
    /\ UNCHANGED <<excludeRankZero, report, readable, k, graph, processed>>

Next == LoadFails \/ Load \/ SkipItem \/ SkipProcessed \/ RecordLink \/ EmitStructs

Spec == Init /\ [][Next]_vars /\ WF_vars(Next)

-----------------------------------------------------------------------------
Links == UNION {ToSet(graph[rk]) : rk \in DOMAIN graph}

\* The links of communication_graph, counted with multiplicity.
LinkSlots == UNION {{rk} \X DOMAIN graph[rk] : rk \in DOMAIN graph}

TypeOK ==
    /\ pc \in {"load", "collect", "done", "failed"}
    /\ k \in Nat
    /\ \A key \in processed : key[1] \in Int /\ key[2] \in Int
    /\ \A rk \in DOMAIN graph : \A i \in DOMAIN graph[rk] :
           <<graph[rk][i].sender_rank, graph[rk][i].receiver_rank>> = rk
    /\ pc = "done" => \A rk \in DOMAIN structs : Len(structs[rk]) = Len(graph[rk])

\* The two ends of a link, and of a report iteration, as <<rank, port>>:
\* MPI addresses processes, and every non-partition instance is rank 0.
LinkEnds(l) == {<<l.sender_rank, l.sender_port>>, <<l.receiver_rank, l.receiver_port>>}
ItemEnds(it) == {<<it.port.mpi_rank, it.port.port_name>>,
                 <<it.partner.mpi_rank, it.partner.port>>}

\* The direction the report gives an endpoint, "" for one it does not list
\* (a port of the parent, "system").
DirOf(e) ==
    LET ps == {p \in UNION {{<<report[i][1], q>> : q \in ToSet(report[i][2])} : i \in DOMAIN report} :
                 <<p[1], p[2].port_name>> = e}
    IN  IF ps = {} THEN "" ELSE (CHOOSE p \in ps : TRUE)[2].direction

\* The port names the report gives the partition of rank r.
PortsAtRank(r) ==
    {p.port_name : p \in {p \in UNION {ToSet(report[i][2]) : i \in DOMAIN report} :
                             p.mpi_rank = r}}

\* The report names every partner of a partition by a port that partition
\* declares: Phase 3 renamed no partner of a partition-to-partition channel.
PartnersAsDeclared ==
    \A it \in ToSet(Items(report)) :
        it.partner.mpi_rank # 0 => it.partner.port \in PortsAtRank(it.partner.mpi_rank)

(***************************************************************************)
(* When the report names every partner as declared, every connection it   *)
(* lists between two communicating ports, from either end or from both,   *)
(* becomes exactly one link of communication_graph once Phase 1 is over:  *)
(* the processed_physical_links check must recognise a connection met a   *)
(* second time from its other end, whatever the ranks and the order of    *)
(* the partitions. A partner renamed <remote>_<local> by Phase 3 gives the *)
(* two ends of one wire different keys and the wire two links; that case  *)
(* is the struct_fields finding, and this property does not claim it.     *)
(***************************************************************************)
WiresLinkedOnce ==
    pc = "done" /\ PartnersAsDeclared =>
      \A it \in ToSet(Items(report)) :
        (Communicates(it.port) /\ ~(excludeRankZero /\ 0 \in {it.port.mpi_rank, it.partner.mpi_rank})) =>
          Cardinality({s \in LinkSlots : LinkEnds(graph[s[1]][s[2]]) = ItemEnds(it)}) = 1

(***************************************************************************)
(* Data flows out of an output and into an input: no link has an input    *)
(* port of the report as its sender or an output port as its receiver,    *)
(* whichever end of the connection Phase 1 met first.                     *)
(***************************************************************************)
LinksFlowOutToIn ==
    \A l \in Links :
        /\ DirOf(<<l.sender_instance, l.sender_port>>) # "in"
        /\ DirOf(<<l.receiver_partition, l.receiver_port>>) # "out"

(***************************************************************************)
(* The emitted struct mpi_rank_S_to_R_t declares one member per link,      *)
(* named after the link's sender port. For the generated metro_mpi.cpp to *)
(* compile and to carry each of S's ports once, the members of a struct   *)
(* sent by a partition (S > 0) are distinct ports of that partition, even *)
(* where Phase 3 of the analyzer renamed a partner to <remote>_<local>.    *)
(***************************************************************************)
StructFieldsArePorts ==
    pc = "done" =>
      \A rk \in DOMAIN structs :
         /\ IsInjective(structs[rk])
         /\ rk[1] # 0 => Range(structs[rk]) \subseteq PortsAtRank(rk[1])

\* The bits a C++ member type and an MPI datatype hold.
TypeBits ==
    ("bool" :> 1) @@ ("uint8_t" :> 8) @@ ("uint16_t" :> 16) @@ ("uint32_t" :> 32) @@
    ("uint64_t" :> 64) @@ ("MPI_C_BOOL" :> 1) @@ ("MPI_UINT8_T" :> 8) @@
    ("MPI_UINT16_T" :> 16) @@ ("MPI_UINT32_T" :> 32) @@ ("MPI_UINT64_T" :> 64)

(***************************************************************************)
(* MPI_Type_create_struct describes mpi_rank_S_to_R_t member by member:   *)
(* the i-th datatype of initialize_mpi_types must be as wide as the i-th  *)
(* member getCppType declared, or MPI_Send reads and MPI_Recv writes the  *)
(* wrong bytes; and a member must hold the width of its link's port (for  *)
(* ports of at most 64 bits, the widest type the tables have). The links  *)
(* of the checked reports have a few widths; the two tables are also      *)
(* compared at every width from 1 to 64, the boundaries 16 and 32          *)
(* included.                                                              *)
(***************************************************************************)
MessageLayoutMatches ==
    /\ pc = "done" =>
         \A rk \in DOMAIN fieldTypes : \A i \in DOMAIN fieldTypes[rk] :
           LET f == fieldTypes[rk][i]
               w == graph[rk][i].width
           IN  /\ TypeBits[f.member] = TypeBits[f.mpi]
               /\ w <= 64 => w <= TypeBits[f.member]
    /\ \A w \in 1..64 :
         /\ TypeBits[CppType(w)] = TypeBits[MpiType(w)]
         /\ w <= TypeBits[CppType(w)]

=============================================================================
