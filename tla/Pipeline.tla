------------------------------- MODULE Pipeline -------------------------------
(***************************************************************************)
(* The back half of the Metro-MPI pass (V3Metro_MPI.h, after the parent   *)
(* module is found): PartitionPortAnalyzer::analyze, writeJsonReport to   *)
(* metro_mpi/partition_report.json, then                                   *)
(* MPICodeGenerator::generateMpiVerificationFile reading that file back.  *)
(* The analyzer is PortAnalyzer (extended: its state and actions are      *)
(* this module's), the generator an instance of MpiLinks; the report is    *)
(* the JSON the first writes and the second parses.                       *)
(***************************************************************************)
EXTENDS PortAnalyzer

CONSTANTS
    Builds,   \* the values of the generator's EXCLUDE_RANK_ZERO flag
    Widths    \* the declared width of each port of the partition module

VARIABLES
    excludeRankZero, report, readable, gpc, gk, graph, processed, structs, fieldTypes

paVars == <<design, pc, k, endpoints, alias, instMods, data, ci, pi, links, linkOrder, li>>
mlVars == <<excludeRankZero, report, readable, gpc, gk, graph, processed, structs, fieldTypes>>
allVars == <<paVars, mlVars>>

ML == INSTANCE MpiLinks WITH Reports <- {}, pc <- gpc, k <- gk

\* The direction keyword as writeJsonReport prints it (xmlKwd).
KwText(kw) ==
    CASE kw = KwIn    -> "in"
      [] kw = KwOut   -> "out"
      [] kw = KwInout -> "inout"

(***************************************************************************)
(* writeJsonReport: m_partitionData in key order, each port with the      *)
(* fields the generator reads, each partner as instance, port, rank; the  *)
(* width is getDTypeWidth of the port's declaration in the partition     *)
(* module.                                                                *)
(***************************************************************************)
JsonOf(d) ==
    LET order == SelectSeq(SortedPartitions, LAMBDA x : x \in DOMAIN d)
        port(p) == [port_name |-> p.name, direction |-> KwText(p.kwd), width |-> Widths[p.name],
                    active |-> p.active,
                    Comm |-> p.comm, mpi_rank |-> p.rank,
                    partners |-> [q \in DOMAIN p.partners |->
                                    [instance |-> p.partners[q].instance,
                                     port |-> p.partners[q].port,
                                     mpi_rank |-> p.partners[q].rank]]]
    IN  [i \in DOMAIN order |-> <<order[i], [j \in DOMAIN d[order[i]] |-> port(d[order[i]][j])]>>]

PipelineInit ==
    /\ Init
    /\ excludeRankZero \in Builds
    /\ report = <<>> /\ readable = FALSE /\ gpc = "idle" /\ gk = 1
    /\ graph = <<>> /\ processed = {} /\ structs = <<>> /\ fieldTypes = <<>>

\* The analysis runs first; the generator's state is untouched.
Analyze == Next /\ UNCHANGED mlVars

\* The report is written, or the file cannot be opened (nothing is written
\* and the generator later fails to open it).
WriteReport ==
    /\ pc = "done" /\ gpc = "idle"
    /\ report' = JsonOf(data)
    /\ readable' \in BOOLEAN
    /\ gpc' = "load"
    /\ UNCHANGED <<paVars, excludeRankZero, gk, graph, processed, structs, fieldTypes>>

Generate ==
    /\ ML!Next
    /\ UNCHANGED paVars

PipelineNext == Analyze \/ WriteReport \/ Generate

\* The pass is one sequential call chain: every enabled step is taken.
PipelineSpec == PipelineInit /\ [][PipelineNext]_allVars /\ WF_allVars(PipelineNext)

-----------------------------------------------------------------------------
\* Every connection of the analyzer's report between communicating ports
\* becomes exactly one link of the generator's communication_graph.
WiresLinkedOnce == ML!WiresLinkedOnce

\* No generated link sends from an input port or into an output port.
LinksFlowOutToIn == ML!LinksFlowOutToIn

\* The members of every message struct a partition sends are distinct ports
\* of that partition.
StructFieldsArePorts == ML!StructFieldsArePorts

\* Every member of a message struct and its MPI datatype are as wide as
\* each other and as the port the member carries.
MessageLayoutMatches == ML!MessageLayoutMatches

=============================================================================
