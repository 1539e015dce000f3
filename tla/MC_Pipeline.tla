----------------------------- MODULE MC_Pipeline -----------------------------
(***************************************************************************)
(* Model-checking instances of Pipeline: the designs of MC_PortAnalyzer   *)
(* (two partitions p1, p2, one ordinary instance q, three nets), whose     *)
(* analyzer report is fed to the generator.                                *)
(***************************************************************************)
EXTENDS Pipeline

CONSTANTS a, b, c   \* net names (model values)

MCNets == {<<a>>, <<b>>, <<c>>}

MCSortedPartitions == <<"p1", "p2">>

Cells == << [kind |-> "Cell", inst |-> "p1"],
            [kind |-> "Cell", inst |-> "p2"],
            [kind |-> "Cell", inst |-> "q"] >>

\* Designs whose partition module has ports i and o with the keywords of
\* partKwds, pins on nets, one port d on q and at most one parent port; the
\* body is the three cells (wire chains are PortAnalyzer's runs).
DesignsOf(partKwds, qKwds, ioKwds) ==
    [ports      : {<< <<<<"i">>, ki>>, <<<<"o">>, ko>> >> : <<ki, ko>> \in partKwds},
     pin        : [{"p1", "p2"} -> MCNets \X MCNets],
     otherPorts : {[i \in {"q"} |-> << <<<<"d">>, kq>> >>] : kq \in qKwds},
     otherPin   : {[i \in {"q"} |-> <<x>>] : x \in MCNets},
     parentIO   : {<<>>} \cup {<< <<n, kw>> >> : n \in MCNets, kw \in ioKwds},
     body       : {Cells}]

\* Every pair of input and output keywords on the partition ports.
MCPipelineDesigns ==
    DesignsOf({KwIn, KwOut} \X {KwIn, KwOut},
              {KwIn, KwOut}, {KwIn, KwOut})

\* A partition module with two inputs and an output, no parent port: one
\* output can feed both inputs of the other partition (fan-out), which
\* Phase 3 renames.
MCPipelineDesignsFanout ==
    [ports      : {<< <<<<"i1">>, KwIn>>, <<<<"i2">>, KwIn>>, <<<<"o">>, KwOut>> >>},
     pin        : [{"p1", "p2"} -> MCNets \X MCNets \X MCNets],
     otherPorts : {[i \in {"q"} |-> << <<<<"d">>, kq>> >>] : kq \in {KwIn, KwOut}},
     otherPin   : {[i \in {"q"} |-> <<x>>] : x \in MCNets},
     parentIO   : {<<>>},
     body       : {Cells}]

MCPipelineDesignsAll == MCPipelineDesigns \cup MCPipelineDesignsFanout

\* Declared widths on the type tables' boundaries: a one-bit port, a byte,
\* one bit over two bytes, and the widest type.
MCWidths == (<<"i">> :> 8) @@ (<<"o">> :> 64) @@ (<<"i1">> :> 1) @@ (<<"i2">> :> 17)

MCSymmetry == Permutations({a, b, c})

=============================================================================
