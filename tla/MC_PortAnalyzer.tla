--------------------------- MODULE MC_PortAnalyzer ---------------------------
(***************************************************************************)
(* Model-checking instances of PortAnalyzer: two partition instances p1, *)
(* p2 of one module type, one ordinary instance q, three nets, and parent *)
(* bodies made of the three cells followed by a few assignments.          *)
(***************************************************************************)
EXTENDS PortAnalyzer

CONSTANTS a, b, c   \* net names (model values)

MCNets == {<<a>>, <<b>>, <<c>>}

MCSortedPartitions == <<"p1", "p2">>

PortI == <<"i">>
PortO == <<"o">>
PortD == <<"d">>

Cells == << [kind |-> "Cell", inst |-> "p1"],
            [kind |-> "Cell", inst |-> "p2"],
            [kind |-> "Cell", inst |-> "q"] >>

Stmt(kd, l, r) == [kind |-> kd, lhs |-> l, rhs |-> r]

\* The assignments of a body: up to maxStmts between distinct nets.
Stmts(kinds, maxStmts) ==
    LET one == {Stmt(x[1], x[2], x[3]) :
                  x \in {x \in kinds \X MCNets \X MCNets : x[2] # x[3]}}
    IN  UNION {[1..m -> one] : m \in 0..maxStmts}

\* Bodies: the cells, then the assignments, each net assigned at most once.
Bodies(kinds, maxStmts) ==
    {Cells \o s : s \in {s \in Stmts(kinds, maxStmts) :
                         \A i, j \in DOMAIN s : i # j => s[i].lhs # s[j].lhs}}

\* Parent IO: none, or one port on one of the nets.
ParentIOs(kwds) == {<<>>} \cup {<< <<n, kw>> >> : n \in MCNets, kw \in kwds}

DesignsOf(partKwds, pinChoices, qKwds, qPins, ioKwds, kinds, maxStmts) ==
    [ports      : {<< <<PortI, ki>>, <<PortO, ko>> >> : <<ki, ko>> \in partKwds},
     pin        : [{"p1", "p2"} -> pinChoices \X pinChoices],
     otherPorts : {[i \in {"q"} |-> << <<PortD, kq>> >>] : kq \in qKwds},
     otherPin   : {[i \in {"q"} |-> <<x>>] : x \in qPins},
     parentIO   : ParentIOs(ioKwds),
     body       : Bodies(kinds, maxStmts)]

\* The general run: input/output partition ports on nets, constants or
\* unhandled expressions, one assignment.
MCDesigns ==
    DesignsOf({<<KwIn, KwOut>>}, MCNets \cup {CONSTEXPR, OTHEREXPR},
              {KwIn, KwOut}, MCNets,
              {KwIn, KwOut}, {"AssignW", "Assign"}, 1)

\* Two continuous assignments: enough for a net to feed two assignments and
\* for a two-hop chain between partitions.
MCDesignsTwoAssigns ==
    DesignsOf({<<KwIn, KwOut>>}, MCNets, {KwIn, KwOut}, MCNets,
              {}, {"AssignW"}, 2)

MCSafetyDesigns == MCDesigns \cup MCDesignsTwoAssigns

\* The partition module's first port is an inout.
MCDesignsInout ==
    DesignsOf({<<KwInout, KwOut>>}, MCNets \cup {CONSTEXPR},
              {KwIn, KwOut}, MCNets, {}, {"AssignW"}, 1)

\* Procedural bodies that may assign one net twice, as the two branches of
\* an if in one always block do (x = b; if (en) x = a;). Only designs that
\* drive every net once are kept: an assigned net carries no output pin,
\* and no two output pins share a net.
OneDriverPerNet(d) ==
    LET outs == [i \in {"p1", "p2", "q"} |->
                   IF i = "q" THEN IF d.otherPorts.q[1][2] = KwOut THEN {d.otherPin.q[1]} ELSE {}
                   ELSE {d.pin[i][2]}]
        lhs  == {d.body[j].lhs : j \in 4..Len(d.body)}
    IN  /\ \A i \in DOMAIN outs : outs[i] \cap lhs = {}
        /\ \A i, j \in DOMAIN outs : i # j => outs[i] \cap outs[j] \cap MCNets = {}

MCDesignsReassign ==
    {d \in [ports      : {<< <<PortI, KwIn>>, <<PortO, KwOut>> >>},
            pin        : [{"p1", "p2"} -> MCNets \X (MCNets \cup {OTHEREXPR})],
            otherPorts : {[i \in {"q"} |-> << <<PortD, kq>> >>] : kq \in {KwIn, KwOut}},
            otherPin   : {[i \in {"q"} |-> <<x>>] : x \in MCNets},
            parentIO   : {<<>>},
            body       : {Cells \o s : s \in Stmts({"Assign"}, 2)}] :
       OneDriverPerNet(d)}

MCSymmetry == Permutations({a, b, c})

=============================================================================
