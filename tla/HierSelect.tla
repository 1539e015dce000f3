----------------------------- MODULE HierSelect -----------------------------
(***************************************************************************)
(* What the hierarchy-duplication finder promises (HierCellsGraphVisitor,  *)
(* runBFSCheckDuplicateHashes): over the elaborated instance tree, pick    *)
(* the shallowest level holding two instances with the same type-path,    *)
(* and at that level a group of same-type-path instances with the largest *)
(* sum of weights (a leaf weighs 1, an inner node the sum of its           *)
(* children). The result is the group's module, its shared parent and its *)
(* members; "none" when no level has such a pair. Among groups of equal   *)
(* weight any one may be chosen.                                           *)
(*                                                                         *)
(* tree maps every instance path (a non-empty sequence of instance names  *)
(* from the top module down) to the module it instantiates; it does not   *)
(* change. result goes from pending to the choice in one step.            *)
(***************************************************************************)
EXTENDS Integers, Sequences, SequencesExt, FiniteSets, FiniteSetsExt

VARIABLES tree, result

Paths == DOMAIN tree

\* The chain of module types from the top down to path p.
TypePath(p) == [i \in 1..Len(p) |-> tree[SubSeq(p, 1, i)]]

IsLeafPath(p) == ~\E q \in Paths : Len(q) = Len(p) + 1 /\ IsPrefix(p, q)

\* The weight of p is the number of leaves at or below it.
LeafWeight(p) == Cardinality({q \in Paths : IsPrefix(p, q) /\ IsLeafPath(q)})

\* The report for group G, whose members share the parent path par: their
\* module, the parent, the members and how many names are listed.
Report(G, par) ==
    [status  |-> "found",
     module  |-> tree[CHOOSE p \in G : TRUE],
     parent  |-> par,
     members |-> G,
     count   |-> Cardinality(G)]

\* The result before the choice, and when no level has a duplicate.
NoReport(st) == [status |-> st, module |-> "", parent |-> <<>>, members |-> {}, count |-> 0]

(***************************************************************************)
(* The results the finder may report. A group is the set of instances     *)
(* sharing one type-path (so they are on one level); a duplicate group    *)
(* has two or more. Among the duplicate groups of the shallowest level,   *)
(* the winners have the largest sum of member weights, counted with       *)
(* multiplicity. A winner is reported only with the parent its members    *)
(* share; a winner without one has no correct report.                     *)
(***************************************************************************)
Outcomes ==
    LET tp     == [p \in Paths |-> TypePath(p)]
        lw     == [p \in Paths |-> LeafWeight(p)]
        group  == [p \in Paths |-> {q \in Paths : tp[q] = tp[p]}]
        dups   == {group[p] : p \in {p \in Paths : Cardinality(group[p]) >= 2}}
        depth(G)  == Len(CHOOSE p \in G : TRUE)
        weight(G) == MapThenSumSet(LAMBDA p : lw[p], G)
        top    == {G \in dups : \A H \in dups : depth(G) <= depth(H)}
        winners == {G \in top : \A H \in top : weight(H) <= weight(G)}
    IN  IF dups = {} THEN {NoReport("none")}
        ELSE {Report(G, Front(CHOOSE p \in G : TRUE)) :
                G \in {G \in winners : \A p, q \in G : Front(p) = Front(q)}}

Init == result = NoReport("pending")

Select ==
    /\ result = NoReport("pending")
    /\ result' \in Outcomes
    /\ UNCHANGED tree

Spec == Init /\ [][Select]_<<tree, result>> /\ WF_<<tree, result>>(Select)

=============================================================================
