---------------------------- MODULE MC_HierGraph ----------------------------
(***************************************************************************)
(* Model-checking instances of HierGraph: a top module T and modules A,   *)
(* B, C, where a module only instantiates modules after it (T > A > B >   *)
(* C), T has up to three cells, A and B up to two. The cells of a body    *)
(* are named u1, u2, u3 in body order. A T with a single cell is the      *)
(* design after Verilator's wrapTop; a T with several cells is the design *)
(* before it.                                                             *)
(***************************************************************************)
EXTENDS HierGraph

InstName == <<"u1", "u2", "u3">>

\* Sequences of at most n module names.
Lists(mods, n) == UNION {[1..k -> mods] : k \in 0..n}

AsCells(s) == [i \in DOMAIN s |-> [inst |-> InstName[i], mod |-> s[i]]]

Bodies ==
    {[top |-> "T",
      children |-> ("T" :> AsCells(t)) @@ ("A" :> AsCells(x)) @@
                   ("B" :> AsCells(y)) @@ ("C" :> << >>)] :
        t \in Lists({"A", "B", "C"}, 3), x \in Lists({"B", "C"}, 2),
        y \in Lists({"C"}, 2)}

\* The source file of each module; A and B are written in one file.
MCFile == [m \in {"T", "A", "B", "C"} |-> CASE m = "T" -> "t.v" [] m = "C" -> "c.v" [] OTHER -> "ab.v"]

MCLibs == {[top |-> l.top, children |-> l.children, file |-> MCFile, tree |-> ElabTreeOf(l)] : l \in Bodies}

(***************************************************************************)
(* A two-byte digest for every path the visitor may hash (OUTLEN is 16 in *)
(* the code; two bytes keep the same shape). Type-paths get 64 plus their *)
(* length as first byte, instance paths 128 plus their length, and the    *)
(* names below "$root" as base-4 digits in the second; $root.A and $root.B *)
(* get 01 23 and 12 03, the two digests that read the same when a byte is *)
(* written without its leading zero. The table is injective.             *)
(***************************************************************************)
Digit == ("A" :> 1) @@ ("B" :> 2) @@ ("C" :> 3) @@ ("u1" :> 1) @@ ("u2" :> 2) @@ ("u3" :> 3)

PathCode(s) == FoldLeft(LAMBDA acc, x : 4 * acc + Digit[x], 0, Tail(s))

MCDigest(s) ==
    CASE s = <<ROOT, "A">>                 -> <<1, 35>>
      [] s = <<ROOT, "B">>                 -> <<18, 3>>
      [] s[Len(s)] \in {"u1", "u2", "u3"} -> <<128 + Len(s), PathCode(s)>>
      [] OTHER                             -> <<64 + Len(s), PathCode(s)>>

=============================================================================
