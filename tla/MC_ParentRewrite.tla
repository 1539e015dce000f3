------------------------- MODULE MC_ParentRewrite -------------------------
(***************************************************************************)
(* Parent files with two instances p1, p2 of the partition module "Mod"    *)
(* and one instance q of another module "Q", declared in any order, each   *)
(* written in one of the layouts Verilog code uses; p1 and p2 may also     *)
(* share one declaration (Mod p1 (...), p2 (...);).                        *)
(***************************************************************************)
EXTENDS ParentRewrite

MCPartitions == <<"p1", "p2">>
MCPortRanks  == [x \in {"p1", "p2"} |-> IF x = "p1" THEN <<1, 1>> ELSE <<2, 2>>]

\* One instance and its port connections.
Inst(x) == <<x, "(", ".i", "(", "a", ")", ")">>

\* A declaration of module m for the instances xs, in a layout:
\*   "line"       m x (...);
\*   "params"     m #(.W(8)) x (...);
\*   "paramLines" m #(  /  .W(8)  /  ) x (...);
\*   "nameLine"   m  /  x (...);
Decl(m, xs, layout) ==
    LET head == CASE layout = "line"       -> <<m>>
                  [] layout = "params"     -> <<m, "#(", ".W", "(", "8", ")", ")">>
                  [] layout = "paramLines" -> <<m, "#(", NL, ".W", "(", "8", ")", NL, ")">>
                  [] layout = "nameLine"   -> <<m, NL>>
        insts == FoldLeft(LAMBDA acc, x : IF acc = <<>> THEN Inst(x) ELSE acc \o <<",">> \o Inst(x),
                          <<>>, xs)
    IN  head \o insts \o <<";", NL>>

Layouts == {"line", "params", "paramLines", "nameLine"}

\* The declarations of a parent body, in any order.
DeclSets ==
    {<< <<"Mod", <<"p1">>>>, <<"Mod", <<"p2">>>>, <<"Q", <<"q">>>> >>,
     << <<"Mod", <<"p1", "p2">>>>, <<"Q", <<"q">>>> >>}

\* Every order of the declarations of a set.
Arrangements ==
    UNION {{[j \in 1..Len(ds) |-> ds[p[j]]] :
              p \in {p \in [1..Len(ds) -> 1..Len(ds)] : IsInjective(p)}} :
           ds \in DeclSets}

MCParentTexts ==
    UNION {{FoldLeft(LAMBDA acc, d : acc \o d, <<"module", "top", ";", NL>>,
                     [j \in 1..Len(ds) |-> Decl(ds[j][1], ds[j][2], lay[j])])
              \o <<"endmodule", NL>> :
              lay \in [1..Len(ds) -> Layouts]} :
           ds \in Arrangements}

=============================================================================
