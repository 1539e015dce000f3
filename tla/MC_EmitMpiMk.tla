---------------------------- MODULE MC_EmitMpiMk ----------------------------
(***************************************************************************)
(* The Makefile writer over small file lists and command lines: a .v, a    *)
(* .sv and a .vh file, and argStrings of up to three words drawn from      *)
(* those files, a plain flag and --mmpi-mk, separated by one blank as      *)
(* Verilator joins its arguments.                                          *)
(***************************************************************************)
EXTENDS EmitMpiMk

\* The layout characters, as TLA+ strings.
MCSP  == " "
MCTAB == "\t"
MCBS  == "\\"
MCNL  == "\n"

AV  == <<"a", ".", "v">>
BSV == <<"b", ".", "s", "v">>
HVH == <<"h", ".", "v", "h">>
Names == {AV, BSV, HVH}

\* Lists of distinct names, of length at most two.
MCFileLists ==
    {<<>>} \cup {<<f>> : f \in Names} \cup {<<f, g>> \in Names \X Names : f # g}

\* The words joined by single blanks.
JoinWords(ws) == FlattenSeq([j \in DOMAIN ws |-> IF j = 1 THEN ws[j] ELSE <<SP>> \o ws[j]])

MCArgStrings ==
    {JoinWords(ws) : ws \in BoundedSeq({AV, HVH, <<"--cc">>, MMPI}, 3)}

MCCFlags == <<<<"-O2">>>>
MCLdLibs == <<>>
=============================================================================
