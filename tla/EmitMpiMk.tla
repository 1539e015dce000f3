------------------------------ MODULE EmitMpiMk ------------------------------
(***************************************************************************)
(* EmitMpiMk::emit (V3EmitMpiMk.cpp): write <makeDir>/Makefile, whose      *)
(* SRC_FILES lists the .v and .sv files of the AST file list and whose     *)
(* VERILATOR_FLAGS holds the words of the original argString that are not  *)
(* such a file and not --mmpi-mk.                                          *)
(*                                                                         *)
(* Every text is a sequence of tokens: a file name or a flag is a word of  *)
(* tokens, and the layout characters the code writes (blank, tab,          *)
(* backslash, line break) are tokens of their own. The fixed comment and   *)
(* rule lines are abstracted to one comment token each; V3OutMkFile, which *)
(* is not part of this repository, is taken to write its text unchanged.   *)
(* The meaning of the written file is modelled as GNU make reads it (a     *)
(* backslash before a line break joins the lines, "#" starts a comment)    *)
(* and as the shell splits an expanded variable into words.               *)
(***************************************************************************)
EXTENDS Integers, Sequences, SequencesExt, FiniteSets

CONSTANTS
    FileLists,   \* the names the AST file list (rootp()->filesp()) may hold
    ArgStrings,  \* the values argString may have
    CFlags,      \* v3Global.opt.cFlags()
    LdLibs,      \* v3Global.opt.ldLibs()
    SP, TAB, BS, NL  \* blank, tab, backslash and line break

MMPI == <<"--mmpi-mk">>
Comment == <<"#", "comment", NL>>

VARIABLES
    files,      \* the AST file list
    argString,  \* the argument of emitMpiMk
    pc,         \* "head", "src", "flags" or "done"
    text,       \* what has been written to the Makefile
    sources,    \* source_file_set
    i,          \* the position in the AST file list
    k,          \* the position in tokens
    flags       \* flags_for_makefile

vars == <<files, argString, pc, text, sources, i, k, flags>>

\* endsWith(str, suffix)
EndsWith(str, suffix) == IsSuffix(suffix, str)

\* The words of s read by std::istream_iterator<std::string>: the maximal
\* runs of tokens that are not blanks.
RECURSIVE Words(_)
Words(s) ==
    LET end == Min({j \in 1..Len(s) : s[j] \in {SP, TAB, NL}} \cup {Len(s) + 1})
    IN  CASE s = <<>> -> <<>>
          [] end = 1  -> Words(Tail(s))
          [] OTHER    -> <<SubSeq(s, 1, end - 1)>> \o Words(SubSeq(s, end, Len(s)))

tokens == Words(argString)

\* The file text up to "SRC_FILES = \": header, comments and variables.
HeadText ==
    Comment \o Comment \o
    <<"TOP_MODULE", SP, "=", SP, "top", NL>> \o
    Comment \o <<"SRC_FILES", SP, "=", SP, BS>>

Init ==
    /\ files \in FileLists
    /\ argString \in ArgStrings
    /\ pc = "head"
    /\ text = <<>>
    /\ sources = {}
    /\ i = 1
    /\ k = 1
    /\ flags = <<>>

\* Steps 1 to 5: open the Makefile, write the header and the variables.
WriteHead ==
    /\ pc = "head"
    /\ text' = HeadText
    /\ pc' = "src"
    /\ UNCHANGED <<files, argString, sources, i, k, flags>>

\* 5a: a .v or .sv file of the AST list is written and remembered.
AddSourceFile ==
    /\ pc = "src" /\ i <= Len(files)
    /\ EndsWith(files[i], <<".", "v">>) \/ EndsWith(files[i], <<".", "s", "v">>)
    /\ text' = text \o <<TAB>> \o files[i] \o <<SP, BS>>
    /\ sources' = sources \cup {files[i]}
    /\ i' = i + 1
    /\ UNCHANGED <<files, argString, pc, k, flags>>

SkipFile ==
    /\ pc = "src" /\ i <= Len(files)
    /\ ~EndsWith(files[i], <<".", "v">>) /\ ~EndsWith(files[i], <<".", "s", "v">>)
    /\ i' = i + 1
    /\ UNCHANGED <<files, argString, pc, text, sources, k, flags>>

EndSourceFiles ==
    /\ pc = "src" /\ i > Len(files)
    /\ text' = text \o <<NL>>
    /\ pc' = "flags"
    /\ UNCHANGED <<files, argString, sources, i, k, flags>>

\* 5b: one token of argString, kept unless it is a source file or --mmpi-mk.
AddFlag ==
    /\ pc = "flags" /\ k <= Len(tokens)
    /\ tokens[k] \notin sources /\ tokens[k] # MMPI
    /\ flags' = flags \o <<TAB>> \o tokens[k] \o <<SP, BS, NL>>
    /\ k' = k + 1
    /\ UNCHANGED <<files, argString, pc, text, sources, i>>

DropFlag ==
    /\ pc = "flags" /\ k <= Len(tokens)
    /\ tokens[k] \in sources \/ tokens[k] = MMPI
    /\ k' = k + 1
    /\ UNCHANGED <<files, argString, pc, text, sources, i, flags>>

\* A user flag on a continuation line of its own.
Continued(s) == FlattenSeq([j \in DOMAIN s |-> <<TAB>> \o s[j] \o <<SP, BS, NL>>])

\* VERILATOR_FLAGS with the last " \\\n" cut to " ", then VM_USER_CFLAGS,
\* VM_USER_LDLIBS and the rules.
WriteFlagsAndRules ==
    /\ pc = "flags" /\ k > Len(tokens)
    /\ text' = text \o Comment \o <<"VERILATOR_FLAGS", SP, "=", SP, BS>>
               \o (IF flags = <<>> THEN <<>> ELSE SubSeq(flags, 1, Len(flags) - 2))
               \o <<NL>> \o Comment
               \o <<"VM_USER_CFLAGS", SP, "=", SP, BS, NL>> \o Continued(CFlags) \o <<NL>>
               \o <<"VM_USER_LDLIBS", SP, "=", SP, BS, NL>> \o Continued(LdLibs) \o <<NL>>
               \o Comment
    /\ pc' = "done"
    /\ UNCHANGED <<files, argString, sources, i, k, flags>>

Next ==
    \/ WriteHead \/ AddSourceFile \/ SkipFile \/ EndSourceFiles
    \/ AddFlag \/ DropFlag \/ WriteFlagsAndRules

Spec == Init /\ [][Next]_vars /\ WF_vars(Next)

-----------------------------------------------------------------------------
(* How the written Makefile is read.                                       *)

\* GNU make: a backslash before a line break joins the two lines.
RECURSIVE Joined(_)
Joined(t) ==
    CASE Len(t) < 2              -> t
      [] t[1] = BS /\ t[2] = NL  -> <<SP>> \o Joined(SubSeq(t, 3, Len(t)))
      [] OTHER                   -> <<Head(t)>> \o Joined(Tail(t))

RECURSIVE Lines(_)
Lines(t) ==
    LET end == Min({j \in 1..Len(t) : t[j] = NL} \cup {Len(t) + 1})
    IN  IF t = <<>> THEN <<>>
        ELSE <<SubSeq(t, 1, end - 1)>> \o Lines(SubSeq(t, end + 1, Len(t)))

\* The value make gives variable v: the rest of its "v = ..." line up to
\* a comment.
MakeValue(t, v) ==
    LET ls   == {l \in ToSet(Lines(Joined(t))) : Len(l) >= 3 /\ l[1] = v /\ l[3] = "="}
        l    == CHOOSE l \in ls : TRUE
        stop == Min({j \in 1..Len(l) : l[j] = "#"} \cup {Len(l) + 1})
    IN  SubSeq(l, 4, stop - 1)

\* The words the shell makes of an expanded value: blanks separate words,
\* and a backslash makes the token after it part of the word.
RECURSIVE ShellSplit(_, _, _)
ShellSplit(s, w, ws) ==
    LET done == IF w = <<>> THEN ws ELSE Append(ws, w)
    IN  CASE s = <<>>                    -> done
          [] Head(s) = BS /\ Len(s) > 1  -> ShellSplit(SubSeq(s, 3, Len(s)), Append(w, s[2]), ws)
          [] Head(s) \in {SP, TAB, NL}   -> ShellSplit(Tail(s), <<>>, done)
          [] OTHER                       -> ShellSplit(Tail(s), Append(w, Head(s)), ws)

ShellWords(s) == ShellSplit(s, <<>>, <<>>)

(***************************************************************************)
(* The comments of emit: SRC_FILES holds all .v and .sv source files and   *)
(* VERILATOR_FLAGS all other flags of the original command line. So the    *)
(* elaborate rule, which passes $(VERILATOR_FLAGS) and $(SRC_FILES) to     *)
(* verilator, hands it each kept flag and each source file, in order, as   *)
(* one argument.                                                           *)
(***************************************************************************)
MakefileVariablesHoldInputs ==
    pc = "done" =>
      LET IsSource(f) == EndsWith(f, <<".", "v">>) \/ EndsWith(f, <<".", "s", "v">>)
          srcs        == SelectSeq(files, IsSource)
          IsFlag(w)   == w \notin ToSet(srcs) /\ w # MMPI
      IN  /\ ShellWords(MakeValue(text, "SRC_FILES")) = srcs
          /\ ShellWords(MakeValue(text, "VERILATOR_FLAGS")) = SelectSeq(tokens, IsFlag)

=============================================================================
