---------------------------- MODULE ParentRewrite ----------------------------
(***************************************************************************)
(* MPIFileGenerator::generateAndModifyFiles (V3MMPI_Verilog.h): write the  *)
(* DPI stub and one wrapper per partition instance, then read the source   *)
(* file of the parent module and, for each partition instance in the map   *)
(* order of partitionData, regex_replace                                   *)
(*     (\bMOD\b)(.*?\bINST\b\s*\()   by   WRAPPER$2                        *)
(* over the whole file, and write metro_mpi/modified_<parent>.v.           *)
(*                                                                         *)
(* The file is a sequence of tokens: identifiers, punctuation and the line *)
(* break "\n". A token boundary is a \b boundary, so \bX\b matches a token *)
(* equal to X; ECMAScript "." matches anything but a line break, so the    *)
(* lazy .*? is the shortest run of tokens with no "\n" in it. The stub and *)
(* wrapper texts are abstracted to the PARTITION_ID each wrapper passes.   *)
(***************************************************************************)
EXTENDS Integers, Sequences, SequencesExt, FiniteSets

CONSTANTS
    OrigName,      \* partitionModuleOrigName
    Partitions,    \* the keys of partitionData, in std::map order
    PortRanks,     \* instance -> the mpi_rank of each of its ports, in order
    ParentTexts,   \* the contents the parent module's file may have
    NL             \* the line break token

VARIABLES
    opens,     \* whether the parent module's file can be opened
    pc,        \* "stub", "read", "replace", "done" or "failed"
    wrappers,  \* instance -> the PARTITION_ID its wrapper passes to the stub
    content,   \* parentFileContent
    it,        \* the current partition of the replacement loop
    out        \* the text written to modified_<parent>.v

vars == <<opens, pc, wrappers, content, it, out>>

\* wrapperModuleName = instanceName + "_" + partitionModuleOrigName + "_wrapper"
Wrapper(x) == x \o "_" \o OrigName \o "_wrapper"

\* The end of the lazy match from the module name at i: the first token x
\* followed by "(" before the line ends (the position of that "("), or 0.
MatchEnd(t, i, x) ==
    LET ends == {j \in (i+1)..(Len(t)-1) :
                   /\ t[j] = x /\ t[j+1] = "("
                   /\ \A h \in (i+1)..j : t[h] # NL}
    IN  IF ends = {} THEN 0 ELSE Min(ends) + 1

\* std::regex_replace: from position s, the leftmost match, its first group
\* replaced by w, then the search resumes after the match.
RECURSIVE RegexReplace(_, _, _, _)
RegexReplace(t, s, x, w) ==
    LET starts == {i \in s..Len(t) : t[i] = OrigName /\ MatchEnd(t, i, x) # 0}
        i      == Min(starts)
    IN  IF starts = {} THEN t
        ELSE RegexReplace([t EXCEPT ![i] = w], MatchEnd(t, i, x) + 1, x, w)

Init ==
    /\ opens \in BOOLEAN
    /\ pc = "stub"
    /\ wrappers = <<>>
    /\ content \in ParentTexts
    /\ it = 1
    /\ out = <<>>

\* Parts 1 and 2: the stub, then per instance a wrapper whose PARTITION_ID
\* is instancePorts.front().mpi_rank.
WriteStubAndWrappers ==
    /\ pc = "stub"
    /\ wrappers' = [x \in ToSet(Partitions) |-> PortRanks[x][1]]
    /\ pc' = "read"
    /\ UNCHANGED <<opens, content, it, out>>

\* Part 3: the parent module's file does not open; an error and a return.
OpenFails ==
    /\ pc = "read" /\ ~opens
    /\ pc' = "failed"
    /\ UNCHANGED <<opens, wrappers, content, it, out>>

\* The file is read whole into parentFileContent (content holds its text).
ReadParent ==
    /\ pc = "read" /\ opens
    /\ pc' = "replace"
    /\ UNCHANGED <<opens, wrappers, content, it, out>>

\* One iteration of the loop over partitionData.
ReplaceInstance ==
    /\ pc = "replace" /\ it <= Len(Partitions)
    /\ LET x == Partitions[it]
       IN  content' = RegexReplace(content, 1, x, Wrapper(x))
    /\ it' = it + 1
    /\ UNCHANGED <<opens, pc, wrappers, out>>

WriteParent ==
    /\ pc = "replace" /\ it > Len(Partitions)
    /\ out' = content
    /\ pc' = "done"
    /\ UNCHANGED <<opens, wrappers, content, it>>

Next == WriteStubAndWrappers \/ OpenFails \/ ReadParent \/ ReplaceInstance \/ WriteParent

Spec == Init /\ [][Next]_vars /\ WF_vars(Next)

-----------------------------------------------------------------------------
\* The first "x (" of text t: where instance x is declared.
DeclAt(t, x) == Min({j \in 1..(Len(t)-1) : t[j] = x /\ t[j+1] = "("} \cup {Len(t) + 1})

\* The module an instance is declared of: the last module name before it.
DeclModule(t, x, modules) ==
    LET ms == {h \in 1..(DeclAt(t, x) - 1) : t[h] \in modules}
    IN  IF ms = {} THEN "" ELSE t[Max(ms)]

\* Whether a parameter list #( ... ) stands between that module name and x.
HasParams(t, x, modules) ==
    \E h \in 1..(DeclAt(t, x) - 1) :
        /\ t[h] = "#("
        /\ \A g \in h..(DeclAt(t, x) - 1) : t[g] \notin modules

(***************************************************************************)
(* The comment above the regex says it finds the module type of each      *)
(* partition instance through parameters, comments and whitespace. So    *)
(* the written parent declares every partition instance of its own        *)
(* wrapper, in a form the wrapper accepts (the wrapper declares no        *)
(* parameters).                                                           *)
(***************************************************************************)
RewriteComplete ==
    pc = "done" =>
      LET modules == {OrigName} \cup {Wrapper(x) : x \in ToSet(Partitions)}
      IN  \A x \in ToSet(Partitions) :
             /\ DeclModule(out, x, modules) = Wrapper(x)
             /\ ~HasParams(out, x, modules)

=============================================================================
