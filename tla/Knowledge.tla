----------------------------- MODULE Knowledge -----------------------------
(***************************************************************************)
(* The tools that look at the shared knowledge: agent_config/tooling.py.   *)
(* They write nothing; what matters is which paths they accept, and what   *)
(* they show of directories and long files.                                *)
(***************************************************************************)
EXTENDS Naturals, FiniteSets, SequencesExt

CONSTANT Nothing   \* the path and the answer of what is refused

VARIABLES
  given,           \* the arguments of the call, Nothing between calls
  target,          \* the path below the knowledge root they stand for
  answer           \* what is shown: nodes of a tree or lines of a file

knowledgeVars == <<given, target, answer>>

\* What is under the knowledge root, as paths, with the lines of files.
Directories == {<<>>, <<"docs">>}

Documents == {<<"docs", "long">>, <<"short">>}

Lines(path) == IF path = <<"docs", "long">> THEN 4 ELSE 1

\* _MAX_READ_FILE_LINES and _READ_FILE_EDGE_LINES, scaled down
MaxLines == 3

EdgeLines == 1

\* Paths as they are given: absolute ones, and relative ones that may start
\* with "./", which hides a leading "knowledge".
GivenPath ==
  [form : {"absolute", "relative", "dotted"},
   parts : BoundedSeq({"workspace", "knowledge", "docs", "long", ".."}, 3)]

\* A leading alias of the root is dropped, and the root's own name,
WithoutAlias(path) ==
  IF IsPrefix(<<"workspace", "knowledge">>, path.parts)
  THEN SubSeq(path.parts, 3, Len(path.parts))
  ELSE IF IsPrefix(<<"knowledge">>, path.parts) /\ path.form # "dotted"
  THEN Tail(path.parts)
  ELSE path.parts

\* and each ".." takes back a part; one that has nothing to take back, or
\* Nothing before, makes the path invalid.
Descend(sofar, part) ==
  IF sofar = Nothing \/ (part = ".." /\ sofar = <<>>) THEN Nothing
  ELSE IF part = ".." THEN Front(sofar) ELSE Append(sofar, part)

\* Mutant: the parts are only put together.
Joined(path) == WithoutAlias(path)

\* _normalize_relative_knowledge_path
Normalized(path) ==
  LET parts == WithoutAlias(path)
      below[i \in 0 .. Len(parts)] ==
        IF i = 0 THEN <<>> ELSE Descend(below[i - 1], parts[i])
  IN below[Len(parts)]

\* _build_tree_node and _tree_stats: what is visible down to a depth.
Visible(dir, depth, withFiles) ==
  {n \in Directories \cup (IF withFiles THEN Documents ELSE {}) :
     IsPrefix(dir, n) /\ Len(n) <= Len(dir) + depth}

\* A long file is shown by its first and last lines.
Shown(path) == IF Lines(path) > MaxLines THEN 2 * EdgeLines ELSE Lines(path)

\* What is not there, or of the other kind, is an error.
Tree(dir, depth, withFiles) ==
  IF dir # Nothing /\ dir \in Directories
  THEN Cardinality(Visible(dir, depth, withFiles)) ELSE Nothing

ReadFile(file) == IF file # Nothing /\ file \in Documents THEN Shown(file) ELSE Nothing

Answered(path, shown) ==
  /\ given = Nothing
  /\ given' = path
  /\ target' = Normalized(path)
  /\ answer' = shown

InspectTree(path) ==
  \E depth \in 0 .. 2, withFiles \in BOOLEAN :
    Answered(path, Tree(Normalized(path), depth, withFiles))

Read(path) == Answered(path, ReadFile(Normalized(path)))

Done ==
  /\ given # Nothing
  /\ given' = Nothing /\ target' = Nothing /\ answer' = Nothing

Init == given = Nothing /\ target = Nothing /\ answer = Nothing

Next ==
  \/ \E path \in GivenPath : InspectTree(path) \/ Read(path)
  \/ Done

Spec == Init /\ [][Next]_knowledgeVars

-----------------------------------------------------------------------------
(* Properties *)

\* The type of a call and its answer.
TypeOK ==
  /\ given # Nothing => given \in GivenPath
  /\ answer # Nothing => answer \in 0 .. Cardinality(Directories \cup Documents)

\* However a path is spelled, what it stands for is below the knowledge root
\* by names only; and answers are only given of what is there.
PathsStayInside ==
  /\ target # Nothing => ~Contains(target, "..")
  /\ answer # Nothing => target \in Directories \cup Documents

=============================================================================
