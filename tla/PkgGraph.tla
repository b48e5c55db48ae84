------------------------------- MODULE PkgGraph -----------------------------
(***************************************************************************)
(* source/dependency.cc: the packages that a package needs, in an order in *)
(* which each comes behind what it depends on, drawn as text: a line per   *)
(* package, and an arrow down from it, in a column of its own, to the last *)
(* package that depends on it.                                             *)
(*                                                                         *)
(* GetPriority() is a recursion over a graph that may have cycles and      *)
(* names of no package; its stack is here a variable.                      *)
(***************************************************************************)
EXTENDS Integers, Sequences, FiniteSets

CONSTANTS Cached,      \* packages with a cache file
          Unknown,     \* a name that dependencies may give and no package has
          MaxDeps,     \* bound: dependencies of a package
          MaxNodes     \* bound: packages in one graph

ASSUME PkgGraphAssumption == Unknown \notin Cached

VARIABLES
  depend,      \* of each package in pkg_graph: the sequence of its dependencies
  wanted,      \* the package asked for
  priority,    \* -1: not evaluated yet, -2: in evaluation
  stack,       \* the calls: sequence of [pkg, i, new_priority]
  needed,      \* the packages with a priority, in the order of the picture
  gpc          \* "call", "eval", "drawn"

graph == <<depend, wanted>>
pkg_graph_vars == <<graph, priority, stack, needed, gpc>>

Nodes == DOMAIN depend

\* DepsFromFile(): any text of the DEP tag.
PkgGraphInit ==
  /\ \E P \in SUBSET Cached :
       /\ Cardinality(P) \in 1 .. MaxNodes
       /\ depend \in [P -> UNION {[1 .. k -> P \cup {Unknown}] : k \in 0 .. MaxDeps}]
  /\ wanted \in Nodes
  /\ priority = [p \in Nodes |-> -1]
  /\ stack = <<>> /\ needed = <<>> /\ gpc = "call"

Top == stack[Len(stack)]
CallOf(p) == [pkg |-> p, i |-> 1, new_priority |-> 0]

GetPriority == /\ gpc = "call" /\ gpc' = "eval"
               /\ stack' = <<CallOf(wanted)>>
               /\ priority' = [priority EXCEPT ![wanted] = -2]
               /\ UNCHANGED <<graph, needed>>

LargerLast(a, b) == b
Larger(a, b) == IF a > b THEN a ELSE b

\* The call of the next dependency: one that need not be evaluated is answered
\* at once.
NextDependency ==
  /\ gpc = "eval" /\ Top.i <= Len(depend[Top.pkg])
  /\ LET dep == depend[Top.pkg][Top.i]
         answered(v) == stack' = [stack EXCEPT ![Len(stack)].i = @ + 1,
                                               ![Len(stack)].new_priority = Larger(@, v)]
     IN \/ dep \notin Nodes /\ answered(0) /\ UNCHANGED priority
        \/ /\ dep \in Nodes /\ priority[dep] = -2     \* a circle
           /\ priority' = [priority EXCEPT ![dep] = 0] /\ answered(0)
        \/ /\ dep \in Nodes /\ priority[dep] >= 0
           /\ answered(priority[dep]) /\ UNCHANGED priority
        \/ /\ dep \in Nodes /\ priority[dep] = -1
           /\ priority' = [priority EXCEPT ![dep] = -2]
           /\ stack' = Append(stack, CallOf(dep))
  /\ UNCHANGED <<graph, needed, gpc>>

\* All dependencies done: the priority goes to the package and to the caller.
Return ==
  /\ gpc = "eval" /\ stack # <<>> /\ Top.i > Len(depend[Top.pkg])
  /\ LET p == Top.new_priority + 1
         caller == Len(stack) - 1
     IN /\ priority' = [priority EXCEPT ![Top.pkg] = p]
        /\ stack' = IF caller = 0 THEN <<>>
                    ELSE [SubSeq(stack, 1, caller) EXCEPT
                            ![caller].i = @ + 1, ![caller].new_priority = Larger(@, p)]
  /\ UNCHANGED <<graph, needed, gpc>>

\* std::sort(): those of the same priority in any order.
Sorted == LET N == {p \in Nodes : priority[p] >= 0}
          IN {s \in [1 .. Cardinality(N) -> N] :
                /\ \A i, j \in DOMAIN s : i < j => s[i] # s[j] /\ priority[s[i]] <= priority[s[j]]}

PrintGraph == /\ gpc = "eval" /\ stack = <<>> /\ gpc' = "drawn"
              /\ needed' \in Sorted
              /\ UNCHANGED <<graph, priority, stack>>

PkgGraphNext == GetPriority \/ (gpc = "eval" /\ stack # <<>> /\ (NextDependency \/ Return)) \/ PrintGraph

PkgGraphSpec == PkgGraphInit /\ [][PkgGraphNext]_pkg_graph_vars
-----------------------------------------------------------------------------
(* The picture.                                                            *)

Line == 1 .. Len(needed)
DependsOn(i, j) == \E k \in DOMAIN depend[needed[i]] : depend[needed[i]][k] = needed[j]

\* DownArrow: from the line of the package to the last that needs it; one that
\* comes before it does not lengthen its arrow.
End(j) == LET users == {i \in Line : i >= j /\ DependsOn(i, j)} \cup {j}
          IN CHOOSE e \in users : \A u \in users : u <= e
Compatible(i, j) == i > End(j) \/ End(i) < j

\* From the first line on, each arrow gets the first column where it meets no
\* arrow that has one.
h_pos == LET Column[j \in Line] ==
               CHOOSE c \in 0 .. j : /\ \A k \in 1 .. j - 1 : Column[k] = c => Compatible(k, j)
                                     /\ \A d \in 0 .. c - 1 :
                                          \E k \in 1 .. j - 1 : Column[k] = d /\ ~Compatible(k, j)
         IN Column

Template(pos, v) == [c \in 0 .. Len(needed) |->
                       IF \E j \in Line : j <= v /\ End(j) > v /\ pos[j] = c THEN "|" ELSE " "]

\* The line of a package: its columns, from the first that is marked on joined.
HRef(pos, v) ==
  LET template == Template(pos, v)
      used == {j \in Line : DependsOn(v, j) /\ j < v}
      marked == {pos[j] : j \in used} \cup {pos[v]}
      length == {c \in 0 .. Len(needed) : c \in marked \/ template[c] # " "}
  IN [c \in 0 .. Len(needed) |->
        IF c = pos[v] THEN "v"
        ELSE IF c \in marked THEN "+"
        ELSE IF (\E m \in marked : m < c) /\ (\E l \in length : c < l) THEN "-"
        ELSE template[c]]
-----------------------------------------------------------------------------
\* The chains of dependencies, long enough to tell a circle.
Edges == {e \in Nodes \X Nodes : \E k \in DOMAIN depend[e[1]] : depend[e[1]][k] = e[2]}
Paths == UNION {{s \in [1 .. n -> Nodes] : \A k \in 1 .. n - 1 : <<s[k], s[k + 1]>> \in Edges} :
                n \in 1 .. MaxNodes + 1}

\* All packages that the one asked for needs, and no others, get a priority
\* above that of each package they depend on, unless that depends on them in
\* turn: what is answered while a circle is in evaluation (dependency.cc:54) does
\* no harm outside of it.  With no circle behind the package, its priority is the
\* length of the longest chain behind it; and none is above the number of packages.
PriorityIsDepth ==
  gpc = "drawn" =>
    LET paths == Paths
        behind == [p \in Nodes |-> {s[Len(s)] : s \in {t \in paths : t[1] = p}}]
        lengths == [p \in Nodes |-> {Len(s) : s \in {t \in paths : t[1] = p}}]
        longest == [p \in Nodes |-> CHOOSE n \in lengths[p] : \A m \in lengths[p] : m <= n]
    IN \A p \in Nodes :
         IF p \notin behind[wanted] THEN priority[p] = -1
         ELSE /\ priority[p] \in 1 .. Cardinality(behind[wanted])
              /\ longest[p] <= Cardinality(Nodes) => priority[p] = longest[p]
              /\ \A q \in Nodes : <<p, q>> \in Edges /\ p \notin behind[q] => priority[p] > priority[q]

\* The picture can be read: in the line of a package the crosses stand in the
\* columns of the packages above it that it depends on, and each of them, and
\* its own, is in that line the column of one arrow only.
PictureReadable ==
  gpc = "drawn" =>
    LET pos == h_pos IN
    \A v \in Line :
      LET here(c) == {j \in Line : j <= v /\ v <= End(j) /\ pos[j] = c}
          row == HRef(pos, v)
      IN /\ {j \in Line : j < v /\ DependsOn(v, j)}
              = UNION {here(c) : c \in {c \in 0 .. Len(needed) : row[c] = "+"}}
         /\ \A c \in 0 .. Len(needed) : Cardinality(here(c)) <= 1

\* A circle does not lead back into a call that has not returned.
NoCircularCall == \A i, j \in DOMAIN stack : i # j => stack[i].pkg # stack[j].pkg
=============================================================================
