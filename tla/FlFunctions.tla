----------------------------- MODULE FlFunctions ----------------------------
(***************************************************************************)
(* Two parts of misc/tools-source that are functions of their arguments.   *)
(*                                                                         *)
(* fl_wrapper_execl.c: execl(), execle(), execlp() and execvp() for the    *)
(* programs that fl_wrapper.so is loaded into, so that all of them come to *)
(* its execve().  (The file has them from the C library.)  What execve()   *)
(* answers is external.                                                    *)
(*                                                                         *)
(* fl_wrparse.c: from the names of the files that a build has written to   *)
(* those of the files a package owns: they exist, they lie under the root, *)
(* and each has one name, without symbolic links in its directory part.    *)
(* A directory is the sequence of names that leads to it from "/"; a name  *)
(* that is read is absolute or relative, and its last component may be     *)
(* empty ("dir/").  The file system is external.                           *)
(***************************************************************************)
EXTENDS Integers, SequencesExt, FiniteSets

CONSTANTS ArgvMax,       \* the size of argv at first; 1024 in the source
          MaxVarargs,    \* bound: arguments of a call
          MaxPath        \* bound: characters of PATH

ASSUME FlExecAssumption == ArgvMax \in Nat \ {0}

\* argv is filled argument by argument until one is NULL; when it is full, a
\* new one of twice the size is taken from the stack and the arguments are
\* copied.  (The comparisons of addresses with a number of elements find no
\* other case.)  Out is whether an argument was stored behind the end.
NULL == "NULL"
Vector == [argv : Seq(STRING), size : Nat, out : BOOLEAN]
Fill[v \in Vector, args \in Seq(STRING)] ==
  IF Last(v.argv) = NULL THEN v
  ELSE LET i == Len(v.argv)
           w == IF i = v.size THEN [v EXCEPT !.size = 2 * @] ELSE v
       IN Fill[[w EXCEPT !.argv = Append(@, Head(args)), !.out = @ \/ i >= w.size], Tail(args)]

execl(args) == Fill[[argv |-> <<Head(args)>>, size |-> ArgvMax, out |-> FALSE], Tail(args)]
\* The environment comes behind the NULL.
execle(args) == LET v == execl(args) IN [argv |-> v.argv, out |-> v.out, envp |-> args[Len(v.argv) + 1]]

\* The arguments for the shell: the copy goes from the NULL down, and the first
\* argument, the name the script was called by, is left out.
script_execute(prog, a) ==
  LET argc == Len(a)
      from == [i \in 1 .. argc + 1 |-> CASE i = 1 -> "/bin/sh" [] i = 2 -> prog [] OTHER -> "?"]
      Copy[n \in 1 .. argc, new_argv \in Seq(STRING)] ==
        IF n = 1 THEN new_argv ELSE Copy[n - 1, [new_argv EXCEPT ![n + 1] = a[n]]]
  IN Copy[argc, from]

\* The search.  PATH is a sequence of characters; the directory from p on ends
\* at the next ':' or at the end, and an empty one is the current directory.
\* answers[d] is what execve() says of the file in d; "ok" does not return.
Colon(PATH, p) == CHOOSE q \in p .. Len(PATH) + 1 :
                    /\ q = Len(PATH) + 1 \/ PATH[q] = ":"
                    /\ \A r \in p .. q - 1 : PATH[r] # ":"

Errno == {"ENOENT", "EACCES", "ENOEXEC", "E2BIG"}
TryNext == {"ENOENT", "EACCES", "ESTALE", "ENOTDIR"}

\* After ENOEXEC the shell is tried, and its error counts; sh is the answer.
execvp(PATH, answers, sh) ==
  LET Search[p \in 1 .. Len(PATH) + 1, got_eacces \in BOOLEAN] ==
        LET q == Colon(PATH, p)
            dir == SubSeq(PATH, p, q - 1)
            errno == IF answers[dir] = "ENOEXEC" THEN sh ELSE answers[dir]
            denied == got_eacces \/ errno = "EACCES"
        IN IF errno \notin TryNext THEN <<errno, dir>>
           ELSE IF q <= Len(PATH) THEN Search[q + 1, denied]
           ELSE <<IF denied THEN "EACCES" ELSE errno, dir>>
  IN Search[1, FALSE]
execlp(PATH, answers, sh, args) == [argv |-> execl(args).argv, found |-> execvp(PATH, answers, sh)]
-----------------------------------------------------------------------------
\* All arguments of a call arrive in their order, with the NULL behind them, and
\* none is stored outside of argv, whatever number of times it has grown.
VarargsArrive ==
  \A k \in 1 .. MaxVarargs :
    LET args == [i \in 1 .. k |-> IF i = k THEN NULL ELSE <<"a", "b", "c">>[(i % 3) + 1]]
    IN /\ execl(args).argv = args /\ ~execl(args).out
       /\ execle(Append(args, "env")) = [argv |-> args, out |-> FALSE, envp |-> "env"]
       /\ k > 1 => script_execute("f", args) = <<"/bin/sh", "f">> \o Tail(args)

\* The file that runs is the first in the order of PATH that can; what cannot be
\* run for want of permission is reported if there is nothing else.
Dirs(PATH) ==
  LET colons(q) == Cardinality({r \in 1 .. q - 1 : PATH[r] = ":"})
      end(i) == CHOOSE q \in 1 .. Len(PATH) + 1 :
                  colons(q) = i - 1 /\ (q = Len(PATH) + 1 \/ PATH[q] = ":")
  IN [i \in 1 .. colons(Len(PATH) + 1) + 1 |->
        SubSeq(PATH, IF i = 1 THEN 1 ELSE end(i - 1) + 1, end(i) - 1)]

FirstThatRuns ==
  \A PATH \in UNION {[1 .. k -> {":", "a"}] : k \in 0 .. MaxPath} :
    LET dirs == Dirs(PATH) IN
    \A answers \in [{dirs[i] : i \in DOMAIN dirs} -> Errno \cup {"ok"}], sh \in {"ok", "ENOENT"} :
      LET says(i) == IF answers[dirs[i]] = "ENOEXEC" THEN sh ELSE answers[dirs[i]]
          stops == {i \in DOMAIN dirs : says(i) \in {"ok", "E2BIG"}}
          found == execvp(PATH, answers, sh)
      IN IF stops # {}
           THEN \E i \in stops : (\A j \in stops : i <= j) /\ found = <<says(i), dirs[i]>>
           ELSE found[1] = IF \E i \in DOMAIN dirs : says(i) = "EACCES" THEN "EACCES" ELSE "ENOENT"

-----------------------------------------------------------------------------
(* fl_wrparse.c *)

CONSTANTS Tree,     \* the directories
          Empty,    \* those with nothing in them
          Regular,  \* the files, as <<directory, name>>
          Link,     \* symbolic links: set of [at |-> <<directory, name>>, to |-> directory]
          Reads     \* the names to look at: set of [abs |-> BOOLEAN, dir |-> Seq, last |-> name]

Nowhere == <<"nowhere">>
Enter(d, n) == IF n = ".." THEN IF d = <<>> THEN d ELSE Front(d)
               ELSE IF Append(d, n) \in Tree THEN Append(d, n)
               ELSE IF \E l \in Link : l.at = <<d, n>> THEN (CHOOSE l \in Link : l.at = <<d, n>>).to
               ELSE Nowhere

\* chdir(): the directory it leads to from cwd, or nowhere.
Reach(cwd, fn) == FoldLeft(LAMBDA d, n : IF d = Nowhere THEN d ELSE Enter(d, n),
                           IF fn.abs THEN <<>> ELSE cwd, fn.dir)
chdir(cwd, fn) == IF Reach(cwd, fn) = Nowhere THEN cwd ELSE Reach(cwd, fn)

\* The name has its last component replaced by nothing and the rest entered.
\* Of "/name" nothing is left, which is no directory.
get_realname(cwd, fn) ==
  IF fn.abs /\ fn.dir = <<>> /\ fn.last = "" THEN <<<<>>, "">>
  ELSE IF fn.abs /\ fn.dir = <<>> THEN <<cwd, fn.last>>
  ELSE <<chdir(cwd, fn), fn.last>>

lstat(cwd, fn) ==
  LET d == Reach(cwd, fn)
  IN d # Nowhere /\ (fn.last \in {"", "."} \/ Enter(d, fn.last) # Nowhere \/ <<d, fn.last>> \in Regular)

IsDir(cwd, fn) == LET d == Reach(cwd, fn)
                  IN IF fn.last \in {"", "."} THEN d ELSE Append(d, fn.last)
dir_empty(d) == d \in Empty

\* One line of the input, the program being in the root; what it prints, if it
\* does.  The root ends in '/', as its callers write it.
Skip == <<"skip">>
fl_wrparse(root, nodircheck, fn) ==
  LET real == get_realname(root, fn)
  IN IF ~lstat(root, fn) THEN Skip
     ELSE IF IsDir(root, fn) \in Tree /\ ~nodircheck /\ dir_empty(IsDir(root, fn)) THEN Skip
     ELSE IF ~IsPrefix(root, real[1]) THEN Skip
     ELSE <<SubSeq(real[1], Len(root) + 1, Len(real[1])), real[2]>>
-----------------------------------------------------------------------------
\* What is printed is, read from the root, the very file that was named, by a
\* name without links; a file that lies under the root by any name is printed.
\* This leaves out a name of one component behind '/', unless the root is "/".
OwnsWhatItNamed ==
  \A root \in Tree, fn \in Reads :
    (fn.abs /\ fn.dir = <<>> => root = <<>>) =>
      LET out == fl_wrparse(root, TRUE, fn)
          dir == Reach(root, fn)
      IN IF lstat(root, fn) /\ IsPrefix(root, dir)
           THEN /\ out[2] = fn.last
                /\ root \o out[1] \in Tree /\ root \o out[1] = dir
           ELSE out = Skip

\* Without -D, of the directories only those that are not empty.
EmptyDirsOnlyWithD ==
  \A root \in Tree, fn \in Reads :
    LET all == fl_wrparse(root, TRUE, fn)
    IN fl_wrparse(root, FALSE, fn) = IF all # Skip /\ IsDir(root, fn) \in Empty THEN Skip ELSE all
=============================================================================
