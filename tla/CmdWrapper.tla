----------------------------- MODULE CmdWrapper -----------------------------
(***************************************************************************)
(* misc/tools-source/cmd_wrapper.c: the program that is found instead of   *)
(* a compiler, changes the arguments as its environment says, and runs     *)
(* the compiler, or another wrapper (ccache, distcc) that will run it.     *)
(*                                                                         *)
(* It keeps nothing but its environment: a command is a chain of passes    *)
(* through main(), each started by what the one before it has executed,    *)
(* which is external.  A word of INSERT, REMOVE or APPEND, "if?then:else", *)
(* is a record; in REMOVE, and as a condition, it is a pattern, here the   *)
(* set of the arguments it matches.                                        *)
(***************************************************************************)
EXTENDS Integers, SequencesExt, FiniteSets

CONSTANTS Arg,          \* the arguments of the user
          Extra,        \* the arguments inserted and appended
          Installed,    \* the other wrappers that can be found
          OtherLists,   \* the settings of OTHERS to look at
          Added,        \* the settings of INSERT and APPEND to look at
          Taken,        \* the settings of REMOVE to look at
          MaxArgs,      \* bound: arguments of the user
          NEWARGC       \* the size of newargv at first; 64 in the source

ASSUME CmdWrapperAssumption == /\ NEWARGC \in Nat /\ NEWARGC > 3 /\ Arg \cap Extra = {}
                               /\ OtherLists \subseteq Seq(STRING)
                               /\ "names with colons" \notin Installed

VARIABLES
  config,    \* the variables prefix_WRAPPER_..., as the user has set them
  user,      \* what the user runs: argv and PATH, and his arguments
  done,      \* prefix_WRAPPER_OTHERS_DONE; <<>> if not set
  noloop,    \* prefix_WRAPPER_NOLOOP
  path,      \* PATH
  argv,      \* of what runs
  newargc,   \* the size of newargv in the last pass
  ran,       \* the other wrappers that have run
  wpc        \* "wrapper", "other", "command", or the exit status of the wrapper

env == <<done, noloop, path>>
cmd_wrapper_vars == <<config, user, env, argv, newargc, ran, wpc>>

\* Directories in PATH: that of the wrapper, the same under another name, and
\* that of the compiler.
MYPATH == "mypath"
Alias == "alias"
Bin == "bin"
Command == "cc"
AbsCommand == "/mypath/cc"
MYNAME == "cmd_wrapper"

-----------------------------------------------------------------------------
(* Helpers.                                                                *)

\* Clean config vars: no delimiter at the ends and no two in a row.  The value
\* is a sequence of characters.
cleanenv(value, ch) ==
  LET copy(s, c) == IF c = ch /\ (s = <<>> \/ Last(s) = ch) THEN s ELSE Append(s, c)
      all == FoldLeft(copy, <<>>, value)
  IN IF all # <<>> /\ Last(all) = ch THEN Front(all) ELSE all

\* What a word stands for, given the arguments.  "" is nothing.
Always == {"always"}
eval_cond_arg(word, args) ==
  IF word.if = Always THEN word.then
  ELSE IF \E i \in DOMAIN args : args[i] \in word.if THEN word.then ELSE word.else

\* newargv with its size: it is made larger before it is full.
realloc_if_needed(v) == IF Len(v.args) + 1 >= v.size THEN [v EXCEPT !.size = 2 * @] ELSE v
Push(v, arg) == [realloc_if_needed(v) EXCEPT !.args = Append(@, arg)]
PushAll(v, words, args) ==
  LET push(w, word) == IF eval_cond_arg(word, args) = {} THEN w
                       ELSE Push(w, CHOOSE a \in eval_cond_arg(word, args) : TRUE)
  IN FoldLeft(push, v, words)

Removed(arg, words, args) ==
  \E i \in DOMAIN words : arg \in eval_cond_arg(words[i], args)

\* FILTER: what comes out of the filter for the arguments that go in.  Its exit
\* status is reported, and the output of a filter that fails is used as it is.
Filtered(args) == CASE config.filter = "" -> {args}
                    [] config.filter = "cat" -> {args}
                    [] config.filter = "fails" -> {SubSeq(args, 1, k) : k \in 0 .. Len(args)}

basename(arg) == IF arg = AbsCommand THEN Command ELSE arg

-----------------------------------------------------------------------------
(* The other wrappers.  OTHERS is their names with ':' between them; so is *)
(* OTHERS_DONE, which is a prefix of it.  A name is a sequence of names:   *)
(* the second time what is left of OTHERS is taken as a whole.             *)

Others == IF config.bypass THEN <<>> ELSE config.others
Mismatch == Others # <<>> /\ ~IsPrefix(done, Others)
Left == SubSeq(Others, Len(done) + 1, Len(Others))
other == IF done = <<>> /\ Others # <<>> THEN <<Others[1]>> ELSE Left
OtherName == IF Len(other) = 1 THEN other[1] ELSE "names with colons"
NewDoneAnew == <<OtherName>>
NewDone == IF other = <<>> THEN done ELSE done \o other

-----------------------------------------------------------------------------
CmdWrapperInit ==
  /\ config \in [others : OtherLists, bypass : BOOLEAN, filter : {"", "cat", "fails"},
                 insert : Added, remove : Taken, append : Added]
  /\ Cardinality({f \in {"insert", "remove", "append"} : config[f] # <<>>}) < 3
  /\ config.bypass \/ config.filter # "" => Len(config.insert \o config.remove \o config.append) <= 1
  /\ done = <<>> /\ noloop = FALSE
  /\ \E args \in UNION {[1 .. k -> Arg] : k \in 0 .. MaxArgs} :
       user \in [args : {args},
                argv : {<<Command>> \o args, <<AbsCommand>> \o args,
                        <<MYNAME, Command>> \o args, <<MYNAME>>},
                path : {<<MYPATH, Bin>>, <<MYPATH, Bin, MYPATH>>, <<Alias, Bin>>, <<>>}]
  /\ path = user.path /\ argv = user.argv
  /\ newargc = NEWARGC /\ ran = <<>> /\ wpc = "wrapper"

Exit(code) == wpc' = code /\ UNCHANGED <<env, argv, newargc, ran>>

\* The arguments after the name: argv with those of REMOVE taken out, between
\* those of INSERT and APPEND.
Rewritten(args) ==
  LET on(words) == IF config.bypass THEN <<>> ELSE words
      keep(v, arg) == IF Removed(arg, on(config.remove), args) THEN v ELSE Push(v, arg)
      start == [args |-> IF other = <<>> THEN <<args[1]>> ELSE <<OtherName, args[1]>>,
                size |-> NEWARGC]
      inserted == PushAll(start, on(config.insert), args)
      copied == FoldLeft(keep, inserted, Tail(args))
  IN PushAll(copied, on(config.append), args)

\* execvp(); what is executed has the name of a command or of a wrapper.
RunOther(v, args) ==
  /\ newargc' = v.size
  /\ done' = NewDone /\ UNCHANGED <<noloop, path>>
  /\ argv' = args
  /\ IF OtherName \in Installed
       THEN wpc' = "other" /\ ran' = Append(ran, OtherName)
       ELSE wpc' = "exit 253" /\ UNCHANGED ran

\* The directory of the wrapper is taken out of PATH, and no pass may follow.
NewPath == SelectSeq(path, LAMBDA d : d # MYPATH)
RunCommand(v, args) ==
  /\ newargc' = v.size
  /\ argv' = args /\ UNCHANGED <<done, ran>>
  /\ IF path = <<>> THEN wpc' = "exit 252" /\ UNCHANGED <<noloop, path>>
     ELSE /\ path' = NewPath
          /\ IF noloop THEN wpc' = "exit 251" /\ UNCHANGED noloop
             ELSE /\ noloop' = TRUE
                  /\ wpc' = IF NewPath = <<>> \/ args[1] # Command THEN "exit 254"
                            ELSE IF NewPath[1] = Alias THEN "wrapper" ELSE "command"

main ==
  /\ wpc = "wrapper"
  /\ UNCHANGED <<config, user>>
  /\ LET called == <<basename(argv[1])>> \o Tail(argv)
         args == IF called[1] = MYNAME THEN <<basename(called[2])>> \o SubSeq(called, 3, Len(called))
                 ELSE called
     IN IF called = <<MYNAME>> THEN Exit("exit 250")
        ELSE IF Mismatch THEN Exit("exit 249")
        ELSE LET v == Rewritten(args) IN
             \E out \in IF config.bypass THEN {v.args} ELSE Filtered(v.args) :
               IF out = <<>> THEN Exit("exit 248")
               ELSE IF other # <<>> THEN RunOther(v, out) ELSE RunCommand(v, out)

\* The other wrapper (external) runs the command that its arguments are, found
\* in PATH or by the name it was called with; if they are none it stops.
OtherRuns ==
  /\ wpc = "other"
  /\ \/ /\ Len(argv) > 1 /\ wpc' = "wrapper"
        /\ argv' \in {Tail(argv), <<AbsCommand>> \o SubSeq(argv, 3, Len(argv))}
     \/ Len(argv) = 1 /\ wpc' = "no command" /\ UNCHANGED argv
  /\ UNCHANGED <<config, user, env, newargc, ran>>

CmdWrapperNext == main \/ OtherRuns

CmdWrapperSpec == CmdWrapperInit /\ [][CmdWrapperNext]_cmd_wrapper_vars
-----------------------------------------------------------------------------
\* The command runs after all the other wrappers, each of which has run once
\* and in the order of OTHERS; after a bypass none has.
OthersInOrder == wpc = "command" => ran = Others

\* With a working PATH and filter and at most two wrappers, all installed, the
\* chain of passes ends in the command and in nothing else.
Orderly == /\ user.argv # <<MYNAME>> /\ user.path \in {<<MYPATH, Bin>>, <<MYPATH, Bin, MYPATH>>}
           /\ config.filter # "fails" \/ config.bypass
           /\ Len(Others) <= 2 /\ \A i \in DOMAIN Others : Others[i] \in Installed
CommandRuns == Orderly => wpc \in {"wrapper", "other", "command"}

\* The chain of passes ends, whatever PATH is: each one gets on with OTHERS, and
\* none follows one that has run the command.
PassesLeft == IF wpc \notin {"wrapper", "other"} THEN 0
              ELSE 1 + (IF wpc = "other" THEN 1 ELSE 0) + (IF noloop THEN 0 ELSE 2)
                     + 4 * (Len(Others) - Len(done))
ChainEnds == [][PassesLeft' < PassesLeft]_cmd_wrapper_vars

\* The user's arguments reach the command in their order, and of those that no
\* word of REMOVE names none is missing.
UserArgsKept ==
  wpc = "command" /\ config.filter # "fails" =>
    LET named(a) == \E i \in DOMAIN config.remove :
                      a \in config.remove[i].then \cup config.remove[i].else
        kept(s) == SelectSeq(s, LAMBDA a : a \in Arg /\ ~named(a))
    IN kept(argv) = kept(user.args)

\* newargv has room for its arguments and the NULL at the end, at whatever size
\* above 3 it starts.
ArgvFits == wpc \in {"other", "command", "exit 253", "exit 254"} => Len(argv) < newargc

\* What is cleaned has the same words, and one delimiter between two.
CleanKeepsWords ==
  LET Parts(s, i) == {j \in i .. Len(s) : \A k \in i .. j : s[k] # ":"}
      word(s, i) == SubSeq(s, i, i + Cardinality(Parts(s, i)) - 1)
      starts(s) == {i \in DOMAIN s : s[i] # ":" /\ (i = 1 \/ s[i - 1] = ":")}
      nth(s, n) == CHOOSE i \in starts(s) : Cardinality({j \in starts(s) : j < i}) = n - 1
      words(s) == [n \in 1 .. Cardinality(starts(s)) |-> word(s, nth(s, n))]
  IN \A s \in UNION {[1 .. k -> {":", "x", "y"}] : k \in 0 .. 5} :
       LET clean == cleanenv(s, ":") IN
       /\ words(clean) = words(s)
       /\ \A i \in DOMAIN clean : clean[i] = ":" => /\ i \notin {1, Len(clean)}
                                                     /\ clean[i - 1] # ":"
=============================================================================
