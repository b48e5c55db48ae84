----------------------------- MODULE BashProfiler ---------------------------
(***************************************************************************)
(* misc/tools-source/bash_profiler.c: the bash builtin "bprof" adds up the *)
(* time between the calls "bprof id start" and "bprof id stop" of a        *)
(* script, for every id, in a list that grows at its head.                 *)
(***************************************************************************)
EXTENDS Integers, Sequences, FiniteSets

CONSTANTS Id,         \* the ids of a script
          MaxTime,    \* bound: the clock
          MaxCount    \* bound: how often an id is stopped

VARIABLES
  bprofent_list,      \* sequence of [id, count, tv_sum, tv_start]
  clock,              \* mytime()
  inside,             \* the ids that have been started and not stopped since
  spent               \* what the script has spent in each, by its own reckoning

bprof_vars == <<bprofent_list, clock, inside, spent>>

BprofInit == /\ bprofent_list = <<>> /\ clock = 1
             /\ inside = {} /\ spent = [i \in Id |-> 0]

Tick == /\ clock < MaxTime /\ clock' = clock + 1
        /\ spent' = [i \in Id |-> IF i \in inside THEN spent[i] + 1 ELSE spent[i]]
        /\ UNCHANGED <<bprofent_list, inside>>

\* The entry of the id is looked for from the head, and made there if there is
\* none; "print" makes one as well.
Entry(name) == CHOOSE i \in DOMAIN bprofent_list :
                 /\ bprofent_list[i].id = name
                 /\ \A j \in 1 .. i - 1 : bprofent_list[j].id # name
Listed(name) == \E i \in DOMAIN bprofent_list : bprofent_list[i].id = name
With(name) == IF Listed(name) THEN bprofent_list
              ELSE <<[id |-> name, count |-> 0, tv_sum |-> 0, tv_start |-> 0]>> \o bprofent_list
this(name) == IF Listed(name) THEN Entry(name) ELSE 1

\* A script starts what is not started, and stops what is; the builtin does not
\* look.
bprof_start(name) == /\ name \notin inside
                     /\ bprofent_list' = [With(name) EXCEPT ![this(name)].tv_start = clock]
                     /\ inside' = inside \cup {name}
                     /\ UNCHANGED <<clock, spent>>

bprof_stop(name) == /\ name \in inside /\ With(name)[this(name)].count < MaxCount
                    /\ bprofent_list' = [With(name) EXCEPT
                         ![this(name)].tv_sum = @ + clock - With(name)[this(name)].tv_start,
                         ![this(name)].count = @ + 1]
                    /\ inside' = inside \ {name}
                    /\ UNCHANGED <<clock, spent>>

bprof_print(name) == /\ bprofent_list' = With(name)
                     /\ UNCHANGED <<clock, inside, spent>>

BprofNext == Tick \/ \E name \in Id : bprof_start(name) \/ bprof_stop(name) \/ bprof_print(name)

BprofSpec == BprofInit /\ [][BprofNext]_bprof_vars
-----------------------------------------------------------------------------
\* Whatever other ids are started, stopped and printed in between, nested or not,
\* what is shown for an id is the time the script has spent in it.
SumIsTimeSpent ==
  \A name \in Id \ inside : spent[name] = IF Listed(name) THEN bprofent_list[Entry(name)].tv_sum ELSE 0
=============================================================================
