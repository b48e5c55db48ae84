------------------------------- MODULE BootLog ------------------------------
(***************************************************************************)
(* package/base/sysvinit/rc.c and package/base/sysfiles/btee.c: an init    *)
(* script is run with a clean environment, and what it and the daemons it  *)
(* starts write goes through a pipe to btee, which passes it on to the     *)
(* terminal and adds it to a log file.  A byte EOT says that the script    *)
(* has ended; a daemon may keep the pipe open for ever.                    *)
(*                                                                         *)
(* A byte is here its number in what is written; 0 is the byte zero.  The  *)
(* arguments of a script are assumed to fit in the command buffer of rc.   *)
(***************************************************************************)
EXTENDS Integers, SequencesExt

CONSTANTS BUFFER_SIZE,   \* 8191 in the source
          MaxText        \* bound: bytes that are written

VARIABLES
  output,    \* the bytes that will be written: "a", "n" (newline), "r" (return), "EOT"
  written,   \* how many of them are
  rpc,       \* rc: "args", "set", "exec", "script", "ended"
  use_btee,
  holders,   \* who has the writing end of the pipe open
  bpc,       \* btee: "none", "read", "flush", "gone"
  seen,      \* how many bytes it has read, and written to the terminal
  buffer, pos, killme,
  log,       \* the log
  lastOpen,  \* the last open() of it succeeded
  dropped    \* history: the buffer was full

rc_vars == <<written, rpc, use_btee, holders>>
btee_vars == <<bpc, seen, buffer, pos, killme, log, lastOpen, dropped>>
boot_vars == <<output, rc_vars, btee_vars>>

\* The script's text, its end, and what daemons write after it.
Texts == {t \in UNION {[1 .. k -> {"a", "n", "r", "EOT"}] : k \in 1 .. MaxText} :
            Cardinality({i \in DOMAIN t : t[i] = "EOT"}) = 1}
EotAt == CHOOSE i \in DOMAIN output : output[i] = "EOT"

BootInit ==
  /\ output \in Texts /\ written = 0 /\ rpc = "args" /\ use_btee = TRUE /\ holders = {}
  /\ bpc = "none" /\ seen = 0 /\ buffer = [i \in 0 .. BUFFER_SIZE |-> 0]
  /\ pos = 0 /\ killme = 0 /\ log = <<>> /\ lastOpen = TRUE /\ dropped = FALSE

-----------------------------------------------------------------------------
(* rc.                                                                     *)

RcUsage == /\ rpc = "args" /\ rpc' = "ended"
           /\ UNCHANGED <<written, use_btee, holders, btee_vars>>

\* --nobtee, or the argument help.
WithoutBtee == /\ rpc = "args" /\ rpc' = "set" /\ use_btee' = FALSE
               /\ UNCHANGED <<written, holders, btee_vars>>

HoldersBoth == {"rc", "btee"}
\* btee closes its copy of the writing end before it reads.
Holders == {"rc"}
WithBtee == /\ rpc = "args" /\ rpc' = "set" /\ holders' = Holders
            /\ bpc' \in {"read", "gone"}         \* gone: no fork(), or no /sbin/btee
            /\ UNCHANGED <<written, use_btee, seen, buffer, pos, killme, log, lastOpen, dropped>>

\* handle_error: rc ends without a word to btee.
SetFails == /\ rpc = "set" /\ rpc' = "ended" /\ holders' = holders \ {"rc"}
            /\ UNCHANGED <<written, use_btee, btee_vars>>
SetDone == /\ rpc = "set" /\ rpc' = "exec" /\ UNCHANGED <<written, use_btee, holders, btee_vars>>

Exec == /\ rpc = "exec" /\ rpc' = "script" /\ UNCHANGED <<written, use_btee, holders, btee_vars>>
\* No shell: rc says EOT itself.
ExecFails == /\ rpc = "exec" /\ rpc' = "ended" /\ EotAt = 1
             /\ written' = IF use_btee /\ bpc # "gone" THEN 1 ELSE 0
             /\ holders' = holders \ {"rc"} /\ UNCHANGED <<use_btee, btee_vars>>

Writing(who) == bpc \in {"read", "flush"} /\ who \in holders /\ written < Len(output) /\ written' = written + 1

StartDaemon == /\ rpc = "script" /\ use_btee /\ holders' = holders \cup {"daemon"}
               /\ UNCHANGED <<written, rpc, use_btee, btee_vars>>
ScriptWrites == /\ rpc = "script" /\ written + 1 < EotAt /\ Writing("rc")
                /\ UNCHANGED <<rpc, use_btee, holders, btee_vars>>
\* The echo behind the script.
ScriptEnds == /\ rpc = "script" /\ rpc' = "ended" /\ holders' = holders \ {"rc"}
              /\ \/ use_btee /\ written + 1 = EotAt /\ Writing("rc")
                 \/ ~use_btee /\ UNCHANGED written
              /\ UNCHANGED <<use_btee, btee_vars>>
\* A signal that nobody has changed.
Sigpipe == /\ use_btee /\ bpc = "gone" /\ rpc = "script"
           /\ rpc' = "ended" /\ holders' = holders \ {"rc"}
           /\ UNCHANGED <<written, use_btee, btee_vars>>
DaemonWrites == /\ written + 1 # EotAt /\ Writing("daemon")
                /\ UNCHANGED <<rpc, use_btee, holders, btee_vars>>
DaemonEnds == /\ "daemon" \in holders /\ holders' = holders \ {"daemon"}
              /\ UNCHANGED <<written, rpc, use_btee, btee_vars>>

-----------------------------------------------------------------------------
(* btee.                                                                   *)

CharAt(b, i) == IF b[i] = 0 THEN "zero" ELSE output[b[i]]

\* A return that no newline follows takes back the line so far; what follows
\* the last byte is whatever was there.
TakeBack(b, i) ==
  LET ends == {j \in 0 .. i : CharAt(b, j) = "n"}
      start == IF ends = {} THEN 0 ELSE 1 + (CHOOSE j \in ends : \A k \in ends : k <= j)
  IN [j \in DOMAIN b |-> IF j \in start .. i THEN 0 ELSE b[j]]
Treat(b, i) == IF CharAt(b, i) = "EOT" THEN [b EXCEPT ![i] = 0]
               ELSE IF CharAt(b, i) = "r" /\ CharAt(b, i + 1) # "n" THEN TakeBack(b, i)
               ELSE b

\* The byte behind the next one is set to zero (at the end of the buffer that
\* is a byte that belongs to something else).
Filled(k) == [i \in DOMAIN buffer |-> IF i \in pos .. pos + k - 1 THEN seen + 1 + i - pos
                                      ELSE IF i = pos + k + 1 THEN 0 ELSE buffer[i]]
BteeRead == /\ bpc = "read" /\ bpc' = "flush"
            /\ \E k \in 1 .. BUFFER_SIZE - pos :
                 /\ seen + k <= written
                 /\ LET b == FoldLeft(Treat, Filled(k), [x \in 1 .. k |-> pos + x - 1])
                        kept == SelectSeq([i \in 1 .. pos + k |-> b[i - 1]], LAMBDA c : c # 0)
                    IN /\ buffer' = [i \in DOMAIN b |-> IF i < Len(kept) THEN kept[i + 1] ELSE b[i]]
                       /\ pos' = Len(kept)
                 /\ killme' = IF killme = 0 /\ EotAt \in seen + 1 .. seen + k THEN 1 ELSE killme
                 /\ seen' = seen + k
            /\ UNCHANGED <<rc_vars, log, lastOpen, dropped>>

\* The file is written and closed, or cannot be opened yet; then the top of the
\* loop: the alarm, and a buffer that is full.
Flush == /\ bpc = "flush" /\ bpc' = "read" /\ lastOpen' \in BOOLEAN
         /\ LET content == [i \in 1 .. pos |-> buffer[i - 1]]
            IN IF lastOpen' THEN log' = log \o content /\ pos' = 0 /\ UNCHANGED dropped
               ELSE /\ dropped' = (dropped \/ pos >= BUFFER_SIZE)
                    /\ pos' = (IF pos >= BUFFER_SIZE THEN 0 ELSE pos) /\ UNCHANGED log
         /\ killme' = IF killme = 1 THEN -1 ELSE killme
         /\ UNCHANGED <<rc_vars, seen, buffer>>

Gone == bpc' = "gone" /\ UNCHANGED <<rc_vars, seen, buffer, pos, killme, log, lastOpen, dropped>>
EndOfFile == bpc = "read" /\ seen = written /\ holders = {} /\ Gone
Alarm == bpc \in {"read", "flush"} /\ killme = -1 /\ Gone

BootNext == UNCHANGED output /\
  (RcUsage \/ WithoutBtee \/ WithBtee \/ SetFails \/ SetDone \/ Exec \/ ExecFails \/ StartDaemon
   \/ ScriptWrites \/ ScriptEnds \/ Sigpipe \/ DaemonWrites \/ DaemonEnds
   \/ BteeRead \/ Flush \/ EndOfFile \/ Alarm)

BootSpec == BootInit /\ [][BootNext]_boot_vars
-----------------------------------------------------------------------------
\* The line of a byte has a return in it behind the byte, so that it may be taken back.
LineAround(i) == {j \in DOMAIN output : \A k \in DOMAIN output :
                k \in i .. j - 1 \cup j .. i - 1 => output[k] # "n"}
MayGo(i) == output[i] = "EOT" \/ \E j \in LineAround(i) : j >= i /\ output[j] = "r"

LogAndBuffer == log \o [i \in 1 .. pos |-> buffer[i - 1]]

\* Nothing is logged twice or out of order or but for EOT, and what is not
\* taken back by a return is logged or waits for a file that cannot be opened
\* yet, unless the buffer was full.
LogIsWhole ==
  /\ \A i, j \in DOMAIN LogAndBuffer : i < j => LogAndBuffer[i] < LogAndBuffer[j]
  /\ \A i \in DOMAIN LogAndBuffer : LogAndBuffer[i] \in 1 .. seen /\ output[LogAndBuffer[i]] # "EOT"
  /\ bpc \in {"read", "flush"} /\ ~dropped =>
       \A i \in 1 .. seen : MayGo(i) \/ \E j \in DOMAIN LogAndBuffer : LogAndBuffer[j] = i

\* btee leaves no sooner than the script, and with its output in the log if the
\* log could be opened the last time.
LeavesAfterScript ==
  bpc = "gone" /\ seen > 0 /\ lastOpen /\ ~dropped =>
    \A i \in 1 .. EotAt : i <= written => MayGo(i) \/ \E j \in DOMAIN log : log[j] = i

\* When the script is over, btee will leave even if a daemon keeps the pipe
\* open: it has seen EOT, will read it, or finds the end of the file.
WillLeave == rpc = "ended" /\ bpc \in {"read", "flush"} =>
               killme # 0 \/ (seen < EotAt /\ EotAt <= written) \/ holders = {}
BootLogRight == LogIsWhole /\ LeavesAfterScript /\ WillLeave
=============================================================================
