-------------------------------- MODULE Relay -------------------------------
(***************************************************************************)
(* misc/archive: the remote shell of xctrld.c with tcp-client.c at its     *)
(* other end, each a loop around select(); and the copying of ccat.c and   *)
(* cdromchk.c.                                                             *)
(*                                                                         *)
(* The connection and the pipes are queues of bytes; a byte has a number,   *)
(* a carriage return the number 0.  write() blocks until all is written,   *)
(* as it does on pipes and blocking sockets; the shell is external.        *)
(***************************************************************************)
EXTENDS Integers, SequencesExt

CONSTANTS Typed,       \* the bytes that are typed
          Printed,     \* the bytes that the shell and what it starts print
          BUFSIZE,     \* 1024 in the source
          Banner       \* xctrld's greeting

VARIABLES
  typed, printed,  \* how much of them was read by the client, is printed
  upward, down,    \* the connection
  p_in, p_out,     \* the pipes of the shell
  taken,           \* what the shell has read
  shown,           \* what the client has written
  shell,           \* "none", "run", "zombie", "reaped"
  background,      \* a process of the shell's has p_out open
  session, client  \* "start" (session), "run", "closed", "killed" (session)

relay_vars == <<typed, printed, upward, down, p_in, p_out, taken, shown, shell, background, session, client>>

NoReturns(s) == SelectSeq(s, LAMBDA b : b # 0)
Chunks(s) == {SubSeq(s, 1, k) : k \in 1 .. IF Len(s) < BUFSIZE THEN Len(s) ELSE BUFSIZE}
Rest(s, chunk) == SubSeq(s, Len(chunk) + 1, Len(s))

RelayInit ==
  /\ typed = 0 /\ printed = 0 /\ upward = <<>> /\ down = <<>> /\ p_in = <<>> /\ p_out = <<>>
  /\ taken = <<>> /\ shown = <<>> /\ shell = "none" /\ background = FALSE
  /\ session = "start" /\ client = "run"

-----------------------------------------------------------------------------
(* do_session() of xctrld.                                                 *)

Greet == /\ session = "start" /\ session' = "run" /\ shell' = "run"
         /\ down' = down \o Banner
         /\ UNCHANGED <<typed, printed, upward, p_in, p_out, taken, shown, background, client>>

\* The two halves of the loop, of which select() enables one or both: what the
\* client sends goes to the shell but for returns, ...
FromNet(chunk) == /\ upward' = Rest(upward, chunk) /\ p_in' = p_in \o NoReturns(chunk)
FromShell(chunk) == /\ p_out' = Rest(p_out, chunk) /\ down' = down \o chunk

SessionReads ==
  /\ session = "run" /\ shell # "reaped"
  /\ \/ \E c \in Chunks(upward) : FromNet(c) /\ UNCHANGED <<p_out, down>>
     \/ client = "run" /\ \E c \in Chunks(p_out) : FromShell(c) /\ UNCHANGED <<upward, p_in>>
     \/ client = "run" /\ \E c \in Chunks(upward), d \in Chunks(p_out) : FromNet(c) /\ FromShell(d)
  /\ UNCHANGED <<typed, printed, taken, shown, shell, background, session, client>>

\* ... and writing to a client that is gone is the end of the session.
SessionKilled ==
  /\ session = "run" /\ client = "closed" /\ p_out # <<>> /\ session' = "killed"
  /\ UNCHANGED <<typed, printed, upward, down, p_in, p_out, taken, shown, shell, background, client>>

\* waitpid(), at the top of the loop, comes before what is still in the pipe;
\* before that select() must return.
Answers == upward # <<>> \/ p_out # <<>> \/ client = "closed" \/ (shell = "zombie" /\ ~background)
SessionEnds ==
  /\ session = "run" /\ shell = "zombie" /\ Answers
  /\ shell' = "reaped" /\ session' = "closed"
  /\ UNCHANGED <<typed, printed, upward, down, p_in, p_out, taken, shown, background, client>>

-----------------------------------------------------------------------------
(* The shell; it ends by itself or when its input does.                    *)

ShellReads == /\ shell = "run" /\ p_in # <<>>
              /\ taken' = Append(taken, Head(p_in)) /\ p_in' = Tail(p_in)
              /\ UNCHANGED <<typed, printed, upward, down, p_out, shown, shell, background, session, client>>
ShellPrints == /\ shell = "run" \/ background
               /\ session = "run" /\ printed < Len(Printed)
               /\ printed' = printed + 1 /\ p_out' = Append(p_out, Printed[printed'])
               /\ UNCHANGED <<typed, upward, down, p_in, taken, shown, shell, background, session, client>>
ShellStarts == /\ shell = "run" /\ background' = TRUE
               /\ UNCHANGED <<typed, printed, upward, down, p_in, p_out, taken, shown, shell, session, client>>
ShellEnds == /\ shell = "run" /\ shell' = "zombie"
             /\ UNCHANGED <<typed, printed, upward, down, p_in, p_out, taken, shown, background, session, client>>
BackgroundEnds == /\ background /\ background' = FALSE
                  /\ UNCHANGED <<typed, printed, upward, down, p_in, p_out, taken, shown, shell, session, client>>

-----------------------------------------------------------------------------
(* tcp-client; its loop goes on while the last read() has given something. *)

NetEof == session \in {"closed", "killed"} /\ down = <<>>
Keys == {SubSeq(Typed, typed + 1, typed + k) : k \in 1 .. Len(Typed) - typed} \cap Chunks(Rest(Typed, SubSeq(Typed, 1, typed)))

ToScreen(chunk) == down' = Rest(down, chunk) /\ shown' = shown \o NoReturns(chunk)
ToNet(keys) == /\ typed' = typed + Len(keys)
               /\ upward' = IF session \in {"closed", "killed"} THEN upward ELSE upward \o keys

ClientReads ==
  /\ client = "run"
  /\ \/ \E c \in Chunks(down) : ToScreen(c) /\ UNCHANGED <<typed, upward>>
     \/ \E k \in Keys : ToNet(k) /\ UNCHANGED <<down, shown>>
     \/ \E c \in Chunks(down), k \in Keys : ToScreen(c) /\ ToNet(k)
  /\ UNCHANGED <<printed, p_in, p_out, taken, shell, background, session, client>>

\* The end of the connection, with nothing typed at the same time; or of the
\* terminal.
ClientEnds ==
  /\ client = "run" /\ client' = "closed"
  /\ NetEof \/ typed = Len(Typed)
  /\ UNCHANGED <<typed, printed, upward, down, p_in, p_out, taken, shown, shell, background, session>>

RelayNext == \/ Greet \/ SessionReads \/ SessionKilled \/ SessionEnds
             \/ ShellReads \/ ShellPrints \/ ShellStarts \/ ShellEnds \/ BackgroundEnds
             \/ ClientReads \/ ClientEnds

RelaySpec == RelayInit /\ [][RelayNext]_relay_vars
-----------------------------------------------------------------------------
\* Nothing is lost, doubled or out of order between two ends that are there:
\* what was typed is what the shell has read and what is under way to it, and
\* what it printed is what the screen has and what is under way.
Faithful ==
  /\ session \in {"start", "run"} =>
       /\ taken \o p_in \o NoReturns(upward) = NoReturns(SubSeq(Typed, 1, typed))
       /\ shown \o NoReturns(down \o p_out)
            = NoReturns((IF session = "start" THEN <<>> ELSE Banner) \o SubSeq(Printed, 1, printed))
  /\ IsPrefix(taken, NoReturns(Typed)) /\ IsPrefix(shown, NoReturns(Banner \o Printed))

-----------------------------------------------------------------------------
(* cdromchk: each block of the image is compared with as many bytes of the *)
(* CD, which may come in pieces; ccat: what it says at the end.            *)

\* pieces: how much a read() of the CD gives at most, in turn; 0 is the end.
\* The bytes got for a block of n, and the pieces left.
Block[n \in 0 .. 4, pieces \in Seq(0 .. 4)] ==
  IF n = 0 \/ pieces = <<>> \/ Head(pieces) = 0 THEN [got |-> 0, left |-> pieces]
  ELSE LET k == IF Head(pieces) < n THEN Head(pieces) ELSE n
           more == Block[n - k, Tail(pieces)]
       IN [got |-> k + more.got, left |-> more.left]

\* cd and image are sequences; size: the size of a block.
cdromchk(cd, image, size, pieces) ==
  LET Check[i \in 0 .. Len(image), ps \in Seq(0 .. 4)] ==
        LET n == IF Len(image) - i < size THEN Len(image) - i ELSE size
            there == Len(cd) - i
            b == Block[IF there < n THEN there ELSE n, ps]
        IN IF n = 0 THEN "OK"
           ELSE IF b.got < n THEN "short"
           ELSE IF SubSeq(cd, i + 1, i + n) # SubSeq(image, i + 1, i + n) THEN "differs"
           ELSE Check[i + n, b.left]
  IN Check[0, pieces]

\* reads and writes: what the calls of read() and write() return, in turn.
ccat(reads, writes) ==
  LET Copy[i \in 1 .. Len(reads)] ==
        IF reads[i] <= 0 THEN [rc1 |-> reads[i], rc2 |-> reads[i]]
        ELSE IF writes[i] # reads[i] THEN [rc1 |-> reads[i], rc2 |-> writes[i]]
        ELSE Copy[i + 1]
      end == Copy[1]
  IN IF end.rc1 = -1 THEN "read" ELSE IF end.rc2 = -1 THEN "write"
     ELSE IF end.rc2 # end.rc1 THEN "partial" ELSE "ok"

\* The check says OK if the CD begins with the image, however short the reads
\* are, and only then; ccat says ok if it copied everything, and only then.
Images == UNION {[1 .. k -> {0, 1}] : k \in 0 .. 3}
Partitions == {p \in [1 .. 4 -> 1 .. 2] : TRUE}
CopiesChecked ==
  /\ \A cd, image \in Images, size \in 1 .. 2, pieces \in Partitions :
       (cdromchk(cd, image, size, pieces) = "OK") <=> IsPrefix(image, cd)
  /\ \A reads \in [1 .. 2 -> -1 .. 2], writes \in [1 .. 2 -> -1 .. 2] :
       LET all == Append(reads, 0)
           end == CHOOSE i \in 1 .. 3 : all[i] <= 0 /\ \A j \in 1 .. i - 1 : all[j] > 0
       IN (ccat(all, writes) = "ok") <=> all[end] = 0 /\ \A j \in 1 .. end - 1 : writes[j] = all[j]
=============================================================================
