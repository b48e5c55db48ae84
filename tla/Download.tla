------------------------------ MODULE Download ------------------------------
(***************************************************************************)
(* scripts/Download: download_file for one source file, called by          *)
(* processes that run at the same time and one after the other.            *)
(*                                                                         *)
(* The file at the URL ("gzfile") is fetched into <gzfile>.incomplete and  *)
(* renamed; its content is decompressed and checked, compressed anew into  *)
(* the archive the builds use ("bzfile"), and removed.  A mirror has the   *)
(* archive itself, and so has a URL of a .zst file: then both are one file.*)
(* A lock file keeps a second process off; Ctrl-C removes it (the trap     *)
(* does not exit) and ends only the command in the foreground.  The status *)
(* of the decompressor and of the compressor is not looked at: when one of *)
(* them fails (no space left, a program missing) the script goes on.       *)
(*                                                                         *)
(* Assumed: a checksum is given and -nock is not; no alternative           *)
(* directory; http, https or ftp.                                          *)
(***************************************************************************)
EXTENDS Naturals, FiniteSets

CONSTANTS
  Proc,        \* the processes
  UseMirror,   \* a mirror has been chosen (download/Mirror-Cache)
  ToolsFail,   \* a decompressor or a compressor may fail
  MaxCalls,    \* bound: calls of download_file
  MaxInts,     \* bound: Ctrl-C typed
  MaxKills     \* bound: processes killed

ASSUME DownloadAssumption == /\ UseMirror \in BOOLEAN /\ ToolsFail \in BOOLEAN
                             /\ MaxCalls \in Nat /\ MaxInts \in Nat /\ MaxKills \in Nat

\* A name is gzfile or bzfile, with a suffix.
Base == {"gz", "bz"}
Suffix == {"", ".incomplete", ".cksum-err", ".extck-err"}
Name == Base \X Suffix
Archive == <<"bz", "">>
Source == <<"gz", "">>

Content == {"none", "empty", "part", "good", "bad"}

VARIABLES
  kind,     \* "convert": gzfile is not bzfile; "zst": it is
  server,   \* what the URL holds: "good" or "bad"
  file,     \* file[n]: the content of a file, "none" when there is none
  lock,     \* whether the lock file is there
  pc,       \* pc[p]: where the process is in download_file
  mode,     \* mode[p]: "get", or "check" with -check
  from,     \* from[p]: where it fetches from: "mirror" or "origin"
  resume,   \* resume[p]: whether curl continues a previous download
  tgt,      \* tgt[p]: the base name of what it checks
  dat,      \* dat[p]: the decompressed content it has checked, or will
  calls, ints, kills,
  raced,    \* whether two processes held the lock at a time (a history)
  cut       \* which programs have ended before their work was done, by a
            \* failure or a Ctrl-C: "reader" of a check, "writer" of the archive
            \* (a history)

vars == <<kind, server, file, lock, pc, mode, from, resume, tgt, dat,
          calls, ints, kills, raced, cut>>

world == <<kind, server>>
counts == <<calls, ints, kills>>
hist == <<raced, cut>>
fetching == <<from, resume>>

\* Between the test of the lock file and its removal
Locked == {"choose", "fetch", "curl", "type", "failed", "fetched", "check",
           "cksum", "compress", "rmsource", "unlock"}

TypeOK == /\ kind \in {"convert", "zst"} /\ server \in {"good", "bad"}
          /\ file \in [Name -> Content]
          /\ lock \in BOOLEAN
          /\ pc \in [Proc -> {"off", "start", "locktest", "lock"} \cup Locked]
          /\ mode \in [Proc -> {"get", "check"}]
          /\ from \in [Proc -> {"mirror", "origin"}] /\ resume \in [Proc -> BOOLEAN]
          /\ tgt \in [Proc -> Base] /\ dat \in [Proc -> Content]
          /\ \A p \in Proc : tgt[p] = "gz" => kind = "convert"
          /\ \A p \in Proc : pc[p] \in {"compress", "rmsource"} => tgt[p] = "gz"
          /\ calls \in Nat /\ ints \in Nat /\ kills \in Nat
          /\ raced \in BOOLEAN /\ cut \subseteq {"reader", "writer"}

Init == /\ kind \in {"convert", "zst"} /\ server \in {"good", "bad"}
        /\ file = [n \in Name |-> "none"] /\ lock = FALSE
        /\ pc = [p \in Proc |-> "off"] /\ mode = [p \in Proc |-> "get"]
        /\ from = [p \in Proc |-> "origin"] /\ resume = [p \in Proc |-> FALSE]
        /\ tgt = [p \in Proc |-> "bz"] /\ dat = [p \in Proc |-> "none"]
        /\ calls = 0 /\ ints = 0 /\ kills = 0
        /\ raced = FALSE /\ cut = {}

NonEmpty(n) == file[n] \notin {"none", "empty"}
Gz == IF kind = "zst" THEN "bz" ELSE "gz"
GoesTo(p, where) == pc' = [pc EXCEPT ![p] = where]

\* The call is over, and its local variables with it.
Ends(p) == /\ GoesTo(p, "off")
           /\ mode' = [mode EXCEPT ![p] = "get"]
           /\ from' = [from EXCEPT ![p] = "origin"]
           /\ resume' = [resume EXCEPT ![p] = FALSE]
           /\ tgt' = [tgt EXCEPT ![p] = "bz"]
           /\ dat' = [dat EXCEPT ![p] = "none"]

-----------------------------------------------------------------------------
\* download_file, up to the lock

Call(p) == /\ pc[p] = "off" /\ calls < MaxCalls
           /\ calls' = calls + 1
           /\ \E m \in {"get", "check"} : mode' = [mode EXCEPT ![p] = m]
           /\ GoesTo(p, "start")
           /\ UNCHANGED <<world, file, lock, fetching, tgt, dat, ints, kills, hist>>

AlreadyThere(p) == mode[p] = "get" /\ NonEmpty(Archive)

IsThere(p) == /\ pc[p] = "start" /\ AlreadyThere(p)
              /\ Ends(p)
              /\ UNCHANGED <<world, file, lock, counts, hist>>

IsNotThere(p) == /\ pc[p] = "start" /\ ~AlreadyThere(p)
                 /\ GoesTo(p, "locktest")
                 /\ UNCHANGED <<world, file, lock, mode, fetching, tgt, dat, counts, hist>>

\* "Found $lkfile -> skip download."
LockFound(p) == /\ pc[p] = "locktest" /\ lock
                /\ Ends(p)
                /\ UNCHANGED <<world, file, lock, counts, hist>>

LockFree(p) == /\ pc[p] = "locktest" /\ ~lock
               /\ GoesTo(p, "lock")
               /\ UNCHANGED <<world, file, lock, mode, fetching, tgt, dat, counts, hist>>

WriteLock(p) == /\ pc[p] = "lock"
                /\ lock' = TRUE
                /\ raced' = (raced \/ \E q \in Proc : pc[q] \in Locked)
                /\ GoesTo(p, "choose")
                /\ UNCHANGED <<world, file, mode, fetching, tgt, dat, counts, cut>>

-----------------------------------------------------------------------------
\* What there is to do

Checks(p, b) == /\ tgt' = [tgt EXCEPT ![p] = b]
                /\ GoesTo(p, "check")

CheckArchive(p) == /\ pc[p] = "choose" /\ mode[p] = "check"
                   /\ IF file[Archive] = "none"
                      THEN GoesTo(p, "unlock") /\ tgt' = tgt
                      ELSE Checks(p, "bz")
                   /\ UNCHANGED <<world, file, lock, mode, fetching, dat, counts, hist>>

HaveSource(p) == /\ pc[p] = "choose" /\ mode[p] = "get" /\ NonEmpty(<<Gz, "">>)
                 /\ Checks(p, Gz)
                 /\ UNCHANGED <<world, file, lock, mode, fetching, dat, counts, hist>>

ErrorNoted == \E s \in {".cksum-err", ".extck-err"} : NonEmpty(<<Gz, s>>)

ErrorFound(p) == /\ pc[p] = "choose" /\ mode[p] = "get"
                 /\ ~NonEmpty(<<Gz, "">>) /\ ErrorNoted
                 /\ GoesTo(p, "unlock")
                 /\ UNCHANGED <<world, file, lock, mode, fetching, tgt, dat, counts, hist>>

MustFetch(p) == /\ pc[p] = "choose" /\ mode[p] = "get"
                /\ ~NonEmpty(<<Gz, "">>) /\ ~ErrorNoted
                /\ from' = [from EXCEPT ![p] = IF UseMirror THEN "mirror" ELSE "origin"]
                /\ GoesTo(p, "fetch")
                /\ UNCHANGED <<world, file, lock, mode, resume, tgt, dat, counts, hist>>

-----------------------------------------------------------------------------
\* download_file_now

Fetched(p) == IF from[p] = "mirror" THEN "bz" ELSE Gz
Incomplete(p) == <<Fetched(p), ".incomplete">>

OthersWrite(p) == \E q \in Proc \ {p} : pc[q] = "curl" /\ Incomplete(q) = Incomplete(p)

CurlStarts(p) == /\ pc[p] = "fetch"
                 /\ resume' = [resume EXCEPT ![p] = NonEmpty(Incomplete(p))]
                 /\ file' = IF NonEmpty(Incomplete(p)) THEN file
                            ELSE [file EXCEPT ![Incomplete(p)] = "empty"]
                 /\ GoesTo(p, "curl")
                 /\ UNCHANGED <<world, lock, mode, from, tgt, dat, counts, hist>>

\* Two that write one file make anything of it.
CurlSucceeds(p) == /\ pc[p] = "curl"
                   /\ \E c \in IF OthersWrite(p) THEN {"part", "bad", server} ELSE {server} :
                        file' = [file EXCEPT ![Incomplete(p)] = c]
                   /\ GoesTo(p, "type")
                   /\ UNCHANGED <<world, lock, mode, fetching, tgt, dat, counts, hist>>

CurlFailsUnnoticed(p) == /\ pc[p] = "curl"
                         /\ \E c \in {file[Incomplete(p)], "part"} :
                              file' = [file EXCEPT ![Incomplete(p)] = c]
                         /\ GoesTo(p, "type")
                         /\ UNCHANGED <<world, lock, mode, fetching, tgt, dat, counts, hist>>
CurlFails(p) == /\ pc[p] = "curl"
                /\ \E c \in {file[Incomplete(p)], "part"} :
                     file' = [file EXCEPT ![Incomplete(p)] = c]
                /\ GoesTo(p, "failed")
                /\ UNCHANGED <<world, lock, mode, fetching, tgt, dat, counts, hist>>

\* "Resuming download not possible. -> Overwriting old file."
CurlCannotResume(p) == /\ pc[p] = "curl" /\ resume[p]
                       /\ file' = [file EXCEPT ![Incomplete(p)] = "empty"]
                       /\ resume' = [resume EXCEPT ![p] = FALSE]
                       /\ UNCHANGED <<world, lock, pc, mode, from, tgt, dat, counts, hist>>

Renamed(n, m) == IF file[n] = "none" THEN file
                 ELSE [file EXCEPT ![n] = "none", ![m] = file[n]]

NoData(p) == /\ pc[p] = "type" /\ ~NonEmpty(Incomplete(p))
             /\ GoesTo(p, "failed")
             /\ UNCHANGED <<world, file, lock, mode, fetching, tgt, dat, counts, hist>>

TypeMatches(p) == /\ pc[p] = "type" /\ NonEmpty(Incomplete(p))
                  /\ file' = Renamed(Incomplete(p), <<Fetched(p), "">>)
                  /\ GoesTo(p, "fetched")
                  /\ UNCHANGED <<world, lock, mode, fetching, tgt, dat, counts, hist>>

\* Not what the name says: "File type does not match filename"
TypeDiffers(p) == /\ pc[p] = "type" /\ file[Incomplete(p)] \in {"part", "bad"}
                  /\ file' = Renamed(Incomplete(p), <<Fetched(p), ".extck-err">>)
                  /\ GoesTo(p, "fetched")
                  /\ UNCHANGED <<world, lock, mode, fetching, tgt, dat, counts, hist>>

\* "download from mirror failed, trying original URL."
FetchFailed(p) == /\ pc[p] = "failed"
                  /\ from' = [from EXCEPT ![p] = "origin"]
                  /\ GoesTo(p, IF from[p] = "mirror" THEN "fetch" ELSE "fetched")
                  /\ UNCHANGED <<world, file, lock, mode, resume, tgt, dat, counts, hist>>

FetchEnded(p) == /\ pc[p] = "fetched"
                 /\ IF NonEmpty(<<Fetched(p), "">>) THEN Checks(p, Fetched(p))
                    ELSE GoesTo(p, "unlock") /\ tgt' = tgt
                 /\ UNCHANGED <<world, file, lock, mode, fetching, dat, counts, hist>>

-----------------------------------------------------------------------------
\* The check, and the archive

Decompress(p) == /\ pc[p] = "check"
                 /\ dat' = [dat EXCEPT ![p] = file[<<tgt[p], "">>]]
                 /\ GoesTo(p, "cksum")
                 /\ UNCHANGED <<world, file, lock, mode, fetching, tgt, counts, hist>>

\* It fails, and what it has written is checked.
DecompressFails(p) == /\ pc[p] = "check" /\ ToolsFail
                      /\ dat' = [dat EXCEPT ![p] = "part"]
                      /\ cut' = cut \cup {"reader"}
                      /\ GoesTo(p, "cksum")
                      /\ UNCHANGED <<world, file, lock, mode, fetching, tgt, counts, raced>>

CksumUnchecked(p) == TRUE
CksumMatches(p) == dat[p] = "good"

CksumError(p) == /\ pc[p] = "cksum" /\ ~CksumMatches(p)
                 /\ file' = Renamed(<<tgt[p], "">>, <<tgt[p], ".cksum-err">>)
                 /\ GoesTo(p, "unlock")
                 /\ UNCHANGED <<world, lock, mode, fetching, tgt, dat, counts, hist>>

MustConvertAlways(p) == TRUE
MustConvert(p) == tgt[p] = "gz"

OpenArchiveRmFirst == file' = [file EXCEPT ![Archive] = "empty", ![Source] = "none"]
OpenArchive == file' = [file EXCEPT ![Archive] = "empty"]

CksumFine(p) == /\ pc[p] = "cksum" /\ CksumMatches(p)
                /\ IF MustConvert(p) THEN OpenArchive /\ GoesTo(p, "compress")
                   ELSE file' = file /\ GoesTo(p, "unlock")
                /\ UNCHANGED <<world, lock, mode, fetching, tgt, dat, counts, hist>>

\* Some of the archive has been written.
CompressSome(p) == /\ pc[p] = "compress" /\ file[Archive] = "empty"
                   /\ file' = [file EXCEPT ![Archive] = "part"]
                   /\ UNCHANGED <<world, lock, pc, mode, fetching, tgt, dat, counts, hist>>

CompressEnds(p) == /\ pc[p] = "compress"
                   /\ file' = [file EXCEPT ![Archive] = dat[p]]
                   /\ GoesTo(p, "rmsource")
                   /\ UNCHANGED <<world, lock, mode, fetching, tgt, dat, counts, hist>>

\* It fails, and what it has written is the archive.
CompressFails(p) == /\ pc[p] = "compress" /\ ToolsFail
                    /\ cut' = cut \cup {"writer"}
                    /\ GoesTo(p, "rmsource")
                    /\ UNCHANGED <<world, file, lock, mode, fetching, tgt, dat, counts, raced>>

RmSource(p) == /\ pc[p] = "rmsource"
               /\ file' = [file EXCEPT ![Source] = "none"]
               /\ GoesTo(p, "unlock")
               /\ UNCHANGED <<world, lock, mode, fetching, tgt, dat, counts, hist>>

UnlockForgotten(p) == lock' = lock
RmLock(p) == lock' = FALSE

Unlock(p) == /\ pc[p] = "unlock"
             /\ RmLock(p)
             /\ Ends(p)
             /\ UNCHANGED <<world, file, counts, hist>>

-----------------------------------------------------------------------------
\* Ctrl-C, a kill, and what the user does about the files left

\* Before the trap is set the process dies.
IntDies(p) == /\ pc[p] \in {"start", "locktest"} /\ ints < MaxInts
              /\ ints' = ints + 1
              /\ Ends(p)
              /\ UNCHANGED <<world, file, lock, calls, kills, hist>>

\* trap 'rm -f "$lkfile"' INT; curl, the decompressor or the compressor dies,
\* with what it has written, and the script goes on.
IntTrapped(p) ==
  /\ pc[p] \in Locked \cup {"lock"} /\ ints < MaxInts
  /\ ints' = ints + 1
  /\ lock' = FALSE
  /\ \/ /\ pc[p] = "curl"
        /\ file' = [file EXCEPT ![Incomplete(p)] = "part"]
        /\ GoesTo(p, "failed") /\ UNCHANGED <<dat, cut>>
     \/ /\ pc[p] \in {"check", "cksum"}
        /\ dat' = [dat EXCEPT ![p] = "part"]
        /\ cut' = cut \cup {"reader"}
        /\ GoesTo(p, "cksum") /\ file' = file
     \/ /\ pc[p] = "compress"
        /\ cut' = cut \cup {"writer"}
        /\ GoesTo(p, "rmsource") /\ UNCHANGED <<file, dat>>
     \/ /\ pc[p] \notin {"curl", "check", "cksum", "compress"}
        /\ UNCHANGED <<pc, file, dat, cut>>
  /\ UNCHANGED <<world, mode, fetching, tgt, calls, kills, raced>>

Kill(p) == /\ pc[p] # "off" /\ kills < MaxKills
           /\ kills' = kills + 1
           /\ Ends(p)
           /\ UNCHANGED <<world, file, lock, calls, ints, hist>>

\* "Remove the *.cksum-err file to force a new download of that file."
RemoveErr(n) == /\ n[2] \in {".cksum-err", ".extck-err"} /\ file[n] # "none"
                /\ file' = [file EXCEPT ![n] = "none"]
                /\ UNCHANGED <<world, lock, pc, mode, fetching, tgt, dat, counts, hist>>

\* The lock file of a process that is gone.
RemoveLock == /\ lock /\ \A p \in Proc : pc[p] = "off"
              /\ lock' = FALSE
              /\ UNCHANGED <<world, file, pc, mode, fetching, tgt, dat, counts, hist>>

-----------------------------------------------------------------------------
Step(p) == \/ IsThere(p) \/ IsNotThere(p) \/ LockFound(p) \/ LockFree(p) \/ WriteLock(p)
           \/ CheckArchive(p) \/ HaveSource(p) \/ ErrorFound(p) \/ MustFetch(p)
           \/ CurlStarts(p) \/ CurlSucceeds(p) \/ CurlFails(p) \/ CurlCannotResume(p)
           \/ NoData(p) \/ TypeMatches(p) \/ TypeDiffers(p) \/ FetchFailed(p) \/ FetchEnded(p)
           \/ Decompress(p) \/ DecompressFails(p) \/ CksumError(p) \/ CksumFine(p)
           \/ CompressSome(p) \/ CompressEnds(p) \/ CompressFails(p)
           \/ RmSource(p) \/ Unlock(p)

Next == \/ \E p \in Proc : Call(p) \/ Step(p) \/ IntDies(p) \/ IntTrapped(p) \/ Kill(p)
        \/ \E n \in Name : RemoveErr(n)
        \/ RemoveLock

Spec == Init /\ [][Next]_vars

-----------------------------------------------------------------------------
(* Properties *)

AllOff == \A p \in Proc : pc[p] = "off"

\* No call was killed, and no two were at work at a time.
OneByOne == kills = 0 /\ ~raced

\* The archive a build will use has been checked, once nobody works on it, and
\* is whole unless a compressor has failed or met a Ctrl-C: its status is not
\* looked at, and what it had written stays.  A part of an archive is then
\* never looked at again, an empty one is (Download:332,491).
VerifiedAtRest ==
  AllOff /\ OneByOne => \/ file[Archive] \in {"none", "good"}
                        \/ file[Archive] \in {"empty", "part"} /\ "writer" \in cut

\* "That means that we downloaded the file already and it had an incorrect
\* checksum." (Download:373)
CksumErrMeansBad ==
  \A b \in Base : file[<<b, ".cksum-err">>] # "none" => server = "bad"

\* The same, when each program that was called has done its work: downloads
\* that broke off, were resumed or came from the mirror do not matter, nor
\* does a Ctrl-C that only ends a curl.
CksumErrMeansBadUndisturbed == OneByOne /\ cut = {} => CksumErrMeansBad

\* No call leaves its lock file behind to block the next ones, whichever way
\* it leaves, unless it is killed (Download:340 and each return).
LockFreed == AllOff /\ kills = 0 => ~lock

\* What has been downloaded is given up only for a whole archive, or is kept as
\* .cksum-err, whatever is killed or interrupted - unless a compressor has
\* failed or met a Ctrl-C, after which the code removes the source all the
\* same (Download:491,501,510,518,527,536).
KeepsSource ==
  file[Source] = "good" /\ file'[Source] # "good" /\ ~raced =>
    \/ file[Archive] = "good" \/ file'[<<"gz", ".cksum-err">>] = "good"
    \/ "writer" \in cut
SourceKept == [][KeepsSource]_vars

=============================================================================
