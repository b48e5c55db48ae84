--------------------------- MODULE DownloadProofs ---------------------------
(***************************************************************************)
(* What is proved of scripts/Download, for any number of processes, calls, *)
(* interrupts and kills.                                                   *)
(*                                                                         *)
(* As long as no two processes have held the lock at a time, only one is   *)
(* between the test of the lock file and its removal (OneLocked), so what  *)
(* it found or did in an earlier step still holds in a later one           *)
(* (PlaceInv).  From that follows where each content can have come from    *)
(* (StoredInv): the archive is what the server holds, or is being written  *)
(* from what has been checked, or has been checked itself - or it is what  *)
(* a compressor had written when it failed or met a Ctrl-C.                *)
(***************************************************************************)
EXTENDS Download, TLAPS

\* The names the actions use are names.
LEMMA NameFacts ==
  /\ \A b \in Base, s \in Suffix : <<b, s>> \in Name
  /\ Archive \in Name /\ Source \in Name
  /\ \A p \in Proc : Fetched(p) \in Base /\ Incomplete(p) \in Name
<1>1. \A b \in Base, s \in Suffix : <<b, s>> \in Name
  BY DEF Name
<1>2. Archive \in Name /\ Source \in Name
  BY <1>1 DEF Archive, Source, Base, Suffix
<1>3. \A p \in Proc : Fetched(p) \in Base
  BY DEF Fetched, Gz, Base
<1>4. \A p \in Proc : Incomplete(p) \in Name
  BY <1>1, <1>3 DEF Incomplete, Suffix
<1> QED
  BY <1>1, <1>2, <1>3, <1>4

\* Two names are one only when both parts are.
LEMMA SuffixesDiffer ==
  /\ \A b, c \in Base, s, t \in Suffix : <<b, s>> = <<c, t>> => b = c /\ s = t
  /\ \A p \in Proc, b \in Base, s \in Suffix : Incomplete(p) = <<b, s>> => s = ".incomplete"
  /\ \A b \in Base, s \in Suffix : <<b, s>>[2] = s
<1>1. \A b, c, s, t : <<b, s>> = <<c, t>> => b = c /\ s = t
  OBVIOUS
<1> QED
  BY <1>1 DEF Incomplete

\* mv leaves a directory of files.
LEMMA RenamedFile ==
  ASSUME file \in [Name -> Content], NEW n \in Name, NEW m \in Name
  PROVE  Renamed(n, m) \in [Name -> Content]
BY DEF Renamed, Content

\* The type invariant holds at first, ...
LEMMA InitType == Init => TypeOK
<1> SUFFICES ASSUME Init PROVE TypeOK
  OBVIOUS
<1>1. file \in [Name -> Content]
  BY DEF Init, Content
<1>2. /\ pc \in [Proc -> {"off", "start", "locktest", "lock"} \cup Locked]
      /\ \A p \in Proc : pc[p] = "off" /\ tgt[p] = "bz"
      /\ dat \in [Proc -> Content] /\ tgt \in [Proc -> Base]
  BY DEF Init, Content, Base
<1>3. /\ mode \in [Proc -> {"get", "check"}] /\ from \in [Proc -> {"mirror", "origin"}]
      /\ resume \in [Proc -> BOOLEAN]
  BY DEF Init
<1> QED
  BY <1>1, <1>2, <1>3 DEF Init, TypeOK

\* ... and every step keeps it.
LEMMA TypeStep ==
  ASSUME TypeOK, [Next]_vars
  PROVE  TypeOK'
<1> USE DownloadAssumption DEF TypeOK, vars, world, counts, hist, fetching, Locked, Base
<1>1. ASSUME NEW p \in Proc, Call(p) PROVE TypeOK'
  BY <1>1 DEF Call, GoesTo, Content
<1>2. ASSUME NEW p \in Proc, IsThere(p) PROVE TypeOK'
  BY <1>2 DEF IsThere, GoesTo, Ends, Content
<1>3. ASSUME NEW p \in Proc, IsNotThere(p) PROVE TypeOK'
  BY <1>3 DEF IsNotThere, GoesTo
<1>4. ASSUME NEW p \in Proc, LockFound(p) PROVE TypeOK'
  BY <1>4 DEF LockFound, GoesTo, Ends, Content
<1>5. ASSUME NEW p \in Proc, LockFree(p) PROVE TypeOK'
  BY <1>5 DEF LockFree, GoesTo
<1>6. ASSUME NEW p \in Proc, WriteLock(p) PROVE TypeOK'
  BY <1>6 DEF WriteLock, GoesTo
<1>7. ASSUME NEW p \in Proc, CheckArchive(p) PROVE TypeOK'
  BY <1>7 DEF CheckArchive, GoesTo, Checks
<1>8. ASSUME NEW p \in Proc, HaveSource(p) PROVE TypeOK'
  BY <1>8 DEF HaveSource, GoesTo, Checks, Gz
<1>9. ASSUME NEW p \in Proc, ErrorFound(p) PROVE TypeOK'
  BY <1>9 DEF ErrorFound, GoesTo
<1>10. ASSUME NEW p \in Proc, MustFetch(p) PROVE TypeOK'
  BY <1>10 DEF MustFetch, GoesTo
<1>11. ASSUME NEW p \in Proc, CurlStarts(p) PROVE TypeOK'
  <2>1. file' \in [Name -> Content]
    BY <1>11, NameFacts DEF CurlStarts, Content
  <2>2. NonEmpty(Incomplete(p)) \in BOOLEAN
    BY DEF NonEmpty
  <2>3. resume' \in [Proc -> BOOLEAN]
    BY <1>11, <2>2 DEF CurlStarts
  <2> QED
    BY <1>11, <2>1, <2>3 DEF CurlStarts, GoesTo
<1>12. ASSUME NEW p \in Proc, CurlSucceeds(p) PROVE TypeOK'
  <2>1. file' \in [Name -> Content]
    BY <1>12, NameFacts DEF CurlSucceeds, Content
  <2> QED
    BY <1>12, <2>1 DEF CurlSucceeds, GoesTo, Incomplete, Fetched, Gz
<1>13. ASSUME NEW p \in Proc, CurlFails(p) PROVE TypeOK'
  <2>1. file' \in [Name -> Content]
    BY <1>13, NameFacts DEF CurlFails, Content
  <2> QED
    BY <1>13, <2>1 DEF CurlFails, GoesTo, Incomplete, Fetched, Gz
<1>14. ASSUME NEW p \in Proc, CurlCannotResume(p) PROVE TypeOK'
  <2>1. file' \in [Name -> Content]
    BY <1>14, NameFacts DEF CurlCannotResume, Content
  <2> QED
    BY <1>14, <2>1 DEF CurlCannotResume, GoesTo, Incomplete, Fetched, Gz
<1>15. ASSUME NEW p \in Proc, NoData(p) PROVE TypeOK'
  BY <1>15 DEF NoData, GoesTo
<1>16. ASSUME NEW p \in Proc, TypeMatches(p) PROVE TypeOK'
  <2>1. file' \in [Name -> Content]
    BY <1>16, NameFacts, RenamedFile DEF TypeMatches, Suffix
  <2> QED
    BY <1>16, <2>1 DEF TypeMatches, GoesTo, Renamed, Incomplete, Fetched, Gz
<1>17. ASSUME NEW p \in Proc, TypeDiffers(p) PROVE TypeOK'
  <2>1. file' \in [Name -> Content]
    BY <1>17, NameFacts, RenamedFile DEF TypeDiffers, Suffix
  <2> QED
    BY <1>17, <2>1 DEF TypeDiffers, GoesTo, Renamed, Incomplete, Fetched, Gz
<1>18. ASSUME NEW p \in Proc, FetchFailed(p) PROVE TypeOK'
  BY <1>18 DEF FetchFailed, GoesTo
<1>19. ASSUME NEW p \in Proc, FetchEnded(p) PROVE TypeOK'
  <2>1. Fetched(p) \in Base /\ (Fetched(p) = "gz" => kind = "convert")
    BY DEF Fetched, Gz
  <2> QED
    BY <1>19, <2>1 DEF FetchEnded, GoesTo, Checks
<1>20. ASSUME NEW p \in Proc, Decompress(p) PROVE TypeOK'
  BY <1>20, NameFacts DEF Decompress, GoesTo, Suffix
<1>33. ASSUME NEW p \in Proc, DecompressFails(p) PROVE TypeOK'
  BY <1>33 DEF DecompressFails, GoesTo, Content
<1>21. ASSUME NEW p \in Proc, CksumError(p) PROVE TypeOK'
  <2>1. file' \in [Name -> Content]
    BY <1>21, NameFacts, RenamedFile DEF CksumError, Suffix
  <2> QED
    BY <1>21, <2>1 DEF CksumError, GoesTo, Renamed
<1>22. ASSUME NEW p \in Proc, CksumFine(p) PROVE TypeOK'
  <2>1. file' \in [Name -> Content]
    BY <1>22, NameFacts DEF CksumFine, OpenArchive, Content
  <2> QED
    BY <1>22, <2>1 DEF CksumFine, GoesTo, OpenArchive, MustConvert
<1>23. ASSUME NEW p \in Proc, CompressSome(p) PROVE TypeOK'
  <2>1. file' \in [Name -> Content]
    BY <1>23, NameFacts DEF CompressSome, Content
  <2> QED
    BY <1>23, <2>1 DEF CompressSome, GoesTo
<1>24. ASSUME NEW p \in Proc, CompressEnds(p) PROVE TypeOK'
  <2>1. file' \in [Name -> Content]
    BY <1>24, NameFacts DEF CompressEnds
  <2> QED
    BY <1>24, <2>1 DEF CompressEnds, GoesTo
<1>34. ASSUME NEW p \in Proc, CompressFails(p) PROVE TypeOK'
  BY <1>34 DEF CompressFails, GoesTo
<1>25. ASSUME NEW p \in Proc, RmSource(p) PROVE TypeOK'
  <2>1. file' \in [Name -> Content]
    BY <1>25, NameFacts DEF RmSource, Content
  <2> QED
    BY <1>25, <2>1 DEF RmSource, GoesTo
<1>26. ASSUME NEW p \in Proc, Unlock(p) PROVE TypeOK'
  BY <1>26 DEF Unlock, GoesTo, Ends, RmLock, Content
<1>27. ASSUME NEW p \in Proc, IntDies(p) PROVE TypeOK'
  BY <1>27 DEF IntDies, GoesTo, Ends, Content
<1>28. ASSUME NEW p \in Proc, IntTrapped(p) PROVE TypeOK'
  <2>1. file' \in [Name -> Content]
    BY <1>28, NameFacts DEF IntTrapped, Content
  <2>2. dat' \in [Proc -> Content]
    BY <1>28 DEF IntTrapped, Content
  <2>3. /\ pc' \in [Proc -> {"off", "start", "locktest", "lock"} \cup Locked]
        /\ \A q \in Proc : pc'[q] \in {"compress", "rmsource"} => tgt[q] = "gz"
    BY <1>28 DEF IntTrapped, GoesTo
  <2> QED
    <3>1. /\ UNCHANGED <<kind, server, mode, from, resume, tgt, calls, kills, raced>>
          /\ lock' = FALSE /\ ints' = ints + 1
      BY <1>28 DEF IntTrapped
    <3>2. /\ \A q \in Proc : tgt'[q] = "gz" => kind' = "convert"
          /\ \A q \in Proc : pc'[q] \in {"compress", "rmsource"} => tgt'[q] = "gz"
      BY <2>3, <3>1
    <3>3. calls' \in Nat /\ ints' \in Nat /\ kills' \in Nat
      BY <3>1
    <3>4. /\ kind' \in {"convert", "zst"} /\ server' \in {"good", "bad"} /\ lock' \in BOOLEAN
          /\ mode' \in [Proc -> {"get", "check"}] /\ from' \in [Proc -> {"mirror", "origin"}]
          /\ resume' \in [Proc -> BOOLEAN] /\ tgt' \in [Proc -> Base] /\ raced' \in BOOLEAN
      BY <3>1, Zenon
    <3>5. cut' \subseteq {"reader", "writer"}
      BY <1>28 DEF IntTrapped
    <3> QED
      BY <2>1, <2>2, <2>3, <3>2, <3>3, <3>4, <3>5
<1>29. ASSUME NEW p \in Proc, Kill(p) PROVE TypeOK'
  BY <1>29 DEF Kill, GoesTo, Ends, Content
<1>30. ASSUME NEW n \in Name, RemoveErr(n) PROVE TypeOK'
  BY <1>30 DEF RemoveErr, Content
<1>31. CASE RemoveLock
  BY <1>31 DEF RemoveLock
<1>32. CASE UNCHANGED vars
  BY <1>32
<1> QED
  BY <1>1, <1>2, <1>3, <1>4, <1>5, <1>6, <1>7, <1>8, <1>9, <1>10, <1>11, <1>12, <1>13,
     <1>14, <1>15, <1>16, <1>17, <1>18, <1>19, <1>20, <1>21, <1>22, <1>23, <1>24, <1>25,
     <1>26, <1>27, <1>28, <1>29, <1>30, <1>31, <1>32, <1>33, <1>34 DEF Next, Step

-----------------------------------------------------------------------------
\* Without a race, one process is between WriteLock and Unlock; and a lock
\* file that is there has such a process, unless one was killed.
OneLocked == ~raced => \A p, q \in Proc : pc[p] \in Locked /\ pc[q] \in Locked => p = q
LockHasOwner == lock /\ kills = 0 => \E p \in Proc : pc[p] \in Locked

\* A step that takes no lock makes no new owner, and keeps the one there is
\* as long as it keeps the lock.
LockOnly ==
  /\ raced' = raced
  /\ \A q \in Proc : pc'[q] \in Locked => pc[q] \in Locked
  /\ lock' /\ kills' = 0 => lock /\ kills = 0 /\ \A q \in Proc : pc[q] \in Locked => pc'[q] \in Locked

\* All but WriteLock are such steps.
LEMMA LockStep ==
  ASSUME TypeOK, [Next]_vars
  PROVE  LockOnly \/ \E p \in Proc : WriteLock(p)
<1> USE DEF LockOnly, vars, world, counts, hist, fetching, Locked
<1>1. ASSUME NEW p \in Proc, Call(p) PROVE LockOnly
  BY <1>1 DEF Call, GoesTo, TypeOK
<1>2. ASSUME NEW p \in Proc, IsThere(p) PROVE LockOnly
  BY <1>2 DEF IsThere, GoesTo, Ends, TypeOK
<1>3. ASSUME NEW p \in Proc, IsNotThere(p) PROVE LockOnly
  BY <1>3 DEF IsNotThere, GoesTo, TypeOK
<1>4. ASSUME NEW p \in Proc, LockFound(p) PROVE LockOnly
  BY <1>4 DEF LockFound, GoesTo, Ends, TypeOK
<1>5. ASSUME NEW p \in Proc, LockFree(p) PROVE LockOnly
  BY <1>5 DEF LockFree, GoesTo, TypeOK
<1>7. ASSUME NEW p \in Proc, CheckArchive(p) PROVE LockOnly
  BY <1>7 DEF CheckArchive, GoesTo, Checks, TypeOK
<1>8. ASSUME NEW p \in Proc, HaveSource(p) PROVE LockOnly
  BY <1>8 DEF HaveSource, GoesTo, Checks, TypeOK
<1>9. ASSUME NEW p \in Proc, ErrorFound(p) PROVE LockOnly
  BY <1>9 DEF ErrorFound, GoesTo, TypeOK
<1>10. ASSUME NEW p \in Proc, MustFetch(p) PROVE LockOnly
  BY <1>10 DEF MustFetch, GoesTo, TypeOK
<1>11. ASSUME NEW p \in Proc, CurlStarts(p) PROVE LockOnly
  BY <1>11 DEF CurlStarts, GoesTo, TypeOK
<1>12. ASSUME NEW p \in Proc, CurlSucceeds(p) PROVE LockOnly
  BY <1>12 DEF CurlSucceeds, GoesTo, TypeOK
<1>13. ASSUME NEW p \in Proc, CurlFails(p) PROVE LockOnly
  BY <1>13 DEF CurlFails, GoesTo, TypeOK
<1>14. ASSUME NEW p \in Proc, CurlCannotResume(p) PROVE LockOnly
  BY <1>14 DEF CurlCannotResume, GoesTo, TypeOK
<1>15. ASSUME NEW p \in Proc, NoData(p) PROVE LockOnly
  BY <1>15 DEF NoData, GoesTo, TypeOK
<1>16. ASSUME NEW p \in Proc, TypeMatches(p) PROVE LockOnly
  BY <1>16 DEF TypeMatches, GoesTo, TypeOK
<1>17. ASSUME NEW p \in Proc, TypeDiffers(p) PROVE LockOnly
  BY <1>17 DEF TypeDiffers, GoesTo, TypeOK
<1>18. ASSUME NEW p \in Proc, FetchFailed(p) PROVE LockOnly
  BY <1>18 DEF FetchFailed, GoesTo, TypeOK
<1>19. ASSUME NEW p \in Proc, FetchEnded(p) PROVE LockOnly
  BY <1>19 DEF FetchEnded, GoesTo, Checks, TypeOK
<1>20. ASSUME NEW p \in Proc, Decompress(p) PROVE LockOnly
  BY <1>20 DEF Decompress, GoesTo, TypeOK
<1>33. ASSUME NEW p \in Proc, DecompressFails(p) PROVE LockOnly
  BY <1>33 DEF DecompressFails, GoesTo, TypeOK
<1>21. ASSUME NEW p \in Proc, CksumError(p) PROVE LockOnly
  BY <1>21 DEF CksumError, GoesTo, TypeOK
<1>22. ASSUME NEW p \in Proc, CksumFine(p) PROVE LockOnly
  BY <1>22 DEF CksumFine, GoesTo, TypeOK
<1>23. ASSUME NEW p \in Proc, CompressSome(p) PROVE LockOnly
  BY <1>23 DEF CompressSome, GoesTo, TypeOK
<1>24. ASSUME NEW p \in Proc, CompressEnds(p) PROVE LockOnly
  BY <1>24 DEF CompressEnds, GoesTo, TypeOK
<1>34. ASSUME NEW p \in Proc, CompressFails(p) PROVE LockOnly
  BY <1>34 DEF CompressFails, GoesTo, TypeOK
<1>25. ASSUME NEW p \in Proc, RmSource(p) PROVE LockOnly
  BY <1>25 DEF RmSource, GoesTo, TypeOK
<1>26. ASSUME NEW p \in Proc, Unlock(p) PROVE LockOnly
  BY <1>26 DEF Unlock, GoesTo, Ends, RmLock, TypeOK
<1>27. ASSUME NEW p \in Proc, IntDies(p) PROVE LockOnly
  BY <1>27 DEF IntDies, GoesTo, Ends, TypeOK
<1>28. ASSUME NEW p \in Proc, IntTrapped(p) PROVE LockOnly
  BY <1>28 DEF IntTrapped, GoesTo, TypeOK
<1>29. ASSUME NEW p \in Proc, Kill(p) PROVE LockOnly
  BY <1>29 DEF Kill, GoesTo, Ends, TypeOK
<1>30. ASSUME NEW n \in Name, RemoveErr(n) PROVE LockOnly
  BY <1>30 DEF RemoveErr
<1>31. CASE RemoveLock
  BY <1>31 DEF RemoveLock
<1>32. CASE UNCHANGED vars
  BY <1>32
<1> QED
  BY <1>1, <1>2, <1>3, <1>4, <1>5, <1>7, <1>8, <1>9, <1>10, <1>11, <1>12, <1>13, <1>14,
     <1>15, <1>16, <1>17, <1>18, <1>19, <1>20, <1>21, <1>22, <1>23, <1>24, <1>25, <1>26,
     <1>27, <1>28, <1>29, <1>30, <1>31, <1>32, <1>33, <1>34 DEF Next, Step

\* So both facts about the lock are kept.
LEMMA LocksStep ==
  ASSUME TypeOK, OneLocked, LockHasOwner, [Next]_vars
  PROVE  OneLocked' /\ LockHasOwner'
<1>1. CASE LockOnly
  BY <1>1 DEF LockOnly, OneLocked, LockHasOwner
<1>2. ASSUME NEW p \in Proc, WriteLock(p) PROVE OneLocked' /\ LockHasOwner'
  <2>1. pc'[p] \in Locked /\ \A q \in Proc : q # p => pc'[q] = pc[q]
    BY <1>2 DEF WriteLock, GoesTo, TypeOK, Locked
  <2>2. raced' = (raced \/ \E q \in Proc : pc[q] \in Locked)
    BY <1>2 DEF WriteLock
  <2> QED
    BY <2>1, <2>2 DEF OneLocked, LockHasOwner
<1> QED
  BY <1>1, <1>2, LockStep


-----------------------------------------------------------------------------
\* What a process that alone holds the lock may rely on.
PlaceOf(p) ==
  /\ pc[p] \in {"fetch", "curl", "type", "failed"} => ~NonEmpty(<<Gz, "">>)
  /\ pc[p] = "cksum" => \/ dat[p] = file[<<tgt[p], "">>]
                        \/ dat[p] = "part" /\ "reader" \in cut
  /\ pc[p] = "compress" => dat[p] = "good" /\ file[Archive] \in {"empty", "part"}
  /\ pc[p] = "rmsource" => file[Archive] = "good" \/ "writer" \in cut

\* Each process finds things where it left them, whatever is killed or
\* interrupted.
PlaceInv == ~raced => \A p \in Proc : PlaceOf(p)

\* The archive may still be found bad, or is being written.
Working(p) == \/ pc[p] = "fetched" /\ Fetched(p) = "bz"
              \/ pc[p] \in {"check", "cksum"} /\ tgt[p] = "bz"
              \/ pc[p] = "compress"

\* The archive is what a compressor left that has failed or met a Ctrl-C.
Unfinished == "writer" \in cut /\ file[Archive] \in {"empty", "part"}

\* Where the content of the source and of the archive can have come from.
Stored ==
  /\ file[Source] \in {"none", server}
  /\ file[Archive] \in {"none", "good", server} \/ Unfinished \/ \E p \in Proc : pc[p] = "compress"
  /\ file[Archive] \in {"none", "good"} \/ Unfinished \/ \E p \in Proc : Working(p)
  /\ \A p \in Proc : pc[p] = "type" => file[Incomplete(p)] = server
  /\ cut = {} => CksumErrMeansBad

\* It is so as long as no call is killed and one is at work at a time.
StoredInv == OneByOne => Stored

\* What has come between stays so.
Noted == (kills' = 0 => kills = 0) /\ (raced => raced') /\ cut \subseteq cut'

\* Every step keeps the histories.
LEMMA HistoryStep ==
  ASSUME TypeOK, [Next]_vars
  PROVE  Noted
<1> USE DEF Noted, vars, world, counts, hist, fetching
<1>1. ASSUME NEW p \in Proc, Call(p) PROVE Noted
  BY <1>1 DEF Call, TypeOK
<1>2. ASSUME NEW p \in Proc, IsThere(p) PROVE Noted
  BY <1>2 DEF IsThere, TypeOK
<1>3. ASSUME NEW p \in Proc, IsNotThere(p) PROVE Noted
  BY <1>3 DEF IsNotThere, TypeOK
<1>4. ASSUME NEW p \in Proc, LockFound(p) PROVE Noted
  BY <1>4 DEF LockFound, TypeOK
<1>5. ASSUME NEW p \in Proc, LockFree(p) PROVE Noted
  BY <1>5 DEF LockFree, TypeOK
<1>6. ASSUME NEW p \in Proc, WriteLock(p) PROVE Noted
  BY <1>6 DEF WriteLock, TypeOK
<1>7. ASSUME NEW p \in Proc, CheckArchive(p) PROVE Noted
  BY <1>7 DEF CheckArchive, TypeOK
<1>8. ASSUME NEW p \in Proc, HaveSource(p) PROVE Noted
  BY <1>8 DEF HaveSource, TypeOK
<1>9. ASSUME NEW p \in Proc, ErrorFound(p) PROVE Noted
  BY <1>9 DEF ErrorFound, TypeOK
<1>10. ASSUME NEW p \in Proc, MustFetch(p) PROVE Noted
  BY <1>10 DEF MustFetch, TypeOK
<1>11. ASSUME NEW p \in Proc, CurlStarts(p) PROVE Noted
  BY <1>11 DEF CurlStarts, TypeOK
<1>12. ASSUME NEW p \in Proc, CurlSucceeds(p) PROVE Noted
  BY <1>12 DEF CurlSucceeds, TypeOK
<1>13. ASSUME NEW p \in Proc, CurlFails(p) PROVE Noted
  BY <1>13 DEF CurlFails, TypeOK
<1>14. ASSUME NEW p \in Proc, CurlCannotResume(p) PROVE Noted
  BY <1>14 DEF CurlCannotResume, TypeOK
<1>15. ASSUME NEW p \in Proc, NoData(p) PROVE Noted
  BY <1>15 DEF NoData, TypeOK
<1>16. ASSUME NEW p \in Proc, TypeMatches(p) PROVE Noted
  BY <1>16 DEF TypeMatches, TypeOK
<1>17. ASSUME NEW p \in Proc, TypeDiffers(p) PROVE Noted
  BY <1>17 DEF TypeDiffers, TypeOK
<1>18. ASSUME NEW p \in Proc, FetchFailed(p) PROVE Noted
  BY <1>18 DEF FetchFailed, TypeOK
<1>19. ASSUME NEW p \in Proc, FetchEnded(p) PROVE Noted
  BY <1>19 DEF FetchEnded, TypeOK
<1>20. ASSUME NEW p \in Proc, Decompress(p) PROVE Noted
  BY <1>20 DEF Decompress, TypeOK
<1>33. ASSUME NEW p \in Proc, DecompressFails(p) PROVE Noted
  BY <1>33 DEF DecompressFails, TypeOK
<1>21. ASSUME NEW p \in Proc, CksumError(p) PROVE Noted
  BY <1>21 DEF CksumError, TypeOK
<1>22. ASSUME NEW p \in Proc, CksumFine(p) PROVE Noted
  BY <1>22 DEF CksumFine, TypeOK
<1>23. ASSUME NEW p \in Proc, CompressSome(p) PROVE Noted
  BY <1>23 DEF CompressSome, TypeOK
<1>24. ASSUME NEW p \in Proc, CompressEnds(p) PROVE Noted
  BY <1>24 DEF CompressEnds, TypeOK
<1>34. ASSUME NEW p \in Proc, CompressFails(p) PROVE Noted
  BY <1>34 DEF CompressFails, TypeOK
<1>25. ASSUME NEW p \in Proc, RmSource(p) PROVE Noted
  BY <1>25 DEF RmSource, TypeOK
<1>26. ASSUME NEW p \in Proc, Unlock(p) PROVE Noted
  BY <1>26 DEF Unlock, TypeOK
<1>27. ASSUME NEW p \in Proc, IntDies(p) PROVE Noted
  BY <1>27 DEF IntDies, TypeOK
<1>28. ASSUME NEW p \in Proc, IntTrapped(p) PROVE Noted
  BY <1>28 DEF IntTrapped, TypeOK
<1>29. ASSUME NEW p \in Proc, Kill(p) PROVE Noted
  BY <1>29 DEF Kill, TypeOK
<1>30. ASSUME NEW n \in Name, RemoveErr(n) PROVE Noted
  BY <1>30 DEF RemoveErr
<1>31. CASE RemoveLock
  BY <1>31 DEF RemoveLock
<1>32. CASE UNCHANGED vars
  BY <1>32
<1> QED
  BY <1>1, <1>2, <1>3, <1>4, <1>5, <1>6, <1>7, <1>8, <1>9, <1>10, <1>11, <1>12, <1>13,
     <1>14, <1>15, <1>16, <1>17, <1>18, <1>19, <1>20, <1>21, <1>22, <1>23, <1>24, <1>25,
     <1>26, <1>27, <1>28, <1>29, <1>30, <1>31, <1>32, <1>33, <1>34 DEF Next, Step

\* What the owner of the lock relies on is its own doing.
LEMMA PlaceStep ==
  ASSUME TypeOK, OneLocked, PlaceInv, [Next]_vars
  PROVE  PlaceInv'
<1> SUFFICES ASSUME ~raced', NEW q \in Proc
             PROVE  PlaceOf(q)'
  BY DEF PlaceInv
<1>a. ~raced /\ PlaceOf(q)
  BY HistoryStep DEF Noted, PlaceInv
<1>b. \A p \in Proc : pc[p] \in Locked /\ pc[q] \in Locked => p = q
  BY <1>a DEF OneLocked
<1> USE <1>a, <1>b, NameFacts
   DEF TypeOK, PlaceOf, vars, world, counts, hist, fetching, Locked, Archive, Source, Gz, NonEmpty
<1>1. ASSUME NEW p \in Proc, Call(p) PROVE PlaceOf(q)'
  BY <1>1 DEF Call, GoesTo
<1>2. ASSUME NEW p \in Proc, IsThere(p) PROVE PlaceOf(q)'
  BY <1>2 DEF IsThere, GoesTo, Ends
<1>3. ASSUME NEW p \in Proc, IsNotThere(p) PROVE PlaceOf(q)'
  BY <1>3 DEF IsNotThere, GoesTo
<1>4. ASSUME NEW p \in Proc, LockFound(p) PROVE PlaceOf(q)'
  BY <1>4 DEF LockFound, GoesTo, Ends
<1>5. ASSUME NEW p \in Proc, LockFree(p) PROVE PlaceOf(q)'
  BY <1>5 DEF LockFree, GoesTo
<1>6. ASSUME NEW p \in Proc, WriteLock(p) PROVE PlaceOf(q)'
  BY <1>6 DEF WriteLock, GoesTo
<1>7. ASSUME NEW p \in Proc, CheckArchive(p) PROVE PlaceOf(q)'
  <2>1. pc[p] = "choose" /\ \E to \in {"check", "unlock"} : pc' = [pc EXCEPT ![p] = to]
    BY <1>7 DEF CheckArchive, Checks, GoesTo
  <2>2. UNCHANGED <<kind, file, dat, cut>> /\ \A r \in Proc \ {p} : tgt'[r] = tgt[r]
    BY <1>7 DEF CheckArchive, Checks
  <2> QED
    BY <2>1, <2>2
<1>8. ASSUME NEW p \in Proc, HaveSource(p) PROVE PlaceOf(q)'
  BY <1>8 DEF HaveSource, GoesTo, Checks
<1>9. ASSUME NEW p \in Proc, ErrorFound(p) PROVE PlaceOf(q)'
  BY <1>9 DEF ErrorFound, GoesTo
<1>10. ASSUME NEW p \in Proc, MustFetch(p) PROVE PlaceOf(q)'
  BY <1>10 DEF MustFetch, GoesTo
<1>11. ASSUME NEW p \in Proc, CurlStarts(p) PROVE PlaceOf(q)'
  BY <1>11 DEF CurlStarts, GoesTo, Incomplete, Fetched
<1>12. ASSUME NEW p \in Proc, CurlSucceeds(p) PROVE PlaceOf(q)'
  <2>1. PICK c : file' = [file EXCEPT ![Incomplete(p)] = c]
    BY <1>12 DEF CurlSucceeds
  <2>2. /\ pc[p] = "curl" /\ pc' = [pc EXCEPT ![p] = "type"]
        /\ UNCHANGED <<kind, dat, tgt, cut>>
    BY <1>12 DEF CurlSucceeds, GoesTo
  <2>3. \A b \in Base : file'[<<b, "">>] = file[<<b, "">>]
    <3> HIDE DEF TypeOK, PlaceOf
    <3>1. \A b \in Base : <<b, "">> \in Name /\ Incomplete(p) # <<b, "">>
      BY SuffixesDiffer DEF Suffix
    <3>2. file \in [Name -> Content]
      BY DEF TypeOK
    <3> QED
      BY <2>1, <3>1, <3>2
  <2> QED
    BY <2>2, <2>3 DEF Base
<1>13. ASSUME NEW p \in Proc, CurlFails(p) PROVE PlaceOf(q)'
  <2>1. PICK c : file' = [file EXCEPT ![Incomplete(p)] = c]
    BY <1>13 DEF CurlFails
  <2>2. /\ pc[p] = "curl" /\ pc' = [pc EXCEPT ![p] = "failed"]
        /\ UNCHANGED <<kind, dat, tgt, cut>>
    BY <1>13 DEF CurlFails, GoesTo
  <2>3. \A b \in Base : file'[<<b, "">>] = file[<<b, "">>]
    <3> HIDE DEF TypeOK, PlaceOf
    <3>1. \A b \in Base : <<b, "">> \in Name /\ Incomplete(p) # <<b, "">>
      BY SuffixesDiffer DEF Suffix
    <3>2. file \in [Name -> Content]
      BY DEF TypeOK
    <3> QED
      BY <2>1, <3>1, <3>2
  <2> QED
    BY <2>2, <2>3 DEF Base
<1>14. ASSUME NEW p \in Proc, CurlCannotResume(p) PROVE PlaceOf(q)'
  BY <1>14 DEF CurlCannotResume, GoesTo, Incomplete, Fetched
<1>15. ASSUME NEW p \in Proc, NoData(p) PROVE PlaceOf(q)'
  BY <1>15 DEF NoData, GoesTo
<1>16. ASSUME NEW p \in Proc, TypeMatches(p) PROVE PlaceOf(q)'
  BY <1>16 DEF TypeMatches, GoesTo, Renamed, Incomplete, Fetched
<1>17. ASSUME NEW p \in Proc, TypeDiffers(p) PROVE PlaceOf(q)'
  BY <1>17 DEF TypeDiffers, GoesTo, Renamed, Incomplete, Fetched
<1>18. ASSUME NEW p \in Proc, FetchFailed(p) PROVE PlaceOf(q)'
  BY <1>18 DEF FetchFailed, GoesTo
<1>19. ASSUME NEW p \in Proc, FetchEnded(p) PROVE PlaceOf(q)'
  <2>1. pc[p] = "fetched" /\ \E to \in {"check", "unlock"} : pc' = [pc EXCEPT ![p] = to]
    BY <1>19 DEF FetchEnded, Checks, GoesTo
  <2>2. UNCHANGED <<kind, file, dat, cut>> /\ \A r \in Proc \ {p} : tgt'[r] = tgt[r]
    BY <1>19 DEF FetchEnded, Checks
  <2> QED
    BY <2>1, <2>2
<1>20. ASSUME NEW p \in Proc, Decompress(p) PROVE PlaceOf(q)'
  BY <1>20 DEF Decompress, GoesTo
<1>33. ASSUME NEW p \in Proc, DecompressFails(p) PROVE PlaceOf(q)'
  BY <1>33 DEF DecompressFails, GoesTo
<1>21. ASSUME NEW p \in Proc, CksumError(p) PROVE PlaceOf(q)'
  BY <1>21 DEF CksumError, GoesTo, Renamed
<1>22. ASSUME NEW p \in Proc, CksumFine(p) PROVE PlaceOf(q)'
  <2>1. pc[p] = "cksum" /\ dat[p] = "good" /\ UNCHANGED <<kind, dat, tgt, cut>>
    BY <1>22 DEF CksumFine, CksumMatches
  <2>2. CASE q # p
    <3>1. pc[q] \notin Locked /\ pc'[q] = pc[q]
      BY <1>22, <2>1, <2>2 DEF CksumFine, GoesTo
    <3> QED
      BY <3>1
  <2>3. CASE q = p
    <3>1. \/ pc'[q] = "compress" /\ file' = [file EXCEPT ![Archive] = "empty"]
          \/ pc'[q] = "unlock"
      BY <1>22, <2>3 DEF CksumFine, GoesTo, OpenArchive
    <3>2. file \in [Name -> Content] /\ Archive \in Name
      BY NameFacts
    <3>3. pc'[q] = "compress" => file'[Archive] = "empty"
      BY <3>1, <3>2
    <3> QED
      BY <2>1, <2>3, <3>1, <3>3
  <2> QED
    BY <2>2, <2>3
<1>23. ASSUME NEW p \in Proc, CompressSome(p) PROVE PlaceOf(q)'
  BY <1>23 DEF CompressSome, GoesTo
<1>24. ASSUME NEW p \in Proc, CompressEnds(p) PROVE PlaceOf(q)'
  BY <1>24 DEF CompressEnds, GoesTo
<1>34. ASSUME NEW p \in Proc, CompressFails(p) PROVE PlaceOf(q)'
  BY <1>34 DEF CompressFails, GoesTo
<1>25. ASSUME NEW p \in Proc, RmSource(p) PROVE PlaceOf(q)'
  BY <1>25 DEF RmSource, GoesTo
<1>26. ASSUME NEW p \in Proc, Unlock(p) PROVE PlaceOf(q)'
  BY <1>26 DEF Unlock, GoesTo, Ends, RmLock
<1>27. ASSUME NEW p \in Proc, IntDies(p) PROVE PlaceOf(q)'
  BY <1>27 DEF IntDies, GoesTo, Ends
<1>28. ASSUME NEW p \in Proc, IntTrapped(p) PROVE PlaceOf(q)'
  <2>1. UNCHANGED <<kind, tgt>> /\ cut \subseteq cut'
    BY <1>28 DEF IntTrapped
  <2>2. \A b \in Base : file'[<<b, "">>] = file[<<b, "">>]
    <3> HIDE DEF TypeOK, PlaceOf
    <3>1. \A b \in Base : <<b, "">> \in Name /\ Incomplete(p) # <<b, "">>
      BY SuffixesDiffer DEF Suffix
    <3>2. file \in [Name -> Content]
      BY DEF TypeOK
    <3>3. file' = file \/ file' = [file EXCEPT ![Incomplete(p)] = "part"]
      BY <1>28 DEF IntTrapped
    <3> QED
      BY <3>1, <3>2, <3>3
  <2>3. CASE q # p
    <3>1. pc'[q] = pc[q] /\ dat'[q] = dat[q]
      BY <1>28, <2>3 DEF IntTrapped, GoesTo
    <3> QED
      BY <2>1, <2>2, <3>1 DEF Base
  <2>4. CASE q = p
    <3>1. \/ pc[q] = "curl" /\ pc'[q] = "failed"
          \/ pc'[q] = "cksum" /\ dat'[q] = "part" /\ "reader" \in cut'
          \/ pc'[q] = "rmsource" /\ "writer" \in cut'
          \/ pc'[q] = pc[q] /\ dat'[q] = dat[q]
      BY <1>28, <2>4 DEF IntTrapped, GoesTo
    <3> QED
      BY <2>1, <2>2, <3>1 DEF Base
  <2> QED
    BY <2>3, <2>4
<1>29. ASSUME NEW p \in Proc, Kill(p) PROVE PlaceOf(q)'
  BY <1>29 DEF Kill, GoesTo, Ends
<1>30. ASSUME NEW n \in Name, RemoveErr(n) PROVE PlaceOf(q)'
  <2>1. n[2] # "" /\ file' = [file EXCEPT ![n] = "none"] /\ UNCHANGED <<kind, pc, dat, tgt, cut>>
    BY <1>30 DEF RemoveErr
  <2>2. \A b \in Base : file'[<<b, "">>] = file[<<b, "">>]
    <3> HIDE DEF TypeOK, PlaceOf
    <3>1. ASSUME NEW b \in Base PROVE <<b, "">> \in Name /\ n # <<b, "">>
      <4>1. <<b, "">> \in Name /\ <<b, "">>[2] = ""
        BY DEF Suffix
      <4> QED
        BY <2>1, <4>1
    <3>2. file \in [Name -> Content]
      BY DEF TypeOK
    <3> QED
      BY <2>1, <3>1, <3>2
  <2> QED
    BY <2>1, <2>2 DEF Base
<1>31. CASE RemoveLock
  BY <1>31 DEF RemoveLock
<1>32. CASE UNCHANGED vars
  BY <1>32
<1> QED
  BY <1>1, <1>2, <1>3, <1>4, <1>5, <1>6, <1>7, <1>8, <1>9, <1>10, <1>11, <1>12, <1>13,
     <1>14, <1>15, <1>16, <1>17, <1>18, <1>19, <1>20, <1>21, <1>22, <1>23, <1>24, <1>25,
     <1>26, <1>27, <1>28, <1>29, <1>30, <1>31, <1>32, <1>33, <1>34 DEF Next, Step

-----------------------------------------------------------------------------
\* The names, told apart.
LEMMA DistinctNames ==
  /\ Archive \in Name /\ Source \in Name /\ Archive # Source
  /\ \A p \in Proc : Incomplete(p) \in Name \ {Archive, Source}
  /\ \A b \in Base : <<b, ".cksum-err">> \in Name \ {Archive, Source}
  /\ \A b \in Base : <<b, ".extck-err">> \in Name \ {Archive, Source}
  /\ \A b, c \in Base : <<b, ".cksum-err">> # <<c, ".extck-err">>
  /\ \A b, c \in Base : <<b, ".cksum-err">> = <<c, ".cksum-err">> => b = c
  /\ \A b \in Base, p \in Proc : <<b, ".cksum-err">> # Incomplete(p)
  /\ \A b \in Base : <<b, "">> = IF b = "bz" THEN Archive ELSE Source
<1>1. /\ \A p \in Proc : Incomplete(p) \notin {Archive, Source}
      /\ \A b \in Base, p \in Proc : <<b, ".cksum-err">> # Incomplete(p)
  BY DEF Incomplete, Archive, Source
<1>2. /\ \A b \in Base : <<b, ".cksum-err">> \in Name \ {Archive, Source}
      /\ \A b \in Base : <<b, ".extck-err">> \in Name \ {Archive, Source}
  BY NameFacts DEF Suffix, Archive, Source
<1>3. Archive # Source /\ \A b \in Base : <<b, "">> = IF b = "bz" THEN Archive ELSE Source
  BY DEF Archive, Source, Base
<1>4. /\ \A b, c \in Base : <<b, ".cksum-err">> # <<c, ".extck-err">>
      /\ \A b, c \in Base : <<b, ".cksum-err">> = <<c, ".cksum-err">> => b = c
  OBVIOUS
<1> QED
  BY <1>1, <1>2, <1>3, <1>4, NameFacts

\* What the user does about an error leaves the rest alone.
LEMMA ErrOnly ==
  ASSUME TypeOK, NEW n \in Name, RemoveErr(n)
  PROVE  /\ file'[Archive] = file[Archive] /\ file'[Source] = file[Source]
         /\ \A p \in Proc : file'[Incomplete(p)] = file[Incomplete(p)]
         /\ \A b \in Base : file'[<<b, ".cksum-err">>] \in {file[<<b, ".cksum-err">>], "none"}
<1>1. n[2] \in {".cksum-err", ".extck-err"} /\ file' = [file EXCEPT ![n] = "none"]
  BY DEF RemoveErr
<1>2. file \in [Name -> Content]
  BY DEF TypeOK
<1>3. Archive[2] = "" /\ Source[2] = "" /\ \A p \in Proc : Incomplete(p)[2] = ".incomplete"
  BY DEF Archive, Source, Incomplete
<1>4. n # Archive /\ n # Source /\ \A p \in Proc : n # Incomplete(p)
  BY <1>1, <1>3
<1> QED
  BY <1>1, <1>2, <1>4, DistinctNames

\* Every step keeps what has been downloaded, or has the whole archive, or
\* notes that the sum was wrong.
LEMMA KeepsStep ==
  ASSUME TypeOK, OneLocked, PlaceInv, [Next]_vars
  PROVE  KeepsSource
<1> DEFINE Kept == \/ file[Archive] = "good" \/ file'[<<"gz", ".cksum-err">>] = "good"
                   \/ "writer" \in cut
<1> SUFFICES ASSUME ~raced, file'[Source] # file[Source], file[Source] = "good"
             PROVE  Kept
  BY DEF KeepsSource
<1>a. \A p \in Proc : PlaceOf(p)
  BY DEF PlaceInv
<1>b. file \in [Name -> Content] /\ kind \in {"convert", "zst"} /\ tgt \in [Proc -> Base]
  BY DEF TypeOK
<1> USE <1>a, <1>b, NameFacts, SuffixesDiffer DEF PlaceOf, Gz, NonEmpty, Suffix
<1>1. ASSUME NEW p \in Proc, CurlStarts(p) PROVE Kept
  BY <1>1 DEF CurlStarts, Incomplete, Fetched, Source
<1>2. ASSUME NEW p \in Proc, CurlSucceeds(p) PROVE Kept
  BY <1>2 DEF CurlSucceeds, Incomplete, Fetched, Source
<1>3. ASSUME NEW p \in Proc, CurlFails(p) PROVE Kept
  BY <1>3 DEF CurlFails, Incomplete, Fetched, Source
<1>4. ASSUME NEW p \in Proc, CurlCannotResume(p) PROVE Kept
  BY <1>4 DEF CurlCannotResume, Incomplete, Fetched, Source
<1>5. ASSUME NEW p \in Proc, TypeMatches(p) PROVE Kept
  BY <1>5 DEF TypeMatches, Renamed, Incomplete, Fetched, Source
<1>6. ASSUME NEW p \in Proc, TypeDiffers(p) PROVE Kept
  BY <1>6 DEF TypeDiffers, Renamed, Incomplete, Fetched, Source
<1>7. ASSUME NEW p \in Proc, CksumError(p) PROVE Kept
  BY <1>7 DEF CksumError, Renamed, CksumMatches, Source
<1>8. ASSUME NEW p \in Proc, CksumFine(p) PROVE Kept
  BY <1>8 DEF CksumFine, OpenArchive, Source
<1>9. ASSUME NEW p \in Proc, CompressSome(p) PROVE Kept
  BY <1>9 DEF CompressSome, Source
<1>10. ASSUME NEW p \in Proc, CompressEnds(p) PROVE Kept
  BY <1>10 DEF CompressEnds, Source
<1>11. ASSUME NEW p \in Proc, RmSource(p) PROVE Kept
  BY <1>11 DEF RmSource, Source
<1>12. ASSUME NEW p \in Proc, IntTrapped(p) PROVE Kept
  BY <1>12 DEF IntTrapped, Incomplete, Fetched, Source
<1>13. ASSUME NEW n \in Name, RemoveErr(n) PROVE Kept
  BY <1>13, ErrOnly
<1>14. CASE file' = file
  BY <1>14
<1> QED
  BY <1>1, <1>2, <1>3, <1>4, <1>5, <1>6, <1>7, <1>8, <1>9, <1>10, <1>11, <1>12, <1>13,
     <1>14 DEF Next, Step, vars, Call, IsThere, IsNotThere, LockFound, LockFree, WriteLock,
     CheckArchive, HaveSource, ErrorFound, MustFetch, NoData, FetchFailed, FetchEnded,
     Decompress, DecompressFails, CompressFails, Unlock, IntDies, Kill, RemoveLock

\* Stored, as it concerns the only process that holds the lock.
StoredOf(p) ==
  /\ file[Source] \in {"none", server}
  /\ file[Archive] \in {"none", "good", server} \/ Unfinished \/ pc[p] = "compress"
  /\ file[Archive] \in {"none", "good"} \/ Unfinished \/ Working(p)
  /\ pc[p] = "type" => file[Incomplete(p)] = server
  /\ cut = {} => CksumErrMeansBad

\* A step of p leaves the others where they are.
Frame(p) ==
  /\ UNCHANGED <<kind, server>>
  /\ \A q \in Proc \ {p} : pc'[q] = pc[q] /\ tgt'[q] = tgt[q] /\ from'[q] = from[q]

\* It is enough to look at the one process that holds the lock.
LEMMA AloneStored ==
  ASSUME NEW p \in Proc, Frame(p), pc[p] \in Locked, Stored,
         \A q \in Proc : pc[q] \in Locked => q = p
  PROVE  StoredOf(p) /\ (StoredOf(p)' => Stored')
<1>1. \A q \in Proc : q # p => pc[q] \notin Locked /\ pc'[q] \notin Locked
  BY DEF Frame
<1>2. \A q \in Proc : q # p => ~Working(q) /\ pc[q] # "compress" /\ pc'[q] # "type"
  BY <1>1 DEF Locked, Working
<1>3. StoredOf(p)
  BY <1>2 DEF Stored, StoredOf
<1>4. ASSUME StoredOf(p)' PROVE Stored'
  BY <1>2, <1>4 DEF Stored, StoredOf
<1> QED
  BY <1>3, <1>4

\* A step of a process that has not come to the lock yet, or finds it.
Outside(p) ==
  /\ Frame(p) /\ file' = file /\ cut' = cut
  /\ pc[p] \in {"off", "start", "locktest", "lock"}
  /\ pc'[p] \in {"off", "start", "locktest", "lock", "choose"}

\* A step outside the lock changes nothing that is stored.
LEMMA OutsideStored ==
  ASSUME NEW p \in Proc, Outside(p), Stored
  PROVE  Stored'
<1>1. ~Working(p) /\ pc[p] # "compress" /\ pc'[p] # "type"
  BY DEF Outside, Working
<1>2. ASSUME NEW q \in Proc, q # p
      PROVE  /\ Working(q)' <=> Working(q)
             /\ Incomplete(q)' = Incomplete(q) /\ pc'[q] = pc[q]
  <2>1. /\ kind' = kind /\ pc'[q] = pc[q] /\ tgt'[q] = tgt[q] /\ from'[q] = from[q]
    BY <1>2 DEF Outside, Frame
  <2> QED
    BY <2>1 DEF Working, Incomplete, Fetched, Gz
<1>3. /\ file' = file /\ server' = server /\ cut' = cut
      /\ Unfinished' <=> Unfinished
  BY DEF Outside, Frame, Unfinished
<1>4. \A q \in Proc : pc'[q] = "type" => file'[Incomplete(q)'] = server'
  BY <1>1, <1>2, <1>3 DEF Stored
<1>5. file'[Archive] \in {"none", "good", server'} \/ Unfinished' \/ \E q \in Proc : pc'[q] = "compress"
  BY <1>1, <1>2, <1>3 DEF Stored
<1>6. file'[Archive] \in {"none", "good"} \/ Unfinished' \/ \E q \in Proc : Working(q)'
  BY <1>1, <1>2, <1>3 DEF Stored
<1>7. cut' = {} => CksumErrMeansBad'
  BY <1>3 DEF Stored, CksumErrMeansBad
<1> QED
  BY <1>3, <1>4, <1>5, <1>6, <1>7 DEF Stored

\* Every step keeps to where the contents come from.
LEMMA StoredStep ==
  ASSUME TypeOK, OneLocked, PlaceInv, StoredInv, [Next]_vars
  PROVE  StoredInv'
<1> SUFFICES ASSUME OneByOne'
             PROVE  Stored'
  BY DEF StoredInv
<1>a. OneByOne /\ Stored
  BY HistoryStep DEF Noted, OneByOne, StoredInv
<1>b. /\ \A p, q \in Proc : pc[p] \in Locked /\ pc[q] \in Locked => p = q
      /\ \A p \in Proc : PlaceOf(p)
  BY <1>a DEF OneLocked, PlaceInv, OneByOne
<1>c. /\ file \in [Name -> Content] /\ kind \in {"convert", "zst"} /\ server \in {"good", "bad"}
      /\ pc \in [Proc -> {"off", "start", "locktest", "lock"} \cup Locked]
      /\ from \in [Proc -> {"mirror", "origin"}] /\ tgt \in [Proc -> Base] /\ dat \in [Proc -> Content]
      /\ \A p \in Proc : tgt[p] = "gz" => kind = "convert"
  BY DEF TypeOK
<1> USE <1>c DEF world, counts, hist, fetching
<1>1. ASSUME NEW p \in Proc, Call(p) PROVE Stored'
  <2>1. Outside(p)
    BY <1>1 DEF Outside, Frame, Call, GoesTo
  <2> QED
    BY <2>1, <1>a, OutsideStored
<1>2. ASSUME NEW p \in Proc, IsThere(p) PROVE Stored'
  <2>1. Outside(p)
    BY <1>2 DEF Outside, Frame, IsThere, GoesTo, Ends
  <2> QED
    BY <2>1, <1>a, OutsideStored
<1>3. ASSUME NEW p \in Proc, IsNotThere(p) PROVE Stored'
  <2>1. Outside(p)
    BY <1>3 DEF Outside, Frame, IsNotThere, GoesTo
  <2> QED
    BY <2>1, <1>a, OutsideStored
<1>4. ASSUME NEW p \in Proc, LockFound(p) PROVE Stored'
  <2>1. Outside(p)
    BY <1>4 DEF Outside, Frame, LockFound, GoesTo, Ends
  <2> QED
    BY <2>1, <1>a, OutsideStored
<1>5. ASSUME NEW p \in Proc, LockFree(p) PROVE Stored'
  <2>1. Outside(p)
    BY <1>5 DEF Outside, Frame, LockFree, GoesTo
  <2> QED
    BY <2>1, <1>a, OutsideStored
<1>6. ASSUME NEW p \in Proc, WriteLock(p) PROVE Stored'
  <2>1. Outside(p)
    BY <1>6 DEF Outside, Frame, WriteLock, GoesTo
  <2> QED
    BY <2>1, <1>a, OutsideStored
<1>7. ASSUME NEW p \in Proc, CheckArchive(p) PROVE Stored'
  <2>1. Frame(p) /\ pc[p] \in Locked
    BY <1>7 DEF Frame, Locked, CheckArchive, GoesTo, Checks
  <2>2. StoredOf(p) /\ (StoredOf(p)' => Stored')
    BY <2>1, <1>a, <1>b, AloneStored
  <2>3. StoredOf(p)'
    BY <1>7, <1>b, <2>2, DistinctNames
       DEF StoredOf, Unfinished, Working, Fetched, Gz, CksumErrMeansBad, PlaceOf, CheckArchive, GoesTo,
           Checks
  <2> QED
    BY <2>2, <2>3
<1>8. ASSUME NEW p \in Proc, HaveSource(p) PROVE Stored'
  <2>1. Frame(p) /\ pc[p] \in Locked
    BY <1>8 DEF Frame, Locked, HaveSource, GoesTo, Checks
  <2>2. StoredOf(p) /\ (StoredOf(p)' => Stored')
    BY <2>1, <1>a, <1>b, AloneStored
  <2>3. StoredOf(p)'
    BY <1>8, <1>b, <2>2, DistinctNames
       DEF StoredOf, Unfinished, Working, Fetched, Gz, CksumErrMeansBad, PlaceOf, HaveSource, GoesTo,
           Checks
  <2> QED
    BY <2>2, <2>3
<1>9. ASSUME NEW p \in Proc, ErrorFound(p) PROVE Stored'
  <2>1. Frame(p) /\ pc[p] \in Locked
    BY <1>9 DEF Frame, Locked, ErrorFound, GoesTo
  <2>2. StoredOf(p) /\ (StoredOf(p)' => Stored')
    BY <2>1, <1>a, <1>b, AloneStored
  <2>3. StoredOf(p)'
    BY <1>9, <1>b, <2>2, DistinctNames
       DEF StoredOf, Unfinished, Working, Fetched, Gz, CksumErrMeansBad, PlaceOf, ErrorFound, GoesTo
  <2> QED
    BY <2>2, <2>3
<1>10. ASSUME NEW p \in Proc, MustFetch(p) PROVE Stored'
  <2>1. Frame(p) /\ pc[p] \in Locked
    BY <1>10 DEF Frame, Locked, MustFetch, GoesTo
  <2>2. StoredOf(p) /\ (StoredOf(p)' => Stored')
    BY <2>1, <1>a, <1>b, AloneStored
  <2>3. StoredOf(p)'
    BY <1>10, <1>b, <2>2, DistinctNames
       DEF StoredOf, Unfinished, Working, Fetched, Gz, CksumErrMeansBad, PlaceOf, MustFetch, GoesTo
  <2> QED
    BY <2>2, <2>3
<1>11. ASSUME NEW p \in Proc, CurlStarts(p) PROVE Stored'
  <2>1. Frame(p) /\ pc[p] \in Locked
    BY <1>11 DEF Frame, Locked, CurlStarts, GoesTo
  <2>2. StoredOf(p) /\ (StoredOf(p)' => Stored')
    BY <2>1, <1>a, <1>b, AloneStored
  <2>3. StoredOf(p)'
    BY <1>11, <1>b, <2>2, DistinctNames
       DEF StoredOf, Unfinished, Working, Fetched, Gz, CksumErrMeansBad, PlaceOf, CurlStarts, GoesTo
  <2> QED
    BY <2>2, <2>3
<1>12. ASSUME NEW p \in Proc, CurlSucceeds(p) PROVE Stored'
  <2>1. Frame(p) /\ pc[p] \in Locked
    BY <1>12 DEF Frame, Locked, CurlSucceeds, GoesTo
  <2>2. StoredOf(p) /\ (StoredOf(p)' => Stored')
    BY <2>1, <1>a, <1>b, AloneStored
  <2>3. StoredOf(p)'
    <3>1. /\ pc[p] = "curl" /\ pc'[p] = "type" /\ server' = server /\ cut' = cut
          /\ Incomplete(p)' = Incomplete(p)
      BY <1>12 DEF CurlSucceeds, GoesTo, Incomplete, Fetched, Gz
    <3>2. ~OthersWrite(p)
      BY <1>b, <3>1 DEF OthersWrite, Locked
    <3>3. file' = [file EXCEPT ![Incomplete(p)] = server]
      BY <1>12, <3>2 DEF CurlSucceeds
    <3> QED
      BY <2>2, <3>1, <3>3, DistinctNames DEF StoredOf, Unfinished, Working, CksumErrMeansBad
  <2> QED
    BY <2>2, <2>3
<1>13. ASSUME NEW p \in Proc, CurlFails(p) PROVE Stored'
  <2>1. Frame(p) /\ pc[p] \in Locked
    BY <1>13 DEF Frame, Locked, CurlFails, GoesTo
  <2>2. StoredOf(p) /\ (StoredOf(p)' => Stored')
    BY <2>1, <1>a, <1>b, AloneStored
  <2>3. StoredOf(p)'
    <3>1. /\ pc[p] = "curl" /\ pc'[p] = "failed" /\ server' = server /\ cut' = cut
          /\ \E c : file' = [file EXCEPT ![Incomplete(p)] = c]
      BY <1>13 DEF CurlFails, GoesTo
    <3> QED
      BY <2>2, <3>1, DistinctNames DEF StoredOf, Unfinished, Working, CksumErrMeansBad
  <2> QED
    BY <2>2, <2>3
<1>14. ASSUME NEW p \in Proc, CurlCannotResume(p) PROVE Stored'
  <2>1. Frame(p) /\ pc[p] \in Locked
    BY <1>14 DEF Frame, Locked, CurlCannotResume, GoesTo
  <2>2. StoredOf(p) /\ (StoredOf(p)' => Stored')
    BY <2>1, <1>a, <1>b, AloneStored
  <2>3. StoredOf(p)'
    BY <1>14, <1>b, <2>2, DistinctNames
       DEF StoredOf, Unfinished, Working, Fetched, Gz, CksumErrMeansBad, PlaceOf, CurlCannotResume,
           GoesTo
  <2> QED
    BY <2>2, <2>3
<1>15. ASSUME NEW p \in Proc, NoData(p) PROVE Stored'
  <2>1. Frame(p) /\ pc[p] \in Locked
    BY <1>15 DEF Frame, Locked, NoData, GoesTo
  <2>2. StoredOf(p) /\ (StoredOf(p)' => Stored')
    BY <2>1, <1>a, <1>b, AloneStored
  <2>3. StoredOf(p)'
    BY <1>15, <1>b, <2>2, DistinctNames
       DEF StoredOf, Unfinished, Working, Fetched, Gz, CksumErrMeansBad, PlaceOf, NoData, GoesTo
  <2> QED
    BY <2>2, <2>3
<1>16. ASSUME NEW p \in Proc, TypeMatches(p) PROVE Stored'
  <2>1. Frame(p) /\ pc[p] \in Locked
    BY <1>16 DEF Frame, Locked, TypeMatches, GoesTo
  <2>2. StoredOf(p) /\ (StoredOf(p)' => Stored')
    BY <2>1, <1>a, <1>b, AloneStored
  <2>3. StoredOf(p)'
    <3>1. /\ pc[p] = "type" /\ pc'[p] = "fetched" /\ server' = server /\ cut' = cut
          /\ Fetched(p)' = Fetched(p) /\ Fetched(p) \in Base
      BY <1>16, NameFacts DEF TypeMatches, GoesTo, Fetched, Gz
    <3>2. file' = [file EXCEPT ![Incomplete(p)] = "none", ![<<Fetched(p), "">>] = server]
      BY <1>16, <2>2, <3>1 DEF TypeMatches, Renamed, StoredOf
    <3>3. CASE Fetched(p) = "bz"
      <4>1. file'[Archive] = server /\ file'[Source] = file[Source]
        BY <3>1, <3>2, <3>3, DistinctNames
      <4>2. cut' = {} => CksumErrMeansBad'
        BY <2>2, <3>1, <3>2, <3>3, DistinctNames DEF StoredOf, CksumErrMeansBad
      <4> QED
        BY <2>2, <3>1, <3>3, <4>1, <4>2 DEF StoredOf, Unfinished, Working
    <3>4. CASE Fetched(p) # "bz"
      <4>1. file'[Archive] = file[Archive] /\ file'[Source] = server
        BY <3>1, <3>2, <3>4, DistinctNames
      <4>2. cut' = {} => CksumErrMeansBad'
        BY <2>2, <3>1, <3>2, <3>4, DistinctNames DEF StoredOf, CksumErrMeansBad
      <4> QED
        BY <2>2, <3>1, <4>1, <4>2 DEF StoredOf, Unfinished, Working
    <3> QED
      BY <3>3, <3>4
  <2> QED
    BY <2>2, <2>3
<1>17. ASSUME NEW p \in Proc, TypeDiffers(p) PROVE Stored'
  <2>1. Frame(p) /\ pc[p] \in Locked
    BY <1>17 DEF Frame, Locked, TypeDiffers, GoesTo
  <2>2. StoredOf(p) /\ (StoredOf(p)' => Stored')
    BY <2>1, <1>a, <1>b, AloneStored
  <2>3. StoredOf(p)'
    <3>1. /\ pc[p] = "type" /\ pc'[p] = "fetched" /\ server' = server /\ cut' = cut
          /\ Fetched(p) \in Base
      BY <1>17, NameFacts DEF TypeDiffers, GoesTo
    <3>2. /\ file'[Archive] = file[Archive] /\ file'[Source] = file[Source]
          /\ \A b \in Base : file'[<<b, ".cksum-err">>] = file[<<b, ".cksum-err">>]
      BY <1>17, <3>1, DistinctNames DEF TypeDiffers, Renamed
    <3> QED
      BY <2>2, <3>1, <3>2 DEF StoredOf, Unfinished, Working, CksumErrMeansBad
  <2> QED
    BY <2>2, <2>3
<1>18. ASSUME NEW p \in Proc, FetchFailed(p) PROVE Stored'
  <2>1. Frame(p) /\ pc[p] \in Locked
    BY <1>18 DEF Frame, Locked, FetchFailed, GoesTo
  <2>2. StoredOf(p) /\ (StoredOf(p)' => Stored')
    BY <2>1, <1>a, <1>b, AloneStored
  <2>3. StoredOf(p)'
    BY <1>18, <1>b, <2>2, DistinctNames
       DEF StoredOf, Unfinished, Working, Fetched, Gz, CksumErrMeansBad, PlaceOf, FetchFailed, GoesTo
  <2> QED
    BY <2>2, <2>3
<1>19. ASSUME NEW p \in Proc, FetchEnded(p) PROVE Stored'
  <2>1. Frame(p) /\ pc[p] \in Locked
    BY <1>19 DEF Frame, Locked, FetchEnded, GoesTo, Checks
  <2>2. StoredOf(p) /\ (StoredOf(p)' => Stored')
    BY <2>1, <1>a, <1>b, AloneStored
  <2>3. StoredOf(p)'
    <3>1. /\ pc[p] = "fetched" /\ server' = server /\ file' = file /\ cut' = cut
          /\ pc'[p] \in {"check", "unlock"} /\ Fetched(p) \in Base
          /\ pc'[p] = "check" => tgt'[p] = Fetched(p)
          /\ pc'[p] = "unlock" => ~NonEmpty(<<Fetched(p), "">>)
      BY <1>19, NameFacts DEF FetchEnded, Checks, GoesTo
    <3>2. CASE pc'[p] = "check"
      BY <2>2, <3>1, <3>2 DEF StoredOf, Unfinished, Working, CksumErrMeansBad
    <3>3. CASE pc'[p] = "unlock"
      <4>1. Fetched(p) = "bz" => file[Archive] = "none" \/ Unfinished
        BY <2>2, <3>1, <3>3, DistinctNames DEF NonEmpty, StoredOf, Unfinished
      <4> QED
        BY <2>2, <3>1, <3>3, <4>1 DEF StoredOf, Unfinished, Working, CksumErrMeansBad
    <3> QED
      BY <3>1, <3>2, <3>3
  <2> QED
    BY <2>2, <2>3
<1>20. ASSUME NEW p \in Proc, Decompress(p) PROVE Stored'
  <2>1. Frame(p) /\ pc[p] \in Locked
    BY <1>20 DEF Frame, Locked, Decompress, GoesTo
  <2>2. StoredOf(p) /\ (StoredOf(p)' => Stored')
    BY <2>1, <1>a, <1>b, AloneStored
  <2>3. StoredOf(p)'
    BY <1>20, <1>b, <2>2, DistinctNames
       DEF StoredOf, Unfinished, Working, Fetched, Gz, CksumErrMeansBad, PlaceOf, Decompress, GoesTo
  <2> QED
    BY <2>2, <2>3
<1>33. ASSUME NEW p \in Proc, DecompressFails(p) PROVE Stored'
  <2>1. Frame(p) /\ pc[p] \in Locked
    BY <1>33 DEF Frame, Locked, DecompressFails, GoesTo
  <2>2. StoredOf(p) /\ (StoredOf(p)' => Stored')
    BY <2>1, <1>a, <1>b, AloneStored
  <2>3. StoredOf(p)'
    BY <1>33, <1>b, <2>2, DistinctNames
       DEF StoredOf, Unfinished, Working, Fetched, Gz, CksumErrMeansBad, PlaceOf, DecompressFails, GoesTo
  <2> QED
    BY <2>2, <2>3
<1>21. ASSUME NEW p \in Proc, CksumError(p) PROVE Stored'
  <2>1. Frame(p) /\ pc[p] \in Locked
    BY <1>21 DEF Frame, Locked, CksumError, GoesTo
  <2>2. StoredOf(p) /\ (StoredOf(p)' => Stored')
    BY <2>1, <1>a, <1>b, AloneStored
  <2>3. StoredOf(p)'
    <3>1. /\ pc[p] = "cksum" /\ pc'[p] = "unlock" /\ server' = server
          /\ cut' = cut /\ tgt[p] \in Base
      BY <1>21 DEF CksumError, GoesTo
    <3>2. cut = {} => file[<<tgt[p], "">>] # "good"
      BY <1>21, <1>b DEF CksumError, CksumMatches, PlaceOf
    <3>3. CASE file[<<tgt[p], "">>] = "none"
      <4>1. file' = file
        BY <1>21, <3>3 DEF CksumError, Renamed
      <4> QED
        BY <2>2, <3>1, <3>3, <4>1, DistinctNames
           DEF Base, StoredOf, Unfinished, Working, CksumErrMeansBad
    <3>4. CASE file[<<tgt[p], "">>] # "none"
      <4>1. file' = [file EXCEPT ![<<tgt[p], "">>] = "none",
                                 ![<<tgt[p], ".cksum-err">>] = file[<<tgt[p], "">>]]
        BY <1>21, <3>4 DEF CksumError, Renamed
      <4>2. cut = {} => server = "bad"
        BY <2>2, <3>1, <3>2, <3>4, DistinctNames DEF Base, StoredOf, Unfinished, Working
      <4>3. CASE tgt[p] = "bz"
        <5>1. file'[Archive] = "none" /\ file'[Source] = file[Source]
          BY <3>1, <4>1, <4>3, DistinctNames
        <5> QED
          BY <2>2, <3>1, <4>2, <5>1 DEF StoredOf, Unfinished, Working, CksumErrMeansBad
      <4>4. CASE tgt[p] # "bz"
        <5>1. file'[Archive] = file[Archive] /\ file'[Source] = "none"
          BY <3>1, <4>1, <4>4, DistinctNames
        <5> QED
          BY <2>2, <3>1, <4>2, <4>4, <5>1 DEF StoredOf, Unfinished, Working, CksumErrMeansBad
      <4> QED
        BY <4>3, <4>4
    <3> QED
      BY <3>3, <3>4
  <2> QED
    BY <2>2, <2>3
<1>22. ASSUME NEW p \in Proc, CksumFine(p) PROVE Stored'
  <2>1. Frame(p) /\ pc[p] \in Locked
    BY <1>22 DEF Frame, Locked, CksumFine, GoesTo
  <2>2. StoredOf(p) /\ (StoredOf(p)' => Stored')
    BY <2>1, <1>a, <1>b, AloneStored
  <2>3. StoredOf(p)'
    <3>1. /\ pc[p] = "cksum" /\ file[<<tgt[p], "">>] = "good"
          /\ server' = server /\ cut' = cut /\ tgt[p] \in Base
      BY <1>22, <1>b DEF CksumFine, CksumMatches, PlaceOf
    <3>2. CASE MustConvert(p)
      <4>1. file' = [file EXCEPT ![Archive] = "empty"] /\ pc'[p] = "compress"
        BY <1>22, <3>2 DEF CksumFine, OpenArchive, GoesTo
      <4> QED
        BY <2>2, <3>1, <4>1, DistinctNames DEF StoredOf, Unfinished, Working, CksumErrMeansBad
    <3>3. CASE ~MustConvert(p)
      <4>1. file' = file /\ pc'[p] = "unlock"
        BY <1>22, <3>3 DEF CksumFine, GoesTo
      <4>2. file[Archive] = "good"
        BY <3>1, <3>3, DistinctNames DEF MustConvert, Base
      <4> QED
        BY <2>2, <3>1, <4>1, <4>2 DEF StoredOf, Unfinished, Working, CksumErrMeansBad
    <3> QED
      BY <3>2, <3>3
  <2> QED
    BY <2>2, <2>3
<1>23. ASSUME NEW p \in Proc, CompressSome(p) PROVE Stored'
  <2>1. Frame(p) /\ pc[p] \in Locked
    BY <1>23 DEF Frame, Locked, CompressSome, GoesTo
  <2>2. StoredOf(p) /\ (StoredOf(p)' => Stored')
    BY <2>1, <1>a, <1>b, AloneStored
  <2>3. StoredOf(p)'
    BY <1>23, <1>b, <2>2, DistinctNames
       DEF StoredOf, Unfinished, Working, Fetched, Gz, CksumErrMeansBad, PlaceOf, CompressSome, GoesTo
  <2> QED
    BY <2>2, <2>3
<1>24. ASSUME NEW p \in Proc, CompressEnds(p) PROVE Stored'
  <2>1. Frame(p) /\ pc[p] \in Locked
    BY <1>24 DEF Frame, Locked, CompressEnds, GoesTo
  <2>2. StoredOf(p) /\ (StoredOf(p)' => Stored')
    BY <2>1, <1>a, <1>b, AloneStored
  <2>3. StoredOf(p)'
    BY <1>24, <1>b, <2>2, DistinctNames
       DEF StoredOf, Unfinished, Working, Fetched, Gz, CksumErrMeansBad, PlaceOf, CompressEnds, GoesTo
  <2> QED
    BY <2>2, <2>3
<1>34. ASSUME NEW p \in Proc, CompressFails(p) PROVE Stored'
  <2>1. Frame(p) /\ pc[p] \in Locked
    BY <1>34 DEF Frame, Locked, CompressFails, GoesTo
  <2>2. StoredOf(p) /\ (StoredOf(p)' => Stored')
    BY <2>1, <1>a, <1>b, AloneStored
  <2>3. StoredOf(p)'
    BY <1>34, <1>b, <2>2, DistinctNames
       DEF StoredOf, Unfinished, Working, Fetched, Gz, CksumErrMeansBad, PlaceOf, CompressFails, GoesTo
  <2> QED
    BY <2>2, <2>3
<1>25. ASSUME NEW p \in Proc, RmSource(p) PROVE Stored'
  <2>1. Frame(p) /\ pc[p] \in Locked
    BY <1>25 DEF Frame, Locked, RmSource, GoesTo
  <2>2. StoredOf(p) /\ (StoredOf(p)' => Stored')
    BY <2>1, <1>a, <1>b, AloneStored
  <2>3. StoredOf(p)'
    BY <1>25, <1>b, <2>2, DistinctNames
       DEF StoredOf, Unfinished, Working, Fetched, Gz, CksumErrMeansBad, PlaceOf, RmSource, GoesTo
  <2> QED
    BY <2>2, <2>3
<1>26. ASSUME NEW p \in Proc, Unlock(p) PROVE Stored'
  <2>1. Frame(p) /\ pc[p] \in Locked
    BY <1>26 DEF Frame, Locked, Unlock, GoesTo, Ends
  <2>2. StoredOf(p) /\ (StoredOf(p)' => Stored')
    BY <2>1, <1>a, <1>b, AloneStored
  <2>3. StoredOf(p)'
    BY <1>26, <1>b, <2>2, DistinctNames
       DEF StoredOf, Unfinished, Working, Fetched, Gz, CksumErrMeansBad, PlaceOf, Unlock, GoesTo, Ends,
           RmLock
  <2> QED
    BY <2>2, <2>3
<1>27. ASSUME NEW p \in Proc, IntDies(p) PROVE Stored'
  <2>1. Outside(p)
    BY <1>27 DEF Outside, Frame, IntDies, GoesTo, Ends
  <2> QED
    BY <2>1, <1>a, OutsideStored
<1>28. ASSUME NEW p \in Proc, IntTrapped(p) PROVE Stored'
  <2>1. UNCHANGED <<kind, server, tgt, from>> /\ cut \subseteq cut'
    BY <1>28 DEF IntTrapped
  <2>2. CASE pc[p] = "lock"
    <3>1. pc' = pc /\ file' = file /\ cut' = cut
      BY <1>28, <2>2 DEF IntTrapped, Locked
    <3>2. Outside(p)
      BY <2>1, <2>2, <3>1 DEF Outside, Frame
    <3> QED
      BY <3>2, <1>a, OutsideStored
  <2>3. CASE pc[p] # "lock"
    <3>1. Frame(p) /\ pc[p] \in Locked
      BY <1>28, <2>1, <2>3 DEF Frame, IntTrapped, GoesTo
    <3>2. StoredOf(p) /\ (StoredOf(p)' => Stored')
      BY <3>1, <1>a, <1>b, AloneStored
    <3>3. CASE pc[p] = "curl"
      <4>1. /\ file' = [file EXCEPT ![Incomplete(p)] = "part"] /\ pc'[p] = "failed"
            /\ cut' = cut
        BY <1>28, <3>3 DEF IntTrapped, GoesTo
      <4> QED
        BY <2>1, <3>2, <3>3, <4>1, DistinctNames
           DEF StoredOf, Unfinished, Working, CksumErrMeansBad
    <3>4. CASE pc[p] \in {"check", "cksum"}
      <4>1. file' = file /\ pc'[p] = "cksum" /\ cut' # {}
        BY <1>28, <3>4 DEF IntTrapped, GoesTo
      <4> QED
        BY <2>1, <3>2, <3>4, <4>1 DEF StoredOf, Unfinished, Working
    <3>5. CASE pc[p] = "compress"
      <4>1. file' = file /\ pc'[p] = "rmsource" /\ "writer" \in cut'
        BY <1>28, <3>5 DEF IntTrapped, GoesTo
      <4>2. file[Archive] \in {"empty", "part"}
        BY <1>b, <3>5 DEF PlaceOf
      <4> QED
        BY <2>1, <3>2, <4>1, <4>2 DEF StoredOf, Unfinished
    <3>6. CASE pc[p] \notin {"curl", "check", "cksum", "compress"}
      <4>1. file' = file /\ pc' = pc /\ cut' = cut
        BY <1>28, <3>6 DEF IntTrapped
      <4> QED
        BY <2>1, <3>2, <4>1
           DEF StoredOf, Unfinished, Working, Incomplete, Fetched, Gz, CksumErrMeansBad
    <3> QED
      BY <3>3, <3>4, <3>5, <3>6
  <2> QED
    BY <2>2, <2>3
<1>29. ASSUME NEW p \in Proc, Kill(p) PROVE Stored'
  <2>1. kills \in Nat /\ kills' = kills + 1
    BY <1>29 DEF Kill, TypeOK
  <2> QED
    BY <2>1 DEF OneByOne
<1>30. ASSUME NEW n \in Name, RemoveErr(n) PROVE Stored'
  <2>1. UNCHANGED <<kind, server, pc, tgt, from, cut>>
    BY <1>30 DEF RemoveErr
  <2>2. \A q \in Proc : (Working(q)' <=> Working(q)) /\ Incomplete(q)' = Incomplete(q)
    BY <2>1 DEF Working, Incomplete, Fetched, Gz
  <2>3. cut' = {} => CksumErrMeansBad'
    BY <1>30, <1>a, <2>1, ErrOnly DEF Stored, CksumErrMeansBad
  <2> QED
    BY <1>30, <1>a, <2>1, <2>2, <2>3, ErrOnly DEF Stored, Unfinished
<1>31. CASE RemoveLock
  BY <1>31, <1>a DEF RemoveLock, Incomplete, Fetched, Gz, Stored, Unfinished, Working, CksumErrMeansBad
<1>32. CASE UNCHANGED vars
  BY <1>32, <1>a DEF Incomplete, Fetched, Gz, vars, Stored, Unfinished, Working, CksumErrMeansBad
<1> QED
  BY <1>1, <1>2, <1>3, <1>4, <1>5, <1>6, <1>7, <1>8, <1>9, <1>10, <1>11, <1>12, <1>13,
     <1>14, <1>15, <1>16, <1>17, <1>18, <1>19, <1>20, <1>21, <1>22, <1>23, <1>24, <1>25,
     <1>26, <1>27, <1>28, <1>29, <1>30, <1>31, <1>32, <1>33, <1>34 DEF Next, Step

-----------------------------------------------------------------------------
\* The variables keep to their types; the source is compressed only when it is
\* not the archive itself (Download:484-492).
THEOREM TypeCorrect == Spec => []TypeOK
<1> QED
  BY InitType, TypeStep, PTL DEF Spec

\* The inductive invariant.
IInv == TypeOK /\ OneLocked /\ LockHasOwner /\ PlaceInv /\ StoredInv

\* Every state a call, an interrupt or a kill leads to satisfies it.
THEOREM Inductive == Spec => []IInv
<1>1. Init => IInv
  <2> SUFFICES ASSUME Init PROVE IInv
    OBVIOUS
  <2>1. TypeOK /\ \A p \in Proc : pc[p] = "off"
    BY InitType DEF Init
  <2>2. ~lock /\ \A n \in Name : file[n] = "none"
    BY DEF Init
  <2>3. OneLocked /\ LockHasOwner
    BY <2>1, <2>2 DEF OneLocked, LockHasOwner, Locked
  <2>4. PlaceInv
    BY <2>1 DEF PlaceInv, PlaceOf
  <2>5. Stored
    BY <2>1, <2>2, DistinctNames DEF Stored, CksumErrMeansBad
  <2> QED
    BY <2>1, <2>3, <2>4, <2>5 DEF IInv, StoredInv
<1>2. IInv /\ [Next]_vars => IInv'
  BY TypeStep, LocksStep, PlaceStep, StoredStep DEF IInv
<1> QED
  BY <1>1, <1>2, PTL DEF Spec

\* Every way out of download_file removes the lock file (Download:340).
THEOREM LocksFreed == Spec => []LockFreed
<1>1. IInv => LockFreed
  BY DEF IInv, LockHasOwner, LockFreed, AllOff, Locked
<1> QED
  BY <1>1, Inductive, PTL

\* An archive nobody works on has been checked and is whole, however many
\* Ctrl-C there were, unless a compressor has failed or met one of them: what
\* it left is then there, and stays (Download:332, 491).
THEOREM ArchiveVerified == Spec => []VerifiedAtRest
<1>1. IInv => VerifiedAtRest
  BY DEF IInv, StoredInv, Stored, Unfinished, VerifiedAtRest, AllOff, Working
<1> QED
  BY <1>1, Inductive, PTL

\* A .cksum-err file means that the server has the wrong file (Download:373),
\* as long as each decompressor and compressor does its work to the end.
THEOREM CksumErrHonest == Spec => []CksumErrMeansBadUndisturbed
<1>1. IInv => CksumErrMeansBadUndisturbed
  BY DEF IInv, StoredInv, Stored, CksumErrMeansBadUndisturbed
<1> QED
  BY <1>1, Inductive, PTL

\* What was downloaded is given up only for a whole archive, or kept as
\* .cksum-err, through any number of kills and Ctrl-C; a compressor that has
\* failed is the exception the code makes (Download:491).
THEOREM SourceSafe == Spec => SourceKept
<1>1. IInv /\ [Next]_vars => [KeepsSource]_vars
  BY KeepsStep DEF IInv
<1> QED
  BY <1>1, Inductive, PTL DEF Spec, SourceKept

=============================================================================
