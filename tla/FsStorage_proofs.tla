-------------------------- MODULE FsStorage_proofs --------------------------
(***************************************************************************)
(* Proofs about FsStorage for any set of processes, any expiry, and any    *)
(* number of aborted operations: what holds of the directory and of its    *)
(* index although the processes take no lock.  For one process that is     *)
(* never cut short: that it keeps every promise of a storage.              *)
(***************************************************************************)
EXTENDS FsStorage, WellFoundedInduction, TLAPS

Storing == {"encode", "read", "add"}
Maintaining == {"list", "readMaintain", "sweep", "writeMaintain"}
Writing == {"writeStore", "writeMaintain"}

\* Nothing is named or stamped with a time still to come.
InThePast ==
    /\ \A n \in files \cup written : n <= clock
    /\ \A p \in Procs : name[p] <= clock
    /\ reading <= clock

\* A map, on disk or in memory, stamps a name later than the name's own
\* time, and lists only files that were once completely written.
GoodMap(map) == \A n \in Names : map[n] # 0 => map[n] > n /\ n \in written

GoodMaps == GoodMap(index) /\ \A p \in Procs : GoodMap(idx[p])

\* The new file of a process at work in Store: it exists and is unwritten
\* before the encoder ran, and nobody else is writing it.
NewFiles ==
    /\ \A p \in Procs : pc[p] \in Storing => name[p] \in Names
    /\ \A p \in Procs : pc[p] = "encode" => name[p] \in files \ written
    /\ \A p, q \in Procs :
          p # q /\ pc[p] = "encode" /\ pc[q] = "encode" => name[p] # name[q]
    /\ \A p \in Procs : pc[p] \in {"read", "add"} => name[p] \in written

\* A file that was completely written is still so, or was expired.
WholeOrExpired ==
    /\ files \cap written \subseteq whole
    /\ \A n \in written \ whole : clock - n > Expiry

OnlyMaintainers == \A p \in Procs : pc[p] \in Maintaining => Expiry # 0

ReaderKnows ==
    /\ reading # 0 => reading \in written
    /\ got = "missing" => reading \in written \ whole

IInv == /\ TypeOK /\ InThePast /\ GoodMaps /\ NewFiles
        /\ WholeOrExpired /\ OnlyMaintainers /\ ReaderKnows
        /\ ReaderFindsWhole /\ TornOnlyByCut

-----------------------------------------------------------------------------
LEMMA NoEntryGood == NoEntry \in Indexes /\ GoodMap(NoEntry)
BY MaxTimeAssumption DEF NoEntry, Indexes, Names, GoodMap

LEMMA InitInvariant == Init => IInv
<1> SUFFICES ASSUME Init PROVE IInv
  OBVIOUS
<1> USE MaxTimeAssumption, MaxAbortsAssumption DEF Init
<1>1. TypeOK
  <2>1. index \in Indexes /\ idx \in [Procs -> Indexes]
    BY NoEntryGood
  <2>2. /\ pc \in [Procs -> PCs] /\ todo \in [Procs -> SUBSET Names]
        /\ name \in [Procs -> 0..MaxTime] /\ began \in [Procs -> 0..MaxTime]
    BY DEF PCs
  <2>3. 0 \in 0..MaxTime /\ 0 \in 0..MaxAborts
    OBVIOUS
  <2> QED  BY <2>1, <2>2, <2>3 DEF TypeOK
<1>2. InThePast /\ NewFiles /\ WholeOrExpired /\ OnlyMaintainers /\ ReaderKnows
  BY DEF InThePast, NewFiles, WholeOrExpired, OnlyMaintainers, ReaderKnows,
         Storing, Maintaining
<1>3. GoodMaps
  BY DEF GoodMaps, GoodMap, NoEntry
<1>4. ReaderFindsWhole /\ TornOnlyByCut
  BY DEF ReaderFindsWhole, TornOnlyByCut
<1> QED  BY <1>1, <1>2, <1>3, <1>4 DEF IInv

LEMMA CreateFileInvariant == ASSUME IInv, NEW p \in Procs, CreateFile(p) PROVE IInv'
<1> USE MaxTimeAssumption, ExpiryAssumption, MaxAbortsAssumption
        DEF IInv, CreateFile, disk, local, reader, faults, Goto
<1>1. TypeOK'
  BY DEF TypeOK, Indexes, NoEntry, Names, PCs, NewFiles, Storing
<1>2. InThePast'
  BY DEF InThePast, TypeOK, Names
<1>3. GoodMaps'
  BY DEF GoodMaps, GoodMap, NoEntry, TypeOK, Indexes, NewFiles, InThePast, Storing, Names
<1>4. NewFiles'
  BY DEF NewFiles, Storing, TypeOK, InThePast, GoodMaps, GoodMap, Expired, Names
<1>5. WholeOrExpired'
  BY DEF WholeOrExpired, TypeOK, InThePast, NewFiles, GoodMaps, GoodMap, Expired, Names, Indexes
<1>6. OnlyMaintainers' /\ TornOnlyByCut'
  BY DEF OnlyMaintainers, Maintaining, TornOnlyByCut, TypeOK
<1>7. ReaderKnows' /\ ReaderFindsWhole'
  BY DEF ReaderKnows, ReaderFindsWhole, TypeOK, WholeOrExpired, NewFiles, InThePast, Names
<1> QED  BY <1>1, <1>2, <1>3, <1>4, <1>5, <1>6, <1>7

LEMMA EncodeResultsInvariant == ASSUME IInv, NEW p \in Procs, EncodeResults(p) PROVE IInv'
<1> USE MaxTimeAssumption, ExpiryAssumption, MaxAbortsAssumption
        DEF IInv, EncodeResults, disk, local, reader, faults, Goto
<1>1. TypeOK'
  BY DEF TypeOK, Indexes, NoEntry, Names, PCs, NewFiles, Storing
<1>2. InThePast'
  BY DEF InThePast, TypeOK, Names
<1>3. GoodMaps'
  BY DEF GoodMaps, GoodMap, NoEntry, TypeOK, Indexes, NewFiles, InThePast, Storing, Names
<1>4. NewFiles'
  BY DEF NewFiles, Storing, TypeOK, InThePast, GoodMaps, GoodMap, Expired, Names
<1>5. WholeOrExpired'
  BY DEF WholeOrExpired, TypeOK, InThePast, NewFiles, GoodMaps, GoodMap, Expired, Names, Indexes
<1>6. OnlyMaintainers' /\ TornOnlyByCut'
  BY DEF OnlyMaintainers, Maintaining, TornOnlyByCut, TypeOK
<1>7. ReaderKnows' /\ ReaderFindsWhole'
  BY DEF ReaderKnows, ReaderFindsWhole, TypeOK, WholeOrExpired, NewFiles, InThePast, Names
<1> QED  BY <1>1, <1>2, <1>3, <1>4, <1>5, <1>6, <1>7

LEMMA ReadStoreInvariant == ASSUME IInv, NEW p \in Procs, ReadIndex(p, "read", "add") PROVE IInv'
<1> USE MaxTimeAssumption, ExpiryAssumption, MaxAbortsAssumption
        DEF IInv, ReadIndex, disk, local, reader, faults, Goto
<1>1. TypeOK'
  BY DEF TypeOK, Indexes, NoEntry, Names, PCs, NewFiles, Storing
<1>2. InThePast'
  BY DEF InThePast, TypeOK, Names
<1>3. GoodMaps'
  BY DEF GoodMaps, GoodMap, NoEntry, TypeOK, Indexes, NewFiles, InThePast, Storing, Names
<1>4. NewFiles'
  BY DEF NewFiles, Storing, TypeOK, InThePast, GoodMaps, GoodMap, Expired, Names
<1>5. WholeOrExpired'
  BY DEF WholeOrExpired, TypeOK, InThePast, NewFiles, GoodMaps, GoodMap, Expired, Names, Indexes
<1>6. OnlyMaintainers' /\ TornOnlyByCut'
  BY DEF OnlyMaintainers, Maintaining, TornOnlyByCut, TypeOK
<1>7. ReaderKnows' /\ ReaderFindsWhole'
  BY DEF ReaderKnows, ReaderFindsWhole, TypeOK, WholeOrExpired, NewFiles, InThePast, Names
<1> QED  BY <1>1, <1>2, <1>3, <1>4, <1>5, <1>6, <1>7

LEMMA AddEntryInvariant == ASSUME IInv, NEW p \in Procs, AddEntry(p) PROVE IInv'
<1> USE MaxTimeAssumption, ExpiryAssumption, MaxAbortsAssumption
        DEF IInv, AddEntry, disk, local, reader, faults, Goto
<1>0. name[p] \in Names /\ clock' = clock + 1 /\ clock' \in 1..MaxTime
  BY DEF NewFiles, Storing, TypeOK
<1>1. TypeOK'
  <2>1. [idx[p] EXCEPT ![name[p]] = clock'] \in Indexes
    BY <1>0 DEF TypeOK, Indexes
  <2>2. idx' \in [Procs -> Indexes]
    BY <2>1 DEF TypeOK
  <2>3. index' \in Indexes
    BY NoEntryGood
  <2> QED  BY <1>0, <2>2, <2>3 DEF TypeOK, Names, PCs
<1>2. InThePast'
  BY DEF InThePast, TypeOK, Names
<1>3. GoodMaps'
  <2>1. GoodMap(index)'
    BY NoEntryGood DEF GoodMap
  <2>2. ASSUME NEW q \in Procs, NEW n \in Names, idx'[q][n] # 0
        PROVE  idx'[q][n] > n /\ n \in written
    <3>1. CASE q = p /\ n = name[p]
      <4>1. idx'[q][n] = clock + 1
        BY <1>0, <3>1 DEF TypeOK, Indexes
      <4>2. name[p] <= clock /\ name[p] \in written
        BY DEF InThePast, NewFiles
      <4> QED  BY <3>1, <4>1, <4>2 DEF TypeOK, Names
    <3>2. CASE ~(q = p /\ n = name[p])
      <4>1. idx'[q][n] = idx[q][n]
        BY <3>2 DEF TypeOK, Indexes
      <4> QED  BY <2>2, <4>1 DEF GoodMaps, GoodMap
    <3> QED  BY <3>1, <3>2
  <2> QED  BY <2>1, <2>2 DEF GoodMaps, GoodMap
<1>4. NewFiles'
  BY DEF NewFiles, Storing, TypeOK, InThePast, GoodMaps, GoodMap, Expired, Names
<1>5. WholeOrExpired'
  BY SMTT(30) DEF WholeOrExpired, TypeOK, InThePast, NewFiles, GoodMaps, GoodMap, Expired, Names, Indexes
<1>6. OnlyMaintainers' /\ TornOnlyByCut'
  BY DEF OnlyMaintainers, Maintaining, TornOnlyByCut, TypeOK
<1>7. ReaderKnows' /\ ReaderFindsWhole'
  BY DEF ReaderKnows, ReaderFindsWhole, TypeOK, WholeOrExpired, NewFiles, InThePast, Names
<1> QED  BY <1>1, <1>2, <1>3, <1>4, <1>5, <1>6, <1>7

LEMMA WriteIndexInvariant == ASSUME IInv, NEW p \in Procs, WriteIndex(p) PROVE IInv'
<1> USE MaxTimeAssumption, ExpiryAssumption, MaxAbortsAssumption
        DEF IInv, WriteIndex, disk, local, reader, faults, Goto
<1>1. TypeOK'
  BY DEF TypeOK, Indexes, NoEntry, Names, PCs, NewFiles, Storing
<1>2. InThePast'
  BY DEF InThePast, TypeOK, Names
<1>3. GoodMaps'
  BY DEF GoodMaps, GoodMap, NoEntry, TypeOK, Indexes, NewFiles, InThePast, Storing, Names
<1>4. NewFiles'
  BY DEF NewFiles, Storing, TypeOK, InThePast, GoodMaps, GoodMap, Expired, Names
<1>5. WholeOrExpired'
  BY DEF WholeOrExpired, TypeOK, InThePast, NewFiles, GoodMaps, GoodMap, Expired, Names, Indexes
<1>6. OnlyMaintainers' /\ TornOnlyByCut'
  BY DEF OnlyMaintainers, Maintaining, TornOnlyByCut, TypeOK
<1>7. ReaderKnows' /\ ReaderFindsWhole'
  BY DEF ReaderKnows, ReaderFindsWhole, TypeOK, WholeOrExpired, NewFiles, InThePast, Names
<1> QED  BY <1>1, <1>2, <1>3, <1>4, <1>5, <1>6, <1>7

LEMMA ListDirInvariant == ASSUME IInv, NEW p \in Procs, ListDir(p) PROVE IInv'
<1> USE MaxTimeAssumption, ExpiryAssumption, MaxAbortsAssumption
        DEF IInv, ListDir, disk, local, reader, faults, Goto
<1>1. TypeOK'
  BY DEF TypeOK, Indexes, NoEntry, Names, PCs, NewFiles, Storing
<1>2. InThePast'
  BY DEF InThePast, TypeOK, Names
<1>3. GoodMaps'
  BY DEF GoodMaps, GoodMap, NoEntry, TypeOK, Indexes, NewFiles, InThePast, Storing, Names
<1>4. NewFiles'
  BY DEF NewFiles, Storing, TypeOK, InThePast, GoodMaps, GoodMap, Expired, Names
<1>5. WholeOrExpired'
  BY DEF WholeOrExpired, TypeOK, InThePast, NewFiles, GoodMaps, GoodMap, Expired, Names, Indexes
<1>6. OnlyMaintainers' /\ TornOnlyByCut'
  BY DEF OnlyMaintainers, Maintaining, TornOnlyByCut, TypeOK
<1>7. ReaderKnows' /\ ReaderFindsWhole'
  BY DEF ReaderKnows, ReaderFindsWhole, TypeOK, WholeOrExpired, NewFiles, InThePast, Names
<1> QED  BY <1>1, <1>2, <1>3, <1>4, <1>5, <1>6, <1>7

LEMMA ReadMaintainInvariant == ASSUME IInv, NEW p \in Procs, ReadIndex(p, "readMaintain", "sweep") PROVE IInv'
<1> USE MaxTimeAssumption, ExpiryAssumption, MaxAbortsAssumption
        DEF IInv, ReadIndex, disk, local, reader, faults, Goto
<1>1. TypeOK'
  BY DEF TypeOK, Indexes, NoEntry, Names, PCs, NewFiles, Storing
<1>2. InThePast'
  BY DEF InThePast, TypeOK, Names
<1>3. GoodMaps'
  BY DEF GoodMaps, GoodMap, NoEntry, TypeOK, Indexes, NewFiles, InThePast, Storing, Names
<1>4. NewFiles'
  BY DEF NewFiles, Storing, TypeOK, InThePast, GoodMaps, GoodMap, Expired, Names
<1>5. WholeOrExpired'
  BY DEF WholeOrExpired, TypeOK, InThePast, NewFiles, GoodMaps, GoodMap, Expired, Names, Indexes
<1>6. OnlyMaintainers' /\ TornOnlyByCut'
  BY DEF OnlyMaintainers, Maintaining, TornOnlyByCut, TypeOK
<1>7. ReaderKnows' /\ ReaderFindsWhole'
  BY DEF ReaderKnows, ReaderFindsWhole, TypeOK, WholeOrExpired, NewFiles, InThePast, Names
<1> QED  BY <1>1, <1>2, <1>3, <1>4, <1>5, <1>6, <1>7

LEMMA SweepInvariant == ASSUME IInv, NEW p \in Procs, Sweep(p) PROVE IInv'
<1> USE MaxTimeAssumption, ExpiryAssumption, MaxAbortsAssumption
        DEF IInv, disk, local, reader, faults
<1> DEFINE n == Min(todo[p])
<1>0. /\ pc[p] = "sweep"
      /\ todo' = [todo EXCEPT ![p] = @ \ {n}]
      /\ UNCHANGED <<clock, index, state, name, began, aborts, cut, written, reading, got>>
  BY DEF Sweep
<1>1. CASE UNCHANGED <<files, whole, idx>> /\ (UNCHANGED pc \/ Goto(p, "idle"))
  <2>1. TypeOK'
    BY <1>0, <1>1 DEF TypeOK, PCs, Goto
  <2>2. InThePast' /\ GoodMaps' /\ WholeOrExpired'
    BY <1>0, <1>1 DEF InThePast, GoodMaps, GoodMap, WholeOrExpired
  <2>3. NewFiles'
    BY <1>0, <1>1 DEF NewFiles, Storing, TypeOK, Goto
  <2>4. OnlyMaintainers' /\ TornOnlyByCut'
    BY <1>0, <1>1 DEF OnlyMaintainers, Maintaining, TornOnlyByCut, TypeOK, Goto
  <2>5. ReaderKnows' /\ ReaderFindsWhole'
    BY <1>0, <1>1 DEF ReaderKnows, ReaderFindsWhole
  <2> QED  BY <2>1, <2>2, <2>3, <2>4, <2>5
<1>2. CASE /\ Expired(p, n) /\ n \in files
           /\ files' = files \ {n} /\ whole' = whole \ {n}
           /\ idx' = [idx EXCEPT ![p][n] = 0]
           /\ UNCHANGED pc
  <2>0. n \in Names /\ idx[p][n] \in 0..MaxTime
    BY <1>2 DEF TypeOK, Indexes
  <2>1. n \in written /\ clock - n > Expiry
    <3>1. idx[p][n] # 0 /\ clock - idx[p][n] > Expiry
      BY <1>2 DEF Expired
    <3>2. idx[p][n] > n /\ n \in written
      BY <2>0, <3>1 DEF GoodMaps, GoodMap
    <3> QED  BY <2>0, <3>1, <3>2 DEF TypeOK, Names
  <2>2. TypeOK'
    <3>1. [idx[p] EXCEPT ![n] = 0] \in Indexes
      BY <2>0 DEF TypeOK, Indexes
    <3>2. idx' \in [Procs -> Indexes]
      BY <1>2, <3>1 DEF TypeOK
    <3> QED  BY <1>0, <1>2, <3>2 DEF TypeOK
  <2>3. InThePast'
    BY <1>0, <1>2 DEF InThePast
  <2>4. GoodMaps'
    <3>1. ASSUME NEW q \in Procs, NEW m \in Names, idx'[q][m] # 0
          PROVE  idx'[q][m] = idx[q][m]
      BY <1>2, <3>1 DEF TypeOK, Indexes
    <3> QED  BY <1>0, <3>1 DEF GoodMaps, GoodMap
  <2>5. NewFiles'
    BY <1>0, <1>2, <2>1 DEF NewFiles
  <2>6. WholeOrExpired'
    BY <1>0, <1>2, <2>1 DEF WholeOrExpired
  <2>7. OnlyMaintainers' /\ TornOnlyByCut'
    BY <1>0, <1>2 DEF OnlyMaintainers, TornOnlyByCut
  <2>8. ReaderKnows' /\ ReaderFindsWhole'
    BY <1>0, <1>2 DEF ReaderKnows, ReaderFindsWhole
  <2> QED  BY <2>2, <2>3, <2>4, <2>5, <2>6, <2>7, <2>8
<1> QED  BY <1>1, <1>2 DEF Sweep

LEMMA SweepEndsInvariant == ASSUME IInv, NEW p \in Procs, SweepEnds(p) PROVE IInv'
<1> USE MaxTimeAssumption, ExpiryAssumption, MaxAbortsAssumption
        DEF IInv, SweepEnds, disk, local, reader, faults, Goto
<1>1. TypeOK'
  BY NoEntryGood DEF TypeOK, Names, PCs
<1>2. InThePast'
  BY DEF InThePast, TypeOK, Names
<1>3. GoodMaps'
  BY DEF GoodMaps, GoodMap, NoEntry, TypeOK, Indexes, NewFiles, InThePast, Storing, Names
<1>4. NewFiles'
  BY DEF NewFiles, Storing, TypeOK, InThePast, GoodMaps, GoodMap, Expired, Names
<1>5. WholeOrExpired'
  BY DEF WholeOrExpired, TypeOK, InThePast, NewFiles, GoodMaps, GoodMap, Expired, Names, Indexes
<1>6. OnlyMaintainers' /\ TornOnlyByCut'
  BY DEF OnlyMaintainers, Maintaining, TornOnlyByCut, TypeOK
<1>7. ReaderKnows' /\ ReaderFindsWhole'
  BY DEF ReaderKnows, ReaderFindsWhole, TypeOK, WholeOrExpired, NewFiles, InThePast, Names
<1> QED  BY <1>1, <1>2, <1>3, <1>4, <1>5, <1>6, <1>7

LEMMA AbortInvariant == ASSUME IInv, NEW p \in Procs, Abort(p) PROVE IInv'
<1> USE MaxTimeAssumption, ExpiryAssumption, MaxAbortsAssumption
        DEF IInv, Abort, disk, local, reader, faults, Goto
<1>1. TypeOK'
  BY SMTT(30) DEF TypeOK, Indexes, NoEntry, Names, PCs, NewFiles, Storing
<1>2. InThePast'
  BY DEF InThePast, TypeOK, Names
<1>3. GoodMaps'
  BY DEF GoodMaps, GoodMap, NoEntry, TypeOK, Indexes, NewFiles, InThePast, Storing, Names
<1>4. NewFiles'
  BY DEF NewFiles, Storing, TypeOK, InThePast, GoodMaps, GoodMap, Expired, Names
<1>5. WholeOrExpired'
  BY DEF WholeOrExpired, TypeOK, InThePast, NewFiles, GoodMaps, GoodMap, Expired, Names, Indexes
<1>6. OnlyMaintainers' /\ TornOnlyByCut'
  BY DEF OnlyMaintainers, Maintaining, TornOnlyByCut, TypeOK
<1>7. ReaderKnows' /\ ReaderFindsWhole'
  BY DEF ReaderKnows, ReaderFindsWhole, TypeOK, WholeOrExpired, NewFiles, InThePast, Names
<1> QED  BY <1>1, <1>2, <1>3, <1>4, <1>5, <1>6, <1>7

LEMMA TickInvariant == ASSUME IInv, Tick PROVE IInv'
<1> USE MaxTimeAssumption, ExpiryAssumption
        DEF IInv, Tick, disk, local, reader, faults, Goto
<1>1. TypeOK'
  BY DEF TypeOK, Names, Listed
<1>2. InThePast'
  BY DEF InThePast, TypeOK, Names, Listed, GoodMaps, GoodMap
<1>3. GoodMaps' /\ NewFiles' /\ OnlyMaintainers' /\ TornOnlyByCut'
  BY DEF GoodMaps, GoodMap, NewFiles, OnlyMaintainers, TornOnlyByCut
<1>4. WholeOrExpired'
  BY DEF WholeOrExpired, TypeOK, Names
<1>5. ReaderKnows' /\ ReaderFindsWhole'
  BY DEF ReaderKnows, ReaderFindsWhole, WholeOrExpired, TypeOK, GoodMaps, GoodMap, Listed, Names
<1> QED  BY <1>1, <1>2, <1>3, <1>4, <1>5

LEMMA GetIndexInvariant == ASSUME IInv, GetIndex PROVE IInv'
<1> USE MaxTimeAssumption, ExpiryAssumption
        DEF IInv, GetIndex, disk, local, reader, faults, Goto
<1>1. TypeOK'
  BY DEF TypeOK, Names, Listed
<1>2. InThePast'
  BY DEF InThePast, TypeOK, Names, Listed, GoodMaps, GoodMap
<1>3. GoodMaps' /\ NewFiles' /\ OnlyMaintainers' /\ TornOnlyByCut'
  BY DEF GoodMaps, GoodMap, NewFiles, OnlyMaintainers, TornOnlyByCut
<1>4. WholeOrExpired'
  BY DEF WholeOrExpired, TypeOK, Names
<1>5. ReaderKnows' /\ ReaderFindsWhole'
  BY DEF ReaderKnows, ReaderFindsWhole, WholeOrExpired, TypeOK, GoodMaps, GoodMap, Listed, Names
<1> QED  BY <1>1, <1>2, <1>3, <1>4, <1>5

LEMMA FetchInvariant == ASSUME IInv, Fetch PROVE IInv'
<1> USE MaxTimeAssumption, ExpiryAssumption
        DEF IInv, Fetch, disk, local, reader, faults, Goto
<1>1. TypeOK'
  BY DEF TypeOK, Names, Listed
<1>2. InThePast'
  BY DEF InThePast, TypeOK, Names, Listed, GoodMaps, GoodMap
<1>3. GoodMaps' /\ NewFiles' /\ OnlyMaintainers' /\ TornOnlyByCut'
  BY DEF GoodMaps, GoodMap, NewFiles, OnlyMaintainers, TornOnlyByCut
<1>4. WholeOrExpired'
  BY DEF WholeOrExpired, TypeOK, Names
<1>5. ReaderKnows' /\ ReaderFindsWhole'
  BY DEF ReaderKnows, ReaderFindsWhole, WholeOrExpired, TypeOK, GoodMaps, GoodMap, Listed, Names
<1> QED  BY <1>1, <1>2, <1>3, <1>4, <1>5

LEMMA ReaderDoneInvariant == ASSUME IInv, ReaderDone PROVE IInv'
<1> USE MaxTimeAssumption, ExpiryAssumption
        DEF IInv, ReaderDone, disk, local, reader, faults, Goto
<1>1. TypeOK'
  BY DEF TypeOK, Names, Listed
<1>2. InThePast'
  BY DEF InThePast, TypeOK, Names, Listed, GoodMaps, GoodMap
<1>3. GoodMaps' /\ NewFiles' /\ OnlyMaintainers' /\ TornOnlyByCut'
  BY DEF GoodMaps, GoodMap, NewFiles, OnlyMaintainers, TornOnlyByCut
<1>4. WholeOrExpired'
  BY DEF WholeOrExpired, TypeOK, Names
<1>5. ReaderKnows' /\ ReaderFindsWhole'
  BY DEF ReaderKnows, ReaderFindsWhole, WholeOrExpired, TypeOK, GoodMaps, GoodMap, Listed, Names
<1> QED  BY <1>1, <1>2, <1>3, <1>4, <1>5

LEMMA NextInvariant == IInv /\ [Next]_vars => IInv'
<1> SUFFICES ASSUME IInv, [Next]_vars PROVE IInv'
  OBVIOUS
<1>1. ASSUME NEW p \in Procs, Process(p) PROVE IInv'
  BY <1>1, CreateFileInvariant, EncodeResultsInvariant, ReadStoreInvariant,
     AddEntryInvariant, WriteIndexInvariant, ListDirInvariant,
     ReadMaintainInvariant, SweepInvariant, SweepEndsInvariant, AbortInvariant
     DEF Process
<1>2. CASE UNCHANGED vars
  BY <1>2 DEF IInv, vars, disk, local, faults, reader, TypeOK, InThePast,
     GoodMaps, GoodMap, NewFiles, WholeOrExpired, OnlyMaintainers, ReaderKnows,
     ReaderFindsWhole, TornOnlyByCut
<1> QED
  BY <1>1, <1>2, TickInvariant, GetIndexInvariant, FetchInvariant,
     ReaderDoneInvariant DEF Next

\* IInv holds in every behaviour of the processes that share the directory.
THEOREM Invariance == Spec => []IInv
<1> QED  BY InitInvariant, NextInvariant, PTL DEF Spec

-----------------------------------------------------------------------------
\* Every variable keeps its type; a complete file is a file that exists.
THEOREM TypeCorrect == Spec => []TypeOK
<1>1. IInv => TypeOK
  BY DEF IInv
<1> QED  BY <1>1, Invariance, PTL

\* A reader never decodes half a check file, and misses only expired ones.
THEOREM ReaderCorrect == Spec => []ReaderFindsWhole
<1>1. IInv => ReaderFindsWhole
  BY DEF IInv
<1> QED  BY <1>1, Invariance, PTL

\* Only a write cut short leaves an index that nobody can decode.
THEOREM IndexReadable == Spec => []TornOnlyByCut
<1>1. IInv => TornOnlyByCut
  BY DEF IInv
<1> QED  BY <1>1, Invariance, PTL

\* No process ever deletes a check file that is not older than CheckExpiry.
THEOREM DeletionSafe == Spec => DeletesOnlyExpired
<1>1. IInv /\ [Next]_vars =>
        [\A n \in files \ files' : Expiry # 0 /\ clock - n > Expiry]_vars
  <2> SUFFICES ASSUME IInv, Next, NEW n \in files \ files'
               PROVE  Expiry # 0 /\ clock - n > Expiry
    BY DEF vars
  <2> USE DEF disk
  <2>1. CASE Tick \/ GetIndex \/ Fetch \/ ReaderDone
    BY <2>1 DEF Tick, GetIndex, Fetch, ReaderDone
  <2>2. ASSUME NEW p \in Procs, Process(p)
        PROVE  Expiry # 0 /\ clock - n > Expiry
    <3>1. Sweep(p)
      BY <2>2 DEF Process, CreateFile, EncodeResults, ReadIndex, AddEntry,
         WriteIndex, ListDir, SweepEnds, Abort
    <3>2. Expired(p, n) /\ n \in Names
      BY <3>1 DEF Sweep, IInv, TypeOK
    <3>3. idx[p][n] > n /\ idx[p][n] \in Nat /\ n \in Nat /\ clock \in Nat
      BY <3>2, MaxTimeAssumption DEF Expired, IInv, GoodMaps, GoodMap, TypeOK, Indexes, Names
    <3>4. clock - n > Expiry
      BY <3>2, <3>3, ExpiryAssumption DEF Expired
    <3>5. Expiry # 0
      BY <3>1 DEF Sweep, IInv, OnlyMaintainers, Maintaining
    <3> QED  BY <3>4, <3>5
  <2> QED  BY <2>1, <2>2 DEF Next
<1> QED  BY <1>1, Invariance, PTL DEF Spec, DeletesOnlyExpired

-----------------------------------------------------------------------------
(* One process whose operations are never cut short. *)

\* What index, map and directory have to do with each other at each place.
Lone(p) ==
    /\ state = "torn" <=> pc[p] \in Writing
    /\ whole = IF pc[p] = "encode" THEN files \ {name[p]} ELSE files
    /\ pc[p] \in {"idle", "list", "readMaintain"} => Listed(index) = files
    /\ pc[p] \in Storing => name[p] \in files /\ Listed(index) = files \ {name[p]}
    /\ pc[p] = "add" => idx[p] = index
    /\ pc[p] \in Writing \cup {"sweep"} => Listed(idx[p]) = files
    /\ pc[p] = "sweep" => files \subseteq Listed(index)
    /\ pc[p] = "readMaintain" => todo[p] = files
    /\ pc[p] \in {"readMaintain", "sweep"} => began[p] <= clock
    /\ pc[p] = "sweep" => \A n \in files \ todo[p] : began[p] - idx[p][n] <= Expiry

\* The listing of a directory has a first file.
LEMMA FirstFile == ASSUME NEW S \in SUBSET Names, S # {} PROVE Min(S) \in S
<1> DEFINE R == {e \in Nat \X Nat : e[1] < e[2]}
<1>1. IsWellFoundedOn(R, Nat)
  BY NatLessThanWellFounded DEF OpToRel
<1>2. S \subseteq Nat
  BY MaxTimeAssumption DEF Names
<1>3. PICK x \in S : \A y \in S : ~(<<y, x>> \in R)
  <2> HIDE DEF R
  <2> QED  BY <1>1, <1>2, WFMin
<1>4. \A y \in S : x <= y
  <2> TAKE y \in S
  <2>1. x \in Nat /\ y \in Nat /\ ~(<<y, x>> \in R)
    BY <1>2, <1>3
  <2> QED  BY <2>1
<1> QED  BY <1>4, Zenon DEF Min

\* No step of the only process separates index, map and directory.
LEMMA LoneStep ==
    ASSUME NEW p, Procs = {p}, MaxAborts = 0, IInv, Lone(p), [Next]_vars
    PROVE  Lone(p)'
<1> USE MaxTimeAssumption, ExpiryAssumption
<1>0. /\ pc \in [Procs -> PCs] /\ pc[p] \in PCs /\ p \in Procs
      /\ files \subseteq Names /\ index \in Indexes /\ idx \in [Procs -> Indexes]
      /\ idx[p] \in Indexes /\ name \in [Procs -> 0..MaxTime]
      /\ todo \in [Procs -> SUBSET Names] /\ began \in [Procs -> 0..MaxTime]
      /\ clock \in 0..MaxTime /\ files \subseteq Names /\ whole \subseteq files
  BY DEF IInv, TypeOK
<1>1. CASE Tick \/ GetIndex \/ Fetch \/ ReaderDone \/ UNCHANGED vars
  <2>1. UNCHANGED <<index, state, files, whole, pc, name, idx, todo, began>>
        /\ clock <= clock'
    BY <1>0, <1>1 DEF Tick, GetIndex, Fetch, ReaderDone, vars, disk, local
  <2>2. /\ began[p] \in Nat /\ clock \in Nat /\ clock' \in Nat
        /\ pc[p] \in {"readMaintain", "sweep"} => began[p] <= clock
    BY <1>0, <1>1 DEF Lone, Tick, GetIndex, Fetch, ReaderDone, vars
  <2>3. pc'[p] \in {"readMaintain", "sweep"} => began'[p] <= clock'
    BY <2>1, <2>2
  <2>4. UNCHANGED <<Listed(index), Listed(idx[p])>>
    BY <2>1 DEF Listed
  <2> QED  BY <2>1, <2>3, <2>4 DEF Lone, Writing, Storing
<1>2. CASE CreateFile(p)
  <2>1. /\ pc[p] = "idle" /\ pc'[p] = "encode" /\ name'[p] = clock'
        /\ clock' \in Names /\ clock' = clock + 1 /\ files' = files \cup {clock'}
        /\ UNCHANGED <<index, state, whole>>
    BY <1>0, <1>2 DEF CreateFile, Goto, Names
  <2>2. clock' \notin files
    BY <1>0, <2>1 DEF IInv, InThePast, Names
  <2> QED  BY <2>1, <2>2 DEF Lone, Listed, Writing, Storing
<1>3. CASE EncodeResults(p)
  <2>1. /\ pc[p] = "encode" /\ pc'[p] = "read" /\ whole' = whole \cup {name[p]}
        /\ UNCHANGED <<index, state, files, name>>
    BY <1>0, <1>3 DEF EncodeResults, Goto, local
  <2> QED  BY <2>1 DEF Lone, Listed, Writing, Storing
<1>4. CASE ReadIndex(p, "read", "add")
  <2>1. /\ pc[p] = "read" /\ pc'[p] = "add" /\ idx'[p] = index
        /\ UNCHANGED <<index, state, files, whole, name>>
    BY <1>0, <1>4 DEF ReadIndex, Goto, disk, Lone, Writing
  <2> QED  BY <2>1 DEF Lone, Listed, Writing, Storing
<1>5. CASE AddEntry(p)
  <2>1. /\ pc[p] = "add" /\ pc'[p] = "writeStore" /\ clock' = clock + 1
        /\ idx' = [idx EXCEPT ![p][name[p]] = clock']
        /\ state' = "torn" /\ UNCHANGED <<files, whole, name>>
    BY <1>0, <1>5 DEF AddEntry, Goto
  <2>2. /\ \A n \in Names : idx'[p][n] = IF n = name[p] THEN clock' ELSE index[n]
        /\ clock' # 0 /\ name[p] \in Names
    BY <1>0, <2>1 DEF Lone, Indexes, Storing
  <2>3. Listed(idx'[p]) = files
    BY <1>0, <2>1, <2>2 DEF Lone, Listed, Storing
  <2> QED  BY <2>1, <2>3 DEF Lone, Listed, Writing, Storing
<1>6. CASE WriteIndex(p)
  <2>1. /\ pc[p] \in Writing /\ pc'[p] \in {"list", "idle"}
        /\ index' = idx[p] /\ state' = "ok"
        /\ UNCHANGED <<files, whole>>
    BY <1>0, <1>6 DEF WriteIndex, Goto, Writing
  <2> QED  BY <2>1 DEF Lone, Listed, Writing, Storing
<1>7. CASE ListDir(p)
  <2>1. /\ pc[p] = "list" /\ pc'[p] = "readMaintain" /\ todo'[p] = files
        /\ began'[p] = clock /\ UNCHANGED <<clock, index, state, files, whole>>
    BY <1>0, <1>7 DEF ListDir, Goto, disk
  <2> QED  BY <1>0, <2>1 DEF Lone, Listed, Writing, Storing
<1>8. CASE ReadIndex(p, "readMaintain", "sweep")
  <2>1. /\ pc[p] = "readMaintain" /\ pc'[p] = "sweep" /\ idx'[p] = index
        /\ UNCHANGED <<clock, index, state, files, whole, todo, began>>
    BY <1>0, <1>8 DEF ReadIndex, Goto, disk, Lone, Writing
  <2> QED  BY <2>1 DEF Lone, Listed, Writing, Storing
<1>9. CASE Sweep(p)
  <2> DEFINE n == Min(todo[p])
  <2>1. /\ pc[p] = "sweep" /\ todo[p] # {} /\ todo'[p] = todo[p] \ {n}
        /\ UNCHANGED <<clock, index, state, name, began>>
    BY <1>0, <1>9 DEF Sweep
  <2>2. n \in todo[p] /\ n \in Names
    BY <1>0, <2>1, FirstFile
  <2>3. Listed(idx[p]) = files /\ files \subseteq Listed(index) /\ whole = files
    BY <2>1 DEF Lone, Writing
  <2>4. \A m \in Names : idx[p][m] \in Nat
    BY <1>0 DEF Indexes
  <2>5. CASE ~Expired(p, n) /\ UNCHANGED <<files, whole, idx, pc>>
    <3>1. ASSUME NEW m \in files \ todo'[p] PROVE began[p] - idx[p][m] <= Expiry
      <4>1. CASE m \notin todo[p]
        BY <2>1, <4>1 DEF Lone
      <4>2. CASE m = n
        <5>1. idx[p][n] # 0 /\ ~(clock - idx[p][n] > Expiry)
          BY <2>3, <2>5, <3>1, <4>2 DEF Expired, Listed
        <5>2. began[p] <= clock /\ began[p] \in Nat /\ clock \in Nat
          BY <1>0, <2>1 DEF Lone
        <5> QED  BY <2>2, <2>4, <4>2, <5>1, <5>2
      <4> QED  BY <2>1, <3>1, <4>1, <4>2
    <3> QED  BY <2>1, <2>3, <2>5, <3>1 DEF Lone, Listed, Writing, Storing
  <2>6. CASE /\ Expired(p, n) /\ n \in files
             /\ files' = files \ {n} /\ whole' = whole \ {n}
             /\ idx' = [idx EXCEPT ![p][n] = 0] /\ UNCHANGED pc
    <3>1. \A m \in Names : idx'[p][m] = IF m = n THEN 0 ELSE idx[p][m]
      BY <1>0, <2>2, <2>6 DEF Indexes
    <3>2. Listed(idx'[p]) = files'
      BY <2>3, <2>6, <3>1 DEF Listed
    <3>3. \A m \in files' \ todo'[p] : began[p] - idx'[p][m] <= Expiry
      BY <1>0, <2>1, <2>6, <3>1 DEF Lone
    <3> QED  BY <2>1, <2>3, <2>6, <3>2, <3>3 DEF Lone, Listed, Writing, Storing
  <2>7. ~(Expired(p, n) /\ n \notin files)
    BY <2>2, <2>3 DEF Expired, Listed
  <2> QED  BY <1>9, <2>5, <2>6, <2>7 DEF Sweep
<1>10. CASE SweepEnds(p)
  <2>1. /\ pc[p] = "sweep" /\ pc'[p] = "writeMaintain" /\ state' = "torn"
        /\ UNCHANGED <<files, whole, idx>>
    BY <1>0, <1>10 DEF SweepEnds, Goto, local
  <2> QED  BY <2>1 DEF Lone, Listed, Writing, Storing
<1>11. ~Abort(p)
  BY DEF Abort, IInv, TypeOK
<1> QED
  BY <1>0, <1>1, <1>2, <1>3, <1>4, <1>5, <1>6, <1>7, <1>8, <1>9, <1>10, <1>11
     DEF Next, Process

\* Lone holds in every behaviour of the only process.
LEMMA LoneInvariant ==
    ASSUME NEW q, Procs = {q}, MaxAborts = 0 PROVE Spec => []Lone(q)
<1>1. Init => Lone(q)
  BY DEF Init, Lone, Listed, NoEntry, Writing, Storing
<1>2. IInv /\ Lone(q) /\ [Next]_vars => Lone(q)'
  BY LoneStep
<1> QED  BY <1>1, <1>2, Invariance, PTL DEF Spec

\* With one process that is never cut short, index and directory agree
\* whenever it is idle, and every file is whole.
THEOREM IndexAgrees ==
    ASSUME NEW q, Procs = {q}, MaxAborts = 0 PROVE Spec => []IndexIsDirectory
<1>1. Lone(q) => IndexIsDirectory
  BY DEF Lone, IndexIsDirectory, Writing
<1> QED  BY <1>1, LoneInvariant, PTL

\* And when its Maintain has gone through the directory, no file older than
\* CheckExpiry is left in it.
THEOREM MaintainComplete ==
    ASSUME NEW q, Procs = {q}, MaxAborts = 0 PROVE Spec => MaintainDeletesOld
<1>1. IInv /\ Lone(q) /\ [Next]_vars =>
        [\A p \in Procs : SweepEnds(p) => \A n \in files : ~Stale(p, n)]_vars
  <2> SUFFICES ASSUME IInv, Lone(q), SweepEnds(q), NEW n \in files
               PROVE  ~Stale(q, n)
    BY DEF vars
  <2>1. pc[q] = "sweep" /\ todo[q] = {}
    BY DEF SweepEnds
  <2>2. began[q] - idx[q][n] <= Expiry /\ idx[q][n] # 0
    BY <2>1 DEF Lone, Writing, Listed
  <2>3. idx[q][n] \in Nat /\ began[q] \in Nat
    BY MaxTimeAssumption DEF IInv, TypeOK, Indexes
  <2> QED  BY <2>2, <2>3, ExpiryAssumption DEF Stale
<1>2. Spec => []Lone(q)
  BY LoneInvariant
<1> QED  BY <1>1, <1>2, Invariance, PTL DEF Spec, MaintainDeletesOld

\* What a reader of the directory can get.
Offered(p) == IF pc[p] \in Storing THEN files \ {name[p]} ELSE files

\* The refinement mapping of readable.
Readable == IF state = "torn" THEN whole ELSE Listed(index) \cap whole

\* It is what is offered, at each place of the only process.
LEMMA ReadableIs ==
    ASSUME NEW p, Procs = {p}
    PROVE  IInv /\ Lone(p) => Readable = Offered(p)
<1> SUFFICES ASSUME IInv, Lone(p) PROVE Readable = Offered(p)
  OBVIOUS
<1>1. CASE state = "torn"
  <2>1. pc[p] \in Writing /\ whole = files
    BY <1>1 DEF Lone, Writing, Storing
  <2> QED  BY <1>1, <2>1 DEF Readable, Offered, Writing, Storing
<1>2. CASE state # "torn" /\ pc[p] \in Storing
  BY <1>2 DEF Readable, Lone, Offered, Writing, Storing
<1>3. CASE state # "torn" /\ pc[p] \notin Storing
  <2>1. pc[p] \notin Writing /\ whole = files /\ Readable = Listed(index) \cap whole
    BY <1>3 DEF Readable, Lone, Writing, Storing
  <2>2. pc[p] \in {"idle", "list", "readMaintain", "sweep"}
    BY <1>3, <2>1 DEF IInv, TypeOK, PCs, Writing, Storing
  <2>3. files \subseteq Listed(index)
    BY <2>2 DEF Lone
  <2> QED  BY <1>3, <2>1, <2>3 DEF Offered
<1> QED  BY <1>1, <1>2, <1>3

\* A step of the process, in terms of what a reader can get.
LEMMA StepOfPromise ==
    ASSUME NEW p, Procs = {p}, MaxAborts = 0, IInv, Lone(p), [Next]_vars
    PROVE  \/ UNCHANGED <<clock, Offered(p), written \ whole>>
           \/ clock' > clock /\ UNCHANGED <<Offered(p), written \ whole, state>>
           \/ /\ name[p] \in Names /\ name[p] \notin Offered(p) \cup (written \ whole)
              /\ Offered(p)' = Offered(p) \cup {name[p]}
              /\ clock' >= clock /\ name[p] < clock' /\ UNCHANGED (written \ whole)
              /\ state' = "torn"
           \/ \E n \in Offered(p) :
                 /\ Expiry # 0 /\ clock - n > Expiry
                 /\ Offered(p)' = Offered(p) \ {n}
                 /\ (written \ whole)' = (written \ whole) \cup {n}
                 /\ UNCHANGED <<clock, state>>
<1> USE MaxTimeAssumption, ExpiryAssumption
<1>0. /\ pc \in [Procs -> PCs] /\ pc[p] \in PCs /\ p \in Procs
      /\ files \subseteq Names /\ idx \in [Procs -> Indexes] /\ idx[p] \in Indexes
      /\ name \in [Procs -> 0..MaxTime] /\ todo \in [Procs -> SUBSET Names]
      /\ clock \in 0..MaxTime /\ whole \subseteq files
  BY DEF IInv, TypeOK
<1>1. CASE GetIndex \/ Fetch \/ ReaderDone \/ UNCHANGED vars
  BY <1>1 DEF GetIndex, Fetch, ReaderDone, vars, disk, local, Offered
<1>2. CASE Tick
  BY <1>0, <1>2 DEF Tick, disk, local, Offered
<1>3. CASE CreateFile(p)
  <2>1. /\ pc[p] = "idle" /\ pc'[p] = "encode" /\ name'[p] = clock'
        /\ clock' = clock + 1 /\ files' = files \cup {clock'}
        /\ UNCHANGED <<whole, written, state>>
    BY <1>0, <1>3 DEF CreateFile, Goto
  <2>2. clock' \notin files
    BY <1>0, <2>1 DEF IInv, InThePast, Names
  <2>3. UNCHANGED Offered(p)
    BY <2>1, <2>2 DEF Offered, Storing
  <2> QED  BY <1>0, <2>1, <2>3
<1>4. CASE EncodeResults(p)
  <2>1. /\ pc[p] = "encode" /\ pc'[p] = "read" /\ whole' = whole \cup {name[p]}
        /\ written' = written \cup {name[p]} /\ UNCHANGED <<clock, files, name>>
    BY <1>0, <1>4 DEF EncodeResults, Goto, local
  <2>2. name[p] \notin written
    BY <1>0, <2>1 DEF IInv, NewFiles
  <2>3. UNCHANGED Offered(p) /\ UNCHANGED (written \ whole)
    BY <2>1, <2>2 DEF Offered, Storing
  <2> QED  BY <2>1, <2>3
<1>5. CASE ReadIndex(p, "read", "add") \/ ReadIndex(p, "readMaintain", "sweep")
  <2>1. /\ pc[p] \in Storing <=> pc'[p] \in Storing
        /\ UNCHANGED <<clock, files, name, written, whole>>
    BY <1>0, <1>5 DEF ReadIndex, Goto, disk, Lone, Storing, Writing
  <2> QED  BY <2>1 DEF Offered
<1>6. CASE AddEntry(p)
  <2>1. /\ pc[p] = "add" /\ pc'[p] = "writeStore" /\ clock' = clock + 1
        /\ state' = "torn" /\ UNCHANGED <<files, name, written, whole>>
    BY <1>0, <1>6 DEF AddEntry, Goto
  <2>2. name[p] \in files /\ name[p] \in whole /\ name[p] \in Names
    BY <1>0, <2>1 DEF Lone, Storing
  <2>3. name[p] <= clock /\ name[p] \in Nat /\ clock \in Nat
    BY <1>0 DEF IInv, InThePast
  <2>4. Offered(p) = files \ {name[p]} /\ Offered(p)' = files
    BY <2>1 DEF Offered, Storing
  <2> QED  BY <2>1, <2>2, <2>3, <2>4
<1>7. CASE WriteIndex(p) \/ ListDir(p) \/ SweepEnds(p)
  <2>1. /\ pc[p] \notin Storing /\ pc'[p] \notin Storing
        /\ UNCHANGED <<clock, files, name, written, whole>>
    BY <1>0, <1>7 DEF WriteIndex, ListDir, SweepEnds, Goto, disk, local, Storing
  <2> QED  BY <2>1 DEF Offered
<1>8. CASE Sweep(p)
  <2> DEFINE n == Min(todo[p])
  <2>1. /\ pc[p] = "sweep" /\ todo[p] # {} /\ UNCHANGED <<clock, name, written, state>>
    BY <1>0, <1>8 DEF Sweep
  <2>2. n \in Names /\ Listed(idx[p]) = files
    BY <1>0, <2>1, FirstFile DEF Lone
  <2>3. CASE ~Expired(p, n) /\ UNCHANGED <<files, whole, idx, pc>>
    BY <2>1, <2>3 DEF Offered
  <2>4. CASE /\ Expired(p, n) /\ n \in files
             /\ files' = files \ {n} /\ whole' = whole \ {n} /\ UNCHANGED pc
    <3>1. /\ idx[p][n] > n /\ n \in written /\ idx[p][n] \in Nat
          /\ clock - idx[p][n] > Expiry /\ n \in Nat /\ clock \in Nat
      BY <1>0, <2>2, <2>4 DEF Expired, IInv, GoodMaps, GoodMap, Indexes, Names
    <3>2. Expiry # 0 /\ clock - n > Expiry
      BY <1>0, <2>1, <3>1 DEF IInv, OnlyMaintainers, Maintaining
    <3>3. Offered(p) = files /\ Offered(p)' = files \ {n}
      BY <2>1, <2>4 DEF Offered, Storing
    <3>4. (written \ whole)' = (written \ whole) \cup {n}
      BY <2>1, <2>4, <3>1
    <3> QED  BY <2>1, <2>4, <3>2, <3>3, <3>4
  <2>5. ~(Expired(p, n) /\ n \notin files)
    BY <2>2 DEF Expired, Listed
  <2> QED  BY <1>8, <2>3, <2>4, <2>5 DEF Sweep
<1>9. ~Abort(p)
  BY DEF Abort, IInv, TypeOK
<1> QED
  BY <1>1, <1>2, <1>3, <1>4, <1>5, <1>6, <1>7, <1>8, <1>9 DEF Next, Process

\* One process that is never cut short keeps the promise of CheckFiles: a
\* reader gets an error while the index is written anew, and afterwards finds
\* everything it could get before, the new result, and nothing expired.
THEOREM Implementation ==
    ASSUME NEW q, Procs = {q}, MaxAborts = 0 PROVE Spec => KeepsPromise
<1>1. IInv /\ Lone(q) => Readable = Offered(q)
  BY ReadableIs
<1>2. (IInv /\ Lone(q) => Readable = Offered(q))'
  BY <1>1, PTL
<1>3. Init => Promise!Init
  BY DEF Init, Promise!Init
<1>4. IInv /\ IInv' /\ Lone(q) /\ Lone(q)' /\ [Next]_vars => [Promise!Next]_(Promise!vars)
  <2> SUFFICES ASSUME IInv, IInv', Lone(q), Lone(q)', [Next]_vars
               PROVE  [Promise!Next]_(Promise!vars)
    OBVIOUS
  <2> DEFINE R == IF state = "torn" THEN whole ELSE Listed(index) \cap whole
             G == written \ whole
             A == state # "torn"
  <2>1. R = Offered(q) /\ R' = Offered(q)'
    BY <1>1, <1>2 DEF Readable
  <2>2. \/ UNCHANGED <<clock, R, G>>
        \/ clock' > clock /\ UNCHANGED <<R, G, A>>
        \/ /\ name[q] \in Names /\ name[q] \notin R \cup G
           /\ R' = R \cup {name[q]}
           /\ clock' >= clock /\ name[q] < clock' /\ UNCHANGED G /\ A' = FALSE
        \/ \E n \in R :
              /\ Expiry # 0 /\ clock - n > Expiry
              /\ R' = R \ {n} /\ G' = G \cup {n} /\ UNCHANGED <<clock, A>>
    BY <2>1, StepOfPromise
  <2>3. ASSUME NEW n \in R, Expiry # 0, clock - n > Expiry,
               R' = R \ {n}, G' = G \cup {n}, UNCHANGED <<clock, A>>
        PROVE  \E old \in SUBSET R : Promise!Expire(old)
    <3>1. {n} \in SUBSET R /\ Promise!Expire({n})
      BY <2>3 DEF Promise!Expire
    <3> QED  BY <3>1
  <2>4. UNCHANGED <<clock, R, G>> => UNCHANGED A \/ Promise!PauseOrResume
    BY DEF Promise!PauseOrResume
  <2> QED  BY <2>2, <2>3, <2>4 DEF Promise!Next, Promise!vars, Promise!Elapse, Promise!Publish
<1>5. Spec => []Lone(q)
  BY LoneInvariant
<1> QED  BY <1>3, <1>4, <1>5, Invariance, PTL DEF Spec, KeepsPromise, Promise!Spec
=============================================================================
