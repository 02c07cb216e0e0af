------------------------ MODULE GithubStorage_proofs ------------------------
(***************************************************************************)
(* Proofs about GithubStorage for any set of processes, any expiry, with   *)
(* or without a Dir, and any number of failing calls and deaths.           *)
(***************************************************************************)
EXTENDS GithubStorage, TLAPS

Busy(p) == pc[p] \in {"read", "add"}

\* An index is made of names that were given, with stamps not before them.
Dated(map) == \A n \in Names : map[n] # 0 => n <= map[n] /\ map[n] <= clock

AllDated ==
    /\ Dated(index)
    /\ \A p \in Procs : Dated(idx[p]) /\ Dated(sha[p].map)
    /\ \A n \in files : n <= clock

\* The name of a Store under way is its own, and in nobody's index.
FreshNames ==
    /\ \A p \in Procs : Busy(p) =>
          /\ name[p] \in Names /\ name[p] <= clock /\ index[name[p]] = 0
          /\ \A q \in Procs : idx[q][name[p]] = 0 /\ sha[q].map[name[p]] = 0
    /\ \A p, q \in Procs : p # q /\ Busy(p) /\ Busy(q) => name[p] # name[q]

\* What Maintain has taken out of the index it read are deleted files.
Pruned ==
    \A p \in Procs :
       /\ pc[p] = "add" => idx[p] = sha[p].map
       /\ pc[p] = "tree" => idx[p] = sha[p].map
       /\ pc[p] = "sweep" => \A n \in Names :
             \/ idx[p][n] = sha[p].map[n]
             \/ idx[p][n] = 0 /\ n \notin files /\ n <= clock
       /\ pc[p] \in {"readMaintain", "tree", "sweep"} => Expiry # 0

IInv == TypeOK /\ AllDated /\ FreshNames /\ Pruned

-----------------------------------------------------------------------------
(* The clock only moves on, so that what is dated stays dated. *)

LEMMA StillDated ==
    ASSUME TypeOK, NEW map \in Indexes, Dated(map), clock' \in Nat, clock <= clock'
    PROVE  \A n \in Names : map[n] # 0 => n <= map[n] /\ map[n] <= clock'
BY BoundsAssumption DEF TypeOK, Dated, Indexes, Names

LEMMA AllStillDated ==
    ASSUME TypeOK, AllDated, clock' \in Nat, clock <= clock',
           UNCHANGED <<index, idx, sha>>, \A n \in files' : n <= clock'
    PROVE  AllDated'
<1>1. Dated(index)'
  BY StillDated DEF AllDated, TypeOK, Dated
<1>2. ASSUME NEW q \in Procs PROVE Dated(idx[q])' /\ Dated(sha[q].map)'
  BY StillDated DEF AllDated, TypeOK, Dated, SHAs
<1> QED  BY <1>1, <1>2 DEF AllDated

LEMMA InitInvariant == Init => IInv
<1> SUFFICES ASSUME Init PROVE IInv
  OBVIOUS
<1> USE BoundsAssumption DEF Init, Names, NoEntry
<1>1. TypeOK
  <2>1. NoEntry \in Indexes /\ index = NoEntry
    BY DEF Indexes
  <2>2. exists \in BOOLEAN /\ failed \in BOOLEAN
    BY Zenon
  <2>3. sha \in [Procs -> SHAs]
    BY <2>1 DEF SHAs
  <2>4. /\ clock \in 0..MaxTime /\ files \subseteq Names /\ name \in [Procs -> 0..MaxTime]
        /\ pc \in [Procs -> PCs] /\ todo \in [Procs -> SUBSET Names]
        /\ faults \in 0..MaxFaults /\ idx \in [Procs -> Indexes]
    BY <2>1 DEF PCs
  <2> HIDE DEF Init, Names, NoEntry
  <2> QED  BY <2>1, <2>2, <2>3, <2>4, Zenon DEF TypeOK
<1>2. AllDated /\ FreshNames /\ Pruned
  BY DEF AllDated, Dated, FreshNames, Busy, Pruned
<1> QED  BY <1>1, <1>2 DEF IInv

LEMMA TickInvariant == ASSUME IInv, Tick PROVE IInv'
<1> USE BoundsAssumption DEF IInv, Tick, branch, local
<1>1. TypeOK'
  BY DEF TypeOK
<1>2. AllDated'
  <2>1. clock' \in Nat /\ clock <= clock' /\ \A n \in files' : n <= clock'
    BY DEF AllDated, TypeOK, Names
  <2> QED  BY <2>1, AllStillDated
<1>3. FreshNames'
  BY DEF FreshNames, Busy, TypeOK, Names
<1>4. Pruned'
  BY DEF Pruned, TypeOK, Names
<1> QED  BY <1>1, <1>2, <1>3, <1>4

LEMMA CreateFileInvariant ==
    ASSUME IInv, NEW p \in Procs, CreateFile(p) PROVE IInv'
<1> USE BoundsAssumption DEF IInv, CreateFile, Goto
<1>1. clock' \in Names /\ clock' = clock + 1
  BY DEF TypeOK, Names
<1>2. TypeOK'
  BY <1>1 DEF TypeOK, PCs, Names
<1>3. AllDated'
  <2>1. clock' \in Nat /\ clock <= clock' /\ \A n \in files' : n <= clock'
    BY <1>1 DEF AllDated, TypeOK, Names
  <2> QED  BY <2>1, AllStillDated
<1>4. /\ index[clock'] = 0
      /\ \A q \in Procs : idx[q][clock'] = 0 /\ sha[q].map[clock'] = 0
  <2>1. ASSUME NEW map \in Indexes, Dated(map) PROVE map[clock'] = 0
    BY <1>1, <2>1 DEF Dated, Indexes, TypeOK
  <2> QED  BY <2>1 DEF AllDated, TypeOK, SHAs
<1>5. /\ pc'[p] = "read" /\ name'[p] = clock'
      /\ \A q \in Procs \ {p} : pc'[q] = pc[q] /\ name'[q] = name[q]
  BY DEF TypeOK
<1>6. FreshNames'
  <2>1. \A q \in Procs \ {p} : Busy(q)' => Busy(q) /\ name'[q] = name[q] /\ name[q] < clock'
    BY <1>1, <1>5 DEF Busy, FreshNames, TypeOK, Names
  <2>2. ASSUME NEW q \in Procs, Busy(q)'
        PROVE  /\ name'[q] \in Names /\ name'[q] <= clock' /\ index'[name'[q]] = 0
               /\ \A r \in Procs : idx'[r][name'[q]] = 0 /\ sha'[r].map[name'[q]] = 0
    <3>1. CASE q = p
      BY <1>1, <1>4, <1>5, <3>1 DEF Names
    <3>2. CASE q # p
      BY <1>1, <2>1, <2>2, <3>2 DEF FreshNames, TypeOK, Names
    <3> QED  BY <3>1, <3>2
  <2>3. ASSUME NEW q \in Procs, NEW r \in Procs, q # r, Busy(q)', Busy(r)'
        PROVE  name'[q] # name'[r]
    <3>1. CASE q = p
      BY <1>1, <1>5, <2>1, <2>3, <3>1 DEF FreshNames, Names
    <3>2. CASE r = p
      BY <1>1, <1>5, <2>1, <2>3, <3>2 DEF FreshNames, Names
    <3>3. CASE q # p /\ r # p
      BY <2>1, <2>3, <3>3 DEF FreshNames
    <3> QED  BY <3>1, <3>2, <3>3
  <2> QED  BY <2>2, <2>3 DEF FreshNames
<1>7. Pruned'
  <2>1. files' = files \cup {clock'}
    OBVIOUS
  <2>2. \A n \in Names : n <= clock => (n \in files' <=> n \in files) /\ n <= clock'
    BY <1>1, <2>1 DEF TypeOK, Names
  <2> QED  BY <1>5, <2>2 DEF Pruned, TypeOK
<1> QED  BY <1>2, <1>3, <1>6, <1>7

LEMMA ReadIndexInvariant ==
    ASSUME IInv, NEW p \in Procs,
           ReadIndex(p, "read", "add") \/ ReadIndex(p, "readMaintain", "tree")
    PROVE  IInv'
<1> USE DEF IInv, ReadIndex, Goto, branch
<1>1. TypeOK'
  <2>1. [exists |-> exists, map |-> index] \in SHAs
    BY DEF TypeOK, SHAs
  <2> QED  BY <2>1 DEF TypeOK, PCs
<1>2. /\ idx'[p] = index /\ sha'[p].map = index
      /\ \A q \in Procs \ {p} : idx'[q] = idx[q] /\ sha'[q] = sha[q] /\ pc'[q] = pc[q]
  BY DEF TypeOK
<1>3. AllDated'
  BY <1>2 DEF AllDated, Dated
<1>4. \A q \in Procs : Busy(q)' => Busy(q)
  BY DEF Busy, TypeOK
<1>5. FreshNames'
  BY <1>2, <1>4 DEF FreshNames
<1>6. pc'[p] \in {"add", "tree"} /\ (pc'[p] = "tree" => pc[p] = "readMaintain")
  BY DEF TypeOK
<1>7. Pruned'
  BY <1>2, <1>6 DEF Pruned
<1> QED  BY <1>1, <1>3, <1>5, <1>7

LEMMA AddEntryInvariant ==
    ASSUME IInv, NEW p \in Procs, AddEntry(p) PROVE IInv'
<1> USE BoundsAssumption DEF IInv, AddEntry
<1>1. Busy(p) /\ name[p] \in Names /\ clock' \in 1..MaxTime /\ clock' = clock + 1
  BY DEF Busy, FreshNames, TypeOK
<1>2. /\ idx'[p] \in Indexes
      /\ \A n \in Names : idx'[p][n] = IF n = name[p] THEN clock' ELSE idx[p][n]
      /\ \A q \in Procs \ {p} : idx'[q] = idx[q]
  BY <1>1 DEF TypeOK, Indexes
<1>3. /\ pc'[p] \in {"idle", "readMaintain"} /\ (pc'[p] = "readMaintain" => Expiry # 0)
      /\ pc' \in [Procs -> PCs] /\ failed' \in BOOLEAN
      /\ \A q \in Procs \ {p} : pc'[q] = pc[q]
  BY DEF CommitIndex, ReturnError, Goto, TypeOK, PCs
<1>4. \/ UNCHANGED <<index, exists>>
      \/ index' = idx'[p] /\ exists' = TRUE
  BY Zenon DEF CommitIndex
<1>5. TypeOK'
  <2>1. idx' \in [Procs -> Indexes]
    BY <1>2 DEF TypeOK
  <2>2. index' \in Indexes /\ exists' \in BOOLEAN /\ (~exists' => index' = NoEntry)
    BY <1>2, <1>4 DEF TypeOK
  <2> QED  BY <1>1, <1>3, <2>1, <2>2 DEF TypeOK
<1>6. AllDated'
  <2>1. ASSUME NEW map \in Indexes, Dated(map)
        PROVE  \A n \in Names : map[n] # 0 => n <= map[n] /\ map[n] <= clock'
    BY <1>1, <2>1 DEF Dated, Indexes, TypeOK, Names
  <2>2. \A n \in Names : idx'[p][n] # 0 => n <= idx'[p][n] /\ idx'[p][n] <= clock'
    BY <1>1, <1>2, <2>1 DEF AllDated, FreshNames, TypeOK, Names
  <2>3. \A q \in Procs : Dated(idx[q])' /\ Dated(sha[q].map)'
    BY <1>2, <2>1, <2>2 DEF AllDated, Dated, TypeOK, SHAs
  <2>4. Dated(index)'
    <3>1. CASE UNCHANGED index
      BY <2>1, <3>1 DEF AllDated, Dated, TypeOK
    <3>2. CASE index' = idx'[p]
      BY <2>2, <3>2 DEF Dated
    <3> QED  BY <1>4, <3>1, <3>2
  <2>5. \A n \in files' : n <= clock'
    <3>1. files' = files
      OBVIOUS
    <3>2. \A n \in files : n \in Nat /\ n <= clock
      <4> HIDE DEF AddEntry
      <4> QED  BY DEF AllDated, TypeOK, Names
    <3>3. clock \in Nat /\ clock' = clock + 1
      BY <1>1 DEF TypeOK
    <3> HIDE DEF AddEntry
    <3> QED  BY <3>1, <3>2, <3>3
  <2> QED  BY <2>3, <2>4, <2>5 DEF AllDated
<1>7. FreshNames'
  <2>1. ASSUME NEW q \in Procs, Busy(q)'
        PROVE  q # p /\ Busy(q) /\ name[q] # name[p] /\ name[q] \in Names /\ name'[q] = name[q]
    BY <1>1, <1>3, <2>1 DEF Busy, FreshNames
  <2>2. ASSUME NEW q \in Procs, Busy(q)'
        PROVE  index'[name[q]] = 0 /\ \A r \in Procs : idx'[r][name[q]] = 0
    <3>1. \A r \in Procs : idx'[r][name[q]] = 0
      BY <1>2, <2>1, <2>2 DEF FreshNames
    <3>2. index[name[q]] = 0
      BY <2>1, <2>2 DEF FreshNames
    <3> HIDE DEF AddEntry
    <3>3. CASE UNCHANGED <<index, exists>>
      BY <3>1, <3>2, <3>3
    <3>4. CASE index' = idx'[p]
      BY <3>1, <3>4
    <3> QED  BY <1>4, <3>3, <3>4
  <2> QED  BY <1>1, <2>1, <2>2 DEF FreshNames, TypeOK, Names
<1>8. Pruned'
  BY <1>1, <1>2, <1>3 DEF Pruned, TypeOK, Names
<1> QED  BY <1>5, <1>6, <1>7, <1>8

LEMMA GetTreeInvariant ==
    ASSUME IInv, NEW p \in Procs, GetTree(p) PROVE IInv'
<1> USE DEF IInv, GetTree, Goto, branch
<1>1. TypeOK'
  BY DEF TypeOK, PCs
<1>2. AllDated'
  BY DEF AllDated, Dated
<1>3. FreshNames'
  BY DEF FreshNames, Busy, TypeOK
<1>4. Pruned'
  BY DEF Pruned, TypeOK
<1> QED  BY <1>1, <1>2, <1>3, <1>4

LEMMA SweepInvariant ==
    ASSUME IInv, NEW p \in Procs, Sweep(p) PROVE IInv'
<1> USE DEF IInv
<1> DEFINE n == Min(todo[p])
<1>0. /\ pc[p] = "sweep" /\ todo' = [todo EXCEPT ![p] = @ \ {n}]
      /\ UNCHANGED <<clock, exists, index, name, sha, faults>>
  BY DEF Sweep
<1>1. CASE UNCHANGED <<files, idx>> /\ (UNCHANGED <<pc, failed>> \/ ReturnError(p))
  <2>1. /\ pc' \in [Procs -> PCs] /\ failed' \in BOOLEAN
        /\ \A q \in Procs : pc'[q] = pc[q] \/ pc'[q] = "idle"
    BY <1>1 DEF TypeOK, ReturnError, Goto, PCs
  <2>2. TypeOK'
    BY <1>0, <1>1, <2>1 DEF TypeOK
  <2>3. AllDated' /\ FreshNames' /\ Pruned'
    BY <1>0, <1>1, <2>1 DEF AllDated, Dated, FreshNames, Busy, Pruned
  <2> QED  BY <2>2, <2>3
<1>2. CASE /\ Expired(p, n) /\ n \in files /\ files' = files \ {n}
           /\ idx' = [idx EXCEPT ![p] = Forget(@, n)] /\ UNCHANGED <<pc, failed>>
  <2>0. n \in Names /\ n <= clock
    BY <1>2 DEF TypeOK, AllDated
  <2>1. /\ idx'[p] = Forget(idx[p], n)
        /\ \A q \in Procs \ {p} : idx'[q] = idx[q]
    BY <1>2 DEF TypeOK
  <2>2. /\ Forget(idx[p], n) \in Indexes
        /\ \A m \in Names : \/ Forget(idx[p], n)[m] = idx[p][m]
                            \/ m = n /\ Forget(idx[p], n)[m] = 0
    BY <2>0, BoundsAssumption DEF Forget, TypeOK, Indexes
  <2>3. TypeOK'
    <3>1. idx' \in [Procs -> Indexes]
      BY <1>2, <2>2 DEF TypeOK
    <3> QED  BY <1>0, <1>2, <3>1 DEF TypeOK
  <2>4. AllDated'
    BY <1>0, <1>2, <2>1, <2>2 DEF AllDated, Dated
  <2>5. FreshNames'
    BY <1>0, <1>2, <2>1, <2>2 DEF FreshNames, Busy
  <2>6. Pruned'
    <3>1. \A m \in Names : m \notin files => m \notin files'
      BY <1>2
    <3>2. n \notin files'
      BY <1>2
    <3>3. pc' = pc /\ sha' = sha /\ clock' = clock
      BY <1>0, <1>2
    <3>4. \A m \in Names : \/ idx'[p][m] = sha[p].map[m]
                           \/ idx'[p][m] = 0 /\ m \notin files' /\ m <= clock
      BY <1>0, <2>0, <2>1, <2>2, <3>1, <3>2 DEF Pruned
    <3> QED  BY <1>0, <2>1, <3>1, <3>3, <3>4 DEF Pruned
  <2> QED  BY <2>3, <2>4, <2>5, <2>6
<1> QED  BY <1>1, <1>2 DEF Sweep

LEMMA SweepEndsInvariant ==
    ASSUME IInv, NEW p \in Procs, SweepEnds(p) \/ Fault(p) PROVE IInv'
<1> USE BoundsAssumption DEF IInv, SweepEnds, Fault, local, branch
<1>1. /\ pc' \in [Procs -> PCs] /\ failed' \in BOOLEAN
      /\ \A q \in Procs : pc'[q] = pc[q] \/ pc'[q] = "idle"
  BY DEF CommitIndex, ReturnError, Goto, TypeOK, PCs
<1>2. \/ UNCHANGED <<index, exists>>
      \/ index' = idx[p] /\ exists' = TRUE
  <2>1. CASE SweepEnds(p)
    BY <2>1, Zenon DEF CommitIndex
  <2>2. CASE Fault(p)
    BY <2>2
  <2> QED  BY <2>1, <2>2
<1>3. UNCHANGED <<clock, files, name, idx, sha, todo>> /\ faults' \in 0..MaxFaults
  BY DEF TypeOK
<1>4. TypeOK'
  <2>1. index' \in Indexes /\ exists' \in BOOLEAN /\ (~exists' => index' = NoEntry)
    BY <1>2 DEF TypeOK
  <2> QED  BY <1>1, <1>3, <2>1 DEF TypeOK
<1>5. AllDated' /\ FreshNames' /\ Pruned'
  BY <1>1, <1>2, <1>3 DEF AllDated, Dated, FreshNames, Busy, Pruned
<1> QED  BY <1>4, <1>5

LEMMA NextInvariant == IInv /\ [Next]_vars => IInv'
<1> SUFFICES ASSUME IInv, [Next]_vars PROVE IInv'
  OBVIOUS
<1>1. CASE UNCHANGED vars
  BY <1>1 DEF vars, branch, local, IInv, TypeOK, AllDated, Dated, FreshNames, Busy, Pruned
<1>2. CASE Next
  BY <1>2, TickInvariant, CreateFileInvariant, ReadIndexInvariant, AddEntryInvariant,
     GetTreeInvariant, SweepInvariant, SweepEndsInvariant DEF Next, Process
<1> QED  BY <1>1, <1>2

\* IInv holds in every behaviour of the processes that share the branch.
THEOREM Invariance == Spec => []IInv
BY InitInvariant, NextInvariant, PTL DEF Spec

\* The branch and the processes' copies of it have their types, for any set
\* of processes and any number of faults.
THEOREM TypeCorrect == Spec => []TypeOK
<1>1. IInv => TypeOK
  BY DEF IInv
<1> QED  BY <1>1, Invariance, PTL

-----------------------------------------------------------------------------
\* However many processes delete, and however old the index they decide by,
\* no check file is deleted before it is older than CheckExpiry.
THEOREM DeletionSafe == Spec => DeletesOnlyExpired
<1>1. IInv /\ [Next]_vars => [\A n \in files \ files' : Expiry # 0 /\ clock - n > Expiry]_vars
  <2> SUFFICES ASSUME IInv, Next, NEW n \in files, n \notin files'
               PROVE  Expiry # 0 /\ clock - n > Expiry
    BY DEF vars
  <2>1. PICK p \in Procs : Sweep(p)
    BY DEF Next, Process, Tick, CreateFile, ReadIndex, AddEntry, GetTree, SweepEnds,
           Fault, branch
  <2>2. Expired(p, n) /\ pc[p] = "sweep"
    BY <2>1 DEF Sweep
  <2>3. n \in Names /\ idx[p] \in Indexes /\ clock \in Nat
    BY BoundsAssumption DEF IInv, TypeOK
  <2>4. idx[p][n] # 0 /\ clock - idx[p][n] > Expiry /\ n <= idx[p][n]
    BY <2>2, <2>3 DEF Expired, IInv, AllDated, Dated
  <2>5. clock - n > Expiry
    BY <2>3, <2>4, BoundsAssumption DEF Indexes, Names
  <2> QED  BY <2>2, <2>5 DEF IInv, Pruned
<1> QED  BY <1>1, Invariance, PTL DEF Spec, DeletesOnlyExpired

\* No interleaving of reads and writes loses an entry of the index: it stays,
\* stamp and all, until its file has been deleted.
THEOREM NothingLost == Spec => NoLostUpdate
<1>1. IInv /\ [Next]_vars =>
        [\A n \in Names : index[n] # 0 =>
            \/ index'[n] = index[n]
            \/ index'[n] = 0 /\ n \notin files]_vars
  <2> SUFFICES ASSUME IInv, Next, NEW n \in Names, index[n] # 0
               PROVE  \/ index'[n] = index[n]
                      \/ index'[n] = 0 /\ n \notin files
    BY DEF vars
  <2>1. CASE \E p \in Procs : AddEntry(p)
    <3>1. PICK p \in Procs : AddEntry(p)
      BY <2>1
    <3>2. Busy(p) /\ name[p] \in Names /\ index[name[p]] = 0 /\ idx[p] = sha[p].map
      BY <3>1 DEF AddEntry, IInv, FreshNames, Pruned, Busy
    <3>3. n # name[p] /\ idx'[p][n] = idx[p][n]
      BY <3>1, <3>2 DEF AddEntry, IInv, TypeOK, Indexes
    <3>4. index' = index \/ (index' = idx'[p] /\ sha[p].map = index)
      BY <3>1 DEF AddEntry, CommitIndex, Unchanged
    <3> QED  BY <3>2, <3>3, <3>4
  <2>2. CASE \E p \in Procs : SweepEnds(p)
    <3>1. PICK p \in Procs : SweepEnds(p)
      BY <2>2
    <3>2. index' = index \/ (index' = idx[p] /\ sha[p].map = index)
      BY <3>1 DEF SweepEnds, CommitIndex, Unchanged
    <3>3. pc[p] = "sweep"
      BY <3>1 DEF SweepEnds
    <3> QED  BY <3>2, <3>3 DEF IInv, Pruned
  <2>3. CASE UNCHANGED index
    BY <2>3
  <2> QED
    BY <2>1, <2>2, <2>3 DEF Next, Process, Tick, CreateFile, ReadIndex, GetTree, Sweep,
                            Fault, branch
<1> QED  BY <1>1, Invariance, PTL DEF Spec, NoLostUpdate
-----------------------------------------------------------------------------
(* Without a Dir, index and branch agree when nothing ever failed. *)

\* Maintain of p has deleted file n and not yet written that it is gone.
Deleting(p, n) == pc[p] = "sweep" /\ sha[p].map[n] # 0 /\ idx[p][n] = 0

\* A file is there because it is being added, or because it is listed and
\* nobody has deleted it since.
Accounted(n) ==
    n \in files <=> \/ \E p \in Procs : Busy(p) /\ name[p] = n
                    \/ index[n] # 0 /\ \A p \in Procs : ~Deleting(p, n)

AllAccounted == ~failed => \A n \in Names : Accounted(n)

LEMMA CreateFileAccounts ==
    ASSUME IInv, AllAccounted, NEW p \in Procs, CreateFile(p) PROVE AllAccounted'
<1> SUFFICES ASSUME ~failed', NEW n \in Names PROVE Accounted(n)'
  BY DEF AllAccounted
<1>1. Accounted(n)
  BY DEF AllAccounted, CreateFile
<1>2. /\ pc[p] = "idle" /\ pc'[p] = "read" /\ name'[p] = clock'
      /\ \A q \in Procs \ {p} : pc'[q] = pc[q] /\ name'[q] = name[q]
      /\ files' = files \cup {clock'} /\ UNCHANGED <<index, idx, sha>>
  BY DEF CreateFile, Goto, IInv, TypeOK
<1>3. \A q \in Procs : Deleting(q, n)' <=> Deleting(q, n)
  BY <1>2 DEF Deleting
<1>4. CASE n = clock'
  BY <1>2, <1>4 DEF Accounted, Busy
<1>5. CASE n # clock'
  BY <1>1, <1>2, <1>3, <1>5 DEF Accounted, Busy
<1> QED  BY <1>4, <1>5

LEMMA ReadsAccount ==
    ASSUME IInv, AllAccounted, NEW p \in Procs,
           \/ ReadIndex(p, "read", "add") \/ ReadIndex(p, "readMaintain", "tree")
           \/ GetTree(p)
    PROVE  AllAccounted'
<1> SUFFICES ASSUME ~failed', NEW n \in Names PROVE Accounted(n)'
  BY DEF AllAccounted
<1>1. Accounted(n)
  BY DEF AllAccounted, ReadIndex, GetTree
<1>2. /\ pc[p] \in {"read", "readMaintain", "tree"}
      /\ pc'[p] = (IF pc[p] = "read" THEN "add" ELSE IF pc[p] = "tree" THEN "sweep" ELSE "tree")
      /\ \A q \in Procs \ {p} : pc'[q] = pc[q] /\ idx'[q] = idx[q] /\ sha'[q] = sha[q]
      /\ pc[p] = "tree" => UNCHANGED <<idx, sha>>
      /\ UNCHANGED <<files, index, name>>
  BY DEF ReadIndex, GetTree, Goto, IInv, TypeOK, branch
<1>3. \A q \in Procs : Deleting(q, n)' <=> Deleting(q, n)
  <2>1. ~Deleting(p, n)' /\ ~Deleting(p, n)
    BY <1>2 DEF Deleting, IInv, Pruned
  <2> QED  BY <1>2, <2>1 DEF Deleting
<1>4. \A q \in Procs : Busy(q)' <=> Busy(q)
  BY <1>2 DEF Busy
<1> QED  BY <1>1, <1>2, <1>3, <1>4 DEF Accounted

LEMMA AddEntryAccounts ==
    ASSUME IInv, AllAccounted, NEW p \in Procs, AddEntry(p) PROVE AllAccounted'
<1> SUFFICES ASSUME ~failed', NEW n \in Names PROVE Accounted(n)'
  BY DEF AllAccounted
<1>1. /\ index = sha[p].map /\ index' = idx'[p] /\ pc[p] = "add" /\ failed' = failed
      /\ pc'[p] \in {"idle", "readMaintain"}
      /\ \A q \in Procs \ {p} : pc'[q] = pc[q]
  BY DEF AddEntry, CommitIndex, Unchanged, ReturnError, Goto, IInv, TypeOK
<1>2. Accounted(n)
  BY <1>1 DEF AllAccounted
<1>3. /\ clock' \in Nat \ {0} /\ idx[p] = index /\ UNCHANGED <<files, name, sha>>
      /\ Busy(p) /\ name[p] \in Names
  BY <1>1 DEF AddEntry, IInv, TypeOK, Pruned, FreshNames, Busy
<1>4. /\ idx'[p][n] = IF n = name[p] THEN clock' ELSE index[n]
      /\ \A q \in Procs \ {p} : idx'[q] = idx[q]
  BY <1>3 DEF AddEntry, IInv, TypeOK, Indexes
<1>5. \A q \in Procs : Deleting(q, n)' <=> Deleting(q, n)
  BY <1>1, <1>3, <1>4 DEF Deleting
<1>6. \A q \in Procs : Busy(q)' <=> Busy(q) /\ q # p
  BY <1>1 DEF Busy
<1>7. CASE n = name[p]
  <2>1. n \in files
    BY <1>2, <1>3, <1>7 DEF Accounted
  <2>2. \A q \in Procs : ~Deleting(q, n)
    BY <1>3, <1>7 DEF Deleting, IInv, FreshNames
  <2> QED  BY <1>1, <1>3, <1>4, <1>5, <1>7, <2>1, <2>2 DEF Accounted
<1>8. CASE n # name[p]
  BY <1>1, <1>2, <1>3, <1>4, <1>5, <1>6, <1>8 DEF Accounted
<1> QED  BY <1>7, <1>8

LEMMA SweepAccounts ==
    ASSUME DirSet = FALSE, IInv, AllAccounted, NEW p \in Procs, Sweep(p)
    PROVE  AllAccounted'
<1> SUFFICES ASSUME ~failed', NEW n \in Names PROVE Accounted(n)'
  BY DEF AllAccounted
<1> DEFINE m == Min(todo[p])
<1>1. /\ pc[p] = "sweep" /\ UNCHANGED <<index, name, sha, pc, failed>>
      /\ \/ UNCHANGED <<files, idx>>
         \/ /\ Expired(p, m) /\ m \in files /\ files' = files \ {m}
            /\ idx' = [idx EXCEPT ![p] = Forget(@, m)]
  BY DEF Sweep, ReturnError
<1>2. Accounted(n)
  BY <1>1 DEF AllAccounted
<1>3. \A q \in Procs : Busy(q)' <=> Busy(q)
  BY <1>1 DEF Busy
<1>4. CASE UNCHANGED <<files, idx>>
  BY <1>1, <1>2, <1>3, <1>4 DEF Accounted, Deleting
<1>5. CASE /\ Expired(p, m) /\ m \in files /\ files' = files \ {m}
           /\ idx' = [idx EXCEPT ![p] = Forget(@, m)]
  <2>1. m \in Names /\ idx[p][m] # 0
    BY <1>5 DEF Expired, IInv, TypeOK
  <2>2. /\ idx'[p] = [idx[p] EXCEPT ![m] = 0] /\ idx[p] \in Indexes
        /\ \A q \in Procs \ {p} : idx'[q] = idx[q]
    BY <1>5 DEF IInv, TypeOK, Forget
  <2>3. CASE n = m
    <3>1. sha[p].map[m] # 0
      BY <1>1, <2>1 DEF IInv, Pruned
    <3>2. Deleting(p, n)'
      BY <1>1, <2>1, <2>2, <2>3, <3>1 DEF Deleting, Indexes
    <3>3. \A q \in Procs : ~(Busy(q) /\ name[q] = n)
      BY <2>1, <2>3 DEF IInv, FreshNames
    <3> QED  BY <1>1, <1>3, <1>5, <2>3, <3>2, <3>3 DEF Accounted
  <2>4. CASE n # m
    <3>1. \A q \in Procs : idx'[q][n] = idx[q][n]
      BY <2>1, <2>2, <2>4 DEF Indexes
    <3>2. \A q \in Procs : Deleting(q, n)' <=> Deleting(q, n)
      BY <1>1, <3>1 DEF Deleting
    <3> QED  BY <1>1, <1>2, <1>3, <1>5, <2>4, <3>2 DEF Accounted
  <2> QED  BY <2>3, <2>4
<1> QED  BY <1>1, <1>4, <1>5

LEMMA SweepEndsAccounts ==
    ASSUME IInv, AllAccounted, NEW p \in Procs, SweepEnds(p) PROVE AllAccounted'
<1> SUFFICES ASSUME ~failed', NEW n \in Names PROVE Accounted(n)'
  BY DEF AllAccounted
<1>1. /\ index = sha[p].map /\ index' = idx[p] /\ pc[p] = "sweep" /\ failed' = failed
      /\ pc'[p] = "idle" /\ \A q \in Procs \ {p} : pc'[q] = pc[q]
      /\ UNCHANGED <<files, name, idx, sha>>
  BY DEF SweepEnds, CommitIndex, Unchanged, ReturnError, Goto, IInv, TypeOK, local
<1>2. Accounted(n)
  BY <1>1 DEF AllAccounted
<1>3. \A q \in Procs : Busy(q)' <=> Busy(q)
  BY <1>1 DEF Busy
<1>4. \A q \in Procs \ {p} : Deleting(q, n)' <=> Deleting(q, n)
  BY <1>1 DEF Deleting
<1>5. ~Deleting(p, n)'
  BY <1>1 DEF Deleting
<1>6. idx[p][n] = index[n] \/ idx[p][n] = 0
  BY <1>1 DEF IInv, Pruned
<1>7. Deleting(p, n) <=> index[n] # 0 /\ index'[n] = 0
  BY <1>1 DEF Deleting
<1> QED  BY <1>1, <1>2, <1>3, <1>4, <1>5, <1>6, <1>7 DEF Accounted

\* Without a Dir, and if no call ever failed and no two processes ever met
\* on the index, the index lists exactly the files whenever nobody is at work.
THEOREM IndexComplete == ASSUME DirSet = FALSE PROVE Spec => []ListsTheFiles
<1>1. Init => AllAccounted
  BY DEF Init, AllAccounted, Accounted, Busy, NoEntry
<1>2. IInv /\ AllAccounted /\ [Next]_vars => AllAccounted'
  <2> SUFFICES ASSUME IInv, AllAccounted, [Next]_vars PROVE AllAccounted'
    OBVIOUS
  <2>1. CASE UNCHANGED vars \/ Tick
    BY <2>1 DEF vars, branch, local, Tick, AllAccounted, Accounted, Busy, Deleting
  <2>2. CASE \E p \in Procs : Fault(p)
    BY <2>2 DEF Fault, ReturnError, AllAccounted
  <2>3. CASE \E p \in Procs : Process(p) /\ ~Fault(p)
    BY <2>3, CreateFileAccounts, ReadsAccount, AddEntryAccounts, SweepAccounts,
       SweepEndsAccounts DEF Process
  <2> QED  BY <2>1, <2>2, <2>3 DEF Next
<1>3. IInv /\ AllAccounted => ListsTheFiles
  BY DEF IInv, TypeOK, AllAccounted, Accounted, Busy, Deleting, ListsTheFiles, Listed
<1> QED  BY <1>1, <1>2, <1>3, Invariance, PTL DEF Spec
=============================================================================
