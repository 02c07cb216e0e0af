------------------------- MODULE SqlStorage_proofs --------------------------
(***************************************************************************)
(* Proofs about SqlStorage for any set of processes, any expiry, and any   *)
(* number of faults: what the table keeps of CheckFiles' promise, and what *)
(* a reader with an old or incomplete index can count on.                  *)
(***************************************************************************)
EXTENDS SqlStorage, TLAPS

\* A row is stamped later than its name, a deleted one had expired, and
\* nothing is still to come.
Dated ==
    /\ \A n \in Rows : n < timestamp[n]
    /\ \A n \in Names : timestamp[n] <= clock
    /\ \A n \in deleted : Expiry # 0 /\ clock - n > Expiry

\* The name of a row about to be inserted is new, and nobody else's.
NewNames ==
    /\ \A p \in Procs : pc[p] = "insert" =>
          name[p] \in Names \ (Rows \cup deleted) /\ name[p] <= clock
    /\ \A p, q \in Procs :
          p # q /\ pc[p] = "insert" /\ pc[q] = "insert" => name[p] # name[q]

OnlyMaintainers ==
    \A p \in Procs : pc[p] \in {"maintain", "delete"} => Expiry # 0

\* The reader knows rows that exist or have been deleted.
ReaderKnows ==
    /\ listed \subseteq Rows \cup deleted
    /\ got = "missing" => reading \in deleted

IInv == TypeOK /\ Dated /\ NewNames /\ OnlyMaintainers /\ ReaderKnows

-----------------------------------------------------------------------------
LEMMA InitInvariant == Init => IInv
<1> SUFFICES ASSUME Init PROVE IInv
  OBVIOUS
<1> USE BoundsAssumption DEF Init, Names, Rows
<1>1. TypeOK
  BY DEF TypeOK, PCs
<1>2. Dated /\ NewNames /\ OnlyMaintainers /\ ReaderKnows
  BY <1>1 DEF Dated, NewNames, OnlyMaintainers, ReaderKnows, TypeOK
<1> QED  BY <1>1, <1>2 DEF IInv

LEMMA TickInvariant == ASSUME IInv, Tick PROVE IInv'
<1> USE BoundsAssumption DEF IInv, Tick, database, reader, Rows
<1>1. TypeOK'
  BY DEF TypeOK
<1>2. Dated' /\ NewNames'
  BY DEF Dated, NewNames, TypeOK, Names
<1>3. OnlyMaintainers' /\ ReaderKnows'
  BY DEF OnlyMaintainers, ReaderKnows
<1> QED  BY <1>1, <1>2, <1>3

LEMMA NameRowInvariant ==
    ASSUME IInv, NEW p \in Procs, NameRow(p) PROVE IInv'
<1> USE BoundsAssumption DEF IInv, NameRow, Connect, reader, Goto
<1>1. clock' \in Names /\ clock' = clock + 1
  BY DEF TypeOK, Names
<1>2. TypeOK'
  BY <1>1 DEF TypeOK, Names, PCs, Rows
<1>3. Dated'
  BY DEF Dated, Rows, TypeOK, Names
<1>4. clock' \notin Rows \cup deleted
  BY <1>1 DEF Dated, Rows, TypeOK, Names
<1>5. Rows' = Rows /\ \A q \in Procs \ {p} : pc'[q] = pc[q] /\ name'[q] = name[q]
  BY DEF Rows, TypeOK
<1>6. name'[p] = clock' /\ \A q \in Procs : pc[q] = "insert" => name[q] < clock'
  BY <1>1 DEF NewNames, TypeOK, Names
<1>7. NewNames'
  <2>1. ASSUME NEW q \in Procs, pc'[q] = "insert"
        PROVE  name'[q] \in Names \ (Rows \cup deleted) /\ name'[q] <= clock'
    BY <1>1, <1>4, <1>5, <1>6, <2>1 DEF NewNames, TypeOK, Names
  <2>2. ASSUME NEW q \in Procs, NEW r \in Procs, q # r,
               pc'[q] = "insert", pc'[r] = "insert"
        PROVE  name'[q] # name'[r]
    <3>1. CASE q = p
      <4>1. pc[r] = "insert" /\ name'[r] = name[r] /\ name[r] < clock'
        BY <1>5, <1>6, <2>2, <3>1
      <4> QED  BY <1>1, <1>6, <3>1, <4>1 DEF TypeOK, Names
    <3>2. CASE r = p
      <4>1. pc[q] = "insert" /\ name'[q] = name[q] /\ name[q] < clock'
        BY <1>5, <1>6, <2>2, <3>2
      <4> QED  BY <1>1, <1>6, <3>2, <4>1 DEF TypeOK, Names
    <3>3. CASE q # p /\ r # p
      BY <1>5, <2>2, <3>3 DEF NewNames
    <3> QED  BY <3>1, <3>2, <3>3
  <2> QED  BY <1>5, <2>1, <2>2 DEF NewNames
<1>8. OnlyMaintainers' /\ ReaderKnows'
  BY <1>5 DEF OnlyMaintainers, ReaderKnows, TypeOK
<1> QED  BY <1>2, <1>3, <1>7, <1>8

LEMMA InsertInvariant ==
    ASSUME IInv, NEW p \in Procs, Insert(p) PROVE IInv'
<1> USE BoundsAssumption DEF IInv, Insert, AfterStore, reader, Goto
<1>1. name[p] \in Names /\ clock' \in 1..MaxTime /\ clock' = clock + 1
  BY DEF NewNames, TypeOK
<1>2. TypeOK'
  BY <1>1 DEF TypeOK, PCs
<1>3. Rows' = Rows \cup {name[p]}
  BY <1>1 DEF Rows, TypeOK
<1>4. Dated'
  <2>1. \A n \in Names : timestamp'[n] = IF n = name[p] THEN clock + 1 ELSE timestamp[n]
    BY <1>1 DEF TypeOK
  <2>2. name[p] <= clock
    BY DEF NewNames
  <2>3. \A n \in Rows' : n < timestamp'[n]
    BY <1>1, <1>3, <2>1, <2>2 DEF Dated, Rows, TypeOK, Names
  <2>4. \A n \in Names : timestamp'[n] <= clock'
    BY <1>1, <2>1 DEF Dated, TypeOK
  <2>5. \A n \in deleted' : Expiry # 0 /\ clock' - n > Expiry
    BY <1>1 DEF Dated, TypeOK, Names
  <2> QED  BY <2>3, <2>4, <2>5 DEF Dated
<1>5. /\ pc' \in [Procs -> PCs] /\ pc'[p] \in {"idle", "maintain"}
      /\ pc'[p] = "maintain" => Expiry # 0
      /\ \A q \in Procs \ {p} : pc'[q] = pc[q]
  BY DEF TypeOK, PCs
<1>6. NewNames'
  <2>1. \A q \in Procs : pc'[q] = "insert" => q # p /\ pc[q] = "insert"
    BY <1>5
  <2>2. \A q \in Procs : pc'[q] = "insert" => name[q] # name[p]
    BY <2>1 DEF NewNames
  <2>3. \A q \in Procs : pc'[q] = "insert" => name[q] <= clock'
    BY <1>1, <2>1 DEF NewNames, TypeOK, Names
  <2> QED  BY <1>3, <2>1, <2>2, <2>3 DEF NewNames
<1>7. OnlyMaintainers' /\ ReaderKnows'
  BY <1>3, <1>5 DEF OnlyMaintainers, ReaderKnows
<1> QED  BY <1>2, <1>4, <1>6, <1>7

LEMMA CutoffInvariant ==
    ASSUME IInv, NEW p \in Procs, Cutoff(p) PROVE IInv'
<1> USE BoundsAssumption DEF IInv, Cutoff, Connect, reader, Goto
<1>1. TypeOK'
  BY DEF TypeOK, PCs, Rows
<1>2. Dated' /\ NewNames'
  BY DEF Dated, NewNames, Rows, TypeOK, Names
<1>3. OnlyMaintainers' /\ ReaderKnows'
  BY DEF OnlyMaintainers, ReaderKnows, Rows, TypeOK
<1> QED  BY <1>1, <1>2, <1>3

LEMMA DeleteInvariant ==
    ASSUME IInv, NEW p \in Procs, Delete(p) PROVE IInv'
<1> USE BoundsAssumption DEF IInv, reader, Goto
<1> DEFINE old == {n \in Rows : timestamp[n] < cutoff[p]}
<1>1. /\ pc[p] = "delete" /\ table
      /\ timestamp' = [n \in Names |-> IF n \in old THEN 0 ELSE timestamp[n]]
      /\ deleted' = deleted \cup old
      /\ pc' = [pc EXCEPT ![p] = "idle"]
      /\ UNCHANGED <<clock, create, table, name, cutoff, listed, reading, got, faults>>
  BY DEF Delete
<1>2. old \subseteq Rows /\ Rows \subseteq Names
  BY DEF Rows
<1>3. TypeOK'
  BY <1>1, <1>2 DEF TypeOK, PCs, Rows
<1>4. Rows' = Rows \ old
  BY <1>1 DEF Rows, TypeOK
<1>5. Expiry # 0 /\ \A n \in old : clock - n > Expiry
  <2>1. Expiry # 0
    BY <1>1 DEF OnlyMaintainers
  <2>2. cutoff[p] \in Int /\ cutoff[p] <= clock - Expiry /\ clock \in Int
    BY <1>1 DEF TypeOK
  <2>3. ASSUME NEW n \in old PROVE clock - n > Expiry
    <3>1. n < timestamp[n] /\ timestamp[n] < cutoff[p]
      BY DEF Dated
    <3>2. n \in Int /\ timestamp[n] \in Int
      BY <1>2 DEF TypeOK, Names
    <3> QED  BY <2>2, <3>1, <3>2
  <2> QED  BY <2>1, <2>3
<1>6. Dated'
  <2>1. \A n \in Names : timestamp'[n] = IF n \in old THEN 0 ELSE timestamp[n]
    BY <1>1
  <2>2. \A n \in Rows' : n < timestamp'[n]
    BY <1>2, <1>4, <2>1 DEF Dated
  <2>3. \A n \in Names : timestamp'[n] <= clock'
    BY <1>1, <2>1 DEF Dated, TypeOK
  <2>4. \A n \in deleted' : Expiry # 0 /\ clock' - n > Expiry
    BY <1>1, <1>5 DEF Dated
  <2> QED  BY <2>2, <2>3, <2>4 DEF Dated
<1>7. NewNames'
  BY <1>1, <1>2, <1>4 DEF NewNames, TypeOK
<1>8. OnlyMaintainers' /\ ReaderKnows'
  BY <1>1, <1>4 DEF OnlyMaintainers, ReaderKnows, TypeOK
<1> QED  BY <1>3, <1>6, <1>7, <1>8

LEMMA GivesUpInvariant ==
    ASSUME IInv, NEW p \in Procs, NoTable(p) \/ Fault(p) PROVE IInv'
<1> USE BoundsAssumption DEF IInv, NoTable, Fault, database, reader, Goto
<1>1. TypeOK'
  BY DEF TypeOK, PCs, Rows
<1>2. Dated' /\ NewNames' /\ OnlyMaintainers' /\ ReaderKnows'
  BY DEF Dated, NewNames, OnlyMaintainers, ReaderKnows, Rows, TypeOK
<1> QED  BY <1>1, <1>2

LEMMA ReaderInvariant == ASSUME IInv, GetIndex \/ Fetch PROVE IInv'
<1> USE BoundsAssumption DEF IInv
<1>1. TypeOK'
  <2>1. create' \in BOOLEAN /\ table' \in BOOLEAN /\ (table => table')
    BY Zenon DEF GetIndex, Fetch, Connect, TypeOK
  <2>2. Rows' = Rows /\ UNCHANGED <<clock, timestamp, deleted, pc, name, cutoff>>
    BY DEF GetIndex, Fetch, Rows
  <2>3. listed' \subseteq Names /\ reading' \in 0..MaxTime
    <3>1. Rows \subseteq Names /\ listed \subseteq Names /\ Names \subseteq 0..MaxTime
      BY DEF TypeOK, Rows, Names
    <3>2. 0 \in 0..MaxTime
      OBVIOUS
    <3>3. CASE GetIndex
      BY <3>1, <3>2, <3>3 DEF GetIndex
    <3>4. CASE Fetch
      BY <3>1, <3>4 DEF Fetch
    <3> QED  BY <3>3, <3>4
  <2>4. got' \in {"nothing", "results", "missing"} /\ faults' \in 0..MaxFaults
    BY DEF GetIndex, Fetch, TypeOK
  <2> QED  BY <2>1, <2>2, <2>3, <2>4 DEF TypeOK
<1> USE DEF GetIndex, Fetch, Connect
<1>2. UNCHANGED <<clock, timestamp, deleted, pc, name, Rows>>
  BY DEF Rows
<1>3. Dated' /\ NewNames' /\ OnlyMaintainers'
  BY <1>2 DEF Dated, NewNames, OnlyMaintainers
<1>4. ReaderKnows'
  BY DEF ReaderKnows, Rows
<1> QED  BY <1>1, <1>3, <1>4

LEMMA NextInvariant == IInv /\ [Next]_vars => IInv'
<1> SUFFICES ASSUME IInv, [Next]_vars PROVE IInv'
  OBVIOUS
<1>1. CASE UNCHANGED vars
  BY <1>1 DEF IInv, vars, database, reader, TypeOK, Dated, NewNames,
     OnlyMaintainers, ReaderKnows, Rows
<1>2. ASSUME NEW p \in Procs, Process(p) PROVE IInv'
  BY <1>2, NameRowInvariant, InsertInvariant, CutoffInvariant,
     DeleteInvariant, GivesUpInvariant DEF Process
<1> QED  BY <1>1, <1>2, TickInvariant, ReaderInvariant DEF Next

\* IInv holds in every behaviour of the processes that share the table.
THEOREM Invariance == Spec => []IInv
<1> QED  BY InitInvariant, NextInvariant, PTL DEF Spec

-----------------------------------------------------------------------------
\* Every variable keeps its type, and a DELETE reaches only expired rows.
THEOREM TypeCorrect == Spec => []TypeOK
<1>1. IInv => TypeOK
  BY DEF IInv
<1> QED  BY <1>1, Invariance, PTL

\* A reader with an index of whatever age misses only expired checks.
THEOREM ReaderCorrect == Spec => []ReaderFindsStored
<1>1. IInv => ReaderFindsStored
  BY DEF IInv, ReaderKnows, Dated, ReaderFindsStored
<1> QED  BY <1>1, Invariance, PTL

LEMMA StartsEmpty == Init => Promise!Init
BY BoundsAssumption DEF Init, Promise!Init, Rows

LEMMA StepKeepsPromise ==
    IInv /\ [Next]_vars => [Promise!Next]_(Promise!vars)
<1> SUFFICES ASSUME IInv, [Next]_vars
             PROVE  Promise!Next \/ UNCHANGED Promise!vars
  OBVIOUS
<1> USE BoundsAssumption DEF Promise!vars, Promise!Next, Promise!Elapse
<1>1. CASE UNCHANGED vars
  BY <1>1 DEF vars, database, Rows
<1>2. CASE Tick
  BY <1>2 DEF Tick, database, Rows, IInv, TypeOK
<1>3. ASSUME NEW p \in Procs, NameRow(p) \/ Cutoff(p) PROVE Promise!Elapse
  BY <1>3 DEF NameRow, Cutoff, Rows, IInv, TypeOK
<1>4. ASSUME NEW p \in Procs, Insert(p) PROVE Promise!Publish(name[p]) /\ name[p] \in Names
  <2>1. name[p] \in Names /\ name[p] <= clock /\ clock' = clock + 1
    BY <1>4 DEF Insert, IInv, NewNames
  <2>2. Rows' = Rows \cup {name[p]}
    BY <1>4, <2>1 DEF Insert, Rows, IInv, TypeOK, Names
  <2>3. name[p] \notin Rows \cup deleted /\ UNCHANGED deleted
    BY <1>4 DEF Insert, IInv, NewNames
  <2> QED  BY <2>1, <2>2, <2>3 DEF Promise!Publish, IInv, TypeOK, Names
<1>5. ASSUME NEW p \in Procs, NoTable(p) \/ Fault(p) PROVE UNCHANGED Promise!vars
  BY <1>5 DEF NoTable, Fault, database, Rows
<1>6. ASSUME NEW p \in Procs, Delete(p)
      PROVE  \E old \in SUBSET Rows : Promise!Expire(old)
  <2> DEFINE old == {n \in Rows : timestamp[n] < cutoff[p]}
  <2>1. IInv'
    BY <1>6, DeleteInvariant
  <2>2. Rows' = Rows \ old /\ deleted' = deleted \cup old /\ UNCHANGED clock
    BY <1>6 DEF Delete, Rows
  <2>3. \A n \in old : clock - n > Expiry
    BY <2>1, <2>2 DEF IInv, Dated
  <2>4. Expiry # 0
    BY <1>6 DEF Delete, IInv, OnlyMaintainers
  <2> HIDE DEF old
  <2>5. Promise!Expire(old)
    BY <2>2, <2>3, <2>4 DEF Promise!Expire
  <2>6. old \subseteq Rows
    BY DEF old
  <2> QED  BY <2>5, <2>6
<1>7. CASE GetIndex \/ Fetch
  BY <1>7 DEF GetIndex, Fetch, Rows
<1> QED
  BY <1>1, <1>2, <1>3, <1>4, <1>5, <1>6, <1>7 DEF Next, Process

\* The table implements the abstract store of check files: a check becomes
\* readable once, and only an expired one is ever deleted, for good.
THEOREM Implementation == Spec => KeepsPromise
<1> QED
  BY StartsEmpty, StepKeepsPromise, Invariance, PTL
     DEF Spec, KeepsPromise, Promise!Spec
=============================================================================
