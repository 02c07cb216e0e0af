-------------------------- MODULE S3Storage_proofs --------------------------
(***************************************************************************)
(* Proofs about S3Storage for any set of processes, any page size, any     *)
(* expiry, and any number of faults: the bucket keeps the promise of       *)
(* CheckFiles, whatever the interleaving of uploads and deletions, and, if *)
(* there are no more processes than a page has objects, Maintain deletes   *)
(* everything it should (MaintainComplete).                                *)
(***************************************************************************)
EXTENDS S3Storage, FunctionTheorems, FiniteSetTheorems,
        WellFoundedInduction, TLAPS

\* An object is dated later than its name, and nothing is still to come.
Dated ==
    /\ \A n \in Bucket : n < modified[n]
    /\ \A n \in Names : modified[n] <= clock
    /\ \A n \in deleted : n <= clock

\* The key of an upload under way is new, and nobody else's.
NewKeys ==
    /\ \A p \in Procs : pc[p] = "put" =>
          name[p] \in Names \ (Bucket \cup deleted) /\ name[p] <= clock
    /\ \A p, q \in Procs :
          p # q /\ pc[p] = "put" /\ pc[q] = "put" => name[p] # name[q]

\* What is about to be deleted has expired.
Condemned ==
    \A p \in Procs :
       /\ pc[p] \in {"list", "delete"} => Expiry # 0
       /\ pc[p] = "delete" => \A n \in todo[p] : clock - n > Expiry

IInv == TypeOK /\ Dated /\ NewKeys /\ Condemned

-----------------------------------------------------------------------------
(* The greatest element of a set of names is one of them. *)

LEMMA NamesHaveMax ==
    ASSUME NEW S \in SUBSET Names, S # {}
    PROVE  Max(S) \in S
<1> DEFINE R == {e \in Nat \X Nat : e[1] < e[2]}
           T == {MaxTime - n : n \in S}
<1> USE BoundsAssumption
<1>1. IsWellFoundedOn(R, Nat)
  BY NatLessThanWellFounded DEF OpToRel
<1>2. T \subseteq Nat /\ T # {}
  <2>1. ASSUME NEW n \in S PROVE MaxTime - n \in Nat
    BY DEF Names
  <2> QED  BY <2>1
<1>3. PICK x \in T : \A y \in T : ~(<<y, x>> \in R)
  <2> HIDE DEF R, T
  <2> QED  BY <1>1, <1>2, WFMin
<1>4. PICK m \in S : x = MaxTime - m
  OBVIOUS
<1>5. \A n \in S : m >= n
  <2> TAKE n \in S
  <2>1. n \in 1..MaxTime /\ m \in 1..MaxTime
    BY DEF Names
  <2>2. MaxTime - n \in T
    OBVIOUS
  <2>3. ~(<<MaxTime - n, MaxTime - m>> \in R)
    BY <1>3, <1>4, <2>2
  <2>4. ~(MaxTime - n < MaxTime - m)
    BY <2>1, <2>3
  <2> QED  BY <2>1, <2>4
<1>6. \E k \in S : \A n \in S : k >= n
  BY <1>5
<1> QED  BY <1>6, Zenon DEF Max

LEMMA InitInvariant == Init => IInv
<1> SUFFICES ASSUME Init PROVE IInv
  OBVIOUS
<1> USE BoundsAssumption DEF Init, Names, Bucket
<1>1. TypeOK
  BY DEF TypeOK, PCs
<1>2. Dated /\ NewKeys /\ Condemned
  BY <1>1 DEF Dated, NewKeys, Condemned, TypeOK
<1> QED  BY <1>1, <1>2 DEF IInv

LEMMA TickInvariant == ASSUME IInv, Tick PROVE IInv'
<1> USE BoundsAssumption DEF IInv, Tick, walk, Bucket
<1>1. TypeOK'
  BY DEF TypeOK
<1>2. Dated' /\ NewKeys'
  BY DEF Dated, NewKeys, TypeOK, Names
<1>3. Condemned'
  BY DEF Condemned, TypeOK, Names
<1> QED  BY <1>1, <1>2, <1>3

LEMMA NameFileInvariant ==
    ASSUME IInv, NEW p \in Procs, NameFile(p) PROVE IInv'
<1> USE BoundsAssumption DEF IInv, NameFile, walk, Goto
<1>1. clock' \in Names /\ clock' = clock + 1
  BY DEF TypeOK, Names
<1>2. TypeOK'
  BY <1>1 DEF TypeOK, Names, PCs
<1>3. Dated'
  BY DEF Dated, Bucket, TypeOK, Names
<1>4. clock' \notin Bucket \cup deleted
  BY <1>1 DEF Dated, Bucket, TypeOK, Names
<1>5. Bucket' = Bucket /\ \A q \in Procs \ {p} : pc'[q] = pc[q] /\ name'[q] = name[q]
  BY DEF Bucket, TypeOK
<1>6. name'[p] = clock' /\ \A q \in Procs : pc[q] = "put" => name[q] < clock'
  BY <1>1 DEF NewKeys, TypeOK, Names
<1>7. NewKeys'
  <2>1. ASSUME NEW q \in Procs, pc'[q] = "put"
        PROVE  name'[q] \in Names \ (Bucket \cup deleted) /\ name'[q] <= clock'
    BY <1>1, <1>4, <1>5, <1>6, <2>1 DEF NewKeys, TypeOK, Names
  <2>2. ASSUME NEW q \in Procs, NEW r \in Procs, q # r, pc'[q] = "put", pc'[r] = "put"
        PROVE  name'[q] # name'[r]
    <3>1. CASE q = p
      <4>1. pc[r] = "put" /\ name'[r] = name[r] /\ name[r] < clock'
        BY <1>5, <1>6, <2>2, <3>1
      <4> QED  BY <1>1, <1>6, <3>1, <4>1 DEF TypeOK, Names
    <3>2. CASE r = p
      <4>1. pc[q] = "put" /\ name'[q] = name[q] /\ name[q] < clock'
        BY <1>5, <1>6, <2>2, <3>2
      <4> QED  BY <1>1, <1>6, <3>2, <4>1 DEF TypeOK, Names
    <3>3. CASE q # p /\ r # p
      BY <1>5, <2>2, <3>3 DEF NewKeys
    <3> QED  BY <3>1, <3>2, <3>3
  <2> QED  BY <1>5, <2>1, <2>2 DEF NewKeys
<1>8. Condemned'
  BY DEF Condemned, TypeOK, Names
<1> QED  BY <1>2, <1>3, <1>7, <1>8

LEMMA PutInvariant ==
    ASSUME IInv, NEW p \in Procs, Put(p) PROVE IInv'
<1> USE BoundsAssumption DEF IInv, Put, Goto
<1>1. name[p] \in Names /\ clock' \in 1..MaxTime /\ clock' = clock + 1
  BY DEF NewKeys, TypeOK
<1>2. TypeOK'
  BY <1>1 DEF TypeOK, PCs
<1>3. Bucket' = Bucket \cup {name[p]}
  BY <1>1 DEF Bucket, TypeOK
<1>4. Dated'
  <2>1. \A n \in Names : modified'[n] = IF n = name[p] THEN clock + 1 ELSE modified[n]
    BY <1>1 DEF TypeOK
  <2>2. name[p] <= clock
    BY DEF NewKeys
  <2>3. \A n \in Bucket' : n < modified'[n]
    BY <1>1, <1>3, <2>1, <2>2 DEF Dated, Bucket, TypeOK, Names
  <2>4. \A n \in Names : modified'[n] <= clock'
    BY <1>1, <2>1 DEF Dated, TypeOK
  <2>5. \A n \in deleted' : n <= clock'
    BY <1>1 DEF Dated, TypeOK, Names
  <2> QED  BY <2>3, <2>4, <2>5 DEF Dated
<1>5. pc' \in [Procs -> PCs] /\ pc'[p] \in {"idle", "list"}
      /\ (pc'[p] = "list" => Expiry # 0)
      /\ \A q \in Procs \ {p} : pc'[q] = pc[q]
  BY DEF TypeOK, PCs
<1>6. NewKeys'
  <2>1. \A q \in Procs : pc'[q] = "put" => q # p /\ pc[q] = "put"
    BY <1>5
  <2>2. \A q \in Procs : pc'[q] = "put" => name[q] # name[p]
    BY <2>1 DEF NewKeys
  <2>3. \A q \in Procs : pc'[q] = "put" => name[q] <= clock'
    BY <1>1, <2>1, SMTT(30) DEF NewKeys, TypeOK, Names
  <2> QED  BY <1>3, <2>1, <2>2, <2>3 DEF NewKeys
<1>7. Condemned'
  <2>1. \A q \in Procs : pc'[q] = "delete" => q # p /\ pc[q] = "delete"
    BY <1>5
  <2>2. ASSUME NEW q \in Procs, pc'[q] = "delete", NEW n \in todo[q]
        PROVE  clock' - n > Expiry
    BY <1>1, <2>1, <2>2, SMTT(30) DEF Condemned, TypeOK, Names
  <2> QED  BY <1>5, <2>2 DEF Condemned
<1> QED  BY <1>2, <1>4, <1>6, <1>7

LEMMA ListInvariant ==
    ASSUME IInv, NEW p \in Procs, List(p) PROVE IInv'
<1> USE BoundsAssumption DEF IInv, List, Goto
<1> DEFINE page == Page(marker[p])
<1>1. ExpiredOf(page) \in SUBSET page /\ page \in SUBSET Bucket
  BY DEF ExpiredOf, Page, After
<1>2. more' \in [Procs -> 0..MaxTime]
  <2>1. CASE ExpiredOf(page) = {}
    BY <2>1 DEF TypeOK
  <2>2. CASE ExpiredOf(page) # {}
    <3>1. page # {} /\ page \in SUBSET Names
      BY <1>1, <2>2 DEF Bucket
    <3>2. Max(page) \in 0..MaxTime
      BY <3>1, NamesHaveMax DEF Names
    <3>3. more' = [more EXCEPT ![p] = IF Truncated(marker[p]) THEN Max(page) ELSE 0]
      BY <2>2
    <3>4. more \in [Procs -> 0..MaxTime] /\ 0 \in 0..MaxTime
      BY DEF TypeOK
    <3> HIDE DEF page
    <3> QED  BY <3>2, <3>3, <3>4
  <2> QED  BY <2>1, <2>2
<1>3. TypeOK'
  BY <1>1, <1>2 DEF TypeOK, PCs, Bucket
<1>4. Dated' /\ NewKeys'
  BY DEF Dated, NewKeys, Bucket, TypeOK
<1>5. \A n \in ExpiredOf(page) : clock - n > Expiry
  <2> TAKE n \in ExpiredOf(page)
  <2>1. n \in Bucket /\ clock - modified[n] > Expiry
    BY <1>1 DEF ExpiredOf
  <2> QED  BY <2>1 DEF Dated, Bucket, TypeOK, Names
<1>6. Condemned'
  BY <1>5 DEF Condemned, TypeOK
<1> QED  BY <1>3, <1>4, <1>6

LEMMA DeleteAllInvariant ==
    ASSUME IInv, NEW p \in Procs, DeleteAll(p) PROVE IInv'
<1> USE BoundsAssumption DEF IInv, Goto
<1>1. PICK failing \in SUBSET (todo[p] \cap Bucket) :
         /\ failing # {} => faults < MaxFaults
         /\ faults' = IF failing = {} THEN faults ELSE faults + 1
         /\ modified' = [n \in Names |->
               IF n \in (todo[p] \cap Bucket) \ failing THEN 0 ELSE modified[n]]
         /\ deleted' = deleted \cup ((todo[p] \cap Bucket) \ failing)
         /\ kept' = kept \cup failing
  BY DEF DeleteAll
<1> DEFINE gone == (todo[p] \cap Bucket) \ failing
<1>2. gone \subseteq Bucket /\ Bucket \subseteq Names /\ failing \subseteq Names
  BY DEF Bucket
<1>3. /\ pc[p] = "delete" /\ pc' \in [Procs -> PCs]
      /\ \A q \in Procs : pc'[q] \in {"put", "delete"} => pc'[q] = pc[q] /\ q # p
      /\ \A q \in Procs : pc'[q] = "list" => pc[q] = "list" \/ q = p
      /\ marker' \in [Procs -> 0..MaxTime]
      /\ UNCHANGED <<clock, name, todo, more, began>>
  BY DEF DeleteAll, NextPage, TypeOK, PCs
<1>4. modified' \in [Names -> 0..MaxTime] /\ deleted' \subseteq Names
      /\ kept' \subseteq Names /\ faults' \in 0..MaxFaults
  BY <1>1, <1>2 DEF TypeOK
<1>5. TypeOK'
  BY <1>3, <1>4 DEF TypeOK
<1>6. Bucket' = Bucket \ gone /\ deleted' = deleted \cup gone
  BY <1>1 DEF Bucket, TypeOK
<1>7. Dated'
  <2>1. \A n \in Names : modified'[n] = IF n \in gone THEN 0 ELSE modified[n]
    BY <1>1
  <2>2. \A n \in Bucket' : n < modified'[n]
    BY <1>2, <1>6, <2>1 DEF Dated
  <2>3. \A n \in Names : modified'[n] <= clock'
    BY <1>3, <2>1 DEF Dated, TypeOK
  <2>4. \A n \in gone : n <= clock
    BY <1>2 DEF Dated, TypeOK, Bucket, Names
  <2>5. \A n \in deleted' : n <= clock'
    BY <1>3, <1>6, <2>4 DEF Dated
  <2> QED  BY <2>2, <2>3, <2>5 DEF Dated
<1>8. NewKeys'
  BY <1>2, <1>3, <1>6 DEF NewKeys
<1>9. Condemned'
  BY <1>3 DEF Condemned
<1> QED  BY <1>5, <1>7, <1>8, <1>9

LEMMA FaultInvariant ==
    ASSUME IInv, NEW p \in Procs, Fault(p) PROVE IInv'
<1> USE BoundsAssumption DEF IInv, Fault, walk, Goto
<1>1. TypeOK'
  BY DEF TypeOK, PCs
<1>2. Dated' /\ NewKeys' /\ Condemned'
  BY DEF Dated, NewKeys, Condemned, Bucket, TypeOK
<1> QED  BY <1>1, <1>2

LEMMA NextInvariant == IInv /\ [Next]_vars => IInv'
<1> SUFFICES ASSUME IInv, [Next]_vars PROVE IInv'
  OBVIOUS
<1>1. CASE UNCHANGED vars
  BY <1>1 DEF IInv, vars, walk, TypeOK, Dated, NewKeys, Condemned, Bucket
<1>2. ASSUME NEW p \in Procs, Process(p) PROVE IInv'
  BY <1>2, NameFileInvariant, PutInvariant, ListInvariant, DeleteAllInvariant,
     FaultInvariant DEF Process
<1> QED  BY <1>1, <1>2, TickInvariant DEF Next

\* IInv holds in every behaviour of the processes that share the bucket.
THEOREM Invariance == Spec => []IInv
<1> QED  BY InitInvariant, NextInvariant, PTL DEF Spec

-----------------------------------------------------------------------------
\* Every variable keeps its type, and no request to delete is empty: Maintain
\* leaves its loop before it would send one.
THEOREM TypeCorrect == Spec => []TypeOK
<1>1. IInv => TypeOK
  BY DEF IInv
<1> QED  BY <1>1, Invariance, PTL

LEMMA StartsEmpty == Init => Promise!Init
BY BoundsAssumption DEF Init, Promise!Init, Bucket

LEMMA StepKeepsPromise ==
    IInv /\ [Next]_vars => [Promise!Next]_(Promise!vars)
<1> SUFFICES ASSUME IInv, [Next]_vars
             PROVE  Promise!Next \/ UNCHANGED Promise!vars
  OBVIOUS
<1> USE BoundsAssumption DEF Promise!vars, Promise!Next, Promise!Elapse
<1>1. CASE UNCHANGED vars
  BY <1>1 DEF vars, Bucket
<1>2. CASE Tick
  BY <1>2 DEF Tick, Bucket, IInv, TypeOK
<1>3. ASSUME NEW p \in Procs, NameFile(p) PROVE Promise!Elapse
  BY <1>3 DEF NameFile, Bucket, IInv, TypeOK
<1>4. ASSUME NEW p \in Procs, Put(p) PROVE Promise!Publish(name[p]) /\ name[p] \in Names
  <2>1. name[p] \in Names /\ name[p] <= clock /\ clock' = clock + 1
    BY <1>4 DEF Put, IInv, NewKeys
  <2>2. Bucket' = Bucket \cup {name[p]}
    BY <1>4, <2>1 DEF Put, Bucket, IInv, TypeOK, Names
  <2>3. name[p] \notin Bucket \cup deleted /\ UNCHANGED deleted
    BY <1>4 DEF Put, IInv, NewKeys
  <2> QED  BY <2>1, <2>2, <2>3 DEF Promise!Publish, IInv, TypeOK, Names
<1>5. ASSUME NEW p \in Procs, List(p) \/ Fault(p) PROVE UNCHANGED Promise!vars
  BY <1>5 DEF List, Fault, Bucket
<1>6. ASSUME NEW p \in Procs, DeleteAll(p)
      PROVE  \E old \in SUBSET Bucket : Promise!Expire(old)
  <2>1. PICK failing \in SUBSET (todo[p] \cap Bucket) :
           /\ modified' = [n \in Names |->
                 IF n \in (todo[p] \cap Bucket) \ failing THEN 0 ELSE modified[n]]
           /\ deleted' = deleted \cup ((todo[p] \cap Bucket) \ failing)
    BY <1>6 DEF DeleteAll
  <2> DEFINE old == (todo[p] \cap Bucket) \ failing
  <2>2. Bucket' = Bucket \ old
    BY <2>1 DEF Bucket
  <2>3. Expiry # 0 /\ \A n \in old : clock - n > Expiry
    BY <1>6 DEF DeleteAll, IInv, Condemned
  <2>4. Promise!Expire(old)
    BY <1>6, <2>1, <2>2, <2>3 DEF Promise!Expire, DeleteAll
  <2> QED  BY <2>4
<1> QED
  BY <1>1, <1>2, <1>3, <1>4, <1>5, <1>6 DEF Next, Process

\* The bucket implements the abstract store of check files: a result becomes
\* readable once, and only an expired one is ever deleted, for good.
THEOREM Implementation == Spec => KeepsPromise
<1> QED
  BY StartsEmpty, StepKeepsPromise, Invariance, PTL
     DEF Spec, KeepsPromise, Promise!Spec

-----------------------------------------------------------------------------
(* Maintain is complete.  It leaves at the first page without an expired   *)
(* object; an older one behind that page would have been overtaken by all  *)
(* objects of the page, which were named before it and put after it.       *)

\* The uploads that object n overtook: named before n was put, and put after
\* it or still under way.
UnderWay == {p \in Procs : pc[p] = "put"}
Overtaken(n) ==
    {k \in Bucket : k < modified[n] /\ modified[n] < modified[k]}
        \cup {name[p] : p \in {q \in UnderWay : name[q] < modified[n]}}

\* They belong to different processes, and none to the one that put n.
FewOvertaken == \A n \in Bucket : Cardinality(Overtaken(n)) < Cardinality(Procs)

\* Object n was not expired when p called Maintain.
Young(p, n) == began[p] - modified[n] <= Expiry

\* What Maintain has passed is young, kept, or about to be deleted.
Walked ==
    \A p \in Procs :
       /\ pc[p] \in {"list", "delete"} => began[p] <= clock
       /\ pc[p] = "list" => \A n \in Bucket \ kept : n <= marker[p] => Young(p, n)
       /\ pc[p] = "delete" => \A n \in Bucket \ (kept \cup todo[p]) :
                                 (more[p] = 0 \/ n <= more[p]) => Young(p, n)

FewProcs == IsFiniteSet(Procs) /\ Cardinality(Procs) <= PageSize

LEMMA NamesFinite == ASSUME NEW S \in SUBSET Names PROVE IsFiniteSet(S)
<1>1. IsFiniteSet(Names)
  BY FS_Interval, BoundsAssumption DEF Names
<1> QED  BY <1>1, FS_Subset

LEMMA OvertakenAreNames ==
    ASSUME IInv, NEW n \in Bucket
    PROVE  Overtaken(n) \in SUBSET Names /\ IsFiniteSet(Overtaken(n))
<1>1. Overtaken(n) \in SUBSET Names
  BY DEF Overtaken, UnderWay, Bucket, IInv, NewKeys
<1> QED  BY <1>1, NamesFinite

\* An object cannot come to overtake more than it did.
LEMMA FewerOvertaken ==
    ASSUME IInv, FewOvertaken, FewProcs, NEW n \in Bucket, NEW S \in SUBSET Overtaken(n)
    PROVE  Cardinality(S) < Cardinality(Procs)
<1>1. IsFiniteSet(Overtaken(n))
  BY OvertakenAreNames
<1>2. IsFiniteSet(S) /\ Cardinality(S) <= Cardinality(Overtaken(n))
  BY <1>1, FS_Subset
<1>3. Cardinality(S) \in Nat /\ Cardinality(Overtaken(n)) \in Nat
      /\ Cardinality(Procs) \in Nat
  BY <1>1, <1>2, FS_CardinalityType DEF FewProcs
<1> QED  BY <1>2, <1>3 DEF FewOvertaken

\* An object that is put overtakes at most what the other processes have
\* under way.
LEMMA OthersUnderWay ==
    ASSUME IInv, FewProcs, NEW p \in Procs, pc[p] = "put"
    PROVE  Cardinality({name[q] : q \in UnderWay \ {p}}) < Cardinality(Procs)
<1> DEFINE Q == UnderWay \ {p}
           T == {name[q] : q \in Q}
           f == [q \in Q |-> name[q]]
<1>1. Q \in SUBSET (Procs \ {p})
  BY DEF UnderWay
<1>2. /\ IsFiniteSet(Procs \ {p})
      /\ Cardinality(Procs \ {p}) = Cardinality(Procs) - 1
  BY FS_RemoveElement DEF FewProcs
<1>3. IsFiniteSet(Q) /\ Cardinality(Q) <= Cardinality(Procs \ {p})
  BY <1>1, <1>2, FS_Subset
<1>4. f \in Surjection(Q, T)
  <2>1. f \in [Q -> T] /\ \A t \in T : \E q \in Q : f[q] = t
    OBVIOUS
  <2> HIDE DEF f, Q, T
  <2> QED  BY <2>1, Fun_IsSurj
<1> HIDE DEF Q, T, f
<1>5. IsFiniteSet(T) /\ Cardinality(T) <= Cardinality(Q)
  BY <1>3, <1>4, FS_Surjection
<1>6. Cardinality(T) \in Nat /\ Cardinality(Q) \in Nat /\ Cardinality(Procs) \in Nat
      /\ Cardinality(Procs \ {p}) \in Nat
  BY <1>2, <1>3, <1>5, FS_CardinalityType DEF FewProcs
<1>7. Cardinality(T) < Cardinality(Procs)
  BY <1>2, <1>3, <1>5, <1>6
<1> QED  BY <1>7 DEF T, Q

LEMMA OvertakenInitially == Init => FewOvertaken /\ Walked
BY DEF Init, FewOvertaken, Walked, Bucket

\* What an action leaves of the uploads under way, it has overtaken before.
LEMMA NoMoreOvertaken ==
    ASSUME IInv, FewOvertaken, FewProcs, Bucket' \subseteq Bucket,
           \A n \in Bucket' : modified'[n] = modified[n],
           \A q \in Procs : pc'[q] = "put" =>
              \/ pc[q] = "put" /\ name'[q] = name[q]
              \/ \A n \in Bucket' : ~(name'[q] < modified[n])
    PROVE  FewOvertaken'
<1> SUFFICES ASSUME NEW n \in Bucket' PROVE (Cardinality(Overtaken(n)) < Cardinality(Procs))'
  BY DEF FewOvertaken
<1>1. Overtaken(n)' \subseteq Overtaken(n)
  BY DEF Overtaken, UnderWay
<1> QED  BY <1>1, FewerOvertaken

LEMMA FewOvertakenKept ==
    ASSUME IInv, FewOvertaken, FewProcs, [Next]_vars PROVE FewOvertaken'
<1>1. CASE UNCHANGED vars \/ Tick
  BY <1>1, NoMoreOvertaken DEF vars, Tick, Bucket
<1>2. ASSUME NEW p \in Procs, NameFile(p) PROVE FewOvertaken'
  <2>1. Bucket' = Bucket /\ modified' = modified
    BY <1>2 DEF NameFile, Bucket
  <2>2. ASSUME NEW q \in Procs, pc'[q] = "put"
        PROVE  \/ pc[q] = "put" /\ name'[q] = name[q]
               \/ \A n \in Bucket' : ~(name'[q] < modified[n])
    <3>1. CASE q = p
      <4>1. name'[q] = clock + 1
        BY <1>2, <3>1 DEF NameFile, IInv, TypeOK
      <4> QED  BY <2>1, <4>1 DEF Bucket, IInv, Dated, TypeOK
    <3>2. CASE q # p
      BY <1>2, <2>2, <3>2 DEF NameFile, Goto, IInv, TypeOK
    <3> QED  BY <3>1, <3>2
  <2> QED  BY <2>1, <2>2, NoMoreOvertaken
<1>3. ASSUME NEW p \in Procs, List(p) \/ DeleteAll(p) \/ Fault(p) PROVE FewOvertaken'
  <2>1. Bucket' \subseteq Bucket /\ \A n \in Bucket' : modified'[n] = modified[n]
    BY <1>3 DEF List, DeleteAll, Fault, Bucket
  <2>2. UNCHANGED name /\ \A q \in Procs : pc'[q] = "put" => pc[q] = "put"
    BY <1>3 DEF List, DeleteAll, NextPage, Fault, Goto, IInv, TypeOK
  <2> QED  BY <2>1, <2>2, NoMoreOvertaken
<1>4. ASSUME NEW p \in Procs, Put(p) PROVE FewOvertaken'
  <2>1. /\ pc[p] = "put" /\ name[p] \in Names /\ name[p] \notin Bucket
        /\ clock' = clock + 1 /\ UNCHANGED name
        /\ modified' = [modified EXCEPT ![name[p]] = clock + 1]
        /\ modified \in [Names -> 0..MaxTime] /\ clock \in Nat
    BY <1>4, BoundsAssumption DEF Put, IInv, NewKeys, TypeOK
  <2>2. Bucket' = Bucket \cup {name[p]} /\ modified'[name[p]] = clock + 1
        /\ \A n \in Bucket : modified'[n] = modified[n] /\ n \in Names
    BY <2>1 DEF Bucket
  <2>3. \A q \in Procs : pc'[q] = "put" => pc[q] = "put" /\ q # p
    BY <1>4 DEF Put, Goto, IInv, TypeOK
  <2>4. UnderWay' \subseteq UnderWay \ {p}
    BY <2>3 DEF UnderWay
  <2> SUFFICES ASSUME NEW n \in Bucket'
               PROVE  (Cardinality(Overtaken(n)) < Cardinality(Procs))'
    BY DEF FewOvertaken
  <2>5. CASE n = name[p]
    <3> DEFINE T == {name[q] : q \in UnderWay \ {p}}
    <3>1. Overtaken(n)' \in SUBSET T
      <4>1. \A k \in Bucket' : ~(modified'[n] < modified'[k])
        BY <2>1, <2>2, <2>5 DEF Bucket, IInv, Dated
      <4> QED  BY <2>1, <2>4, <4>1 DEF Overtaken
    <3>2. T \in SUBSET Names
      BY DEF UnderWay, IInv, NewKeys
    <3>3. Cardinality(T) < Cardinality(Procs)
      BY <2>1, OthersUnderWay
    <3> HIDE DEF T
    <3>4. IsFiniteSet(T) /\ IsFiniteSet(Overtaken(n)')
          /\ Cardinality(Overtaken(n)') <= Cardinality(T)
      BY <3>1, <3>2, NamesFinite, FS_Subset
    <3>5. Cardinality(T) \in Nat /\ Cardinality(Overtaken(n)') \in Nat
          /\ Cardinality(Procs) \in Nat
      BY <3>4, FS_CardinalityType DEF FewProcs
    <3> QED  BY <3>3, <3>4, <3>5
  <2>6. CASE n # name[p]
    <3>1. n \in Bucket /\ modified'[n] = modified[n]
      BY <2>2, <2>6
    <3>2. Overtaken(n)' \subseteq Overtaken(n)
      <4>1. ASSUME NEW k \in Bucket', k < modified[n], modified[n] < modified'[k]
            PROVE  k \in Overtaken(n)
        <5>1. CASE k = name[p]
          BY <2>1, <4>1, <5>1 DEF Overtaken, UnderWay
        <5>2. CASE k # name[p]
          BY <2>2, <4>1, <5>2 DEF Overtaken
        <5> QED  BY <5>1, <5>2
      <4>2. ASSUME NEW q \in UnderWay', name[q] < modified[n]
            PROVE  name[q] \in Overtaken(n)
        BY <2>4, <4>2 DEF Overtaken
      <4> QED  BY <2>1, <3>1, <4>1, <4>2 DEF Overtaken
    <3> QED  BY <3>1, <3>2, FewerOvertaken
  <2> QED  BY <2>5, <2>6
<1> QED  BY <1>1, <1>2, <1>3, <1>4 DEF Next, Process

\* A page of the listing holds the first objects after the marker.
LEMMA PageIsFirst ==
    ASSUME NEW m \in Int, NEW k \in Page(m), NEW n \in After(m), n < k
    PROVE  n \in Page(m)
<1> DEFINE UpTo(x) == {i \in After(m) : i <= x}
<1>1. /\ k \in After(m) /\ Cardinality(UpTo(k)) <= PageSize
      /\ \A i \in After(m) : i \in Names /\ i \in Int
  BY BoundsAssumption DEF Page, After, Bucket, Names
<1>2. UpTo(n) \in SUBSET UpTo(k) /\ UpTo(k) \in SUBSET Names
  BY <1>1
<1>3. IsFiniteSet(UpTo(k)) /\ IsFiniteSet(UpTo(n))
      /\ Cardinality(UpTo(n)) <= Cardinality(UpTo(k))
  BY <1>2, NamesFinite, FS_Subset
<1>4. Cardinality(UpTo(n)) \in Nat /\ Cardinality(UpTo(k)) \in Nat
  BY <1>3, FS_CardinalityType
<1>5. Cardinality(UpTo(n)) <= PageSize
  BY <1>1, <1>3, <1>4, PageAssumption
<1> QED  BY <1>5 DEF Page

\* If an object after the marker is not on the page, the page is full, and
\* comes before that object.
LEMMA FullPage ==
    ASSUME NEW m \in Int, NEW n \in After(m) \ Page(m)
    PROVE  /\ IsFiniteSet(Page(m)) /\ Cardinality(Page(m)) >= PageSize
           /\ \A k \in Page(m) : k < n
<1> DEFINE R == {e \in Nat \X Nat : e[1] < e[2]}
           Rest == After(m) \ Page(m)
<1>1. \A i \in After(m) : i \in Names /\ i \in Nat
  BY BoundsAssumption DEF After, Bucket, Names
<1>2. IsWellFoundedOn(R, Nat)
  BY NatLessThanWellFounded DEF OpToRel
<1>3. PICK x \in Rest : \A y \in Rest : ~(<<y, x>> \in R)
  <2>1. Rest \subseteq Nat /\ Rest # {}
    BY <1>1
  <2> HIDE DEF R, Rest
  <2> QED  BY <1>2, <2>1, WFMin
<1>4. \A y \in Rest : x <= y
  <2> TAKE y \in Rest
  <2>1. x \in Nat /\ y \in Nat /\ ~(<<y, x>> \in R)
    BY <1>1, <1>3
  <2> QED  BY <2>1
<1> HIDE DEF R
<1>5. \A k \in Page(m) : k \in After(m) /\ \A y \in Rest : k < y
  <2> SUFFICES ASSUME NEW k \in Page(m), NEW y \in Rest PROVE k \in After(m) /\ k < y
    OBVIOUS
  <2>1. k \in After(m) /\ k # y /\ y \in After(m)
    BY DEF Page
  <2>2. ~(y < k)
    BY <2>1, PageIsFirst
  <2> QED  BY <1>1, <2>1, <2>2
<1>6. {i \in After(m) : i <= x} = Page(m) \cup {x}
  <2>1. \A i \in After(m) : i <= x => i = x \/ i \in Page(m)
    BY <1>1, <1>4
  <2>2. \A i \in Page(m) : i \in After(m) /\ i <= x
    BY <1>1, <1>5
  <2> QED  BY <1>1, <2>1, <2>2
<1>7. IsFiniteSet(Page(m))
  <2>1. Page(m) \in SUBSET Names
    BY <1>1, <1>5
  <2> QED  BY <2>1, NamesFinite
<1>8. /\ Cardinality(Page(m) \cup {x}) = Cardinality(Page(m)) + 1
      /\ Cardinality(Page(m)) \in Nat
  BY <1>7, FS_AddElement, FS_CardinalityType
<1>9. ~(Cardinality(Page(m) \cup {x}) <= PageSize)
  <2>1. ~(Cardinality({i \in After(m) : i <= x}) <= PageSize)
    BY DEF Page
  <2> QED  BY <1>6, <2>1, Zenon
<1>10. Cardinality(Page(m)) >= PageSize
  BY <1>8, <1>9, PageAssumption
<1> QED  BY <1>5, <1>7, <1>10

\* A page without an expired object ends Maintain rightly: every object
\* after the marker is young.
LEMMA StopIsRight ==
    ASSUME IInv, FewOvertaken, FewProcs, Walked, NEW p \in Procs, pc[p] = "list",
           ExpiredOf(Page(marker[p])) = {}, NEW n \in After(marker[p])
    PROVE  Young(p, n)
<1> DEFINE m == marker[p]
<1>1. /\ m \in Int /\ began[p] \in Int /\ began[p] <= clock /\ clock \in Int
      /\ Expiry \in Nat
  BY BoundsAssumption DEF Walked, IInv, TypeOK
<1>2. \A k \in Page(m) : /\ k \in Bucket /\ modified[k] \in Int /\ k \in Int
                         /\ clock - modified[k] <= Expiry
  <2> SUFFICES ASSUME NEW k \in Page(m)
               PROVE  /\ k \in Bucket /\ modified[k] \in Int /\ k \in Int
                      /\ clock - modified[k] <= Expiry
    OBVIOUS
  <2>1. k \in Bucket /\ modified[k] \in Int /\ k \in Int
    BY BoundsAssumption DEF Page, After, Bucket, IInv, TypeOK, Names
  <2>2. ~(clock - modified[k] > Expiry)
    BY DEF ExpiredOf
  <2> QED  BY <1>1, <2>1, <2>2
<1>3. n \in Bucket /\ modified[n] \in Int /\ n \in Int /\ n < modified[n]
  BY BoundsAssumption DEF After, Bucket, IInv, TypeOK, Names, Dated
<1>4. CASE n \in Page(m)
  BY <1>1, <1>2, <1>3, <1>4 DEF Young
<1>5. CASE n \notin Page(m) /\ ~Young(p, n)
  <2>1. /\ IsFiniteSet(Page(m)) /\ Cardinality(Page(m)) >= PageSize
        /\ \A k \in Page(m) : k < n
    BY <1>1, <1>5, FullPage
  <2>2. Page(m) \in SUBSET Overtaken(n)
    <3> SUFFICES ASSUME NEW k \in Page(m) PROVE k \in Overtaken(n)
      OBVIOUS
    <3>1. k < modified[n] /\ modified[n] < modified[k]
      BY <1>1, <1>2, <1>3, <1>5, <2>1 DEF Young
    <3> QED  BY <1>2, <3>1 DEF Overtaken
  <2>3. Cardinality(Page(m)) < Cardinality(Procs)
    BY <1>3, <2>2, FewerOvertaken
  <2>4. Cardinality(Page(m)) \in Nat /\ Cardinality(Procs) \in Nat
    BY <2>1, FS_CardinalityType DEF FewProcs
  <2> QED  BY <2>1, <2>3, <2>4, PageAssumption DEF FewProcs
<1> QED  BY <1>4, <1>5

\* Walked is kept, and what it says at the end of Maintain is that no
\* expired object remains.
LEMMA WalkedKept ==
    ASSUME IInv, FewOvertaken, FewProcs, Walked, [Next]_vars
    PROVE  /\ Walked'
           /\ \A p \in Procs : (List(p) \/ DeleteAll(p)) /\ pc'[p] = "idle" =>
                 \A n \in Bucket' \ kept' : began[p] - modified'[n] <= Expiry
<1> DEFINE Ends(p) == (List(p) \/ DeleteAll(p)) /\ pc'[p] = "idle"
           Clean(p) == \A n \in Bucket' \ kept' : began[p] - modified'[n] <= Expiry
           WalkedBy(p) ==
              /\ pc[p] \in {"list", "delete"} => began[p] <= clock
              /\ pc[p] = "list" => \A n \in Bucket \ kept : n <= marker[p] => Young(p, n)
              /\ pc[p] = "delete" => \A n \in Bucket \ (kept \cup todo[p]) :
                                        (more[p] = 0 \/ n <= more[p]) => Young(p, n)
<1>0. /\ pc \in [Procs -> PCs] /\ modified \in [Names -> 0..MaxTime] /\ clock \in Nat
      /\ began \in [Procs -> 0..MaxTime] /\ marker \in [Procs -> 0..MaxTime]
      /\ todo \in [Procs -> SUBSET Names] /\ more \in [Procs -> 0..MaxTime]
      /\ MaxTime \in Nat /\ Expiry \in Nat
  BY BoundsAssumption DEF IInv, TypeOK
\* A process that does not move, while others put, delete or name objects.
<1>1. ASSUME NEW p \in Procs, kept \subseteq kept', clock' \in Nat, clock <= clock',
             pc'[p] = pc[p], began'[p] = began[p], marker'[p] = marker[p],
             todo'[p] = todo[p], more'[p] = more[p],
             \A n \in Bucket' : \/ n \in Bucket /\ modified'[n] = modified[n]
                                \/ modified'[n] \in Nat /\ modified'[n] >= clock
      PROVE  WalkedBy(p)'
  <2>1. began[p] \in Int
    BY <1>0
  <2>2. ASSUME NEW n \in Bucket', pc[p] \in {"list", "delete"}, n \in Bucket => Young(p, n)
        PROVE  Young(p, n)'
    <3>1. CASE n \in Bucket /\ modified'[n] = modified[n]
      BY <1>1, <2>2, <3>1 DEF Young
    <3>2. CASE modified'[n] \in Nat /\ modified'[n] >= clock
      <4>1. began[p] <= clock
        BY <2>2 DEF Walked
      <4> QED  BY <1>0, <1>1, <2>1, <3>2, <4>1 DEF Young
    <3> QED  BY <1>1, <3>1, <3>2
  <2>3. pc[p] \in {"list", "delete"} => began[p] <= clock'
    BY <1>0, <1>1, <2>1 DEF Walked
  <2>4. ASSUME pc[p] = "list", NEW n \in Bucket' \ kept', n <= marker[p] PROVE Young(p, n)'
    BY <1>1, <2>2, <2>4 DEF Walked
  <2>5. ASSUME pc[p] = "delete", NEW n \in Bucket' \ (kept' \cup todo[p]),
               more[p] = 0 \/ n <= more[p]
        PROVE  Young(p, n)'
    BY <1>1, <2>2, <2>5 DEF Walked
  <2> QED  BY <1>1, <2>3, <2>4, <2>5
<1>2. CASE UNCHANGED vars \/ Tick
  <2>1. \A p \in Procs : ~Ends(p)
    BY <1>2 DEF vars, Tick, List, DeleteAll
  <2>2. /\ clock' \in Nat /\ clock <= clock'
        /\ UNCHANGED <<modified, pc, began, marker, todo, more, kept, Bucket>>
    BY <1>0, <1>2 DEF vars, Tick, walk, Bucket
  <2>3. ASSUME NEW p \in Procs PROVE WalkedBy(p)'
    BY <1>1, <2>2
  <2> QED  BY <2>1, <2>3 DEF Walked
\* A failing request may look like a deletion of which nothing came.
<1>3. ASSUME NEW p \in Procs, NameFile(p) \/ Put(p) \/ Fault(p),
             \A q \in Procs : ~(List(q) \/ DeleteAll(q))
      PROVE  Walked' /\ \A q \in Procs : Ends(q) => Clean(q)
  <2>1. \A q \in Procs : ~Ends(q)
    BY <1>3
  <2>2. /\ clock' \in Nat /\ clock <= clock' /\ UNCHANGED <<todo, more, kept>>
        /\ \A q \in Procs \ {p} : /\ pc'[q] = pc[q] /\ began'[q] = began[q]
                                  /\ marker'[q] = marker[q]
    BY <1>0, <1>3 DEF NameFile, Put, Fault, walk, Goto
  <2>3. \A n \in Bucket' : \/ n \in Bucket /\ modified'[n] = modified[n]
                           \/ modified'[n] \in Nat /\ modified'[n] >= clock
    BY <1>0, <1>3 DEF NameFile, Put, Fault, Bucket
  <2>4. ASSUME NEW q \in Procs \ {p} PROVE WalkedBy(q)'
    BY <1>1, <2>2, <2>3
  <2>5. WalkedBy(p)'
    <3>1. CASE pc'[p] \notin {"list", "delete"}
      BY <3>1
    <3>2. CASE pc'[p] \in {"list", "delete"}
      <4>1. Put(p) /\ pc'[p] = "list" /\ marker'[p] = 0 /\ began'[p] = clock' /\ clock' \in Nat
        BY <1>0, <1>3, <3>2 DEF NameFile, Put, Fault, Goto
      <4>2. \A n \in Bucket' : ~(n <= 0)
        BY <1>0 DEF Bucket, Names
      <4> QED  BY <4>1, <4>2
    <3> QED  BY <3>1, <3>2
  <2> QED  BY <2>1, <2>4, <2>5 DEF Walked
<1>4. ASSUME NEW p \in Procs, List(p)
      PROVE  Walked' /\ \A q \in Procs : Ends(q) => Clean(q)
  <2> DEFINE page == Page(marker[p])
  <2>1. /\ pc[p] = "list"
        /\ UNCHANGED <<clock, modified, marker, began, kept, Bucket>>
        /\ \A q \in Procs \ {p} : pc'[q] = pc[q] /\ todo'[q] = todo[q] /\ more'[q] = more[q]
    BY <1>0, <1>4 DEF List, Goto, Bucket
  <2>2. \A q \in Procs \ {p} : WalkedBy(q)'
    BY <1>0, <1>1, <2>1
  <2>3. \A q \in Procs \ {p} : ~Ends(q)
    <3>1. ASSUME NEW q \in Procs \ {p}, Ends(q) PROVE FALSE
      <4>1. pc[q] # "idle" /\ pc'[q] = "idle"
        BY <3>1 DEF List, DeleteAll
      <4> QED  BY <2>1, <4>1
    <3> QED  BY <3>1
  <2>4. \A n \in Bucket \ kept : n \notin After(marker[p]) => Young(p, n)
    <3> SUFFICES ASSUME NEW n \in Bucket \ kept, n \notin After(marker[p])
                 PROVE  Young(p, n)
      OBVIOUS
    <3>1. n <= marker[p]
      BY <1>0 DEF After, Bucket, Names
    <3> QED  BY <2>1, <3>1 DEF Walked
  <2>5. CASE ExpiredOf(page) = {}
    <3>1. pc'[p] = "idle"
      BY <1>0, <1>4, <2>5 DEF List, Goto
    <3>2. \A n \in Bucket \ kept : Young(p, n)
      BY <2>1, <2>4, <2>5, StopIsRight
    <3>3. Clean(p)
      BY <2>1, <3>2 DEF Young
    <3> QED  BY <2>2, <2>3, <3>1, <3>3 DEF Walked
  <2>6. CASE ExpiredOf(page) # {}
    <3>1. /\ pc'[p] = "delete" /\ todo'[p] = ExpiredOf(page)
          /\ more'[p] = IF Truncated(marker[p]) THEN Max(page) ELSE 0
      BY <1>0, <1>4, <2>6 DEF List, Goto
    <3>2. \A n \in page : clock - modified[n] > Expiry \/ Young(p, n)
      <4> SUFFICES ASSUME NEW n \in page, ~(clock - modified[n] > Expiry)
                   PROVE  Young(p, n)
        OBVIOUS
      <4>1. n \in Names /\ began[p] <= clock
        BY <2>1 DEF Page, After, Bucket, Walked
      <4>2. modified[n] \in Int /\ began[p] \in Int
        BY <1>0, <4>1
      <4> QED  BY <1>0, <4>1, <4>2 DEF Young
    <3>3. ASSUME NEW n \in After(marker[p]), more'[p] = 0 \/ n <= more'[p]
          PROVE  n \in page
      <4>1. CASE ~Truncated(marker[p])
        BY <4>1 DEF Truncated
      <4>2. CASE Truncated(marker[p])
        <5>1. page # {} /\ page \in SUBSET Names
          BY <2>6 DEF ExpiredOf, Page, After, Bucket
        <5>2. Max(page) \in page /\ Max(page) \in Names
          BY <5>1, NamesHaveMax
        <5>3. n <= Max(page) /\ n \in Int /\ Max(page) \in Int
          BY <1>0, <3>1, <3>3, <4>2, <5>2 DEF Names, After, Bucket
        <5>4. marker[p] \in Int
          BY <1>0
        <5>5. n = Max(page) \/ n < Max(page)
          BY <5>3
        <5> QED  BY <5>2, <5>4, <5>5, PageIsFirst
      <4> QED  BY <4>1, <4>2
    <3>4. ASSUME NEW n \in Bucket \ (kept \cup ExpiredOf(page)), more'[p] = 0 \/ n <= more'[p]
          PROVE  Young(p, n)
      <4>1. CASE n \in After(marker[p])
        BY <3>2, <3>3, <3>4, <4>1 DEF ExpiredOf
      <4>2. CASE n \notin After(marker[p])
        BY <2>4, <3>4, <4>2
      <4> QED  BY <4>1, <4>2
    <3>5. \A n : Young(p, n)' = Young(p, n)
      BY <2>1 DEF Young
    <3>6. began[p] <= clock
      BY <2>1 DEF Walked
    <3>7. WalkedBy(p)'
      BY <2>1, <3>1, <3>4, <3>5, <3>6
    <3>8. ~Ends(p)
      BY <3>1
    <3> QED  BY <2>2, <2>3, <3>7, <3>8 DEF Walked
  <2> QED  BY <2>5, <2>6
<1>5. ASSUME NEW p \in Procs, DeleteAll(p)
      PROVE  Walked' /\ \A q \in Procs : Ends(q) => Clean(q)
  <2>1. PICK failing \in SUBSET (todo[p] \cap Bucket) :
           /\ modified' = [n \in Names |->
                 IF n \in (todo[p] \cap Bucket) \ failing THEN 0 ELSE modified[n]]
           /\ kept' = kept \cup failing
    BY <1>5 DEF DeleteAll
  <2>2. /\ pc[p] = "delete" /\ UNCHANGED <<clock, todo, more, began>>
        /\ \A q \in Procs \ {p} : pc'[q] = pc[q] /\ marker'[q] = marker[q]
    BY <1>0, <1>5 DEF DeleteAll, NextPage, Goto
  <2>3. Bucket' = Bucket \ (todo[p] \ failing) /\ \A n \in Bucket' : modified'[n] = modified[n]
    BY <2>1 DEF Bucket
  <2>4. \A q \in Procs \ {p} : WalkedBy(q)'
    BY <1>0, <1>1, <2>1, <2>2, <2>3
  <2>5. \A q \in Procs \ {p} : ~Ends(q)
    <3>1. ASSUME NEW q \in Procs \ {p}, Ends(q) PROVE FALSE
      <4>1. pc[q] # "idle" /\ pc'[q] = "idle"
        BY <3>1 DEF List, DeleteAll
      <4> QED  BY <2>2, <4>1
    <3> QED  BY <3>1
  <2>6. \A n \in Bucket' \ kept' : n \in Bucket \ (kept \cup todo[p])
    BY <2>1, <2>3
  <2>7. \A n \in Bucket' : Young(p, n)' = Young(p, n)
    BY <2>2, <2>3 DEF Young
  <2>8. \A n \in Bucket' \ kept' : (more[p] = 0 \/ n <= more[p]) => Young(p, n)'
    BY <2>2, <2>6, <2>7 DEF Walked
  <2>9. CASE more[p] = 0
    <3>1. pc'[p] = "idle" /\ Clean(p)
      <4>1. pc'[p] = "idle"
        BY <1>0, <1>5, <2>9 DEF DeleteAll, NextPage, Goto
      <4> QED  BY <2>2, <2>8, <2>9, <4>1 DEF Young
    <3> QED  BY <2>4, <2>5, <3>1 DEF Walked
  <2>10. CASE more[p] # 0
    <3>1. pc'[p] = "list" /\ marker'[p] = more[p]
      BY <1>0, <1>5, <2>10 DEF DeleteAll, NextPage, Goto
    <3>2. began[p] <= clock
      BY <2>2 DEF Walked
    <3>3. WalkedBy(p)'
      BY <2>2, <2>8, <3>1, <3>2
    <3>4. ~Ends(p)
      BY <3>1
    <3> QED  BY <2>4, <2>5, <3>3, <3>4 DEF Walked
  <2> QED  BY <2>9, <2>10
<1> QED  BY <1>2, <1>3, <1>4, <1>5 DEF Next, Process

\* Maintain deletes every object that was expired when it was called, or
\* was told that it could not, although it stops at the first page without
\* one: no more processes upload than a page has objects, so the objects
\* an older one overtook cannot fill a page.
THEOREM MaintainComplete ==
    ASSUME FewProcs
    PROVE  Spec => MaintainDeletesOld
<1>1. Init => FewOvertaken /\ Walked
  BY OvertakenInitially
<1>2. IInv /\ FewOvertaken /\ Walked /\ [Next]_vars => FewOvertaken' /\ Walked'
  BY FewOvertakenKept, WalkedKept
<1>3. IInv /\ FewOvertaken /\ Walked /\ [Next]_vars =>
         [\A p \in Procs :
            (List(p) \/ DeleteAll(p)) /\ pc'[p] = "idle" =>
               \A n \in Names \ kept' :
                  modified'[n] # 0 => began[p] - modified'[n] <= Expiry]_vars
  <2> SUFFICES ASSUME IInv, FewOvertaken, Walked, [Next]_vars,
                      NEW p \in Procs, List(p) \/ DeleteAll(p), pc'[p] = "idle",
                      NEW n \in Names \ kept', modified'[n] # 0
               PROVE  began[p] - modified'[n] <= Expiry
    OBVIOUS
  <2>1. n \in Bucket' \ kept'
    BY DEF Bucket
  <2> QED  BY <2>1, WalkedKept
<1> QED  BY <1>1, <1>2, <1>3, Invariance, PTL DEF Spec, MaintainDeletesOld
=============================================================================
