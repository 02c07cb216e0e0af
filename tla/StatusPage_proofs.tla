-------------------------- MODULE StatusPage_proofs --------------------------
(***************************************************************************)
(* Proofs about StatusPage and PageCharts for any number of files,         *)
(* publishers, downloads and failures and any size of a page of the S3     *)
(* listing: that the page passes over no file (NothingMissed), that its    *)
(* head is right (HeadIsRight) and its timeline complete (TimelineCorrect),*)
(* that drawing adds nothing to what the page does (PageRefines), and that *)
(* every event has its icon (EveryEventDrawn) and every result its place in*)
(* a chart (ChartsAreFaithful).                                            *)
(***************************************************************************)
EXTENDS PageCharts, SequenceFacts, SequenceTheorems

\* The publishers' books: names are given in order, and a file is stamped
\* after it was named.
Clocked ==
    /\ clock \in Nat /\ named \in [Files -> Nat] /\ stamped \in [Files -> Nat]
    /\ clock >= MaxLate
    /\ \A n \in Files : named[n] <= clock /\ stamped[n] <= clock
    /\ \A n \in Visible : n \in Named /\ named[n] < stamped[n]
    /\ \A n \in Named : /\ named[n] > MaxLate
                         /\ \A m \in Files : m < n => m \in Named /\ named[m] < named[n]

Phases == {"unused", "listing", "loading", "done", "failed"}

\* What a download holds at each phase.
Downloads ==
    /\ storage \in {"fs", "s3"}
    /\ batch \in [Batches -> [phase : Phases, after : Int, list : SUBSET Files,
                              pending : SUBSET Files, got : SUBSET Files]]
    /\ \A b \in Batches :
          /\ batch[b].list \subseteq Visible
          /\ batch[b].pending \cup batch[b].got \subseteq batch[b].list
          /\ batch[b].got \subseteq Loaded
          /\ batch[b].phase # "loading" => batch[b].pending = {} /\ batch[b].got = {}
          /\ batch[b].phase \notin {"listing", "loading"} => batch[b].list = {}
          /\ storage = "fs" /\ batch[b].phase = "listing" => batch[b].list = {}
          /\ batch[b].phase # "unused" => batch[1].phase # "unused"

\* What the page knows of the files it loaded.
Knowledge ==
    /\ copies \in [Files -> Nat] /\ Loaded \subseteq Visible
    /\ lastCheckTs \in Nat
    /\ lastCheckTs = 0 \/ \E m \in Loaded : lastCheckTs = named[m]
    /\ batch[1].phase = "unused" => lastCheckTs = 0
    /\ since \in Int
    /\ \A b \in Batches : batch[b].phase = "listing" =>
          IF b = 1 THEN batch[b].after = since ELSE batch[b].after <= lastCheckTs + MaxLate

\* The files of a list that a poll after file m may no longer ask for, though
\* one before it would.
Left(m) ==
    {n \in Visible : /\ Listed(n, since) /\ Listed(n, lastCheckTs + MaxLate)
                     /\ ~Listed(n, named[m] + MaxLate)}

\* A list that holds a file holds those too.
ListsComplete ==
    Trusted => \A b \in Batches : \A m \in batch[b].list : Left(m) \subseteq batch[b].list

Covered(n) ==
    \/ n \in Loaded
    \/ \E b \in Batches : batch[b].phase = "loading" /\ n \in batch[b].list \ batch[b].got

NothingPassed ==
    Trusted => \A n \in Visible :
        Listed(n, since) => Covered(n) \/ Listed(n, lastCheckTs + MaxLate)

IInv == Clocked /\ Downloads /\ Knowledge /\ ListsComplete /\ NothingPassed

-----------------------------------------------------------------------------
(* Facts about the data. *)

\* Max of the community modules chooses the greater of two numbers.
LEMMA MaxOfTwo ==
    ASSUME NEW a \in Nat, NEW b \in Nat
    PROVE  Max({a, b}) \in {a, b} /\ Max({a, b}) >= a /\ Max({a, b}) >= b
<1>1. \E x \in {a, b} : \A y \in {a, b} : x >= y
  <2>1. CASE a >= b
    BY <2>1
  <2>2. CASE b >= a
    BY <2>2
  <2> QED  BY <2>1, <2>2
<1>2. Max({a, b}) \in {a, b} /\ \A y \in {a, b} : Max({a, b}) >= y
  BY <1>1, Zenon DEF Max
<1> QED  BY <1>2

\* There are finitely many files.
LEMMA FilesFinite == ASSUME NEW S \in SUBSET Files PROVE IsFiniteSet(S)
<1>1. IsFiniteSet(Files)
  BY FS_Interval, SizesAssumption DEF Files
<1> QED  BY <1>1, FS_Subset

\* When as many files arrived as the list has, they are the list.
LEMMA AllArrived ==
    ASSUME NEW list \in SUBSET Files, NEW got \in SUBSET list,
           Cardinality(got) >= Cardinality(list)
    PROVE  got = list
<1>1. IsFiniteSet(list) /\ IsFiniteSet(got) /\ Cardinality(got) <= Cardinality(list)
  BY FilesFinite, FS_Subset
<1>2. Cardinality(got) \in Nat /\ Cardinality(list) \in Nat
  BY <1>1, FS_CardinalityType
<1> QED  BY <1>1, <1>2, FS_Subset

\* A page of the listing holds the least of the keys that remain.
LEMMA PageIsLeast ==
    ASSUME NEW b \in Batches, NEW m \in NextPage(b), NEW n \in Unlisted(b), n < m
    PROVE  n \in NextPage(b)
<1> DEFINE Below(x) == {k \in Unlisted(b) : k < x}
<1>1. \A k \in Unlisted(b) : k \in Files /\ k \in Int
  BY SizesAssumption DEF Unlisted, Visible, Files
<1>2. m \in Unlisted(b) /\ Cardinality(Below(m)) < PageSize
  BY DEF NextPage
<1>3. Below(n) \in SUBSET Below(m) /\ Below(m) \in SUBSET Files
  BY <1>1, <1>2
<1>4. IsFiniteSet(Below(m)) /\ IsFiniteSet(Below(n))
      /\ Cardinality(Below(n)) <= Cardinality(Below(m))
  BY <1>3, FilesFinite, FS_Subset
<1>5. Cardinality(Below(n)) \in Nat /\ Cardinality(Below(m)) \in Nat
  BY <1>4, FS_CardinalityType
<1>6. Cardinality(Below(n)) < PageSize
  BY <1>2, <1>4, <1>5, SizesAssumption
<1> QED  BY <1>6 DEF NextPage

\* A later poll lists what an earlier one of that file would have.
LEMMA LeftKept ==
    ASSUME Clocked, Knowledge, UNCHANGED <<storage, since>>,
           \A k \in Visible : named'[k] = named[k] /\ stamped'[k] = stamped[k],
           lastCheckTs' \in Nat, lastCheckTs' >= lastCheckTs,
           NEW m \in Visible, NEW n \in Visible, n \in Left(m)'
    PROVE  n \in Left(m)
<1>1. Key(n) \in Nat /\ Key(n)' = Key(n) /\ named'[m] = named[m]
  BY DEF Key, Clocked, Visible
<1>2. Listed(n, since) /\ ~Listed(n, named[m] + MaxLate)
  BY <1>1 DEF Left, Listed
<1>3. Listed(n, lastCheckTs + MaxLate)
  BY <1>1, SizesAssumption DEF Left, Listed, Knowledge
<1> QED  BY <1>2, <1>3 DEF Left

\* Files that are trusted were so before.
LEMMA TrustedKept ==
    ASSUME UNCHANGED storage, InOrder' => InOrder,
           \A k \in Visible : k \in Visible' /\ named'[k] = named[k] /\ stamped'[k] = stamped[k]
    PROVE  Trusted' => Trusted
<1>1. \A k \in Visible : Key(k)' = Key(k)
  BY DEF Key
<1>2. Spaced' => Spaced
  BY <1>1 DEF Spaced
<1> QED  BY <1>2 DEF Trusted

\* A file that is visible after another one is listed by the poll after that.
LEMMA LaterListed ==
    ASSUME Clocked, Trusted, NEW m \in Visible, NEW n \in Visible,
           IF storage = "fs" THEN stamped[m] < stamped[n] ELSE m < n
    PROVE  Listed(n, named[m] + MaxLate)
<1>1. stamped[m] < Key(n)
  <2>1. CASE storage = "fs"
    BY <2>1 DEF Key
  <2>2. CASE storage # "fs"
    <3>1. m \in Named
      BY DEF Clocked
    <3> QED  BY <2>2, <3>1 DEF Key, Trusted, InOrder
  <2> QED  BY <2>1, <2>2
<1> QED  BY <1>1 DEF Trusted, Spaced, Listed

\* A download asks for everything a poll would list that is asked for at all.
LEMMA AskedFor ==
    ASSUME Clocked, Knowledge, NEW b \in Batches, batch[b].phase = "listing",
           batch[b].after \in Int,
           NEW n \in Visible, Listed(n, since), Listed(n, lastCheckTs + MaxLate)
    PROVE  Listed(n, batch[b].after)
<1>1. Key(n) \in Nat
  BY DEF Key, Clocked, Visible
<1>2. CASE b = 1
  BY <1>2 DEF Knowledge
<1>3. CASE b # 1
  <2>1. Key(n) >= lastCheckTs + MaxLate /\ batch[b].after <= lastCheckTs + MaxLate
    BY <1>3 DEF Listed, Knowledge
  <2> QED  BY <1>1, <2>1, SizesAssumption DEF Listed, Knowledge
<1> QED  BY <1>2, <1>3

\* What of it does not remain to be listed is on the list.
LEMMA Remaining ==
    ASSUME IInv, Trusted, NEW b \in Batches, batch[b].phase = "listing",
           NEW n \in Visible, Listed(n, since), Listed(n, lastCheckTs + MaxLate),
           n \notin Unlisted(b)
    PROVE  n \in batch[b].list
<1>1. Listed(n, batch[b].after)
  BY AskedFor DEF IInv, Downloads
<1>2. PICK l \in batch[b].list : ~(n > l)
  BY <1>1 DEF Unlisted
<1>3. storage = "s3" /\ l \in Visible /\ l \in Files /\ n \in Files
  BY <1>1, <1>2 DEF IInv, Downloads, Visible
<1>4. n = l \/ n < l
  BY <1>2, <1>3, SizesAssumption DEF Files
<1>5. CASE n < l
  <2>1. named[n] < named[l] /\ named[n] \in Nat /\ named[l] \in Nat
    BY <1>3, <1>5 DEF IInv, Clocked, Visible
  <2>2. ~Listed(n, named[l] + MaxLate)
    BY <1>3, <2>1, SizesAssumption DEF Listed, Key
  <2>3. n \in Left(l)
    BY <2>2 DEF Left
  <2> QED  BY <1>2, <2>3 DEF IInv, ListsComplete
<1> QED  BY <1>2, <1>4, <1>5

-----------------------------------------------------------------------------
(* The invariant. *)

\* Before the first file and the first download there is nothing to pass over.
LEMMA InitInvariant == Init => IInv
<1> SUFFICES ASSUME Init PROVE IInv
  OBVIOUS
<1> USE SizesAssumption DEF Init
<1>1. Visible = {} /\ Named = {} /\ Loaded = {}
  BY DEF Visible, Named, Loaded
<1>2. Clocked
  BY <1>1 DEF Clocked
<1>3. 1 \in Batches
  BY DEF Batches
<1>4. Downloads
  BY <1>1, <1>3 DEF Downloads, Phases
<1>5. Knowledge
  BY <1>1 DEF Knowledge
<1>6. ListsComplete /\ NothingPassed
  BY <1>1, <1>3 DEF ListsComplete, NothingPassed
<1> QED  BY <1>2, <1>4, <1>5, <1>6 DEF IInv

\* What is known of a step of a publisher as far as the page is concerned.
LEMMA PublisherInvariant ==
    ASSUME IInv, NEW n \in Files, NameFile(n) \/ ShowFile(n) PROVE IInv'
<1> USE DEF IInv
<1>0. /\ UNCHANGED <<extern, batch, page>> /\ UNCHANGED <<storage, copies, lastCheckTs>>
      /\ UNCHANGED since /\ clock' > clock /\ clock' \in Nat
  BY SizesAssumption DEF NameFile, ShowFile, extern, page, past, Clocked
<1>1. CASE NameFile(n)
  <2>1. named' = [named EXCEPT ![n] = clock'] /\ UNCHANGED stamped /\ Named = 1..(n - 1)
    BY <1>1 DEF NameFile
  <2>2. n \notin Named /\ Visible' = Visible /\ n \notin Visible /\ Loaded' = Loaded
    BY <1>0, <2>1, SizesAssumption DEF Visible, Clocked, Files, Loaded
  <2>3. /\ \A k \in Visible : named'[k] = named[k]
        /\ named'[n] = clock' /\ named' \in [Files -> Nat]
        /\ \A k \in Files \ {n} : named'[k] = named[k]
    BY <1>0, <2>1, <2>2 DEF Clocked, Visible
  <2>4. Named' = Named \cup {n}
    BY <1>0, <2>3, SizesAssumption DEF Named, Clocked
  <2>5. Clocked'
    <3>1. \A k \in Files : named'[k] <= clock' /\ stamped'[k] <= clock'
      BY <1>0, <2>1, <2>3 DEF Clocked
    <3>2. \A k \in Visible' : k \in Named' /\ named'[k] < stamped'[k]
      BY <2>1, <2>2, <2>3, <2>4 DEF Clocked
    <3>3. ASSUME NEW k \in Named' PROVE named'[k] > MaxLate
      <4>1. CASE k = n
        BY <1>0, <2>3, <4>1, SizesAssumption DEF Clocked
      <4>2. CASE k # n
        BY <2>3, <2>4, <4>2 DEF Clocked, Named
      <4> QED  BY <4>1, <4>2
    <3>4. ASSUME NEW k \in Named', NEW m \in Files, m < k
          PROVE  m \in Named' /\ named'[m] < named'[k]
      <4>1. CASE k = n
        <5>1. m \in Named /\ m # n
          BY <2>1, <3>4, <4>1, SizesAssumption DEF Files
        <5> QED  BY <1>0, <2>3, <2>4, <4>1, <5>1 DEF Clocked
      <4>2. CASE k # n
        <5>1. k \in Named /\ m \in Named /\ m # n /\ named[m] < named[k]
          BY <2>1, <2>2, <2>4, <3>4, <4>2 DEF Clocked
        <5> QED  BY <2>3, <2>4, <3>4, <4>2, <5>1 DEF Named
      <4> QED  BY <4>1, <4>2
    <3> QED  BY <1>0, <2>1, <2>3, <3>1, <3>2, <3>3, <3>4, SizesAssumption DEF Clocked
  <2>6. Trusted' => Trusted
    <3>1. InOrder' => InOrder
      BY <2>1, <2>2, <2>3, <2>4 DEF InOrder, Named
    <3> QED  BY <1>0, <2>1, <2>2, <2>3, <3>1, TrustedKept
  <2>7. Downloads'
    <3> USE DEF Downloads
    <3>1. UNCHANGED <<storage, batch>>
      BY <1>0
    <3>2. \A b \in Batches : batch'[b].list \subseteq Visible'
      BY <3>1, <2>2
    <3> QED  BY <3>1, <3>2, <2>2
  <2>8. Knowledge'
    <3>1. lastCheckTs = 0 \/ \E m \in Loaded' : lastCheckTs = named'[m]
      BY <2>2, <2>3 DEF Knowledge
    <3> QED  BY <1>0, <2>2, <3>1 DEF Knowledge
  <2>9. ListsComplete'
    <3> SUFFICES ASSUME Trusted', NEW b \in Batches, NEW m \in batch'[b].list,
                        NEW k \in Left(m)'
                 PROVE  k \in batch'[b].list
      BY DEF ListsComplete
    <3>1. m \in Visible /\ m \in batch[b].list /\ k \in Visible
      BY <1>0, <2>2 DEF Downloads, Left
    <3>2. k \in Left(m)
      BY <1>0, <2>1, <2>3, <3>1, LeftKept DEF Knowledge
    <3> QED  BY <1>0, <2>6, <3>1, <3>2 DEF ListsComplete
  <2>10. NothingPassed'
    <3> SUFFICES ASSUME Trusted', NEW k \in Visible', Listed(k, since)'
                 PROVE  Covered(k)' \/ Listed(k, lastCheckTs + MaxLate)'
      BY DEF NothingPassed
    <3>1. k \in Visible /\ Listed(k, since)
      BY <1>0, <2>1, <2>2, <2>3 DEF Listed, Key
    <3>2. Covered(k) \/ Listed(k, lastCheckTs + MaxLate)
      BY <2>6, <3>1 DEF NothingPassed
    <3>3. Covered(k) => Covered(k)'
      BY <1>0, <2>2 DEF Covered
    <3>4. Listed(k, lastCheckTs + MaxLate) => Listed(k, lastCheckTs + MaxLate)'
      BY <1>0, <2>1, <2>3, <3>1 DEF Listed, Key
    <3> QED  BY <3>2, <3>3, <3>4
  <2> QED  BY <2>5, <2>7, <2>8, <2>9, <2>10
<1>2. CASE ShowFile(n)
  <2>1. /\ n \in Named /\ n \notin Visible /\ UNCHANGED named
        /\ stamped' = [stamped EXCEPT ![n] = clock']
    BY <1>2 DEF ShowFile
  <2>2. /\ stamped'[n] = clock' /\ stamped' \in [Files -> Nat] /\ clock' > 0
        /\ \A k \in Files \ {n} : stamped'[k] = stamped[k]
    BY <1>0, <2>1 DEF Clocked
  <2>3. /\ Visible' = Visible \cup {n} /\ Named' = Named /\ Loaded' = Loaded
        /\ \A k \in Visible : k \in Files /\ k # n /\ stamped'[k] = stamped[k]
    BY <1>0, <2>1, <2>2 DEF Visible, Named, Loaded, Clocked
  <2>4. \A k \in Files : named[k] < clock' /\ named[k] \in Nat
    BY <1>0 DEF Clocked
  <2>5. Clocked'
    <3>1. \A k \in Files : named'[k] <= clock' /\ stamped'[k] <= clock'
      BY <1>0, <2>1, <2>2 DEF Clocked
    <3>2. \A k \in Visible' : k \in Named' /\ named'[k] < stamped'[k]
      BY <2>1, <2>2, <2>3, <2>4 DEF Clocked
    <3> QED  BY <1>0, <2>1, <2>2, <2>3, <3>1, <3>2, SizesAssumption DEF Clocked
  <2>6. ASSUME InOrder'
        PROVE  InOrder /\ \A k \in Visible : k < n
    <3>1. ASSUME NEW k \in Visible, NEW m \in Named, m < k
          PROVE  m \in Visible /\ stamped[m] < named[k]
      <4>1. m \in Visible' /\ stamped'[m] < named[k]
        BY <2>1, <2>3, <2>6, <3>1 DEF InOrder
      <4>2. m # n
        BY <1>0, <2>2, <2>3, <2>4, <4>1 DEF Clocked
      <4> QED  BY <2>3, <4>1, <4>2
    <3>2. ASSUME NEW k \in Visible PROVE k < n
      <4>1. k \in Files /\ k # n
        BY <2>3
      <4>2. CASE n < k
        <5>1. stamped'[n] < named[k]
          BY <2>1, <2>3, <2>6, <4>2 DEF InOrder
        <5> QED  BY <1>0, <2>2, <2>4, <4>1, <5>1 DEF Clocked
      <4> QED  BY <4>1, <4>2, SizesAssumption DEF Files
    <3> QED  BY <3>1, <3>2 DEF InOrder
  <2>7. Trusted' => Trusted
    BY <1>0, <2>1, <2>3, <2>6, TrustedKept
  <2>8. Downloads'
    <3> USE DEF Downloads
    <3>1. UNCHANGED <<storage, batch>>
      BY <1>0
    <3>2. \A b \in Batches : batch'[b].list \subseteq Visible'
      BY <3>1, <2>3
    <3> QED  BY <3>1, <3>2, <2>3
  <2>9. Knowledge'
    BY <1>0, <2>1, <2>3 DEF Knowledge
  \* The new file comes after all that are visible.
  <2>10. ASSUME Trusted', NEW m \in Visible PROVE Listed(n, named[m] + MaxLate)'
    <3>1. m \in Visible' /\ n \in Visible' /\ stamped'[m] < stamped'[n]
      BY <1>0, <2>2, <2>3 DEF Clocked
    <3>2. stamped'[m] < Key(n)'
      <4>1. CASE storage = "fs"
        BY <1>0, <3>1, <4>1 DEF Key
      <4>2. CASE storage # "fs"
        <5>1. InOrder' /\ m < n /\ m \in Named'
          BY <1>0, <2>3, <2>6, <2>10, <4>2 DEF Trusted, Clocked
        <5> QED  BY <1>0, <3>1, <4>2, <5>1 DEF Key, InOrder
      <4> QED  BY <4>1, <4>2
    <3> QED  BY <2>10, <3>1, <3>2 DEF Trusted, Spaced, Listed
  <2>11. ListsComplete'
    <3> SUFFICES ASSUME Trusted', NEW b \in Batches, NEW m \in batch'[b].list,
                        NEW k \in Left(m)'
                 PROVE  k \in batch'[b].list
      BY DEF ListsComplete
    <3>1. m \in Visible /\ m \in batch[b].list
      BY <1>0 DEF Downloads
    <3>2. k \in Visible
      BY <2>3, <2>10, <3>1 DEF Left
    <3>3. k \in Left(m)
      BY <1>0, <2>1, <2>3, <3>1, <3>2, LeftKept DEF Knowledge
    <3> QED  BY <1>0, <2>7, <3>1, <3>3 DEF ListsComplete
  <2>12. NothingPassed'
    <3> SUFFICES ASSUME Trusted', NEW k \in Visible', Listed(k, since)'
                 PROVE  Covered(k)' \/ Listed(k, lastCheckTs + MaxLate)'
      BY DEF NothingPassed
    <3>1. CASE k = n
      <4>1. CASE lastCheckTs = 0
        <5>1. named[n] > MaxLate /\ named[n] < clock' /\ named[n] \in Nat
          BY <2>1, <2>4 DEF Clocked
        <5>2. Key(n)' \in Nat /\ Key(n)' >= MaxLate
          BY <1>0, <2>1, <2>2, <5>1, SizesAssumption DEF Key
        <5> QED  BY <1>0, <3>1, <4>1, <5>2, SizesAssumption DEF Listed
      <4>2. ASSUME NEW m \in Loaded, lastCheckTs = named[m]
            PROVE  Listed(n, lastCheckTs + MaxLate)'
        BY <1>0, <2>1, <2>10, <4>2 DEF Knowledge, Listed, Key
      <4> QED  BY <3>1, <4>1, <4>2 DEF Knowledge
    <3>2. CASE k # n
      <4>1. k \in Visible /\ Listed(k, since)
        BY <1>0, <2>1, <2>3, <3>2 DEF Listed, Key
      <4>2. Covered(k) \/ Listed(k, lastCheckTs + MaxLate)
        BY <2>7, <4>1 DEF NothingPassed
      <4>3. Covered(k) => Covered(k)'
        BY <1>0, <2>3 DEF Covered
      <4>4. Listed(k, lastCheckTs + MaxLate) => Listed(k, lastCheckTs + MaxLate)'
        BY <1>0, <2>1, <2>3, <4>1 DEF Listed, Key
      <4> QED  BY <4>2, <4>3, <4>4
    <3> QED  BY <3>1, <3>2
  <2> QED  BY <2>5, <2>8, <2>9, <2>11, <2>12
<1> QED  BY <1>1, <1>2

\* A download that starts asks for no less than a poll would list.
LEMMA RequestInvariant ==
    ASSUME IInv, NEW b \in Batches, NEW after \in Int, Request(b, after),
           b # 1 => batch[1].phase # "unused" /\ after <= lastCheckTs + MaxLate
    PROVE  IInv'
<1> USE DEF IInv
<1>1. /\ batch[b].phase = "unused"
      /\ batch' = [batch EXCEPT ![b].phase = "listing", ![b].after = after]
      /\ since' = IF b = 1 THEN after ELSE since
      /\ UNCHANGED <<storage, clock, named, stamped, copies, lastCheckTs>>
  BY DEF Request, extern, files, page
<1>2. /\ batch[b].list = {} /\ batch[b].pending = {} /\ batch[b].got = {}
      /\ 1 \in Batches
  BY <1>1, SizesAssumption DEF Downloads, Batches
<1>3. /\ batch'[b] = [phase |-> "listing", after |-> after,
                      list |-> {}, pending |-> {}, got |-> {}]
      /\ \A c \in Batches \ {b} : batch'[c] = batch[c]
      /\ batch' \in [Batches -> [phase : Phases, after : Int, list : SUBSET Files,
                                 pending : SUBSET Files, got : SUBSET Files]]
  <2> DEFINE Download == [phase : Phases, after : Int, list : SUBSET Files,
                          pending : SUBSET Files, got : SUBSET Files]
  <2>1. batch \in [Batches -> Download] /\ batch[b] \in Download
    BY DEF Downloads
  <2>2. batch'[b] = [batch[b] EXCEPT !.phase = "listing", !.after = after]
    BY <1>1, <2>1
  <2>3. batch'[b] = [phase |-> "listing", after |-> after,
                     list |-> {}, pending |-> {}, got |-> {}]
    BY <1>2, <2>1, <2>2
  <2>4. batch'[b] \in Download
    BY <2>3 DEF Phases
  <2> QED  BY <1>1, <2>1, <2>3, <2>4
<1>4. UNCHANGED <<Visible, Named, Loaded>>
  BY <1>1 DEF Visible, Named, Loaded
<1>5. Clocked'
  BY <1>1, <1>4 DEF Clocked
<1>6. Downloads'
  <2>1. batch'[1].phase # "unused"
    BY <1>2, <1>3
  <2>2. \A c \in Batches :
          /\ batch'[c].list \subseteq Visible'
          /\ batch'[c].pending \cup batch'[c].got \subseteq batch'[c].list
          /\ batch'[c].got \subseteq Loaded'
          /\ batch'[c].phase # "loading" => batch'[c].pending = {} /\ batch'[c].got = {}
          /\ batch'[c].phase \notin {"listing", "loading"} => batch'[c].list = {}
          /\ storage = "fs" /\ batch'[c].phase = "listing" => batch'[c].list = {}
    <3> SUFFICES ASSUME NEW c \in Batches
                 PROVE  /\ batch'[c].list \subseteq Visible'
                        /\ batch'[c].pending \cup batch'[c].got \subseteq batch'[c].list
                        /\ batch'[c].got \subseteq Loaded'
                        /\ batch'[c].phase # "loading" =>
                              batch'[c].pending = {} /\ batch'[c].got = {}
                        /\ batch'[c].phase \notin {"listing", "loading"} =>
                              batch'[c].list = {}
                        /\ storage = "fs" /\ batch'[c].phase = "listing" =>
                              batch'[c].list = {}
      OBVIOUS
    <3>1. CASE c = b
      BY <1>3, <3>1
    <3>2. CASE c # b
      BY <1>3, <1>4, <3>2 DEF Downloads
    <3> QED  BY <3>1, <3>2
  <2> QED  BY <1>1, <1>3, <2>1, <2>2 DEF Downloads
<1>7. Knowledge'
  <2>1. ASSUME NEW c \in Batches, batch'[c].phase = "listing"
        PROVE  IF c = 1 THEN batch'[c].after = since'
                        ELSE batch'[c].after <= lastCheckTs' + MaxLate
    <3>1. CASE c = b
      BY <1>1, <1>3, <3>1
    <3>2. CASE c # b /\ b # 1
      BY <1>1, <1>3, <2>1, <3>2 DEF Knowledge
    <3>3. CASE c # b /\ b = 1
      BY <1>1, <1>3, <2>1, <3>3 DEF Knowledge, Downloads
    <3> QED  BY <3>1, <3>2, <3>3
  <2>2. batch'[1].phase # "unused"
    BY <1>2, <1>3
  <2>3. since' \in Int
    BY <1>1 DEF Knowledge
  <2> QED  BY <1>1, <1>4, <2>1, <2>2, <2>3 DEF Knowledge
<1>8. Trusted' => Trusted
  BY <1>1, <1>4, TrustedKept DEF InOrder
<1>9. ListsComplete'
  <2> SUFFICES ASSUME Trusted', NEW c \in Batches, NEW m \in batch'[c].list,
                      NEW k \in Left(m)'
               PROVE  k \in batch'[c].list
    BY DEF ListsComplete
  <2>1. c # b /\ m \in batch[c].list
    BY <1>3
  <2>2. batch[c].phase # "unused"
    BY <2>1 DEF Downloads
  <2>3. since' = since
    BY <1>1, <2>2 DEF Downloads
  <2>4. m \in Visible /\ k \in Visible
    BY <1>4, <2>1 DEF Downloads, Left
  <2>5. k \in Left(m)
    BY <1>1, <2>3, <2>4, LeftKept DEF Knowledge
  <2> QED  BY <1>3, <1>8, <2>1, <2>5 DEF ListsComplete
<1>10. NothingPassed'
  <2> SUFFICES ASSUME Trusted', NEW k \in Visible', Listed(k, since)'
               PROVE  Covered(k)' \/ Listed(k, lastCheckTs + MaxLate)'
    BY DEF NothingPassed
  <2>1. CASE b = 1
    <3>1. lastCheckTs = 0 /\ k \in Visible
      BY <1>1, <1>4, <2>1 DEF Knowledge
    <3>2. named[k] > MaxLate /\ named[k] < stamped[k] /\ named[k] \in Nat /\ stamped[k] \in Nat
      BY <3>1 DEF Clocked, Visible
    <3>3. Key(k)' \in Nat /\ Key(k)' >= MaxLate
      BY <1>1, <3>2, SizesAssumption DEF Key
    <3> QED  BY <1>1, <3>1, <3>3, SizesAssumption DEF Listed
  <2>2. CASE b # 1
    <3>1. k \in Visible /\ Listed(k, since)
      BY <1>1, <1>2, <1>3, <1>4, <2>2 DEF Listed, Key
    <3>2. Covered(k) \/ Listed(k, lastCheckTs + MaxLate)
      BY <1>8, <3>1 DEF NothingPassed
    <3>3. Covered(k) => Covered(k)'
      BY <1>1, <1>3, <1>4 DEF Covered
    <3> QED  BY <1>1, <3>2, <3>3 DEF Listed, Key
  <2> QED  BY <2>1, <2>2
<1> QED  BY <1>5, <1>6, <1>7, <1>9, <1>10

\* A step of a download before its files are requested: it changes the list
\* and the phase of that download and nothing else the invariant is about.
LEMMA ListInvariant ==
    ASSUME IInv, NEW b \in Batches, batch[b].phase = "listing",
           NEW phase \in {"listing", "loading", "done", "failed"}, NEW list \in SUBSET Visible,
           NEW pending \in SUBSET list, phase # "loading" => pending = {},
           batch' = [c \in Batches |-> batch'[c]],
           \A c \in Batches \ {b} : batch'[c] = batch[c],
           NEW after \in Int, phase = "listing" => after = batch[b].after,
           batch'[b] = [phase |-> phase, after |-> after, list |-> list,
                        pending |-> pending, got |-> {}],
           UNCHANGED <<storage, since, clock, named, stamped, copies, lastCheckTs>>,
           phase \notin {"listing", "loading"} => list = {},
           phase = "listing" => storage = "s3",
           Trusted => \A m \in list : Left(m) \subseteq list
    PROVE  IInv'
<1> USE DEF IInv
<1>1. batch[b].got = {} /\ 1 \in Batches /\ batch[b].after \in Int
  BY SizesAssumption DEF Downloads, Batches
<1>2. /\ batch'[b] = [phase |-> phase, after |-> after, list |-> list,
                      pending |-> pending, got |-> {}]
      /\ \A c \in Batches \ {b} : batch'[c] = batch[c]
  BY <1>1 DEF Downloads
<1>3. UNCHANGED <<Visible, Named, Loaded>>
  BY DEF Visible, Named, Loaded
<1>4. Clocked'
  BY <1>3 DEF Clocked
<1>5. Downloads'
  <2>1. batch'[1].phase # "unused"
    BY <1>1, <1>2 DEF Downloads
  <2>2. list \in SUBSET Files
    BY DEF Visible
  <2>3. batch' \in [Batches -> [phase : Phases, after : Int, list : SUBSET Files,
                                pending : SUBSET Files, got : SUBSET Files]]
    <3>1. batch'[b] \in [phase : Phases, after : Int, list : SUBSET Files,
                         pending : SUBSET Files, got : SUBSET Files]
      <4>1. phase \in Phases /\ pending \in SUBSET Files
        BY <2>2 DEF Phases
      <4> QED  BY <1>1, <1>2, <2>2, <4>1
    <3> QED  BY <1>2, <3>1 DEF Downloads
  <2>4. ASSUME NEW c \in Batches
        PROVE  /\ batch'[c].list \subseteq Visible'
               /\ batch'[c].pending \cup batch'[c].got \subseteq batch'[c].list
               /\ batch'[c].got \subseteq Loaded'
               /\ batch'[c].phase # "loading" =>
                     batch'[c].pending = {} /\ batch'[c].got = {}
               /\ batch'[c].phase \notin {"listing", "loading"} => batch'[c].list = {}
               /\ storage = "fs" /\ batch'[c].phase = "listing" => batch'[c].list = {}
    <3>1. CASE c = b
      BY <1>2, <1>3, <3>1
    <3>2. CASE c # b
      BY <1>2, <1>3, <3>2 DEF Downloads
    <3> QED  BY <3>1, <3>2
  <2> QED  BY <2>1, <2>3, <2>4 DEF Downloads
<1>6. Knowledge'
  <2>1. ASSUME NEW c \in Batches, batch'[c].phase = "listing"
        PROVE  IF c = 1 THEN batch'[c].after = since'
                        ELSE batch'[c].after <= lastCheckTs' + MaxLate
    <3>1. batch[c].phase = "listing" /\ batch'[c].after = batch[c].after
      BY <1>2, <2>1
    <3> QED  BY <3>1 DEF Knowledge
  <2>2. batch'[1].phase # "unused"
    BY <1>1, <1>2 DEF Downloads
  <2> QED  BY <1>3, <2>1, <2>2 DEF Knowledge
<1>7. Trusted' => Trusted
  BY <1>3, TrustedKept DEF InOrder
<1>8. ListsComplete'
  <2> SUFFICES ASSUME Trusted', NEW c \in Batches, NEW m \in batch'[c].list,
                      NEW k \in Left(m)'
               PROVE  k \in batch'[c].list
    BY DEF ListsComplete
  <2>1. m \in Visible /\ k \in Visible
    BY <1>3, <1>5 DEF Downloads, Left
  <2>2. k \in Left(m)
    BY <2>1, LeftKept DEF Knowledge
  <2> QED  BY <1>2, <1>7, <2>2 DEF ListsComplete
<1>9. NothingPassed'
  <2> SUFFICES ASSUME Trusted', NEW k \in Visible', Listed(k, since)'
               PROVE  Covered(k)' \/ Listed(k, lastCheckTs + MaxLate)'
    BY DEF NothingPassed
  <2>1. k \in Visible /\ Listed(k, since)
    BY <1>1, <1>2, <1>3 DEF Listed, Key
  <2>2. Covered(k) \/ Listed(k, lastCheckTs + MaxLate)
    BY <1>7, <2>1 DEF NothingPassed
  <2>3. Covered(k) => Covered(k)'
    BY <1>2, <1>3 DEF Covered
  <2> QED  BY <2>2, <2>3 DEF Listed, Key
<1> QED  BY <1>4, <1>5, <1>6, <1>8, <1>9

\* The answers to the request for the list.
LEMMA ListAnswered ==
    ASSUME IInv, NEW b \in Batches, PageArrives(b) \/ ListArrives(b) \/ ListFails(b)
    PROVE  IInv'
<1>1. /\ batch[b].phase = "listing"
      /\ UNCHANGED <<storage, since, clock, named, stamped, copies, lastCheckTs>>
  BY DEF PageArrives, ListArrives, ListFails, AllCheckFilesLoaded, extern, files, page, past
<1>2. /\ batch[b] \in [phase : Phases, after : Int, list : SUBSET Files,
                       pending : SUBSET Files, got : SUBSET Files]
      /\ batch[b].list \subseteq Visible /\ batch[b].pending = {} /\ batch[b].got = {}
      /\ storage \in {"fs", "s3"} /\ (storage = "fs" => batch[b].list = {})
      /\ batch = [c \in Batches |-> batch[c]]
  BY <1>1 DEF IInv, Downloads
<1>3. Unlisted(b) \subseteq Visible /\ NextPage(b) \subseteq Unlisted(b)
  BY DEF Unlisted, NextPage
<1>4. /\ batch' = [c \in Batches |-> batch'[c]]
      /\ \A c \in Batches \ {b} : batch'[c] = batch[c]
  BY <1>2 DEF PageArrives, ListArrives, ListFails
<1> DEFINE Complete(list) == \A m \in list : Left(m) \subseteq list
<1>5. CASE PageArrives(b)
  <2> DEFINE list == batch[b].list \cup NextPage(b)
  <2>1. batch'[b] = [phase |-> "listing", after |-> batch[b].after, list |-> list,
                     pending |-> {}, got |-> {}]
    <3>1. batch'[b] = [batch[b] EXCEPT !.list = list]
      BY <1>2, <1>5 DEF PageArrives
    <3> HIDE DEF list
    <3> QED  BY <1>1, <1>2, <3>1
  <2>2. ASSUME Trusted, NEW m \in list, NEW n \in Left(m)
        PROVE  n \in list
    <3>1. CASE m \in batch[b].list
      BY <2>2, <3>1 DEF IInv, ListsComplete
    <3>2. CASE n \notin Unlisted(b)
      BY <1>1, <2>2, <3>2, Remaining DEF Left
    <3>3. CASE m \in NextPage(b) /\ n \in Unlisted(b)
      <4>1. m \in Visible /\ n \in Visible /\ m \in Files /\ n \in Files /\ storage = "s3"
        BY <1>3, <1>5, <3>3 DEF Visible, PageArrives
      <4>2. ~(m < n)
        BY <2>2, <4>1, LaterListed DEF IInv, Left
      <4>3. n = m \/ n < m
        BY <4>1, <4>2, SizesAssumption DEF Files
      <4> QED  BY <3>3, <4>3, PageIsLeast
    <3> QED  BY <3>1, <3>2, <3>3
  <2>3. list \in SUBSET Visible /\ storage = "s3" /\ batch[b].after \in Int
    BY <1>2, <1>3, <1>5 DEF PageArrives
  <2>4. Trusted => Complete(list)
    BY <2>2
  <2> HIDE DEF list
  <2> QED  BY <1>1, <1>4, <2>1, <2>3, <2>4, ListInvariant
<1>6. CASE ListArrives(b)
  <2> DEFINE list == batch[b].list \cup Unlisted(b)
  <2>1. list \in SUBSET Visible
    BY <1>2, <1>3
  <2>2. Trusted => Complete(list)
    <3>1. ASSUME Trusted, NEW m \in list, NEW n \in Left(m), n \notin Unlisted(b)
          PROVE  n \in batch[b].list
      BY <1>1, <3>1, Remaining DEF Left
    <3> QED  BY <3>1
  <2>3. CASE list = {}
    <3>1. batch'[b] = [batch[b] EXCEPT !.phase = "done", !.after = 0]
      BY <1>2, <1>6, <2>3 DEF ListArrives
    <3>2. batch'[b] = [phase |-> "done", after |-> 0, list |-> {},
                       pending |-> {}, got |-> {}]
      BY <1>2, <2>3, <3>1
    <3> QED  BY <1>1, <1>4, <3>2, ListInvariant
  <2>4. CASE list # {}
    <3>1. batch'[b] = [batch[b] EXCEPT !.phase = "loading", !.after = 0, !.list = list,
                                       !.pending = list]
      BY <1>2, <1>6, <2>4 DEF ListArrives
    <3> HIDE DEF list
    <3>2. batch'[b] = [phase |-> "loading", after |-> 0, list |-> list,
                       pending |-> list, got |-> {}]
      BY <1>2, <3>1
    <3> QED  BY <1>1, <1>4, <2>1, <2>2, <3>2, ListInvariant
  <2> QED  BY <2>3, <2>4
<1>7. CASE ListFails(b)
  <2>1. batch'[b] = [batch[b] EXCEPT !.phase = "failed", !.after = 0, !.list = {}]
    BY <1>2, <1>7 DEF ListFails
  <2>2. batch'[b] = [phase |-> "failed", after |-> 0, list |-> {},
                     pending |-> {}, got |-> {}]
    BY <1>2, <2>1
  <2> QED  BY <1>1, <1>4, <2>2, ListInvariant
<1> QED  BY <1>5, <1>6, <1>7

\* A file arrives.  What the poll after it would no longer ask for is in the
\* same list.
LEMMA FileInvariant ==
    ASSUME IInv, NEW b \in Batches, NEW n \in Files, FileArrives(b, n)
    PROVE  IInv'
<1> DEFINE got == batch[b].got \cup {n}
           all == Cardinality(got) >= Cardinality(batch[b].list)
<1>1. /\ n \in batch[b].pending
      /\ UNCHANGED <<storage, since, clock, named, stamped>>
      /\ copies' = [copies EXCEPT ![n] = @ + 1]
      /\ lastCheckTs' = Max({lastCheckTs, named[n]})
  BY DEF FileArrives, ProcessNewCheckFile, extern, files, past
<1>2. /\ batch[b] \in [phase : Phases, after : Int, list : SUBSET Files,
                       pending : SUBSET Files, got : SUBSET Files]
      /\ batch[b].phase = "loading" /\ batch[1].phase # "unused" /\ 1 \in Batches
      /\ batch[b].list \subseteq Visible /\ batch[b].got \subseteq Loaded
      /\ got \subseteq batch[b].list
  BY <1>1, SizesAssumption DEF IInv, Downloads, Batches
<1>3. /\ n \in Visible /\ named[n] \in Nat /\ lastCheckTs \in Nat
      /\ \A k \in Files : named[k] \in Nat /\ stamped[k] \in Nat
  BY <1>1, <1>2 DEF IInv, Clocked, Knowledge
<1>4. /\ lastCheckTs' \in {lastCheckTs, named[n]}
      /\ lastCheckTs' >= lastCheckTs /\ lastCheckTs' \in Nat
  BY <1>1, <1>3, MaxOfTwo
<1>5. /\ copies' \in [Files -> Nat] /\ Loaded' = Loaded \cup {n}
      /\ UNCHANGED <<Visible, Named>>
  BY <1>1 DEF IInv, Knowledge, Loaded, Visible, Named
<1>6. /\ all => batch'[b] = [phase |-> "done", after |-> batch[b].after, list |-> {},
                             pending |-> {}, got |-> {}]
      /\ ~all => batch'[b] = [phase |-> "loading", after |-> batch[b].after,
                              list |-> batch[b].list,
                              pending |-> batch[b].pending \ {n}, got |-> got]
      /\ \A c \in Batches \ {b} : batch'[c] = batch[c]
      /\ batch' = [batch EXCEPT ![b] = batch'[b]]
  <2>1. CASE all
    <3>1. batch' = [batch EXCEPT ![b].phase = "done", ![b].list = {},
                                 ![b].pending = {}, ![b].got = {}]
      <4>1. ~(Cardinality(got) < Cardinality(batch[b].list))
        <5>1. got \in SUBSET Files
          BY <1>2
        <5>2. Cardinality(got) \in Nat /\ Cardinality(batch[b].list) \in Nat
          BY <1>2, <5>1, FilesFinite, FS_CardinalityType
        <5> QED  BY <2>1, <5>2
      <4> QED  BY <4>1 DEF FileArrives
    <3> QED  BY <1>2, <2>1, <3>1 DEF IInv, Downloads
  <2>2. CASE ~all
    <3>1. batch' = [batch EXCEPT ![b].pending = @ \ {n}, ![b].got = got]
      BY <2>2 DEF FileArrives
    <3> QED  BY <1>2, <2>2, <3>1 DEF IInv, Downloads
  <2> QED  BY <2>1, <2>2
<1>7. all => got = batch[b].list
  BY <1>2, AllArrived
<1> HIDE DEF all, got
<1>8. Clocked'
  BY <1>1, <1>5 DEF IInv, Clocked
<1>9. Downloads'
  <2>1. batch' \in [Batches -> [phase : Phases, after : Int, list : SUBSET Files,
                                pending : SUBSET Files, got : SUBSET Files]]
    <3>1. batch'[b] \in [phase : Phases, after : Int, list : SUBSET Files,
                         pending : SUBSET Files, got : SUBSET Files]
      <4>1. got \in SUBSET Files /\ {"done", "loading"} \subseteq Phases
        BY <1>2 DEF Phases
      <4> QED  BY <1>2, <1>6, <4>1
    <3> QED  BY <1>6, <3>1 DEF IInv, Downloads
  <2>2. batch'[1].phase # "unused"
    BY <1>2, <1>6
  <2>3. ASSUME NEW c \in Batches
        PROVE  /\ batch'[c].list \subseteq Visible'
               /\ batch'[c].pending \cup batch'[c].got \subseteq batch'[c].list
               /\ batch'[c].got \subseteq Loaded'
               /\ batch'[c].phase # "loading" =>
                     batch'[c].pending = {} /\ batch'[c].got = {}
               /\ batch'[c].phase \notin {"listing", "loading"} => batch'[c].list = {}
               /\ storage = "fs" /\ batch'[c].phase = "listing" => batch'[c].list = {}
    <3>1. CASE c = b
      <4>1. batch[b].pending \subseteq batch[b].list /\ got \subseteq Loaded'
        BY <1>2, <1>5 DEF got, IInv, Downloads
      <4> QED  BY <1>2, <1>5, <1>6, <3>1, <4>1
    <3>2. CASE c # b
      BY <1>5, <1>6, <3>2 DEF IInv, Downloads
    <3> QED  BY <3>1, <3>2
  <2> QED  BY <1>1, <2>1, <2>2, <2>3 DEF IInv, Downloads
<1>10. Knowledge'
  <2>1. Loaded' \subseteq Visible'
    BY <1>3, <1>5 DEF IInv, Knowledge
  <2>2. lastCheckTs' = 0 \/ \E m \in Loaded' : lastCheckTs' = named'[m]
    BY <1>1, <1>4, <1>5 DEF IInv, Knowledge
  <2>3. ASSUME NEW c \in Batches, batch'[c].phase = "listing"
        PROVE  IF c = 1 THEN batch'[c].after = since'
                        ELSE batch'[c].after <= lastCheckTs' + MaxLate
    <3>1. batch'[c] = batch[c] /\ batch[c].after \in Int
      BY <1>6, <2>3 DEF IInv, Downloads
    <3>2. IF c = 1 THEN batch[c].after = since ELSE batch[c].after <= lastCheckTs + MaxLate
      BY <2>3, <3>1 DEF IInv, Knowledge
    <3> QED  BY <1>1, <1>3, <1>4, <3>1, <3>2, SizesAssumption
  <2>4. batch'[1].phase # "unused"
    BY <1>2, <1>6
  <2> QED  BY <1>1, <1>4, <1>5, <2>1, <2>2, <2>3, <2>4 DEF IInv, Knowledge
<1>11. Trusted' => Trusted
  BY <1>1, <1>5, TrustedKept DEF InOrder
<1>12. ListsComplete'
  <2> SUFFICES ASSUME Trusted', NEW c \in Batches, NEW m \in batch'[c].list,
                      NEW k \in Left(m)'
               PROVE  k \in batch'[c].list
    BY DEF ListsComplete
  <2>1. m \in batch[c].list /\ batch'[c].list = batch[c].list
    BY <1>6
  <2>2. m \in Visible /\ k \in Visible
    BY <1>5, <2>1 DEF IInv, Downloads, Left
  <2>3. k \in Left(m)
    BY <1>1, <1>4, <2>2, LeftKept DEF IInv
  <2> QED  BY <1>11, <2>1, <2>3 DEF IInv, ListsComplete
<1>13. NothingPassed'
  <2> SUFFICES ASSUME Trusted', NEW k \in Visible', Listed(k, since)'
               PROVE  Covered(k)' \/ Listed(k, lastCheckTs + MaxLate)'
    BY DEF NothingPassed
  <2>1. k \in Visible /\ Listed(k, since) /\ k \in Files
    BY <1>1, <1>2, <1>5, <1>6 DEF Listed, Key, Visible
  <2>2. Covered(k) => Covered(k)'
    <3>1. CASE k \in Loaded
      BY <1>5, <3>1 DEF Covered
    <3>2. ASSUME NEW c \in Batches, batch[c].phase = "loading",
                 k \in batch[c].list \ batch[c].got
          PROVE  Covered(k)'
      <4>1. CASE k = n
        BY <1>5, <4>1 DEF Covered
      <4>2. CASE c # b
        BY <1>6, <3>2, <4>2 DEF Covered
      <4>3. CASE c = b /\ k # n
        <5>1. k \in batch[b].list /\ k \notin got
          BY <3>2, <4>3 DEF got
        <5>2. ~all
          BY <1>7, <5>1
        <5> QED  BY <1>6, <5>1, <5>2 DEF Covered
      <4> QED  BY <4>1, <4>2, <4>3
    <3> QED  BY <3>1, <3>2 DEF Covered
  <2>3. CASE Listed(k, lastCheckTs + MaxLate) /\ ~Listed(k, named[n] + MaxLate)
    <3>1. k \in Left(n)
      BY <2>1, <2>3 DEF Left
    <3>2. k \in batch[b].list
      BY <1>1, <1>2, <1>11, <3>1 DEF IInv, ListsComplete, Downloads
    <3>3. Covered(k)
      BY <1>2, <3>2 DEF Covered
    <3> QED  BY <2>2, <3>3
  <2>4. CASE Listed(k, lastCheckTs + MaxLate) /\ Listed(k, named[n] + MaxLate)
    BY <1>1, <1>4, <2>4 DEF Listed, Key
  <2>5. Covered(k) \/ Listed(k, lastCheckTs + MaxLate)
    BY <1>11, <2>1 DEF IInv, NothingPassed
  <2> QED  BY <2>2, <2>3, <2>4, <2>5
<1> QED  BY <1>8, <1>9, <1>10, <1>12, <1>13 DEF IInv

\* A file that does not arrive stays in the list of its download.
LEMMA FailureInvariant ==
    ASSUME IInv, NEW b \in Batches, NEW n \in Files, FileFails(b, n)
    PROVE  IInv'
<1>1. /\ batch' = [batch EXCEPT ![b].pending = @ \ {n}]
      /\ UNCHANGED <<storage, since, clock, named, stamped, copies, lastCheckTs>>
  BY DEF FileFails, extern, files, page, past
<1>2. UNCHANGED <<Visible, Named, Loaded>>
  BY <1>1 DEF Visible, Named, Loaded
<1>3. /\ batch \in [Batches -> [phase : Phases, after : Int, list : SUBSET Files,
                                pending : SUBSET Files, got : SUBSET Files]]
      /\ 1 \in Batches
  BY SizesAssumption DEF IInv, Downloads, Batches
<1>4. \A c \in Batches :
         /\ batch'[c].phase = batch[c].phase /\ batch'[c].after = batch[c].after
         /\ batch'[c].list = batch[c].list /\ batch'[c].got = batch[c].got
         /\ batch'[c].pending \subseteq batch[c].pending
  <2> SUFFICES ASSUME NEW c \in Batches
               PROVE  /\ batch'[c].phase = batch[c].phase /\ batch'[c].after = batch[c].after
                      /\ batch'[c].list = batch[c].list /\ batch'[c].got = batch[c].got
                      /\ batch'[c].pending \subseteq batch[c].pending
    OBVIOUS
  <2>1. CASE c = b
    BY <1>1, <1>3, <2>1
  <2>2. CASE c # b
    BY <1>1, <1>3, <2>2
  <2> QED  BY <2>1, <2>2
<1>5. batch' \in [Batches -> [phase : Phases, after : Int, list : SUBSET Files,
                              pending : SUBSET Files, got : SUBSET Files]]
  <2>1. [batch[b] EXCEPT !.pending = @ \ {n}] \in
            [phase : Phases, after : Int, list : SUBSET Files,
             pending : SUBSET Files, got : SUBSET Files]
    BY <1>3
  <2> QED  BY <1>1, <1>3, <2>1
<1>6. Clocked'
  BY <1>1, <1>2 DEF IInv, Clocked
<1>7. Downloads'
  BY <1>1, <1>2, <1>3, <1>4, <1>5 DEF IInv, Downloads
<1>8. Knowledge'
  BY <1>1, <1>2, <1>3, <1>4 DEF IInv, Knowledge
<1>9. Trusted' => Trusted
  BY <1>1, <1>2, TrustedKept DEF InOrder
<1>10. ListsComplete'
  <2> SUFFICES ASSUME Trusted', NEW c \in Batches, NEW m \in batch'[c].list,
                      NEW k \in Left(m)'
               PROVE  k \in batch'[c].list
    BY DEF ListsComplete
  <2>1. m \in Visible /\ k \in Visible
    BY <1>2, <1>4 DEF IInv, Downloads, Left
  <2>2. k \in Left(m)
    BY <1>1, <2>1, LeftKept DEF IInv, Knowledge
  <2> QED  BY <1>4, <1>9, <2>2 DEF IInv, ListsComplete
<1>11. NothingPassed'
  <2>1. \A k \in Files : Covered(k) => Covered(k)'
    BY <1>2, <1>4 DEF Covered
  <2> QED  BY <1>1, <1>2, <1>3, <1>4, <1>9, <2>1 DEF IInv, NothingPassed, Listed, Key, Visible
<1> QED  BY <1>6, <1>7, <1>8, <1>10, <1>11 DEF IInv

LEMMA NextInvariant == IInv /\ [Next]_vars => IInv'
<1> SUFFICES ASSUME IInv, [Next]_vars PROVE IInv'
  OBVIOUS
<1>1. ASSUME NEW n \in Files, NameFile(n) \/ ShowFile(n) PROVE IInv'
  BY <1>1, PublisherInvariant
<1>2. CASE Open
  <2>1. clock - Timeframe \in Int /\ 1 \in Batches
    BY SizesAssumption DEF IInv, Clocked, Batches
  <2> QED  BY <1>2, <2>1, RequestInvariant DEF Open
<1>3. ASSUME NEW b \in Batches, GetNewChecks(b) PROVE IInv'
  <2>1. PICK late \in 0..MaxLate : Request(b, lastCheckTs + late)
    BY <1>3 DEF GetNewChecks
  <2>2. b \in Int /\ b - 1 \in Batches /\ b # 1 /\ batch[b - 1].phase # "unused"
    BY <1>3, SizesAssumption DEF GetNewChecks, Batches
  <2>3. batch[1].phase # "unused"
    BY <2>2 DEF IInv, Downloads
  <2>4. lastCheckTs + late \in Int /\ lastCheckTs + late <= lastCheckTs + MaxLate
    BY SizesAssumption DEF IInv, Knowledge
  <2> QED  BY <2>1, <2>3, <2>4, RequestInvariant
<1>4. ASSUME NEW b \in Batches, PageArrives(b) \/ ListArrives(b) \/ ListFails(b)
      PROVE  IInv'
  BY <1>4, ListAnswered
<1>5. ASSUME NEW b \in Batches, NEW n \in Files, FileArrives(b, n) PROVE IInv'
  BY <1>5, FileInvariant
<1>6. ASSUME NEW b \in Batches, NEW n \in Files, FileFails(b, n) PROVE IInv'
  BY <1>6, FailureInvariant
<1>7. CASE UNCHANGED vars
  <2>1. UNCHANGED <<storage, since, clock, named, stamped, batch, copies, lastCheckTs>>
    BY <1>7 DEF vars, extern, files, page, past
  <2>2. UNCHANGED <<Visible, Named, Loaded>>
    BY <2>1 DEF Visible, Named, Loaded
  <2>3. UNCHANGED Trusted
    BY <2>1, <2>2 DEF Trusted, Spaced, Key, InOrder
  <2>4. \A m : UNCHANGED Left(m)
    BY <2>1, <2>2 DEF Left, Listed, Key
  <2> QED  BY <2>1, <2>2, <2>3, <2>4 DEF IInv, Clocked, Downloads, Knowledge, ListsComplete,
                                         NothingPassed, Covered, Listed, Key
<1> QED  BY <1>1, <1>2, <1>3, <1>4, <1>5, <1>6, <1>7 DEF Next, BatchStep

\* What the page has not passed over is loaded, is held by a download, or is
\* listed by any poll.
LEMMA HeldOrListed ==
    ASSUME IInv, Trusted, NEW n \in Visible, Listed(n, since)
    PROVE  Covered(n) \/ Listed(n, lastCheckTs + MaxLate)
BY DEF IInv, NothingPassed

\* A list that is complete holds what no other download does.
LEMMA AnsweredHolds ==
    ASSUME IInv, NEW b \in Batches, Answered(b), ListArrives(b), Trusted,
           NEW n \in Visible, Listed(n, since)
    PROVE  n \in Loaded' \/ \E c \in Batches : n \in (batch[c].pending \cup FailedOf(c))'
<1> DEFINE list == batch[b].list \cup Unlisted(b)
<1>1. /\ batch[b].phase = "listing" /\ batch \in [Batches -> [phase : Phases, after : Int,
             list : SUBSET Files, pending : SUBSET Files, got : SUBSET Files]]
      /\ UNCHANGED copies
  BY DEF ListArrives, page, IInv, Downloads
<1>2. Loaded' = Loaded
  BY <1>1 DEF Loaded
<1>3. CASE n \in Loaded
  BY <1>2, <1>3
<1>4. ASSUME NEW c \in Batches, batch[c].phase = "loading",
             n \in batch[c].list \ batch[c].got
      PROVE  \E d \in Batches : n \in (batch[d].pending \cup FailedOf(d))'
  <2>1. c # b /\ batch'[c] = batch[c]
    BY <1>1, <1>4 DEF ListArrives
  <2> QED  BY <1>4, <2>1 DEF FailedOf
<1>5. CASE Listed(n, lastCheckTs + MaxLate)
  <2>1. n \in list
    BY <1>1, <1>5, Remaining
  <2>2. batch'[b].pending = list
    <3>1. list # {}
      BY <2>1
    <3>2. batch' = [batch EXCEPT ![b].phase = "loading", ![b].after = 0,
                                 ![b].list = list, ![b].pending = list]
      BY <3>1 DEF ListArrives
    <3> HIDE DEF list
    <3> QED  BY <1>1, <3>2
  <2> QED  BY <2>1, <2>2
<1>6. Covered(n) \/ Listed(n, lastCheckTs + MaxLate)
  BY HeldOrListed
<1> QED  BY <1>3, <1>4, <1>5, <1>6 DEF Covered

\* The only step that completes a list is its arrival.
LEMMA AnsweredByList ==
    ASSUME IInv, [Next]_vars, NEW b \in Batches, Answered(b) PROVE ListArrives(b)
<1> USE DEF Answered
<1>1. batch \in [Batches -> [phase : Phases, after : Int, list : SUBSET Files,
                             pending : SUBSET Files, got : SUBSET Files]]
  BY DEF IInv, Downloads
<1>2. batch'[b] # batch[b] /\ batch[b].phase # "loading"
  OBVIOUS
<1>3. ASSUME NEW c \in Batches, NEW after, Request(c, after) PROVE FALSE
  BY <1>1, <1>2, <1>3 DEF Request
<1>4. ASSUME NEW n \in Files, NameFile(n) \/ ShowFile(n) PROVE FALSE
  BY <1>2, <1>4 DEF NameFile, ShowFile
<1>5. CASE Open
  BY <1>3, <1>5, SizesAssumption DEF Open, Batches
<1>6. CASE UNCHANGED vars
  BY <1>2, <1>6 DEF vars
<1>7. ASSUME NEW c \in Batches, BatchStep(c) PROVE ListArrives(b)
  <2>1. CASE GetNewChecks(c)
    BY <1>3, <2>1 DEF GetNewChecks
  <2>2. CASE PageArrives(c) \/ ListFails(c)
    BY <1>1, <1>2, <2>2 DEF PageArrives, ListFails
  <2>3. CASE ListArrives(c)
    <3>1. c = b
      BY <1>1, <1>2, <2>3 DEF ListArrives
    <3> QED  BY <2>3, <3>1
  <2>4. ASSUME NEW n \in Files, FileArrives(c, n) \/ FileFails(c, n) PROVE FALSE
    <3>1. batch[c].phase = "loading"
      BY <2>4 DEF FileArrives, FileFails, IInv, Downloads
    <3> QED  BY <1>1, <1>2, <2>4, <3>1 DEF FileArrives, FileFails
  <2> QED  BY <1>7, <2>1, <2>2, <2>3, <2>4 DEF BatchStep
<1> QED  BY <1>4, <1>5, <1>6, <1>7 DEF Next

\* A page whose list is complete passes over no file it asked for when it
\* opened, whatever the publishers, downloads and failures did: with the
\* local storage as long as files are further apart than the readings of the
\* clock in a poll, with S3 if also they become visible in the order of their
\* names.
THEOREM NothingMissed == Spec => PollsMissNothing
<1> DEFINE Holds == (\E b \in Batches : Answered(b)) => (Trusted =>
          \A n \in Visible : Listed(n, since) =>
              n \in Loaded' \/ \E b \in Batches : n \in (batch[b].pending \cup FailedOf(b))')
<1>1. Init => IInv
  BY InitInvariant
<1>2. IInv /\ [Next]_vars => IInv'
  BY NextInvariant
<1>3. IInv /\ [Next]_vars => [Holds]_vars
  <2> SUFFICES ASSUME IInv, [Next]_vars, NEW b \in Batches, Answered(b), Trusted,
                      NEW n \in Visible, Listed(n, since)
               PROVE  \/ n \in Loaded'
                      \/ \E c \in Batches : n \in (batch[c].pending \cup FailedOf(c))'
    OBVIOUS
  <2> QED  BY AnsweredByList, AnsweredHolds
<1> QED  BY <1>1, <1>2, <1>3, PTL DEF Spec, PollsMissNothing

-----------------------------------------------------------------------------
(* The head of the page. *)

\* Without an error a download that loads waits for something, and has or
\* awaits everything on its list.
Awaited ==
    /\ failures \in Nat
    /\ failures = 0 => \A b \in Batches : batch[b].phase = "loading" =>
          batch[b].list = batch[b].pending \cup batch[b].got /\ batch[b].pending # {}

\* The head of the page is behind only while a download has some of its files.
Current ==
    Loaded = {} \/ overall = OverallOf(Loaded) \/ \E b \in Batches : batch[b].got # {}

Remembered ==
    /\ taken \in Timings /\ lastResult \in Nat
    /\ \A n \in Loaded : \A e \in ResultsIn(n) : lastResult >= taken[n][e]

CInv == Awaited /\ Current /\ Remembered

\* The time of the newest result is that of a result the page has.
LEMMA LatestResult ==
    ASSUME taken \in Timings, NEW n \in Files, NEW last \in Nat
    PROVE  LET S == {last} \cup {taken[n][e] : e \in ResultsIn(n)} IN
           Max(S) \in Nat /\ \A x \in S : Max(S) >= x
<1> DEFINE S == {last} \cup {taken[n][e] : e \in ResultsIn(n)}
           f == taken[n]
<1>1. NumEndpoints \in Nat /\ f \in [1..NumEndpoints -> Nat] /\ ResultsIn(n) \subseteq Endpoints
  BY SizesAssumption, TimingsAssumption DEF Endpoints, ResultsIn
<1>2. PICK m \in Nat : \A i \in 1..NumEndpoints : f[i] <= m
  <2> HIDE DEF f
  <2> QED  BY <1>1, BoundOfNats
<1>3. S \in SUBSET Nat /\ S # {} /\ m + last \in Nat /\ \A x \in S : x <= m + last
  BY <1>1, <1>2 DEF Endpoints
<1> HIDE DEF S
<1>4. Max(S) \in S /\ \A x \in S : x <= Max(S)
  BY <1>3, MaxOfNats
<1>5. Max(S) \in Nat /\ \A x \in S : Max(S) >= x
  BY <1>3, <1>4
<1> QED  BY <1>5 DEF S

\* The status at the head of the page depends on what the files say.
LEMMA OverallKept ==
    ASSUME UNCHANGED <<history, taken>>, NEW S
    PROVE  OverallOf(S) = OverallOf(S)'
BY DEF OverallOf, Worst, Newest, Reporting, ResultsIn

\* No step of a download but the arrival of a file changes what the head of
\* the page is compared with, unless it sets the head itself.
LEMMA CurrentKept ==
    ASSUME Current, UNCHANGED <<history, taken, copies, overall>>,
           \A b \in Batches : batch[b].got \subseteq batch'[b].got
    PROVE  Current'
<1>1. Loaded' = Loaded
  BY DEF Loaded
<1>2. overall = OverallOf(Loaded) => overall' = OverallOf(Loaded)'
  BY <1>1, OverallKept
<1>3. (\E b \in Batches : batch[b].got # {}) => \E b \in Batches : batch'[b].got # {}
  OBVIOUS
<1> QED  BY <1>1, <1>2, <1>3 DEF Current

LEMMA RememberedKept ==
    ASSUME Remembered, UNCHANGED <<history, taken, copies, lastResult>> PROVE Remembered'
BY DEF Remembered, Loaded, ResultsIn

\* Nothing is loaded at first.
LEMMA CurrentInit == Init => CInv
<1> SUFFICES ASSUME Init PROVE CInv
  OBVIOUS
<1>1. Loaded = {}
  BY DEF Init, Loaded
<1> QED  BY <1>1 DEF Init, CInv, Awaited, Current, Remembered

\* A list that arrives.
LEMMA CurrentList ==
    ASSUME IInv, CInv, NEW b \in Batches, ListArrives(b) PROVE CInv'
<1> DEFINE list == batch[b].list \cup Unlisted(b)
<1>1. /\ batch \in [Batches -> [phase : Phases, after : Int, list : SUBSET Files,
                                pending : SUBSET Files, got : SUBSET Files]]
      /\ batch[b].phase = "listing" /\ UNCHANGED <<history, taken, copies>>
      /\ UNCHANGED <<lastResult, failures>>
      /\ batch[b].got = {} /\ batch[b].pending = {}
  BY DEF IInv, Downloads, ListArrives, extern, page
<1>2. Remembered'
  BY <1>1, RememberedKept DEF CInv
<1>3. CASE list = {}
  <2>1. /\ batch' = [batch EXCEPT ![b].phase = "done", ![b].after = 0]
        /\ overall' = OverallOf({n \in Files : copies[n] > 0})
    BY <1>3 DEF ListArrives, AllCheckFilesLoaded
  <2>2. Awaited'
    BY <1>1, <2>1 DEF CInv, Awaited
  <2>3. Current'
    <3>1. {n \in Files : copies[n] > 0} = Loaded'
      BY <1>1 DEF Loaded
    <3> QED  BY <1>1, <2>1, <3>1, OverallKept DEF Current
  <2> QED  BY <1>2, <2>2, <2>3 DEF CInv
<1>4. CASE list # {}
  <2>1. /\ batch' = [batch EXCEPT ![b].phase = "loading", ![b].after = 0,
                                  ![b].list = list, ![b].pending = list]
        /\ UNCHANGED overall
    BY <1>4 DEF ListArrives, page
  <2> HIDE DEF list
  <2>2. batch'[b].list = list /\ batch'[b].pending = list /\ batch'[b].got = {}
    BY <1>1, <2>1
  <2>3. \A c \in Batches \ {b} : batch'[c] = batch[c]
    BY <1>1, <2>1
  <2>4. Awaited'
    BY <1>1, <1>4, <2>2, <2>3 DEF CInv, Awaited
  <2>5. Current'
    <3>1. \A c \in Batches : batch[c].got \subseteq batch'[c].got
      BY <1>1, <2>2, <2>3
    <3> QED  BY <1>1, <2>1, <3>1, CurrentKept DEF CInv
  <2> QED  BY <1>2, <2>4, <2>5 DEF CInv
<1> QED  BY <1>3, <1>4

\* A file that arrives.  After the last one of its list the head of the page
\* is set from everything that was loaded; before that the download has it.
LEMMA CurrentFile ==
    ASSUME IInv, CInv, NEW b \in Batches, NEW n \in Files, FileArrives(b, n) PROVE CInv'
<1> DEFINE got == batch[b].got \cup {n}
           all == Cardinality(got) >= Cardinality(batch[b].list)
<1>1. /\ batch \in [Batches -> [phase : Phases, after : Int, list : SUBSET Files,
                                pending : SUBSET Files, got : SUBSET Files]]
      /\ n \in batch[b].pending /\ batch[b].pending \cup batch[b].got \subseteq batch[b].list
      /\ batch[b].phase = "loading"
      /\ UNCHANGED <<history, taken, failures>>
      /\ copies \in [Files -> Nat] /\ copies' = [copies EXCEPT ![n] = @ + 1]
  BY DEF IInv, Downloads, Knowledge, FileArrives, ProcessNewCheckFile, extern
<1>2. Loaded' = Loaded \cup {n}
  BY <1>1 DEF Loaded
<1>3. Remembered'
  <2>1. /\ lastResult' \in Nat /\ lastResult' >= lastResult
        /\ \A e \in ResultsIn(n) : lastResult' >= taken[n][e]
    <3> DEFINE S == {lastResult} \cup {taken[n][e] : e \in ResultsIn(n)}
    <3>1. lastResult' = Max(S)
      BY DEF FileArrives, ProcessNewCheckFile
    <3>2. Max(S) \in Nat /\ \A x \in S : Max(S) >= x
      BY LatestResult DEF CInv, Remembered
    <3> QED  BY <3>1, <3>2
  <2>2. \A k \in Files : ResultsIn(k)' = ResultsIn(k)
    BY <1>1 DEF ResultsIn
  <2>3. ASSUME NEW k \in Loaded, NEW e \in ResultsIn(k) PROVE lastResult' >= taken[k][e]
    <3>1. lastResult \in Nat /\ lastResult >= taken[k][e] /\ taken[k][e] \in Nat
      BY TimingsAssumption DEF CInv, Remembered, Loaded, ResultsIn
    <3> QED  BY <2>1, <3>1
  <2> QED  BY <1>1, <1>2, <2>1, <2>2, <2>3 DEF CInv, Remembered, Loaded
<1>4. CASE all
  <2>1. /\ batch' = [batch EXCEPT ![b].phase = "done", ![b].list = {},
                                  ![b].pending = {}, ![b].got = {}]
        /\ overall' = OverallOf({m \in Files : copies'[m] > 0})
    <3>1. ~(Cardinality(got) < Cardinality(batch[b].list))
      <4>1. got \in SUBSET Files /\ batch[b].list \in SUBSET Files
        BY <1>1
      <4>2. Cardinality(got) \in Nat /\ Cardinality(batch[b].list) \in Nat
        BY <4>1, FilesFinite, FS_CardinalityType
      <4> QED  BY <1>4, <4>2
    <3> QED  BY <3>1 DEF FileArrives, AllCheckFilesLoaded
  <2>2. Awaited'
    BY <1>1, <2>1 DEF CInv, Awaited
  <2>3. Current'
    <3>1. {m \in Files : copies'[m] > 0} = Loaded'
      BY DEF Loaded
    <3> QED  BY <1>1, <2>1, <3>1, OverallKept DEF Current
  <2> QED  BY <1>3, <2>2, <2>3 DEF CInv
<1>5. CASE ~all
  <2>1. batch' = [batch EXCEPT ![b].pending = @ \ {n}, ![b].got = got]
    BY <1>5 DEF FileArrives
  <2>2. batch[b].list # got
    <3>1. got \in SUBSET Files
      BY <1>1
    <3>2. Cardinality(got) \in Nat
      BY <3>1, FilesFinite, FS_CardinalityType
    <3> QED  BY <1>5, <3>2, SMTT(30)
  <2>3. /\ batch'[b].phase = "loading" /\ batch'[b].list = batch[b].list
        /\ batch'[b].pending = batch[b].pending \ {n} /\ batch'[b].got = got
        /\ \A c \in Batches \ {b} : batch'[c] = batch[c]
    BY <1>1, <2>1
  <2>4. Awaited'
    BY <1>1, <2>2, <2>3 DEF CInv, Awaited
  <2>5. Current'
    BY <2>3 DEF Current
  <2> QED  BY <1>3, <2>4, <2>5 DEF CInv
<1> QED  BY <1>4, <1>5

LEMMA CurrentNext == IInv /\ CInv /\ [Next]_vars => CInv'
<1> SUFFICES ASSUME IInv, CInv, [Next]_vars PROVE CInv'
  OBVIOUS
<1>0. batch \in [Batches -> [phase : Phases, after : Int, list : SUBSET Files,
                             pending : SUBSET Files, got : SUBSET Files]]
  BY DEF IInv, Downloads
\* The steps that neither load a file nor end a list.
<1>1. ASSUME UNCHANGED <<history, taken, copies, lastResult, overall>>, failures' \in Nat,
             failures' = 0 => failures = 0,
             \A c \in Batches : /\ batch'[c].got = batch[c].got
                                /\ failures' = 0 => \/ batch'[c] = batch[c]
                                                    \/ batch'[c].phase # "loading"
      PROVE  CInv'
  <2>1. Current' /\ Remembered'
    BY <1>1, CurrentKept, RememberedKept DEF CInv
  <2>2. Awaited'
    BY <1>1 DEF CInv, Awaited
  <2> QED  BY <2>1, <2>2 DEF CInv
<1>2. ASSUME NEW n \in Files, NameFile(n) \/ ShowFile(n) PROVE CInv'
  BY <1>1, <1>2 DEF NameFile, ShowFile, extern, page, CInv, Awaited
<1>3. ASSUME NEW b \in Batches, NEW after, Request(b, after) PROVE CInv'
  BY <1>0, <1>1, <1>3 DEF Request, extern, page, CInv, Awaited
<1>4. ASSUME NEW b \in Batches, PageArrives(b) PROVE CInv'
  BY <1>0, <1>1, <1>4 DEF PageArrives, extern, page, CInv, Awaited
<1>5. ASSUME NEW b \in Batches, ListFails(b) PROVE CInv'
  BY <1>0, <1>1, <1>5 DEF ListFails, extern, page, CInv, Awaited
<1>6. ASSUME NEW b \in Batches, NEW n \in Files, FileFails(b, n) PROVE CInv'
  BY <1>0, <1>1, <1>6 DEF FileFails, extern, page, CInv, Awaited
<1>7. CASE UNCHANGED vars
  BY <1>1, <1>7 DEF vars, extern, page, CInv, Awaited
<1>8. CASE Open
  BY <1>3, <1>8, SizesAssumption DEF Open, Batches
<1>9. ASSUME NEW b \in Batches, GetNewChecks(b) PROVE CInv'
  BY <1>3, <1>9 DEF GetNewChecks
<1> QED  BY <1>2, <1>4, <1>5, <1>6, <1>7, <1>8, <1>9, CurrentList, CurrentFile
         DEF Next, BatchStep

\* With nothing under way no download has some of its files.
LEMMA CurrentFollows == IInv /\ CInv => PageIsCurrent
<1> SUFFICES ASSUME IInv, CInv, UnderWay = {}, failures = 0, Loaded # {}
             PROVE  /\ overall = OverallOf(Loaded)
                    /\ \A n \in Loaded : \A e \in ResultsIn(n) : lastResult >= taken[n][e]
  BY DEF PageIsCurrent
<1>1. ASSUME NEW b \in Batches PROVE batch[b].got = {}
  <2>1. batch[b].phase # "loading"
    BY DEF UnderWay, CInv, Awaited
  <2> QED  BY <2>1 DEF IInv, Downloads
<1> QED  BY <1>1 DEF CInv, Current, Remembered

\* Whatever order the files became visible in, their results were taken in
\* and the overlapping downloads delivered them, the head of the page is right when nothing is under way,
\* as long as no answer was an error.
THEOREM HeadIsRight == Spec => []PageIsCurrent
<1>1. Init => IInv /\ CInv
  BY InitInvariant, CurrentInit
<1>2. IInv /\ CInv /\ [Next]_vars => (IInv /\ CInv)'
  BY NextInvariant, CurrentNext
<1>3. IInv /\ CInv => PageIsCurrent
  BY CurrentFollows
<1> QED  BY <1>1, <1>2, <1>3, PTL DEF Spec

-----------------------------------------------------------------------------
(* The results in order. *)

Results == {r \in Files \X Endpoints : r[2] \in ResultsIn(r[1])}
Event   == [result : Files \X Endpoints, status : Status, message : BOOLEAN]

\* There are finitely many results in a set of files.
LEMMA ResultsFinite ==
    ASSUME NEW n PROVE ResultsIn(n) \in SUBSET Endpoints /\ IsFiniteSet(ResultsIn(n))
<1>1. IsFiniteSet(Endpoints)
  BY FS_Interval, SizesAssumption DEF Endpoints
<1>2. ResultsIn(n) \in SUBSET Endpoints
  BY DEF ResultsIn
<1> QED  BY <1>1, <1>2, FS_Subset

\* A family of finite sets, one for each of finitely many files.
LEMMA FamilyFinite ==
    ASSUME NEW f, f = [n \in Files |-> f[n]], \A n \in Files : IsFiniteSet(f[n])
    PROVE  IsFiniteSet(UNION {f[n] : n \in Files})
<1> DEFINE T == {f[n] : n \in Files}
<1>1. f \in Surjection(Files, T)
  <2>1. f \in [Files -> T] /\ \A t \in T : \E n \in Files : f[n] = t
    OBVIOUS
  <2> HIDE DEF T
  <2> QED  BY <2>1, Fun_IsSurj
<1>2. IsFiniteSet(Files)
  BY FilesFinite
<1>3. \A t \in T : IsFiniteSet(t)
  OBVIOUS
<1> HIDE DEF T
<1>4. IsFiniteSet(T)
  BY <1>1, <1>2, FS_Surjection
<1>5. IsFiniteSet(UNION T)
  BY <1>3, <1>4, FS_UNION
<1> QED  BY <1>5 DEF T

LEMMA TriplesFinite ==
    ASSUME NEW A, NEW B, NEW C, IsFiniteSet(A), IsFiniteSet(B), IsFiniteSet(C)
    PROVE  IsFiniteSet(A \X B \X C)
<1> DEFINE P == (A \X B) \X C
           f == [p \in P |-> <<p[1][1], p[1][2], p[2]>>]
<1>1. IsFiniteSet(P)
  <2>1. IsFiniteSet(A \X B)
    BY FS_Product
  <2> QED  BY <2>1, FS_Product
<1>2. f \in [P -> A \X B \X C]
  OBVIOUS
<1>3. ASSUME NEW t \in A \X B \X C PROVE \E p \in P : f[p] = t
  <2> DEFINE p == <<<<t[1], t[2]>>, t[3]>>
  <2>1. p \in P /\ f[p] = t
    OBVIOUS
  <2> QED  BY <2>1
<1> HIDE DEF P, f
<1>4. f \in Surjection(P, A \X B \X C)
  BY <1>2, <1>3, Fun_IsSurj
<1> QED  BY <1>1, <1>4, FS_Surjection

LEMMA CopiesFinite ==
    ASSUME NEW loads \in [Files -> Nat]
    PROVE  /\ IsFiniteSet(Copies(loads)) /\ Cardinality(Copies(loads)) \in Nat
           /\ Copies(loads) = {x \in Files \X Endpoints \X Nat :
                  x[2] \in ResultsIn(x[1]) /\ 1 <= x[3] /\ x[3] <= loads[x[1]]}
<1> DEFINE f == [n \in Files |-> {n} \X ResultsIn(n) \X (1..loads[n])]
<1>1. ASSUME NEW n \in Files PROVE IsFiniteSet({n} \X ResultsIn(n) \X (1..loads[n]))
  <2>1. IsFiniteSet({n}) /\ IsFiniteSet(ResultsIn(n))
    BY ResultsFinite, FS_Singleton
  <2>2. IsFiniteSet(1..loads[n])
    BY FS_Interval
  <2> QED  BY <2>1, <2>2, TriplesFinite
<1>2. Copies(loads) = UNION {f[n] : n \in Files}
  BY DEF Copies
<1>3. \A n \in Files : IsFiniteSet(f[n])
  BY <1>1
<1>4. f = [n \in Files |-> f[n]]
  OBVIOUS
<1> HIDE DEF f
<1>5. IsFiniteSet(Copies(loads))
  BY <1>2, <1>3, <1>4, FamilyFinite
<1>6. Copies(loads) = {x \in Files \X Endpoints \X Nat :
                  x[2] \in ResultsIn(x[1]) /\ 1 <= x[3] /\ x[3] <= loads[x[1]]}
  BY ResultsFinite DEF Copies
<1> QED  BY <1>5, <1>6, FS_CardinalityType

\* When the copy x of a result was taken, and what is known of its place.
Time(x) == taken[x[1]][x[2]]
LEMMA CopiesTyped ==
    ASSUME taken \in Timings, NEW loads \in [Files -> Nat]
    PROVE  /\ \A x \in Copies(loads) :
                 /\ x[1] \in Files /\ x[2] \in Endpoints /\ x[3] \in Nat
                 /\ x[2] \in Int /\ Time(x) \in Nat /\ x = <<x[1], x[2], x[3]>>
           /\ \A x, y \in Copies(loads) : Time(x) = Time(y) => x[1] = y[1]
<1>1. /\ taken \in [Files -> [Endpoints -> Nat]]
      /\ \A m, n \in Files : \A e, f \in Endpoints : m # n => taken[m][e] # taken[n][f]
  BY TimingsAssumption
<1>2. ASSUME NEW x \in Copies(loads)
      PROVE  /\ x[1] \in Files /\ x[2] \in Endpoints /\ x[3] \in Nat
             /\ x[2] \in Int /\ x = <<x[1], x[2], x[3]>>
  <2>1. x \in Files \X Endpoints \X Nat
    BY CopiesFinite
  <2>2. x[1] \in Files /\ x[2] \in Endpoints /\ x[3] \in Nat /\ x = <<x[1], x[2], x[3]>>
    BY <2>1
  <2> QED  BY <2>2, SizesAssumption DEF Endpoints
<1> QED  BY <1>1, <1>2 DEF Time

\* The sorted results are the copies in the order of their timestamps.
LEMMA OrderedIs ==
    ASSUME taken \in Timings, NEW loads \in [Files -> Nat]
    PROVE  LET all == Copies(loads)  ordered == OrderedResults(loads)  n == Cardinality(all) IN
           /\ ordered \in Seq(Results) /\ Len(ordered) = n
           /\ \E r \in [1..n -> all] :
                 /\ \A k \in 1..n : ordered[k] = <<r[k][1], r[k][2]>>
                 /\ \A x \in all : \E k \in 1..n : r[k] = x
                 /\ \A k, l \in 1..n : /\ k <= l => NotAfter(r[k], r[l])
                                       /\ r[k] = r[l] => k = l
<1> DEFINE all == Copies(loads)
           upTo == [x \in all |-> {y \in all : NotAfter(y, x)}]
           n == Cardinality(all)
           r == Ranked(all, upTo)
<1>1. /\ IsFiniteSet(all) /\ n \in Nat
      /\ \A x \in all : x \in Files \X Endpoints \X Nat /\ <<x[1], x[2]>> \in Results
  BY CopiesFinite DEF Results
<1>2. /\ \A x \in all : /\ Time(x) \in Nat /\ x[2] \in Int /\ x[3] \in Nat
                         /\ x = <<x[1], x[2], x[3]>>
      /\ \A x, y \in all : Time(x) = Time(y) => x[1] = y[1]
  BY CopiesTyped
<1>3. Chained(all, upTo)
  <2>1. upTo \in [all -> SUBSET all]
    OBVIOUS
  <2>2. \A x \in all : x \in upTo[x]
    BY <1>2 DEF NotAfter, Time
  <2>3. ASSUME NEW x \in all, NEW y \in all
        PROVE  upTo[x] \subseteq upTo[y] \/ upTo[y] \subseteq upTo[x]
    <3>1. NotAfter(x, y) \/ NotAfter(y, x)
      BY <1>2 DEF NotAfter, Time
    <3>2. ASSUME NEW a \in all, NEW b \in all, NEW c \in all, NotAfter(a, b), NotAfter(b, c)
          PROVE  NotAfter(a, c)
      <4>1. /\ Time(a) \in Nat /\ a[2] \in Int /\ a[3] \in Nat
            /\ Time(b) \in Nat /\ b[2] \in Int /\ b[3] \in Nat
            /\ Time(c) \in Nat /\ c[2] \in Int /\ c[3] \in Nat
        BY <1>2
      <4> QED  BY <3>2, <4>1 DEF NotAfter, Time
    <3>3. upTo[x] = {z \in all : NotAfter(z, x)} /\ upTo[y] = {z \in all : NotAfter(z, y)}
      OBVIOUS
    <3> HIDE DEF all, upTo
    <3> QED  BY <3>1, <3>2, <3>3
  <2>4. ASSUME NEW x \in all, NEW y \in all, x \in upTo[y], y \in upTo[x] PROVE x = y
    <3>1. NotAfter(x, y) /\ NotAfter(y, x)
      BY <2>4
    <3>2. Time(x) = Time(y) /\ x[2] = y[2] /\ x[3] = y[3]
      <4>1. /\ Time(x) \in Nat /\ x[2] \in Int /\ x[3] \in Nat
            /\ Time(y) \in Nat /\ y[2] \in Int /\ y[3] \in Nat
        BY <1>2
      <4> QED  BY <3>1, <4>1 DEF NotAfter, Time
    <3>3. x[1] = y[1]
      BY <1>2, <3>2
    <3> QED  BY <1>2, <3>2, <3>3
  <2> HIDE DEF all, upTo
  <2> QED  BY <1>1, <2>1, <2>2, <2>3, <2>4 DEF Chained
<1>4. \A x \in all, y \in all : x \in upTo[y] => NotAfter(x, y)
  OBVIOUS
<1>5. OrderedResults(loads) = [k \in 1..n |-> <<r[k][1], r[k][2]>>]
  BY DEF OrderedResults
<1> HIDE DEF all, upTo
<1>6. /\ r \in [1..n -> all] /\ \A x \in all : \E k \in 1..n : r[k] = x
      /\ \A k, l \in 1..n : /\ k <= l => r[k] \in upTo[r[l]]
                            /\ r[k] = r[l] => k = l
  BY <1>3, RankedIs
<1> HIDE DEF r, n
<1>7. \A k, l \in 1..n : k <= l => NotAfter(r[k], r[l])
  BY <1>4, <1>6
<1>8. OrderedResults(loads) \in Seq(Results) /\ Len(OrderedResults(loads)) = n
  BY <1>1, <1>5, <1>6
<1> QED  BY <1>5, <1>6, <1>7, <1>8 DEF all, n

\* The last results that are taken to be the new ones are there to be taken.
LEMMA WindowFits ==
    ASSUME NEW loads \in [Files -> Nat], NEW some \in SUBSET Files,
           \A n \in some : loads[n] > 0
    PROVE  NumResults(some) \in Nat /\ NumResults(some) <= Cardinality(Copies(loads))
<1> DEFINE pairs == UNION {{n} \X ResultsIn(n) : n \in some}
           all == Copies(loads)
           f == [p \in pairs |-> <<p[1], p[2], 1>>]
<1>1. IsFiniteSet(all) /\ Cardinality(all) \in Nat
  BY CopiesFinite
<1>2. \A p \in pairs : /\ p[1] \in some /\ p[2] \in ResultsIn(p[1])
                       /\ p = <<p[1], p[2]>> /\ <<p[1], p[2], 1>> \in all
  BY CopiesFinite, ResultsFinite
<1>3. f \in [pairs -> all] /\ \A p, q \in pairs : f[p] = f[q] => p = q
  BY <1>2
<1> HIDE DEF f, all, pairs
<1>4. f \in Injection(pairs, all)
  BY <1>3, Fun_IsInj
<1>5. IsFiniteSet(pairs) /\ Cardinality(pairs) <= Cardinality(all)
  BY <1>1, <1>4, FS_Injection
<1>6. Cardinality(pairs) \in Nat
  BY <1>5, FS_CardinalityType
<1> QED  BY <1>5, <1>6 DEF NumResults, pairs, all

-----------------------------------------------------------------------------
(* The timeline. *)

\* Two sequences joined.
LEMMA Joined ==
    ASSUME NEW S, NEW s \in Seq(S), NEW t \in Seq(S)
    PROVE  /\ s \o t \in Seq(S) /\ Len(s \o t) = Len(s) + Len(t)
           /\ Len(s) \in Nat /\ Len(t) \in Nat
           /\ \A i \in 1..Len(s) : (s \o t)[i] = s[i]
           /\ \A i \in 1..Len(t) : (s \o t)[Len(s) + i] = t[i]
OBVIOUS

\* The end of two joined sequences is the second of them.
LEMMA EndOfJoined ==
    ASSUME NEW S, NEW s \in Seq(S), NEW t \in Seq(S)
    PROVE  SubSeq(s \o t, Len(s) + 1, Len(s \o t)) = t
<1> DEFINE u == s \o t
           m == Len(s)
           k == Len(t)
           v == SubSeq(u, m + 1, m + k)
<1>1. /\ u \in Seq(S) /\ Len(u) = m + k /\ m \in Nat /\ k \in Nat
      /\ \A i \in 1..k : u[m + i] = t[i]
  BY Joined
<1> HIDE DEF u, m, k
<1>2. /\ m + 1 \in Int /\ m + k \in Int
      /\ \A i \in (m + 1)..(m + k) : u[i] \in S
  <2>1. \A i \in (m + 1)..(m + k) : i \in 1..Len(u)
    BY <1>1
  <2>2. \A i \in 1..Len(u) : u[i] \in S
    BY <1>1
  <2> QED  BY <1>1, <2>1, <2>2
<1>3. /\ v \in Seq(S)
      /\ Len(v) = IF m + 1 <= m + k THEN (m + k) - (m + 1) + 1 ELSE 0
      /\ \A i \in 1..((m + k) - (m + 1) + 1) : v[i] = u[m + 1 + i - 1]
  BY <1>2, SubSeqProperties
<1>4. (m + k) - (m + 1) + 1 = k /\ \A i \in 1..k : m + 1 + i - 1 = m + i
  BY <1>1
<1> HIDE DEF v
<1>5. Len(v) = k /\ \A i \in 1..k : v[i] = t[i]
  BY <1>1, <1>3, <1>4
<1>6. v = t
  BY <1>3, <1>5 DEF k
<1> QED  BY <1>1, <1>6 DEF u, m, v

\* What a result adds: a change of status and then a message, each only if
\* there is one.
Adds(new, r, s, changed) ==
    /\ new \in Seq(Event) /\ s \in Status /\ changed \in BOOLEAN
    /\ \A i \in 1..Len(new) : new[i].result = r /\ new[i].status = s
    /\ \A i \in 1..Len(new) : new[i].message <=> ~(changed /\ i = 1)
    /\ changed => 1 \in 1..Len(new)
    /\ Len(new) = (IF changed THEN 1 ELSE 0) + (IF r \in Messages THEN 1 ELSE 0)

LEMMA NewEventsAre ==
    ASSUME history \in Histories, NEW acc, NEW r \in Results
    PROVE  Adds(NewEvents(acc, r), r, history[r[1]][r[2]],
                history[r[1]][r[2]] # StatusShown(acc, r[2]))
<1> DEFINE s == history[r[1]][r[2]]
           event == [result |-> r, status |-> s, message |-> FALSE]
           post  == [result |-> r, status |-> s, message |-> TRUE]
           change == IF s # StatusShown(acc, r[2]) THEN <<event>> ELSE <<>>
           posted == IF r \in Messages THEN <<post>> ELSE <<>>
<1>1. s \in Status
  <2>1. r[1] \in Files /\ r[2] \in Endpoints /\ history[r[1]][r[2]] # "absent"
    BY DEF Results, ResultsIn
  <2>2. history[r[1]][r[2]] \in Reports
    BY <2>1, HistoriesAssumption
  <2> QED  BY <2>1, <2>2 DEF Reports
<1>2. NewEvents(acc, r) = change \o posted
  <2>1. [event EXCEPT !.message = TRUE] = post
    <3>1. ASSUME NEW x, NEW y, NEW a, NEW b
          PROVE  [[result |-> x, status |-> y, message |-> a] EXCEPT !.message = b] =
                 [result |-> x, status |-> y, message |-> b]
      OBVIOUS
    <3> QED  BY <3>1, Zenon
  <2>2. event.status = s
    OBVIOUS
  <2> HIDE DEF post, s
  <2> QED  BY <2>1, <2>2 DEF NewEvents, s
<1> HIDE DEF s
<1>3. /\ event \in Event /\ event.result = r /\ event.status = s /\ ~event.message
      /\ post \in Event /\ post.result = r /\ post.status = s /\ post.message
  BY <1>1 DEF Event, Results
<1> HIDE DEF event, post
<1> DEFINE changed == s # StatusShown(acc, r[2])
           c == IF changed THEN 1 ELSE 0
           p == IF r \in Messages THEN 1 ELSE 0
           new == NewEvents(acc, r)
<1>4. /\ change \in Seq(Event) /\ Len(change) = c
      /\ \A i \in 1..c : changed /\ i = 1 /\ change[i] = event
  BY <1>3
<1>5. /\ posted \in Seq(Event) /\ Len(posted) = p
      /\ \A i \in 1..p : posted[i] = post
  BY <1>3
<1>6. c \in {0, 1} /\ p \in {0, 1} /\ (changed <=> c = 1)
  OBVIOUS
<1> HIDE DEF change, posted, c, p, changed
<1>7. /\ new \in Seq(Event) /\ Len(new) = c + p
      /\ \A i \in 1..c : new[i] = change[i]
      /\ \A i \in 1..p : new[c + i] = posted[i]
  <2>1. change \in Seq(Event) /\ posted \in Seq(Event)
    BY <1>4, <1>5
  <2>2. /\ change \o posted \in Seq(Event)
        /\ Len(change \o posted) = Len(change) + Len(posted)
        /\ \A i \in 1..Len(change) : (change \o posted)[i] = change[i]
        /\ \A i \in 1..Len(posted) : (change \o posted)[Len(change) + i] = posted[i]
    BY <2>1, Joined
  <2>3. Len(change) = c /\ Len(posted) = p /\ new = change \o posted
    BY <1>2, <1>4, <1>5
  <2> QED  BY <2>2, <2>3
<1> HIDE DEF new
<1>8. ASSUME NEW i \in 1..Len(new)
      PROVE  \/ i = 1 /\ changed /\ new[i] = event
             \/ ~(i = 1 /\ changed) /\ new[i] = post
  <2>1. CASE i \in 1..c
    BY <1>4, <1>7, <2>1
  <2>2. CASE i - c \in 1..p
    <3>1. c + (i - c) = i /\ new[c + (i - c)] = post
      BY <1>5, <1>6, <1>7, <2>2
    <3> QED  BY <1>6, <2>2, <3>1
  <2>3. i \in 1..c \/ i - c \in 1..p
    BY <1>6, <1>7
  <2> QED  BY <2>1, <2>2, <2>3
<1>9. changed => 1 \in 1..Len(new)
  BY <1>6, <1>7
<1>10. changed \in BOOLEAN
  BY DEF changed
<1>11. Adds(new, r, s, changed)
  BY <1>1, <1>3, <1>7, <1>8, <1>9, <1>10 DEF Adds, c, p
<1> QED  BY <1>11 DEF new, s, changed

LEMMA NewEventsTyped ==
    ASSUME history \in Histories, NEW acc, NEW r \in Results
    PROVE  /\ NewEvents(acc, r) \in Seq(Event)
           /\ \A i \in 1..Len(NewEvents(acc, r)) : NewEvents(acc, r)[i].result = r
BY NewEventsAre DEF Adds

\* The loop over the new results.
LEMMA EventsRun ==
    ASSUME history \in Histories, NEW first \in Seq(Event), NEW window \in Seq(Results)
    PROVE  \E run \in [0..Len(window) -> Seq(Event)] :
              /\ run[0] = first /\ run[Len(window)] = WithEvents(first, window)
              /\ \A i \in 1..Len(window) :
                    run[i] = run[i - 1] \o NewEvents(run[i - 1], window[i])
<1> DEFINE n == Len(window)
           S == Seq(Event)
           Op(acc, r) == acc \o NewEvents(acc, r)
           step == [e \in S \X (1..n) |-> Op(e[1], window[e[2]])]
           Eq(G) == G = [t \in SUBSET (1..n) |->
                           IF t = {} THEN first ELSE Op(G[t \ {Max(t)}], window[Max(t)])]
<1>1. n \in Nat /\ DOMAIN window = 1..n /\ \A i \in 1..n : window[i] \in Results
  OBVIOUS
<1>2. WithEvents(first, window) = (CHOOSE G : Eq(G))[1..n]
  BY <1>1 DEF WithEvents, FoldLeft, MapThenFoldSet
<1>3. step \in [S \X (1..n) -> S]
  <2>1. ASSUME NEW e \in S \X (1..n) PROVE Op(e[1], window[e[2]]) \in S
    <3>1. e[1] \in S /\ window[e[2]] \in Results
      BY <1>1
    <3>2. NewEvents(e[1], window[e[2]]) \in S
      BY <3>1, NewEventsTyped
    <3> QED  BY <3>1, <3>2
  <2> HIDE DEF Op
  <2> QED  BY <2>1
<1> HIDE DEF n, S, Op
<1>4. \E G : Eq(G)
  <2>1. PICK G \in FoldGraphs(S, first, step, n) : TRUE
    BY <1>1, <1>3, FoldGraph DEF S
  <2>2. /\ G \in [SUBSET (1..n) -> S]
        /\ \A t \in SUBSET (1..n) :
              G[t] = IF t = {} THEN first ELSE step[<<G[t \ {Max(t)}], Max(t)>>]
    BY DEF FoldGraphs
  <2>3. \A t \in SUBSET (1..n) :
           G[t] = IF t = {} THEN first ELSE Op(G[t \ {Max(t)}], window[Max(t)])
    <3> TAKE t \in SUBSET (1..n)
    <3>1. CASE t # {}
      <4>1. Max(t) \in 1..n /\ G[t \ {Max(t)}] \in S
        BY <1>1, <2>2, <3>1, MaxOfPositions
      <4> QED  BY <2>2, <3>1, <4>1
    <3> QED  BY <2>2, <3>1
  <2> HIDE DEF step
  <2>4. Eq(G)
    BY <2>2, <2>3
  <2> QED  BY <2>4
<1>5. PICK G : Eq(G) /\ WithEvents(first, window) = G[1..n]
  BY <1>2, <1>4
<1>6. G[{}] = first
  BY <1>5
<1>7. \A t \in SUBSET (1..n) : t # {} /\ G[t \ {Max(t)}] \in S =>
         G[t] = step[<<G[t \ {Max(t)}], Max(t)>>]
  <2> SUFFICES ASSUME NEW t \in SUBSET (1..n), t # {}, G[t \ {Max(t)}] \in S
               PROVE  G[t] = step[<<G[t \ {Max(t)}], Max(t)>>]
    OBVIOUS
  <2>1. Max(t) \in 1..n
    BY <1>1, MaxOfPositions
  <2> QED  BY <1>5, <2>1
<1>8. PICK run \in Runs(S, first, step, n) : run[n] = G[1..n]
  <2>1. first \in S
    BY DEF S
  <2> HIDE DEF step, Eq
  <2>2. Follows(G, S, first, step, n)
    BY <1>1, <1>3, <1>6, <1>7, <2>1 DEF Follows
  <2> QED  BY <2>2, FoldRun
<1>9. ASSUME NEW i \in 1..n PROVE run[i] = Op(run[i - 1], window[i])
  <2>1. run \in [0..n -> S] /\ run[i] = step[<<run[i - 1], i>>]
    BY DEF Runs
  <2>2. <<run[i - 1], i>> \in S \X (1..n)
    BY <1>1, <2>1
  <2> QED  BY <2>1, <2>2
<1>10. run \in [0..n -> S] /\ run[0] = first /\ run[n] = WithEvents(first, window)
  BY <1>5, <1>8 DEF Runs
<1> QED  BY <1>9, <1>10 DEF n, S, Op

\* The timeline only grows.
LEMMA EventsAppended ==
    ASSUME history \in Histories, NEW first \in Seq(Event), NEW window \in Seq(Results)
    PROVE  /\ WithEvents(first, window) \in Seq(Event)
           /\ Len(first) <= Len(WithEvents(first, window))
           /\ \A i \in 1..Len(first) : WithEvents(first, window)[i] = first[i]
           /\ window = <<>> => WithEvents(first, window) = first
<1> DEFINE n == Len(window)
<1>1. PICK run \in [0..n -> Seq(Event)] :
         /\ run[0] = first /\ run[n] = WithEvents(first, window)
         /\ \A i \in 1..n : run[i] = run[i - 1] \o NewEvents(run[i - 1], window[i])
  BY EventsRun
<1> DEFINE T == {k \in 0..n : Len(first) <= Len(run[k])
                            /\ \A i \in 1..Len(first) : run[k][i] = first[i]}
<1>2. n \in Nat /\ \A i \in 1..n : window[i] \in Results
  OBVIOUS
<1>3. 0 \in T
  BY <1>1, <1>2
<1>4. ASSUME NEW k \in 1..n, k - 1 \in T PROVE k \in T
  <2>1. /\ run[k - 1] \in Seq(Event) /\ run[k] = run[k - 1] \o NewEvents(run[k - 1], window[k])
        /\ NewEvents(run[k - 1], window[k]) \in Seq(Event) /\ k \in 0..n
    <3>1. k \in 0..n /\ k - 1 \in 0..n /\ window[k] \in Results
      BY <1>2
    <3>2. run[k - 1] \in Seq(Event)
      BY <1>1, <3>1
    <3> QED  BY <1>1, <3>1, <3>2, NewEventsTyped
  <2> DEFINE new == NewEvents(run[k - 1], window[k])
             old == run[k - 1]
  <2>2. Len(first) <= Len(old) /\ \A i \in 1..Len(first) : old[i] = first[i]
    BY <1>4
  <2> HIDE DEF new, old
  <2>3. old \in Seq(Event) /\ new \in Seq(Event) /\ run[k] = old \o new
    BY <2>1 DEF old, new
  <2>4. Len(run[k]) = Len(old) + Len(new) /\ \A i \in 1..Len(old) : run[k][i] = old[i]
    BY <2>3
  <2>5. Len(old) \in Nat /\ Len(new) \in Nat /\ Len(first) \in Nat
    BY <2>3
  <2>6. Len(first) <= Len(run[k]) /\ \A i \in 1..Len(first) : run[k][i] = first[i]
    BY <2>2, <2>4, <2>5
  <2> QED  BY <2>1, <2>6
<1>5. n \in T
  <2> HIDE DEF T, n
  <2>1. 0..n \subseteq T
    BY <1>2, <1>3, <1>4, BoundedInduction
  <2> QED  BY <1>2, <2>1
<1> QED  BY <1>1, <1>5

\* The last `num' results.
Window(loads, num) ==
    SubSeq(OrderedResults(loads), Len(OrderedResults(loads)) - num + 1, Len(OrderedResults(loads)))

LEMMA WindowIs ==
    ASSUME taken \in Timings, NEW loads \in [Files -> Nat], NEW num \in Nat, num <= Cardinality(Copies(loads))
    PROVE  /\ Window(loads, num) \in Seq(Results) /\ Len(Window(loads, num)) = num
           /\ \A k \in 1..num : Window(loads, num)[k] =
                 OrderedResults(loads)[Cardinality(Copies(loads)) - num + k]
<1> DEFINE s == OrderedResults(loads)
           n == Cardinality(Copies(loads))
<1>1. s \in Seq(Results) /\ Len(s) = n
  BY OrderedIs
<1> HIDE DEF s
<1>2. n \in Nat /\ num <= n
  BY <1>1
<1> HIDE DEF n
<1>3. Window(loads, num) = SubSeq(s, n - num + 1, n)
  BY <1>1 DEF Window, s
<1>4. /\ n - num + 1 \in Int /\ n \in Int
      /\ \A i \in (n - num + 1)..n : s[i] \in Results
  <2>1. \A i \in (n - num + 1)..n : i \in 1..n
    BY <1>2
  <2>2. \A i \in 1..n : s[i] \in Results
    BY <1>1
  <2> QED  BY <1>2, <2>1, <2>2
<1>5. /\ SubSeq(s, n - num + 1, n) \in Seq(Results)
      /\ Len(SubSeq(s, n - num + 1, n)) = IF n - num + 1 <= n THEN n - (n - num + 1) + 1 ELSE 0
      /\ \A k \in 1..(n - (n - num + 1) + 1) :
            SubSeq(s, n - num + 1, n)[k] = s[n - num + 1 + k - 1]
  BY <1>4, SubSeqProperties
<1>6. /\ n - (n - num + 1) + 1 = num
      /\ \A k \in 1..num : n - num + 1 + k - 1 = n - num + k
  BY <1>2
<1>7. Len(SubSeq(s, n - num + 1, n)) = num
  BY <1>2, <1>5
<1> QED  BY <1>3, <1>5, <1>6, <1>7 DEF s, n

\* What allCheckFilesLoaded makes of the timeline.
LEMMA LoadedIs ==
    ASSUME history \in Histories, taken \in Timings, events \in Seq(Event),
           NEW loads \in [Files -> Nat], NEW num \in Nat, num <= Cardinality(Copies(loads)),
           NEW after, after = WithEvents(events, Window(loads, num))
    PROVE  /\ after \in Seq(Event) /\ Len(events) <= Len(after)
           /\ \A i \in 1..Len(events) : after[i] = events[i]
           /\ num = 0 => after = events
<1>1. Window(loads, num) \in Seq(Results) /\ Len(Window(loads, num)) = num
  BY WindowIs
<1>2. num = 0 => Window(loads, num) = <<>>
  BY <1>1
<1> QED  BY <1>1, <1>2, EventsAppended

\* What the arrival of a file makes of it and of the head of the page.
LEMMA FileLoads ==
    ASSUME IInv, history \in Histories, taken \in Timings, events \in Seq(Event),
           NEW b \in Batches, NEW n \in Files, FileArrives(b, n)
    PROVE  /\ events' \in Seq(Event) /\ Len(events) <= Len(events')
           /\ \A i \in 1..Len(events) : events'[i] = events[i]
           /\ UNCHANGED <<history, taken>>
           /\ copies' = [copies EXCEPT ![n] = @ + 1] /\ copies' \in [Files -> Nat]
           /\ overall' \in Status \cup {overall}
<1> DEFINE got == batch[b].got \cup {n}
<1>1. /\ copies' = [copies EXCEPT ![n] = @ + 1] /\ copies \in [Files -> Nat]
      /\ batch[b].got \subseteq Loaded /\ UNCHANGED <<history, taken>>
  BY DEF IInv, Downloads, Knowledge, FileArrives, ProcessNewCheckFile, extern
<1>2. copies' \in [Files -> Nat]
  BY <1>1
<1>3. got \in SUBSET Files /\ \A m \in got : copies'[m] > 0
  BY <1>1 DEF Loaded
<1>4. NumResults(got) \in Nat /\ NumResults(got) <= Cardinality(Copies(copies'))
  <2> HIDE DEF got
  <2> QED  BY <1>2, <1>3, WindowFits
<1>5. \/ events' = WithEvents(events, Window(copies', NumResults(got)))
         /\ overall' = OverallOf({m \in Files : copies'[m] > 0})
      \/ UNCHANGED <<events, overall>>
  BY DEF FileArrives, AllCheckFilesLoaded, Window
<1> HIDE DEF got
<1>6. \A S : OverallOf(S) \in Status
  BY DEF OverallOf, Worst, Status
<1>7. CASE events' = WithEvents(events, Window(copies', NumResults(got)))
           /\ overall' = OverallOf({m \in Files : copies'[m] > 0})
  BY <1>1, <1>2, <1>4, <1>6, <1>7, LoadedIs
<1>8. CASE UNCHANGED <<events, overall>>
  BY <1>1, <1>2, <1>8
<1> QED  BY <1>5, <1>7, <1>8

\* An empty list adds nothing.
LEMMA ListLoads ==
    ASSUME IInv, history \in Histories, taken \in Timings, events \in Seq(Event),
           NEW b \in Batches, ListArrives(b)
    PROVE  UNCHANGED <<history, taken, events, copies>> /\ overall' \in Status \cup {overall}
<1>1. /\ copies \in [Files -> Nat] /\ UNCHANGED <<history, taken, copies>>
      /\ \/ events' = WithEvents(events, Window(copies, 0))
            /\ overall' = OverallOf({m \in Files : copies[m] > 0})
         \/ UNCHANGED <<events, overall>>
  BY DEF IInv, Knowledge, ListArrives, AllCheckFilesLoaded, Window, extern, page
<1>2. 0 <= Cardinality(Copies(copies))
  BY <1>1, CopiesFinite
<1>3. WithEvents(events, Window(copies, 0)) = events
  BY <1>1, <1>2, LoadedIs
<1>4. \A S : OverallOf(S) \in Status
  BY DEF OverallOf, Worst, Status
<1> QED  BY <1>1, <1>3, <1>4

-----------------------------------------------------------------------------
(* The types. *)

Typed ==
    /\ history \in Histories /\ taken \in Timings /\ lastResult \in Nat
    /\ events \in Seq(Event) /\ overall \in Status \cup {"unknown"}
    /\ \A b \in Batches : batch[b].pending \cap batch[b].got = {}

LEMMA TypedInit == Init => Typed
BY SizesAssumption DEF Init, Typed

LEMMA TypedNext == IInv /\ Typed /\ [Next]_vars => Typed'
<1> SUFFICES ASSUME IInv, Typed, [Next]_vars PROVE Typed'
  OBVIOUS
<1>0. batch \in [Batches -> [phase : Phases, after : Int, list : SUBSET Files,
                             pending : SUBSET Files, got : SUBSET Files]]
  BY DEF IInv, Downloads
<1>1. ASSUME UNCHANGED <<history, taken, lastResult, events, overall>>,
             \A c \in Batches : /\ batch'[c].got = batch[c].got
                                /\ batch'[c].pending \subseteq batch[c].pending
      PROVE  Typed'
  BY <1>1 DEF Typed
<1>2. ASSUME NEW n \in Files, NameFile(n) \/ ShowFile(n) PROVE Typed'
  BY <1>1, <1>2 DEF NameFile, ShowFile, extern, page
<1>3. ASSUME NEW b \in Batches, NEW after, Request(b, after) PROVE Typed'
  BY <1>0, <1>1, <1>3 DEF Request, extern, page
<1>4. ASSUME NEW b \in Batches, PageArrives(b) PROVE Typed'
  BY <1>0, <1>1, <1>4 DEF PageArrives, extern, page
<1>5. ASSUME NEW b \in Batches, ListFails(b) PROVE Typed'
  BY <1>0, <1>1, <1>5 DEF ListFails, extern, page
<1>6. ASSUME NEW b \in Batches, NEW n \in Files, FileFails(b, n) PROVE Typed'
  BY <1>0, <1>1, <1>6 DEF FileFails, extern, page
<1>7. ASSUME NEW b \in Batches, ListArrives(b) PROVE Typed'
  <2>1. UNCHANGED <<history, taken, events>> /\ overall' \in Status \cup {overall}
    BY <1>7, ListLoads DEF Typed
  <2>2. UNCHANGED lastResult
    BY <1>7 DEF ListArrives, page
  <2>3. \A c \in Batches : batch'[c].pending \cap batch'[c].got = {}
    <3>1. batch[b].got = {}
      BY <1>7 DEF ListArrives, IInv, Downloads
    <3>2. \/ batch' = [batch EXCEPT ![b].phase = "done", ![b].after = 0]
          \/ \E list \in SUBSET Files :
                batch' = [batch EXCEPT ![b].phase = "loading", ![b].after = 0,
                                       ![b].list = list, ![b].pending = list]
      BY <1>0, <1>7 DEF ListArrives, Unlisted, Visible
    <3>3. batch'[b].got = {} /\ \A c \in Batches \ {b} : batch'[c] = batch[c]
      BY <1>0, <3>1, <3>2
    <3>4. ASSUME NEW c \in Batches PROVE batch'[c].pending \cap batch'[c].got = {}
      <4>1. CASE c = b
        BY <3>3, <4>1
      <4>2. CASE c # b
        BY <3>3, <4>2 DEF Typed
      <4> QED  BY <4>1, <4>2
    <3> QED  BY <3>4
  <2> QED  BY <2>1, <2>2, <2>3 DEF Typed
<1>8. ASSUME NEW b \in Batches, NEW n \in Files, FileArrives(b, n) PROVE Typed'
  <2>1. /\ UNCHANGED <<history, taken>> /\ events' \in Seq(Event)
        /\ overall' \in Status \cup {overall}
    BY <1>8, FileLoads DEF Typed
  <2>2. lastResult' \in Nat
    BY <1>8, LatestResult DEF FileArrives, ProcessNewCheckFile, Typed
  <2>3. \A c \in Batches : batch'[c].pending \cap batch'[c].got = {}
    BY <1>0, <1>8 DEF FileArrives, Typed
  <2> QED  BY <2>1, <2>2, <2>3 DEF Typed
<1>9. CASE UNCHANGED vars
  BY <1>1, <1>9 DEF vars, extern, page
<1>10. CASE Open
  BY <1>3, <1>10, SizesAssumption DEF Open, Batches
<1>11. ASSUME NEW b \in Batches, GetNewChecks(b) PROVE Typed'
  BY <1>3, <1>11 DEF GetNewChecks
<1> QED  BY <1>2, <1>4, <1>5, <1>6, <1>7, <1>8, <1>9, <1>10, <1>11 DEF Next, BatchStep

LEMMA TypesFollow == IInv /\ Typed => TypeOK
<1> SUFFICES ASSUME IInv, Typed PROVE TypeOK
  OBVIOUS
<1>1. /\ storage \in {"fs", "s3"} /\ clock \in Nat
      /\ named \in [Files -> 0..clock] /\ stamped \in [Files -> 0..clock]
      /\ \A n \in Visible : named[n] # 0 /\ named[n] < stamped[n]
  <2>1. \A n \in Files : named[n] \in 0..clock /\ stamped[n] \in 0..clock
    BY DEF IInv, Clocked
  <2> QED  BY <2>1 DEF IInv, Clocked, Downloads, Named
<1>2. ASSUME NEW b \in Batches
      PROVE  /\ batch[b].phase \in {"unused", "listing", "loading", "done", "failed"}
             /\ batch[b].after \in Int /\ batch[b].list \subseteq Files
             /\ batch[b].pending \cup batch[b].got \subseteq batch[b].list
             /\ batch[b].phase = "done" => batch[b].pending = {}
  BY DEF IInv, Downloads, Phases
<1> QED  BY <1>1, <1>2 DEF TypeOK, Typed, IInv, Knowledge, Event

\* Every variable of the page has its type: the timeline is a sequence of events,
\* for the window of new results never reaches beyond the results there are,
\* and a download waits only for files of its list that it has not got.
THEOREM PageTypeCorrect == Spec => []TypeOK
<1>1. Init => IInv /\ Typed
  BY InitInvariant, TypedInit
<1>2. IInv /\ Typed /\ [Next]_vars => (IInv /\ Typed)'
  BY NextInvariant, TypedNext
<1>3. IInv /\ Typed => TypeOK
  BY TypesFollow
<1> QED  BY <1>1, <1>2, <1>3, PTL DEF Spec

-----------------------------------------------------------------------------
(* The timeline is complete. *)

LEMMA MaxOfFiles ==
    ASSUME NEW S \in SUBSET Files, S # {}
    PROVE  Max(S) \in S /\ Max(S) \in Files /\ \A n \in S : n <= Max(S)
<1>1. NumFiles \in Nat /\ S \in SUBSET (1..NumFiles)
  BY SizesAssumption DEF Files
<1> QED  BY <1>1, MaxOfPositions DEF Files

\* The files that say something of endpoint e, for a set of results, and those
\* in which its status changes.
FilesOf(D, e) == {n \in Files : <<n, e>> \in D}
ChangesIn(D, e) ==
    {n \in FilesOf(D, e) :
        LET before == {m \in FilesOf(D, e) : m < n}
        IN  before = {} \/ history[Max(before)][e] # history[n][e]}

OwnOf(acc, e)   == {i \in 1..Len(acc) : acc[i].result[2] = e /\ ~acc[i].message}
PostsIn(acc, r) == {i \in 1..Len(acc) : acc[i].message /\ acc[i].result = r}

\* A timeline tells what a set of results has to tell.
Tells(acc, D) ==
    /\ \A i \in 1..Len(acc) : acc[i].result \in D
    /\ \A e \in Endpoints :
          /\ StatusShown(acc, e) = IF FilesOf(D, e) = {} THEN "none"
                                   ELSE history[Max(FilesOf(D, e))][e]
          /\ {acc[i].result[1] : i \in OwnOf(acc, e)} = ChangesIn(D, e)
          /\ \A i, j \in OwnOf(acc, e) : i < j => acc[i].result[1] < acc[j].result[1]

\* A result that is not older than the others of its endpoint: what it
\* changes.
LEMMA ChangesGrow ==
    ASSUME NEW D \in SUBSET Results, NEW r \in Results,
           \A n \in FilesOf(D, r[2]) : n <= r[1]
    PROVE  LET F == FilesOf(D, r[2]) IN
           /\ FilesOf(D \cup {r}, r[2]) = F \cup {r[1]}
           /\ Max(F \cup {r[1]}) = r[1]
           /\ r[1] \in F => D \cup {r} = D /\ Max(F) = r[1]
           /\ r[1] \notin F => ChangesIn(D \cup {r}, r[2]) =
                  ChangesIn(D, r[2]) \cup
                  (IF F = {} \/ history[Max(F)][r[2]] # history[r[1]][r[2]] THEN {r[1]} ELSE {})
<1> DEFINE F == FilesOf(D, r[2])
           G == FilesOf(D \cup {r}, r[2])
           n == r[1]
           e == r[2]
<1>0. r = <<n, e>> /\ n \in Files /\ e \in Endpoints
  BY DEF Results
<1>1. G = F \cup {n}
  BY <1>0 DEF FilesOf
<1>2. F \in SUBSET Files /\ \A m \in Files : m \in Int
  BY SizesAssumption DEF FilesOf, Files
<1>3. Max(F \cup {n}) = n
  <2>1. F \cup {n} \in SUBSET Files /\ F \cup {n} # {}
    BY <1>0, <1>2
  <2> HIDE DEF F, n
  <2>2. Max(F \cup {n}) \in F \cup {n} /\ n <= Max(F \cup {n}) /\ Max(F \cup {n}) \in Files
    BY <2>1, MaxOfFiles
  <2>3. Max(F \cup {n}) <= n
    BY <1>0, <1>2, <2>2 DEF F, n
  <2> QED  BY <1>0, <1>2, <2>2, <2>3
<1>4. n \in F => D \cup {r} = D /\ Max(F) = n
  <2> SUFFICES ASSUME n \in F PROVE D \cup {r} = D /\ Max(F) = n
    OBVIOUS
  <2>1. r \in D
    BY <1>0 DEF FilesOf
  <2>2. F \cup {n} = F
    OBVIOUS
  <2> QED  BY <1>3, <2>1, <2>2
<1>5. ASSUME n \notin F
      PROVE  ChangesIn(D \cup {r}, e) = ChangesIn(D, e) \cup
                  (IF F = {} \/ history[Max(F)][e] # history[n][e] THEN {n} ELSE {})
  <2>1. \A m \in F : m < n
    BY <1>0, <1>2, <1>5
  <2>2. \A m \in F : {k \in G : k < m} = {k \in F : k < m}
    <3> TAKE m \in F
    <3>1. ~(n < m)
      BY <1>0, <1>2, <2>1
    <3> HIDE DEF F, G, n
    <3> QED  BY <1>1, <3>1
  <2>3. {k \in G : k < n} = F
    <3>1. ~(n < n)
      BY <1>0, <1>2
    <3> HIDE DEF F, G, n
    <3> QED  BY <1>1, <2>1, <3>1
  <2>4. ChangesIn(D, e) = {m \in F : {k \in F : k < m} = {} \/
                                     history[Max({k \in F : k < m})][e] # history[m][e]}
    BY DEF ChangesIn
  <2>5. ChangesIn(D \cup {r}, e) = {m \in G : {k \in G : k < m} = {} \/
                                     history[Max({k \in G : k < m})][e] # history[m][e]}
    BY DEF ChangesIn
  <2> HIDE DEF F, G, n, e
  <2> DEFINE New(m) == {k \in G : k < m} = {} \/
                       history[Max({k \in G : k < m})][e] # history[m][e]
             Was(m) == {k \in F : k < m} = {} \/
                       history[Max({k \in F : k < m})][e] # history[m][e]
  <2>6. \A m \in F : New(m) <=> Was(m)
    BY <2>2
  <2>7. New(n) <=> (F = {} \/ history[Max(F)][e] # history[n][e])
    BY <2>3
  <2>8. /\ ChangesIn(D, e) = {m \in F : Was(m)}
        /\ ChangesIn(D \cup {r}, e) = {m \in G : New(m)}
    BY <2>4, <2>5
  <2> HIDE DEF New, Was
  <2> QED  BY <1>1, <2>6, <2>7, <2>8
<1> QED  BY <1>1, <1>3, <1>4, <1>5

\* Events of one result put at the end of a timeline.
LEMMA OwnGrow ==
    ASSUME NEW acc \in Seq(Event), NEW new, NEW r, NEW s, NEW changed,
           Adds(new, r, s, changed)
    PROVE  /\ \A e : e # r[2] => OwnOf(acc \o new, e) = OwnOf(acc, e)
           /\ OwnOf(acc \o new, r[2]) =
                 OwnOf(acc, r[2]) \cup (IF changed THEN {Len(acc) + 1} ELSE {})
<1> DEFINE m == Len(acc)
           n == Len(new)
           all == acc \o new
<1>1. /\ m \in Nat /\ n \in Nat /\ Len(all) = m + n
      /\ \A i \in 1..m : all[i] = acc[i]
      /\ \A i \in 1..n : all[m + i] = new[i]
  BY Joined DEF Adds
<1>2. \A e : OwnOf(acc, e) = {i \in 1..m : acc[i].result[2] = e /\ ~acc[i].message}
  BY DEF OwnOf
<1>3. \A e : OwnOf(all, e) = {i \in 1..Len(all) : all[i].result[2] = e /\ ~all[i].message}
  BY DEF OwnOf
<1> HIDE DEF m, n, all
<1>4. ASSUME NEW i \in 1..Len(all)
      PROVE  \/ i \in 1..m /\ all[i] = acc[i]
             \/ i - m \in 1..n /\ i > m /\ all[i] = new[i - m]
  <2>1. i \in 1..m \/ i - m \in 1..n
    BY <1>1
  <2>2. i - m \in 1..n => all[m + (i - m)] = new[i - m] /\ m + (i - m) = i /\ i > m
    BY <1>1
  <2> QED  BY <1>1, <2>1, <2>2
<1>5. \A i \in 1..m : i \in 1..Len(all) /\ all[i] = acc[i]
  BY <1>1
<1>6. \A i \in 1..n : new[i].result = r /\ (new[i].message <=> ~(changed /\ i = 1))
  BY DEF n, Adds
<1>7. ASSUME NEW e, e # r[2] PROVE OwnOf(all, e) = OwnOf(acc, e)
  <2>1. \A i \in OwnOf(all, e) : i \in OwnOf(acc, e)
    <3> TAKE i \in OwnOf(all, e)
    <3>1. i \in 1..Len(all) /\ all[i].result[2] = e /\ ~all[i].message
      BY <1>3
    <3>2. CASE i - m \in 1..n /\ i > m /\ all[i] = new[i - m]
      BY <1>6, <1>7, <3>1, <3>2
    <3> QED  BY <1>2, <1>4, <3>1, <3>2
  <2>2. \A i \in OwnOf(acc, e) : i \in OwnOf(all, e)
    BY <1>2, <1>3, <1>5
  <2> QED  BY <2>1, <2>2
<1>8. OwnOf(all, r[2]) = OwnOf(acc, r[2]) \cup (IF changed THEN {m + 1} ELSE {})
  <2>1. \A i \in OwnOf(all, r[2]) : i \in OwnOf(acc, r[2]) \/ (changed /\ i = m + 1)
    <3> TAKE i \in OwnOf(all, r[2])
    <3>1. i \in 1..Len(all) /\ all[i].result[2] = r[2] /\ ~all[i].message
      BY <1>3
    <3>2. CASE i - m \in 1..n /\ i > m /\ all[i] = new[i - m]
      <4>1. changed /\ i - m = 1
        BY <1>6, <3>1, <3>2
      <4> QED  BY <1>1, <3>1, <4>1
    <3> QED  BY <1>2, <1>4, <3>1, <3>2
  <2>2. \A i \in OwnOf(acc, r[2]) : i \in OwnOf(all, r[2])
    BY <1>2, <1>3, <1>5
  <2>3. changed => m + 1 \in OwnOf(all, r[2])
    <3> SUFFICES ASSUME changed PROVE m + 1 \in OwnOf(all, r[2])
      OBVIOUS
    <3>1. 1 \in 1..n /\ m + 1 \in 1..Len(all) /\ all[m + 1] = new[1]
      BY <1>1 DEF n, Adds
    <3>2. new[1].result = r /\ ~new[1].message
      BY <1>6, <3>1
    <3> QED  BY <1>3, <3>1, <3>2
  <2> QED  BY <2>1, <2>2, <2>3
<1> QED  BY <1>7, <1>8 DEF m, all

\* What they show at the end.
LEMMA ShownGrow ==
    ASSUME NEW acc \in Seq(Event), NEW new, NEW r, NEW s, NEW changed,
           Adds(new, r, s, changed)
    PROVE  /\ \A e : e # r[2] => StatusShown(acc \o new, e) = StatusShown(acc, e)
           /\ StatusShown(acc \o new, r[2]) =
                 IF new = <<>> THEN StatusShown(acc, r[2]) ELSE s
<1> DEFINE m == Len(acc)
           n == Len(new)
           all == acc \o new
           Was(e) == {i \in 1..m : acc[i].result[2] = e}
           Are(e) == {i \in 1..Len(all) : all[i].result[2] = e}
<1>1. /\ m \in Nat /\ n \in Nat /\ Len(all) = m + n
      /\ \A i \in 1..m : all[i] = acc[i]
      /\ \A i \in 1..n : all[m + i] = new[i]
  BY Joined DEF Adds
<1>2. \A e : /\ StatusShown(acc, e) = IF Was(e) = {} THEN "none" ELSE acc[Max(Was(e))].status
             /\ StatusShown(all, e) = IF Are(e) = {} THEN "none" ELSE all[Max(Are(e))].status
  BY DEF StatusShown
<1>3. new = <<>> => all = acc
  OBVIOUS
<1>4. new # <<>> => n # 0
  BY DEF Adds
<1>5. \A i \in 1..n : new[i].result = r /\ new[i].status = s
  BY DEF Adds
<1> HIDE DEF m, n, all
<1>6. ASSUME NEW e, e # r[2] PROVE StatusShown(all, e) = StatusShown(acc, e)
  <2>1. Are(e) = Was(e)
    <3>1. ASSUME NEW i \in Are(e) PROVE i \in Was(e)
      <4>1. i \in 1..Len(all) /\ all[i].result[2] = e
        OBVIOUS
      <4>2. CASE i - m \in 1..n
        <5>1. m + (i - m) = i
          BY <1>1, <4>1
        <5>2. all[i] = new[i - m]
          BY <1>1, <4>2, <5>1
        <5> QED  BY <1>5, <1>6, <4>1, <4>2, <5>2
      <4>3. i \in 1..m \/ i - m \in 1..n
        BY <1>1, <4>1
      <4> QED  BY <1>1, <4>1, <4>2, <4>3
    <3>2. \A i \in 1..m : i \in 1..Len(all)
      BY <1>1
    <3>3. ASSUME NEW i \in Was(e) PROVE i \in Are(e)
      BY <1>1, <3>2
    <3> QED  BY <3>1, <3>3
  <2>2. Was(e) # {} => Max(Was(e)) \in 1..m
    <3>1. Was(e) \in SUBSET (1..m)
      OBVIOUS
    <3> HIDE DEF Was
    <3> QED  BY <1>1, <3>1, MaxOfPositions
  <2> HIDE DEF Was, Are
  <2> QED  BY <1>1, <1>2, <2>1, <2>2
<1>7. new # <<>> => StatusShown(all, r[2]) = s
  <2> SUFFICES ASSUME new # <<>> PROVE StatusShown(all, r[2]) = s
    OBVIOUS
  <2> DEFINE e == r[2]
  <2>1. m + n \in 1..Len(all) /\ n \in 1..n /\ n \in Nat /\ m + n \in Nat
    BY <1>1, <1>4
  <2>2. all[m + n] = new[n]
    BY <1>1, <2>1
  <2>3. all[m + n].result[2] = e /\ all[m + n].status = s
    BY <1>5, <2>1, <2>2
  <2>4. m + n \in Are(e) /\ Are(e) \in SUBSET (1..(m + n))
    BY <1>1, <2>1, <2>3
  <2> HIDE DEF Are
  <2>5. Max(Are(e)) \in Are(e) /\ \A i \in Are(e) : i <= Max(Are(e))
    BY <2>1, <2>4, MaxOfPositions
  <2>6. Max(Are(e)) = m + n
    BY <2>1, <2>4, <2>5
  <2> QED  BY <1>2, <2>3, <2>4, <2>6
<1> QED  BY <1>3, <1>6, <1>7 DEF all

\* The loop over the new results keeps the timeline complete, if no result is
\* older than those of its endpoint before it.
LEMMA TellsStep ==
    ASSUME history \in Histories, NEW acc \in Seq(Event), NEW D \in SUBSET Results,
           Tells(acc, D), NEW r \in Results, \A n \in FilesOf(D, r[2]) : n <= r[1]
    PROVE  Tells(acc \o NewEvents(acc, r), D \cup {r})
<1> DEFINE new == NewEvents(acc, r)
           all == acc \o new
           E == D \cup {r}
           x == r[2]
           s == history[r[1]][r[2]]
           changed == s # StatusShown(acc, x)
           F == FilesOf(D, x)
<1>0. Adds(new, r, s, changed)
  BY NewEventsAre
<1> HIDE DEF new
<1>1. /\ new \in Seq(Event) /\ s \in Status
      /\ \A i \in 1..Len(new) : new[i].result = r /\ new[i].status = s
      /\ changed => 1 \in 1..Len(new)
      /\ Len(new) = (IF changed THEN 1 ELSE 0) + (IF r \in Messages THEN 1 ELSE 0)
  BY <1>0 DEF Adds
<1>2. /\ Len(acc) \in Nat /\ Len(all) = Len(acc) + Len(new) /\ Len(new) \in Nat
      /\ \A i \in 1..Len(acc) : all[i] = acc[i]
      /\ \A i \in 1..Len(new) : all[Len(acc) + i] = new[i]
  BY <1>1, Joined
<1>3. /\ FilesOf(E, x) = F \cup {r[1]} /\ Max(F \cup {r[1]}) = r[1]
      /\ r[1] \in F => E = D /\ Max(F) = r[1]
      /\ r[1] \notin F => ChangesIn(E, x) = ChangesIn(D, x) \cup
             (IF F = {} \/ history[Max(F)][x] # s THEN {r[1]} ELSE {})
  BY ChangesGrow, ZenonT(40)
<1>4. StatusShown(acc, x) = IF F = {} THEN "none" ELSE history[Max(F)][x]
  BY DEF Tells, Results
<1>5. changed <=> F = {} \/ history[Max(F)][x] # s
  BY <1>1, <1>4 DEF Status
<1>6. changed => r[1] \notin F
  BY <1>3, <1>5
<1>7. /\ \A e : e # x => OwnOf(all, e) = OwnOf(acc, e)
      /\ OwnOf(all, x) = OwnOf(acc, x) \cup (IF changed THEN {Len(acc) + 1} ELSE {})
  <2> HIDE DEF changed, s
  <2> QED  BY <1>0, OwnGrow
<1>8. /\ \A e : e # x => StatusShown(all, e) = StatusShown(acc, e)
      /\ StatusShown(all, x) = IF new = <<>> THEN StatusShown(acc, x) ELSE s
  <2> HIDE DEF changed, s
  <2> QED  BY <1>0, ShownGrow
<1>9. \A i \in 1..Len(all) : all[i].result \in E
  <2> TAKE i \in 1..Len(all)
  <2>1. CASE i \in 1..Len(acc)
    BY <1>2, <2>1 DEF Tells
  <2>2. CASE i - Len(acc) \in 1..Len(new)
    <3>1. Len(acc) + (i - Len(acc)) = i
      BY <1>2
    <3>2. all[i] = new[i - Len(acc)]
      BY <1>2, <2>2, <3>1
    <3> QED  BY <1>1, <2>2, <3>2
  <2>3. i \in 1..Len(acc) \/ i - Len(acc) \in 1..Len(new)
    BY <1>2
  <2> QED  BY <2>1, <2>2, <2>3
<1>10. ASSUME NEW e \in Endpoints
       PROVE  /\ StatusShown(all, e) = IF FilesOf(E, e) = {} THEN "none"
                                       ELSE history[Max(FilesOf(E, e))][e]
              /\ {all[i].result[1] : i \in OwnOf(all, e)} = ChangesIn(E, e)
              /\ \A i, j \in OwnOf(all, e) : i < j => all[i].result[1] < all[j].result[1]
  <2>1. /\ StatusShown(acc, e) = IF FilesOf(D, e) = {} THEN "none"
                                 ELSE history[Max(FilesOf(D, e))][e]
        /\ {acc[i].result[1] : i \in OwnOf(acc, e)} = ChangesIn(D, e)
        /\ \A i, j \in OwnOf(acc, e) : i < j => acc[i].result[1] < acc[j].result[1]
    BY DEF Tells
  <2>2. \A i \in OwnOf(acc, e) : i \in 1..Len(acc) /\ all[i] = acc[i] /\ acc[i].result[2] = e
    BY <1>2 DEF OwnOf
  <2>3. {all[i].result[1] : i \in OwnOf(acc, e)} = {acc[i].result[1] : i \in OwnOf(acc, e)}
    BY <2>2
  <2>4. CASE e # x
    <3>1. FilesOf(E, e) = FilesOf(D, e) /\ ChangesIn(E, e) = ChangesIn(D, e)
      <4>1. FilesOf(E, e) = FilesOf(D, e)
        BY <2>4 DEF FilesOf, Results
      <4> QED  BY <4>1 DEF ChangesIn
    <3>2. OwnOf(all, e) = OwnOf(acc, e) /\ StatusShown(all, e) = StatusShown(acc, e)
      BY <1>7, <1>8, <2>4
    <3> QED  BY <2>1, <2>2, <2>3, <3>1, <3>2
  <2>5. CASE e = x
    <3>1. StatusShown(all, x) = s /\ FilesOf(E, x) # {} /\ Max(FilesOf(E, x)) = r[1]
      <4>1. new = <<>> => ~changed
        BY <1>1
      <4> QED  BY <1>3, <1>8, <4>1
    <3>2. CASE ~changed
      <4>1. ChangesIn(E, x) = ChangesIn(D, x)
        BY <1>3, <1>5, <3>2
      <4>2. OwnOf(all, x) = OwnOf(acc, x)
        BY <1>7, <3>2
      <4>3. {all[i].result[1] : i \in OwnOf(all, x)} = ChangesIn(E, x)
        BY <2>1, <2>3, <2>5, <4>1, <4>2
      <4>4. \A i, j \in OwnOf(all, x) : i < j => all[i].result[1] < all[j].result[1]
        BY <2>1, <2>2, <2>5, <4>2
      <4> QED  BY <1>3, <2>5, <3>1, <4>3, <4>4
    <3>3. CASE changed
      <4>1. ChangesIn(E, x) = ChangesIn(D, x) \cup {r[1]}
        BY <1>3, <1>5, <1>6, <3>3
      <4>2. OwnOf(all, x) = OwnOf(acc, x) \cup {Len(acc) + 1}
        BY <1>7, <3>3
      <4>3. all[Len(acc) + 1].result = r
        BY <1>1, <1>2, <3>3
      <4>4. {all[i].result[1] : i \in OwnOf(all, x)} = ChangesIn(E, x)
        BY <2>1, <2>3, <2>5, <4>1, <4>2, <4>3, ZenonT(40)
      <4>5. \A i \in OwnOf(acc, x) : i \in 1..Len(acc) /\ acc[i].result[1] < r[1]
        <5> TAKE i \in OwnOf(acc, x)
        <5>1. i \in 1..Len(acc) /\ acc[i].result \in D /\ acc[i].result[2] = x
          BY DEF OwnOf, Tells
        <5>2. acc[i].result = <<acc[i].result[1], x>> /\ acc[i].result[1] \in Files
          BY <5>1 DEF Results
        <5>3. acc[i].result[1] \in F
          BY <5>1, <5>2 DEF FilesOf
        <5>4. acc[i].result[1] # r[1] /\ acc[i].result[1] <= r[1] /\ r[1] \in Files
          BY <1>6, <3>3, <5>3 DEF Results
        <5> QED  BY <5>1, <5>2, <5>4, SizesAssumption DEF Files
      <4>6. ASSUME NEW i \in OwnOf(all, x), NEW j \in OwnOf(all, x), i < j
            PROVE  all[i].result[1] < all[j].result[1]
        <5>1. CASE j = Len(acc) + 1
          <6>1. i \in OwnOf(acc, x)
            BY <1>2, <4>2, <4>6, <5>1
          <6> QED  BY <2>2, <2>5, <4>3, <4>5, <5>1, <6>1
        <5>2. CASE j \in OwnOf(acc, x)
          <6>1. i \in OwnOf(acc, x)
            <7>1. j <= Len(acc) /\ j \in Nat
              BY <4>5, <5>2
            <7> QED  BY <1>2, <4>2, <4>6, <7>1
          <6> QED  BY <2>1, <2>2, <2>5, <4>6, <5>2, <6>1
        <5> QED  BY <4>2, <5>1, <5>2
      <4> QED  BY <1>3, <2>5, <3>1, <4>4, <4>6
    <3> QED  BY <3>2, <3>3
  <2> QED  BY <2>4, <2>5
<1>11. Tells(all, E)
  <2> HIDE DEF all, E
  <2> QED  BY <1>9, <1>10 DEF Tells
<1> QED  BY <1>11 DEF new

\* Where the messages are.
LEMMA PostsGrow ==
    ASSUME NEW acc \in Seq(Event), NEW new, NEW r, NEW s, NEW changed,
           Adds(new, r, s, changed), NEW x
    PROVE  PostsIn(acc \o new, x) = PostsIn(acc, x) \cup
              (IF x = r /\ r \in Messages THEN {Len(acc \o new)} ELSE {})
<1> DEFINE m == Len(acc)
           n == Len(new)
           all == acc \o new
<1>1. /\ m \in Nat /\ n \in Nat /\ Len(all) = m + n
      /\ \A i \in 1..m : all[i] = acc[i]
      /\ \A i \in 1..n : all[m + i] = new[i]
  BY Joined DEF Adds
<1>2. /\ PostsIn(acc, x) = {i \in 1..m : acc[i].message /\ acc[i].result = x}
      /\ PostsIn(all, x) = {i \in 1..Len(all) : all[i].message /\ all[i].result = x}
  BY DEF PostsIn
<1>3. /\ \A i \in 1..n : new[i].result = r
      /\ \A i \in 1..n : new[i].message <=> ~(changed /\ i = 1)
      /\ n = (IF changed THEN 1 ELSE 0) + (IF r \in Messages THEN 1 ELSE 0)
  BY DEF Adds
<1> HIDE DEF m, n, all
<1>4. \A i \in 1..n : new[i].message <=> i = n /\ r \in Messages
  <2> TAKE i \in 1..n
  <2>1. r \in Messages => (i = n <=> ~(changed /\ i = 1))
    BY <1>3
  <2>2. r \notin Messages => changed /\ i = 1
    BY <1>3
  <2>3. new[i].message <=> ~(changed /\ i = 1)
    BY <1>3
  <2> QED  BY <2>1, <2>2, <2>3
<1>5. r \in Messages => n \in 1..n
  BY <1>3
<1>6. \A i \in PostsIn(acc, x) : i \in PostsIn(all, x)
  <2>1. \A i \in 1..m : i \in 1..Len(all)
    BY <1>1
  <2> QED  BY <1>1, <1>2, <2>1
<1>7. x = r /\ r \in Messages => Len(all) \in PostsIn(all, x)
  <2> SUFFICES ASSUME x = r, r \in Messages PROVE Len(all) \in PostsIn(all, x)
    OBVIOUS
  <2>1. Len(all) \in 1..Len(all) /\ all[Len(all)] = new[n]
    BY <1>1, <1>5
  <2>2. new[n].message /\ new[n].result = x
    BY <1>3, <1>4, <1>5
  <2> QED  BY <1>2, <2>1, <2>2
<1>8. ASSUME NEW i \in PostsIn(all, x), i \notin PostsIn(acc, x)
      PROVE  x = r /\ r \in Messages /\ i = Len(all)
  <2>1. i \in 1..Len(all) /\ all[i].message /\ all[i].result = x
    BY <1>2
  <2>2. i \notin 1..m
    BY <1>1, <1>2, <1>8, <2>1
  <2>3. i - m \in 1..n /\ m + (i - m) = i
    BY <1>1, <2>1, <2>2
  <2>4. all[i] = new[i - m]
    BY <1>1, <2>3
  <2>5. new[i - m].message /\ new[i - m].result = x
    BY <2>1, <2>4
  <2>6. i - m = n /\ r \in Messages /\ x = r
    BY <1>3, <1>4, <2>3, <2>5
  <2> QED  BY <1>1, <2>1, <2>6
<1>9. PostsIn(all, x) = PostsIn(acc, x) \cup
         (IF x = r /\ r \in Messages THEN {Len(all)} ELSE {})
  BY <1>6, <1>7, <1>8
<1> QED  BY <1>9 DEF all

\* The results of a window are in the order of their files, and none is older
\* than those the timeline tells of.
Resumes(window, D) ==
    /\ window \in Seq(Results) /\ D \in SUBSET Results
    /\ \A k \in 1..Len(window) : \A x \in D : x[1] <= window[k][1]
    /\ \A j, k \in 1..Len(window) : j <= k => window[j][1] <= window[k][1]

\* Every message in a window has been put on the timeline once for every result
\* that carries it.
Put(all, acc, window) ==
    \E at \in [1..Len(window) -> Nat] : \A x :
        PostsIn(all, x) = PostsIn(acc, x) \cup
           {at[k] : k \in {i \in 1..Len(window) : window[i] = x /\ x \in Messages}}

\* The loop over the new results: if they are in the order of their files,
\* and none is older than those before, the timeline tells of all of them, and
\* each message is put once for every result that carries it.
LEMMA WindowTells ==
    ASSUME history \in Histories, NEW acc \in Seq(Event), NEW D,
           Tells(acc, D), NEW window, Resumes(window, D), NEW n, n = Len(window)
    PROVE  /\ Tells(WithEvents(acc, window), D \cup ToSet(window))
           /\ Put(WithEvents(acc, window), acc, window)
<1>0. /\ window \in Seq(Results) /\ D \in SUBSET Results
      /\ \A k \in 1..n : \A x \in D : x[1] <= window[k][1]
      /\ \A j, k \in 1..n : j <= k => window[j][1] <= window[k][1]
  BY DEF Resumes
<1>1. n \in Nat /\ \A k \in 1..n : window[k] \in Results
  BY <1>0
<1>2. PICK run \in [0..n -> Seq(Event)] :
         /\ run[0] = acc /\ run[n] = WithEvents(acc, window)
         /\ \A i \in 1..n : run[i] = run[i - 1] \o NewEvents(run[i - 1], window[i])
  BY <1>0, EventsRun
<1> DEFINE at == [k \in 1..n |-> Len(run[k])]
           So(k) == D \cup {window[i] : i \in 1..k}
           Puts(k, x) == {at[j] : j \in {i \in 1..k : window[i] = x /\ x \in Messages}}
           T == {k \in 0..n : /\ Tells(run[k], So(k))
                              /\ \A x : PostsIn(run[k], x) = PostsIn(acc, x) \cup Puts(k, x)}
<1>3. 0 \in T
  <2>1. So(0) = D /\ \A x : Puts(0, x) = {}
    BY <1>0
  <2> HIDE DEF So, Puts
  <2> QED  BY <1>1, <1>2, <2>1
<1>4. ASSUME NEW k \in 1..n, k - 1 \in T PROVE k \in T
  <2>1. k \in 0..n /\ k - 1 \in 0..n /\ k \in Nat /\ window[k] \in Results
    BY <1>1
  <2> DEFINE old == run[k - 1]
             r == window[k]
             new == NewEvents(old, r)
             s == history[r[1]][r[2]]
             changed == s # StatusShown(old, r[2])
  <2>2. old \in Seq(Event) /\ run[k] = old \o new /\ run[k] \in Seq(Event)
    BY <1>2, <2>1
  <2>3. /\ Tells(old, So(k - 1))
        /\ \A x : PostsIn(old, x) = PostsIn(acc, x) \cup Puts(k - 1, x)
    BY <1>4
  <2>4. \A i : i \in 1..k <=> i \in 1..(k - 1) \/ i = k
    BY <2>1
  <2>5. So(k) = So(k - 1) \cup {r} /\ So(k - 1) \in SUBSET Results
    <3>1. \A i \in 1..(k - 1) : i \in 1..n
      BY <1>1, <2>1
    <3> QED  BY <1>0, <1>1, <2>4, <3>1
  <2>6. \A x : Puts(k, x) = Puts(k - 1, x) \cup
                  (IF x = r /\ r \in Messages THEN {Len(run[k])} ELSE {})
    <3> TAKE x
    <3>1. at[k] = Len(run[k])
      OBVIOUS
    <3> HIDE DEF at
    <3> QED  BY <2>4, <3>1
  <2>7. \A m \in FilesOf(So(k - 1), r[2]) : m <= r[1]
    <3> TAKE m \in FilesOf(So(k - 1), r[2])
    <3>1. <<m, r[2]>> \in So(k - 1)
      BY DEF FilesOf
    <3>2. CASE <<m, r[2]>> \in D
      <4>1. <<m, r[2]>>[1] <= window[k][1]
        BY <1>0, <3>2
      <4> QED  BY <4>1
    <3>3. ASSUME NEW i \in 1..(k - 1), <<m, r[2]>> = window[i] PROVE m <= r[1]
      <4>1. i \in 1..n /\ i <= k
        BY <1>1, <2>1
      <4>2. window[i][1] <= window[k][1]
        BY <1>0, <4>1
      <4> QED  BY <3>3, <4>2
    <3> QED  BY <3>1, <3>2, <3>3
  <2> HIDE DEF So, Puts, T
  <2>8. Tells(run[k], So(k))
    <3>1. Tells(old \o NewEvents(old, r), So(k - 1) \cup {r})
      <4> HIDE DEF old, r
      <4>1. r \in Results
        BY <2>1 DEF r
      <4> QED  BY <2>2, <2>3, <2>5, <2>7, <4>1, TellsStep
    <3> QED  BY <2>2, <2>5, <3>1
  <2>9. ASSUME NEW x
        PROVE  PostsIn(run[k], x) = PostsIn(acc, x) \cup Puts(k, x)
    <3>1. Adds(new, r, s, changed)
      BY <2>1, NewEventsAre
    <3> HIDE DEF new, r, s, changed, old
    <3>2. PostsIn(old \o new, x) = PostsIn(old, x) \cup
             (IF x = r /\ r \in Messages THEN {Len(old \o new)} ELSE {})
      BY <2>2, <3>1, PostsGrow
    <3> QED  BY <2>2, <2>3, <2>6, <3>2
  <2> QED  BY <2>1, <2>8, <2>9 DEF T
<1>5. n \in T
  <2> HIDE DEF T
  <2>1. 0..n \subseteq T
    BY <1>1, <1>3, <1>4, BoundedInduction
  <2> QED  BY <1>1, <2>1
<1>6. at \in [1..n -> Nat]
  <2>1. ASSUME NEW k \in 1..n PROVE Len(run[k]) \in Nat
    <3>1. k \in 0..n
      BY <1>1
    <3>2. run[k] \in Seq(Event)
      BY <1>2, <3>1
    <3> QED  BY <3>2
  <2> QED  BY <2>1
<1>7. \A x : PostsIn(WithEvents(acc, window), x) = PostsIn(acc, x) \cup Puts(n, x)
  <2> HIDE DEF Puts, So
  <2> QED  BY <1>2, <1>5
<1>8. Tells(WithEvents(acc, window), So(n))
  <2> HIDE DEF Puts, So
  <2> QED  BY <1>2, <1>5
<1>9. So(n) = D \cup ToSet(window)
  <2>1. DOMAIN window = 1..n
    BY <1>0
  <2> QED  BY <2>1 DEF ToSet
<1> HIDE DEF at
<1>10. Put(WithEvents(acc, window), acc, window)
  BY <1>6, <1>7 DEF Put
<1> QED
  <2> HIDE DEF So
  <2> QED  BY <1>8, <1>9, <1>10

-----------------------------------------------------------------------------
(* The window of new results. *)

\* The results in a set of files.
OfFiles(F) == {r \in Results : r[1] \in F}

\* What the files of a download are to those the page had.
Brings(loads, O, L) ==
    /\ loads \in [Files -> Nat] /\ O \in SUBSET Files /\ L \in SUBSET Files
    /\ {n \in Files : loads[n] > 0} = O \cup L
    /\ \A m \in O : \A n \in L : m <= n
    /\ \A n \in L \ O : loads[n] = 1

\* A window is of results of these files, in order, and has the new ones once each.
Shows(window, O, L) ==
    /\ window \in Seq(Results)
    /\ \A k \in 1..Len(window) : window[k][1] \in L
    /\ \A j, k \in 1..Len(window) : j <= k => window[j][1] <= window[k][1]
    /\ \A r \in OfFiles(L \ O) : \E k \in 1..Len(window) :
          window[k] = r /\ \A j \in 1..Len(window) : window[j] = r => j = k

\* The rounds did not overlap, and a download brought the files L, none of them
\* older than the old ones O, and each that is new for the first time.  The last results are then
\* results of L, and among them are the new ones, once each.
LEMMA WindowIsNew ==
    ASSUME taken \in Timings, TakenInOrder, NEW loads, NEW O, NEW L, Brings(loads, O, L)
    PROVE  Shows(Window(loads, NumResults(L)), O, L)
<1> DEFINE all == Copies(loads)
           N == Cardinality(all)
           num == NumResults(L)
           w == Window(loads, num)
           pairs == UNION {{n} \X ResultsIn(n) : n \in L}
<1>0. /\ loads \in [Files -> Nat] /\ O \in SUBSET Files /\ L \in SUBSET Files
      /\ {n \in Files : loads[n] > 0} = O \cup L
      /\ \A m \in O : \A n \in L : m <= n
      /\ \A n \in L \ O : loads[n] = 1
  BY DEF Brings
<1> USE <1>0
<1>1. \A n \in Files : n \in Int
  BY SizesAssumption DEF Files
<1>2. /\ IsFiniteSet(all) /\ N \in Nat
      /\ \A x \in all : /\ x[1] \in O \cup L /\ x[1] \in Files /\ x[2] \in ResultsIn(x[1])
                        /\ x[2] \in Endpoints
                        /\ x[3] \in Nat /\ 1 <= x[3] /\ x[3] <= loads[x[1]]
                        /\ x = <<x[1], x[2], x[3]>>
  <2>1. IsFiniteSet(all) /\ N \in Nat
    BY CopiesFinite
  <2>2. ASSUME NEW x \in all
        PROVE  /\ x[1] \in Files /\ x[2] \in Endpoints /\ x[2] \in ResultsIn(x[1])
               /\ x[3] \in Nat /\ 1 <= x[3] /\ x[3] <= loads[x[1]]
               /\ x = <<x[1], x[2], x[3]>>
    BY CopiesFinite
  <2>3. \A x \in all : loads[x[1]] > 0
    <3> TAKE x \in all
    <3>1. x[3] \in Nat /\ 1 <= x[3] /\ x[3] <= loads[x[1]] /\ loads[x[1]] \in Nat
      BY <2>2
    <3> QED  BY <3>1
  <2> HIDE DEF all
  <2> QED  BY <2>1, <2>2, <2>3
<1>3. /\ num \in Nat /\ num <= N
  <2>1. \A n \in L : loads[n] > 0
    OBVIOUS
  <2> QED  BY <2>1, WindowFits
<1>4. /\ w \in Seq(Results) /\ Len(w) = num
      /\ \A k \in 1..num : w[k] = OrderedResults(loads)[N - num + k]
  BY <1>3, WindowIs
<1>5. PICK r \in [1..N -> all] :
         /\ \A k \in 1..N : OrderedResults(loads)[k] = <<r[k][1], r[k][2]>>
         /\ \A x \in all : \E k \in 1..N : r[k] = x
         /\ \A k, l \in 1..N : /\ k <= l => NotAfter(r[k], r[l])
                               /\ r[k] = r[l] => k = l
  BY OrderedIs
<1>6. /\ num = Cardinality(pairs)
      /\ \A p \in pairs : /\ p = <<p[1], p[2]>> /\ p[1] \in L /\ p[1] \in Files
                          /\ <<p[1], p[2], 1>> \in all
      /\ \A n \in L : \A e \in ResultsIn(n) : <<n, e>> \in pairs
  <2>1. num = Cardinality(pairs)
    BY DEF NumResults
  <2>2. ASSUME NEW p \in pairs
        PROVE  /\ p = <<p[1], p[2]>> /\ p[1] \in L /\ p[1] \in Files
               /\ <<p[1], p[2], 1>> \in all
    <3>1. p = <<p[1], p[2]>> /\ p[1] \in L /\ p[2] \in ResultsIn(p[1])
      OBVIOUS
    <3>2. loads[p[1]] > 0 /\ loads[p[1]] \in Nat /\ p[1] \in Files /\ p[2] \in Endpoints
      BY <3>1, ResultsFinite
    <3>3. <<p[1], p[2], 1>> \in Files \X Endpoints \X Nat /\ 1 <= loads[p[1]]
      BY <3>2
    <3> QED  BY <3>1, <3>2, <3>3, CopiesFinite
  <2>3. \A n \in L : \A e \in ResultsIn(n) : <<n, e>> \in pairs
    OBVIOUS
  <2> QED  BY <2>1, <2>2, <2>3
<1> HIDE DEF all, N, num, w, pairs
\* The copies are in the order of their files.
<1>7. \A k, l \in 1..N : k <= l => r[k][1] <= r[l][1]
  <2> SUFFICES ASSUME NEW k \in 1..N, NEW l \in 1..N, k <= l PROVE r[k][1] <= r[l][1]
    OBVIOUS
  <2>1. NotAfter(r[k], r[l]) /\ r[k] \in all /\ r[l] \in all
    BY <1>5
  <2>2. Time(r[k]) \in Nat /\ Time(r[l]) \in Nat /\ Time(r[k]) <= Time(r[l])
    <3>1. Time(r[k]) \in Nat /\ Time(r[l]) \in Nat
      BY <2>1, CopiesTyped DEF all
    <3> QED  BY <2>1, <3>1 DEF NotAfter, Time
  <2>3. ~(r[l][1] < r[k][1])
    <3> SUFFICES ASSUME r[l][1] < r[k][1] PROVE FALSE
      OBVIOUS
    <3>1. Precedes(r[l][1], r[k][1])
      BY <1>2, <2>1 DEF TakenInOrder
    <3>2. Time(r[l]) < Time(r[k])
      BY <1>2, <2>1, <3>1 DEF Precedes, Time
    <3> QED  BY <2>2, <3>2
  <2>4. r[k][1] \in Int /\ r[l][1] \in Int
    BY <1>1, <1>2, <2>1
  <2> QED  BY <2>3, <2>4
<1>8. \A k \in 1..num : N - num + k \in 1..N /\ w[k] = <<r[N - num + k][1], r[N - num + k][2]>>
  <2> TAKE k \in 1..num
  <2>1. N - num + k \in 1..N
    BY <1>2, <1>3
  <2> QED  BY <1>4, <1>5, <2>1
<1>9. \A j, k \in 1..num : j <= k => w[j][1] <= w[k][1]
  <2> SUFFICES ASSUME NEW j \in 1..num, NEW k \in 1..num, j <= k PROVE w[j][1] <= w[k][1]
    OBVIOUS
  <2>1. N - num + j <= N - num + k
    BY <1>2, <1>3
  <2>2. r[N - num + j][1] <= r[N - num + k][1]
    BY <1>7, <1>8, <2>1
  <2> QED  BY <1>8, <2>2
\* All results of L would come after one of another file, which are too many.
<1>10. ASSUME NEW k \in 1..num PROVE w[k][1] \in L
  <2> DEFINE p == N - num + k
             after == (p + 1)..N
             pos == [x \in pairs |-> CHOOSE q \in 1..N : r[q] = <<x[1], x[2], 1>>]
  <2> SUFFICES ASSUME w[k][1] \notin L PROVE FALSE
    OBVIOUS
  <2>1. p \in 1..N /\ p \in Int /\ w[k][1] = r[p][1] /\ r[p] \in all
    BY <1>5, <1>8
  <2>2. r[p][1] \in O /\ r[p][1] \in Int /\ r[p][1] \notin L
    BY <1>1, <1>2, <2>1
  <2>3. \A x \in pairs : pos[x] \in 1..N /\ r[pos[x]] = <<x[1], x[2], 1>>
    <3> TAKE x \in pairs
    <3>1. \E q \in 1..N : r[q] = <<x[1], x[2], 1>>
      BY <1>5, <1>6
    <3> QED  BY <3>1
  <2> HIDE DEF pos, p
  <2>4. \A x \in pairs : pos[x] \in after
    <3> TAKE x \in pairs
    <3>1. pos[x] \in 1..N /\ r[pos[x]][1] = x[1] /\ x[1] \in L /\ x[1] \in Int
      <4>1. pos[x] \in 1..N /\ r[pos[x]] = <<x[1], x[2], 1>>
        BY <2>3
      <4>2. x[1] \in L /\ x[1] \in Int
        BY <1>1, <1>6
      <4> QED  BY <4>1, <4>2
    <3>2. r[p][1] <= x[1] /\ r[p][1] # x[1]
      BY <2>2, <3>1
    <3>3. ~(pos[x] <= p)
      <4> SUFFICES ASSUME pos[x] <= p PROVE FALSE
        OBVIOUS
      <4>1. r[pos[x]][1] <= r[p][1]
        BY <1>7, <2>1, <3>1
      <4> QED  BY <2>2, <3>1, <3>2, <4>1
    <3> QED  BY <1>2, <2>1, <3>1, <3>3
  <2>5. \A x, y \in pairs : pos[x] = pos[y] => x = y
    <3> SUFFICES ASSUME NEW x \in pairs, NEW y \in pairs, pos[x] = pos[y] PROVE x = y
      OBVIOUS
    <3>1. <<x[1], x[2], 1>> = <<y[1], y[2], 1>>
      BY <2>3
    <3> QED  BY <1>6, <3>1
  <2>6. DOMAIN pos = pairs /\ pos = [x \in pairs |-> pos[x]]
    BY DEF pos
  <2>7. pos \in Injection(pairs, after)
    <3>1. pos \in [pairs -> after]
      <4> HIDE DEF after
      <4> QED  BY <2>4, <2>6
    <3> HIDE DEF after
    <3> QED  BY <2>5, <3>1, Fun_IsInj
  <2>8. IsFiniteSet(after) /\ Cardinality(after) = IF p + 1 > N THEN 0 ELSE N - (p + 1) + 1
    <3>1. p + 1 \in Int /\ N \in Int
      BY <1>2, <2>1
    <3> QED  BY <3>1, FS_Interval DEF after
  <2>9. Cardinality(pairs) <= Cardinality(after)
    <3> HIDE DEF after
    <3> QED  BY <2>7, <2>8, FS_Injection
  <2>10. Cardinality(after) = num - k
    BY <1>2, <1>3, <2>1, <2>8 DEF p
  <2> QED  BY <1>3, <1>6, <2>9, <2>10
\* From a result that is new on there are only new ones, which are not more than num.
<1>11. ASSUME NEW x \in OfFiles(L \ O)
       PROVE  \E k \in 1..num : w[k] = x /\ \A j \in 1..num : w[j] = x => j = k
  <2> DEFINE a == x[1]
             c == <<x[1], x[2], 1>>
  <2>1. /\ a \in L /\ a \notin O /\ x[2] \in ResultsIn(a) /\ a \in Int /\ loads[a] = 1
        /\ x = <<a, x[2]>> /\ a \in Files
    BY <1>1 DEF OfFiles, Results
  <2>2. c \in all
    BY <1>6, <2>1
  <2>3. PICK p \in 1..N : r[p] = c
    BY <1>5, <2>2
  <2>4. \A y \in all : y[1] = a => y[3] = 1
    BY <1>2, <2>1
  <2> DEFINE rest == p..N
             f == [q \in rest |-> <<r[q][1], r[q][2]>>]
  <2>5. ASSUME NEW q \in rest
        PROVE  /\ q \in 1..N /\ r[q] \in all /\ r[q][3] = 1
               /\ <<r[q][1], r[q][2]>> \in pairs /\ r[q] = <<r[q][1], r[q][2], r[q][3]>>
    <3>1. q \in 1..N /\ p <= q
      BY <1>2
    <3>2. r[q] \in all
      BY <1>5, <3>1
    <3>3. a <= r[q][1] /\ r[q][1] \in Int /\ r[q][1] \in O \cup L
      <4>1. r[p][1] <= r[q][1]
        BY <1>7, <3>1
      <4> QED  BY <1>1, <1>2, <2>3, <3>2, <4>1
    <3>4. r[q][1] \notin O
      <4> SUFFICES ASSUME r[q][1] \in O PROVE FALSE
        OBVIOUS
      <4>1. r[q][1] <= a
        BY <2>1
      <4> QED  BY <2>1, <3>3, <4>1
    <3>5. loads[r[q][1]] = 1 /\ r[q][1] \in L
      BY <3>3, <3>4
    <3> QED  BY <1>2, <1>6, <3>1, <3>2, <3>5
  <2> HIDE DEF rest
  <2>6. f \in [rest -> pairs]
    BY <2>5
  <2>7. \A q1, q2 \in rest : f[q1] = f[q2] => q1 = q2
    <3> SUFFICES ASSUME NEW q1 \in rest, NEW q2 \in rest, f[q1] = f[q2] PROVE q1 = q2
      OBVIOUS
    <3>1. r[q1][1] = r[q2][1] /\ r[q1][2] = r[q2][2]
      OBVIOUS
    <3>2. r[q1] = r[q2]
      BY <2>5, <3>1
    <3> QED  BY <1>5, <2>5, <3>2
  <2> HIDE DEF f
  <2>8. f \in Injection(rest, pairs)
    BY <2>6, <2>7, Fun_IsInj
  <2>9. IsFiniteSet(pairs)
    <3> DEFINE g == [y \in pairs |-> <<y[1], y[2], 1>>]
    <3>1. g \in [pairs -> all] /\ \A y, z \in pairs : g[y] = g[z] => y = z
      BY <1>6
    <3> HIDE DEF g
    <3>2. g \in Injection(pairs, all)
      BY <3>1, Fun_IsInj
    <3> QED  BY <1>2, <3>2, FS_Injection
  <2>10. Cardinality(rest) <= num
    BY <1>6, <2>8, <2>9, FS_Injection
  <2>11. Cardinality(rest) = N - p + 1
    <3>1. Cardinality(p..N) = IF p > N THEN 0 ELSE N - p + 1
      BY <1>2, FS_Interval
    <3> QED  BY <1>2, <3>1 DEF rest
  <2> DEFINE k == p - (N - num)
  <2>12. k \in 1..num /\ N - num + k = p
    BY <1>2, <1>3, <2>10, <2>11
  <2> HIDE DEF k
  <2>13. w[k] = x
    BY <1>8, <2>1, <2>3, <2>12
  <2>14. ASSUME NEW j \in 1..num, w[j] = x PROVE j = k
    <3>1. N - num + j \in 1..N /\ w[j] = <<r[N - num + j][1], r[N - num + j][2]>>
      BY <1>8
    <3> DEFINE q == N - num + j
    <3>2. q \in 1..N /\ r[q][1] = a /\ r[q][2] = x[2] /\ r[q] \in all
      BY <1>5, <2>1, <2>14, <3>1
    <3>3. r[q] = c
      BY <1>2, <2>4, <3>2
    <3>4. q = p
      BY <1>5, <2>3, <3>2, <3>3
    <3> QED  BY <1>2, <1>3, <2>12, <3>4
  <2> QED  BY <2>12, <2>13, <2>14
<1>12. Shows(w, O, L)
  BY <1>4, <1>9, <1>10, <1>11 DEF Shows
<1> QED  BY <1>12 DEF w, num

-----------------------------------------------------------------------------
(* The timeline between two steps. *)

\* The files that downloads under way have got, how often each file was loaded
\* by the downloads that are over, and which files were.
Processing == UNION {batch[b].got : b \in Batches}
Settled    == [n \in Files |-> copies[n] - (IF n \in Processing THEN 1 ELSE 0)]
Old        == {n \in Files : Settled[n] > 0}

\* Where TimelineIsComplete claims that it is.
Calm == failures = 0 /\ ~overlapped /\ InOrder /\ TakenInOrder

Alone  == ~overlapped => \A b, c \in UnderWay : b = c
Latest == \A n \in Loaded : named[n] <= lastCheckTs
\* A download asks, and got, for no file from before one the page has.
Later ==
    Calm => \A b \in UnderWay : \A m \in Old :
        /\ batch[b].phase = "listing" => named[m] <= batch[b].after
        /\ \A n \in batch[b].list : Listed(n, named[m])

\* Every message of the files is there, once if its file was loaded once.
Posted(acc, loads) ==
    \A r \in Messages \cap Results : loads[r[1]] > 0 =>
        /\ PostsIn(acc, r) # {}
        /\ loads[r[1]] = 1 => \E p \in PostsIn(acc, r) : PostsIn(acc, r) = {p}

Told == Calm => Tells(events, OfFiles(Old)) /\ Posted(events, Settled)

TInv == Alone /\ Latest /\ Later /\ Told

LEMMA CalmKept ==
    ASSUME UNCHANGED <<history, taken, named, stamped, failures>>, ~overlapped' => ~overlapped
    PROVE  Calm' => Calm
<1>1. TakenInOrder' = TakenInOrder
  BY DEF TakenInOrder, Precedes, ResultsIn
<1>2. InOrder' = InOrder
  BY DEF InOrder, Visible, Named
<1> QED  BY <1>1, <1>2 DEF Calm

LEMMA SettledIs ==
    ASSUME IInv
    PROVE  /\ Settled \in [Files -> Nat] /\ Processing \in SUBSET Files
           /\ Old \in SUBSET Loaded /\ Loaded \in SUBSET Visible
<1>1. copies \in [Files -> Nat] /\ Processing \in SUBSET Loaded
  BY DEF IInv, Downloads, Knowledge, Processing
<1>2. \A n \in Processing : copies[n] > 0 /\ n \in Files
  BY <1>1 DEF Loaded
<1> HIDE DEF Processing
<1>3. ASSUME NEW n \in Files
      PROVE  Settled[n] \in Nat /\ (Settled[n] > 0 => copies[n] > 0)
  <2>1. Settled[n] = copies[n] - (IF n \in Processing THEN 1 ELSE 0)
    BY DEF Settled
  <2>2. copies[n] \in Nat /\ (n \in Processing => copies[n] > 0)
    BY <1>1, <1>2
  <2> QED  BY <2>1, <2>2
<1>4. Settled \in [Files -> Nat]
  <2>1. Settled = [n \in Files |-> Settled[n]]
    BY DEF Settled
  <2> QED  BY <1>3, <2>1
<1> QED  BY <1>2, <1>3, <1>4 DEF Old, Loaded, IInv, Knowledge

LEMMA OfFilesKept ==
    ASSUME UNCHANGED history, NEW F PROVE OfFiles(F)' = OfFiles(F)
BY DEF OfFiles, Results, ResultsIn

LEMMA TimelineInit == Init => TInv
<1> SUFFICES ASSUME Init PROVE TInv
  OBVIOUS
<1> USE DEF Init
<1>1. UnderWay = {} /\ Loaded = {} /\ Processing = {}
  BY DEF UnderWay, Loaded, Processing
<1>2. Alone /\ Latest /\ Later
  BY <1>1 DEF Alone, Latest, Later
<1>3. \A n \in Files : Settled[n] = 0
  BY <1>1 DEF Settled
<1>4. OfFiles(Old) = {}
  BY <1>3 DEF OfFiles, Old
<1>5. Tells(<<>>, {})
  <2>1. \A e : FilesOf({}, e) = {}
    BY DEF FilesOf
  <2>2. \A e : StatusShown(<<>>, e) = "none"
    <3> TAKE e
    <3>1. {i \in 1..Len(<<>>) : <<>>[i].result[2] = e} = {}
      OBVIOUS
    <3> QED  BY <3>1 DEF StatusShown
  <2>3. \A e : OwnOf(<<>>, e) = {}
    BY DEF OwnOf
  <2>4. \A e : ChangesIn({}, e) = {}
    BY <2>1 DEF ChangesIn
  <2> QED  BY <2>1, <2>2, <2>3, <2>4 DEF Tells
<1>6. Posted(<<>>, Settled)
  BY <1>3 DEF Posted, Results
<1> QED  BY <1>2, <1>4, <1>5, <1>6 DEF TInv, Told

\* A step that neither loads a file nor starts a download.
LEMMA TimelineKept ==
    ASSUME IInv, TInv, UNCHANGED <<storage, history, copies, events, lastCheckTs, overlapped>>,
           Calm' => Calm, UnderWay' \subseteq UnderWay,
           \A k \in Visible : named'[k] = named[k] /\ stamped'[k] = stamped[k],
           \A c \in Batches :
              /\ batch'[c].got = batch[c].got
              /\ batch'[c].phase = "listing" =>
                    batch[c].phase = "listing" /\ batch'[c].after = batch[c].after
              /\ \A n \in batch'[c].list :
                    \/ n \in batch[c].list
                    \/ batch[c].phase = "listing" /\ n \in Visible /\ Listed(n, batch[c].after)
    PROVE  TInv'
<1>1. Loaded' = Loaded /\ Processing' = Processing
  BY DEF Loaded, Processing
<1>2. Settled' = Settled /\ Old' = Old
  <2>1. Settled' = Settled
    BY <1>1 DEF Settled
  <2> QED  BY <2>1 DEF Old
<1>3. Old \in SUBSET Loaded /\ Loaded \in SUBSET Visible
  BY SettledIs
<1>4. Alone'
  BY DEF TInv, Alone
<1>6. Latest'
  BY <1>1, <1>3 DEF TInv, Latest
<1>7. Later'
  <2> SUFFICES ASSUME Calm', NEW c \in UnderWay', NEW m \in Old'
               PROVE  /\ batch'[c].phase = "listing" => named'[m] <= batch'[c].after
                      /\ \A n \in batch'[c].list : Listed(n, named[m])'
    BY DEF Later
  <2>1. c \in UnderWay /\ c \in Batches /\ m \in Old /\ m \in Visible /\ m \in Files
    BY <1>2, <1>3 DEF UnderWay, Visible
  <2>2. /\ batch[c].phase = "listing" => named[m] <= batch[c].after
        /\ \A n \in batch[c].list : Listed(n, named[m])
    BY <2>1 DEF TInv, Later
  <2>3. batch'[c].phase = "listing" => named'[m] <= batch'[c].after
    BY <2>1, <2>2
  <2>4. ASSUME NEW n \in batch'[c].list PROVE Listed(n, named[m])'
    <3>1. n \in Visible /\ n \in Files
      BY <2>1 DEF IInv, Downloads, Visible
    <3>2. Listed(n, named[m])
      <4>1. CASE n \in batch[c].list
        BY <2>2, <4>1
      <4>2. CASE batch[c].phase = "listing" /\ Listed(n, batch[c].after)
        <5>1. named[m] \in Nat /\ batch[c].after \in Int /\ Key(n) \in Nat
          BY <2>1, <3>1 DEF IInv, Clocked, Downloads, Key
        <5> QED  BY <2>2, <4>2, <5>1 DEF Listed
      <4> QED  BY <2>1, <4>1, <4>2
    <3> QED  BY <2>1, <3>1, <3>2 DEF Listed, Key
  <2> QED  BY <2>3, <2>4
<1>8. Told'
  <2> SUFFICES ASSUME Calm' PROVE Tells(events, OfFiles(Old))' /\ Posted(events, Settled)'
    BY DEF Told
  <2>1. Tells(events, OfFiles(Old)) /\ Posted(events, Settled)
    BY DEF TInv, Told
  <2>2. OfFiles(Old)' = OfFiles(Old)
    BY <1>2, OfFilesKept
  <2>3. Tells(events, OfFiles(Old))' <=> Tells(events, OfFiles(Old))
    BY <2>2 DEF Tells, ChangesIn
  <2>4. Posted(events, Settled)' <=> Posted(events, Settled)
    BY <1>2 DEF Posted, Results, ResultsIn
  <2> QED  BY <2>1, <2>3, <2>4
<1> QED  BY <1>4, <1>6, <1>7, <1>8 DEF TInv

\* A publisher changes nothing about visible files, and files that are now in order
\* were so before.
LEMMA OrderKept ==
    ASSUME IInv, NEW n \in Files, NameFile(n) \/ ShowFile(n)
    PROVE  /\ InOrder' => InOrder
           /\ \A k \in Visible : named'[k] = named[k] /\ stamped'[k] = stamped[k]
<1>0. Clocked /\ clock \in Nat /\ clock' \in Nat /\ clock' > clock
  BY SizesAssumption DEF IInv, Clocked, NameFile, ShowFile
<1>1. CASE NameFile(n)
  <2>1. named' = [named EXCEPT ![n] = clock'] /\ UNCHANGED stamped /\ Named = 1..(n - 1)
    BY <1>1 DEF NameFile
  <2>2. n \notin Named /\ Visible' = Visible /\ n \notin Visible
    BY <1>0, <2>1, SizesAssumption DEF Visible, Clocked, Files
  <2>3. \A k \in Files \ {n} : named'[k] = named[k]
    BY <1>0, <2>1 DEF Clocked
  <2>4. \A k \in Visible : k \in Files \ {n}
    BY <2>2 DEF Visible
  <2>5. \A k \in Named : k \in Named'
    BY <2>2, <2>3 DEF Named
  <2>6. InOrder' => InOrder
    BY <2>1, <2>2, <2>3, <2>4, <2>5 DEF InOrder
  <2> QED  BY <2>1, <2>3, <2>4, <2>6
<1>2. CASE ShowFile(n)
  <2>1. /\ n \in Named /\ n \notin Visible /\ UNCHANGED named
        /\ stamped' = [stamped EXCEPT ![n] = clock']
    BY <1>2 DEF ShowFile
  <2>2. /\ stamped'[n] = clock' /\ clock' > 0
        /\ \A k \in Files \ {n} : stamped'[k] = stamped[k]
    BY <1>0, <2>1 DEF Clocked
  <2>3. /\ Visible' = Visible \cup {n} /\ Named' = Named
        /\ \A k \in Visible : k \in Files /\ k # n /\ stamped'[k] = stamped[k]
    BY <1>0, <2>1, <2>2 DEF Visible, Named, Clocked
  <2>4. \A k \in Files : named[k] < clock' /\ named[k] \in Nat
    BY <1>0 DEF Clocked
  <2>5. ASSUME InOrder', NEW k \in Visible, NEW m \in Named, m < k
        PROVE  m \in Visible /\ stamped[m] < named[k]
    <3>1. m \in Visible' /\ stamped'[m] < named[k]
      BY <2>1, <2>3, <2>5 DEF InOrder
    <3>2. m # n
      BY <1>0, <2>2, <2>3, <2>4, <3>1 DEF Clocked
    <3> QED  BY <2>3, <3>1, <3>2
  <2> QED  BY <2>1, <2>3, <2>5 DEF InOrder
<1> QED  BY <1>1, <1>2

\* A download that starts asks for nothing older than what the page has.
LEMMA TimelineRequest ==
    ASSUME IInv, TInv, NEW b \in Batches, NEW after \in Int, Request(b, after),
           \A n \in Loaded : named[n] <= after
    PROVE  TInv'
<1>1. /\ batch[b].phase = "unused"
      /\ batch' = [batch EXCEPT ![b].phase = "listing", ![b].after = after]
      /\ overlapped' = (overlapped \/ UnderWay # {})
      /\ UNCHANGED <<storage, history, taken, copies, events, lastCheckTs>>
      /\ UNCHANGED <<named, stamped, failures>>
  BY DEF Request, extern, files, page
<1>2. /\ batch \in [Batches -> [phase : Phases, after : Int, list : SUBSET Files,
                                pending : SUBSET Files, got : SUBSET Files]]
      /\ batch[b].list = {} /\ batch[b].got = {}
  BY <1>1 DEF IInv, Downloads
<1>3. /\ batch'[b].list = {} /\ batch'[b].got = {} /\ batch'[b].after = after
      /\ \A c \in Batches \ {b} : batch'[c] = batch[c]
  BY <1>1, <1>2
<1>4. Loaded' = Loaded /\ Processing' = Processing
  <2>1. \A c \in Batches : batch'[c].got = batch[c].got
    BY <1>2, <1>3
  <2> QED  BY <1>1, <2>1 DEF Loaded, Processing
<1>5. Settled' = Settled /\ Old' = Old
  <2>1. Settled' = Settled
    BY <1>1, <1>4 DEF Settled
  <2> QED  BY <2>1 DEF Old
<1>6. ~overlapped' => ~overlapped /\ UnderWay' \subseteq {b}
  <2> SUFFICES ASSUME ~overlapped' PROVE ~overlapped /\ UnderWay' \subseteq {b}
    OBVIOUS
  <2>1. ~overlapped /\ UnderWay = {}
    BY <1>1
  <2>2. \A c \in Batches \ {b} : c \notin UnderWay'
    BY <1>3, <2>1 DEF UnderWay
  <2> QED  BY <2>1, <2>2 DEF UnderWay
<1>7. Calm' => Calm
  BY <1>1, <1>6, CalmKept
<1>8. Alone'
  BY <1>6 DEF Alone
<1>10. Latest'
  BY <1>1, <1>4 DEF TInv, Latest
<1>11. Later'
  <2> SUFFICES ASSUME Calm', NEW c \in UnderWay', NEW m \in Old'
               PROVE  /\ batch'[c].phase = "listing" => named'[m] <= batch'[c].after
                      /\ \A n \in batch'[c].list : Listed(n, named[m])'
    BY DEF Later
  <2>1. c = b /\ m \in Loaded
    BY <1>5, <1>6, SettledIs DEF Calm
  <2> QED  BY <1>1, <1>3, <2>1
<1>12. Told'
  <2> SUFFICES ASSUME Calm' PROVE Tells(events, OfFiles(Old))' /\ Posted(events, Settled)'
    BY DEF Told
  <2>1. Tells(events, OfFiles(Old)) /\ Posted(events, Settled)
    BY <1>7 DEF TInv, Told
  <2>2. OfFiles(Old)' = OfFiles(Old)
    BY <1>1, <1>5, OfFilesKept
  <2>3. Tells(events, OfFiles(Old))' <=> Tells(events, OfFiles(Old))
    BY <1>1, <2>2 DEF Tells, ChangesIn
  <2>4. Posted(events, Settled)' <=> Posted(events, Settled)
    BY <1>1, <1>5 DEF Posted, Results, ResultsIn
  <2> QED  BY <2>1, <2>3, <2>4
<1> QED  BY <1>8, <1>10, <1>11, <1>12 DEF TInv

\* What a download has on its list is not older than what the page had before.
LEMMA OldFirst ==
    ASSUME IInv, TInv, Calm, NEW b \in UnderWay, NEW m \in Old, NEW n \in batch[b].list
    PROVE  m <= n
<1>1. b \in Batches
  BY DEF UnderWay
<1>2. /\ m \in Visible /\ n \in Visible /\ m \in Files /\ n \in Files
      /\ Listed(n, named[m])
  BY <1>1, SettledIs DEF IInv, Downloads, TInv, Later, Visible
<1>3. /\ named[m] \in Nat /\ named[n] \in Nat /\ stamped[n] \in Nat
      /\ m \in Named /\ n \in Named
  BY <1>2 DEF IInv, Clocked
<1>4. ASSUME n < m PROVE FALSE
  <2>1. named[n] < named[m]
    BY <1>2, <1>3, <1>4 DEF IInv, Clocked
  <2>2. stamped[n] < named[m]
    BY <1>2, <1>3, <1>4 DEF Calm, InOrder
  <2> QED  BY <1>2, <1>3, <2>1, <2>2 DEF Listed, Key
<1> QED  BY <1>2, <1>4, SizesAssumption DEF Files

\* No other download has any files while one is under way.
LEMMA NobodyElse ==
    ASSUME IInv, CInv, TInv, failures = 0, ~overlapped, NEW b \in UnderWay
    PROVE  /\ \A c \in Batches \ {b} : batch[c].got = {} /\ c \notin UnderWay
           /\ Processing = batch[b].got
<1>1. b \in Batches
  BY DEF UnderWay
<1>2. ASSUME NEW c \in Batches \ {b} PROVE batch[c].got = {} /\ c \notin UnderWay
  <2>1. c \notin UnderWay
    BY DEF TInv, Alone
  <2>2. batch[c].phase # "loading"
    BY <2>1 DEF UnderWay, CInv, Awaited
  <2> QED  BY <2>1, <2>2 DEF IInv, Downloads
<1> QED  BY <1>1, <1>2 DEF Processing


\* What the last file of a download finds, and what it leaves behind.
Grows(acc, was, loads, O, L) ==
    /\ acc \in Seq(Event) /\ Tells(acc, OfFiles(O)) /\ Posted(acc, was)
    /\ was \in [Files -> Nat] /\ loads \in [Files -> Nat]
    /\ O = {n \in Files : was[n] > 0} /\ L \in SUBSET Files
    /\ \A m \in O : \A n \in L : m <= n
    /\ \A n \in Files : loads[n] = was[n] + (IF n \in L THEN 1 ELSE 0)

\* The last file of a download: what the window of new results makes of the
\* timeline.
LEMMA TimelineGrows ==
    ASSUME history \in Histories, taken \in Timings, TakenInOrder,
           NEW acc, NEW was, NEW loads, NEW O, NEW L,
           Grows(acc, was, loads, O, L),
           NEW all, all = WithEvents(acc, Window(loads, NumResults(L)))
    PROVE  Tells(all, OfFiles(O \cup L)) /\ Posted(all, loads)
<1> DEFINE w == Window(loads, NumResults(L))
           num == Len(w)
           D == OfFiles(O)
<1>0. /\ acc \in Seq(Event) /\ Tells(acc, OfFiles(O)) /\ Posted(acc, was)
      /\ was \in [Files -> Nat] /\ loads \in [Files -> Nat]
      /\ O = {n \in Files : was[n] > 0} /\ L \in SUBSET Files
      /\ \A m \in O : \A n \in L : m <= n
      /\ \A n \in Files : loads[n] = was[n] + (IF n \in L THEN 1 ELSE 0)
  BY DEF Grows
<1> USE <1>0
<1>1. \A n \in Files : /\ loads[n] > 0 <=> n \in O \cup L
                       /\ n \in L \ O => loads[n] = 1
                       /\ n \in O /\ loads[n] = 1 => n \notin L /\ was[n] = 1
  <2> TAKE n \in Files
  <2>1. was[n] \in Nat /\ loads[n] = was[n] + (IF n \in L THEN 1 ELSE 0)
        /\ (n \in O <=> was[n] > 0)
    OBVIOUS
  <2> QED  BY <2>1
<1>2. /\ {n \in Files : loads[n] > 0} = O \cup L
      /\ \A n \in L \ O : loads[n] = 1
      /\ Brings(loads, O, L)
  BY <1>1 DEF Brings
<1>3. /\ num \in Nat /\ w \in Seq(Results)
      /\ \A k \in 1..num : w[k][1] \in L
      /\ \A j, k \in 1..num : j <= k => w[j][1] <= w[k][1]
      /\ \A r \in OfFiles(L \ O) :
            \E k \in 1..num : w[k] = r /\ \A j \in 1..num : w[j] = r => j = k
  <2>1. Shows(w, O, L)
    BY <1>2, WindowIsNew
  <2> HIDE DEF w
  <2> QED  BY <2>1 DEF Shows
<1>4. D \in SUBSET Results /\ all = WithEvents(acc, w) /\ Tells(acc, D)
  BY DEF OfFiles
<1> HIDE DEF num, w
<1>5. \A k \in 1..num : \A x \in D : x[1] <= w[k][1]
  BY <1>3 DEF OfFiles
<1> HIDE DEF D
<1>6. Tells(all, D \cup ToSet(w)) /\ Put(all, acc, w)
  <2>1. Resumes(w, D)
    BY <1>3, <1>4, <1>5 DEF Resumes, num
  <2> QED  BY <1>4, <2>1, WindowTells
<1>7. D \cup ToSet(w) = OfFiles(O \cup L)
  <2>1. \A k \in 1..num : w[k] \in Results /\ w[k][1] \in L
    BY <1>3 DEF num
  <2>2. \A r \in OfFiles(O \cup L) : r \in D \/ r \in OfFiles(L \ O)
    BY DEF D, OfFiles
  <2>3. \A r \in OfFiles(L \ O) : \E k \in 1..num : w[k] = r
    BY <1>3
  <2>4. \A r \in D : r \in OfFiles(O \cup L)
    BY DEF D, OfFiles
  <2>5. \A k \in 1..num : w[k] \in OfFiles(O \cup L)
    BY <2>1 DEF OfFiles
  <2>6. ToSet(w) = {w[k] : k \in 1..num}
    BY <1>3 DEF ToSet, num
  <2> QED  BY <2>2, <2>3, <2>4, <2>5, <2>6
<1>8. PICK at \in [1..num -> Nat] : \A x :
         PostsIn(all, x) = PostsIn(acc, x) \cup
            {at[k] : k \in {i \in 1..num : w[i] = x /\ x \in Messages}}
  BY <1>6 DEF Put, num
<1>9. ASSUME NEW r \in Messages \cap Results, loads[r[1]] > 0
      PROVE  /\ PostsIn(all, r) # {}
             /\ loads[r[1]] = 1 => \E p \in PostsIn(all, r) : PostsIn(all, r) = {p}
  <2>1. r[1] \in Files /\ r[1] \in O \cup L
    BY <1>1, <1>9 DEF Results
  <2>2. CASE r[1] \in O
    <3>1. /\ was[r[1]] > 0 /\ PostsIn(acc, r) # {}
          /\ was[r[1]] = 1 => \E p \in PostsIn(acc, r) : PostsIn(acc, r) = {p}
      BY <2>2 DEF Posted
    <3>2. PostsIn(all, r) # {}
      BY <1>8, <3>1
    <3>3. ASSUME loads[r[1]] = 1 PROVE \E p \in PostsIn(all, r) : PostsIn(all, r) = {p}
      <4>1. r[1] \notin L /\ was[r[1]] = 1
        BY <1>1, <2>1, <2>2, <3>3
      <4>2. {i \in 1..num : w[i] = r /\ r \in Messages} = {}
        BY <1>3, <4>1
      <4>3. PostsIn(all, r) = PostsIn(acc, r)
        BY <1>8, <4>2
      <4> QED  BY <3>1, <4>1, <4>3
    <3> QED  BY <3>2, <3>3
  <2>3. CASE r[1] \in L \ O
    <3>1. PICK k \in 1..num : w[k] = r /\ \A j \in 1..num : w[j] = r => j = k
      <4>1. r \in OfFiles(L \ O)
        BY <2>3 DEF OfFiles
      <4> QED  BY <1>3, <4>1
    <3>2. {i \in 1..num : w[i] = r /\ r \in Messages} = {k}
      BY <3>1
    <3>3. PostsIn(acc, r) = {}
      <4>1. r \notin D
        BY <2>3 DEF D, OfFiles
      <4>2. \A i \in 1..Len(acc) : acc[i].result # r
        BY <1>4, <4>1 DEF Tells
      <4> QED  BY <4>2 DEF PostsIn
    <3>4. PostsIn(all, r) = {at[k]}
      <4>1. PostsIn(all, r) = {at[i] : i \in {k}}
        BY <1>8, <3>2, <3>3
      <4> QED  BY <4>1
    <3> QED  BY <3>4
  <2> QED  BY <2>1, <2>2, <2>3
<1>10. Posted(all, loads)
  BY <1>9 DEF Posted
<1> QED  BY <1>6, <1>7, <1>10

LEMMA TimelineFile ==
    ASSUME IInv, CInv, Typed, TInv, NEW b \in Batches, NEW n \in Files, FileArrives(b, n)
    PROVE  TInv'
<1> DEFINE got == batch[b].got \cup {n}
           over == Cardinality(got) >= Cardinality(batch[b].list)
<1>1. /\ batch \in [Batches -> [phase : Phases, after : Int, list : SUBSET Files,
                                pending : SUBSET Files, got : SUBSET Files]]
      /\ n \in batch[b].pending /\ got \subseteq batch[b].list /\ n \notin batch[b].got
      /\ UNCHANGED <<storage, history, taken, named, stamped, failures, overlapped>>
      /\ copies \in [Files -> Nat] /\ copies' = [copies EXCEPT ![n] = @ + 1]
      /\ history \in Histories /\ taken \in Timings /\ events \in Seq(Event)
      /\ b \in UnderWay
  BY DEF IInv, Downloads, Knowledge, Typed, UnderWay, FileArrives, ProcessNewCheckFile,
         extern, files, past
<1>2. got \in SUBSET Files /\ batch[b].list \in SUBSET Files
  BY <1>1
<1>3. /\ over => /\ batch' = [batch EXCEPT ![b].phase = "done", ![b].list = {},
                                           ![b].pending = {}, ![b].got = {}]
                 /\ events' = WithEvents(events, Window(copies', NumResults(got)))
      /\ ~over => /\ batch' = [batch EXCEPT ![b].pending = @ \ {n}, ![b].got = got]
                  /\ UNCHANGED events
  <2>1. Cardinality(got) \in Nat /\ Cardinality(batch[b].list) \in Nat
    BY <1>2, FilesFinite, FS_CardinalityType
  <2>2. over => ~(Cardinality(got) < Cardinality(batch[b].list))
    BY <2>1
  <2> QED  BY <2>2 DEF FileArrives, AllCheckFilesLoaded, Window
<1>4. /\ over => batch'[b].list = {} /\ batch'[b].pending = {} /\ batch'[b].got = {}
                 /\ batch'[b].phase = "done"
      /\ ~over => batch'[b].list = batch[b].list /\ batch'[b].got = got
                   /\ batch'[b].phase = batch[b].phase /\ batch'[b].after = batch[b].after
      /\ \A c \in Batches \ {b} : batch'[c] = batch[c]
  <2> HIDE DEF got, over
  <2> QED  BY <1>1, <1>3
<1> HIDE DEF over
<1>5. UnderWay' \subseteq UnderWay /\ (over => b \notin UnderWay')
  BY <1>1, <1>4 DEF UnderWay
<1>6. Loaded' = Loaded \cup {n}
  BY <1>1 DEF Loaded
<1>7. Calm' => Calm
  BY <1>1, CalmKept
<1>8. Alone'
  BY <1>1, <1>5 DEF TInv, Alone
<1>10. Latest'
  <2>1. lastCheckTs' = Max({lastCheckTs, named[n]})
    BY DEF FileArrives, ProcessNewCheckFile
  <2>2. lastCheckTs \in Nat /\ \A k \in Files : named[k] \in Nat
    BY DEF IInv, Knowledge, Clocked
  <2>3. lastCheckTs' \in Nat /\ lastCheckTs' >= lastCheckTs /\ lastCheckTs' >= named[n]
    BY <2>1, <2>2, MaxOfTwo
  <2>4. \A k \in Loaded : named[k] <= lastCheckTs' /\ k \in Files
    <3> TAKE k \in Loaded
    <3>1. k \in Files /\ named[k] <= lastCheckTs
      BY DEF TInv, Latest, Loaded
    <3> QED  BY <2>2, <2>3, <3>1
  <2> QED  BY <1>1, <1>6, <2>3, <2>4 DEF Latest
<1>11. Later' /\ Told'
  <2> SUFFICES ASSUME Calm PROVE Later' /\ Told'
    BY <1>7 DEF Later, Told
  <2>0. failures = 0 /\ ~overlapped
    BY DEF Calm
  <2>1. /\ \A c \in Batches \ {b} : batch[c].got = {} /\ c \notin UnderWay
        /\ Processing = batch[b].got
    BY <1>1, <2>0, NobodyElse
  <2>2. /\ Settled \in [Files -> Nat] /\ Old \in SUBSET Files
        /\ Settled = [k \in Files |-> copies[k] - (IF k \in batch[b].got THEN 1 ELSE 0)]
    BY <2>1, SettledIs DEF Settled, Loaded
  <2>3. Tells(events, OfFiles(Old)) /\ Posted(events, Settled)
    BY DEF TInv, Told
  <2>4. copies' \in [Files -> Nat] /\ \A k \in Files :
           copies'[k] = copies[k] + (IF k = n THEN 1 ELSE 0)
    BY <1>1
  <2>5. CASE ~over
    <3>1. Processing' = got
      BY <1>4, <2>1, <2>5 DEF Processing
    <3>2. Settled' = Settled /\ Old' = Old
      <4>1. Settled' = [k \in Files |-> copies'[k] - (IF k \in got THEN 1 ELSE 0)]
        BY <3>1 DEF Settled
      <4>2. ASSUME NEW k \in Files
            PROVE  copies'[k] - (IF k \in got THEN 1 ELSE 0) =
                      copies[k] - (IF k \in batch[b].got THEN 1 ELSE 0)
        <5>1. copies[k] \in Nat
          BY <1>1
        <5>2. CASE k = n
          BY <1>1, <2>4, <5>1, <5>2
        <5>3. CASE k # n
          BY <1>1, <2>4, <5>1, <5>3
        <5> QED  BY <5>2, <5>3
      <4>3. Settled' = Settled
        BY <2>2, <4>1, <4>2
      <4> QED  BY <4>3 DEF Old
    <3>3. Later'
      <4> SUFFICES ASSUME NEW c \in UnderWay', NEW m \in Old'
                   PROVE  /\ batch'[c].phase = "listing" => named'[m] <= batch'[c].after
                          /\ \A k \in batch'[c].list : Listed(k, named[m])'
        BY DEF Later
      <4>1. c \in UnderWay /\ c \in Batches /\ m \in Old
        BY <1>5, <3>2 DEF UnderWay
      <4>2. /\ batch'[c].phase = batch[c].phase /\ batch'[c].after = batch[c].after
            /\ batch'[c].list = batch[c].list
        BY <1>4, <2>5, <4>1
      <4>3. /\ batch[c].phase = "listing" => named[m] <= batch[c].after
            /\ \A k \in batch[c].list : Listed(k, named[m])
        BY <4>1 DEF TInv, Later
      <4> QED  BY <1>1, <4>2, <4>3 DEF Listed, Key
    <3>4. Told'
      <4>1. OfFiles(Old)' = OfFiles(Old) /\ events' = events
        BY <1>1, <1>3, <2>5, <3>2, OfFilesKept
      <4>2. Tells(events, OfFiles(Old))' <=> Tells(events, OfFiles(Old))
        BY <1>1, <4>1 DEF Tells, ChangesIn
      <4>3. Posted(events, Settled)' <=> Posted(events, Settled)
        BY <1>1, <3>2, <4>1 DEF Posted, Results, ResultsIn
      <4> QED  BY <2>3, <4>2, <4>3 DEF Told
    <3> QED  BY <3>3, <3>4
  <2>6. CASE over
    <3>1. Processing' = {}
      BY <1>4, <2>1, <2>6 DEF Processing
    <3>2. Settled' = copies'
      <4>1. Settled' = [k \in Files |-> copies'[k] - 0]
        BY <3>1 DEF Settled
      <4>2. \A k \in Files : copies'[k] - 0 = copies'[k]
        BY <2>4
      <4> QED  BY <2>4, <4>1, <4>2
    <3>3. Later'
      <4>1. UnderWay' = {}
        BY <1>5, <2>1, <2>6 DEF UnderWay
      <4> QED  BY <4>1 DEF Later
    <3>4. \A k \in Files : copies'[k] = Settled[k] + (IF k \in got THEN 1 ELSE 0)
      <4> TAKE k \in Files
      <4>1. /\ copies[k] \in Nat /\ copies'[k] = copies[k] + (IF k = n THEN 1 ELSE 0)
            /\ Settled[k] = copies[k] - (IF k \in batch[b].got THEN 1 ELSE 0)
        BY <1>1, <2>2, <2>4
      <4>2. k \in got <=> k = n \/ k \in batch[b].got
        OBVIOUS
      <4>3. n \notin batch[b].got
        BY <1>1
      <4> HIDE DEF got
      <4> QED  BY <4>1, <4>2, <4>3
    <3>5. Old' = Old \cup got
      <4>1. \A k \in Files : copies'[k] > 0 <=> Settled[k] > 0 \/ k \in got
        <5> TAKE k \in Files
        <5>1. Settled[k] \in Nat
          BY <2>2
        <5> QED  BY <3>4, <5>1
      <4> HIDE DEF got
      <4> QED  BY <1>2, <3>2, <4>1 DEF Old
    <3>6. \A m \in Old : \A k \in got : m <= k
      BY <1>1, OldFirst
    <3>7. /\ Old = {k \in Files : Settled[k] > 0}
          /\ events' = WithEvents(events, Window(copies', NumResults(got)))
      BY <1>3, <2>6 DEF Old
    <3> HIDE DEF got
    <3>8. Tells(events', OfFiles(Old \cup got)) /\ Posted(events', copies')
      <4>1. Grows(events, Settled, copies', Old, got)
        BY <1>1, <1>2, <2>2, <2>3, <2>4, <3>4, <3>6, <3>7 DEF Grows
      <4> QED  BY <1>1, <3>7, <4>1, TimelineGrows DEF Calm
    <3>9. OfFiles(Old)' = OfFiles(Old \cup got)
      BY <1>1, <3>5 DEF OfFiles, Results, ResultsIn
    <3>10. Tells(events, OfFiles(Old))' <=> Tells(events', OfFiles(Old \cup got))
      BY <1>1, <3>9 DEF Tells, ChangesIn
    <3>11. Posted(events, Settled)' <=> Posted(events', copies')
      BY <1>1, <3>2 DEF Posted, Results, ResultsIn
    <3> QED  BY <3>3, <3>8, <3>10, <3>11 DEF Told
  <2> QED  BY <2>5, <2>6
<1> QED  BY <1>8, <1>10, <1>11 DEF TInv

LEMMA TimelineNext == IInv /\ CInv /\ Typed /\ TInv /\ [Next]_vars => TInv'
<1> SUFFICES ASSUME IInv, CInv, Typed, TInv, [Next]_vars PROVE TInv'
  OBVIOUS
<1>0. /\ batch \in [Batches -> [phase : Phases, after : Int, list : SUBSET Files,
                                pending : SUBSET Files, got : SUBSET Files]]
      /\ failures \in Nat /\ clock \in Nat /\ lastCheckTs \in Nat
      /\ history \in Histories /\ taken \in Timings /\ events \in Seq(Event)
  BY DEF IInv, Downloads, CInv, Awaited, Clocked, Knowledge, Typed
<1>1. ASSUME NEW n \in Files, NameFile(n) \/ ShowFile(n) PROVE TInv'
  <2>1. /\ UNCHANGED <<storage, history, taken, copies, events, lastCheckTs, overlapped>>
        /\ UNCHANGED <<batch, failures>>
    BY <1>1 DEF NameFile, ShowFile, extern, page, past
  <2>2. TakenInOrder' = TakenInOrder
    BY <2>1 DEF TakenInOrder, Precedes, ResultsIn
  <2>3. (Calm' => Calm) /\ UnderWay' = UnderWay
    BY <1>1, <2>1, <2>2, OrderKept DEF Calm, UnderWay
  <2> QED  BY <1>1, <2>1, <2>3, OrderKept, TimelineKept
<1>2. CASE Open
  <2>1. Loaded = {}
    <3>1. lastCheckTs = 0
      BY <1>2 DEF Open, Request, IInv, Knowledge
    <3>2. ASSUME NEW n \in Loaded PROVE FALSE
      <4>1. n \in Visible /\ n \in Files /\ named[n] <= 0
        BY <3>1 DEF TInv, Latest, IInv, Knowledge, Visible
      <4>2. named[n] \in Nat /\ named[n] # 0
        BY <4>1 DEF IInv, Clocked, Named
      <4> QED  BY <4>1, <4>2
    <3> QED  BY <3>2
  <2>2. 1 \in Batches /\ clock - Timeframe \in Int /\ Request(1, clock - Timeframe)
    BY <1>0, <1>2, SizesAssumption DEF Open, Batches
  <2> QED  BY <2>1, <2>2, TimelineRequest
<1>3. ASSUME NEW b \in Batches, GetNewChecks(b) PROVE TInv'
  <2>1. PICK late \in 0..MaxLate : Request(b, lastCheckTs + late)
    BY <1>3 DEF GetNewChecks
  <2>2. lastCheckTs + late \in Int /\ lastCheckTs + late >= lastCheckTs
    BY <1>0, SizesAssumption
  <2>3. \A n \in Loaded : named[n] <= lastCheckTs + late
    <3> TAKE n \in Loaded
    <3>1. named[n] \in Nat /\ named[n] <= lastCheckTs
      BY DEF TInv, Latest, IInv, Clocked, Loaded
    <3> QED  BY <1>0, <2>2, <3>1
  <2> QED  BY <2>1, <2>2, <2>3, TimelineRequest
<1>4. ASSUME NEW b \in Batches, PageArrives(b) PROVE TInv'
  <2>1. /\ batch' = [batch EXCEPT ![b].list = @ \cup NextPage(b)]
        /\ batch[b].phase = "listing"
        /\ UNCHANGED <<storage, history, taken, copies, events, lastCheckTs>>
        /\ UNCHANGED <<overlapped, failures, named, stamped>>
    BY <1>4 DEF PageArrives, extern, files, page, past
  <2>2. /\ \A n \in NextPage(b) : n \in Visible /\ Listed(n, batch[b].after)
        /\ NextPage(b) \in SUBSET Files
    BY DEF NextPage, Unlisted, Visible
  <2>3. \A c \in Batches : /\ batch'[c].phase = batch[c].phase
                           /\ batch'[c].pending = batch[c].pending
                           /\ batch'[c].got = batch[c].got /\ batch'[c].after = batch[c].after
                           /\ batch'[c].list = batch[c].list \/ c = b
                           /\ batch'[b].list = batch[b].list \cup NextPage(b)
    BY <1>0, <2>1
  <2>4. UnderWay' \subseteq UnderWay /\ (Calm' => Calm)
    BY <2>1, <2>3, CalmKept DEF UnderWay
  <2>5. \A c \in Batches : \A n \in batch'[c].list :
           \/ n \in batch[c].list
           \/ batch[c].phase = "listing" /\ n \in Visible /\ Listed(n, batch[c].after)
    BY <2>1, <2>2, <2>3
  <2> QED  BY <2>1, <2>3, <2>4, <2>5, TimelineKept
<1>5. ASSUME NEW b \in Batches, ListArrives(b) PROVE TInv'
  <2> DEFINE list == batch[b].list \cup Unlisted(b)
  <2>1. /\ batch[b].phase = "listing" /\ UNCHANGED <<events, copies>>
        /\ UNCHANGED <<storage, history, taken, lastCheckTs, overlapped, failures>>
        /\ UNCHANGED <<named, stamped>>
        /\ \/ list = {} /\ batch' = [batch EXCEPT ![b].phase = "done", ![b].after = 0]
           \/ batch' = [batch EXCEPT ![b].phase = "loading", ![b].after = 0,
                                     ![b].list = list, ![b].pending = list]
    BY <1>0, <1>5, ListLoads DEF ListArrives, extern, files, page, past
  <2>2. /\ \A n \in Unlisted(b) : n \in Visible /\ Listed(n, batch[b].after)
        /\ list \in SUBSET Files
    BY <1>0 DEF Unlisted, Visible
  <2> HIDE DEF list
  <2>3. \A c \in Batches : /\ batch'[c].got = batch[c].got
                           /\ batch'[c] = batch[c] \/ (c = b /\ batch'[c].phase # "listing")
                           /\ batch'[b].list = batch[b].list \/ batch'[b].list = list
    BY <1>0, <2>1
  <2>4. UnderWay' \subseteq UnderWay /\ (Calm' => Calm)
    <3>1. b \in UnderWay
      BY <2>1 DEF UnderWay
    <3>2. UnderWay' \subseteq UnderWay
      BY <2>3, <3>1 DEF UnderWay
    <3> QED  BY <2>1, <3>2, CalmKept
  <2>5. \A c \in Batches : \A n \in batch'[c].list :
           \/ n \in batch[c].list
           \/ batch[c].phase = "listing" /\ n \in Visible /\ Listed(n, batch[c].after)
    BY <2>1, <2>2, <2>3 DEF list
  <2> QED  BY <2>1, <2>3, <2>4, <2>5, TimelineKept
<1>6. ASSUME NEW b \in Batches, NEW n \in Files, FileArrives(b, n) PROVE TInv'
  BY <1>6, TimelineFile
<1>7. ASSUME NEW b \in Batches, ListFails(b) PROVE TInv'
  <2>1. /\ batch' = [batch EXCEPT ![b].phase = "failed", ![b].after = 0, ![b].list = {}]
        /\ batch[b].phase = "listing" /\ failures' = failures + 1
        /\ UNCHANGED <<storage, history, copies, events, lastCheckTs, overlapped,
                       named, stamped>>
    BY <1>7 DEF ListFails, extern, files, page, past
  <2>2. \A c \in Batches : /\ batch'[c].pending = batch[c].pending
                           /\ batch'[c].got = batch[c].got
                           /\ batch'[c].list \subseteq batch[c].list
                           /\ batch'[c] = batch[c] \/ (c = b /\ batch'[c].phase # "listing")
    BY <1>0, <2>1
  <2>3. UnderWay' \subseteq UnderWay
    <3>1. b \in UnderWay
      BY <2>1 DEF UnderWay
    <3> QED  BY <2>2, <3>1 DEF UnderWay
  <2>4. ~Calm'
    BY <1>0, <2>1 DEF Calm
  <2> QED  BY <2>1, <2>2, <2>3, <2>4, TimelineKept
<1>8. ASSUME NEW b \in Batches, NEW n \in Files, FileFails(b, n) PROVE TInv'
  <2>1. /\ batch' = [batch EXCEPT ![b].pending = @ \ {n}] /\ failures' = failures + 1
        /\ UNCHANGED <<storage, history, copies, events, lastCheckTs, overlapped,
                       named, stamped>>
    BY <1>8 DEF FileFails, extern, files, page, past
  <2>2. \A c \in Batches : /\ batch'[c].phase = batch[c].phase
                           /\ batch'[c].pending \subseteq batch[c].pending
                           /\ batch'[c].got = batch[c].got /\ batch'[c].after = batch[c].after
                           /\ batch'[c].list = batch[c].list
    BY <1>0, <2>1
  <2>3. UnderWay' \subseteq UnderWay
    BY <2>2 DEF UnderWay
  <2>4. ~Calm'
    BY <1>0, <2>1 DEF Calm
  <2> QED  BY <2>1, <2>2, <2>3, <2>4, TimelineKept
<1>9. CASE UNCHANGED vars
  <2>1. /\ UNCHANGED <<storage, history, taken, copies, events, lastCheckTs, batch>>
        /\ UNCHANGED <<overlapped, failures, named, stamped>>
    BY <1>9 DEF vars, extern, files, page, past
  <2>2. UnderWay' = UnderWay /\ (Calm' => Calm)
    BY <2>1, CalmKept DEF UnderWay
  <2> QED  BY <2>1, <2>2, TimelineKept
<1> QED  BY <1>1, <1>2, <1>3, <1>4, <1>5, <1>6, <1>7, <1>8, <1>9 DEF Next, BatchStep

LEMMA TimelineFollows == IInv /\ CInv /\ Typed /\ TInv => TimelineIsComplete
<1> SUFFICES ASSUME IInv, CInv, Typed, TInv, UnderWay = {}, Calm
             PROVE  /\ \A e \in Endpoints :
                          LET own == {i \in 1..Len(events) :
                                         events[i].result[2] = e /\ ~events[i].message} IN
                          /\ {events[i].result[1] : i \in own} = Changes(e)
                          /\ \A i, j \in own : i < j => events[i].result[1] < events[j].result[1]
                    /\ \A r \in Messages : (r[1] \in Loaded /\ r[2] \in ResultsIn(r[1])) =>
                          /\ Cardinality(Posts(r)) >= 1
                          /\ copies[r[1]] = 1 => Cardinality(Posts(r)) = 1
  BY DEF TimelineIsComplete, Calm
<1>1. Processing = {}
  <2>1. ASSUME NEW b \in Batches PROVE batch[b].got = {}
    <3>1. batch[b].phase # "loading"
      BY DEF UnderWay, CInv, Awaited, Calm
    <3> QED  BY <3>1 DEF IInv, Downloads
  <2> QED  BY <2>1 DEF Processing
<1>2. copies \in [Files -> Nat] /\ events \in Seq(Event)
  BY DEF IInv, Knowledge, Typed
<1>3. Settled = copies /\ Old = Loaded
  <2>1. Settled = [n \in Files |-> copies[n] - 0]
    BY <1>1 DEF Settled
  <2>2. \A n \in Files : copies[n] - 0 = copies[n]
    BY <1>2
  <2>3. Settled = copies
    BY <1>2, <2>1, <2>2
  <2> QED  BY <2>3 DEF Old, Loaded
<1>4. Tells(events, OfFiles(Loaded)) /\ Posted(events, copies)
  BY <1>3 DEF TInv, Told
<1>5. ASSUME NEW e \in Endpoints
      PROVE  /\ {events[i].result[1] : i \in OwnOf(events, e)} = Changes(e)
             /\ \A i, j \in OwnOf(events, e) : i < j => events[i].result[1] < events[j].result[1]
  <2>1. FilesOf(OfFiles(Loaded), e) = Reporting(Loaded, e)
    BY DEF FilesOf, OfFiles, Results, Reporting, Loaded
  <2>2. ChangesIn(OfFiles(Loaded), e) = Changes(e)
    BY <2>1 DEF ChangesIn, Changes
  <2> QED  BY <1>4, <2>2 DEF Tells
<1>6. ASSUME NEW r \in Messages, r[1] \in Loaded, r[2] \in ResultsIn(r[1])
      PROVE  /\ Cardinality(Posts(r)) >= 1
             /\ copies[r[1]] = 1 => Cardinality(Posts(r)) = 1
  <2>1. r \in Results /\ copies[r[1]] > 0
    BY <1>6, MessagesAssumption DEF Results, Loaded
  <2>2. /\ PostsIn(events, r) # {}
        /\ copies[r[1]] = 1 => \E p \in PostsIn(events, r) : PostsIn(events, r) = {p}
    BY <1>4, <2>1 DEF Posted
  <2>3. Posts(r) = PostsIn(events, r) /\ Posts(r) \in SUBSET (1..Len(events))
    BY DEF Posts, PostsIn
  <2>4. IsFiniteSet(Posts(r)) /\ Cardinality(Posts(r)) \in Nat
    <3>1. IsFiniteSet(1..Len(events))
      BY <1>2, FS_Interval
    <3> QED  BY <2>3, <3>1, FS_Subset, FS_CardinalityType
  <2>5. Cardinality(Posts(r)) # 0
    BY <2>2, <2>3, <2>4, FS_EmptySet
  <2>6. copies[r[1]] = 1 => Cardinality(Posts(r)) = 1
    BY <2>2, <2>3, FS_Singleton
  <2> QED  BY <2>4, <2>5, <2>6
<1> QED  BY <1>5, <1>6 DEF OwnOf

\* Without errors, with one download at a time, files that become visible in
\* order and rounds that do not overlap, the timeline shows every change of status and no other, in order,
\* and every message: the window of new results is the new results, and
\* perhaps some of the newest file that was there before, which change
\* nothing.
THEOREM TimelineCorrect == Spec => []TimelineIsComplete
<1>1. Init => IInv /\ CInv /\ Typed /\ TInv
  BY InitInvariant, CurrentInit, TypedInit, TimelineInit
<1>2. IInv /\ CInv /\ Typed /\ TInv /\ [Next]_vars => (IInv /\ CInv /\ Typed /\ TInv)'
  BY NextInvariant, CurrentNext, TypedNext, TimelineNext
<1>3. IInv /\ CInv /\ Typed /\ TInv => TimelineIsComplete
  BY TimelineFollows
<1> QED  BY <1>1, <1>2, <1>3, PTL DEF Spec

-----------------------------------------------------------------------------
(* The page with its charts. *)

\* What draws is a step of the page or leaves the page alone.
LEMMA PageStep == [PageNext]_pageVars => [Next]_vars
<1>1. Elsewhere => Next
  BY DEF Elsewhere, Next, BatchStep
<1>2. ASSUME NEW b \in Batches, NothingNew(b) PROVE Next
  BY <1>2 DEF NothingNew, Next, BatchStep
<1>3. ASSUME NEW b \in Batches, NEW n \in Files, FileDrawn(b, n) PROVE Next
  BY <1>3 DEF FileDrawn, Next, BatchStep
<1>4. ASSUME NEW id, MouseOver(id) PROVE UNCHANGED vars
  BY <1>4 DEF MouseOver
<1>5. MouseOut => UNCHANGED vars
  BY DEF MouseOut
<1>6. UNCHANGED pageVars => UNCHANGED vars
  BY DEF pageVars
<1> QED  BY <1>1, <1>2, <1>3, <1>4, <1>5, <1>6 DEF PageNext

\* Drawing and the pointer add nothing to what the page does: with its charts
\* it is still the page of StatusPage.
THEOREM PageRefines == PageSpec => Spec
<1>1. PageInit => Init
  BY DEF PageInit
<1> QED  BY <1>1, PageStep, PTL DEF PageSpec, Spec

\* So the page with its charts passes over no file either.
COROLLARY NothingMissedOnPage == PageSpec => PollsMissNothing
BY PageRefines, NothingMissed, PTL

\* And its head is right.
COROLLARY HeadIsRightOnPage == PageSpec => []PageIsCurrent
BY PageRefines, HeadIsRight, PTL

\* And its variables have their types.
COROLLARY PageTypeCorrectOnPage == PageSpec => []TypeOK
BY PageRefines, PageTypeCorrect, PTL

\* And its timeline is complete.
COROLLARY TimelineCorrectOnPage == PageSpec => []TimelineIsComplete
BY PageRefines, TimelineCorrect, PTL

-----------------------------------------------------------------------------
(* The icons of the events. *)

\* A sequence has every element of a set once, and nothing else.
Once(s, S) ==
    /\ s \in Seq(S)
    /\ \A i, j \in 1..Len(s) : s[i] = s[j] => i = j
    /\ \A x \in S : \E i \in 1..Len(s) : s[i] = x

LEMMA OnceCounts ==
    ASSUME NEW s, NEW S, Once(s, S), NEW x
    PROVE  Cardinality({i \in 1..Len(s) : s[i] = x}) = IF x \in S THEN 1 ELSE 0
<1> DEFINE at == {i \in 1..Len(s) : s[i] = x}
<1>1. CASE x \in S
  <2>1. PICK i \in 1..Len(s) : s[i] = x
    BY <1>1 DEF Once
  <2>2. at = {i}
    BY <2>1 DEF Once
  <2> QED  BY <1>1, <2>2, FS_Singleton
<1>2. CASE x \notin S
  <2>1. \A i \in 1..Len(s) : s[i] \in S
    BY DEF Once
  <2>2. at = {}
    BY <1>2, <2>1
  <2> QED  BY <1>2, <2>2, FS_EmptySet
<1> QED  BY <1>1, <1>2

LEMMA OnceAppended ==
    ASSUME NEW s, NEW S, Once(s, S), NEW t, NEW T, Once(t, T), S \cap T = {}
    PROVE  Once(s \o t, S \cup T)
<1> DEFINE u == s \o t
           m == Len(s)
           n == Len(t)
<1>1. /\ s \in Seq(S \cup T) /\ t \in Seq(S \cup T)
      /\ \A i \in 1..m : s[i] \in S
      /\ \A i \in 1..n : t[i] \in T
  BY DEF Once
<1>2. u \in Seq(S \cup T) /\ Len(u) = m + n /\ m \in Nat /\ n \in Nat
  BY <1>1
<1>3. \A i \in 1..m : i \in 1..Len(u) /\ u[i] = s[i]
  BY <1>1, <1>2
<1>4. \A i \in 1..n : m + i \in 1..Len(u) /\ u[m + i] = t[i]
  BY <1>1, <1>2
<1>5. \A i \in 1..Len(u) : i \in 1..m \/ (i - m \in 1..n /\ u[i] = t[i - m])
  BY <1>1, <1>2
<1> HIDE DEF u, m, n
<1>6. ASSUME NEW i \in 1..Len(u), NEW j \in 1..Len(u), u[i] = u[j] PROVE i = j
  <2>0. i \in Int /\ j \in Int /\ m \in Int
    BY <1>2
  <2>1. CASE i \in 1..m /\ j \in 1..m
    BY <1>3, <1>6, <2>1 DEF Once, m
  <2>2. CASE i - m \in 1..n /\ u[i] = t[i - m] /\ j - m \in 1..n /\ u[j] = t[j - m]
    <3>1. i - m = j - m
      BY <1>6, <2>2 DEF Once, n
    <3> QED  BY <2>0, <3>1
  <2>3. CASE i \in 1..m /\ j - m \in 1..n /\ u[j] = t[j - m]
    BY <1>1, <1>3, <1>6, <2>3
  <2>4. CASE j \in 1..m /\ i - m \in 1..n /\ u[i] = t[i - m]
    BY <1>1, <1>3, <1>6, <2>4
  <2> QED  BY <1>5, <2>1, <2>2, <2>3, <2>4
<1>7. ASSUME NEW x \in S \cup T PROVE \E i \in 1..Len(u) : u[i] = x
  <2>1. CASE x \in S
    <3>1. PICK i \in 1..m : s[i] = x
      BY <2>1 DEF Once, m
    <3> QED  BY <1>3, <3>1
  <2>2. CASE x \in T
    <3>1. PICK i \in 1..n : t[i] = x
      BY <2>2 DEF Once, n
    <3> QED  BY <1>4, <3>1
  <2> QED  BY <2>1, <2>2
<1>8. Once(u, S \cup T)
  BY <1>2, <1>6, <1>7 DEF Once
<1> QED  BY <1>8 DEF u

\* The ids of the events of endpoint e.
EventsOf(e) == {id \in 1..Len(events) : events[id].result[2] = e}

\* The new marks are the ids of the new events, each once.
LEMMA NewMarksAre ==
    ASSUME events \in Seq(Event), events' \in Seq(Event), NEW e
    PROVE  Once(NewMarks(e), {i \in (Len(events) + 1)..Len(events') : events'[i].result[2] = e})
<1> DEFINE new == {i \in (Len(events) + 1)..Len(events') : events'[i].result[2] = e}
           upTo == [i \in new |-> {j \in new : j <= i}]
           n == Cardinality(new)
           r == Ranked(new, upTo)
<1>1. IsFiniteSet(new) /\ \A i \in new : i \in Int
  <2>1. Len(events) + 1 \in Int /\ Len(events') \in Int
    OBVIOUS
  <2>2. IsFiniteSet((Len(events) + 1)..Len(events'))
    BY <2>1, FS_Interval
  <2>3. new \in SUBSET ((Len(events) + 1)..Len(events'))
    OBVIOUS
  <2>4. \A i \in new : i \in Int
    BY <2>1
  <2> HIDE DEF new
  <2> QED  BY <2>2, <2>3, <2>4, FS_Subset
<1>2. NewMarks(e) = r
  BY DEF NewMarks
<1> HIDE DEF new
<1>3. Chained(new, upTo)
  <2>1. upTo \in [new -> SUBSET new] /\ \A x \in new : x \in upTo[x]
    BY <1>1
  <2>2. \A x, y \in new : upTo[x] \subseteq upTo[y] \/ upTo[y] \subseteq upTo[x]
    BY <1>1
  <2>3. \A x, y \in new : x \in upTo[y] /\ y \in upTo[x] => x = y
    BY <1>1
  <2> QED  BY <1>1, <2>1, <2>2, <2>3 DEF Chained
<1> HIDE DEF upTo
<1>4. /\ n \in Nat /\ r \in [1..n -> new]
      /\ \A x \in new : \E k \in 1..n : r[k] = x
      /\ \A k, l \in 1..n : r[k] = r[l] => k = l
  BY <1>3, RankedIs
<1> HIDE DEF r, n
<1>5. r \in Seq(new) /\ Len(r) = n
  BY <1>4
<1>6. Once(r, new)
  BY <1>4, <1>5 DEF Once
<1> QED  BY <1>2, <1>6 DEF new

\* The icons of a chart are those of its events, and its marks are as many.
\* The pointer is on an event, or on none and then no event is dimmed.
Iconed ==
    \A e \in Endpoints :
        /\ Once(icons[e], EventsOf(e))
        /\ marks[e] \in Seq(1..Len(events)) /\ Len(marks[e]) = Len(icons[e])

Pointed ==
    /\ pointer \in 0..Len(events) /\ dimmed \subseteq 1..Len(events)
    /\ pointer \notin dimmed /\ (pointer = 0 => dimmed = {})

DrawnInv == Iconed /\ Pointed

LEMMA DrawnInit == PageInit => DrawnInv
<1> SUFFICES ASSUME PageInit PROVE DrawnInv
  OBVIOUS
<1>1. /\ events = <<>> /\ icons = [e \in Endpoints |-> <<>>]
      /\ marks = [e \in Endpoints |-> <<>>] /\ pointer = 0 /\ dimmed = {}
  BY DEF PageInit, Init
<1>2. ASSUME NEW e \in Endpoints PROVE Once(icons[e], EventsOf(e))
  <2>1. EventsOf(e) = {} /\ icons[e] = <<>>
    BY <1>1 DEF EventsOf
  <2> QED  BY <2>1 DEF Once
<1>3. ASSUME NEW e \in Endpoints
      PROVE  marks[e] \in Seq(1..Len(events)) /\ Len(marks[e]) = Len(icons[e])
  BY <1>1
<1> QED  BY <1>1, <1>2, <1>3 DEF DrawnInv, Iconed, Pointed

\* Nothing of the icons changes.
LEMMA IconsKept ==
    ASSUME Iconed, UNCHANGED <<events, marks>>,
           \A e \in Endpoints : icons'[e] = icons[e]
    PROVE  Iconed'
<1> SUFFICES ASSUME NEW e \in Endpoints
             PROVE  /\ Once(icons[e], EventsOf(e))'
                    /\ (marks[e] \in Seq(1..Len(events)) /\ Len(marks[e]) = Len(icons[e]))'
  BY DEF Iconed
<1>1. EventsOf(e)' = EventsOf(e) /\ icons'[e] = icons[e]
  BY DEF EventsOf
<1>2. Once(icons[e], EventsOf(e))
  BY DEF Iconed
<1>3. Once(icons[e], EventsOf(e))'
  BY <1>1, <1>2 DEF Once
<1> QED  BY <1>1, <1>3 DEF Iconed

\* The events stay where they are, and their charts get the new ones.
LEMMA DrawnFile ==
    ASSUME DrawnInv, taken \in Timings, events \in Seq(Event), events' \in Seq(Event),
           Len(events) <= Len(events'),
           \A i \in 1..Len(events) : events'[i] = events[i],
           NEW n, Draw(n), UNCHANGED mouse
    PROVE  DrawnInv'
<1> DEFINE new(e) == {i \in (Len(events) + 1)..Len(events') : events'[i].result[2] = e}
<1>0. Len(events) \in Nat /\ Len(events') \in Nat
  OBVIOUS
<1>1. ASSUME NEW e \in Endpoints
      PROVE  /\ Once(icons'[e], EventsOf(e)')
             /\ marks'[e] \in Seq(1..Len(events')) /\ Len(marks'[e]) = Len(icons'[e])
  <2> DEFINE old == ByTimestamp(marks[e])
             add == NewMarks(e)
  <2>1. marks[e] \in Seq(1..Len(events)) /\ Len(marks[e]) = Len(icons[e])
    BY DEF DrawnInv, Iconed
  <2>2. old \in Seq(1..Len(events)) /\ Len(old) = Len(icons[e])
    <3> DEFINE key == [k \in 1..Len(marks[e]) |-> Timestamp(events[marks[e][k]])]
    <3>1. \A k \in 1..Len(marks[e]) : Timestamp(events[marks[e][k]]) \in Int
      <4> TAKE k \in 1..Len(marks[e])
      <4>1. marks[e][k] \in 1..Len(events)
        BY <2>1
      <4>2. events[marks[e][k]] \in Event
        BY <4>1
      <4>3. /\ events[marks[e][k]].result[1] \in Files
            /\ events[marks[e][k]].result[2] \in Endpoints
        BY <4>2 DEF Event
      <4> QED  BY <4>3, TimingsAssumption DEF Timestamp
    <3>2. key \in Seq(Int) /\ Len(key) = Len(marks[e])
      BY <2>1, <3>1
    <3>3. old = SortedBy(marks[e], key)
      BY DEF ByTimestamp
    <3> HIDE DEF key, old
    <3> QED  BY <2>1, <3>2, <3>3, SortedByIs, ZenonT(40)
  <2>3. Once(add, new(e))
    BY NewMarksAre
  <2>4. marks'[e] = old \o add
    BY DEF Draw
  <2>5. icons'[e] = icons[e] \o SubSeq(marks'[e], Len(icons[e]) + 1, Len(marks'[e]))
    BY DEF Draw, MakeGraphs
  <2> HIDE DEF old, add
  <2> DEFINE S == 1..Len(events')
  <2>6. add \in Seq(S) /\ old \in Seq(S)
    <3>1. \A i \in new(e) : i \in S
      BY <1>0
    <3>2. add \in Seq(new(e))
      BY <2>3 DEF Once
    <3>3. \A i \in 1..Len(events) : i \in S
      BY <1>0
    <3> HIDE DEF new, S
    <3> QED  BY <2>2, <3>1, <3>2, <3>3
  <2> HIDE DEF S
  <2>7. marks'[e] \in Seq(S) /\ Len(marks'[e]) = Len(icons[e]) + Len(add)
    <3>1. old \o add \in Seq(S) /\ Len(old \o add) = Len(old) + Len(add)
      BY <2>6, Joined
    <3> QED  BY <2>2, <2>4, <3>1
  <2>8. icons'[e] = icons[e] \o add
    <3>1. SubSeq(marks'[e], Len(old) + 1, Len(marks'[e])) = add
      BY <2>4, <2>6, EndOfJoined
    <3> QED  BY <2>2, <2>5, <3>1
  <2>9. Once(icons'[e], EventsOf(e) \cup new(e))
    <3>1. EventsOf(e) \cap new(e) = {}
      BY <1>0 DEF EventsOf
    <3>2. Once(icons[e], EventsOf(e))
      BY DEF DrawnInv, Iconed
    <3> HIDE DEF new
    <3> QED  BY <2>3, <2>8, <3>1, <3>2, OnceAppended
  <2>10. EventsOf(e)' = EventsOf(e) \cup new(e)
    BY <1>0 DEF EventsOf
  <2>11. Len(icons'[e]) = Len(icons[e]) + Len(add)
    <3> DEFINE T == EventsOf(e) \cup S
    <3>1. icons[e] \in Seq(T) /\ add \in Seq(T)
      <4>1. icons[e] \in Seq(EventsOf(e))
        BY DEF DrawnInv, Iconed, Once
      <4> QED  BY <2>6, <4>1
    <3> HIDE DEF T
    <3> QED  BY <2>8, <3>1, Joined
  <2> QED  BY <2>7, <2>9, <2>10, <2>11 DEF S
<1>2. Pointed'
  BY <1>0 DEF mouse, DrawnInv, Pointed
<1> QED  BY <1>1, <1>2 DEF DrawnInv, Iconed

\* The graphs are made again, and no event is new.
LEMMA DrawnAgain ==
    ASSUME DrawnInv, UNCHANGED <<events, marks, mouse>>, MakeGraphs
    PROVE  DrawnInv'
<1>1. ASSUME NEW e \in Endpoints PROVE icons'[e] = icons[e]
  <2> DEFINE m == Len(icons[e])
             t == SubSeq(marks'[e], m + 1, m)
  <2>1. icons'[e] = icons[e] \o t /\ icons[e] \in Seq(EventsOf(e))
    BY DEF MakeGraphs, DrawnInv, Iconed, Once
  <2>2. t = <<>>
    <3>1. m \in Nat
      BY <2>1
    <3> HIDE DEF m
    <3> QED  BY <3>1
  <2> HIDE DEF t
  <2> QED  BY <2>1, <2>2
<1> QED  BY <1>1, IconsKept DEF mouse, DrawnInv, Pointed

LEMMA DrawnNext == IInv /\ Typed /\ DrawnInv /\ [PageNext]_pageVars => DrawnInv'
<1> SUFFICES ASSUME IInv, Typed, DrawnInv, [PageNext]_pageVars PROVE DrawnInv'
  OBVIOUS
<1>1. CASE Elsewhere
  <2>1. UNCHANGED <<icons, marks, pointer, dimmed>>
    BY <1>1 DEF Elsewhere, charts, mouse
  <2>2. ASSUME NEW b \in Batches, ListArrives(b) PROVE UNCHANGED events
    BY <2>2, ListLoads DEF Typed
  <2>3. UNCHANGED events
    <3>1. ASSUME NEW n \in Files, NameFile(n) \/ ShowFile(n) PROVE UNCHANGED events
      BY <3>1 DEF NameFile, ShowFile, page
    <3>2. ASSUME NEW b, NEW a, Request(b, a) PROVE UNCHANGED events
      BY <3>2 DEF Request, page
    <3>3. ASSUME NEW b \in Batches, PageArrives(b) \/ ListFails(b) PROVE UNCHANGED events
      BY <3>3 DEF PageArrives, ListFails, page
    <3>4. ASSUME NEW b \in Batches, NEW n \in Files, FileFails(b, n) PROVE UNCHANGED events
      BY <3>4 DEF FileFails, page
    <3> QED  BY <1>1, <2>2, <3>1, <3>2, <3>3, <3>4 DEF Elsewhere, Open, GetNewChecks
  <2> QED  BY <2>1, <2>3, IconsKept DEF DrawnInv, Pointed
<1>2. ASSUME NEW b \in Batches, NothingNew(b) PROVE DrawnInv'
  <2>1. UNCHANGED events
    BY <1>2, ListLoads DEF NothingNew, Typed
  <2> QED  BY <1>2, <2>1, DrawnAgain DEF NothingNew
<1>3. ASSUME NEW b \in Batches, NEW n \in Files, FileDrawn(b, n) PROVE DrawnInv'
  <2>1. /\ events' \in Seq(Event) /\ Len(events) <= Len(events')
        /\ \A i \in 1..Len(events) : events'[i] = events[i]
    BY <1>3, FileLoads DEF FileDrawn, Typed
  <2> QED  BY <1>3, <2>1, DrawnFile DEF FileDrawn, Typed
<1>4. ASSUME NEW id \in 1..Len(events), MouseOver(id) PROVE DrawnInv'
  <2>1. UNCHANGED <<events, icons, marks>>
    BY <1>4 DEF MouseOver, vars, page, charts
  <2>2. Pointed'
    <3>1. Len(events) \in Nat
      BY DEF Typed
    <3>2. /\ dimmed = {} /\ Len(events') = Len(events) /\ pointer' = id
          /\ dimmed' = dimmed \cup ((1..Len(events)) \ {id})
      BY <1>4, <2>1 DEF MouseOver, DrawnInv, Pointed
    <3> QED  BY <1>4, <3>1, <3>2 DEF Pointed
  <2> QED  BY <2>1, <2>2, IconsKept DEF DrawnInv
<1>5. CASE MouseOut
  <2>1. UNCHANGED <<events, icons, marks>>
    BY <1>5 DEF MouseOut, vars, page, charts
  <2>2. Pointed'
    <3>1. Len(events) \in Nat
      BY DEF Typed
    <3>2. /\ pointer \notin dimmed /\ dimmed \subseteq 1..Len(events)
          /\ Len(events') = Len(events) /\ pointer' = 0
          /\ dimmed' = dimmed \ ((1..Len(events)) \ {pointer})
      BY <1>5, <2>1 DEF MouseOut, DrawnInv, Pointed
    <3>3. dimmed' = {}
      BY <3>2
    <3>4. pointer' \in 0..Len(events')
      BY <3>1, <3>2
    <3> QED  BY <3>2, <3>3, <3>4 DEF Pointed
  <2> QED  BY <2>1, <2>2, IconsKept DEF DrawnInv
<1>6. CASE UNCHANGED pageVars
  BY <1>6, IconsKept DEF pageVars, vars, page, charts, mouse, DrawnInv, Pointed
<1> QED  BY <1>1, <1>2, <1>3, <1>4, <1>5, <1>6 DEF PageNext

LEMMA DrawnFollows == DrawnInv => EventsDrawn
<1> SUFFICES ASSUME DrawnInv, NEW e \in Endpoints, NEW id \in 1..Len(events)
             PROVE  Cardinality({i \in 1..Len(icons[e]) : icons[e][i] = id}) =
                        IF events[id].result[2] = e THEN 1 ELSE 0
  BY DEF EventsDrawn, DrawnInv, Pointed
<1>1. Once(icons[e], EventsOf(e))
  BY DEF DrawnInv, Iconed
<1>2. id \in EventsOf(e) <=> events[id].result[2] = e
  BY DEF EventsOf
<1> QED  BY <1>1, <1>2, OnceCounts

\* Every event of the timeline has its icon.
THEOREM EveryEventDrawn == PageSpec => []EventsDrawn
<1>1. PageInit => IInv /\ Typed /\ DrawnInv
  BY InitInvariant, TypedInit, DrawnInit DEF PageInit
<1>2. IInv /\ Typed /\ DrawnInv /\ [PageNext]_pageVars => (IInv /\ Typed /\ DrawnInv)'
  BY PageStep, NextInvariant, TypedNext, DrawnNext
<1>3. IInv /\ Typed /\ DrawnInv => EventsDrawn
  BY DrawnFollows
<1> QED  BY <1>1, <1>2, <1>3, PTL DEF PageSpec

-----------------------------------------------------------------------------
(* The charts. *)

Container == [endpoint : Endpoints, wide : BOOLEAN]

\* What is true of the containers of the charts of a set of endpoints.
Frames(containers, some) ==
    /\ containers \in Seq(Container)
    /\ \A i \in 1..Len(containers) : containers[i].endpoint \in some
    /\ \A e \in some : \E i \in 1..Len(containers) : containers[i].endpoint = e
    /\ \A i, j \in 1..Len(containers) : containers[i].endpoint = containers[j].endpoint => i = j
    /\ \A i \in 1..Len(containers) : containers[i].wide <=> Len(containers) = 1

\* A new container has the width it should have, and so have the others.
LEMMA ContainerAdded ==
    ASSUME NEW some \in SUBSET Endpoints, NEW c, Frames(c, some), NEW e \in Endpoints \ some
    PROVE  Frames(RenderChart(c, e), some \cup {e})
<1> DEFINE old == [i \in 1..Len(c) |-> [c[i] EXCEPT !.wide = FALSE]]
           new == [endpoint |-> e, wide |-> c = <<>>]
           d == RenderChart(c, e)
           n == Len(c)
<1>1. /\ c \in Seq(Container) /\ n \in Nat /\ \A i \in 1..n : c[i] \in Container
      /\ \A i \in 1..n : c[i].endpoint \in some
  BY DEF Frames
<1>2. \A i \in 1..n : /\ old[i] \in Container /\ old[i].endpoint = c[i].endpoint
                      /\ old[i].wide = FALSE
  BY <1>1 DEF Container
<1>3. new \in Container /\ new.endpoint = e /\ (new.wide <=> c = <<>>)
  <2>1. ASSUME NEW x \in Endpoints, NEW y \in BOOLEAN
        PROVE  /\ [endpoint |-> x, wide |-> y] \in Container
               /\ [endpoint |-> x, wide |-> y].endpoint = x
               /\ [endpoint |-> x, wide |-> y].wide = y
    BY DEF Container
  <2>2. (c = <<>>) \in BOOLEAN /\ e \in Endpoints
    OBVIOUS
  <2> QED  BY <2>1, <2>2, Zenon
<1>4. old \in Seq(Container) /\ Len(old) = n
  BY <1>1, <1>2
<1>5. d = Append(old, new)
  BY DEF RenderChart
<1>6. c = <<>> <=> n = 0
  BY <1>1
<1> HIDE DEF old, new, d, n
<1>7. /\ d \in Seq(Container) /\ Len(d) = n + 1 /\ d[n + 1] = new
      /\ \A i \in 1..n : d[i] = old[i]
  BY <1>3, <1>4, <1>5
<1>8. \A i \in 1..Len(d) : i \in 1..n \/ i = n + 1
  BY <1>1, <1>7
<1>9. \A i \in 1..Len(d) : d[i].endpoint \in some \cup {e}
  BY <1>1, <1>2, <1>3, <1>7, <1>8
<1>10. ASSUME NEW x \in some \cup {e} PROVE \E i \in 1..Len(d) : d[i].endpoint = x
  <2>1. CASE x = e
    <3>1. n + 1 \in 1..Len(d)
      BY <1>1, <1>7
    <3> QED  BY <1>3, <1>7, <2>1, <3>1
  <2>2. CASE x \in some
    <3>1. PICK i \in 1..n : c[i].endpoint = x
      BY <2>2 DEF Frames, n
    <3>2. i \in 1..Len(d) /\ d[i].endpoint = x
      BY <1>1, <1>2, <1>7, <3>1
    <3> QED  BY <3>2
  <2> QED  BY <2>1, <2>2
<1>11. ASSUME NEW i \in 1..Len(d), NEW j \in 1..Len(d), d[i].endpoint = d[j].endpoint
       PROVE  i = j
  <2>1. CASE i \in 1..n /\ j \in 1..n
    <3>1. c[i].endpoint = c[j].endpoint
      BY <1>2, <1>7, <1>11, <2>1
    <3> QED  BY <2>1, <3>1 DEF Frames, n
  <2>2. CASE i = n + 1 \/ j = n + 1
    BY <1>1, <1>2, <1>3, <1>7, <1>8, <1>11, <2>2
  <2> QED  BY <1>8, <2>1, <2>2
<1>12. ASSUME NEW i \in 1..Len(d) PROVE d[i].wide <=> Len(d) = 1
  <2>1. CASE i \in 1..n
    BY <1>1, <1>2, <1>7, <2>1
  <2>2. CASE i = n + 1
    BY <1>1, <1>3, <1>6, <1>7, <2>2
  <2> QED  BY <1>8, <2>1, <2>2
<1>13. Frames(d, some \cup {e})
  BY <1>7, <1>9, <1>10, <1>11, <1>12 DEF Frames
<1> QED  BY <1>13 DEF d

\* The containers after a drawing are those of all charts that have a point.
LEMMA ContainersAre ==
    ASSUME NEW some \in SUBSET Endpoints, NEW first, Frames(first, some), NEW points,
           \A e \in some : points[e] # <<>>
    PROVE  Frames(WithContainers(first, points), {e \in Endpoints : points[e] # <<>>})
<1> DEFINE n == NumEndpoints
           S == {c \in Seq(Container) : \E t \in SUBSET Endpoints : Frames(c, t)}
           Op(c, e) == IF points[e] = <<>> \/ \E i \in 1..Len(c) : c[i].endpoint = e
                       THEN c ELSE RenderChart(c, e)
           step == [p \in S \X (1..n) |-> Op(p[1], p[2])]
           Eq(G) == G = [t \in SUBSET (1..n) |->
                           IF t = {} THEN first ELSE Op(G[t \ {Max(t)}], EndpointSeq[Max(t)])]
           Those(k) == some \cup {e \in 1..k : points[e] # <<>>}
<1>1. n \in Nat /\ DOMAIN EndpointSeq = 1..n /\ Endpoints = 1..n
      /\ \A i \in 1..n : EndpointSeq[i] = i
  BY SizesAssumption DEF EndpointSeq, Endpoints
<1>2. WithContainers(first, points) = (CHOOSE G : Eq(G))[1..n]
  <2>1. Len(EndpointSeq) = n
    BY <1>1 DEF EndpointSeq
  <2> QED  BY <1>1, <2>1 DEF WithContainers, FoldLeft, MapThenFoldSet
<1>3. ASSUME NEW c \in S, NEW e \in Endpoints, NEW t \in SUBSET Endpoints, Frames(c, t)
      PROVE  Op(c, e) \in S /\ Frames(Op(c, e), t \cup (IF points[e] = <<>> THEN {} ELSE {e}))
  <2>1. CASE e \in t
    <3>1. \E i \in 1..Len(c) : c[i].endpoint = e
      BY <1>3, <2>1 DEF Frames
    <3>2. t \cup (IF points[e] = <<>> THEN {} ELSE {e}) = t
      BY <2>1
    <3> QED  BY <1>3, <3>1, <3>2
  <2>2. CASE points[e] = <<>>
    <3>1. t \cup (IF points[e] = <<>> THEN {} ELSE {e}) = t
      BY <2>2
    <3> QED  BY <1>3, <2>2, <3>1
  <2>3. CASE e \notin t /\ points[e] # <<>>
    <3>1. ~ \E i \in 1..Len(c) : c[i].endpoint = e
      BY <1>3, <2>3 DEF Frames
    <3>2. Frames(RenderChart(c, e), t \cup {e}) /\ t \cup {e} \in SUBSET Endpoints
      BY <1>3, <2>3, ContainerAdded
    <3>3. RenderChart(c, e) \in Seq(Container)
      BY <3>2 DEF Frames
    <3>4. Op(c, e) = RenderChart(c, e)
      BY <2>3, <3>1
    <3>5. RenderChart(c, e) \in S
      BY <3>2, <3>3
    <3>6. t \cup (IF points[e] = <<>> THEN {} ELSE {e}) = t \cup {e}
      BY <2>3
    <3> QED  BY <3>2, <3>4, <3>5, <3>6
  <2> QED  BY <2>1, <2>2, <2>3
<1>4. step \in [S \X (1..n) -> S]
  <2>1. ASSUME NEW p \in S \X (1..n) PROVE Op(p[1], p[2]) \in S
    <3>1. p[1] \in S /\ p[2] \in Endpoints
      BY <1>1
    <3>2. PICK t \in SUBSET Endpoints : Frames(p[1], t)
      BY <3>1
    <3> HIDE DEF Op, S
    <3> QED  BY <1>3, <3>1, <3>2
  <2> HIDE DEF Op, S
  <2> QED  BY <2>1
<1>5. first \in S
  BY DEF Frames
<1> HIDE DEF n, S, Op
<1>6. \E G : Eq(G)
  <2>1. FoldGraphs(S, first, step, n) # {}
    <3> HIDE DEF step
    <3> QED  BY <1>1, <1>4, <1>5, FoldGraph
  <2> PICK G \in FoldGraphs(S, first, step, n) : TRUE
    BY <2>1
  <2>2. /\ G \in [SUBSET (1..n) -> S]
        /\ \A t \in SUBSET (1..n) :
              G[t] = IF t = {} THEN first ELSE step[<<G[t \ {Max(t)}], Max(t)>>]
    BY DEF FoldGraphs
  <2>3. \A t \in SUBSET (1..n) :
           G[t] = IF t = {} THEN first ELSE Op(G[t \ {Max(t)}], EndpointSeq[Max(t)])
    <3> TAKE t \in SUBSET (1..n)
    <3>1. CASE t # {}
      <4>1. Max(t) \in 1..n /\ G[t \ {Max(t)}] \in S
        BY <1>1, <2>2, <3>1, MaxOfPositions
      <4> QED  BY <1>1, <2>2, <3>1, <4>1
    <3> QED  BY <2>2, <3>1
  <2> HIDE DEF step
  <2>4. Eq(G)
    BY <2>2, <2>3
  <2> QED  BY <2>4
<1>7. PICK G : Eq(G) /\ WithContainers(first, points) = G[1..n]
  BY <1>2, <1>6
<1>8. G[{}] = first
  BY <1>7
<1>9. \A t \in SUBSET (1..n) : t # {} /\ G[t \ {Max(t)}] \in S =>
         G[t] = step[<<G[t \ {Max(t)}], Max(t)>>]
  <2> SUFFICES ASSUME NEW t \in SUBSET (1..n), t # {}, G[t \ {Max(t)}] \in S
               PROVE  G[t] = step[<<G[t \ {Max(t)}], Max(t)>>]
    OBVIOUS
  <2>1. Max(t) \in 1..n
    BY <1>1, MaxOfPositions
  <2> QED  BY <1>1, <1>7, <2>1
<1>10. PICK run \in Runs(S, first, step, n) : run[n] = G[1..n]
  <2> HIDE DEF step, Eq
  <2>1. Follows(G, S, first, step, n)
    BY <1>1, <1>4, <1>5, <1>8, <1>9 DEF Follows
  <2> QED  BY <2>1, FoldRun
<1>11. ASSUME NEW i \in 1..n PROVE run[i] = Op(run[i - 1], i) /\ run[i - 1] \in S
  <2>1. run \in [0..n -> S] /\ run[i] = step[<<run[i - 1], i>>]
    BY DEF Runs
  <2>2. <<run[i - 1], i>> \in S \X (1..n)
    BY <1>1, <2>1
  <2> QED  BY <2>1, <2>2
<1> DEFINE T == {k \in 0..n : Frames(run[k], Those(k))}
<1>12. 0 \in T
  <2>1. Those(0) = some
    OBVIOUS
  <2>2. run[0] = first
    BY DEF Runs
  <2> QED  BY <1>1, <2>1, <2>2
<1>13. ASSUME NEW k \in 1..n, k - 1 \in T PROVE k \in T
  <2>1. k \in Nat /\ k >= 1 /\ k \in 0..n
    BY <1>1
  <2>2. Those(k) = Those(k - 1) \cup (IF points[k] = <<>> THEN {} ELSE {k})
    <3>1. \A e \in 1..k : e \in 1..(k - 1) \/ e = k
      BY <2>1
    <3>2. \A e \in 1..(k - 1) : e \in 1..k
      BY <2>1
    <3>3. k \in 1..k
      BY <2>1
    <3> QED  BY <3>1, <3>2, <3>3
  <2>3. Those(k - 1) \in SUBSET Endpoints
    <3>1. \A e \in 1..(k - 1) : e \in Endpoints
      BY <1>1, <2>1
    <3> QED  BY <3>1
  <2>4. Frames(run[k - 1], Those(k - 1))
    BY <1>13
  <2> HIDE DEF Those
  <2>5. Frames(Op(run[k - 1], k), Those(k - 1) \cup (IF points[k] = <<>> THEN {} ELSE {k}))
    BY <1>1, <1>3, <1>11, <2>3, <2>4
  <2> QED  BY <1>11, <2>1, <2>2, <2>5
<1>14. n \in T
  <2> HIDE DEF T
  <2>1. 0..n \subseteq T
    BY <1>1, <1>12, <1>13, BoundedInduction
  <2> QED  BY <1>1, <2>1
<1>15. Those(n) = {e \in Endpoints : points[e] # <<>>}
  BY <1>1
<1> HIDE DEF Those
<1>16. WithContainers(first, points) = run[n]
  BY <1>7, <1>10
<1> QED  BY <1>14, <1>15, <1>16

\* Every copy of a file counts as a check.
LEMMA ChecksCounted ==
    ASSUME NEW loads \in [Files -> Nat]
    PROVE  NumChecks(loads) \in Nat /\ \A n \in Files : loads[n] <= NumChecks(loads)
<1> DEFINE n == NumFiles
           Op(sum, l) == sum + l
           step == [p \in Nat \X (1..n) |-> Op(p[1], loads[p[2]])]
           Eq(G) == G = [t \in SUBSET (1..n) |->
                           IF t = {} THEN 0 ELSE Op(G[t \ {Max(t)}], loads[Max(t)])]
<1>1. n \in Nat /\ DOMAIN loads = 1..n /\ Files = 1..n /\ \A i \in 1..n : loads[i] \in Nat
  BY SizesAssumption DEF Files
<1>2. NumChecks(loads) = (CHOOSE G : Eq(G))[1..n]
  <2>1. Len(loads) = n
    <3>1. loads \in Seq(Nat)
      BY <1>1
    <3> QED  BY <1>1, <3>1
  <2> QED  BY <1>1, <2>1 DEF NumChecks, FoldLeft, MapThenFoldSet
<1>3. step \in [Nat \X (1..n) -> Nat]
  BY <1>1
<1> HIDE DEF n, Op
<1>4. \E G : Eq(G)
  <2>1. FoldGraphs(Nat, 0, step, n) # {}
    <3> HIDE DEF step
    <3> QED  BY <1>1, <1>3, FoldGraph
  <2> PICK G \in FoldGraphs(Nat, 0, step, n) : TRUE
    BY <2>1
  <2>2. /\ G \in [SUBSET (1..n) -> Nat]
        /\ \A t \in SUBSET (1..n) :
              G[t] = IF t = {} THEN 0 ELSE step[<<G[t \ {Max(t)}], Max(t)>>]
    BY DEF FoldGraphs
  <2>3. \A t \in SUBSET (1..n) :
           G[t] = IF t = {} THEN 0 ELSE Op(G[t \ {Max(t)}], loads[Max(t)])
    <3> TAKE t \in SUBSET (1..n)
    <3>1. CASE t # {}
      <4>1. Max(t) \in 1..n /\ G[t \ {Max(t)}] \in Nat
        BY <1>1, <2>2, <3>1, MaxOfPositions
      <4> QED  BY <2>2, <3>1, <4>1
    <3> QED  BY <2>2, <3>1
  <2> HIDE DEF step
  <2>4. Eq(G)
    BY <2>2, <2>3
  <2> QED  BY <2>4
<1>5. PICK G : Eq(G) /\ NumChecks(loads) = G[1..n]
  BY <1>2, <1>4
<1>6. G[{}] = 0
  BY <1>5
<1>7. \A t \in SUBSET (1..n) : t # {} /\ G[t \ {Max(t)}] \in Nat =>
         G[t] = step[<<G[t \ {Max(t)}], Max(t)>>]
  <2> SUFFICES ASSUME NEW t \in SUBSET (1..n), t # {}, G[t \ {Max(t)}] \in Nat
               PROVE  G[t] = step[<<G[t \ {Max(t)}], Max(t)>>]
    OBVIOUS
  <2>1. Max(t) \in 1..n
    BY <1>1, MaxOfPositions
  <2> QED  BY <1>5, <2>1
<1>8. PICK run \in Runs(Nat, 0, step, n) : run[n] = G[1..n]
  <2> HIDE DEF step, Eq
  <2>1. Follows(G, Nat, 0, step, n)
    BY <1>1, <1>3, <1>6, <1>7 DEF Follows
  <2> QED  BY <2>1, FoldRun
<1>9. run \in [0..n -> Nat] /\ \A i \in 1..n : run[i] = run[i - 1] + loads[i]
  <2>1. run \in [0..n -> Nat]
    BY DEF Runs
  <2>2. ASSUME NEW i \in 1..n PROVE run[i] = run[i - 1] + loads[i]
    <3>1. run[i] = step[<<run[i - 1], i>>]
      BY DEF Runs
    <3>2. <<run[i - 1], i>> \in Nat \X (1..n)
      BY <1>1, <2>1
    <3> QED  BY <3>1, <3>2 DEF Op
  <2> QED  BY <2>1, <2>2
<1> DEFINE T == {k \in 0..n : \A i \in 1..k : loads[i] <= run[k]}
<1>10. 0 \in T
  BY <1>1
<1>11. ASSUME NEW k \in 1..n, k - 1 \in T PROVE k \in T
  <2>1. /\ k \in Nat /\ k - 1 \in 0..n /\ k \in 0..n
        /\ \A i \in 1..k : i = k \/ i \in 1..(k - 1)
    BY <1>1
  <2>2. run[k] = run[k - 1] + loads[k] /\ run[k - 1] \in Nat
    BY <1>9, <2>1
  <2>3. \A i \in 1..k : loads[i] \in Nat /\ loads[i] <= run[k]
    <3> TAKE i \in 1..k
    <3>1. i \in 1..n /\ loads[i] \in Nat /\ loads[k] \in Nat
      BY <1>1
    <3> QED  BY <1>11, <2>1, <2>2, <3>1
  <2> QED  BY <2>1, <2>3
<1>12. n \in T
  <2> HIDE DEF T
  <2>1. 0..n \subseteq T
    BY <1>1, <1>10, <1>11, BoundedInduction
  <2> QED  BY <1>1, <2>1
<1>13. run[n] \in Nat /\ NumChecks(loads) = run[n]
  <2>1. n \in 0..n
    BY <1>1
  <2> QED  BY <1>5, <1>8, <1>9, <2>1
<1> QED  BY <1>1, <1>12, <1>13

\* How often a number is in a sequence.
Often(s, x) == Cardinality({i \in 1..Len(s) : s[i] = x})

\* Sorting keeps that, and orders the points.
LEMMA SortedCounts ==
    ASSUME taken \in Timings, NEW e \in Endpoints, NEW s \in Seq(Files)
    PROVE  LET t == PointsByTimestamp(s, e) IN
           /\ t \in Seq(Files) /\ Len(t) = Len(s)
           /\ \A k, l \in 1..Len(s) : k < l => taken[t[k]][e] <= taken[t[l]][e]
           /\ \A x : Often(t, x) = Often(s, x)
<1> DEFINE t == PointsByTimestamp(s, e)
           D == 1..Len(s)
           key == [k \in 1..Len(s) |-> taken[s[k]][e]]
<1>1. key \in Seq(Int) /\ Len(key) = Len(s) /\ t = SortedBy(s, key) /\ IsFiniteSet(D)
  <2>1. \A i \in 1..Len(s) : taken[s[i]][e] \in Int
    <3> TAKE i \in 1..Len(s)
    <3>1. s[i] \in Files
      OBVIOUS
    <3> QED  BY <3>1, TimingsAssumption
  <2>2. IsFiniteSet(D)
    BY FS_Interval
  <2>3. t = SortedBy(s, key)
    BY DEF PointsByTimestamp
  <2> QED  BY <2>1, <2>2, <2>3
<1>0. \A i \in D : key[i] = taken[s[i]][e]
  OBVIOUS
<1> HIDE DEF key
<1> HIDE DEF t
<1>2. t \in Seq(Files) /\ Len(t) = Len(s)
  BY <1>1, SortedByIs
<1>3. PICK f \in Bijection(D, D) :
         /\ \A k \in D : t[k] = s[f[k]]
         /\ \A k, l \in D : k < l => key[f[k]] <= key[f[l]]
  <2>1. \E f \in Bijection(1..Len(s), 1..Len(s)) :
           /\ \A k \in 1..Len(s) : /\ SortedBy(s, key)[k] = s[f[k]]
                                   /\ Place(key, f[k]) = k
           /\ \A k, l \in 1..Len(s) : k < l => key[f[k]] <= key[f[l]]
    BY <1>1, SortedByIs
  <2> QED  BY <1>1, <2>1
<1> HIDE DEF D
<1>4. f \in [D -> D] /\ (\A a, b \in D : f[a] = f[b] => a = b) /\ \A i \in D : \E k \in D : f[k] = i
  BY Fun_BijectionProperties
<1>5. ASSUME NEW x PROVE Often(t, x) = Often(s, x)
  <2> DEFINE P == {k \in D : t[k] = x}
             Q == {i \in D : s[i] = x}
             g == [k \in P |-> f[k]]
  <2>1. /\ g \in [P -> Q] /\ (\A a, b \in P : g[a] = g[b] => a = b)
        /\ \A i \in Q : \E k \in P : g[k] = i
    BY <1>3, <1>4
  <2>2. P \in SUBSET D /\ IsFiniteSet(D)
    BY <1>1
  <2>3. Often(t, x) = Cardinality(P) /\ Often(s, x) = Cardinality(Q)
    BY <1>2 DEF Often, D
  <2> HIDE DEF P, Q, g
  <2>4. g \in Bijection(P, Q) /\ IsFiniteSet(P)
    BY <2>1, <2>2, Fun_IsBij, FS_Subset
  <2>5. Cardinality(P) = Cardinality(Q)
    <3>1. ExistsBijection(P, Q)
      BY <2>4 DEF ExistsBijection
    <3> QED  BY <2>4, <3>1, FS_Bijection
  <2> QED  BY <2>3, <2>5
<1>6. \A k, l \in D : k < l => taken[t[k]][e] <= taken[t[l]][e]
  BY <1>0, <1>3, <1>4
<1> QED  BY <1>2, <1>5, <1>6 DEF t, D

LEMMA OftenFinite ==
    ASSUME NEW A, NEW s \in Seq(A), NEW x
    PROVE  /\ IsFiniteSet({i \in 1..Len(s) : s[i] = x}) /\ Often(s, x) \in Nat
           /\ Often(s, x) = 0 <=> \A i \in 1..Len(s) : s[i] # x
<1> DEFINE P == {i \in 1..Len(s) : s[i] = x}
<1>1. P \in SUBSET (1..Len(s)) /\ IsFiniteSet(1..Len(s))
  BY FS_Interval
<1>2. Often(s, x) = Cardinality(P) /\ (P = {} <=> \A i \in 1..Len(s) : s[i] # x)
  BY DEF Often
<1> HIDE DEF P
<1>3. IsFiniteSet(P) /\ Cardinality(P) \in Nat /\ (Cardinality(P) = 0 <=> P = {})
  <2>1. IsFiniteSet(P)
    BY <1>1, FS_Subset
  <2> QED  BY <2>1, FS_CardinalityType, FS_EmptySet
<1> QED  BY <1>2, <1>3 DEF P

LEMMA AppendCounts ==
    ASSUME NEW A, NEW s \in Seq(A), NEW a \in A, NEW x
    PROVE  Often(Append(s, a), x) = Often(s, x) + (IF x = a THEN 1 ELSE 0)
<1> DEFINE m == Len(s)
           u == Append(s, a)
           P == {i \in 1..m : s[i] = x}
           Q == {i \in 1..Len(u) : u[i] = x}
<1>1. IsFiniteSet(P) /\ Cardinality(P) \in Nat /\ Often(s, x) = Cardinality(P)
  BY OftenFinite DEF Often
<1>2. /\ m \in Nat /\ Len(u) = m + 1 /\ u[m + 1] = a
      /\ \A i \in 1..m : u[i] = s[i]
  OBVIOUS
<1> HIDE DEF u, m
<1>3. Q = P \cup (IF x = a THEN {m + 1} ELSE {}) /\ m + 1 \notin P
  BY <1>2
<1>4. Often(u, x) = Cardinality(Q)
  BY DEF Often
<1> HIDE DEF P, Q
<1>5. CASE x = a
  <2>1. Q = P \cup {m + 1}
    BY <1>3, <1>5
  <2>2. Cardinality(P \cup {m + 1}) = Cardinality(P) + 1
    BY <1>1, <1>3, FS_AddElement
  <2> QED  BY <1>1, <1>4, <1>5, <2>1, <2>2 DEF u
<1>6. CASE x # a
  BY <1>1, <1>3, <1>4, <1>6 DEF u
<1> QED  BY <1>5, <1>6

\* The focus is put on the nearest point of a line.
LEMMA NearestIsNearest ==
    ASSUME taken \in Timings, NEW e \in Endpoints, NEW s, s = series[e], s \in Seq(Files),
           s # <<>>, \A k, l \in 1..Len(s) : k < l => taken[s[k]][e] <= taken[s[l]][e],
           NEW x \in Int
    PROVE  \A i \in 1..Len(s) :
              Distance(taken[Nearest(e, x)][e], x) <= Distance(taken[s[i]][e], x)
<1> DEFINE n == Len(s)
           W(i) == taken[s[i]][e]
           late == {i \in 2..n : W(i) >= x}
           i == IF late = {} THEN n + 1 ELSE Min(late)
<1>1. n \in Nat /\ n >= 1
  OBVIOUS
<1>2. \A k \in 1..n : W(k) \in Int
  <2> TAKE k \in 1..n
  <2>1. s[k] \in Files
    OBVIOUS
  <2> QED  BY <2>1, TimingsAssumption
<1>3. ASSUME NEW k \in 1..n, NEW l \in 1..n, k <= l PROVE W(k) <= W(l)
  <2>1. CASE k = l
    BY <1>2, <2>1
  <2>2. CASE k < l
    BY <2>2
  <2> QED  BY <1>1, <1>3, <2>1, <2>2
<1>4. Nearest(e, x) = IF i <= n /\ x - W(i - 1) > W(i) - x THEN s[i] ELSE s[i - 1]
  BY DEF Nearest
<1> HIDE DEF W
<1>5. late \in SUBSET Nat /\ \A k \in late : k \in 2..n
  BY <1>1
<1>6. /\ i \in 2..(n + 1)
      /\ \A k \in 2..n : k < i => W(k) < x
      /\ i <= n => W(i) >= x
  <2>1. CASE late = {}
    <3>1. i = n + 1
      BY <2>1
    <3> HIDE DEF i
    <3>2. \A k \in 2..n : W(k) < x
      <4> TAKE k \in 2..n
      <4>1. W(k) \in Int
        BY <1>1, <1>2
      <4> QED  BY <2>1, <4>1
    <3> QED  BY <1>1, <3>1, <3>2
  <2>2. CASE late # {}
    <3>1. i \in late /\ \A k \in late : i <= k
      <4>1. i = Min(late)
        BY <2>2
      <4> HIDE DEF late, i
      <4> QED  BY <1>5, <2>2, <4>1, MinOfNats
    <3> HIDE DEF i
    <3>2. i \in 2..n /\ W(i) >= x
      BY <3>1
    <3>3. \A k \in 2..n : k < i => W(k) < x
      <4> SUFFICES ASSUME NEW k \in 2..n, k < i PROVE W(k) < x
        OBVIOUS
      <4>1. W(k) \in Int /\ k \in Int /\ i \in Int
        BY <1>1, <1>2, <3>2
      <4>2. k \notin late
        BY <3>1, <4>1
      <4> QED  BY <4>1, <4>2
    <3> QED  BY <1>1, <3>2, <3>3
  <2> QED  BY <2>1, <2>2
<1> HIDE DEF late, i
<1>7. ASSUME NEW k \in 1..n PROVE Distance(taken[Nearest(e, x)][e], x) <= Distance(W(k), x)
  <2> DEFINE a == W(i - 1)
             b == W(i)
             w == W(k)
  <2>1. i - 1 \in 1..n /\ i \in Int /\ k \in Int /\ (i <= n => i \in 1..n)
    BY <1>1, <1>6
  <2>2. a \in Int /\ w \in Int /\ (i <= n => b \in Int /\ b >= x)
    BY <1>2, <1>6, <2>1
  <2>3. i - 1 = 1 \/ a < x
    <3>1. CASE i - 1 # 1
      <4>1. i - 1 \in 2..n /\ i - 1 < i
        BY <2>1, <3>1
      <4> QED  BY <1>6, <4>1
    <3> QED  BY <3>1
  <2>4. k <= i - 1 => w <= a
    BY <1>3, <2>1
  <2>5. i - 1 <= k => a <= w
    BY <1>3, <2>1
  <2>6. i <= k => i <= n /\ b <= w
    BY <1>1, <1>3, <2>1
  <2>7. k <= i - 1 \/ i <= k
    BY <2>1
  <2>8. \/ i <= n /\ x - a > b - x /\ taken[Nearest(e, x)][e] = b
        \/ ~(i <= n /\ x - a > b - x) /\ taken[Nearest(e, x)][e] = a
    BY <1>4 DEF W
  <2>9. k <= i - 1 /\ i - 1 = 1 => w = a
    <3>1. i - 1 = 1 /\ k <= 1 => k = i - 1
      BY <2>1
    <3> QED  BY <3>1
  <2> HIDE DEF a, b, w
  <2>10. CASE i <= n /\ x - a > b - x /\ taken[Nearest(e, x)][e] = b
    <3>1. Distance(b, x) = b - x
      BY <2>2, <2>10 DEF Distance
    <3>2. CASE k <= i - 1
      <4>1. w <= a /\ a < x
        BY <2>2, <2>4, <2>10, <3>2
      <4> QED  BY <2>2, <2>10, <3>1, <4>1 DEF Distance, w
    <3>3. CASE i <= k
      BY <2>2, <2>6, <2>10, <3>1, <3>3 DEF Distance, w
    <3> QED  BY <2>7, <3>2, <3>3
  <2>11. CASE ~(i <= n /\ x - a > b - x) /\ taken[Nearest(e, x)][e] = a
    <3>1. CASE k <= i - 1
      <4>1. w = a \/ (w <= a /\ a < x)
        BY <2>3, <2>4, <2>9, <3>1
      <4> QED  BY <2>2, <2>11, <4>1 DEF Distance, w
    <3>2. CASE i <= k
      <4>1. b <= w /\ b \in Int /\ b >= x /\ x - a <= b - x /\ a <= w
        BY <2>1, <2>2, <2>5, <2>6, <2>11, <3>2
      <4> QED  BY <2>2, <2>11, <4>1 DEF Distance, w
    <3> QED  BY <2>7, <3>1, <3>2
  <2> QED  BY <2>8, <2>10, <2>11
<1> QED  BY <1>7 DEF W, n

\* Every line has the results of its endpoint, by their timestamps, each as often
\* as its file was loaded.
Lined ==
    \A e \in Endpoints :
        /\ series[e] \in Seq(Files)
        /\ \A k, l \in 1..Len(series[e]) :
              k < l => taken[series[e][k]][e] <= taken[series[e][l]][e]
        /\ \A n \in Files : Often(series[e], n) = IF e \in ResultsIn(n) THEN copies[n] ELSE 0

\* The endpoints that have a chart, and what is around the charts.
Charted == {e \in Endpoints : series[e] # <<>>}

Framed ==
    /\ \A e \in Endpoints : lines[e] = series[e]
    /\ Frames(grid, Charted)
    /\ placeholder \in BOOLEAN /\ (placeholder => Charted = {})

ChartsInv == Lined /\ Framed

LEMMA ChartsInit == PageInit => ChartsInv
<1> SUFFICES ASSUME PageInit PROVE ChartsInv
  OBVIOUS
<1>1. /\ series = [e \in Endpoints |-> <<>>] /\ lines = series /\ grid = <<>>
      /\ placeholder = TRUE /\ copies = [n \in Files |-> 0]
  BY DEF PageInit, Init
<1>2. Lined
  <2> SUFFICES ASSUME NEW e \in Endpoints
               PROVE  /\ series[e] \in Seq(Files)
                      /\ \A k, l \in 1..Len(series[e]) :
                            k < l => taken[series[e][k]][e] <= taken[series[e][l]][e]
                      /\ \A n \in Files : Often(series[e], n) =
                                             IF e \in ResultsIn(n) THEN copies[n] ELSE 0
    BY DEF Lined
  <2>1. series[e] = <<>>
    BY <1>1
  <2>2. \A n \in Files : Often(<<>>, n) = 0
    <3>1. <<>> \in Seq(Files) /\ \A n \in Files : \A i \in 1..Len(<<>>) : <<>>[i] # n
      OBVIOUS
    <3> QED  BY <3>1, OftenFinite
  <2> QED  BY <1>1, <2>1, <2>2
<1>3. Charted = {}
  BY <1>1 DEF Charted
<1>4. Frames(<<>>, {})
  BY DEF Frames
<1> QED  BY <1>1, <1>2, <1>3, <1>4 DEF ChartsInv, Framed

\* Nothing of it changes.
LEMMA ChartsKept ==
    ASSUME ChartsInv, UNCHANGED <<history, taken, copies>>,
           UNCHANGED <<series, lines, grid, placeholder>>
    PROVE  ChartsInv'
<1>1. \A n \in Files : ResultsIn(n)' = ResultsIn(n)
  BY DEF ResultsIn
<1>2. Lined'
  BY <1>1 DEF ChartsInv, Lined, Often
<1>3. Framed'
  BY DEF ChartsInv, Framed, Charted, Frames
<1> QED  BY <1>2, <1>3 DEF ChartsInv

\* The graphs are made for the series as they are now.
LEMMA GraphsMade ==
    ASSUME ChartsInv, MakeGraphs, Lined', copies' \in [Files -> Nat],
           \A e \in Charted : series'[e] # <<>>
    PROVE  ChartsInv'
<1>1. /\ grid' = WithContainers(grid, series') /\ lines' = series'
      /\ shown' = NumChecks(copies') /\ placeholder' = (placeholder /\ shown' = 0)
  BY DEF MakeGraphs
<1>2. Frames(grid', Charted')
  <2>1. Charted' = {e \in Endpoints : series'[e] # <<>>}
    BY DEF Charted
  <2>2. Charted \in SUBSET Endpoints /\ Frames(grid, Charted)
    BY DEF ChartsInv, Framed, Charted
  <2>3. Frames(WithContainers(grid, series'), {e \in Endpoints : series'[e] # <<>>})
    BY <2>2, ContainersAre
  <2> QED  BY <1>1, <2>1, <2>3
<1>3. ASSUME placeholder', NEW e \in Endpoints PROVE series'[e] = <<>>
  <2>1. NumChecks(copies') = 0
    BY <1>1, <1>3
  <2>2. \A n \in Files : copies'[n] \in Nat /\ copies'[n] <= 0
    BY <2>1, ChecksCounted
  <2>3. /\ series'[e] \in Seq(Files)
        /\ \A n \in Files : Often(series'[e], n) = 0
    <3>1. /\ series'[e] \in Seq(Files)
          /\ \A n \in Files : \/ Often(series'[e], n) = copies'[n]
                             \/ Often(series'[e], n) = 0
      BY DEF Lined, Often
    <3>2. \A n \in Files : copies'[n] = 0
      BY <2>2
    <3> QED  BY <3>1, <3>2
  <2>4. \A n \in Files : \A i \in 1..Len(series'[e]) : series'[e][i] # n
    BY <2>3, OftenFinite
  <2> QED  BY <2>3, <2>4
<1>4. placeholder' \in BOOLEAN
  BY <1>1
<1> QED  BY <1>1, <1>2, <1>3, <1>4 DEF ChartsInv, Framed, Charted

\* A file is drawn.
LEMMA ChartsFile ==
    ASSUME ChartsInv, taken \in Timings, NEW n \in Files, Draw(n), UNCHANGED <<history, taken>>,
           copies \in [Files -> Nat], copies' = [copies EXCEPT ![n] = @ + 1],
           copies' \in [Files -> Nat]
    PROVE  ChartsInv'
<1>1. ASSUME NEW e \in Endpoints
      PROVE  /\ series'[e] \in Seq(Files)
             /\ \A k, l \in 1..Len(series'[e]) :
                   k < l => taken[series'[e][k]][e] <= taken[series'[e][l]][e]
             /\ \A m \in Files : Often(series'[e], m) =
                                    IF e \in ResultsIn(m)' THEN copies'[m] ELSE 0
             /\ series[e] # <<>> => series'[e] # <<>>
  <2>1. series'[e] = IF e \in ResultsIn(n) THEN PointsByTimestamp(Append(series[e], n), e)
                      ELSE series[e]
    BY DEF Draw
  <2>2. /\ series[e] \in Seq(Files)
        /\ \A k, l \in 1..Len(series[e]) :
              k < l => taken[series[e][k]][e] <= taken[series[e][l]][e]
        /\ \A m \in Files : Often(series[e], m) = IF e \in ResultsIn(m) THEN copies[m] ELSE 0
    BY DEF ChartsInv, Lined
  <2>3. \A m \in Files : ResultsIn(m)' = ResultsIn(m)
    BY DEF ResultsIn
  <2>4. CASE e \notin ResultsIn(n)
    <3>1. \A m \in Files : e \in ResultsIn(m) => copies'[m] = copies[m]
      BY <2>4
    <3> QED  BY <2>1, <2>2, <2>3, <2>4, <3>1
  <2>5. CASE e \in ResultsIn(n)
    <3> DEFINE s == series[e]
               a == Append(s, n)
               t == PointsByTimestamp(a, e)
    <3>1. a \in Seq(Files) /\ Len(a) = Len(s) + 1 /\ Len(s) \in Nat
      BY <2>2
    <3>3. \A m \in Files : Often(a, m) = Often(s, m) + (IF m = n THEN 1 ELSE 0)
      BY <2>2, AppendCounts
    <3>4. /\ t \in Seq(Files) /\ Len(t) = Len(a)
          /\ \A k, l \in 1..Len(a) : k < l => taken[t[k]][e] <= taken[t[l]][e]
          /\ \A m \in Files : Often(t, m) = Often(a, m)
      <4> HIDE DEF a
      <4> QED  BY <3>1, SortedCounts
    <3>5. \A m \in Files : Often(t, m) = IF e \in ResultsIn(m) THEN copies'[m] ELSE 0
      <4> TAKE m \in Files
      <4>1. Often(t, m) = Often(s, m) + (IF m = n THEN 1 ELSE 0)
        BY <3>3, <3>4
      <4>2. Often(s, m) = IF e \in ResultsIn(m) THEN copies[m] ELSE 0
        BY <2>2
      <4>3. copies'[m] = copies[m] + (IF m = n THEN 1 ELSE 0) /\ copies[m] \in Nat
        OBVIOUS
      <4> HIDE DEF a, s, t
      <4> QED  BY <2>5, <4>1, <4>2, <4>3
    <3>6. series'[e] = t
      BY <2>1, <2>5
    <3> HIDE DEF a, s, t
    <3>7. series'[e] # <<>>
      <4>1. Len(t) # 0
        BY <3>1, <3>4
      <4> QED  BY <3>6, <4>1
    <3> QED  BY <2>3, <3>4, <3>5, <3>6, <3>7
  <2> QED  BY <2>4, <2>5
<1>2. Lined'
  <2>1. taken' = taken
    OBVIOUS
  <2> QED  BY <1>1, <2>1 DEF Lined, Often
<1>3. \A e \in Charted : series'[e] # <<>>
  BY <1>1 DEF Charted
<1> QED  BY <1>2, <1>3, GraphsMade DEF Draw

\* Only the actions that draw change what the charts show.
LEMMA ChartsNext == IInv /\ Typed /\ ChartsInv /\ [PageNext]_pageVars => ChartsInv'
<1> SUFFICES ASSUME IInv, Typed, ChartsInv, [PageNext]_pageVars PROVE ChartsInv'
  OBVIOUS
<1>1. CASE Elsewhere
  <2>1. UNCHANGED <<series, lines, grid, placeholder>>
    BY <1>1 DEF Elsewhere, charts, layout
  <2>2. ASSUME NEW b \in Batches, ListArrives(b) PROVE UNCHANGED <<history, taken, copies>>
    BY <2>2, ListLoads DEF Typed
  <2>3. UNCHANGED <<history, taken, copies>>
    <3>1. ASSUME NEW n \in Files, NameFile(n) \/ ShowFile(n)
          PROVE  UNCHANGED <<history, taken, copies>>
      BY <3>1 DEF NameFile, ShowFile, extern, page
    <3>2. ASSUME NEW b, NEW a, Request(b, a) PROVE UNCHANGED <<history, taken, copies>>
      BY <3>2 DEF Request, extern, page
    <3>3. ASSUME NEW b \in Batches, PageArrives(b) \/ ListFails(b)
          PROVE  UNCHANGED <<history, taken, copies>>
      BY <3>3 DEF PageArrives, ListFails, extern, page
    <3>4. ASSUME NEW b \in Batches, NEW n \in Files, FileFails(b, n)
          PROVE  UNCHANGED <<history, taken, copies>>
      BY <3>4 DEF FileFails, extern, page
    <3> QED  BY <1>1, <2>2, <3>1, <3>2, <3>3, <3>4 DEF Elsewhere, Open, GetNewChecks
  <2> QED  BY <2>1, <2>3, ChartsKept
<1>2. ASSUME NEW b \in Batches, NothingNew(b) PROVE ChartsInv'
  <2>1. UNCHANGED <<history, taken, copies, series>> /\ MakeGraphs
    BY <1>2, ListLoads DEF NothingNew, Typed
  <2>2. copies' \in [Files -> Nat]
    BY <2>1 DEF IInv, Knowledge
  <2>3. Lined'
    <3>1. \A n \in Files : ResultsIn(n)' = ResultsIn(n)
      BY <2>1 DEF ResultsIn
    <3> QED  BY <2>1, <3>1 DEF ChartsInv, Lined, Often
  <2>4. \A e \in Charted : series'[e] # <<>>
    BY <2>1 DEF Charted
  <2> QED  BY <2>1, <2>2, <2>3, <2>4, GraphsMade
<1>3. ASSUME NEW b \in Batches, NEW n \in Files, FileDrawn(b, n) PROVE ChartsInv'
  <2>1. /\ UNCHANGED <<history, taken>> /\ taken \in Timings
        /\ copies' = [copies EXCEPT ![n] = @ + 1] /\ copies' \in [Files -> Nat]
    BY <1>3, FileLoads DEF FileDrawn, Typed
  <2>2. copies \in [Files -> Nat] /\ Draw(n)
    BY <1>3 DEF IInv, Knowledge, FileDrawn
  <2> QED  BY <2>1, <2>2, ChartsFile
<1>4. ASSUME NEW id \in 1..Len(events), MouseOver(id) PROVE ChartsInv'
  BY <1>4, ChartsKept DEF MouseOver, vars, extern, page, charts, layout
<1>5. CASE MouseOut
  BY <1>5, ChartsKept DEF MouseOut, vars, extern, page, charts, layout
<1>6. CASE UNCHANGED pageVars
  BY <1>6, ChartsKept DEF pageVars, vars, extern, page, charts, layout
<1> QED  BY <1>1, <1>2, <1>3, <1>4, <1>5, <1>6 DEF PageNext

\* One container for every chart, and none for the endpoints without one.
LEMMA OneContainer ==
    ASSUME Frames(grid, Charted), NEW e \in Endpoints
    PROVE  Cardinality({i \in 1..Len(grid) : grid[i].endpoint = e}) =
               IF series[e] = <<>> THEN 0 ELSE 1
<1> DEFINE at == {i \in 1..Len(grid) : grid[i].endpoint = e}
<1>1. CASE series[e] = <<>>
  <2>1. at = {}
    BY <1>1 DEF Frames, Charted
  <2> QED  BY <1>1, <2>1, FS_EmptySet
<1>2. CASE series[e] # <<>>
  <2>1. PICK i \in 1..Len(grid) : grid[i].endpoint = e
    BY <1>2 DEF Frames, Charted
  <2>2. at = {i}
    BY <2>1 DEF Frames
  <2> QED  BY <1>2, <2>2, FS_Singleton
<1> QED  BY <1>1, <1>2

LEMMA ChartsFollow == Typed /\ ChartsInv => ChartsFaithful
<1> SUFFICES ASSUME Typed, ChartsInv PROVE ChartsFaithful
  OBVIOUS
<1>1. ASSUME NEW e \in Endpoints
      PROVE  /\ \A i \in 1..(Len(lines[e]) - 1) : taken[lines[e][i]][e] <= taken[lines[e][i + 1]][e]
             /\ \A n \in Files :
                   Cardinality({i \in 1..Len(lines[e]) : lines[e][i] = n}) =
                       IF e \in ResultsIn(n) THEN copies[n] ELSE 0
             /\ lines[e] # <<>> => \A x \in 0..taken[lines[e][Len(lines[e])]][e] :
                   LET near == Distance(taken[Nearest(e, x)][e], x) IN
                   \A i \in 1..Len(lines[e]) : near <= Distance(taken[lines[e][i]][e], x)
             /\ Cardinality({i \in 1..Len(grid) : grid[i].endpoint = e}) =
                   IF lines[e] = <<>> THEN 0 ELSE 1
  <2>1. /\ lines[e] = series[e] /\ series[e] \in Seq(Files)
        /\ \A k, l \in 1..Len(series[e]) :
              k < l => taken[series[e][k]][e] <= taken[series[e][l]][e]
        /\ \A n \in Files : Often(series[e], n) = IF e \in ResultsIn(n) THEN copies[n] ELSE 0
        /\ Frames(grid, Charted)
    BY DEF ChartsInv, Lined, Framed
  <2>2. \A i \in 1..(Len(lines[e]) - 1) :
           taken[lines[e][i]][e] <= taken[lines[e][i + 1]][e]
    <3> TAKE i \in 1..(Len(lines[e]) - 1)
    <3>1. Len(series[e]) \in Nat
      BY <2>1
    <3>2. i \in 1..Len(series[e]) /\ i + 1 \in 1..Len(series[e]) /\ i < i + 1
      BY <2>1, <3>1
    <3> QED  BY <2>1, <3>2
  <2>3. ASSUME lines[e] # <<>>, NEW x \in 0..taken[lines[e][Len(lines[e])]][e]
        PROVE  \A i \in 1..Len(lines[e]) :
                  Distance(taken[Nearest(e, x)][e], x) <= Distance(taken[lines[e][i]][e], x)
    <3>1. x \in Int
      OBVIOUS
    <3> QED  BY <2>1, <2>3, <3>1, NearestIsNearest DEF Typed
  <2> QED  BY <2>1, <2>2, <2>3, OneContainer DEF Often
<1>2. \A i \in 1..Len(grid) : grid[i].wide <=> Len(grid) = 1
  BY DEF ChartsInv, Framed, Frames
<1>3. placeholder => grid = <<>>
  <2> SUFFICES ASSUME placeholder PROVE grid = <<>>
    OBVIOUS
  <2>1. grid \in Seq(Container) /\ \A i \in 1..Len(grid) : grid[i].endpoint \in {}
    BY DEF ChartsInv, Framed, Frames
  <2>2. Len(grid) = 0
    BY <2>1
  <2> QED  BY <2>1, <2>2
<1> QED  BY <1>1, <1>2, <1>3 DEF ChartsFaithful

\* The charts show the results the page has, as they should.
THEOREM ChartsAreFaithful == PageSpec => []ChartsFaithful
<1>1. PageInit => IInv /\ Typed /\ ChartsInv
  BY InitInvariant, TypedInit, ChartsInit DEF PageInit
<1>2. IInv /\ Typed /\ ChartsInv /\ [PageNext]_pageVars => (IInv /\ Typed /\ ChartsInv)'
  BY PageStep, NextInvariant, TypedNext, ChartsNext
<1>3. IInv /\ Typed /\ ChartsInv => ChartsFaithful
  BY ChartsFollow
<1> QED  BY <1>1, <1>2, <1>3, PTL DEF PageSpec
=============================================================================
