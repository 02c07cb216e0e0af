----------------------------- MODULE S3Storage ------------------------------
(***************************************************************************)
(* The S3 storage (storage/s3): a bucket of check files, without an index. *)
(* Several processes put objects; Maintain walks the bucket page by page   *)
(* and deletes the expired objects of each page with one request.  The     *)
(* service works on one request at a time, dates an object when it has     *)
(* been put, lists keys in order, and reports keys it could not delete in  *)
(* an answer the code does not look at.                                    *)
(*                                                                         *)
(* As in FsStorage a check file is named after a time, so the order of the *)
(* keys is that of their names; date 0 stands for no object.               *)
(***************************************************************************)
EXTENDS Integers, FiniteSetsExt

CONSTANTS
    Procs,         \* the processes that store results
    Maintainers,   \* those of them that also call Maintain
    Expiry,        \* CheckExpiry
    PageSize,      \* how many objects one listing returns at most
    MaxTime,       \* bound on the clock
    MaxFaults      \* bound on failed requests and killed processes

ASSUME MaintainersAssumption == Maintainers \subseteq Procs
ASSUME PageAssumption == PageSize \in Nat \ {0}
ASSUME BoundsAssumption ==
    Expiry \in Nat /\ MaxTime \in Nat /\ MaxFaults \in Nat

Names == 1..MaxTime

VARIABLES
    clock,      \* the last time anyone read
    modified,   \* LastModified of each object of the bucket
    pc,         \* where each process is in Store or Maintain
    name,       \* Store's key of the new object
    marker,     \* Maintain's marker, 0 standing for nil
    todo,       \* objsToDelete
    more,       \* where the next page starts, 0 if there is none
    began,      \* when Maintain was called (observer)
    deleted,    \* the objects that were deleted (observer)
    kept,       \* those a request could not delete (observer)
    faults      \* number of faults so far

walk == <<marker, todo, more, began>>
vars == <<clock, modified, pc, name, walk, deleted, kept, faults>>

PCs == {"idle", "put", "list", "delete"}

Bucket == {n \in Names : modified[n] # 0}

Init ==
    /\ clock = 0
    /\ modified = [n \in Names |-> 0]
    /\ pc = [p \in Procs |-> "idle"]
    /\ name = [p \in Procs |-> 0] /\ marker = [p \in Procs |-> 0]
    /\ todo = [p \in Procs |-> {}] /\ more = [p \in Procs |-> 0]
    /\ began = [p \in Procs |-> 0]
    /\ deleted = {} /\ kept = {} /\ faults = 0

Goto(p, place) == pc' = [pc EXCEPT ![p] = place]

Tick == /\ clock < MaxTime
        /\ clock' = clock + 1
        /\ UNCHANGED <<modified, pc, name, walk, deleted, kept, faults>>

-----------------------------------------------------------------------------
\* Store: GenerateFilename.
NameFile(p) ==
    /\ pc[p] = "idle" /\ clock < MaxTime
    /\ clock' = clock + 1
    /\ name' = [name EXCEPT ![p] = clock']
    /\ Goto(p, "put")
    /\ UNCHANGED <<modified, walk, deleted, kept, faults>>

\* PutObject; after Store a maintainer calls Maintain, which returns at once
\* when CheckExpiry is zero.
Put(p) ==
    /\ pc[p] = "put" /\ clock < MaxTime
    /\ clock' = clock + 1
    /\ modified' = [modified EXCEPT ![name[p]] = clock']
    /\ IF p \in Maintainers /\ Expiry # 0
       THEN /\ Goto(p, "list")
            /\ marker' = [marker EXCEPT ![p] = 0]
            /\ began' = [began EXCEPT ![p] = clock']
       ELSE Goto(p, "idle") /\ UNCHANGED <<marker, began>>
    /\ UNCHANGED <<name, todo, more, deleted, kept, faults>>

\* Mutant: the age is that of the page's first object.
ExpiredIn(page) == {n \in page : clock - modified[Min(page)] > Expiry}

ExpiredOf(page) == {n \in page : clock - modified[n] > Expiry}

\* The page of objects after marker m, and whether it is truncated.
After(m)     == {n \in Bucket : n > m}
Page(m)      == {n \in After(m) : Cardinality({k \in After(m) : k <= n}) <= PageSize}
Truncated(m) == Page(m) # After(m)

\* Mutant: the request to delete is sent even with no key in it.
ListWithoutBreak(p) ==
    /\ pc[p] = "list"
    /\ todo' = [todo EXCEPT ![p] = ExpiredOf(Page(marker[p]))]
    /\ more' = [more EXCEPT ![p] = IF Truncated(marker[p]) THEN Max(Page(marker[p])) ELSE 0]
    /\ Goto(p, "delete")
    /\ UNCHANGED <<clock, modified, name, marker, began, deleted, kept, faults>>

\* ListObjects, and the choice of what to delete.  A page with nothing to
\* delete ends Maintain, whatever the pages after it hold.
List(p) ==
    /\ pc[p] = "list"
    /\ LET page == Page(marker[p]) IN
       \/ /\ ExpiredOf(page) = {}
          /\ Goto(p, "idle")
          /\ UNCHANGED <<todo, more>>
       \/ /\ ExpiredOf(page) # {}
          /\ todo' = [todo EXCEPT ![p] = ExpiredOf(page)]
          /\ more' = [more EXCEPT ![p] = IF Truncated(marker[p]) THEN Max(page) ELSE 0]
          /\ Goto(p, "delete")
    /\ UNCHANGED <<clock, modified, name, marker, began, deleted, kept, faults>>

\* Mutant: the loop ends with the first page.
NextPageNever(p) ==
    /\ Goto(p, "idle") /\ UNCHANGED marker

\* The end of the loop's body: stop, or go on from the last key of the page.
NextPage(p) ==
    \/ more[p] = 0 /\ Goto(p, "idle") /\ UNCHANGED marker
    \/ /\ more[p] # 0 /\ Goto(p, "list")
       /\ marker' = [marker EXCEPT ![p] = more[p]]

\* DeleteObjects; `failing' are the keys the service reports as not deleted.
DeleteAll(p) ==
    /\ pc[p] = "delete"
    /\ \E failing \in SUBSET (todo[p] \cap Bucket) :
          /\ failing # {} => faults < MaxFaults
          /\ faults' = IF failing = {} THEN faults ELSE faults + 1
          /\ LET gone == (todo[p] \cap Bucket) \ failing IN
             /\ modified' = [n \in Names |-> IF n \in gone THEN 0 ELSE modified[n]]
             /\ deleted' = deleted \cup gone
          /\ kept' = kept \cup failing
    /\ NextPage(p)
    /\ UNCHANGED <<clock, name, todo, more, began>>

\* A request fails, which Store and Maintain return, or the process dies.
Fault(p) ==
    /\ pc[p] # "idle" /\ faults < MaxFaults
    /\ faults' = faults + 1
    /\ Goto(p, "idle")
    /\ UNCHANGED <<clock, modified, name, walk, deleted, kept>>

Process(p) == NameFile(p) \/ Put(p) \/ List(p) \/ DeleteAll(p) \/ Fault(p)

Next == Tick \/ \E p \in Procs : Process(p)

Spec == Init /\ [][Next]_vars

-----------------------------------------------------------------------------
(* Properties. *)

\* Every variable has its type, and no request to delete is sent without a
\* key in it, which the service would refuse.
TypeOK ==
    /\ clock \in 0..MaxTime
    /\ modified \in [Names -> 0..MaxTime]
    /\ pc \in [Procs -> PCs]
    /\ name \in [Procs -> 0..MaxTime]
    /\ marker \in [Procs -> 0..MaxTime]
    /\ more \in [Procs -> 0..MaxTime]
    /\ began \in [Procs -> 0..MaxTime]
    /\ todo \in [Procs -> SUBSET Names]
    /\ \A p \in Procs : pc[p] = "delete" => todo[p] # {}
    /\ deleted \subseteq Names /\ kept \subseteq Names
    /\ faults \in 0..MaxFaults

\* "Check files older than CheckExpiry will be deleted on calls to
\* Maintain()", although it stops at the first page without an expired
\* object: when Maintain returns no error, every object that was expired when
\* it was called is deleted, or its deletion failed.  That takes the order of
\* the keys, and fewer slow uploads than a page has objects.
MaintainDeletesOld ==
    [][\A p \in Procs :
          (List(p) \/ DeleteAll(p)) /\ pc'[p] = "idle" =>
             \A n \in Names \ kept' :
                modified'[n] # 0 => began[p] - modified'[n] <= Expiry]_vars

\* Any number of processes, failing requests and failing deletions included:
\* a check file becomes readable once, and disappears for good only when it
\* is older than CheckExpiry.
Promise == INSTANCE CheckFiles WITH
    now <- clock, readable <- Bucket, gone <- deleted,
    answering <- TRUE, MayPause <- FALSE

KeepsPromise == Promise!Spec
=============================================================================
