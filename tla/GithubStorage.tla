--------------------------- MODULE GithubStorage ---------------------------
(***************************************************************************)
(* The GitHub storage (storage/github): check files and index.json are     *)
(* files of one branch, changed by one API call at a time.  The API        *)
(* creates a file only if there is none, and updates or deletes one only   *)
(* at the blob SHA the caller read; a SHA identifies the content, so the   *)
(* model compares contents.  Several processes work on the branch; each    *)
(* call may fail, and a process may stop anywhere.                         *)
(*                                                                         *)
(* As in FsStorage a check file is named after the time of its creation,   *)
(* an index maps names to stamps, and stamp 0 stands for no entry.  Paths  *)
(* differ from names exactly when Dir is configured.                       *)
(***************************************************************************)
EXTENDS Integers, FiniteSetsExt

CONSTANTS
    Procs,         \* the processes that store results
    Maintainers,   \* those of them that also call Maintain
    DirSet,        \* is Dir a directory, not the root of the repository
    Expiry,        \* CheckExpiry
    MaxTime,       \* bound on the clock
    MaxFaults      \* bound on failed calls and killed processes

ASSUME MaintainersAssumption == Maintainers \subseteq Procs
ASSUME DirAssumption == DirSet \in BOOLEAN
ASSUME BoundsAssumption ==
    Expiry \in Nat /\ MaxTime \in Nat /\ MaxFaults \in Nat

Names   == 1..MaxTime
Indexes == [Names -> 0..MaxTime]
NoEntry == [n \in Names |-> 0]
Listed(map) == {n \in Names : map[n] # 0}

VARIABLES
    clock,     \* the last time anyone read
    files,     \* names of the check files on the branch
    exists,    \* is there an index.json on the branch
    index,     \* the map in it
    pc,        \* where each process is in Store or Maintain
    name,      \* Store's name of the new check file
    idx,       \* the map each process has in memory
    sha,       \* the index a process read: [exists, map]
    todo,      \* Maintain's tree entries still to visit
    faults,    \* number of faults so far
    failed     \* did an operation ever end before its end (observer)

branch == <<files, exists, index>>
local  == <<name, idx, sha, todo>>
vars   == <<clock, branch, pc, local, faults, failed>>

PCs  == {"idle", "read", "add", "readMaintain", "tree", "sweep"}
SHAs == [exists : BOOLEAN, map : Indexes]

Init ==
    /\ clock = 0
    /\ files = {} /\ exists = FALSE /\ index = NoEntry
    /\ pc = [p \in Procs |-> "idle"]
    /\ name = [p \in Procs |-> 0]
    /\ idx = [p \in Procs |-> NoEntry]
    /\ sha = [p \in Procs |-> [exists |-> FALSE, map |-> NoEntry]]
    /\ todo = [p \in Procs |-> {}]
    /\ faults = 0 /\ failed = FALSE

Goto(p, place) == pc' = [pc EXCEPT ![p] = place]

Tick == /\ clock < MaxTime
        /\ clock' = clock + 1
        /\ UNCHANGED <<branch, pc, local, faults, failed>>

\* The operation of p returns an error: nothing is undone.
ReturnError(p) == Goto(p, "idle") /\ failed' = TRUE

-----------------------------------------------------------------------------
(* Store *)

\* Mutant: the time is left out of the file's name.
CreateUntimed(p) ==
    /\ pc[p] = "idle" /\ clock < MaxTime
    /\ clock' = clock + 1
    /\ name' = [name EXCEPT ![p] = clock']
    /\ files' = files \cup {0}
    /\ Goto(p, "read")
    /\ UNCHANGED <<exists, index, idx, sha, todo, faults, failed>>

\* writeFile without a SHA creates the check file, under a fresh name.
CreateFile(p) ==
    /\ pc[p] = "idle" /\ clock < MaxTime
    /\ clock' = clock + 1
    /\ name' = [name EXCEPT ![p] = clock']
    /\ files' = files \cup {clock'}
    /\ Goto(p, "read")
    /\ UNCHANGED <<exists, index, idx, sha, todo, faults, failed>>

\* readIndex: no file is an empty map and an empty SHA.
ReadIndex(p, from, to) ==
    /\ pc[p] = from
    /\ idx' = [idx EXCEPT ![p] = index]
    /\ sha' = [sha EXCEPT ![p] = [exists |-> exists, map |-> index]]
    /\ Goto(p, to)
    /\ UNCHANGED <<clock, branch, name, todo, faults, failed>>

Unchanged(p) == sha[p] = [exists |-> exists, map |-> index]

\* Mutant: the index is written whatever its SHA.
CommitAnyway(p, map, next) ==
    /\ index' = map /\ exists' = TRUE
    /\ Goto(p, next) /\ UNCHANGED failed

\* writeIndex creates index.json or updates it at the SHA that was read; the
\* API refuses if somebody else did meanwhile, and the error is returned.
CommitIndex(p, map, next) ==
    \/ /\ Unchanged(p)
       /\ index' = map /\ exists' = TRUE
       /\ Goto(p, next) /\ UNCHANGED failed
    \/ /\ ~Unchanged(p)
       /\ ReturnError(p) /\ UNCHANGED <<index, exists>>

AddEntry(p) ==
    /\ pc[p] = "add" /\ clock < MaxTime
    /\ clock' = clock + 1
    /\ idx' = [idx EXCEPT ![p][name[p]] = clock']
    /\ CommitIndex(p, idx'[p],
                   IF p \in Maintainers /\ Expiry # 0 THEN "readMaintain" ELSE "idle")
    /\ UNCHANGED <<files, name, sha, todo, faults>>

-----------------------------------------------------------------------------
(* Maintain *)

\* GetRef and GetTree: the branch as it is at one commit.
GetTree(p) ==
    /\ pc[p] = "tree"
    /\ todo' = [todo EXCEPT ![p] = files]
    /\ Goto(p, "sweep")
    /\ UNCHANGED <<clock, branch, name, idx, sha, faults, failed>>

\* Mutant: a file that is not in the index has stamp zero, 1970.
ExpiredUnlisted(p, n) == clock - idx[p][n] > Expiry

Expired(p, n) == idx[p][n] # 0 /\ clock - idx[p][n] > Expiry

\* delete(index, fileName): fileName is the path in the tree, the keys of
\* the map are names, so with a Dir nothing is deleted from the map.
Forget(map, n) == IF DirSet THEN map ELSE [map EXCEPT ![n] = 0]

\* Mutant: the entry of a deleted file stays in the map.
SweepForgetsNothing(p) ==
    /\ pc[p] = "sweep" /\ todo[p] # {}
    /\ LET n == Min(todo[p]) IN
       /\ todo' = [todo EXCEPT ![p] = @ \ {n}]
       /\ files' = IF Expired(p, n) THEN files \ {n} ELSE files
    /\ UNCHANGED <<clock, exists, index, pc, name, idx, sha, faults, failed>>

\* One entry of the tree: an expired file is deleted at the SHA in the tree;
\* if another process was faster the API refuses and Maintain returns.
Sweep(p) ==
    /\ pc[p] = "sweep" /\ todo[p] # {}
    /\ LET n == Min(todo[p]) IN
       /\ todo' = [todo EXCEPT ![p] = @ \ {n}]
       /\ \/ ~Expired(p, n) /\ UNCHANGED <<files, idx, pc, failed>>
          \/ /\ Expired(p, n) /\ n \in files
             /\ files' = files \ {n}
             /\ idx' = [idx EXCEPT ![p] = Forget(@, n)]
             /\ UNCHANGED <<pc, failed>>
          \/ /\ Expired(p, n) /\ n \notin files
             /\ ReturnError(p) /\ UNCHANGED <<files, idx>>
    /\ UNCHANGED <<clock, exists, index, name, sha, faults>>

SweepEnds(p) ==
    /\ pc[p] = "sweep" /\ todo[p] = {}
    /\ CommitIndex(p, idx[p], "idle")
    /\ UNCHANGED <<clock, files, local, faults>>

\* A call fails (network, rate limit) or the process is killed.
Fault(p) ==
    /\ pc[p] # "idle" /\ faults < MaxFaults
    /\ faults' = faults + 1
    /\ ReturnError(p)
    /\ UNCHANGED <<clock, branch, local>>

Process(p) ==
    \/ CreateFile(p) \/ ReadIndex(p, "read", "add") \/ AddEntry(p)
    \/ ReadIndex(p, "readMaintain", "tree") \/ GetTree(p)
    \/ Sweep(p) \/ SweepEnds(p) \/ Fault(p)

Next == Tick \/ \E p \in Procs : Process(p)

Spec == Init /\ [][Next]_vars

-----------------------------------------------------------------------------
(* Properties. *)

\* Every variable has its type, and only a file that exists has entries.
TypeOK ==
    /\ clock \in 0..MaxTime
    /\ files \subseteq Names /\ exists \in BOOLEAN /\ index \in Indexes
    /\ ~exists => index = NoEntry
    /\ pc \in [Procs -> PCs]
    /\ name \in [Procs -> 0..MaxTime]
    /\ idx \in [Procs -> Indexes]
    /\ sha \in [Procs -> SHAs]
    /\ todo \in [Procs -> SUBSET Names]
    /\ faults \in 0..MaxFaults /\ failed \in BOOLEAN

\* No update of the index is lost: what any process adds stays listed, with
\* its stamp, until its file has been deleted as expired.
NoLostUpdate ==
    [][\A n \in Names : index[n] # 0 =>
          \/ index'[n] = index[n]
          \/ index'[n] = 0 /\ n \notin files]_vars

\* No check file is deleted before it is older than CheckExpiry.
DeletesOnlyExpired ==
    [][\A n \in files \ files' : Expiry # 0 /\ clock - n > Expiry]_vars

\* "a map where keys are check result filenames" (StorageReader.GetIndex):
\* when nobody is at work and nothing ever failed, the index lists exactly
\* the check files there are.
ListsTheFiles ==
    (~failed /\ \A p \in Procs : pc[p] = "idle") => Listed(index) = files
=============================================================================
