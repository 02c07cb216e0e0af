----------------------------- MODULE FsStorage -----------------------------
(***************************************************************************)
(* The filesystem storage (storage/fs): a directory of check files and the *)
(* index.json that lists them, shared by operating-system processes that   *)
(* take no lock.  A process in Maintainers runs `checkup every' (Store,    *)
(* then Maintain); the others only Store (`checkup --store', `checkup      *)
(* message').  A reader (`checkup serve') takes a name from GetIndex and   *)
(* then Fetches it.                                                        *)
(*                                                                         *)
(* A check file is named after the time of its creation, so a name is a    *)
(* time; every reading of the clock for a name or a stamp differs (the     *)
(* clock counts nanoseconds).  An index maps names to stamps: stamp 0      *)
(* stands for a name that is no key of the map.  Reading a file is one     *)
(* step; writing one is two, since os.Create truncates it before the       *)
(* encoder writes: in between, index.json holds no JSON value and cannot   *)
(* be decoded.                                                             *)
(***************************************************************************)
EXTENDS Integers, FiniteSetsExt

CONSTANTS
    Procs,         \* the processes that store results
    Maintainers,   \* those of them that also call Maintain
    Expiry,        \* CheckExpiry
    MaxTime,       \* bound on the clock
    MaxAborts      \* bound on the number of aborted operations

ASSUME MaintainersAssumption == Maintainers \subseteq Procs
ASSUME ExpiryAssumption == Expiry \in Nat
ASSUME MaxTimeAssumption == MaxTime \in Nat
ASSUME MaxAbortsAssumption == MaxAborts \in Nat

Names   == 1..MaxTime
Indexes == [Names -> 0..MaxTime]
NoEntry == [n \in Names |-> 0]
Listed(map) == {n \in Names : map[n] # 0}

VARIABLES
    clock,     \* the last time anyone read
    index,     \* the map in index.json when it can be decoded
    state,     \* of index.json: "absent", "torn" (truncated) or "ok"
    files,     \* names of the check files in the directory
    whole,     \* those whose content is completely written
    pc,        \* where each process is in Store or Maintain
    name,      \* Store's name of the new check file
    idx,       \* the map each process has in memory
    todo,      \* Maintain's files still to visit
    began,     \* when Maintain listed the directory (observer)
    aborts,    \* number of operations cut short so far
    cut,       \* was one of them writing index.json (observer)
    written,   \* names whose content was ever complete (observer)
    reading,   \* what the reader is about to fetch: a name, or 0
    got        \* what its last operation returned

disk   == <<index, state, files, whole>>
local  == <<name, idx, todo, began>>
reader == <<reading, got>>
faults == <<aborts, cut>>
vars   == <<clock, disk, pc, local, faults, written, reader>>

PCs == {"idle", "encode", "read", "add", "writeStore",
        "list", "readMaintain", "sweep", "writeMaintain"}

Init ==
    /\ clock = 0
    /\ index = NoEntry /\ state = "absent" /\ files = {} /\ whole = {}
    /\ pc = [p \in Procs |-> "idle"]
    /\ name = [p \in Procs |-> 0]
    /\ idx = [p \in Procs |-> NoEntry]
    /\ todo = [p \in Procs |-> {}]
    /\ began = [p \in Procs |-> 0]
    /\ aborts = 0 /\ cut = FALSE /\ written = {}
    /\ reading = 0 /\ got = "nothing"

Goto(p, place) == pc' = [pc EXCEPT ![p] = place]

Tick == /\ clock < MaxTime
        /\ clock' = clock + 1
        /\ UNCHANGED <<disk, pc, local, faults, written, reader>>

-----------------------------------------------------------------------------
(* Store *)

\* GenerateFilename and os.Create: the new file is there, still empty.
CreateFile(p) ==
    /\ pc[p] = "idle" /\ clock < MaxTime
    /\ clock' = clock + 1
    /\ name' = [name EXCEPT ![p] = clock']
    /\ files' = files \cup {clock'}
    /\ Goto(p, "encode")
    /\ UNCHANGED <<index, state, whole, idx, todo, began, faults, written, reader>>

\* Mutant: the results never reach the file before it is listed.
EncodeLost(p) ==
    /\ pc[p] = "encode"
    /\ Goto(p, "read")
    /\ UNCHANGED <<clock, disk, local, faults, written, reader>>

EncodeResults(p) ==
    /\ pc[p] = "encode"
    /\ whole' = whole \cup {name[p]}
    /\ written' = written \cup {name[p]}
    /\ Goto(p, "read")
    /\ UNCHANGED <<clock, index, state, files, local, faults, reader>>

\* readIndex: an absent file is the empty map, a torn one an error, which
\* Store and Maintain return.
ReadIndex(p, from, to) ==
    /\ pc[p] = from
    /\ \/ /\ state # "torn"
          /\ idx' = [idx EXCEPT ![p] = index]
          /\ Goto(p, to)
       \/ /\ state = "torn"
          /\ Goto(p, "idle")
          /\ UNCHANGED idx
    /\ UNCHANGED <<clock, disk, name, todo, began, faults, written, reader>>

\* Mutant: the new entry goes into an empty map instead of the one read.
AddEntryAlone(p) ==
    /\ pc[p] = "add" /\ clock < MaxTime
    /\ clock' = clock + 1
    /\ idx' = [idx EXCEPT ![p] = [NoEntry EXCEPT ![name[p]] = clock']]
    /\ index' = NoEntry /\ state' = "torn"
    /\ Goto(p, "writeStore")
    /\ UNCHANGED <<files, whole, name, todo, began, faults, written, reader>>

\* The entry's stamp is a second reading of the clock; then writeIndex
\* opens index.json, which empties it.
AddEntry(p) ==
    /\ pc[p] = "add" /\ clock < MaxTime
    /\ clock' = clock + 1
    /\ idx' = [idx EXCEPT ![p][name[p]] = clock']
    /\ index' = NoEntry /\ state' = "torn"
    /\ Goto(p, "writeStore")
    /\ UNCHANGED <<files, whole, name, todo, began, faults, written, reader>>

\* writeIndex encodes the map; after Store a maintainer calls Maintain,
\* which returns at once when CheckExpiry is zero.
WriteIndex(p) ==
    /\ pc[p] \in {"writeStore", "writeMaintain"}
    /\ index' = idx[p] /\ state' = "ok"
    /\ Goto(p, IF pc[p] = "writeStore" /\ p \in Maintainers /\ Expiry # 0
               THEN "list" ELSE "idle")
    /\ UNCHANGED <<clock, files, whole, local, faults, written, reader>>

-----------------------------------------------------------------------------
(* Maintain *)

ListDir(p) ==
    /\ pc[p] = "list"
    /\ todo' = [todo EXCEPT ![p] = files]
    /\ began' = [began EXCEPT ![p] = clock]
    /\ Goto(p, "readMaintain")
    /\ UNCHANGED <<clock, disk, name, idx, faults, written, reader>>

\* Mutant: a file that is not in the map gets stamp zero, 1970.
ExpiredUnlisted(p, n) == clock - idx[p][n] > Expiry

Expired(p, n) == idx[p][n] # 0 /\ clock - idx[p][n] > Expiry

\* Mutants: the entry of a removed file is kept; the walk stops after the
\* first file that was removed.
SweepKeepsEntry(p) ==
    /\ pc[p] = "sweep" /\ todo[p] # {}
    /\ LET n == Min(todo[p]) IN
       /\ todo' = [todo EXCEPT ![p] = @ \ {n}]
       /\ files' = IF Expired(p, n) THEN files \ {n} ELSE files
       /\ whole' = IF Expired(p, n) THEN whole \ {n} ELSE whole
    /\ UNCHANGED <<clock, index, state, idx, pc, name, began, faults, written, reader>>

SweepOne(p) ==
    /\ pc[p] = "sweep" /\ todo[p] # {}
    /\ LET n == Min(todo[p]) IN
       /\ todo' = [todo EXCEPT ![p] = IF Expired(p, n) THEN {} ELSE @ \ {n}]
       /\ files' = IF Expired(p, n) THEN files \ {n} ELSE files
       /\ whole' = IF Expired(p, n) THEN whole \ {n} ELSE whole
       /\ idx' = IF Expired(p, n) THEN [idx EXCEPT ![p][n] = 0] ELSE idx
    /\ UNCHANGED <<clock, index, state, pc, name, began, faults, written, reader>>

\* One file of the listing, in the listing's order: an expired one is
\* removed from the directory and from the map; if another process was
\* faster, os.Remove fails and Maintain returns its error.
Sweep(p) ==
    /\ pc[p] = "sweep" /\ todo[p] # {}
    /\ LET n == Min(todo[p]) IN
       /\ todo' = [todo EXCEPT ![p] = @ \ {n}]
       /\ \/ ~Expired(p, n) /\ UNCHANGED <<files, whole, idx, pc>>
          \/ /\ Expired(p, n) /\ n \in files
             /\ files' = files \ {n} /\ whole' = whole \ {n}
             /\ idx' = [idx EXCEPT ![p][n] = 0]
             /\ UNCHANGED pc
          \/ /\ Expired(p, n) /\ n \notin files
             /\ Goto(p, "idle")
             /\ UNCHANGED <<files, whole, idx>>
    /\ UNCHANGED <<clock, index, state, name, began, faults, written, reader>>

\* Mutant: index.json is opened, but not written when nothing was removed.
SweepEndsUnwritten(p) ==
    /\ pc[p] = "sweep" /\ todo[p] = {}
    /\ index' = NoEntry /\ state' = "torn"
    /\ Goto(p, IF files = Listed(idx[p]) THEN "idle" ELSE "writeMaintain")
    /\ UNCHANGED <<clock, files, whole, local, faults, written, reader>>

\* The index is written back whether or not a file was removed.
SweepEnds(p) ==
    /\ pc[p] = "sweep" /\ todo[p] = {}
    /\ index' = NoEntry /\ state' = "torn"
    /\ Goto(p, "writeMaintain")
    /\ UNCHANGED <<clock, files, whole, local, faults, written, reader>>

\* The process is killed, or the step it is at fails (a full disk, say) and
\* the operation returns the error: neither cleans anything up, and a
\* restarted process begins again with Store.
Abort(p) ==
    /\ pc[p] # "idle" /\ aborts < MaxAborts
    /\ aborts' = aborts + 1
    /\ cut' = (cut \/ pc[p] \in {"writeStore", "writeMaintain"})
    /\ Goto(p, "idle")
    /\ UNCHANGED <<clock, disk, local, written, reader>>

-----------------------------------------------------------------------------
(* The reader *)

GetIndex ==
    /\ reading = 0
    /\ \/ state = "torn" /\ got' = "indexError" /\ UNCHANGED reading
       \/ reading' \in Listed(index) /\ got' = "nothing"
    /\ UNCHANGED <<clock, disk, pc, local, faults, written>>

Fetch ==
    /\ reading # 0 /\ got = "nothing"
    /\ got' = IF reading \notin files THEN "missing"
              ELSE IF reading \in whole THEN "results" ELSE "undecodable"
    /\ UNCHANGED <<clock, disk, pc, local, faults, written, reading>>

ReaderDone ==
    /\ got # "nothing"
    /\ reading' = 0 /\ got' = "nothing"
    /\ UNCHANGED <<clock, disk, pc, local, faults, written>>

Process(p) ==
    \/ CreateFile(p) \/ EncodeResults(p) \/ ReadIndex(p, "read", "add")
    \/ AddEntry(p) \/ WriteIndex(p)
    \/ ListDir(p) \/ ReadIndex(p, "readMaintain", "sweep")
    \/ Sweep(p) \/ SweepEnds(p) \/ Abort(p)

Next == Tick \/ GetIndex \/ Fetch \/ ReaderDone \/ \E p \in Procs : Process(p)

Spec == Init /\ [][Next]_vars

-----------------------------------------------------------------------------
(* Properties. *)

\* Every variable has its type.
TypeOK ==
    /\ clock \in 0..MaxTime
    /\ index \in Indexes /\ state \in {"absent", "torn", "ok"}
    /\ files \subseteq Names /\ whole \subseteq files
    /\ pc \in [Procs -> PCs]
    /\ name \in [Procs -> 0..MaxTime]
    /\ idx \in [Procs -> Indexes]
    /\ todo \in [Procs -> SUBSET Names]
    /\ began \in [Procs -> 0..MaxTime]
    /\ aborts \in 0..MaxAborts /\ cut \in BOOLEAN /\ written \subseteq Names
    /\ reading \in 0..MaxTime
    /\ got \in {"nothing", "indexError", "missing", "results", "undecodable"}

\* No check file is deleted before it is older than CheckExpiry, whatever
\* the interleaving: not even by a process that works from an old index.
DeletesOnlyExpired ==
    [][\A n \in files \ files' : Expiry # 0 /\ clock - n > Expiry]_vars

\* The index never leads a reader to a half-written check file; a listed
\* file that is missing is one whose age exceeds CheckExpiry.
ReaderFindsWhole ==
    /\ got # "undecodable"
    /\ got = "missing" => clock - reading > Expiry

\* index.json can be decoded unless a process is just writing it, or one was
\* cut short while it did.
TornOnlyByCut ==
    state = "torn" =>
        cut \/ \E p \in Procs : pc[p] \in {"writeStore", "writeMaintain"}

\* Nobody is at work: index and directory agree.
IndexIsDirectory ==
    (\A p \in Procs : pc[p] = "idle") => (state # "torn" /\ Listed(index) = files
                                          /\ whole = files)

\* The age by which Maintain should judge a check file: that of its entry,
\* that of the file when it has no entry and nobody is storing it.
Stale(p, n) ==
    \/ idx[p][n] # 0 /\ began[p] - idx[p][n] > Expiry
    \/ /\ idx[p][n] = 0 /\ began[p] - n > Expiry
       /\ \A q \in Procs : name[q] = n => pc[q] \notin {"encode", "read", "add", "writeStore"}

\* "Check files older than CheckExpiry will be deleted on calls to
\* Maintain()" (the comment on the field): when Maintain has gone through
\* the directory, none is left.
MaintainDeletesOld ==
    [][\A p \in Procs :
          SweepEnds(p) => \A n \in files : ~Stale(p, n)]_vars

\* With one process that is not cut short, the storage keeps its promise to
\* readers.  While index.json is truncated they get an error; whatever is
\* whole in the directory then is what they find again when it is written,
\* and nothing else, so that no entry is lost by writing the index anew.
Promise == INSTANCE CheckFiles WITH
    now       <- clock,
    answering <- state # "torn",
    readable  <- IF state = "torn" THEN whole ELSE Listed(index) \cap whole,
    gone      <- written \ whole,
    MayPause  <- TRUE

KeepsPromise == Promise!Spec
=============================================================================
