----------------------------- MODULE SqlStorage -----------------------------
(***************************************************************************)
(* The SQL storages (storage/mysql, postgres, sqlite3 and the deprecated   *)
(* sql): a table of check files with the time each was inserted.  Several  *)
(* processes insert rows and delete the old ones, and a reader (cmd/serve) *)
(* lists the table and then asks for a row, each with a connection of its  *)
(* own.  The database executes one statement at a time.                    *)
(*                                                                         *)
(* As in FsStorage a check file is named after a time.  Every reading of   *)
(* the clock differs; timestamp 0 stands for no row.                       *)
(***************************************************************************)
EXTENDS Integers

CONSTANTS
    Procs,         \* the processes that store results
    Maintainers,   \* those of them that also call Maintain
    Expiry,        \* CheckExpiry
    MaxTime,       \* bound on the clock
    MaxFaults      \* bound on failed calls and killed processes

ASSUME MaintainersAssumption == Maintainers \subseteq Procs
ASSUME BoundsAssumption ==
    Expiry \in Nat /\ MaxTime \in Nat /\ MaxFaults \in Nat

Names == 1..MaxTime

VARIABLES
    clock,      \* the last time anyone read
    create,     \* does the configuration ask to create the schema
    table,      \* does the table exist
    timestamp,  \* the timestamp of each row of the table
    pc,         \* where each process is in Store or Maintain
    name,       \* Store's name of the new row
    cutoff,     \* Maintain's ts
    deleted,    \* the rows that were deleted (observer)
    listed,     \* the reader's index
    reading,    \* the name the reader asked for, 0 if none
    got,        \* what it got
    faults      \* number of faults so far

database == <<create, table, timestamp, deleted>>
reader   == <<listed, reading, got>>
vars     == <<clock, database, pc, name, cutoff, reader, faults>>

PCs == {"idle", "insert", "maintain", "delete"}

Rows == {n \in Names : timestamp[n] # 0}

Init ==
    /\ clock = 0
    /\ create \in BOOLEAN /\ table \in BOOLEAN
    /\ timestamp = [n \in Names |-> 0]
    /\ pc = [p \in Procs |-> "idle"]
    /\ name = [p \in Procs |-> 0] /\ cutoff = [p \in Procs |-> 0]
    /\ deleted = {} /\ listed = {} /\ reading = 0 /\ got = "nothing"
    /\ faults = 0

Goto(p, place) == pc' = [pc EXCEPT ![p] = place]

Tick == /\ clock < MaxTime
        /\ clock' = clock + 1
        /\ UNCHANGED <<database, pc, name, cutoff, reader, faults>>

\* dbConnect: with Create, every connection applies the schema, which leaves
\* an existing table as it is.
Connect == table' = (table \/ create) /\ UNCHANGED create

-----------------------------------------------------------------------------
\* Store connects and names the row.
NameRow(p) ==
    /\ pc[p] = "idle" /\ clock < MaxTime
    /\ Connect
    /\ clock' = clock + 1
    /\ name' = [name EXCEPT ![p] = clock']
    /\ Goto(p, "insert")
    /\ UNCHANGED <<timestamp, deleted, cutoff, reader, faults>>

\* What follows Store: Maintain, which returns at once when CheckExpiry is zero.
AfterStore(p) ==
    Goto(p, IF p \in Maintainers /\ Expiry # 0 THEN "maintain" ELSE "idle")

\* Mutant: the timestamp has a coarser unit (Unix instead of UnixNano).
InsertInSeconds(p) ==
    /\ pc[p] = "insert" /\ table /\ clock < MaxTime
    /\ clock' = clock + 1
    /\ timestamp' = [timestamp EXCEPT ![name[p]] = (clock' + 1) \div 2]
    /\ AfterStore(p)
    /\ UNCHANGED <<create, table, deleted, name, cutoff, reader, faults>>

\* INSERT, stamped with another reading of the clock.
Insert(p) ==
    /\ pc[p] = "insert" /\ table /\ clock < MaxTime
    /\ clock' = clock + 1
    /\ timestamp' = [timestamp EXCEPT ![name[p]] = clock']
    /\ AfterStore(p)
    /\ UNCHANGED <<create, table, deleted, name, cutoff, reader, faults>>

\* Mutant: CheckExpiry is not subtracted.
CutoffNow(p) ==
    /\ pc[p] = "maintain" /\ clock < MaxTime
    /\ Connect
    /\ clock' = clock + 1
    /\ cutoff' = [cutoff EXCEPT ![p] = clock']
    /\ Goto(p, "delete")
    /\ UNCHANGED <<timestamp, deleted, name, reader, faults>>

\* Maintain connects and takes the time before which rows are old.
Cutoff(p) ==
    /\ pc[p] = "maintain" /\ clock < MaxTime
    /\ Connect
    /\ clock' = clock + 1
    /\ cutoff' = [cutoff EXCEPT ![p] = clock' - Expiry]
    /\ Goto(p, "delete")
    /\ UNCHANGED <<timestamp, deleted, name, reader, faults>>

\* DELETE FROM checks WHERE timestamp < ts
Delete(p) ==
    /\ pc[p] = "delete" /\ table
    /\ LET old == {n \in Rows : timestamp[n] < cutoff[p]} IN
       /\ timestamp' = [n \in Names |-> IF n \in old THEN 0 ELSE timestamp[n]]
       /\ deleted' = deleted \cup old
    /\ Goto(p, "idle")
    /\ UNCHANGED <<clock, create, table, name, cutoff, reader, faults>>

\* The statement is refused because there is no table.
NoTable(p) ==
    /\ pc[p] \in {"insert", "delete"} /\ ~table
    /\ Goto(p, "idle")
    /\ UNCHANGED <<clock, database, name, cutoff, reader, faults>>

\* A connection or a statement fails, which Store and Maintain return, or
\* the process dies.
Fault(p) ==
    /\ pc[p] # "idle" /\ faults < MaxFaults
    /\ faults' = faults + 1
    /\ Goto(p, "idle")
    /\ UNCHANGED <<clock, database, name, cutoff, reader>>

-----------------------------------------------------------------------------
\* The reader's index.  The error that ends the iteration over the rows early
\* is not looked at: what was read so far passes for the whole.
GetIndex ==
    /\ Connect
    /\ table'
    /\ \/ listed' = Rows /\ UNCHANGED faults
       \/ /\ faults < MaxFaults /\ faults' = faults + 1
          /\ listed' \in SUBSET Rows
    /\ reading' = 0 /\ got' = "nothing"
    /\ UNCHANGED <<clock, timestamp, deleted, pc, name, cutoff>>

\* SELECT results of one name of the index.
Fetch ==
    /\ reading = 0
    /\ Connect
    /\ \E n \in listed :
          /\ reading' = n
          /\ got' = IF n \in Rows THEN "results" ELSE "missing"
    /\ UNCHANGED <<clock, timestamp, deleted, pc, name, cutoff, listed, faults>>

Process(p) ==
    \/ NameRow(p) \/ Insert(p) \/ Cutoff(p) \/ Delete(p)
    \/ NoTable(p) \/ Fault(p)

Next == Tick \/ GetIndex \/ Fetch \/ \E p \in Procs : Process(p)

Spec == Init /\ [][Next]_vars

-----------------------------------------------------------------------------
(* Properties. *)

\* Every variable has its type, there are no rows without a table, and what
\* is about to be deleted was stamped before the expiry.
TypeOK ==
    /\ clock \in 0..MaxTime
    /\ create \in BOOLEAN /\ table \in BOOLEAN
    /\ timestamp \in [Names -> 0..MaxTime] /\ (Rows # {} => table)
    /\ pc \in [Procs -> PCs]
    /\ name \in [Procs -> 0..MaxTime]
    /\ cutoff \in [Procs -> Int]
    /\ \A p \in Procs : pc[p] = "delete" => cutoff[p] <= clock - Expiry
    /\ deleted \subseteq Names /\ listed \subseteq Names
    /\ reading \in 0..MaxTime /\ got \in {"nothing", "results", "missing"}
    /\ faults \in 0..MaxFaults

\* A reader who asks for a check of the index it was given, however old that
\* index and whoever inserted and deleted meanwhile, gets its results, unless
\* the check is older than CheckExpiry.
ReaderFindsStored ==
    got = "missing" => Expiry # 0 /\ clock - reading > Expiry

\* Any number of processes, failing calls included: a check becomes readable
\* once, and is deleted, for good, only when it is older than CheckExpiry.
Promise == INSTANCE CheckFiles WITH
    now <- clock, readable <- Rows, gone <- deleted,
    answering <- TRUE, MayPause <- FALSE

KeepsPromise == Promise!Spec
=============================================================================
