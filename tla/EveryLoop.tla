----------------------------- MODULE EveryLoop -----------------------------
(***************************************************************************)
(* Checkup.CheckAndStoreEvery and the CheckAndStore it calls (checkup.go), *)
(* composed with CheckRun: one goroutine performs a round at once and then *)
(* one per tick taken from the ticker's channel.  The channel holds one    *)
(* tick; a tick that finds it full is dropped (package time).  A round is  *)
(* Check, then Storage.Store, then Maintain when the storage has it; any   *)
(* error ends the round, is logged, and the goroutine waits for a tick.    *)
(* The caller may Stop the ticker at any time: the channel is not closed.  *)
(***************************************************************************)
EXTENDS CheckRun

VARIABLES
    checkup,     \* the Checkup the method was called on: its fixed fields
    loop,        \* where the goroutine of CheckAndStoreEvery is
    ticks,       \* number of ticks in the ticker's channel
    stopped,     \* has the caller stopped the ticker
    sinceTick,   \* rounds begun since the ticker last fired (observer)
    sinceStop    \* rounds begun since Stop (observer)

fixed    == <<checkup, stopped>>
observed == <<sinceTick, sinceStop>>
loopVars == <<checkup, loop, ticks, stopped, sinceTick, sinceStop>>
allVars  == <<vars, loopVars>>

Storages     == {"nil", "plain", "maintainer"}
Checkups     == [concurrent : ConcurrencyValues, forced : BOOLEAN,
                 storage : Storages]
TickerBacklog == 2     \* mutant: missed ticks are queued to be made up for
TickerBuffer  == 1     \* capacity of a time.Ticker's channel
CountCap     == 3      \* the observers stop counting here

Counted(n) == IF n < CountCap THEN n + 1 ELSE n

LoopInit ==
    /\ checkup \in Checkups
    /\ loop = "begin" /\ ticks = 0 /\ stopped = FALSE
    /\ sinceTick = 1 /\ sinceStop = 0
    /\ Init /\ concurrent = checkup.concurrent /\ forced = checkup.forced

\* Check is called: fresh slices, channel and WaitGroup, and a copy of the
\* Checkup (the receiver is a value), so that an earlier call left no trace.
CallCheck ==
    /\ concurrent' = checkup.concurrent /\ forced' = checkup.forced
    /\ pc' = "entry" /\ next' = 1 /\ ret' = "none"
    /\ throttle' = 0 /\ wg' = 0 /\ notified' = 0
    /\ work' = [i \in Checkers |-> "unborn"]
    /\ results' = [i \in Checkers |-> "zero"]
    /\ errs' = [i \in Checkers |-> FALSE]

\* CheckAndStore is entered: with no storage it returns an error before any
\* check.
Begin ==
    /\ loop = "begin"
    /\ UNCHANGED <<fixed, ticks, observed>>
    /\ \/ checkup.storage = "nil" /\ loop' = "waiting" /\ UNCHANGED vars
       \/ checkup.storage # "nil" /\ loop' = "checking"
          /\ CallCheck

\* Check runs; its goroutines run whatever the caller does.
RunCheck ==
    /\ \/ loop = "checking" /\ Caller
       \/ \E i \in Checkers : Goroutine(i)
    /\ UNCHANGED loopVars

\* Mutant: the results are stored although Check returned an error.
CheckDoneStores ==
    /\ loop = "checking" /\ pc = "returned"
    /\ loop' = "storing"
    /\ UNCHANGED <<vars, fixed, ticks, observed>>

\* Mutant: an error of Check ends the goroutine.
CheckDoneExits ==
    /\ loop = "checking" /\ pc = "returned"
    /\ loop' = IF ret = "ok" THEN "storing" ELSE "exited"
    /\ UNCHANGED <<vars, fixed, ticks, observed>>

CheckDone ==
    /\ loop = "checking" /\ pc = "returned"
    /\ loop' = IF ret = "ok" THEN "storing" ELSE "waiting"
    /\ UNCHANGED <<vars, fixed, ticks, observed>>

\* c.Storage.Store(results) succeeds or returns an error.
Store ==
    /\ loop = "storing"
    /\ \/ checkup.storage = "maintainer" /\ loop' = "maintaining"
       \/ loop' = "waiting"
    /\ UNCHANGED <<vars, fixed, ticks, observed>>

\* m.Maintain(): its error, if any, is the round's.
Maintain ==
    /\ loop = "maintaining"
    /\ loop' = "waiting"
    /\ UNCHANGED <<vars, fixed, ticks, observed>>

\* for range ticker.C
TakeTick ==
    /\ loop = "waiting" /\ ticks > 0
    /\ ticks' = ticks - 1
    /\ loop' = "begin"
    /\ sinceTick' = Counted(sinceTick)
    /\ sinceStop' = IF stopped THEN Counted(sinceStop) ELSE 0
    /\ UNCHANGED <<vars, fixed>>

\* Mutant: the goroutine ranges over a ticker of its own, not over the one
\* the caller was handed.
FireRegardless ==
    /\ ticks' = IF ticks < TickerBuffer THEN ticks + 1 ELSE ticks
    /\ sinceTick' = 0
    /\ UNCHANGED <<vars, fixed, loop, sinceStop>>

\* An interval has passed.
Fire ==
    /\ ~stopped
    /\ ticks' = IF ticks < TickerBuffer THEN ticks + 1 ELSE ticks
    /\ sinceTick' = 0
    /\ UNCHANGED <<vars, fixed, loop, sinceStop>>

\* The caller calls Stop on the ticker it was handed.
Stop ==
    /\ ~stopped
    /\ stopped' = TRUE
    /\ UNCHANGED <<vars, checkup, loop, ticks, observed>>

Loop == Begin \/ CheckDone \/ Store \/ Maintain \/ TakeTick

\* After Stop the goroutine waits for ever on a channel nobody closes.
Parked == stopped /\ loop = "waiting" /\ ticks = 0 /\ UNCHANGED allVars

LoopNext == RunCheck \/ Loop \/ Fire \/ Stop \/ Parked

\* Goroutines are scheduled, checkers and storage calls return, and the
\* ticker fires until it is stopped.  Nobody has to stop it.
LoopFairness ==
    /\ WF_allVars(loop = "checking" /\ Caller /\ UNCHANGED loopVars)
    /\ \A i \in Checkers : WF_allVars(Goroutine(i) /\ UNCHANGED loopVars)
    /\ WF_allVars(Loop)
    /\ WF_allVars(Fire)

LoopSpec == LoopInit /\ [][LoopNext]_allVars /\ LoopFairness

-----------------------------------------------------------------------------
(* Properties. *)

\* Every variable has its type.
LoopTypeOK ==
    /\ TypeOK
    /\ checkup \in Checkups
    /\ loop \in {"begin", "checking", "storing", "maintaining", "waiting"}
    /\ ticks \in 0..TickerBuffer /\ stopped \in BOOLEAN
    /\ sinceTick \in 0..CountCap /\ sinceStop \in 0..CountCap

\* However long a round takes, no two rounds begin within one interval: the
\* goroutine never works off a backlog of ticks ("It would not be wise to
\* set an interval lower than the time it takes to perform the checks").
OneRoundPerInterval == sinceTick <= 1

\* After Stop at most one more round begins: the one whose tick was already
\* in the channel, or taken from it.
StopIsPrompt == sinceStop <= 1

\* What reaches the storage, and what triggers maintenance, is a whole round
\* of this cycle: every checker has ended without error, so that no slot is
\* written any more, each slot holds a result of this round, and with a forced
\* timestamp every one carries it.  No goroutine of a round is left when the
\* round is over, so none leaks into the next one.
StoresWholeRounds ==
    /\ loop \in {"storing", "maintaining"} =>
          /\ Ended = Checkers /\ Empty(errs)
          /\ \A i \in Checkers :
                results[i] = IF checkup.forced THEN "restamped" ELSE "measured"
    /\ loop # "checking" => Alive = {}

\* A failing checker, storage or maintenance never ends the loop: until the
\* ticker is stopped, rounds keep beginning.
KeepsGoing == []<>(loop = "begin") \/ <>stopped

=============================================================================
