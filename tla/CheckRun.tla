------------------------------ MODULE CheckRun ------------------------------
(***************************************************************************)
(* One call of Checkup.Check (checkup.go): the calling goroutine starts    *)
(* one goroutine per checker, holding back while the `throttle' channel is *)
(* full, waits for the WaitGroup, forces the timestamp if one is           *)
(* configured, and calls the notifiers in order unless a checker failed.   *)
(*                                                                         *)
(* A Checker is what it hands back: a result and possibly an error.  The   *)
(* checkers in Hanging may never hand back anything (no deadline on the    *)
(* network call); every other one eventually returns.                      *)
(***************************************************************************)
EXTENDS Integers, FiniteSets

CONSTANTS
    NumCheckers,               \* len(c.Checkers)
    NumNotifiers,              \* len(c.Notifiers)
    DefaultConcurrentChecks,   \* what a zero ConcurrentChecks stands for
    ConcurrencyValues,         \* the values ConcurrentChecks may be set to
    Hanging                    \* the checkers whose Check may never return

Checkers == 1..NumCheckers

ASSUME CheckersAssumption == NumCheckers \in Nat
ASSUME NotifiersAssumption == NumNotifiers \in Nat
ASSUME DefaultAssumption == DefaultConcurrentChecks \in Nat \ {0}
ASSUME ConcurrencyAssumption == ConcurrencyValues \subseteq Int
ASSUME HangingAssumption == Hanging \subseteq Checkers

VARIABLES
    concurrent,   \* c.ConcurrentChecks in the method's own copy of c
    forced,       \* whether c.Timestamp is set
    pc,           \* where the calling goroutine is
    next,         \* the loop's index into c.Checkers
    throttle,     \* number of tokens in the buffered channel
    wg,           \* the WaitGroup's counter
    work,         \* where the goroutine of each checker is
    results,      \* results[i]: "zero", "measured" or "restamped"
    errs,         \* errs[i]: does checker i's slot hold an error
    notified,     \* how many notifiers have been called
    ret           \* what Check returned

config == <<concurrent, forced>>
slots  == <<results, errs>>
vars   == <<config, pc, next, throttle, wg, work, slots, notified, ret>>

Places    == {"entry", "loop", "launch", "wait", "stamp", "notify", "returned"}
WorkState == {"unborn", "checking", "releasing", "finishing", "gone"}

-----------------------------------------------------------------------------
Init ==
    /\ concurrent \in ConcurrencyValues
    /\ forced \in BOOLEAN
    /\ pc = "entry" /\ next = 1 /\ ret = "none"
    /\ throttle = 0 /\ wg = 0 /\ notified = 0
    /\ work = [i \in Checkers |-> "unborn"]
    /\ results = [i \in Checkers |-> "zero"]
    /\ errs = [i \in Checkers |-> FALSE]

\* The checks on ConcurrentChecks at the head of the method.
Configure ==
    /\ pc = "entry"
    /\ \/ concurrent = 0 /\ concurrent' = DefaultConcurrentChecks
          /\ pc' = "loop" /\ UNCHANGED ret
       \/ concurrent > 0 /\ pc' = "loop" /\ UNCHANGED <<concurrent, ret>>
       \/ concurrent < 0 /\ pc' = "returned" /\ ret' = "misconfigured"
          /\ UNCHANGED concurrent
    /\ UNCHANGED <<forced, next, throttle, wg, work, slots, notified>>

\* Mutants: the channel is one token too large, or one too small.
AcquireLarge ==
    /\ pc = "loop" /\ next \in Checkers
    /\ throttle <= concurrent
    /\ throttle' = throttle + 1
    /\ pc' = "launch"
    /\ UNCHANGED <<config, next, wg, work, slots, notified, ret>>

AcquireSmall ==
    /\ pc = "loop" /\ next \in Checkers
    /\ throttle < concurrent - 1
    /\ throttle' = throttle + 1
    /\ pc' = "launch"
    /\ UNCHANGED <<config, next, wg, work, slots, notified, ret>>

\* throttle <- struct{}{} : blocks while the channel is full.
Acquire ==
    /\ pc = "loop" /\ next \in Checkers
    /\ throttle < concurrent
    /\ throttle' = throttle + 1
    /\ pc' = "launch"
    /\ UNCHANGED <<config, next, wg, work, slots, notified, ret>>

\* Mutant: wg.Add(1) is forgotten.
LaunchUncounted ==
    /\ pc = "launch"
    /\ work' = [work EXCEPT ![next] = "checking"]
    /\ next' = next + 1
    /\ pc' = "loop"
    /\ UNCHANGED <<config, throttle, wg, slots, notified, ret>>

\* wg.Add(1); go func(i, checker) {...}
Launch ==
    /\ pc = "launch"
    /\ wg' = wg + 1
    /\ work' = [work EXCEPT ![next] = "checking"]
    /\ next' = next + 1
    /\ pc' = "loop"
    /\ UNCHANGED <<config, throttle, slots, notified, ret>>

LoopEnds ==
    /\ pc = "loop" /\ next > NumCheckers
    /\ pc' = "wait"
    /\ UNCHANGED <<config, next, throttle, wg, work, slots, notified, ret>>

\* Mutant: the goroutine returns at once when its checker failed.
CheckReturnsEarly(i) ==
    /\ work[i] = "checking"
    /\ results' = [results EXCEPT ![i] = "measured"]
    /\ \E failing \in BOOLEAN :
          /\ errs' = [errs EXCEPT ![i] = failing]
          /\ work' = [work EXCEPT ![i] = IF failing THEN "gone" ELSE "releasing"]
    /\ UNCHANGED <<config, pc, next, throttle, wg, notified, ret>>

\* results[i], errs[i] = checker.Check()
CheckReturns(i) ==
    /\ work[i] = "checking"
    /\ results' = [results EXCEPT ![i] = "measured"]
    /\ \E failing \in BOOLEAN : errs' = [errs EXCEPT ![i] = failing]
    /\ work' = [work EXCEPT ![i] = "releasing"]
    /\ UNCHANGED <<config, pc, next, throttle, wg, notified, ret>>

\* <-throttle
Release(i) ==
    /\ work[i] = "releasing"
    /\ throttle > 0
    /\ throttle' = throttle - 1
    /\ work' = [work EXCEPT ![i] = "finishing"]
    /\ UNCHANGED <<config, pc, next, wg, slots, notified, ret>>

\* wg.Done()
Done(i) ==
    /\ work[i] = "finishing"
    /\ wg' = wg - 1
    /\ work' = [work EXCEPT ![i] = "gone"]
    /\ UNCHANGED <<config, pc, next, throttle, slots, notified, ret>>

\* Mutant: the caller does not wait for the last goroutine.
WaitForAllButOne ==
    /\ pc = "wait" /\ wg <= 1
    /\ pc' = "stamp"
    /\ UNCHANGED <<config, next, throttle, wg, work, slots, notified, ret>>

\* wg.Wait()
WaitReturns ==
    /\ pc = "wait" /\ wg = 0
    /\ pc' = "stamp"
    /\ UNCHANGED <<config, next, throttle, wg, work, slots, notified, ret>>

Empty(errors) == \A i \in Checkers : ~errors[i]

\* Mutant: the errors are judged after the notifiers were called.
StampAndNotify ==
    /\ pc = "stamp"
    /\ results' = IF forced THEN [i \in Checkers |-> "restamped"] ELSE results
    /\ pc' = "notify"
    /\ UNCHANGED <<config, next, throttle, wg, work, errs, notified, ret>>

\* The forced timestamp, then the return of the errors, if there is one.
StampAndJudge ==
    /\ pc = "stamp"
    /\ results' = IF forced THEN [i \in Checkers |-> "restamped"] ELSE results
    /\ \/ Empty(errs) /\ pc' = "notify" /\ UNCHANGED ret
       \/ ~Empty(errs) /\ pc' = "returned" /\ ret' = "errors"
    /\ UNCHANGED <<config, next, throttle, wg, work, errs, notified>>

\* service.Notify(results): an error is logged and the loop goes on.
NotifyNext ==
    /\ pc = "notify" /\ notified < NumNotifiers
    /\ notified' = notified + 1
    /\ UNCHANGED <<config, pc, next, throttle, wg, work, slots, ret>>

\* Mutant: the loop over the notifiers stops after the first error.
ReturnAfterSome ==
    /\ pc = "notify" /\ notified <= NumNotifiers
    /\ pc' = "returned" /\ ret' = "ok"
    /\ UNCHANGED <<config, next, throttle, wg, work, slots, notified>>

ReturnResults ==
    /\ pc = "notify" /\ notified = NumNotifiers
    /\ pc' = "returned" /\ ret' = "ok"
    /\ UNCHANGED <<config, next, throttle, wg, work, slots, notified>>

Caller == \/ Configure \/ Acquire \/ Launch \/ LoopEnds \/ WaitReturns
          \/ StampAndJudge \/ NotifyNext \/ ReturnResults

Goroutine(i) == CheckReturns(i) \/ Release(i) \/ Done(i)

CheckStep == Caller \/ \E i \in Checkers : Goroutine(i)

Returned == pc = "returned" /\ UNCHANGED vars

Next == CheckStep \/ Returned

\* The Go scheduler runs every goroutine that can run; a checker outside
\* Hanging returns (its own timeout or the peer's answer sees to it), one in
\* Hanging may return or not.
Fairness ==
    /\ WF_vars(Caller)
    /\ \A i \in Checkers \ Hanging : WF_vars(CheckReturns(i))
    /\ \A i \in Checkers : WF_vars(Release(i) \/ Done(i))

Spec     == Init /\ [][Next]_vars
FairSpec == Spec /\ Fairness

-----------------------------------------------------------------------------
(* Properties. *)

Checking == {i \in Checkers : work[i] = "checking"}
Holding  == {i \in Checkers : work[i] \in {"checking", "releasing"}}
Alive    == {i \in Checkers : work[i] \in {"checking", "releasing", "finishing"}}
Ended    == {i \in Checkers : work[i] = "gone"}

\* Every variable has its type; in particular neither the channel's length
\* nor the WaitGroup's counter ever goes below zero (the latter panics).
TypeOK ==
    /\ concurrent \in Int /\ forced \in BOOLEAN
    /\ pc \in Places /\ next \in 1..(NumCheckers + 1)
    /\ throttle \in Nat /\ wg \in Nat
    /\ work \in [Checkers -> WorkState]
    /\ results \in [Checkers -> {"zero", "measured", "restamped"}]
    /\ errs \in [Checkers -> BOOLEAN]
    /\ notified \in 0..NumNotifiers
    /\ ret \in {"none", "misconfigured", "errors", "ok"}

\* Never more than ConcurrentChecks checkers are performed at the same time
\* (the doc comment of the field): the token taken before a goroutine is
\* launched is the one it gives back after its check.
AtMostConcurrent == Checking # {} => Cardinality(Checking) <= concurrent

\* A notifier, or a caller who gets no error, sees the whole round: every
\* checker's goroutine has written its slot and ended, no slot holds an
\* error, and with a forced timestamp every result carries it.
WholeRound ==
    (notified > 0 \/ ret = "ok") =>
        /\ Ended = Checkers
        /\ Empty(errs)
        /\ \A i \in Checkers :
              results[i] = IF forced THEN "restamped" ELSE "measured"

\* No goroutine writes into the slices the notifiers are reading or that
\* Check has returned: the slots are final once the WaitGroup let go.
SlotsFrozen == [][(pc \in {"notify", "returned"}) => (slots' = slots)]_vars

\* If every checker returns, so does Check: the caller blocked on a full
\* channel, or on the WaitGroup, is always woken.
Returns ==
    (\A i \in Hanging : []<>(work[i] # "checking")) => <>(pc = "returned")

\* Checkers that may hang cost at most one slot of the throttle each: as long
\* as a slot is left, every other checker is still performed and ends.
HangIsolated ==
    \A i \in Checkers \ Hanging :
        (pc = "loop" /\ concurrent > Cardinality(Hanging)) ~> (work[i] = "gone")

\* The channel and the WaitGroup implement the plain promise of Check.
Promise == INSTANCE CheckPromise WITH
    limit    <- IF concurrent = 0 THEN DefaultConcurrentChecks ELSE concurrent,
    running  <- Checking,
    finished <- {i \in Checkers : work[i] \in {"releasing", "finishing", "gone"}},
    failed   <- {i \in Checkers : errs[i]},
    answer   <- ret

KeepsPromise == Promise!Spec
=============================================================================
