---------------------------- MODULE CheckPromise ----------------------------
(***************************************************************************)
(* What one call of Checkup.Check promises to its caller, with neither     *)
(* channel, WaitGroup nor loop: every checker is performed once, at most   *)
(* `limit' of them at a time; the notifiers hear of the results only when  *)
(* every checker has finished and none has failed; the call returns after  *)
(* that, with an error exactly when a checker failed, or at once when the  *)
(* limit is negative (checkup.go, "invalid value for ConcurrentChecks").   *)
(***************************************************************************)
EXTENDS Integers, FiniteSets

CONSTANTS
    Checkers,        \* the configured health checks
    NumNotifiers     \* how many notifiers are configured

VARIABLES
    limit,           \* concurrent checks allowed by the configuration
    running,         \* the checkers being performed
    finished,        \* the checkers that have returned
    failed,          \* those that returned an error
    notified,        \* how many notifiers have been called
    answer           \* what Check returned: "none" while it runs

vars == <<limit, running, finished, failed, notified, answer>>

Init == /\ limit \in Int
        /\ running = {} /\ finished = {} /\ failed = {}
        /\ notified = 0
        /\ answer = "none"

Refuse == /\ limit < 0 /\ answer = "none"
          /\ answer' = "misconfigured"
          /\ UNCHANGED <<limit, running, finished, failed, notified>>

Start(c) == /\ c \notin running \cup finished
            /\ Cardinality(running) < limit
            /\ running' = running \cup {c}
            /\ UNCHANGED <<limit, finished, failed, notified, answer>>

Finish(c) == /\ c \in running
             /\ running' = running \ {c}
             /\ finished' = finished \cup {c}
             /\ failed' \in {failed, failed \cup {c}}
             /\ UNCHANGED <<limit, notified, answer>>

Notify == /\ finished = Checkers /\ failed = {}
          /\ answer = "none" /\ notified < NumNotifiers
          /\ notified' = notified + 1
          /\ UNCHANGED <<limit, running, finished, failed, answer>>

Return == /\ finished = Checkers /\ answer = "none" /\ limit >= 0
          /\ \/ failed # {} /\ answer' = "errors"
             \/ failed = {} /\ notified = NumNotifiers /\ answer' = "ok"
          /\ UNCHANGED <<limit, running, finished, failed, notified>>

Next == \/ Refuse \/ Notify \/ Return
        \/ \E c \in Checkers : Start(c) \/ Finish(c)

Spec == Init /\ [][Next]_vars
=============================================================================
