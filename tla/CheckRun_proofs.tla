--------------------------- MODULE CheckRun_proofs ---------------------------
(***************************************************************************)
(* Proofs about CheckRun, for every number of checkers and notifiers and   *)
(* every value of ConcurrentChecks: the inductive invariant IInv, what     *)
(* follows from it, and that CheckRun implements CheckPromise.  After      *)
(* that, proofs about EveryLoop, which extends CheckRun.                   *)
(***************************************************************************)
EXTENDS EveryLoop, FiniteSetTheorems, TLAPS

\* A goroutine exists exactly for the checkers the loop has passed.
Spawned == \A i \in Checkers : (work[i] = "unborn") <=> (i >= next)

\* The channel holds one token for every goroutine that has not given its
\* token back, and one for the goroutine about to be launched.
ThrottleCounts ==
    throttle = Cardinality(Holding) + (IF pc = "launch" THEN 1 ELSE 0)

\* The WaitGroup counts the goroutines that have not called Done.
WgCounts == wg = Cardinality(Alive)

WithinCapacity == throttle > 0 => throttle <= concurrent

\* What is known of the round at each place of the caller.
Stage ==
    /\ pc = "entry" => next = 1
    /\ pc \notin {"entry", "returned"} => concurrent > 0
    /\ pc = "launch" => next \in Checkers
    /\ (pc \in {"wait", "stamp", "notify"} \/ ret \in {"ok", "errors"})
          => next = NumCheckers + 1
    /\ (pc \in {"stamp", "notify"} \/ ret \in {"ok", "errors"})
          => Ended = Checkers
    /\ (ret = "none") <=> (pc # "returned")
    /\ ret = "misconfigured" => concurrent < 0 /\ next = 1
    /\ ret \in {"ok", "errors"} => concurrent > 0

\* What the slots hold.
Slots ==
    /\ \A i \in Checkers : work[i] \in {"unborn", "checking"}
          => results[i] = "zero" /\ errs[i] = FALSE
    /\ \A i \in Checkers :
          work[i] \notin {"unborn", "checking"} => results[i] # "zero"
    /\ pc \in {"entry", "loop", "launch", "wait", "stamp"}
          => \A i \in Checkers : results[i] # "restamped"
    /\ (pc = "notify" \/ ret = "ok") =>
          /\ Empty(errs)
          /\ \A i \in Checkers :
                results[i] = IF forced THEN "restamped" ELSE "measured"
    /\ notified > 0 => pc = "notify" \/ ret = "ok"
    /\ ret = "errors" => ~Empty(errs)
    /\ ret = "ok" => notified = NumNotifiers

IInv == /\ TypeOK /\ Spawned /\ ThrottleCounts /\ WgCounts
        /\ WithinCapacity /\ Stage /\ Slots

-----------------------------------------------------------------------------
(* The sets that are counted. *)

LEMMA CheckersFinite == IsFiniteSet(Checkers)
BY FS_Interval, CheckersAssumption DEF Checkers

LEMMA CountedFinite ==
    /\ IsFiniteSet(Holding) /\ Cardinality(Holding) \in Nat
    /\ IsFiniteSet(Alive) /\ Cardinality(Alive) \in Nat
<1>1. Holding \in SUBSET Checkers /\ Alive \in SUBSET Checkers
  BY DEF Holding, Alive
<1>2. IsFiniteSet(Holding) /\ IsFiniteSet(Alive)
  BY <1>1, CheckersFinite, FS_Subset
<1> QED  BY <1>2, FS_CardinalityType

\* A goroutine that is launched is one more that holds a token.
LEMMA LaunchCounts ==
    ASSUME TypeOK, Spawned, next \in Checkers, Launch
    PROVE  /\ Cardinality(Holding') = Cardinality(Holding) + 1
           /\ Cardinality(Alive') = Cardinality(Alive) + 1
<1>1. work[next] = "unborn"
  BY DEF Spawned, Checkers
<1>2. Holding' = Holding \cup {next} /\ next \notin Holding
  BY <1>1 DEF Holding, Launch, TypeOK
<1>3. Alive' = Alive \cup {next} /\ next \notin Alive
  BY <1>1 DEF Alive, Launch, TypeOK
<1> QED  BY <1>2, <1>3, CountedFinite, FS_AddElement

LEMMA ReleaseCounts ==
    ASSUME TypeOK, NEW i \in Checkers, Release(i)
    PROVE  /\ Cardinality(Holding') = Cardinality(Holding) - 1
           /\ Cardinality(Holding) > 0
           /\ Alive' = Alive
<1>1. Holding' = Holding \ {i} /\ i \in Holding
  BY DEF Holding, Release, TypeOK
<1>2. Alive' = Alive
  BY DEF Alive, Release, TypeOK
<1>3. Cardinality(Holding') = Cardinality(Holding) - 1
  BY <1>1, CountedFinite, FS_RemoveElement
<1>4. Cardinality(Holding) # 0
  BY <1>1, CountedFinite, FS_EmptySet
<1> QED  BY <1>2, <1>3, <1>4, CountedFinite

LEMMA DoneCounts ==
    ASSUME TypeOK, NEW i \in Checkers, Done(i)
    PROVE  /\ Cardinality(Alive') = Cardinality(Alive) - 1
           /\ Cardinality(Alive) > 0
           /\ Holding' = Holding
<1>1. Alive' = Alive \ {i} /\ i \in Alive
  BY DEF Alive, Done, TypeOK
<1>2. Holding' = Holding
  BY DEF Holding, Done, TypeOK
<1>3. Cardinality(Alive') = Cardinality(Alive) - 1
  BY <1>1, CountedFinite, FS_RemoveElement
<1>4. Cardinality(Alive) # 0
  BY <1>1, CountedFinite, FS_EmptySet
<1> QED  BY <1>2, <1>3, <1>4, CountedFinite

LEMMA CheckReturnsCounts ==
    ASSUME TypeOK, NEW i \in Checkers, CheckReturns(i)
    PROVE  Holding' = Holding /\ Alive' = Alive
BY DEF Holding, Alive, CheckReturns, TypeOK

\* Steps that move no goroutine count the same.
LEMMA SameCounts ==
    ASSUME work' = work
    PROVE  Holding' = Holding /\ Alive' = Alive
BY DEF Holding, Alive

\* When nobody is counted and everybody was spawned, everybody has ended.
LEMMA NobodyAlive ==
    ASSUME TypeOK, Spawned, WgCounts, wg = 0, next = NumCheckers + 1
    PROVE  Ended = Checkers
<1>1. Alive = {}
  BY CountedFinite, FS_EmptySet DEF WgCounts
<1>2. ASSUME NEW i \in Checkers PROVE work[i] = "gone"
  <2>1. i < next
    BY CheckersAssumption DEF Checkers
  <2>2. work[i] # "unborn"
    BY <2>1, CheckersAssumption DEF Spawned, Checkers
  <2>3. work[i] \notin {"checking", "releasing", "finishing"}
    BY <1>1 DEF Alive
  <2> QED  BY <2>2, <2>3 DEF TypeOK, WorkState
<1> QED  BY <1>2 DEF Ended

-----------------------------------------------------------------------------
(* The invariant. *)

LEMMA InitInvariant == Init => IInv
<1> SUFFICES ASSUME Init PROVE IInv
  OBVIOUS
<1> USE CheckersAssumption, NotifiersAssumption, ConcurrencyAssumption
<1>1. TypeOK
  BY DEF Init, TypeOK, Places, WorkState, Checkers
<1>2. Spawned
  BY DEF Init, Spawned, Checkers
<1>3. Holding = {} /\ Alive = {}
  BY DEF Init, Holding, Alive
<1>4. ThrottleCounts /\ WgCounts
  BY <1>3, FS_EmptySet DEF Init, ThrottleCounts, WgCounts
<1>5. WithinCapacity /\ Stage
  BY DEF Init, WithinCapacity, Stage
<1>6. Slots
  BY DEF Init, Slots
<1> QED  BY <1>1, <1>2, <1>4, <1>5, <1>6 DEF IInv

LEMMA NextInvariant == IInv /\ [Next]_vars => IInv'
<1> SUFFICES ASSUME IInv, [Next]_vars PROVE IInv'
  OBVIOUS
<1> USE CheckersAssumption, NotifiersAssumption, DefaultAssumption
<1>0. TypeOK /\ Spawned /\ ThrottleCounts /\ WgCounts /\ WithinCapacity /\ Stage /\ Slots
  BY DEF IInv
<1>1. CASE Configure
  <2>1. TypeOK'
    BY <1>0, <1>1 DEF TypeOK, Configure, slots, Places
  <2>2. Spawned' /\ ThrottleCounts' /\ WgCounts'
    BY <1>0, <1>1, SameCounts DEF Spawned, ThrottleCounts, WgCounts, Configure, slots
  <2>3. throttle = 0
    <3>1. Holding = {}
      BY <1>0, <1>1 DEF Configure, Stage, Spawned, Holding, Checkers
    <3> QED  BY <1>0, <1>1, <3>1, FS_EmptySet DEF ThrottleCounts, Configure
  <2>4. WithinCapacity'
    BY <2>3, <1>1 DEF Configure, WithinCapacity
  <2>5. Stage'
    BY <1>0, <1>1 DEF Configure, Stage, Ended, TypeOK, slots
  <2>6. Slots'
    BY <1>0, <1>1 DEF Configure, Slots, Stage, TypeOK, slots, Empty
  <2> QED  BY <2>1, <2>2, <2>4, <2>5, <2>6 DEF IInv
<1>2. CASE Acquire
  <2>1. TypeOK'
    BY <1>0, <1>2 DEF TypeOK, Acquire, slots, config, Places
  <2>2. Spawned' /\ ThrottleCounts' /\ WgCounts'
    BY <1>0, <1>2, SameCounts, CountedFinite
       DEF Spawned, ThrottleCounts, WgCounts, Acquire, slots, config
  <2>3. WithinCapacity' /\ Stage'
    BY <1>0, <1>2 DEF Acquire, WithinCapacity, Stage, TypeOK, config, slots
  <2>4. Slots'
    BY <1>0, <1>2 DEF Acquire, Slots, Stage, TypeOK, config, slots, Empty
  <2> QED  BY <2>1, <2>2, <2>3, <2>4 DEF IInv
<1>3. CASE Launch
  <2>0. next \in Checkers /\ work[next] = "unborn"
    BY <1>0, <1>3 DEF Launch, Stage, Spawned, Checkers
  <2>1. TypeOK'
    BY <1>0, <1>3, <2>0 DEF TypeOK, Launch, slots, config, Places, WorkState, Checkers
  <2>2. Spawned'
    BY <1>0, <1>3, <2>0 DEF Spawned, Launch, TypeOK, Checkers
  <2>3. ThrottleCounts' /\ WgCounts'
    BY <1>0, <1>3, <2>0, LaunchCounts, CountedFinite DEF ThrottleCounts, WgCounts, Launch, TypeOK
  <2>4. WithinCapacity' /\ Stage'
    BY <1>0, <1>3 DEF Launch, WithinCapacity, Stage, TypeOK, config, slots
  <2>5. Slots'
    BY <1>0, <1>3, <2>0 DEF Launch, Slots, Stage, TypeOK, config, slots, Empty
  <2> QED  BY <2>1, <2>2, <2>3, <2>4, <2>5 DEF IInv
<1>4. CASE LoopEnds
  <2>1. TypeOK'
    BY <1>0, <1>4 DEF TypeOK, LoopEnds, slots, config, Places
  <2>2. Spawned' /\ ThrottleCounts' /\ WgCounts'
    BY <1>0, <1>4, SameCounts DEF Spawned, ThrottleCounts, WgCounts, LoopEnds, slots, config
  <2>3. WithinCapacity' /\ Stage'
    BY <1>0, <1>4 DEF LoopEnds, WithinCapacity, Stage, TypeOK, config, slots
  <2>4. Slots'
    BY <1>0, <1>4 DEF LoopEnds, Slots, Stage, TypeOK, config, slots, Empty
  <2> QED  BY <2>1, <2>2, <2>3, <2>4 DEF IInv
<1>5. CASE WaitReturns
  <2>1. TypeOK'
    BY <1>0, <1>5 DEF TypeOK, WaitReturns, slots, config, Places
  <2>2. Spawned' /\ ThrottleCounts' /\ WgCounts'
    BY <1>0, <1>5, SameCounts DEF Spawned, ThrottleCounts, WgCounts, WaitReturns, slots, config
  <2>3. Ended = Checkers
    BY <1>0, <1>5, NobodyAlive DEF WaitReturns, Stage
  <2>4. WithinCapacity' /\ Stage'
    BY <1>0, <1>5, <2>3 DEF WaitReturns, WithinCapacity, Stage, TypeOK, config, slots, Ended
  <2>5. Slots'
    BY <1>0, <1>5 DEF WaitReturns, Slots, Stage, TypeOK, config, slots, Empty
  <2> QED  BY <2>1, <2>2, <2>4, <2>5 DEF IInv
<1>6. CASE StampAndJudge
  <2>0. \A i \in Checkers : work[i] = "gone"
    BY <1>0, <1>6 DEF StampAndJudge, Stage, Ended
  <2>1. TypeOK'
    BY <1>0, <1>6 DEF TypeOK, StampAndJudge, slots, config, Places
  <2>2. Spawned' /\ ThrottleCounts' /\ WgCounts'
    BY <1>0, <1>6, SameCounts DEF Spawned, ThrottleCounts, WgCounts, StampAndJudge, slots, config
  <2>3. WithinCapacity' /\ Stage'
    BY <1>0, <1>6 DEF StampAndJudge, WithinCapacity, Stage, TypeOK, config, slots, Ended
  <2>4. \A i \in Checkers : results[i] = "measured"
    BY <1>0, <1>6, <2>0 DEF StampAndJudge, Slots, TypeOK
  <2>5. \A i \in Checkers : results'[i] = IF forced THEN "restamped" ELSE "measured"
    BY <1>6, <2>4 DEF StampAndJudge
  <2>6. Slots'
    BY <1>0, <1>6, <2>0, <2>5 DEF StampAndJudge, Slots, Stage, TypeOK, config, slots, Empty
  <2> QED  BY <2>1, <2>2, <2>3, <2>6 DEF IInv
<1>7. CASE NotifyNext
  <2>1. TypeOK'
    BY <1>0, <1>7 DEF TypeOK, NotifyNext, slots, config, Places
  <2>2. Spawned' /\ ThrottleCounts' /\ WgCounts'
    BY <1>0, <1>7, SameCounts DEF Spawned, ThrottleCounts, WgCounts, NotifyNext, slots, config
  <2>3. WithinCapacity' /\ Stage'
    BY <1>0, <1>7 DEF NotifyNext, WithinCapacity, Stage, TypeOK, config, slots, Ended
  <2>4. Slots'
    BY <1>0, <1>7 DEF NotifyNext, Slots, Stage, TypeOK, config, slots, Empty
  <2> QED  BY <2>1, <2>2, <2>3, <2>4 DEF IInv
<1>8. CASE ReturnResults
  <2>1. TypeOK'
    BY <1>0, <1>8 DEF TypeOK, ReturnResults, slots, config, Places
  <2>2. Spawned' /\ ThrottleCounts' /\ WgCounts'
    BY <1>0, <1>8, SameCounts DEF Spawned, ThrottleCounts, WgCounts, ReturnResults, slots, config
  <2>3. WithinCapacity' /\ Stage'
    BY <1>0, <1>8 DEF ReturnResults, WithinCapacity, Stage, TypeOK, config, slots, Ended
  <2>4. Slots'
    BY <1>0, <1>8 DEF ReturnResults, Slots, Stage, TypeOK, config, slots, Empty
  <2> QED  BY <2>1, <2>2, <2>3, <2>4 DEF IInv
<1>9. ASSUME NEW i \in Checkers, CheckReturns(i) PROVE IInv'
  <2>1. TypeOK'
    BY <1>0, <1>9 DEF TypeOK, CheckReturns, slots, config, WorkState
  <2>2. Spawned'
    BY <1>0, <1>9 DEF Spawned, CheckReturns, TypeOK
  <2>3. ThrottleCounts' /\ WgCounts'
    BY <1>0, <1>9, CheckReturnsCounts DEF ThrottleCounts, WgCounts, CheckReturns
  <2>4. i \notin Ended
    BY <1>9 DEF CheckReturns, Ended
  <2>5. WithinCapacity' /\ Stage'
    BY <1>0, <1>9, <2>4 DEF CheckReturns, WithinCapacity, Stage, TypeOK, config, slots
  <2>6. Slots'
    BY <1>0, <1>9, <2>4 DEF CheckReturns, Slots, Stage, TypeOK, config, slots, Empty
  <2> QED  BY <2>1, <2>2, <2>3, <2>5, <2>6 DEF IInv
<1>10. ASSUME NEW i \in Checkers, Release(i) PROVE IInv'
  <2>1. TypeOK'
    BY <1>0, <1>10 DEF TypeOK, Release, slots, config, WorkState
  <2>2. Spawned'
    BY <1>0, <1>10 DEF Spawned, Release, TypeOK
  <2>3. ThrottleCounts' /\ WgCounts'
    <3>1. /\ Cardinality(Holding') = Cardinality(Holding) - 1
          /\ Alive' = Alive
      BY <1>0, <1>10, ReleaseCounts
    <3>2. throttle' = throttle - 1 /\ pc' = pc /\ wg' = wg
      BY <1>10 DEF Release
    <3> QED  BY <1>0, <3>1, <3>2, CountedFinite DEF ThrottleCounts, WgCounts
  <2>4. i \notin Ended
    BY <1>10 DEF Release, Ended
  <2>5. WithinCapacity' /\ Stage'
    BY <1>0, <1>10, <2>4 DEF Release, WithinCapacity, Stage, TypeOK, config, slots
  <2>6. Slots'
    BY <1>0, <1>10 DEF Release, Slots, Stage, TypeOK, config, slots, Empty
  <2> QED  BY <2>1, <2>2, <2>3, <2>5, <2>6 DEF IInv
<1>11. ASSUME NEW i \in Checkers, Done(i) PROVE IInv'
  <2>1. TypeOK'
    <3>1. wg' \in Nat
      <4>1. Cardinality(Alive) > 0
        BY <1>0, <1>11, DoneCounts
      <4>2. wg' = wg - 1
        BY <1>11 DEF Done
      <4> QED  BY <1>0, <4>1, <4>2, CountedFinite DEF WgCounts
    <3> QED  BY <1>0, <1>11, <3>1 DEF TypeOK, Done, slots, config, WorkState
  <2>2. Spawned'
    BY <1>0, <1>11 DEF Spawned, Done, TypeOK
  <2>3. ThrottleCounts' /\ WgCounts'
    BY <1>0, <1>11, DoneCounts, CountedFinite DEF ThrottleCounts, WgCounts, Done
  <2>4. i \notin Ended
    BY <1>11 DEF Done, Ended
  <2>5. WithinCapacity' /\ Stage'
    BY <1>0, <1>11, <2>4 DEF Done, WithinCapacity, Stage, TypeOK, config, slots
  <2>6. Slots'
    BY <1>0, <1>11 DEF Done, Slots, Stage, TypeOK, config, slots, Empty
  <2> QED  BY <2>1, <2>2, <2>3, <2>5, <2>6 DEF IInv
<1>12. CASE UNCHANGED vars
  BY <1>0, <1>12, SameCounts
     DEF IInv, vars, config, slots, TypeOK, Spawned, ThrottleCounts, WgCounts,
         WithinCapacity, Stage, Slots, Ended, Empty
<1> QED
  BY <1>1, <1>2, <1>3, <1>4, <1>5, <1>6, <1>7, <1>8, <1>9, <1>10, <1>11, <1>12
     DEF Next, CheckStep, Caller, Goroutine, Returned

\* IInv is an invariant of every behaviour of Check.
THEOREM Invariance == Spec => []IInv
<1>1. Init => IInv
  BY InitInvariant
<1>2. IInv /\ [Next]_vars => IInv'
  BY NextInvariant
<1> QED  BY <1>1, <1>2, PTL DEF Spec

-----------------------------------------------------------------------------
(* What follows from the invariant. *)

\* In every behaviour each variable keeps its type: the WaitGroup's counter
\* and the channel's length never go below zero.
THEOREM TypeCorrect == Spec => []TypeOK
<1>1. IInv => TypeOK
  BY DEF IInv
<1> QED  BY <1>1, Invariance, PTL

\* No more than ConcurrentChecks checkers are ever performed at once.
THEOREM ConcurrencyBounded == Spec => []AtMostConcurrent
<1>1. IInv => AtMostConcurrent
  <2> SUFFICES ASSUME IInv, Checking # {}
               PROVE  Cardinality(Checking) <= concurrent
    BY DEF AtMostConcurrent
  <2>1. Checking \in SUBSET Holding
    BY DEF Checking, Holding
  <2>2. Cardinality(Checking) <= Cardinality(Holding) /\ IsFiniteSet(Checking)
    BY <2>1, CountedFinite, FS_Subset
  <2>3. Cardinality(Checking) \in Nat /\ Cardinality(Checking) # 0
    BY <2>2, FS_CardinalityType, FS_EmptySet
  <2>4. Cardinality(Holding) <= throttle
    BY CountedFinite DEF IInv, ThrottleCounts
  <2>5. throttle > 0 /\ throttle <= concurrent
    BY <2>2, <2>3, <2>4, CountedFinite DEF IInv, WithinCapacity, TypeOK
  <2> QED  BY <2>2, <2>3, <2>4, <2>5, CountedFinite DEF IInv, TypeOK
<1> QED  BY <1>1, Invariance, PTL

\* Notifiers, and callers that get no error, see a whole round without error.
THEOREM RoundIsWhole == Spec => []WholeRound
<1>1. IInv => WholeRound
  BY DEF IInv, WholeRound, Stage, Slots
<1> QED  BY <1>1, Invariance, PTL

\* The slots are final once notifiers or the caller can see them.
THEOREM FrozenSlots == Spec => SlotsFrozen
<1>1. IInv /\ [Next]_vars => [(pc \in {"notify", "returned"}) => (slots' = slots)]_vars
  <2> SUFFICES ASSUME IInv, Next, pc \in {"notify", "returned"}
               PROVE  slots' = slots
    BY DEF vars
  <2>1. ASSUME NEW i \in Checkers PROVE work[i] \in {"unborn", "gone"}
    <3>1. CASE Ended = Checkers
      BY <3>1 DEF Ended
    <3>2. CASE ret = "misconfigured"
      BY <3>2 DEF IInv, Stage, Spawned, Checkers
    <3> QED  BY <3>1, <3>2 DEF IInv, Stage, TypeOK
  <2>2. \A i \in Checkers : ~Goroutine(i)
    BY <2>1 DEF Goroutine, CheckReturns, Release, Done
  <2> QED
    BY <2>2 DEF Next, CheckStep, Caller, Configure, Acquire, Launch, LoopEnds,
                WaitReturns, StampAndJudge, NotifyNext, ReturnResults, Returned,
                vars, slots
<1> QED  BY <1>1, Invariance, PTL DEF Spec, SlotsFrozen

-----------------------------------------------------------------------------
(* CheckRun implements CheckPromise. *)

Finished == {i \in Checkers : work[i] \in {"releasing", "finishing", "gone"}}
Failed   == {i \in Checkers : errs[i]}
Limit    == IF concurrent = 0 THEN DefaultConcurrentChecks ELSE concurrent

LEMMA InitRefines == Init => Promise!Init
<1> SUFFICES ASSUME Init PROVE Promise!Init
  OBVIOUS
<1>1. Limit \in Int
  BY ConcurrencyAssumption, DefaultAssumption DEF Init, Limit
<1>2. Checking = {} /\ Finished = {} /\ Failed = {}
  BY DEF Init, Checking, Finished, Failed
<1> QED  BY <1>1, <1>2 DEF Init, Promise!Init, Limit, Finished, Failed

\* A step that neither starts nor ends a check, calls no notifier and does
\* not return is invisible in the promise.
LEMMA Invisible ==
    ASSUME Checking' = Checking, Finished' = Finished, Failed' = Failed,
           Limit' = Limit, notified' = notified, ret' = ret
    PROVE  UNCHANGED Promise!vars
BY DEF Promise!vars, Finished, Failed, Limit

LEMMA SameWorkSameSets ==
    ASSUME work' = work, errs' = errs
    PROVE  Checking' = Checking /\ Finished' = Finished /\ Failed' = Failed
BY DEF Checking, Finished, Failed

\* Once every goroutine has ended the promise sees all checks finished.
LEMMA EndedFinished ==
    ASSUME Ended = Checkers
    PROVE  Finished = Checkers /\ (Empty(errs) <=> Failed = {})
BY DEF Ended, Finished, Failed, Empty

LEMMA LaunchStarts ==
    ASSUME IInv, Launch
    PROVE  Promise!Start(next)
<1>1. next \in Checkers /\ work[next] = "unborn"
  BY DEF IInv, Launch, Stage, Spawned, Checkers
<1>2. Checking' = Checking \cup {next} /\ Finished' = Finished
  BY <1>1 DEF IInv, TypeOK, Launch, Checking, Finished
<1>3. next \notin Checking \cup Finished
  BY <1>1 DEF Checking, Finished
<1>4. Cardinality(Checking) < Limit
  <2>1. Checking \in SUBSET Holding
    BY DEF Checking, Holding
  <2>2. Cardinality(Checking) <= Cardinality(Holding) /\ IsFiniteSet(Checking)
    BY <2>1, CountedFinite, FS_Subset
  <2>3. Cardinality(Checking) \in Nat
    BY <2>2, FS_CardinalityType
  <2>4. throttle = Cardinality(Holding) + 1 /\ throttle \in Nat /\ concurrent \in Int
    BY DEF IInv, ThrottleCounts, Launch, TypeOK
  <2>5. throttle > 0 /\ throttle <= concurrent
    BY <2>4, CountedFinite DEF IInv, WithinCapacity
  <2> QED  BY <2>2, <2>3, <2>4, <2>5, CountedFinite DEF Limit
<1>5. Promise!Cardinality(Checking) = Cardinality(Checking)
  BY DEF Promise!Cardinality, Cardinality
<1> QED
  BY <1>2, <1>3, <1>4, <1>5
     DEF Promise!Start, Launch, slots, config, Limit, Finished, Failed

LEMMA CheckReturnsFinishes ==
    ASSUME IInv, NEW i \in Checkers, CheckReturns(i)
    PROVE  Promise!Finish(i)
<1>1. i \in Checking /\ Checking' = Checking \ {i} /\ Finished' = Finished \cup {i}
  BY DEF IInv, TypeOK, CheckReturns, Checking, Finished
<1>2. PICK failing \in BOOLEAN : errs' = [errs EXCEPT ![i] = failing]
  BY DEF CheckReturns
<1>3. errs[i] = FALSE /\ errs \in [Checkers -> BOOLEAN]
  BY DEF IInv, Slots, CheckReturns, TypeOK
<1>4. Failed' \in {Failed, Failed \cup {i}}
  <2>1. CASE failing = TRUE
    <3>1. Failed' = Failed \cup {i}
      BY <1>2, <1>3, <2>1 DEF Failed
    <3> QED  BY <3>1
  <2>2. CASE failing = FALSE
    <3>1. Failed' = Failed
      BY <1>2, <1>3, <2>2 DEF Failed
    <3> QED  BY <3>1
  <2> QED  BY <2>1, <2>2, <1>2
<1> QED
  BY <1>1, <1>4 DEF Promise!Finish, CheckReturns, config, Limit, Finished, Failed

LEMMA StepRefines == IInv /\ [Next]_vars => [Promise!Next]_(Promise!vars)
<1> SUFFICES ASSUME IInv, [Next]_vars
             PROVE  Promise!Next \/ UNCHANGED Promise!vars
  OBVIOUS
<1> USE DefaultAssumption
<1>1. CASE Configure
  <2>1. Checking' = Checking /\ Finished' = Finished /\ Failed' = Failed
    BY <1>1, SameWorkSameSets DEF Configure, slots
  <2>2. CASE concurrent >= 0
    <3>1. ret' = ret /\ notified' = notified
      BY <1>1, <2>2 DEF Configure, IInv, TypeOK
    <3>2. CASE concurrent = 0
      <4>1. concurrent' = DefaultConcurrentChecks
        BY <1>1, <3>2 DEF Configure
      <4>2. Limit' = Limit
        BY <3>2, <4>1 DEF Limit
      <4> QED  BY <2>1, <3>1, <4>2, Invisible
    <3>3. CASE concurrent # 0
      <4>1. concurrent' = concurrent
        BY <1>1, <3>3 DEF Configure
      <4>2. Limit' = Limit
        BY <4>1 DEF Limit
      <4> QED  BY <2>1, <3>1, <4>2, Invisible
    <3> QED  BY <3>2, <3>3
  <2>3. CASE concurrent < 0
    <3>0. concurrent' = concurrent /\ ret' = "misconfigured" /\ notified' = notified
      BY <1>1, <2>3 DEF Configure, IInv, TypeOK
    <3>1. /\ Limit < 0 /\ Limit' = Limit
          /\ ret = "none" /\ ret' = "misconfigured" /\ notified' = notified
      BY <1>1, <2>3, <3>0 DEF Configure, Limit, IInv, TypeOK, Stage
    <3>2. Promise!Refuse
      BY <2>1, <3>1 DEF Promise!Refuse, Limit, Finished, Failed
    <3> QED  BY <3>2 DEF Promise!Next
  <2> QED  BY <2>2, <2>3 DEF IInv, TypeOK
<1>2. CASE Acquire \/ LoopEnds \/ WaitReturns
  <2>1. /\ work' = work /\ errs' = errs /\ Limit' = Limit
        /\ notified' = notified /\ ret' = ret
    BY <1>2 DEF Acquire, LoopEnds, WaitReturns, config, slots, Limit
  <2> QED  BY <2>1, SameWorkSameSets, Invisible
<1>3. CASE Launch
  <2>1. next \in Checkers
    BY <1>3 DEF IInv, Stage, Launch
  <2> QED  BY <1>3, <2>1, LaunchStarts DEF Promise!Next
<1>4. CASE StampAndJudge
  <2>1. /\ Checking' = Checking /\ Finished' = Finished /\ Failed' = Failed
        /\ Limit' = Limit /\ notified' = notified
    BY <1>4, SameWorkSameSets DEF StampAndJudge, config, Limit
  <2>2. Finished = Checkers /\ (Empty(errs) <=> Failed = {})
    BY <1>4, EndedFinished DEF StampAndJudge, IInv, Stage
  <2>3. CASE Empty(errs)
    BY <1>4, <2>1, <2>3, Invisible DEF StampAndJudge
  <2>4. CASE ~Empty(errs)
    <3>1. ret = "none" /\ Limit >= 0
      BY <1>4 DEF StampAndJudge, IInv, Stage, Limit, TypeOK
    <3>2. Promise!Return
      BY <1>4, <2>1, <2>2, <2>4, <3>1
         DEF Promise!Return, StampAndJudge, Limit, Finished, Failed
    <3> QED  BY <3>2 DEF Promise!Next
  <2> QED  BY <2>3, <2>4
<1>5. CASE NotifyNext
  <2>1. /\ Checking' = Checking /\ Finished' = Finished /\ Failed' = Failed
        /\ Limit' = Limit /\ ret' = ret
    BY <1>5, SameWorkSameSets DEF NotifyNext, config, slots, Limit
  <2>2. Finished = Checkers /\ Failed = {} /\ ret = "none"
    BY <1>5, EndedFinished DEF NotifyNext, IInv, Stage, Slots
  <2>3. Promise!Notify
    BY <1>5, <2>1, <2>2 DEF Promise!Notify, NotifyNext, Limit, Finished, Failed
  <2> QED  BY <2>3 DEF Promise!Next
<1>6. CASE ReturnResults
  <2>1. /\ Checking' = Checking /\ Finished' = Finished /\ Failed' = Failed
        /\ Limit' = Limit /\ notified' = notified
    BY <1>6, SameWorkSameSets DEF ReturnResults, config, slots, Limit
  <2>2. Finished = Checkers /\ Failed = {} /\ ret = "none" /\ Limit >= 0
    BY <1>6, EndedFinished DEF ReturnResults, IInv, Stage, Slots, Limit, TypeOK
  <2>3. Promise!Return
    BY <1>6, <2>1, <2>2 DEF Promise!Return, ReturnResults, Limit, Finished, Failed
  <2> QED  BY <2>3 DEF Promise!Next
<1>7. ASSUME NEW i \in Checkers, CheckReturns(i) PROVE Promise!Next
  BY <1>7, CheckReturnsFinishes DEF Promise!Next
<1>8. ASSUME NEW i \in Checkers, Release(i) \/ Done(i)
      PROVE  UNCHANGED Promise!vars
  <2>1. Checking' = Checking /\ Finished' = Finished
    BY <1>8 DEF IInv, TypeOK, Release, Done, Checking, Finished
  <2>2. Failed' = Failed /\ Limit' = Limit /\ notified' = notified /\ ret' = ret
    BY <1>8 DEF Release, Done, config, slots, Failed, Limit
  <2> QED  BY <2>1, <2>2, Invisible
<1>9. CASE UNCHANGED vars
  <2>1. /\ work' = work /\ errs' = errs /\ Limit' = Limit
        /\ notified' = notified /\ ret' = ret
    BY <1>9 DEF vars, config, slots, Limit
  <2> QED  BY <2>1, SameWorkSameSets, Invisible
<1> QED
  BY <1>1, <1>2, <1>3, <1>4, <1>5, <1>6, <1>7, <1>8, <1>9
     DEF Next, CheckStep, Caller, Goroutine, Returned

\* Channel, WaitGroup and loop together keep the promise of Check.
THEOREM Implementation == Spec => KeepsPromise
<1>1. Init => Promise!Init
  BY InitRefines
<1>2. IInv /\ [Next]_vars => [Promise!Next]_(Promise!vars)
  BY StepRefines
<1> QED  BY <1>1, <1>2, Invariance, PTL DEF Spec, KeepsPromise, Promise!Spec

-----------------------------------------------------------------------------
(***************************************************************************)
(* EveryLoop, for every number of checkers and every kind of storage: the  *)
(* loop's invariant rests on the invariant of the round it is performing,  *)
(* which every call of Check establishes anew, and on two sums that bound  *)
(* the rounds by the ticks.                                                *)
(***************************************************************************)
\* No goroutine is alive outside a round, what is stored is the result of a
\* Check that returned without an error, and Check worked on this Checkup.
RoundsApart ==
    /\ forced = checkup.forced
    /\ loop # "checking" => Alive = {}
    /\ loop \in {"storing", "maintaining"} => pc = "returned" /\ ret = "ok"

\* A tick is either in the channel or was taken for a round that began.
TicksCount ==
    /\ sinceTick + ticks <= 1
    /\ IF stopped THEN sinceStop + ticks <= 1 ELSE sinceStop = 0

LInv == IInv /\ LoopTypeOK /\ RoundsApart /\ TicksCount

-----------------------------------------------------------------------------
\* Before the first goroutine is started nobody is alive.
LEMMA NobodyBorn ==
    ASSUME IInv, next = 1 PROVE Alive = {}
BY DEF IInv, Spawned, Alive, Checkers

LEMMA LoopInitInvariant == LoopInit => LInv
<1> SUFFICES ASSUME LoopInit PROVE LInv
  OBVIOUS
<1>1. IInv
  BY InitInvariant DEF LoopInit
<1>2. LoopTypeOK
  <2>1. TypeOK
    BY <1>1 DEF IInv
  <2>2. ticks = 0 /\ stopped = FALSE /\ sinceTick = 1 /\ sinceStop = 0
        /\ loop = "begin" /\ checkup \in Checkups
    BY Zenon DEF LoopInit
  <2>3. ticks \in 0..TickerBuffer /\ sinceTick \in 0..CountCap /\ sinceStop \in 0..CountCap
    BY <2>2 DEF TickerBuffer, CountCap
  <2> QED  BY <2>1, <2>2, <2>3, Zenon DEF LoopTypeOK
<1>3. RoundsApart /\ TicksCount
  BY <1>1, NobodyBorn DEF LoopInit, Init, RoundsApart, TicksCount
<1> QED  BY <1>1, <1>2, <1>3 DEF LInv

\* A call of Check starts where a first call of Check would.
LEMMA CallsAfresh ==
    ASSUME checkup \in Checkups, CallCheck PROVE IInv'
<1>1. Init'
  BY DEF CallCheck, Init, Checkups
<1>2. Init' => IInv'
  BY InitInvariant, PTL
<1> QED  BY <1>1, <1>2

LEMMA BeginInvariant == ASSUME LInv, Begin PROVE LInv'
<1> USE DEF LInv, Begin, fixed, observed
<1>1. CASE checkup.storage = "nil" /\ loop' = "waiting" /\ UNCHANGED vars
  <2>1. IInv' /\ TypeOK' /\ Alive' = Alive
    BY <1>1, NextInvariant, SameCounts DEF vars, IInv
  <2>2. LoopTypeOK'
    BY <1>1, <2>1 DEF LoopTypeOK
  <2> QED  BY <1>1, <2>1, <2>2 DEF RoundsApart, TicksCount, vars, config
<1>2. CASE checkup.storage # "nil" /\ loop' = "checking" /\ CallCheck
  <2>1. IInv' /\ TypeOK'
    BY <1>2, CallsAfresh DEF LoopTypeOK, IInv
  <2>2. LoopTypeOK'
    BY <1>2, <2>1 DEF LoopTypeOK
  <2> QED  BY <1>2, <2>1, <2>2 DEF RoundsApart, TicksCount, CallCheck
<1> QED  BY <1>1, <1>2

\* A step of the round: outside "checking" there is no goroutine to take one.
LEMMA RunCheckInvariant == ASSUME LInv, RunCheck PROVE LInv'
<1> USE DEF LInv
<1>1. loop = "checking" /\ UNCHANGED loopVars
  BY DEF RunCheck, RoundsApart, Goroutine, CheckReturns, Release, Done, Alive
<1>2. [Next]_vars
  BY DEF RunCheck, Next, CheckStep
<1>3. IInv' /\ TypeOK'
  BY <1>2, NextInvariant DEF IInv
<1>4. UNCHANGED forced
  BY DEF RunCheck, Caller, Configure, Acquire, Launch, LoopEnds, WaitReturns, StampAndJudge,
         NotifyNext, ReturnResults, Goroutine, CheckReturns, Release, Done, config
<1> QED  BY <1>1, <1>3, <1>4 DEF loopVars, LoopTypeOK, RoundsApart, TicksCount

LEMMA CheckDoneInvariant == ASSUME LInv, CheckDone PROVE LInv'
<1> USE DEF LInv, CheckDone, fixed, observed
<1>1. IInv' /\ TypeOK' /\ Alive' = Alive
  BY NextInvariant, SameCounts DEF vars, IInv
<1>2. LoopTypeOK'
  BY <1>1 DEF LoopTypeOK
<1>3. Alive = {}
  <2>1. CASE ret = "misconfigured"
    BY <2>1, NobodyBorn DEF IInv, Stage
  <2>2. CASE ret \in {"ok", "errors"}
    BY <2>2 DEF IInv, Stage, Ended, Alive
  <2> QED  BY <2>1, <2>2 DEF IInv, Stage, TypeOK
<1>4. RoundsApart' /\ TicksCount'
  BY <1>1, <1>3 DEF RoundsApart, TicksCount, vars, config
<1> QED  BY <1>1, <1>2, <1>4

\* The steps of the loop that leave the finished round alone.
LEMMA OutsideInvariant ==
    ASSUME LInv, Store \/ Maintain \/ TakeTick \/ Fire \/ Stop \/ UNCHANGED allVars
    PROVE  LInv'
<1> USE DEF LInv, fixed, observed
<1>1. UNCHANGED vars
  BY DEF Store, Maintain, TakeTick, Fire, Stop, allVars
<1>2. IInv' /\ TypeOK' /\ Alive' = Alive
  BY <1>1, NextInvariant, SameCounts DEF vars, IInv
<1>3. pc' = pc /\ ret' = ret /\ forced' = forced
  BY <1>1 DEF vars, config
<1>4. CASE Store \/ Maintain
  BY <1>2, <1>3, <1>4 DEF Store, Maintain, LoopTypeOK, RoundsApart, TicksCount
<1>5. CASE TakeTick
  <2>1. ticks = 1 /\ ticks' = 0 /\ sinceTick = 0 /\ sinceTick' = 1
    BY <1>5 DEF TakeTick, LoopTypeOK, TicksCount, TickerBuffer, CountCap, Counted
  <2>2. sinceStop = 0 /\ sinceStop' = IF stopped THEN 1 ELSE 0
    BY <1>5, <2>1 DEF TakeTick, LoopTypeOK, TicksCount, CountCap, Counted
  <2>3. LoopTypeOK'
    BY <1>2, <1>5, <2>1, <2>2 DEF TakeTick, LoopTypeOK, TickerBuffer, CountCap
  <2>4. RoundsApart' /\ TicksCount'
    BY <1>2, <1>3, <1>5, <2>1, <2>2 DEF TakeTick, RoundsApart, TicksCount
  <2> QED  BY <1>2, <2>3, <2>4
<1>6. CASE Fire
  BY <1>2, <1>3, <1>6 DEF Fire, LoopTypeOK, RoundsApart, TicksCount, TickerBuffer, CountCap
<1>7. CASE Stop
  BY <1>2, <1>3, <1>7 DEF Stop, LoopTypeOK, RoundsApart, TicksCount, TickerBuffer, CountCap
<1>8. CASE UNCHANGED allVars
  BY <1>2, <1>3, <1>8 DEF allVars, loopVars, LoopTypeOK, RoundsApart, TicksCount
<1> QED  BY <1>4, <1>5, <1>6, <1>7, <1>8

LEMMA LoopNextInvariant == LInv /\ [LoopNext]_allVars => LInv'
<1> SUFFICES ASSUME LInv, [LoopNext]_allVars PROVE LInv'
  OBVIOUS
<1> QED
  BY BeginInvariant, RunCheckInvariant, CheckDoneInvariant, OutsideInvariant
     DEF LoopNext, Loop, Parked

\* LInv holds in every behaviour of the loop and of the rounds it performs.
THEOREM LoopInvariance == LoopSpec => []LInv
BY LoopInitInvariant, LoopNextInvariant, PTL DEF LoopSpec

-----------------------------------------------------------------------------
\* The loop's variables, and those of the round, have their types in every
\* round, whatever the checkers, the storage and the caller do.
THEOREM LoopTypeCorrect == LoopSpec => []LoopTypeOK
<1>1. LInv => LoopTypeOK
  BY DEF LInv
<1> QED  BY <1>1, LoopInvariance, PTL

\* Between two moments at which the ticker fires at most one round begins,
\* however long the rounds take.
THEOREM RoundsBounded == LoopSpec => []OneRoundPerInterval
<1>1. LInv => OneRoundPerInterval
  BY DEF LInv, LoopTypeOK, TicksCount, OneRoundPerInterval, TickerBuffer, CountCap
<1> QED  BY <1>1, LoopInvariance, PTL

\* After the caller stopped the ticker at most one more round begins.
THEOREM StopPrompt == LoopSpec => []StopIsPrompt
<1>1. LInv => StopIsPrompt
  BY DEF LInv, LoopTypeOK, TicksCount, StopIsPrompt, TickerBuffer, CountCap
<1> QED  BY <1>1, LoopInvariance, PTL

\* Only whole rounds without an error, each slot final and with the forced
\* timestamp if there is one, are stored, in every round of the loop and for
\* any number of checkers, and no goroutine outlives its round.
THEOREM WholeRoundsStored == LoopSpec => []StoresWholeRounds
<1>1. LInv => StoresWholeRounds
  <2> SUFFICES ASSUME LInv PROVE StoresWholeRounds
    OBVIOUS
  <2>1. IInv => WholeRound
    BY DEF IInv, WholeRound, Stage, Slots
  <2> QED  BY <2>1 DEF LInv, RoundsApart, StoresWholeRounds, WholeRound
<1> QED  BY <1>1, LoopInvariance, PTL
=============================================================================
