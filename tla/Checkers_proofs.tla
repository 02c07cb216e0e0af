--------------------------- MODULE Checkers_proofs ---------------------------
(***************************************************************************)
(* Proofs about Checkers for any bound on the attempts and the round trip  *)
(* times: the types (TypeCorrect), exactly one verdict with its reason     *)
(* (OneVerdictReturned), nothing left open (AllClosed), that the median    *)
(* decides (MedianIsMedian), and that the status page, which computes the  *)
(* statistics again, finds the same (PageSeesTheSame).                     *)
(***************************************************************************)
EXTENDS Checkers, SequenceFacts, SequenceTheorems

Attempt == [rtt : 0..MaxRTT, error : BOOLEAN]

\* The types, and how many attempts there are at each place.
Counted ==
    /\ c \in Config
    /\ pc \in {"prepare", "lookup", "contact", "judge", "conclude", "blocked", "returned"}
    /\ times \in Seq(Attempt)
    /\ certs \in Seq(Certs) /\ Len(certs) = Len(times)
    /\ answer \in {"none", "wrong", "right"}
    /\ verdict \subseteq {"healthy", "degraded", "down"}
    /\ pc = "prepare" => times = <<>>
    /\ pc # "prepare" => c.attempts >= 1
    /\ pc \in {"lookup", "contact", "judge"} => Len(times) < c.attempts
    /\ pc = "conclude" => Len(times) = c.attempts

\* What an attempt holds open at each place.
Closed ==
    /\ open \subseteq 1..MaxAttempts
    /\ pc \in {"prepare", "returned"} => open = {}
    /\ (c.kind \notin {"tls", "exec"} /\ pc # "judge") => open = {}
    /\ (c.kind \notin {"tls", "exec"} /\ pc = "judge") => open = {Len(times) + 1}

Flags == notice \in BOOLEAN /\ err \in BOOLEAN

IInv == Counted /\ Closed /\ Flags /\ OneVerdict

-----------------------------------------------------------------------------
\* A set of positions that is not empty has a first one.
LEMMA FirstPosition ==
    ASSUME NEW S, S \subseteq Nat, S # {}
    PROVE  (CHOOSE i \in S : \A j \in S : i <= j) \in S
BY LeastOfNats

\* The error that MarkFirst puts on an attempt, and what it leaves alone.
LEMMA Marked ==
    ASSUME Counted, BadCerts # {}
    PROVE  /\ MarkFirst(BadCerts) \in Seq(Attempt)
           /\ Len(MarkFirst(BadCerts)) = Len(times)
           /\ \E i \in 1..Len(MarkFirst(BadCerts)) : MarkFirst(BadCerts)[i].error
<1> DEFINE i == CHOOSE j \in BadCerts : \A k \in BadCerts : j <= k
           bad == [times[i] EXCEPT !.error = TRUE]
<1>1. BadCerts \subseteq 1..Len(times) /\ BadCerts \subseteq Nat
  BY DEF BadCerts, Counted
<1>2. i \in 1..Len(times)
  <2>1. i \in BadCerts
    BY <1>1, FirstPosition
  <2> QED  BY <1>1, <2>1
<1> HIDE DEF i
<1>3. times \in Seq(Attempt) /\ times[i] \in Attempt
  BY <1>2 DEF Counted
<1>4. bad \in Attempt /\ bad.error
  <2>1. ASSUME NEW t \in BOOLEAN
        PROVE  [times[i] EXCEPT !.error = t] \in Attempt /\ [times[i] EXCEPT !.error = t].error = t
    BY <1>3, Zenon DEF Attempt
  <2> QED  BY <2>1, Zenon
<1>5. MarkFirst(BadCerts) = [times EXCEPT ![i] = bad]
  BY DEF MarkFirst, i
<1> HIDE DEF bad
<1>6. /\ [times EXCEPT ![i] = bad] \in Seq(Attempt)
      /\ Len([times EXCEPT ![i] = bad]) = Len(times)
      /\ [times EXCEPT ![i] = bad][i] = bad
  BY <1>2, <1>3, <1>4, ExceptSeq
<1> QED  BY <1>2, <1>4, <1>5, <1>6

-----------------------------------------------------------------------------
\* A call of Check starts without attempts, verdict or connection.
LEMMA InitInvariant == Init => IInv
<1> SUFFICES ASSUME Init PROVE IInv
  OBVIOUS
<1>1. Counted
  BY DEF Init, Counted, Attempt
<1>2. Closed
  BY DEF Init, Closed
<1>3. Flags
  BY DEF Init, Flags
<1>4. OneVerdict
  BY DEF Init, OneVerdict
<1> QED  BY <1>1, <1>2, <1>3, <1>4 DEF IInv

\* An attempt that is over: it is counted, and keeps open what it held.
LEMMA AttemptKeeps ==
    ASSUME IInv, pc \in {"lookup", "contact", "judge"},
           NEW attempt \in Attempt, NEW cert \in Certs,
           NEW held \in SUBSET (1..MaxAttempts),
           c.kind \notin {"tls", "exec"} => held = {},
           Attempted(attempt, cert, held), UNCHANGED <<c, verdict, notice, err>>
    PROVE  IInv'
<1>1. /\ times' = Append(times, attempt) /\ certs' = Append(certs, cert)
      /\ pc' = NextAttempt(Len(times'), c.attempts)
      /\ open' = IF c.kind = "exec" /\ pc' = "conclude" THEN {} ELSE held
      /\ answer' = "none" /\ FirstPlace \in {"lookup", "contact"}
      /\ UNCHANGED <<c, verdict>>
  BY DEF Attempted, FirstPlace
<1>2. /\ times' \in Seq(Attempt) /\ certs' \in Seq(Certs)
      /\ Len(times') = Len(times) + 1 /\ Len(certs') = Len(times')
      /\ Len(times) \in Nat /\ Len(times) < c.attempts /\ c.attempts \in Nat
  <2>1. times \in Seq(Attempt) /\ certs \in Seq(Certs) /\ Len(certs) = Len(times)
    BY DEF IInv, Counted
  <2>2. Len(times) < c.attempts /\ c \in Config
    BY DEF IInv, Counted
  <2>3. c.attempts \in Nat
    BY <2>2, BoundsAssumption DEF Config
  <2> QED  BY <1>1, <2>1, <2>2, <2>3
<1>3. Counted'
  BY <1>1, <1>2 DEF IInv, Counted, NextAttempt
<1>4. Closed'
  BY <1>1 DEF Closed, NextAttempt
<1>5. Flags'
  BY Zenon DEF IInv, Flags
<1>6. OneVerdict'
  BY <1>1 DEF OneVerdict, NextAttempt
<1> QED  BY <1>3, <1>4, <1>5, <1>6 DEF IInv

LEMMA PrepareInvariant == ASSUME IInv, Prepare PROVE IInv'
<1>1. /\ pc = "prepare" /\ c' = [c EXCEPT !.attempts = IF @ < 1 THEN 1 ELSE @]
      /\ pc' = IF c.valid THEN NextAttempt(0, c'.attempts) ELSE "returned"
      /\ UNCHANGED <<times, answer, certs, open, verdict>>
      /\ FirstPlace \in {"lookup", "contact"}
  BY DEF Prepare, FirstPlace
<1>2. c \in Config /\ c.attempts \in 0..MaxAttempts
  BY DEF IInv, Counted, Config
<1>3. c' \in Config /\ c'.attempts >= 1 /\ c'.kind = c.kind
  BY <1>1, <1>2, BoundsAssumption DEF Config
<1>4. Counted'
  BY <1>1, <1>2, <1>3, BoundsAssumption DEF IInv, Counted, NextAttempt, Config
<1>5. Closed'
  BY <1>1, <1>3 DEF IInv, Closed, NextAttempt
<1>6. Flags'
  BY Zenon DEF IInv, Flags, Prepare
<1>7. OneVerdict'
  <2>1. (pc' = "returned") => err'
    BY DEF Prepare, NextAttempt, FirstPlace
  <2> QED  BY <2>1 DEF OneVerdict
<1> QED  BY <1>4, <1>5, <1>6, <1>7 DEF IInv

LEMMA LookupInvariant == ASSUME IInv, Lookup PROVE IInv'
<1>1. pc = "lookup" /\ UNCHANGED <<c, verdict, notice, err>>
  BY DEF Lookup
<1>2. CASE Attempted([rtt |-> 0, error |-> TRUE], "none", open)
  <2>1. [rtt |-> 0, error |-> TRUE] \in Attempt /\ "none" \in Certs
    BY BoundsAssumption DEF Attempt, Certs
  <2>2. open \in SUBSET (1..MaxAttempts) /\ (c.kind \notin {"tls", "exec"} => open = {})
    BY <1>1 DEF IInv, Closed
  <2> QED  BY <1>1, <1>2, <2>1, <2>2, AttemptKeeps
<1>3. CASE pc' = "contact" /\ UNCHANGED <<times, answer, certs, open>>
  <2>1. Counted' /\ Closed'
    BY <1>1, <1>3 DEF IInv, Counted, Closed
  <2>2. Flags'
    BY <1>1, Zenon DEF IInv, Flags
  <2>3. OneVerdict'
    BY <1>3 DEF OneVerdict
  <2> QED  BY <2>1, <2>2, <2>3 DEF IInv
<1> QED  BY <1>2, <1>3 DEF Lookup

LEMMA ContactInvariant == ASSUME IInv, Contact PROVE IInv'
<1> PICK a \in Answers, rtt \in RTTs :
       \/ /\ a = "refusal" \/ (a = "silence" /\ Deadline(c))
          /\ Attempted([rtt |-> rtt, error |-> TRUE], "none", Acquired)
       \/ /\ a = "silence" /\ MayBlock(c)
          /\ pc' = "blocked" /\ UNCHANGED <<times, answer, certs, open>>
       \/ /\ a = "wrong" => c.kind \in {"http", "exec"}
          /\ a \in {"wrong", "right"} /\ c.kind # "tls"
          /\ open' = open \cup {Len(times) + 1}
          /\ answer' = a /\ pc' = "judge" /\ UNCHANGED <<times, certs>>
       \/ /\ a = "right" /\ c.kind = "tls"
          /\ \E cert \in Certs :
                Attempted([rtt |-> rtt, error |-> FALSE], cert, open \cup {Len(times) + 1})
  BY DEF Contact
<1>1. pc = "contact" /\ UNCHANGED <<c, verdict, notice, err>>
  BY DEF Contact
<1>2. /\ rtt \in 0..MaxRTT /\ "none" \in Certs
      /\ [rtt |-> rtt, error |-> TRUE] \in Attempt /\ [rtt |-> rtt, error |-> FALSE] \in Attempt
  BY BoundsAssumption DEF RTTs, Attempt, Certs
<1>3. /\ open \in SUBSET (1..MaxAttempts) /\ Len(times) + 1 \in 1..MaxAttempts
      /\ (c.kind \notin {"tls", "exec"} => open = {})
  <2>1. c.attempts \in 0..MaxAttempts /\ Len(times) \in Nat /\ Len(times) < c.attempts
    BY <1>1 DEF IInv, Counted, Config
  <2> QED  BY <1>1, <2>1, BoundsAssumption DEF IInv, Closed
<1>4. Flags' /\ (pc' # "returned" => OneVerdict')
  <2>1. Flags'
    BY <1>1, Zenon DEF IInv, Flags
  <2> QED  BY <2>1 DEF OneVerdict
<1>5. CASE Attempted([rtt |-> rtt, error |-> TRUE], "none", Acquired)
  <2>1. Acquired \in SUBSET (1..MaxAttempts) /\ (c.kind \notin {"tls", "exec"} => Acquired = {})
    BY <1>3 DEF Acquired
  <2> QED  BY <1>1, <1>2, <1>5, <2>1, AttemptKeeps
<1>6. CASE pc' = "blocked" /\ UNCHANGED <<times, answer, certs, open>>
  <2>1. Counted' /\ Closed'
    BY <1>1, <1>6 DEF IInv, Counted, Closed
  <2> QED  BY <1>4, <1>6, <2>1 DEF IInv
<1>7. CASE /\ a \in {"wrong", "right"} /\ c.kind # "tls"
           /\ open' = open \cup {Len(times) + 1}
           /\ answer' = a /\ pc' = "judge" /\ UNCHANGED <<times, certs>>
  <2>1. Counted' /\ Closed'
    BY <1>1, <1>3, <1>7 DEF IInv, Counted, Closed
  <2> QED  BY <1>4, <1>7, <2>1 DEF IInv
<1>8. ASSUME NEW cert \in Certs, c.kind = "tls",
             Attempted([rtt |-> rtt, error |-> FALSE], cert, open \cup {Len(times) + 1})
      PROVE  IInv'
  <2>1. open \cup {Len(times) + 1} \in SUBSET (1..MaxAttempts)
    BY <1>3
  <2> QED  BY <1>1, <1>2, <1>8, <2>1, AttemptKeeps
<1> QED  BY <1>5, <1>6, <1>7, <1>8

LEMMA JudgeInvariant == ASSUME IInv, Judge PROVE IInv'
<1> DEFINE wrong == answer = "wrong"
           held == IF c.kind = "exec" THEN open ELSE open \ {Len(times) + 1}
<1> PICK rtt \in RTTs : Attempted([rtt |-> rtt, error |-> wrong], "none", held)
  BY DEF Judge
<1>1. pc = "judge" /\ UNCHANGED <<c, verdict, notice, err>>
  BY DEF Judge
<1>2. [rtt |-> rtt, error |-> wrong] \in Attempt /\ "none" \in Certs
  <2>1. rtt \in 0..MaxRTT /\ wrong \in BOOLEAN
    BY BoundsAssumption DEF RTTs
  <2> HIDE DEF wrong
  <2> QED  BY <2>1 DEF Attempt, Certs
<1>3. held \in SUBSET (1..MaxAttempts) /\ (c.kind \notin {"tls", "exec"} => held = {})
  BY <1>1 DEF IInv, Closed
<1> HIDE DEF wrong, held
<1> QED  BY <1>1, <1>2, <1>3, AttemptKeeps

LEMMA ConcludeInvariant == ASSUME IInv, Conclude PROVE IInv'
<1>1. /\ pc = "conclude" /\ pc' = "returned" /\ open' = {}
      /\ UNCHANGED <<c, answer, certs>> /\ c \in Config /\ times \in Seq(Attempt)
  BY DEF Conclude, IInv, Counted
<1>2. Closed'
  BY <1>1 DEF IInv, Closed
<1>3. c.warn \in BOOLEAN /\ err' \in BOOLEAN
  BY <1>1, Zenon DEF IInv, Flags, Conclude, Config
<1>4. CASE /\ Failed(times) /\ UNCHANGED times
           /\ verdict' = {IF c.warn THEN "degraded" ELSE "down"} /\ notice' = c.warn
  <2>1. Counted'
    BY <1>1, <1>4 DEF IInv, Counted
  <2>2. Flags'
    BY <1>3, <1>4, Zenon DEF Flags
  <2>3. OneVerdict'
    BY <1>1, <1>3, <1>4 DEF OneVerdict, Failed
  <2> QED  BY <1>2, <2>1, <2>2, <2>3 DEF IInv
<1>5. CASE /\ c.kind = "tls" /\ BadCerts # {}
           /\ times' = MarkFirst(BadCerts)
           /\ verdict' = {"down"} /\ notice' = FALSE
  <2>1. /\ times' \in Seq(Attempt) /\ Len(times') = Len(times)
        /\ \E i \in 1..Len(times') : times'[i].error
    BY <1>5, Marked DEF IInv
  <2>2. Counted'
    BY <1>1, <1>5, <2>1 DEF IInv, Counted
  <2>3. Flags'
    BY <1>3, <1>5, Zenon DEF Flags
  <2>4. OneVerdict'
    BY <1>5, <2>1 DEF OneVerdict, Failed
  <2> QED  BY <1>2, <2>2, <2>3, <2>4 DEF IInv
<1>6. CASE /\ ~Failed(times) /\ UNCHANGED times
           /\ \/ verdict' = {"degraded"} /\ notice' = TRUE
              \/ verdict' = {"healthy"} /\ notice' = FALSE
  <2>1. Counted'
    BY <1>1, <1>6 DEF IInv, Counted
  <2>2. Flags'
    BY <1>3, <1>6, Zenon DEF Flags
  <2>3. OneVerdict'
    BY <1>6 DEF OneVerdict, Failed
  <2> QED  BY <1>2, <2>1, <2>2, <2>3 DEF IInv
<1> QED  BY <1>4, <1>5, <1>6, Zenon DEF Conclude

LEMMA NextInvariant == IInv /\ [Next]_vars => IInv'
<1> SUFFICES ASSUME IInv, [Next]_vars PROVE IInv'
  OBVIOUS
<1>1. CASE UNCHANGED vars
  <2>1. Counted' /\ Closed'
    BY <1>1 DEF IInv, Counted, Closed, vars
  <2>2. Flags' /\ OneVerdict'
    BY <1>1, Zenon DEF IInv, Flags, OneVerdict, Failed, vars
  <2> QED  BY <2>1, <2>2 DEF IInv
<1> QED
  BY <1>1, PrepareInvariant, LookupInvariant, ContactInvariant, JudgeInvariant,
     ConcludeInvariant DEF Next, Check, Over

LEMMA Invariance == Spec => []IInv
<1>1. Init => IInv
  BY InitInvariant
<1>2. IInv /\ [Next]_vars => IInv'
  BY NextInvariant
<1> QED  BY <1>1, <1>2, PTL DEF Spec

-----------------------------------------------------------------------------
\* Every variable has its type, and whenever a checker concludes it has made
\* as many attempts as it was told to, and at least one: the median of
\* ComputeStats is within range.
THEOREM TypeCorrect == Spec => []TypeOK
<1>1. IInv => TypeOK
  <2> SUFFICES ASSUME IInv PROVE TypeOK
    OBVIOUS
  <2>1. times \in Seq([rtt : 0..MaxRTT, error : BOOLEAN])
    BY DEF IInv, Counted, Attempt
  <2>2. pc = "conclude" => Len(times) = c.attempts /\ times # <<>>
    BY DEF IInv, Counted
  <2>3. /\ c \in Config
        /\ pc \in {"prepare", "lookup", "contact", "judge", "conclude", "blocked",
                   "returned"}
        /\ certs \in Seq(Certs) /\ Len(certs) = Len(times)
        /\ answer \in {"none", "wrong", "right"}
        /\ open \subseteq 1..MaxAttempts
        /\ verdict \subseteq {"healthy", "degraded", "down"}
    BY DEF IInv, Counted, Closed
  <2>4. notice \in BOOLEAN /\ err \in BOOLEAN
    BY Zenon DEF IInv, Flags
  <2> QED  BY <2>1, <2>2, <2>3, <2>4, Zenon DEF TypeOK
<1> QED  BY <1>1, Invariance, PTL

\* "Exactly one of these should be true; any more or less is a bug": every
\* result is Healthy, Degraded or Down and no two of them, and what made it
\* so can be read off its attempts and its notice.
THEOREM OneVerdictReturned == Spec => []OneVerdict
<1>1. IInv => OneVerdict
  BY DEF IInv
<1> QED  BY <1>1, Invariance, PTL

\* A checker that has returned left nothing open, and http, tcp and dns have
\* one connection open at a time, whatever the attempts got.
THEOREM AllClosed == Spec => []NothingLeftOpen
<1>1. IInv => NothingLeftOpen
  <2> SUFFICES ASSUME IInv PROVE NothingLeftOpen
    OBVIOUS
  <2>1. Cardinality({}) = 0 /\ Cardinality({Len(times) + 1}) = 1
    BY FS_EmptySet, FS_Singleton
  <2>2. c.kind \notin {"tls", "exec"} => open = {} \/ open = {Len(times) + 1}
    BY DEF IInv, Closed
  <2>3. c.kind \notin {"tls", "exec"} => Cardinality(open) <= 1
    <3>1. CASE open = {}
      BY <2>1, <3>1
    <3>2. CASE open = {Len(times) + 1}
      BY <2>1, <3>2
    <3> QED  BY <2>2, <3>1, <3>2
  <2> QED  BY <2>3 DEF IInv, Closed, NothingLeftOpen
<1> QED  BY <1>1, Invariance, PTL

-----------------------------------------------------------------------------
(* The statistics. *)

LEMMA RTTsTyped ==
    ASSUME NEW attempts \in Seq(Attempt)
    PROVE  /\ RTTsOf(attempts) \in Seq(0..MaxRTT) /\ RTTsOf(attempts) \in Seq(Int)
           /\ Len(RTTsOf(attempts)) = Len(attempts)
           /\ \A i \in 1..Len(attempts) : /\ RTTsOf(attempts)[i] = attempts[i].rtt
                                          /\ RTTsOf(attempts)[i] \in 0..MaxRTT
<1>1. Len(attempts) \in Nat /\ \A i \in 1..Len(attempts) : attempts[i] \in Attempt
  OBVIOUS
<1>2. \A i \in 1..Len(attempts) : attempts[i].rtt \in 0..MaxRTT
  BY <1>1 DEF Attempt
<1>3. \A i \in 1..Len(attempts) : attempts[i].rtt \in Int
  BY <1>2
<1> QED  BY <1>1, <1>2, <1>3 DEF RTTsOf

\* The loop of ComputeStats that finds the least round trip time.
LEMMA LeastRuns ==
    ASSUME NEW attempts \in Seq(Attempt)
    PROVE  LET s == RTTsOf(attempts) IN
           \E run \in [0..Len(s) -> Nat] :
              /\ run[0] = 0 /\ run[Len(s)] = Least(attempts)
              /\ \A i \in 1..Len(s) :
                    run[i] = IF s[i] < run[i - 1] \/ run[i - 1] = 0 THEN s[i] ELSE run[i - 1]
<1> DEFINE s == RTTsOf(attempts)
           n == Len(s)
           Op(least, rtt) == IF rtt < least \/ least = 0 THEN rtt ELSE least
           step == [e \in Nat \X (1..n) |-> Op(e[1], s[e[2]])]
           Eq(G) == G = [t \in SUBSET (1..n) |->
                           IF t = {} THEN 0 ELSE Op(G[t \ {Max(t)}], s[Max(t)])]
<1>1. n \in Nat /\ DOMAIN s = 1..n /\ \A i \in 1..n : s[i] \in Nat
  BY RTTsTyped, BoundsAssumption
<1>2. Least(attempts) = (CHOOSE G : Eq(G))[1..n]
  BY <1>1 DEF Least, FoldLeft, MapThenFoldSet
<1> HIDE DEF s, n
<1>3. step \in [Nat \X (1..n) -> Nat]
  BY <1>1
<1>4. \E G : Eq(G)
  <2>1. PICK G \in FoldGraphs(Nat, 0, step, n) : TRUE
    BY <1>1, <1>3, FoldGraph
  <2>2. /\ G \in [SUBSET (1..n) -> Nat]
        /\ \A t \in SUBSET (1..n) :
              G[t] = IF t = {} THEN 0 ELSE step[<<G[t \ {Max(t)}], Max(t)>>]
    BY DEF FoldGraphs
  <2>3. \A t \in SUBSET (1..n) :
           G[t] = IF t = {} THEN 0 ELSE Op(G[t \ {Max(t)}], s[Max(t)])
    <3> TAKE t \in SUBSET (1..n)
    <3>1. CASE t # {}
      <4>1. Max(t) \in 1..n /\ G[t \ {Max(t)}] \in Nat
        BY <1>1, <2>2, <3>1, MaxOfPositions
      <4> QED  BY <2>2, <3>1, <4>1
    <3> QED  BY <2>2, <3>1
  <2> HIDE DEF Op, step
  <2>4. Eq(G)
    BY <2>2, <2>3
  <2> QED  BY <2>4
<1>5. PICK G : Eq(G) /\ Least(attempts) = G[1..n]
  BY <1>2, <1>4
<1>6. G[{}] = 0
  BY <1>5
<1>7. \A t \in SUBSET (1..n) : t # {} /\ G[t \ {Max(t)}] \in Nat =>
         G[t] = step[<<G[t \ {Max(t)}], Max(t)>>]
  <2> SUFFICES ASSUME NEW t \in SUBSET (1..n), t # {}, G[t \ {Max(t)}] \in Nat
               PROVE  G[t] = step[<<G[t \ {Max(t)}], Max(t)>>]
    OBVIOUS
  <2>1. Max(t) \in 1..n
    BY <1>1, MaxOfPositions
  <2> QED  BY <1>5, <2>1
<1>8. PICK run \in Runs(Nat, 0, step, n) : run[n] = G[1..n]
  <2> HIDE DEF step, Eq
  <2>1. Follows(G, Nat, 0, step, n)
    BY <1>1, <1>3, <1>6, <1>7 DEF Follows
  <2> QED  BY <2>1, FoldRun
<1>9. ASSUME NEW i \in 1..n PROVE run[i] = Op(run[i - 1], s[i])
  <2>1. run \in [0..n -> Nat] /\ run[i] = step[<<run[i - 1], i>>]
    BY DEF Runs
  <2>2. <<run[i - 1], i>> \in Nat \X (1..n)
    BY <1>1, <2>1
  <2> QED  BY <2>1, <2>2
<1>10. run \in [0..n -> Nat] /\ run[0] = 0 /\ run[n] = Least(attempts)
  BY <1>5, <1>8 DEF Runs
<1> QED  BY <1>9, <1>10 DEF s, n

\* The loop of ComputeStats that finds the greatest.
LEMMA GreatestRuns ==
    ASSUME NEW attempts \in Seq(Attempt)
    PROVE  LET s == RTTsOf(attempts) IN
           \E run \in [0..Len(s) -> Nat] :
              /\ run[0] = 0 /\ run[Len(s)] = Greatest(attempts)
              /\ \A i \in 1..Len(s) :
                    run[i] = IF s[i] > run[i - 1] \/ run[i - 1] = 0 THEN s[i] ELSE run[i - 1]
<1> DEFINE s == RTTsOf(attempts)
           n == Len(s)
           Op(most, rtt) == IF rtt > most \/ most = 0 THEN rtt ELSE most
           step == [e \in Nat \X (1..n) |-> Op(e[1], s[e[2]])]
           Eq(G) == G = [t \in SUBSET (1..n) |->
                           IF t = {} THEN 0 ELSE Op(G[t \ {Max(t)}], s[Max(t)])]
<1>1. n \in Nat /\ DOMAIN s = 1..n /\ \A i \in 1..n : s[i] \in Nat
  BY RTTsTyped, BoundsAssumption
<1>2. Greatest(attempts) = (CHOOSE G : Eq(G))[1..n]
  BY <1>1 DEF Greatest, FoldLeft, MapThenFoldSet
<1> HIDE DEF s, n
<1>3. step \in [Nat \X (1..n) -> Nat]
  BY <1>1
<1>4. \E G : Eq(G)
  <2>1. PICK G \in FoldGraphs(Nat, 0, step, n) : TRUE
    BY <1>1, <1>3, FoldGraph
  <2>2. /\ G \in [SUBSET (1..n) -> Nat]
        /\ \A t \in SUBSET (1..n) :
              G[t] = IF t = {} THEN 0 ELSE step[<<G[t \ {Max(t)}], Max(t)>>]
    BY DEF FoldGraphs
  <2>3. \A t \in SUBSET (1..n) :
           G[t] = IF t = {} THEN 0 ELSE Op(G[t \ {Max(t)}], s[Max(t)])
    <3> TAKE t \in SUBSET (1..n)
    <3>1. CASE t # {}
      <4>1. Max(t) \in 1..n /\ G[t \ {Max(t)}] \in Nat
        BY <1>1, <2>2, <3>1, MaxOfPositions
      <4> QED  BY <2>2, <3>1, <4>1
    <3> QED  BY <2>2, <3>1
  <2> HIDE DEF Op, step
  <2>4. Eq(G)
    BY <2>2, <2>3
  <2> QED  BY <2>4
<1>5. PICK G : Eq(G) /\ Greatest(attempts) = G[1..n]
  BY <1>2, <1>4
<1>6. G[{}] = 0
  BY <1>5
<1>7. \A t \in SUBSET (1..n) : t # {} /\ G[t \ {Max(t)}] \in Nat =>
         G[t] = step[<<G[t \ {Max(t)}], Max(t)>>]
  <2> SUFFICES ASSUME NEW t \in SUBSET (1..n), t # {}, G[t \ {Max(t)}] \in Nat
               PROVE  G[t] = step[<<G[t \ {Max(t)}], Max(t)>>]
    OBVIOUS
  <2>1. Max(t) \in 1..n
    BY <1>1, MaxOfPositions
  <2> QED  BY <1>5, <2>1
<1>8. PICK run \in Runs(Nat, 0, step, n) : run[n] = G[1..n]
  <2> HIDE DEF step, Eq
  <2>1. Follows(G, Nat, 0, step, n)
    BY <1>1, <1>3, <1>6, <1>7 DEF Follows
  <2> QED  BY <2>1, FoldRun
<1>9. ASSUME NEW i \in 1..n PROVE run[i] = Op(run[i - 1], s[i])
  <2>1. run \in [0..n -> Nat] /\ run[i] = step[<<run[i - 1], i>>]
    BY DEF Runs
  <2>2. <<run[i - 1], i>> \in Nat \X (1..n)
    BY <1>1, <2>1
  <2> QED  BY <2>1, <2>2
<1>10. run \in [0..n -> Nat] /\ run[0] = 0 /\ run[n] = Greatest(attempts)
  BY <1>5, <1>8 DEF Runs
<1> QED  BY <1>9, <1>10 DEF s, n

\* What it finds is the greatest; zero, that stands for none yet, does no harm.
LEMMA GreatestIs ==
    ASSUME NEW attempts \in Seq(Attempt), attempts # <<>>
    PROVE  LET s == RTTsOf(attempts) IN
           /\ \E j \in 1..Len(s) : Greatest(attempts) = s[j]
           /\ \A j \in 1..Len(s) : s[j] <= Greatest(attempts)
<1> DEFINE s == RTTsOf(attempts)
           n == Len(s)
<1>1. n \in Nat /\ n >= 1 /\ \A i \in 1..n : s[i] \in Nat
  BY RTTsTyped, BoundsAssumption
<1>2. PICK run \in [0..n -> Nat] :
         /\ run[0] = 0 /\ run[n] = Greatest(attempts)
         /\ \A i \in 1..n :
               run[i] = IF s[i] > run[i - 1] \/ run[i - 1] = 0 THEN s[i] ELSE run[i - 1]
  BY GreatestRuns
<1> HIDE DEF s, n
<1> DEFINE T == {i \in 0..n : /\ i = 0 \/ \E j \in 1..i : run[i] = s[j]
                              /\ \A j \in 1..i : s[j] <= run[i]}
<1>3. 0 \in T
  BY <1>1
<1>4. ASSUME NEW i \in 1..n, i - 1 \in T PROVE i \in T
  <2>1. /\ run[i] \in Nat /\ run[i - 1] \in Nat /\ s[i] \in Nat
        /\ run[i] = IF s[i] > run[i - 1] \/ run[i - 1] = 0 THEN s[i] ELSE run[i - 1]
    BY <1>1, <1>2
  <2>2. \A j \in 1..i : j = i \/ j \in 1..(i - 1)
    BY <1>1
  <2>3. run[i] >= run[i - 1] /\ run[i] >= s[i]
    BY <2>1
  <2>4. \A j \in 1..i : s[j] <= run[i]
    BY <1>1, <1>4, <2>1, <2>2, <2>3, SMTT(30)
  <2>5. \E j \in 1..i : run[i] = s[j]
    <3>1. CASE run[i] = s[i]
      BY <1>1, <3>1
    <3>2. CASE run[i] = run[i - 1] /\ run[i - 1] # 0
      BY <1>1, <1>2, <1>4, <3>2
    <3> QED  BY <2>1, <3>1, <3>2
  <2> QED  BY <1>1, <2>4, <2>5
<1>5. n \in T
  <2>1. 0..n \subseteq T
    <3> HIDE DEF T
    <3> QED  BY <1>1, <1>3, <1>4, BoundedInduction
  <2> QED  BY <1>1, <2>1
<1> QED  BY <1>1, <1>2, <1>5 DEF s, n

\* And the least, if none of the round trip times is zero.
LEMMA LeastIs ==
    ASSUME NEW attempts \in Seq(Attempt), attempts # <<>>,
           \A j \in 1..Len(RTTsOf(attempts)) : RTTsOf(attempts)[j] # 0
    PROVE  LET s == RTTsOf(attempts) IN
           /\ \E j \in 1..Len(s) : Least(attempts) = s[j]
           /\ \A j \in 1..Len(s) : s[j] >= Least(attempts)
<1> DEFINE s == RTTsOf(attempts)
           n == Len(s)
<1>1. n \in Nat /\ n >= 1 /\ \A i \in 1..n : s[i] \in Nat /\ s[i] # 0
  BY RTTsTyped, BoundsAssumption
<1>2. PICK run \in [0..n -> Nat] :
         /\ run[0] = 0 /\ run[n] = Least(attempts)
         /\ \A i \in 1..n :
               run[i] = IF s[i] < run[i - 1] \/ run[i - 1] = 0 THEN s[i] ELSE run[i - 1]
  BY LeastRuns
<1> HIDE DEF s, n
<1> DEFINE T == {i \in 0..n : /\ i = 0 \/ \E j \in 1..i : run[i] = s[j]
                              /\ \A j \in 1..i : s[j] >= run[i]}
<1>3. 0 \in T
  BY <1>1
<1>4. ASSUME NEW i \in 1..n, i - 1 \in T PROVE i \in T
  <2>1. /\ run[i] \in Nat /\ run[i - 1] \in Nat /\ s[i] \in Nat
        /\ run[i] = IF s[i] < run[i - 1] \/ run[i - 1] = 0 THEN s[i] ELSE run[i - 1]
    BY <1>1, <1>2
  <2>2. \A j \in 1..i : j = i \/ j \in 1..(i - 1)
    BY <1>1
  <2>3. i - 1 = 0 \/ run[i - 1] # 0
    BY <1>1, <1>4
  <2>4. \A j \in 1..i : s[j] >= run[i]
    <3>1. run[i] <= s[i] /\ (i - 1 # 0 => run[i] <= run[i - 1])
      BY <2>1, <2>3
    <3> QED  BY <1>1, <1>4, <2>1, <2>2, <3>1
  <2>5. \E j \in 1..i : run[i] = s[j]
    <3>1. CASE run[i] = s[i]
      BY <1>1, <3>1
    <3>2. CASE run[i] = run[i - 1] /\ run[i - 1] # 0
      BY <1>1, <1>2, <1>4, <3>2
    <3> QED  BY <2>1, <3>1, <3>2
  <2> QED  BY <1>1, <2>4, <2>5
<1>5. n \in T
  <2>1. 0..n \subseteq T
    <3> HIDE DEF T
    <3> QED  BY <1>1, <1>3, <1>4, BoundedInduction
  <2> QED  BY <1>1, <2>1
<1> QED  BY <1>1, <1>2, <1>5 DEF s, n

\* The k-th element of the sorted round trip times is the k-th smallest of
\* them, and the sorted ones are the same numbers.
LEMMA SortedKth ==
    ASSUME NEW attempts \in Seq(Attempt)
    PROVE  LET s == RTTsOf(attempts)  t == Sorted(s) IN
           /\ Len(t) = Len(s) /\ t \in Seq(Int)
           /\ \A k \in 1..Len(s) : IsKth(k, t[k], s) /\ t[k] \in 0..MaxRTT
           /\ ToSet(t) = {s[i] : i \in 1..Len(s)}
<1> DEFINE s == RTTsOf(attempts)
           n == Len(s)
<1>1. s \in Seq(Int) /\ n \in Nat /\ \A i \in 1..n : s[i] \in 0..MaxRTT /\ s[i] \in Int
  BY RTTsTyped, BoundsAssumption
<1> HIDE DEF s
<1>2. /\ Sorted(s) \in Seq(Int) /\ Len(Sorted(s)) = n
      /\ \E f \in Bijection(1..n, 1..n) :
            \A k \in 1..n : Sorted(s)[k] = s[f[k]] /\ Place(s, f[k]) = k
  BY <1>1, SortedByIs DEF Sorted
<1> HIDE DEF n
<1>3. PICK f \in Bijection(1..n, 1..n) :
         \A k \in 1..n : Sorted(s)[k] = s[f[k]] /\ Place(s, f[k]) = k
  BY <1>2
<1>4. f \in [1..n -> 1..n] /\ \A i \in 1..n : \E k \in 1..n : f[k] = i
  <2> DEFINE D == 1..n
  <2>1. f \in Bijection(D, D)
    OBVIOUS
  <2> HIDE DEF D
  <2>2. f \in [D -> D] /\ \A i \in D : \E k \in D : f[k] = i
    BY <2>1, Fun_BijectionProperties
  <2> QED  BY <2>2 DEF D
<1>5. ASSUME NEW k \in 1..n PROVE IsKth(k, Sorted(s)[k], s) /\ Sorted(s)[k] \in 0..MaxRTT
  <2> DEFINE v == s[f[k]]
             B == Before(s, f[k])
             AtMost == {i \in 1..n : s[i] <= v}
             Below == {i \in 1..n : s[i] < v}
  <2>1. f[k] \in 1..n /\ Sorted(s)[k] = v /\ v \in Int /\ v \in 0..MaxRTT /\ k \in Nat
    <3>1. f[k] \in 1..n /\ k \in Nat
      BY <1>1, <1>4
    <3>2. Sorted(s)[k] = v
      BY <1>3
    <3>3. v \in Int /\ v \in 0..MaxRTT
      BY <1>1, <3>1
    <3> QED  BY <3>1, <3>2, <3>3
  <2>2. Cardinality(B) = k
    BY <1>3 DEF Place, Before
  <2>3. B \in SUBSET AtMost /\ Below \in SUBSET (B \ {f[k]}) /\ f[k] \in B
    BY <1>1, <2>1 DEF Before, n
  <2>4. IsFiniteSet(AtMost)
    <3>1. IsFiniteSet(1..n) /\ AtMost \in SUBSET (1..n)
      BY <1>1, FS_Interval
    <3> QED  BY <3>1, FS_Subset
  <2> HIDE DEF v, B, AtMost, Below
  <2>5. IsFiniteSet(B) /\ Cardinality(B) <= Cardinality(AtMost)
    BY <2>3, <2>4, FS_Subset
  <2>6. IsFiniteSet(B \ {f[k]}) /\ Cardinality(B \ {f[k]}) = k - 1
    BY <2>2, <2>3, <2>5, FS_RemoveElement
  <2>7. IsFiniteSet(Below) /\ Cardinality(Below) <= k - 1
    BY <2>3, <2>6, FS_Subset
  <2>8. Cardinality(AtMost) \in Nat /\ Cardinality(Below) \in Nat
    BY <2>4, <2>7, FS_CardinalityType
  <2>9. Cardinality(AtMost) >= k /\ Cardinality(Below) < k
    BY <2>1, <2>2, <2>5, <2>7, <2>8
  <2> QED  BY <2>1, <2>9 DEF IsKth, AtMost, Below, v, n
<1>6. ToSet(Sorted(s)) = {s[i] : i \in 1..n}
  <2>1. DOMAIN Sorted(s) = 1..n
    BY <1>2
  <2>2. ToSet(Sorted(s)) = {Sorted(s)[k] : k \in 1..n}
    BY <2>1 DEF ToSet
  <2>3. \A k \in 1..n : Sorted(s)[k] \in {s[i] : i \in 1..n}
    BY <1>3, <1>4
  <2>4. \A i \in 1..n : s[i] \in {Sorted(s)[k] : k \in 1..n}
    BY <1>3, <1>4
  <2> QED  BY <2>2, <2>3, <2>4
<1> QED  BY <1>2, <1>5, <1>6 DEF s, n

-----------------------------------------------------------------------------
(* What latency does to a result. *)

\* Only tls looks at certificates, only an attempt that failed can have a
\* round trip time of zero, and where no attempt failed the median decides.
Uncertified == c.kind # "tls" => \A i \in 1..Len(certs) : certs[i] = "none"
Timed       == c.kind # "tls" => \A i \in 1..Len(times) : times[i].rtt = 0 => times[i].error
Judged ==
    (pc = "returned" /\ ~err) =>
        /\ times # <<>>
        /\ (c.kind # "tls" /\ ~Failed(times)) =>
              verdict = {IF Slow(times) THEN "degraded" ELSE "healthy"}

JInv == Uncertified /\ Timed /\ Judged

LEMMA JudgedInit == Init => JInv
BY DEF Init, JInv, Uncertified, Timed, Judged

\* An attempt that is over.
LEMMA AttemptJudged ==
    ASSUME IInv, JInv, NEW attempt \in Attempt, NEW cert \in Certs, NEW held,
           c.kind # "tls" => cert = "none", attempt.rtt = 0 => attempt.error,
           Attempted(attempt, cert, held), UNCHANGED <<c, verdict, notice, err>>
    PROVE  JInv'
<1>1. /\ times' = Append(times, attempt) /\ certs' = Append(certs, cert)
      /\ pc' # "returned" /\ UNCHANGED c
  BY DEF Attempted, NextAttempt, FirstPlace
<1>2. times \in Seq(Attempt) /\ certs \in Seq(Certs)
  BY DEF IInv, Counted
<1>3. Uncertified'
  <2> SUFFICES ASSUME c.kind # "tls", NEW i \in 1..Len(certs') PROVE certs'[i] = "none"
    BY <1>1 DEF Uncertified
  <2>1. CASE i = Len(certs) + 1
    BY <1>1, <1>2, <2>1
  <2>2. CASE i \in 1..Len(certs)
    BY <1>1, <1>2, <2>2 DEF JInv, Uncertified
  <2> QED  BY <1>1, <1>2, <2>1, <2>2
<1>4. Timed'
  <2> SUFFICES ASSUME c.kind # "tls", NEW i \in 1..Len(times'), times'[i].rtt = 0
               PROVE  times'[i].error
    BY <1>1 DEF Timed
  <2>1. CASE i = Len(times) + 1
    <3>1. times'[i] = attempt
      BY <1>1, <1>2, <2>1
    <3> QED  BY <3>1
  <2>2. CASE i \in 1..Len(times)
    <3>1. times'[i] = times[i]
      BY <1>1, <1>2, <2>2
    <3> QED  BY <2>2, <3>1, Zenon DEF JInv, Timed
  <2> QED  BY <1>1, <1>2, <2>1, <2>2
<1> QED  BY <1>1, <1>3, <1>4 DEF JInv, Judged

LEMMA JudgedNext == IInv /\ JInv /\ [Next]_vars => JInv'
<1> SUFFICES ASSUME IInv, JInv, [Next]_vars PROVE JInv'
  OBVIOUS
<1>0. "none" \in Certs /\ \A rtt \in RTTs : rtt \in 0..MaxRTT /\ rtt # 0
  BY BoundsAssumption DEF Certs, RTTs
<1>1. CASE Prepare
  <2>1. /\ UNCHANGED <<times, certs>> /\ (pc' = "returned" => err')
        /\ times = <<>>
        /\ c' = [c EXCEPT !.attempts = IF @ < 1 THEN 1 ELSE @] /\ c \in Config
    BY <1>1 DEF Prepare, NextAttempt, FirstPlace, IInv, Counted
  <2>2. c'.kind = c.kind
    BY <2>1 DEF Config
  <2> QED  BY <2>1, <2>2 DEF JInv, Uncertified, Timed, Judged
\* A step within an attempt.
<1>2. ASSUME UNCHANGED <<c, times, certs>>, pc' # "returned" PROVE JInv'
  BY <1>2, Zenon DEF JInv, Uncertified, Timed, Judged
<1>3. CASE Lookup
  <2>1. UNCHANGED <<c, verdict, notice, err>>
    BY <1>3 DEF Lookup
  <2>2. CASE Attempted([rtt |-> 0, error |-> TRUE], "none", open)
    <3>1. [rtt |-> 0, error |-> TRUE] \in Attempt
      BY BoundsAssumption DEF Attempt
    <3> QED  BY <1>0, <2>1, <2>2, <3>1, AttemptJudged
  <2>3. CASE pc' = "contact" /\ UNCHANGED <<times, answer, certs, open>>
    BY <1>2, <2>1, <2>3
  <2> QED  BY <1>3, <2>2, <2>3 DEF Lookup
<1>4. CASE Contact
  <2> PICK a \in Answers, rtt \in RTTs :
         \/ Attempted([rtt |-> rtt, error |-> TRUE], "none", Acquired)
         \/ pc' = "blocked" /\ UNCHANGED <<times, answer, certs, open>>
         \/ pc' = "judge" /\ UNCHANGED <<times, certs>>
         \/ /\ c.kind = "tls"
            /\ \E cert \in Certs :
                  Attempted([rtt |-> rtt, error |-> FALSE], cert, open \cup {Len(times) + 1})
    BY <1>4 DEF Contact
  <2>1. /\ UNCHANGED <<c, verdict, notice, err>>
        /\ [rtt |-> rtt, error |-> TRUE] \in Attempt
        /\ [rtt |-> rtt, error |-> FALSE] \in Attempt /\ rtt # 0
    BY <1>0, <1>4 DEF Contact, Attempt
  <2>2. CASE Attempted([rtt |-> rtt, error |-> TRUE], "none", Acquired)
    BY <1>0, <2>1, <2>2, AttemptJudged
  <2>3. ASSUME NEW cert \in Certs, c.kind = "tls",
               Attempted([rtt |-> rtt, error |-> FALSE], cert, open \cup {Len(times) + 1})
        PROVE  JInv'
    BY <2>1, <2>3, AttemptJudged
  <2> QED  BY <1>2, <2>1, <2>2, <2>3
<1>5. CASE Judge
  <2> DEFINE wrong == answer = "wrong"
             held == IF c.kind = "exec" THEN open ELSE open \ {Len(times) + 1}
  <2> PICK rtt \in RTTs : Attempted([rtt |-> rtt, error |-> wrong], "none", held)
    BY <1>5 DEF Judge
  <2>1. UNCHANGED <<c, verdict, notice, err>>
    BY <1>5 DEF Judge
  <2>2. wrong \in BOOLEAN
    OBVIOUS
  <2> HIDE DEF wrong, held
  <2>3. [rtt |-> rtt, error |-> wrong] \in Attempt /\ rtt # 0
    BY <1>0, <2>2 DEF Attempt
  <2> QED  BY <1>0, <2>1, <2>3, AttemptJudged
<1>6. CASE Conclude
  <2>1. /\ pc = "conclude" /\ UNCHANGED <<c, certs, err>> /\ c \in Config
        /\ times \in Seq(Attempt) /\ Len(times) >= 1
    BY <1>6 DEF Conclude, IInv, Counted
  <2>2. c.kind # "tls" => UNCHANGED times
    BY <1>6 DEF Conclude
  <2>3. times' # <<>>
    <3>1. UNCHANGED times \/ (times' = MarkFirst(BadCerts) /\ BadCerts # {})
      BY <1>6 DEF Conclude
    <3>2. BadCerts # {} => Len(MarkFirst(BadCerts)) = Len(times)
                           /\ MarkFirst(BadCerts) \in Seq(Attempt)
      BY Marked DEF IInv
    <3> QED  BY <2>1, <3>1, <3>2
  <2>4. ASSUME c.kind # "tls", ~Failed(times)
        PROVE  verdict' = {IF Slow(times) THEN "degraded" ELSE "healthy"}
    <3>1. "expiring" \notin ToSet(certs)
      <4>1. DOMAIN certs = 1..Len(certs)
        BY DEF IInv, Counted
      <4> QED  BY <2>4, <4>1 DEF JInv, Uncertified, ToSet
    <3> QED  BY <1>6, <2>4, <3>1, Zenon DEF Conclude
  <2>5. c.kind # "tls" => (Slow(times)' <=> Slow(times))
    BY <2>1, <2>2 DEF Slow
  <2>6. c.kind # "tls" => (Failed(times)' <=> Failed(times))
    BY <2>2 DEF Failed
  <2>7. Judged'
    BY <2>1, <2>3, <2>4, <2>5, <2>6 DEF Judged
  <2>8. Uncertified' /\ Timed'
    BY <2>1, <2>2, Zenon DEF JInv, Uncertified, Timed
  <2> QED  BY <2>7, <2>8 DEF JInv
<1>7. CASE UNCHANGED vars
  BY <1>7, Zenon DEF JInv, Uncertified, Timed, Judged, Failed, Slow, vars
<1> QED  BY <1>1, <1>3, <1>4, <1>5, <1>6, <1>7 DEF Next, Check, Over

LEMMA JudgedInvariance == Spec => [](IInv /\ JInv)
<1>1. Init => IInv /\ JInv
  BY InitInvariant, JudgedInit
<1>2. IInv /\ JInv /\ [Next]_vars => (IInv /\ JInv)'
  BY NextInvariant, JudgedNext
<1> QED  BY <1>1, <1>2, PTL DEF Spec

\* The two middle values of the sorted round trip times, and the medians
\* that the checker and the status page compute from them.
LEMMA Medians ==
    ASSUME NEW attempts \in Seq(Attempt), attempts # <<>>
    PROVE  LET s == RTTsOf(attempts) IN
           \E lo, hi \in 0..MaxRTT :
              /\ IsKth((Len(s) + 1) \div 2, lo, s) /\ IsKth(Len(s) \div 2 + 1, hi, s)
              /\ lo \in ToSet(s) /\ hi \in ToSet(s)
              /\ Median(attempts) = (lo + hi) \div 2
              /\ PageStats(attempts).median \in {(lo + hi) \div 2, (lo + hi + 1) \div 2}
<1> DEFINE s == RTTsOf(attempts)
           t == Sorted(s)
           n == Len(s)
           half == n \div 2
<1>1. n \in Nat /\ n >= 1 /\ Len(t) = n /\ DOMAIN s = 1..n
  BY RTTsTyped, SortedKth
<1>2. \A k \in 1..n : IsKth(k, t[k], s) /\ t[k] \in 0..MaxRTT /\ t[k] \in ToSet(s)
  <2>1. t \in Seq(Int) /\ ToSet(t) = {s[i] : i \in 1..n}
    BY SortedKth
  <2>2. \A k \in 1..n : IsKth(k, t[k], s) /\ t[k] \in 0..MaxRTT
    BY SortedKth
  <2> HIDE DEF t, s
  <2>3. \A k \in 1..n : t[k] \in ToSet(t)
    BY <1>1, <2>1 DEF ToSet
  <2> QED  BY <1>1, <2>1, <2>2, <2>3 DEF ToSet
<1>3. /\ Median(attempts) = IF n % 2 = 0 THEN (t[half] + t[half + 1]) \div 2 ELSE t[half + 1]
      /\ PageStats(attempts).median =
            IF n % 2 = 0 THEN (t[half] + t[half + 1] + 1) \div 2 ELSE t[half + 1]
  BY <1>1 DEF Median, PageStats
<1> HIDE DEF s, t, n
<1>4. CASE n % 2 = 0
  <2>1. /\ half \in 1..n /\ half + 1 \in 1..n
        /\ (n + 1) \div 2 = half /\ n \div 2 + 1 = half + 1
    BY <1>1, <1>4
  <2> QED  BY <1>2, <1>3, <1>4, <2>1 DEF s, n
<1>5. CASE n % 2 # 0
  <2>1. half + 1 \in 1..n /\ (n + 1) \div 2 = half + 1 /\ n \div 2 + 1 = half + 1
    BY <1>1, <1>5
  <2>2. t[half + 1] \in Nat
    BY <1>2, <2>1, BoundsAssumption
  <2>3. /\ (t[half + 1] + t[half + 1]) \div 2 = t[half + 1]
        /\ (t[half + 1] + t[half + 1] + 1) \div 2 = t[half + 1]
    BY <2>2
  <2> QED  BY <1>2, <1>3, <1>5, <2>1, <2>3 DEF s, n
<1> QED  BY <1>4, <1>5

\* Where no attempt failed, latency degrades a result exactly when the middle
\* of its round trip times is above the threshold, in whatever order they
\* were measured: Median of ComputeStats is the median.
THEOREM MedianIsMedian == Spec => []MedianDecides
<1>1. IInv /\ JInv => MedianDecides
  <2> SUFFICES ASSUME IInv, JInv, pc = "returned", ~err, c.kind # "tls", ~Failed(times)
               PROVE  LET s == RTTsOf(times) IN
                      \E lo, hi \in RTTs :
                         /\ IsKth((Len(s) + 1) \div 2, lo, s)
                         /\ IsKth(Len(s) \div 2 + 1, hi, s)
                         /\ verdict = {IF c.threshold > 0 /\ (lo + hi) \div 2 > c.threshold
                                       THEN "degraded" ELSE "healthy"}
    BY DEF MedianDecides
  <2> DEFINE s == RTTsOf(times)
  <2>1. times \in Seq(Attempt) /\ times # <<>>
    BY DEF IInv, Counted, JInv, Judged
  <2>2. PICK lo \in 0..MaxRTT, hi \in 0..MaxRTT :
           /\ IsKth((Len(s) + 1) \div 2, lo, s) /\ IsKth(Len(s) \div 2 + 1, hi, s)
           /\ lo \in ToSet(s) /\ hi \in ToSet(s)
           /\ Median(times) = (lo + hi) \div 2
    BY <2>1, Medians
  <2>3. 0 \notin ToSet(s)
    <3>1. ASSUME NEW i \in 1..Len(times) PROVE times[i].rtt # 0
      BY <3>1, Zenon DEF JInv, Timed, Failed
    <3>2. DOMAIN s = 1..Len(times) /\ \A i \in 1..Len(times) : s[i] = times[i].rtt
      BY <2>1, RTTsTyped
    <3> HIDE DEF s
    <3> QED  BY <3>1, <3>2 DEF ToSet
  <2> HIDE DEF s
  <2>4. lo \in RTTs /\ hi \in RTTs
    BY <2>2, <2>3, BoundsAssumption DEF RTTs
  <2>5. verdict = {IF Slow(times) THEN "degraded" ELSE "healthy"}
    BY DEF JInv, Judged
  <2> QED  BY <2>2, <2>4, <2>5 DEF Slow, s
<1> QED  BY <1>1, JudgedInvariance, PTL

\* The status page finds in a check file the statistics the checker had: its
\* median is the checker's or a nanosecond more, its greatest round trip time
\* is the same, and so is the least unless one is zero; a point above the
\* threshold line is one the latency degraded.
THEOREM PageSeesTheSame == Spec => []PageAgrees
<1>1. IInv /\ JInv => PageAgrees
  <2> SUFFICES ASSUME IInv, JInv, pc = "returned", ~err
               PROVE  LET drawn == PageStats(times) IN
                      /\ drawn.median \in {Median(times), Median(times) + 1}
                      /\ drawn.greatest = Greatest(times)
                      /\ 0 \notin ToSet(RTTsOf(times)) => drawn.least = Least(times)
                      /\ (c.threshold > 0 /\ c.kind # "tls" /\ ~Failed(times)) =>
                            IF verdict = {"degraded"} THEN drawn.median > c.threshold
                            ELSE drawn.median <= c.threshold + 1
    BY DEF PageAgrees
  <2> DEFINE drawn == PageStats(times)
             s == RTTsOf(times)
             all == {s[i] : i \in 1..Len(s)}
             taken == all \ {0}
  <2>1. times \in Seq(Attempt) /\ times # <<>>
    BY DEF IInv, Counted, JInv, Judged
  <2>2. /\ drawn.median \in {Median(times), Median(times) + 1}
        /\ drawn.median \in Int /\ Median(times) \in Int
    <3>1. PICK lo \in 0..MaxRTT, hi \in 0..MaxRTT :
             /\ Median(times) = (lo + hi) \div 2
             /\ drawn.median \in {(lo + hi) \div 2, (lo + hi + 1) \div 2}
      BY <2>1, Medians
    <3> DEFINE median == drawn.median
    <3> HIDE DEF median
    <3>2. lo + hi \in Nat
      BY <3>1, BoundsAssumption
    <3>3. (lo + hi + 1) \div 2 \in {(lo + hi) \div 2, (lo + hi) \div 2 + 1}
      BY <3>2
    <3> QED  BY <3>1, <3>2, <3>3
  <2>3. /\ drawn.least = IF taken = {} THEN 0 ELSE Min(taken)
        /\ drawn.greatest = IF taken = {} THEN 0 ELSE Max(taken)
        /\ ToSet(s) = all /\ all \in SUBSET Nat
        /\ Len(s) \in Nat /\ \A x \in all : x <= MaxRTT
    <3>1. ToSet(Sorted(s)) = all
      BY <2>1, SortedKth
    <3>2. /\ Len(s) \in Nat /\ DOMAIN s = 1..Len(s)
          /\ \A i \in 1..Len(s) : s[i] \in 0..MaxRTT
      BY <2>1, RTTsTyped
    <3>3. drawn.least = (IF taken = {} THEN 0 ELSE Min(taken))
          /\ drawn.greatest = (IF taken = {} THEN 0 ELSE Max(taken))
      BY <3>1 DEF PageStats
    <3> HIDE DEF s, drawn
    <3>4. ToSet(s) = all
      BY <3>2 DEF ToSet
    <3> QED  BY <3>2, <3>3, <3>4, BoundsAssumption
  <2>4. drawn.greatest = Greatest(times)
    <3>1. /\ Greatest(times) \in all
          /\ \A x \in all : x <= Greatest(times)
      BY <2>1, GreatestIs
    <3> HIDE DEF s, drawn, all
    <3>2. CASE taken = {}
      BY <2>3, <3>1, <3>2
    <3>3. CASE taken # {}
      <4>1. Max(taken) \in taken /\ \A y \in taken : y <= Max(taken)
        BY <2>3, <3>3, MaxOfNats, BoundsAssumption
      <4>2. /\ Max(taken) \in all /\ Max(taken) # 0 /\ Max(taken) \in Nat
            /\ Greatest(times) \in Nat
        BY <2>3, <3>1, <4>1
      <4>3. Max(taken) <= Greatest(times)
        BY <3>1, <4>2
      <4>4. Greatest(times) # 0
        BY <4>2, <4>3
      <4>5. Greatest(times) <= Max(taken)
        BY <3>1, <4>1, <4>4
      <4>6. Max(taken) = Greatest(times)
        BY <4>2, <4>3, <4>5
      <4> QED  BY <2>3, <3>3, <4>6
    <3> QED  BY <3>2, <3>3
  <2>5. ASSUME 0 \notin ToSet(s) PROVE drawn.least = Least(times)
    <3>1. \A j \in 1..Len(s) : s[j] # 0
      BY <2>3, <2>5
    <3>2. Least(times) \in all /\ \A x \in all : x >= Least(times)
      BY <2>1, <3>1, LeastIs
    <3> HIDE DEF s, drawn, all
    <3>3. taken = all /\ taken # {}
      BY <2>3, <2>5, <3>2
    <3>4. Min(taken) \in taken /\ \A y \in taken : Min(taken) <= y
      <4>1. \E x \in taken : \A y \in taken : x <= y
        BY <2>3, <3>2, <3>3
      <4> QED  BY <4>1, Zenon DEF Min
    <3>5. Min(taken) \in all /\ Min(taken) \in Nat /\ Least(times) \in Nat
      BY <2>3, <3>2, <3>3, <3>4
    <3>6. Min(taken) <= Least(times) /\ Least(times) <= Min(taken)
      BY <3>2, <3>3, <3>4, <3>5
    <3>7. Min(taken) = Least(times)
      BY <3>5, <3>6
    <3> QED  BY <2>3, <3>3, <3>7
  <2>6. ASSUME c.threshold > 0, c.kind # "tls", ~Failed(times)
        PROVE  IF verdict = {"degraded"} THEN drawn.median > c.threshold
               ELSE drawn.median <= c.threshold + 1
    <3>1. verdict = {IF Slow(times) THEN "degraded" ELSE "healthy"}
      BY <2>6 DEF JInv, Judged
    <3>2. Slow(times) <=> Median(times) > c.threshold
      BY <2>6 DEF Slow
    <3>3. c.threshold \in Int
      BY BoundsAssumption DEF IInv, Counted, Config
    <3> HIDE DEF drawn
    <3>4. CASE Slow(times)
      BY <2>2, <3>1, <3>2, <3>3, <3>4
    <3>5. CASE ~Slow(times)
      <4>1. verdict # {"degraded"}
        BY <3>1, <3>5
      <4> QED  BY <2>2, <3>2, <3>3, <3>5, <4>1
    <3> QED  BY <3>4, <3>5
  <2> QED  BY <2>2, <2>4, <2>5, <2>6
<1> QED  BY <1>1, JudgedInvariance, PTL
=============================================================================
