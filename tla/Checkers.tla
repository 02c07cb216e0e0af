------------------------------ MODULE Checkers ------------------------------
(***************************************************************************)
(* One call of Check of one checker (check/http, tcp, dns, exec and tls):  *)
(* some attempts at the endpoint one after the other, then a conclusion    *)
(* drawn from all of them.  The five checkers share this shape and differ  *)
(* in what an attempt holds open, in what makes it an error, in which of   *)
(* them has a deadline by default, and in what the conclusion looks at.    *)
(*                                                                         *)
(* An endpoint refuses, stays silent, gives a wrong answer (a status code  *)
(* or a text that is not accepted) or the right one; a right answer of a   *)
(* TLS endpoint comes with a certificate.  Silence ends in an error where  *)
(* there is a deadline, and blocks the checker where there is none, or     *)
(* where the deadline does not end the wait.                               *)
(***************************************************************************)
EXTENDS Integers, Sequences, FiniteSets, SequencesExt, Sorting

CONSTANTS
    MaxAttempts,   \* bound on c.Attempts
    MaxRTT         \* bound on the round trip times

ASSUME BoundsAssumption == MaxAttempts \in Nat \ {0} /\ MaxRTT \in Nat \ {0}

Kinds   == {"http", "tcp", "dns", "exec", "tls"}
RTTs    == 1..MaxRTT
Certs   == {"none", "expired", "expiring", "valid"}
Answers == {"refusal", "silence", "wrong", "right"}

\* The fields of a checker that decide how it behaves.
Config == [kind : Kinds, attempts : 0..MaxAttempts, threshold : 0..MaxRTT,
           warn : BOOLEAN,      \* exec: Raise is "warn" or "warning"
           host : BOOLEAN,      \* dns: Host is set, so a lookup comes first
           timeout : BOOLEAN,   \* Timeout is set: tcp, dns, tls; http: that of Client
           valid : BOOLEAN]     \* http: the URL parses; tls: the roots load

VARIABLES
    c,          \* the checker, in the method's own copy
    pc,         \* "prepare", "lookup", "contact", "judge", "conclude", "blocked", "returned"
    times,      \* the attempts made: their round trip time and error
    answer,     \* what the attempt under way got
    certs,      \* the certificates of the TLS connections, per attempt
    open,       \* the attempts whose connection, body or context is open
    verdict,    \* which of Healthy, Degraded and Down are true
    notice,     \* is Notice set
    err         \* does Check return an error

vars == <<c, pc, times, answer, certs, open, verdict, notice, err>>

-----------------------------------------------------------------------------
\* Does a deadline turn the silence of an endpoint into an error: tcp and
\* dns replace a zero Timeout by a second, and exec's context has one; tls
\* passes a zero on, for which a Dialer sets none, and so does an http.Client
\* of the caller's (the default one has a Timeout).
Deadline(k) == k.kind \in {"tcp", "dns", "exec"} \/ k.timeout

\* May silence last for ever: without a deadline, and for a command, whose
\* kill leaves the output open that a process it started holds on to.
MayBlock(k) == ~Deadline(k) \/ k.kind = "exec"

RTTsOf(attempts) == [i \in 1..Len(attempts) |-> attempts[i].rtt]

\* Mutant: the attempts are not sorted.
MedianUnsorted(attempts) ==
    LET s == RTTsOf(attempts)  half == Len(s) \div 2
    IN  IF Len(s) % 2 = 0 THEN (s[half] + s[half + 1]) \div 2 ELSE s[half + 1]

\* The Median of ComputeStats.
Median(attempts) ==
    LET s == Sorted(RTTsOf(attempts))  half == Len(s) \div 2
    IN  IF Len(s) % 2 = 0 THEN (s[half] + s[half + 1]) \div 2 ELSE s[half + 1]

\* The least and the greatest round trip time as ComputeStats finds them:
\* zero stands for none yet.
Least(attempts) ==
    FoldLeft(LAMBDA least, rtt : IF rtt < least \/ least = 0 THEN rtt ELSE least,
             0, RTTsOf(attempts))
Greatest(attempts) ==
    FoldLeft(LAMBDA most, rtt : IF rtt > most \/ most = 0 THEN rtt ELSE most,
             0, RTTsOf(attempts))

\* Mutant: the page takes the middle of the attempts as they are in the file.
PageStatsUnsorted(attempts) ==
    LET s == RTTsOf(attempts)  half == Len(s) \div 2 IN
    [least |-> Least(attempts), greatest |-> Greatest(attempts),
     median |-> IF Len(s) % 2 = 0 THEN (s[half] + s[half + 1] + 1) \div 2
                ELSE s[half + 1]]

\* computeStats of the status page, which finds these numbers again in the
\* attempts of a check file: zeros are skipped (0: undefined), and the
\* median of an even number is rounded up.
PageStats(attempts) ==
    LET s     == Sorted(RTTsOf(attempts))
        half  == Len(s) \div 2
        taken == ToSet(s) \ {0}
    IN  [least |-> IF taken = {} THEN 0 ELSE Min(taken),
         greatest |-> IF taken = {} THEN 0 ELSE Max(taken),
         median |-> IF Len(s) % 2 = 0 THEN (s[half] + s[half + 1] + 1) \div 2
                    ELSE s[half + 1]]

Failed(attempts) == \E i \in 1..Len(attempts) : attempts[i].error
Slow(attempts)   == c.threshold > 0 /\ Median(attempts) > c.threshold

\* Where an attempt begins, and whether there is another one: the head of
\* the loop over the attempts.
FirstPlace == IF c.kind = "dns" /\ c.host THEN "lookup" ELSE "contact"
NextAttempt(made, attempts) == IF made < attempts THEN FirstPlace ELSE "conclude"

-----------------------------------------------------------------------------
Init ==
    /\ c \in {k \in Config : /\ k.warn => k.kind = "exec"
                             /\ k.host => k.kind = "dns"
                             /\ k.timeout => k.kind # "exec"
                             /\ ~k.valid => k.kind \in {"http", "tls"}}
    /\ pc = "prepare" /\ times = <<>> /\ answer = "none" /\ certs = <<>>
    /\ open = {} /\ verdict = {} /\ notice = FALSE /\ err = FALSE

\* Mutant: the default for the number of attempts is forgotten.
PrepareZero ==
    /\ pc = "prepare"
    /\ pc' = IF c.valid THEN NextAttempt(0, c.attempts) ELSE "returned"
    /\ err' = ~c.valid
    /\ UNCHANGED <<c, times, answer, certs, open, verdict, notice>>

\* The head of Check: at least one attempt; a request that cannot be built,
\* or trusted roots that cannot be loaded, is the only error it returns.
Prepare ==
    /\ pc = "prepare"
    /\ c' = [c EXCEPT !.attempts = IF @ < 1 THEN 1 ELSE @]
    /\ pc' = IF c.valid THEN NextAttempt(0, c'.attempts) ELSE "returned"
    /\ err' = ~c.valid
    /\ UNCHANGED <<times, answer, certs, open, verdict, notice>>

\* The end of the attempt under way; exec's deferred cancels run when the
\* last one is over.
Attempted(attempt, cert, held) ==
    /\ times' = Append(times, attempt)
    /\ certs' = Append(certs, cert)
    /\ pc' = NextAttempt(Len(times'), c.attempts)
    /\ open' = IF c.kind = "exec" /\ pc' = "conclude" THEN {} ELSE held
    /\ answer' = "none"

\* dns: the exchange with the name server.  If it fails, the loop goes on
\* before the round trip time is taken.
Lookup ==
    /\ pc = "lookup"
    /\ \/ Attempted([rtt |-> 0, error |-> TRUE], "none", open)
       \/ pc' = "contact" /\ UNCHANGED <<times, answer, certs, open>>
    /\ UNCHANGED <<c, verdict, notice, err>>

Acquired == IF c.kind = "exec" THEN open \cup {Len(times) + 1} ELSE open

\* The attempt itself: the request, the dial or the command.
Contact ==
    /\ pc = "contact"
    /\ \E a \in Answers, rtt \in RTTs :
          \/ /\ a = "refusal" \/ (a = "silence" /\ Deadline(c))
             /\ Attempted([rtt |-> rtt, error |-> TRUE], "none", Acquired)
          \/ /\ a = "silence" /\ MayBlock(c)
             /\ pc' = "blocked" /\ UNCHANGED <<times, answer, certs, open>>
          \/ /\ a = "wrong" => c.kind \in {"http", "exec"}
             /\ a \in {"wrong", "right"} /\ c.kind # "tls"
             /\ open' = open \cup {Len(times) + 1}
             /\ answer' = a /\ pc' = "judge" /\ UNCHANGED <<times, certs>>
          \/ /\ a = "right" /\ c.kind = "tls"
             /\ \E cert \in Certs :
                   Attempted([rtt |-> rtt, error |-> FALSE], cert, open \cup {Len(times) + 1})
    /\ UNCHANGED <<c, verdict, notice, err>>

\* http and exec judge the answer (checkDown); the body or the connection is
\* closed before the next attempt, exec's context only with the last one.
Judge ==
    /\ pc = "judge"
    /\ \E rtt \in RTTs :
          Attempted([rtt |-> rtt, error |-> answer = "wrong"], "none",
                    IF c.kind = "exec" THEN open ELSE open \ {Len(times) + 1})
    /\ UNCHANGED <<c, verdict, notice, err>>

\* The first attempt whose certificate is missing or expired, if any.
BadCerts == {i \in 1..Len(certs) : certs[i] \in {"none", "expired"}}
MarkFirst(bad) ==
    [times EXCEPT ![CHOOSE i \in bad : \A j \in bad : i <= j].error = TRUE]

\* Mutant: a return is missing after the errors made the result Down.
ConcludeFallsThrough ==
    /\ pc = "conclude"
    /\ verdict' = (IF Failed(times) THEN {"down"} ELSE {})
                     \cup (IF Slow(times) THEN {"degraded"} ELSE {"healthy"})
    /\ notice' = Slow(times)
    /\ open' = {} /\ pc' = "returned"
    /\ UNCHANGED <<c, times, answer, certs, err>>

\* Mutant: the TLS connections are closed at the end instead of deferred.
ConcludeClosesLast ==
    /\ pc = "conclude"
    /\ \/ /\ Failed(times)
          /\ verdict' = {IF c.warn THEN "degraded" ELSE "down"}
          /\ notice' = c.warn /\ UNCHANGED <<times, open>>
       \/ /\ ~Failed(times)
          /\ verdict' = {IF Slow(times) THEN "degraded" ELSE "healthy"}
          /\ notice' = Slow(times) /\ open' = {} /\ UNCHANGED times
    /\ pc' = "returned"
    /\ UNCHANGED <<c, answer, certs, err>>

\* conclude: errors first, then what the certificates say, then the median.
Conclude ==
    /\ pc = "conclude"
    /\ \/ /\ Failed(times)
          /\ verdict' = {IF c.warn THEN "degraded" ELSE "down"}
          /\ notice' = c.warn /\ UNCHANGED times
       \/ /\ ~Failed(times) /\ c.kind = "tls" /\ BadCerts # {}
          /\ times' = MarkFirst(BadCerts)
          /\ verdict' = {"down"} /\ notice' = FALSE
       \/ /\ ~Failed(times) /\ ~(c.kind = "tls" /\ BadCerts # {})
          /\ \/ /\ Slow(times) \/ "expiring" \in ToSet(certs)
                /\ verdict' = {"degraded"} /\ notice' = TRUE
             \/ /\ ~Slow(times) /\ "expiring" \notin ToSet(certs)
                /\ verdict' = {"healthy"} /\ notice' = FALSE
          /\ UNCHANGED times
    /\ open' = {} /\ pc' = "returned"
    /\ UNCHANGED <<c, answer, certs, err>>

Check == Prepare \/ Lookup \/ Contact \/ Judge \/ Conclude

Over == pc \in {"returned", "blocked"} /\ UNCHANGED vars

Next == Check \/ Over

Spec == Init /\ [][Next]_vars

-----------------------------------------------------------------------------
(* Properties. *)

\* Every variable has its type, and a conclusion is drawn from at least one
\* attempt (the median of none is out of range).
TypeOK ==
    /\ c \in Config
    /\ pc \in {"prepare", "lookup", "contact", "judge", "conclude", "blocked", "returned"}
    /\ times \in Seq([rtt : 0..MaxRTT, error : BOOLEAN])
    /\ certs \in Seq(Certs) /\ Len(certs) = Len(times)
    /\ answer \in {"none", "wrong", "right"}
    /\ open \subseteq 1..MaxAttempts
    /\ verdict \subseteq {"healthy", "degraded", "down"}
    /\ notice \in BOOLEAN /\ err \in BOOLEAN
    /\ pc = "conclude" => Len(times) = c.attempts /\ times # <<>>

\* "Exactly one of these should be true; any more or less is a bug", the
\* comment on Healthy, Degraded and Down, for every result that is returned
\* without an error.  Down goes with an error on an attempt, Degraded with a
\* notice that says why, and Healthy with neither.
OneVerdict ==
    (pc = "returned" /\ ~err) =>
        \/ verdict = {"down"} /\ Failed(times) /\ ~notice
        \/ verdict = {"degraded"} /\ notice /\ (Failed(times) => c.warn)
        \/ verdict = {"healthy"} /\ ~Failed(times) /\ ~notice

\* The k-th smallest of a sequence of round trip times, found by counting.
IsKth(k, v, s) ==
    /\ Cardinality({i \in 1..Len(s) : s[i] <= v}) >= k
    /\ Cardinality({i \in 1..Len(s) : s[i] < v}) < k

\* Where no attempt failed, latency degrades a result exactly when the
\* middle of its round trip times, in whatever order they were measured, is
\* above the threshold.
MedianDecides ==
    (pc = "returned" /\ ~err /\ c.kind # "tls" /\ ~Failed(times)) =>
        LET s == RTTsOf(times) IN
        \E lo, hi \in RTTs :
            /\ IsKth((Len(s) + 1) \div 2, lo, s) /\ IsKth(Len(s) \div 2 + 1, hi, s)
            /\ verdict = {IF c.threshold > 0 /\ (lo + hi) \div 2 > c.threshold
                          THEN "degraded" ELSE "healthy"}

\* The status page, which computes the statistics again, draws the point of
\* a result where the checker saw it: at its median, or a nanosecond above,
\* so that a result degraded by its latency alone is above its threshold
\* line and a healthy one not more than that nanosecond; and they agree on
\* the extremes unless a failed lookup left a round trip time of zero.
PageAgrees ==
    (pc = "returned" /\ ~err) =>
        LET drawn == PageStats(times) IN
        /\ drawn.median \in {Median(times), Median(times) + 1}
        /\ drawn.greatest = Greatest(times)
        /\ 0 \notin ToSet(RTTsOf(times)) => drawn.least = Least(times)
        /\ (c.threshold > 0 /\ c.kind # "tls" /\ ~Failed(times)) =>
              IF verdict = {"degraded"} THEN drawn.median > c.threshold
              ELSE drawn.median <= c.threshold + 1

\* Whatever the attempts got, nothing is open when Check has returned, and
\* apart from tls and exec, which hold on to what their attempts opened, the
\* attempts of a check have at most one connection open at a time.
NothingLeftOpen ==
    /\ pc = "returned" => open = {}
    /\ c.kind \notin {"tls", "exec"} => Cardinality(open) <= 1
=============================================================================
