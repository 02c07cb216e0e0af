----------------------------- MODULE CheckFiles -----------------------------
(***************************************************************************)
(* What a storage of check files promises to those who read it: a result   *)
(* that was stored becomes readable, once, under the time of its check,    *)
(* and stays so until it is older than the configured expiry, after which  *)
(* it may disappear, for good.  A storage that is not always able to       *)
(* answer gives its readers an error at such a moment, and nothing may be  *)
(* missing when it answers again.                                          *)
(***************************************************************************)
EXTENDS Integers

CONSTANTS Names,     \* check files are named after the time of their check
          Expiry,    \* CheckExpiry; zero keeps everything
          MayPause   \* are there moments at which the storage cannot answer

VARIABLES now, gone,
          readable,  \* what a reader can get when the storage answers
          answering  \* does it

vars == <<now, readable, gone, answering>>

Init == now = 0 /\ readable = {} /\ gone = {} /\ answering = TRUE

Elapse == now' > now /\ UNCHANGED <<readable, gone, answering>>

\* With the result that is stored the storage may stop to answer.
Publish(n) ==
    /\ n \notin readable \cup gone
    /\ readable' = readable \cup {n}
    /\ now' >= now /\ n < now'
    /\ UNCHANGED answering \/ (MayPause /\ answering' = FALSE)
    /\ UNCHANGED gone

Expire(old) ==
    /\ Expiry # 0 /\ \A n \in old : now - n > Expiry
    /\ readable' = readable \ old
    /\ gone' = gone \cup old
    /\ UNCHANGED <<now, answering>>

PauseOrResume ==
    /\ MayPause /\ answering' = ~answering
    /\ UNCHANGED <<now, readable, gone>>

Next ==
    \/ Elapse \/ PauseOrResume
    \/ \E n \in Names : Publish(n)
    \/ \E old \in SUBSET readable : Expire(old)

Spec == Init /\ [][Next]_vars
=============================================================================
