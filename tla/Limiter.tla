------------------------------ MODULE Limiter ------------------------------
(***************************************************************************)
(* The in-memory rate limiters of web/auth.py: one for /login, one for     *)
(* /mfa-verify, the same code twice.  A request is checked, waits for its  *)
(* form, and is recorded if it fails; other requests run in between.       *)
(*                                                                         *)
(* An attempt is kept by its age instead of the time it was made at, so    *)
(* that time may go on for ever: age = now - t.                            *)
(***************************************************************************)
EXTENDS Integers, Sequences, FiniteSets

CONSTANTS Ips,
    Requests,   \* the requests that may be under way at once
    MAX_ATTEMPTS, LOCKOUT_SECONDS,
    None

ASSUME LimiterAssumption ==
    /\ IsFiniteSet(Requests)
    /\ MAX_ATTEMPTS \in Nat \ {0} /\ LOCKOUT_SECONDS \in Nat \ {0}
    /\ None \notin Ips

VARIABLES
    attempts,   \* _login_attempts or _mfa_attempts: the ages of the failures
    waiting     \* the address of each request that waits for its form, or None

vars == <<attempts, waiting>>

Ages == 0..LOCKOUT_SECONDS

-----------------------------------------------------------------------------
\* [t for t in attempts if now - t < LOCKOUT]: failures are appended as time
\* goes by, so those that are too old are the first ones.
recent(ip) ==
    LET old == {i \in DOMAIN attempts[ip] : attempts[ip][i] >= LOCKOUT_SECONDS}
    IN  SubSeq(attempts[ip], Cardinality(old) + 1, Len(attempts[ip]))

\* Mutant: one attempt too many.
limited_late(ip) == Len(recent(ip)) > MAX_ATTEMPTS

limited(ip) == Len(recent(ip)) >= MAX_ATTEMPTS

\* Mutant: a refused attempt takes the place of the oldest failure.
is_rate_limited_counting(r, ip) ==
    /\ waiting[r] = None
    /\ attempts' = [attempts EXCEPT ![ip] = IF limited(ip) THEN Append(Tail(recent(ip)), 0)
                                                          ELSE recent(ip)]
    /\ waiting' = IF limited(ip) THEN waiting ELSE [waiting EXCEPT ![r] = ip]

\* The check prunes the list.  A limited request is answered at once, any
\* other one goes on to wait for its form.
is_rate_limited(r, ip) ==
    /\ waiting[r] = None
    /\ attempts' = [attempts EXCEPT ![ip] = recent(ip)]
    /\ waiting' = IF limited(ip) THEN waiting ELSE [waiting EXCEPT ![r] = ip]

\* Mutant: the time the lockout ends is recorded.
record_failed_attempt_expiry(r) ==
    /\ waiting[r] # None
    /\ attempts' = [attempts EXCEPT ![waiting[r]] = Append(recent(waiting[r]), 0 - LOCKOUT_SECONDS)]
    /\ waiting' = [waiting EXCEPT ![r] = None]

record_failed_attempt(r) ==
    LET ip == waiting[r]
    IN  /\ ip # None
        /\ attempts' = [attempts EXCEPT ![ip] = Append(recent(ip), 0)]
        /\ waiting' = [waiting EXCEPT ![r] = None]

\* A successful login forgets the failures of its address.
clear_attempts(r) ==
    /\ waiting[r] # None
    /\ attempts' = [attempts EXCEPT ![waiting[r]] = <<>>]
    /\ waiting' = [waiting EXCEPT ![r] = None]

\* The form never comes, or the handler fails: nothing is recorded.
Abandon(r) ==
    /\ waiting[r] # None
    /\ waiting' = [waiting EXCEPT ![r] = None]
    /\ UNCHANGED attempts

\* time.monotonic goes on.
Tick ==
    /\ attempts' = [ip \in Ips |-> [i \in DOMAIN attempts[ip] |->
          IF attempts[ip][i] < LOCKOUT_SECONDS THEN attempts[ip][i] + 1 ELSE attempts[ip][i]]]
    /\ UNCHANGED waiting

-----------------------------------------------------------------------------
Init ==
    /\ attempts = [ip \in Ips |-> <<>>]
    /\ waiting = [r \in Requests |-> None]

Next ==
    \/ \E r \in Requests :
          \/ \E ip \in Ips : is_rate_limited(r, ip)
          \/ record_failed_attempt(r) \/ clear_attempts(r) \/ Abandon(r)
    \/ Tick

Spec == Init /\ [][Next]_vars

\* Time passes, whatever the clients do.
FairSpec == Spec /\ WF_vars(Tick)

-----------------------------------------------------------------------------
(* Properties.                                                              *)

\* The lists hold ages and the waiting requests have an address.
TypeOK ==
    /\ attempts \in [Ips -> Seq(Ages)]
    /\ waiting \in [Requests -> Ips \cup {None}]

\* However the checks and the records of concurrent requests interleave, an
\* address has at most MAX_ATTEMPTS - 1 recent failures more than there can be
\* requests under way, those about to fail included.
BurstIsBounded ==
    \A ip \in Ips :
        Len(recent(ip)) + Cardinality({r \in Requests : waiting[r] = ip})
            <= MAX_ATTEMPTS - 1 + Cardinality(Requests)

\* A locked-out address is let in again, even if it never stops trying: refused
\* attempts do not count (is_rate_limited only prunes).
LockoutEnds == \A ip \in Ips : limited(ip) ~> ~ limited(ip)
=============================================================================
