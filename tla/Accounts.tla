------------------------------ MODULE Accounts ------------------------------
(***************************************************************************)
(* Users, sessions and second factors.                                     *)
(*                                                                         *)
(* A session lives in a signed cookie of the browser: a request carries    *)
(* the session as the cookie held it when it was sent, and its answer      *)
(* writes back that session with the handler's changes, whatever other     *)
(* answers did to the cookie in between.  Handlers run one at a time (none *)
(* suspends once its body has arrived), but several of them commit more    *)
(* than once and can be cut between two commits.                           *)
(*                                                                         *)
(* Abstracted: a password, a TOTP code and a WebAuthn response are right   *)
(* or wrong, whichever the environment likes; so changing a password       *)
(* changes nothing here.  An answer that is not to change anything still   *)
(* writes its session.  Rate limits are in module Limiter.                 *)
(***************************************************************************)
EXTENDS Integers, FiniteSets

CONSTANTS Users, Browsers,
    Requests,   \* the requests that may be under way at once
    Codes,      \* the recovery codes that will ever be drawn
    Passkeys,   \* authenticators
    BatchSize,  \* RECOVERY_CODE_COUNT
    None

ASSUME AccountsAssumption ==
    /\ BatchSize \in Nat \ {0}
    /\ None \notin Users /\ None \notin Browsers /\ None \notin Requests

VARIABLES
    exists,     \* table users
    enforced,   \* the users with a membership in an organization that enforces MFA
    totp,       \* table user_totp: "none", "pending" or "confirmed"
    code,       \* table user_recovery_codes: None, or the row
    passkey,    \* table user_passkeys: None, or the owner
    cookie,     \* the session in each browser's cookie
    req,        \* the requests under way
    loop,       \* the request between two commits of its handler, or None
    minted,     \* history: the codes drawn so far
    logins,     \* history: how many logins each code completed
    cut         \* history: the users whose last change of TOTP or codes was cut

tables == <<exists, enforced, totp, code, passkey>>
vars   == <<exists, enforced, totp, code, passkey, cookie, req, loop, minted, logins, cut>>

\* The keys of a session.  webauthn_register_challenge belongs to a logged-in
\* user and webauthn_auth_challenge to a pending one, so one field holds both.
Session == [user: Users \cup {None}, pending: Users \cup {None},
            mfa_setup_required: BOOLEAN, challenge: BOOLEAN]

Empty == [user |-> None, pending |-> None, mfa_setup_required |-> FALSE,
          challenge |-> FALSE]

Idle == [step |-> "idle", browser |-> None, sess |-> Empty]

-----------------------------------------------------------------------------
(* MFAService and its repositories.                                         *)

has_any_mfa(u) == totp[u] = "confirmed" \/ \E p \in Passkeys : passkey[p] = u

user_requires_mfa_setup(u) == ~ has_any_mfa(u) /\ u \in enforced

CodesOf(u) == {c \in Codes : code[c] # None /\ code[c].user = u}

\* Mutant: used codes are listed too.
list_unused_by_user_all(u) == CodesOf(u)

list_unused_by_user(u) == {c \in CodesOf(u) : ~ code[c].used}

mark_used(c) == code' = [code EXCEPT ![c].used = TRUE]

delete_all_by_user(u) ==
    code' = [c \in Codes |-> IF c \in CodesOf(u) THEN None ELSE code[c]]

\* Ten random codes that were never drawn before, in one commit.
create_batch(u) ==
    \E batch \in SUBSET (Codes \ minted) :
        /\ Cardinality(batch) = BatchSize
        /\ code' = [c \in Codes |-> IF c \in batch THEN [user |-> u, used |-> FALSE]
                                                    ELSE code[c]]
        /\ minted' = minted \cup batch

-----------------------------------------------------------------------------
(* Requests.                                                                *)

Steps == {"login", "signup", "mfa_verify", "auth_begin", "auth_complete",
          "register_begin", "register_complete", "passkey_delete", "totp_setup",
          "totp_confirm", "totp_disable", "regenerate", "logout", "toggle_mfa",
          "invite_accept", "page"}

\* AuthMiddleware and the first lines of the handlers: which requests get
\* beyond a redirect with session s.  MFAEnforcementMiddleware redirects the
\* pages of organizations and invites, and some of "page", while the flag is set.
Allowed(o, s) ==
    CASE o \in {"login", "page"} -> TRUE
      [] o = "signup" -> s.user = None
      [] o \in {"mfa_verify", "auth_begin", "auth_complete"} -> s.pending # None
      [] o \in {"toggle_mfa", "invite_accept"} -> s.user # None /\ ~ s.mfa_setup_required
      [] OTHER -> s.user # None

send(r, w, o) ==
    /\ req[r].step = "idle" /\ Allowed(o, cookie[w])
    /\ req' = [req EXCEPT ![r] = [step |-> o, browser |-> w, sess |-> cookie[w]]]
    /\ UNCHANGED <<tables, cookie, loop, minted, logins, cut>>

\* The handler for request r runs its first, or its next, step.
Runs(r, o) == req[r].step = o /\ loop \in {None, r}

\* The handler ends with session s.
Answer(r, s) ==
    /\ req' = [req EXCEPT ![r].step = "answer", ![r].sess = s]
    /\ loop' = None

\* The handler commits and goes on with step o.
Then(r, o) ==
    /\ req' = [req EXCEPT ![r].step = o]
    /\ loop' = r

\* The answer reaches the browser: SessionMiddleware's Set-Cookie.
deliver(r) ==
    /\ req[r].step = "answer"
    /\ cookie' = [cookie EXCEPT ![req[r].browser] = req[r].sess]
    /\ req' = [req EXCEPT ![r] = Idle]
    /\ UNCHANGED <<tables, loop, minted, logins, cut>>

\* The request fails before its handler, between two of its commits or on the
\* way back; the error page sets no cookie.
Fail(r) ==
    /\ req[r].step # "idle" /\ (loop \in {None, r} \/ req[r].step = "answer")
    /\ cut' = IF req[r].step \in {"codes", "batch", "disable"}
              THEN cut \cup {req[r].sess.user} ELSE cut
    /\ req' = [req EXCEPT ![r] = Idle]
    /\ loop' = IF loop = r THEN None ELSE loop
    /\ UNCHANGED <<tables, cookie, minted, logins>>

-----------------------------------------------------------------------------
(* web/auth.py                                                              *)

\* A login completed: session.clear(), then the user and the enforcement flag.
LoggedIn(u) == [Empty EXCEPT !.user = u,
                             !.mfa_setup_required = user_requires_mfa_setup(u)]

login(r) ==
    /\ Runs(r, "login")
    /\ \/ Answer(r, req[r].sess)        \* wrong user name or password
       \/ \E u \in exists :
             Answer(r, IF has_any_mfa(u) THEN [Empty EXCEPT !.pending = u] ELSE LoggedIn(u))
    /\ UNCHANGED <<tables, cookie, minted, logins, cut>>

\* register_user: a name that is taken is refused.
signup(r) ==
    /\ Runs(r, "signup")
    /\ \/ Answer(r, req[r].sess) /\ UNCHANGED exists
       \/ \E u \in Users \ exists :
             /\ exists' = exists \cup {u}
             /\ Answer(r, [Empty EXCEPT !.user = u])
    /\ UNCHANGED <<enforced, totp, code, passkey, cookie, minted, logins, cut>>

\* Mutant: who passed the second factor is taken to have one.
mfa_verify_unchecked(r) ==
    LET u == req[r].sess.pending
    IN  /\ Runs(r, "mfa_verify")
        /\ \E c \in list_unused_by_user(u) :
              /\ mark_used(c)
              /\ logins' = [logins EXCEPT ![c] = @ + 1]
              /\ Answer(r, [Empty EXCEPT !.user = u])
        /\ UNCHANGED <<exists, enforced, totp, passkey, cookie, minted, cut>>

\* verify_recovery_code consumes the code, verify_totp wants a confirmed TOTP.
mfa_verify(r) ==
    LET u == req[r].sess.pending
    IN  /\ Runs(r, "mfa_verify")
        /\ \/ \E c \in list_unused_by_user(u) :
                 /\ mark_used(c)
                 /\ logins' = [logins EXCEPT ![c] = @ + 1]
                 /\ Answer(r, LoggedIn(u))
           \/ /\ totp[u] = "confirmed"
              /\ Answer(r, LoggedIn(u))
              /\ UNCHANGED <<code, logins>>
           \/ Answer(r, req[r].sess) /\ UNCHANGED <<code, logins>>
        /\ UNCHANGED <<exists, enforced, totp, passkey, cookie, minted, cut>>

logout(r) ==
    /\ Runs(r, "logout")
    /\ Answer(r, Empty)
    /\ UNCHANGED <<tables, cookie, minted, logins, cut>>

\* Every other page: the session comes back as it went.
page(r) ==
    /\ Runs(r, "page")
    /\ Answer(r, req[r].sess)
    /\ UNCHANGED <<tables, cookie, minted, logins, cut>>

-----------------------------------------------------------------------------
(* web/routes/organization.py and invite.py: the two other ways to the flag. *)

\* Session s when the users who are in an enforcing organization have become e.
Flagged(s, e) ==
    IF ~ has_any_mfa(s.user) /\ s.user \in e THEN [s EXCEPT !.mfa_setup_required = TRUE]
                                             ELSE s

\* Refused, switched off, or switched on by an admin for the members he is one of.
organization_toggle_mfa(r) ==
    /\ Runs(r, "toggle_mfa")
    /\ \/ Answer(r, req[r].sess) /\ enforced' \in SUBSET enforced
       \/ \E members \in SUBSET exists :
             /\ req[r].sess.user \in members
             /\ enforced' = enforced \cup members
             /\ Answer(r, Flagged(req[r].sess, enforced \cup members))
    /\ UNCHANGED <<exists, totp, code, passkey, cookie, minted, logins, cut>>

\* The user joins an organization that enforces MFA or one that does not.
invite_accept(r) ==
    /\ Runs(r, "invite_accept")
    /\ \/ Answer(r, req[r].sess) /\ UNCHANGED enforced
       \/ \E e \in {enforced, enforced \cup (exists \cap {req[r].sess.user})} :
             /\ enforced' = e
             /\ Answer(r, Flagged(req[r].sess, e))
    /\ UNCHANGED <<exists, totp, code, passkey, cookie, minted, logins, cut>>

-----------------------------------------------------------------------------
(* web/routes/security.py                                                   *)

\* setup_totp: an unconfirmed TOTP is deleted first, in a commit of its own.
totp_setup_page(r) ==
    LET u == req[r].sess.user
    IN  /\ Runs(r, "totp_setup")
        /\ \/ /\ totp[u] = "confirmed" /\ UNCHANGED totp
              /\ Answer(r, req[r].sess)
           \/ /\ totp[u] = "pending" /\ totp' = [totp EXCEPT ![u] = "none"]
              /\ Then(r, "totp_setup")
           \/ /\ totp[u] = "none" /\ totp' = [totp EXCEPT ![u] = "pending"]
              /\ Answer(r, req[r].sess)
        /\ UNCHANGED <<exists, enforced, code, passkey, cookie, minted, logins, cut>>

\* confirm_totp: the row, and then _generate_recovery_codes' two commits.  The
\* flag is taken from the session at the end.
totp_confirm(r) ==
    LET u == req[r].sess.user
    IN  /\ Runs(r, "totp_confirm")
        /\ \/ Answer(r, req[r].sess) /\ UNCHANGED totp
           \/ /\ totp[u] = "pending" /\ totp' = [totp EXCEPT ![u] = "confirmed"]
              /\ req' = [req EXCEPT ![r].step = "codes",
                                    ![r].sess.mfa_setup_required = FALSE]
              /\ loop' = r
        /\ UNCHANGED <<exists, enforced, code, passkey, cookie, minted, logins, cut>>

\* Mutant: TOTP need not be confirmed.
regenerate_recovery_codes_always(r) ==
    /\ Runs(r, "regenerate")
    /\ Then(r, "codes")
    /\ UNCHANGED <<tables, cookie, minted, logins, cut>>

regenerate_recovery_codes(r) ==
    /\ Runs(r, "regenerate")
    /\ IF totp[req[r].sess.user] = "confirmed" THEN Then(r, "codes")
                                               ELSE Answer(r, req[r].sess)
    /\ UNCHANGED <<tables, cookie, minted, logins, cut>>

DeleteCodes(r) ==
    /\ Runs(r, "codes")
    /\ delete_all_by_user(req[r].sess.user)
    /\ Then(r, "batch")
    /\ UNCHANGED <<exists, enforced, totp, passkey, cookie, minted, logins, cut>>

\* Mutant: the codes are shown but not stored.
CreateCodes_shown(r) ==
    /\ Runs(r, "batch")
    /\ Answer(r, req[r].sess)
    /\ cut' = cut \ {req[r].sess.user}
    /\ UNCHANGED <<exists, enforced, totp, code, passkey, cookie, minted, logins>>

CreateCodes(r) ==
    /\ Runs(r, "batch")
    /\ create_batch(req[r].sess.user)
    /\ Answer(r, req[r].sess)
    /\ cut' = cut \ {req[r].sess.user}
    /\ UNCHANGED <<exists, enforced, totp, passkey, cookie, logins>>

\* disable_totp: the row and the codes are two commits.  Refused with a wrong
\* password and in an enforcing organization.
totp_disable(r) ==
    LET u == req[r].sess.user
    IN  /\ Runs(r, "totp_disable")
        /\ \/ Answer(r, req[r].sess) /\ UNCHANGED totp
           \/ /\ u \notin enforced
              /\ totp' = [totp EXCEPT ![u] = "none"]
              /\ Then(r, "disable")
        /\ UNCHANGED <<exists, enforced, code, passkey, cookie, minted, logins, cut>>

DisableCodes(r) ==
    /\ Runs(r, "disable")
    /\ delete_all_by_user(req[r].sess.user)
    /\ Answer(r, req[r].sess)
    /\ cut' = cut \ {req[r].sess.user}
    /\ UNCHANGED <<exists, enforced, totp, passkey, cookie, minted, logins>>

\* passkey_register_begin and passkey_auth_begin put a challenge in the session.
passkey_begin(r) ==
    /\ Runs(r, "register_begin") \/ Runs(r, "auth_begin")
    /\ Answer(r, [req[r].sess EXCEPT !.challenge = TRUE])
    /\ UNCHANGED <<tables, cookie, minted, logins, cut>>

\* The challenge is taken out first; without one, or with an expired one or a
\* response that does not verify, nothing else happens.
passkey_register_complete(r) ==
    LET s == [req[r].sess EXCEPT !.challenge = FALSE]
    IN  /\ Runs(r, "register_complete")
        /\ \/ Answer(r, s) /\ UNCHANGED passkey
           \/ /\ req[r].sess.challenge
              /\ \E p \in Passkeys : /\ passkey[p] = None
                                     /\ passkey' = [passkey EXCEPT ![p] = s.user]
              /\ Answer(r, [s EXCEPT !.mfa_setup_required = FALSE])
        /\ UNCHANGED <<exists, enforced, totp, code, cookie, minted, logins, cut>>

\* Mutant: the session keeps its keys, the pending user among them.
passkey_auth_complete_uncleared(r) ==
    LET s == [req[r].sess EXCEPT !.challenge = FALSE]
    IN  /\ Runs(r, "auth_complete")
        /\ \/ Answer(r, s)
           \/ /\ req[r].sess.challenge
              /\ \E p \in Passkeys : passkey[p] = s.pending
              /\ Answer(r, [s EXCEPT !.user = s.pending])
        /\ UNCHANGED <<tables, cookie, minted, logins, cut>>

\* The credential belongs to the pending user.
passkey_auth_complete(r) ==
    LET s == [req[r].sess EXCEPT !.challenge = FALSE]
    IN  /\ Runs(r, "auth_complete")
        /\ \/ Answer(r, s)
           \/ /\ req[r].sess.challenge
              /\ \E p \in Passkeys : passkey[p] = s.pending
              /\ Answer(r, LoggedIn(s.pending))
        /\ UNCHANGED <<tables, cookie, minted, logins, cut>>

\* delete_passkey: the user's own; nothing is asked about enforcement.
passkey_delete(r) ==
    /\ Runs(r, "passkey_delete")
    /\ \/ UNCHANGED passkey
       \/ \E p \in Passkeys : /\ passkey[p] = req[r].sess.user
                              /\ passkey' = [passkey EXCEPT ![p] = None]
    /\ Answer(r, req[r].sess)
    /\ UNCHANGED <<exists, enforced, totp, code, cookie, minted, logins, cut>>

-----------------------------------------------------------------------------
(* The rest of the system.                                                  *)

\* rentivo/cli/user_menu.py, at any moment.
create_user(u) ==
    /\ u \notin exists
    /\ exists' = exists \cup {u}
    /\ UNCHANGED <<enforced, totp, code, passkey, cookie, req, loop, minted, logins, cut>>

\* Module Organizations: u joins or leaves, or enforcement is switched, by other
\* requests than the ones followed here.
user_has_enforcing_org_changes(u) ==
    /\ loop = None /\ u \in exists
    /\ enforced' = IF u \in enforced THEN enforced \ {u} ELSE enforced \cup {u}
    /\ UNCHANGED <<exists, totp, code, passkey, cookie, req, loop, minted, logins, cut>>

-----------------------------------------------------------------------------
Init ==
    /\ exists = {} /\ enforced = {}
    /\ totp = [u \in Users |-> "none"]
    /\ code = [c \in Codes |-> None]
    /\ passkey = [p \in Passkeys |-> None]
    /\ cookie = [w \in Browsers |-> Empty]
    /\ req = [r \in Requests |-> Idle]
    /\ loop = None
    /\ minted = {} /\ logins = [c \in Codes |-> 0] /\ cut = {}

Auth(r) == login(r) \/ signup(r) \/ mfa_verify(r) \/ logout(r) \/ page(r)

Enforcement(r) == organization_toggle_mfa(r) \/ invite_accept(r)

Security(r) ==
    \/ totp_setup_page(r) \/ totp_confirm(r) \/ totp_disable(r)
    \/ regenerate_recovery_codes(r) \/ DeleteCodes(r) \/ CreateCodes(r) \/ DisableCodes(r)
    \/ passkey_begin(r) \/ passkey_register_complete(r) \/ passkey_auth_complete(r)
    \/ passkey_delete(r)

Next ==
    \/ \E r \in Requests :
          \/ \E w \in Browsers, o \in Steps : send(r, w, o)
          \/ Auth(r) \/ Enforcement(r) \/ Security(r) \/ deliver(r) \/ Fail(r)
    \/ \E u \in Users : create_user(u) \/ user_has_enforcing_org_changes(u)

Spec == Init /\ [][Next]_vars

-----------------------------------------------------------------------------
(* Properties.                                                              *)

CodeRow == [user: Users, used: BOOLEAN]

Request == [step: Steps \cup {"idle", "answer", "codes", "batch", "disable"},
            browser: Browsers \cup {None}, sess: Session]

ASSUME NoneAssumption == None \notin CodeRow

\* Every table, cookie and request has its type.
TypeOK ==
    /\ exists \subseteq Users /\ enforced \subseteq Users
    /\ totp \in [Users -> {"none", "pending", "confirmed"}]
    /\ code \in [Codes -> CodeRow \cup {None}]
    /\ passkey \in [Passkeys -> Users \cup {None}]
    /\ cookie \in [Browsers -> Session]
    /\ req \in [Requests -> Request]
    /\ loop \in Requests \cup {None}
    /\ minted \subseteq Codes
    /\ logins \in [Codes -> Nat]
    /\ cut \subseteq Users

\* A recovery code completes one login at most, however many requests carry it
\* (verify_recovery_code).
CodeLogsInOnce == \A c \in Codes : logins[c] <= 1

Between(u, S) == loop # None /\ req[loop].step \in S /\ req[loop].sess.user = u

\* A user with recovery codes has a confirmed TOTP, unless disable_totp was cut
\* between its two commits: no other route leaves codes behind.
CodesComeWithTotp ==
    \A u \in Users : CodesOf(u) # {} =>
        totp[u] = "confirmed" \/ Between(u, {"disable"}) \/ u \in cut

\* A user with a confirmed TOTP has recovery codes, used or not, unless
\* confirm_totp or regenerate_recovery_codes was cut.
TotpComesWithCodes ==
    \A u \in Users : totp[u] = "confirmed" =>
        CodesOf(u) # {} \/ Between(u, {"codes", "batch"}) \/ u \in cut

Sessions == {cookie[w] : w \in Browsers} \cup {req[r].sess : r \in Requests}

\* No session, in a cookie or on its way, names a logged-in user together with
\* one whose second factor is still pending: every handler that sets the one
\* key clears the other (AuthMiddleware looks at user_id alone).
OneIdentity == \A s \in Sessions : s.user = None \/ s.pending = None

\* Whichever of the ways in was taken, who is logged in without a second
\* factor while an organization enforces one is sent to the setup: the flag is
\* computed from the tables as they are when the login completes.
EveryLoginIsChecked ==
    [][\A r \in Requests :
          LET u == req'[r].sess.user
          IN  (req'[r].step = "answer" /\ u # None /\ u # req[r].sess.user) =>
                  (req'[r].sess.mfa_setup_required <=> user_requires_mfa_setup(u))]_vars
=============================================================================
