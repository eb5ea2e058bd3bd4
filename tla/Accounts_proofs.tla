--------------------------- MODULE Accounts_proofs ---------------------------
(***************************************************************************)
(* The invariants of Accounts, for any numbers of users, browsers,         *)
(* concurrent requests, codes and passkeys.  The inductive invariant adds  *)
(* whose session a request carries, which request holds the loop, and that *)
(* a code that completed a login is used or gone and is never drawn again. *)
(***************************************************************************)
EXTENDS Accounts, FiniteSetTheorems, TLAPS

Committing == {"codes", "batch", "disable"}

UserSteps == {"register_begin", "register_complete", "passkey_delete", "totp_setup",
              "totp_confirm", "totp_disable", "regenerate", "logout", "toggle_mfa",
              "invite_accept"} \cup Committing

\* A handler for a logged-in user has one, and a login to complete has a
\* pending user.
Signed ==
    \A r \in Requests :
        /\ req[r].step \in UserSteps => req[r].sess.user \in Users
        /\ req[r].step \in {"mfa_verify", "auth_complete"} => req[r].sess.pending \in Users

\* The loop is held exactly between the commits of a handler.
Held ==
    /\ loop # None => req[loop].step \in Committing \cup {"totp_setup"}
    /\ \A r \in Requests : req[r].step \in Committing => loop = r

\* Codes are replaced under a confirmed TOTP and deleted without one.
Confirmed ==
    \A r \in Requests :
        /\ req[r].step \in {"codes", "batch"} => totp[req[r].sess.user] = "confirmed"
        /\ req[r].step = "disable" => totp[req[r].sess.user] # "confirmed"

\* A code that logged somebody in was drawn once, and is used or deleted.
Consumed ==
    \A c \in Codes :
        /\ code[c] # None => c \in minted
        /\ logins[c] # 0 => c \in minted /\ (code[c] # None => code[c].used)
        /\ logins[c] <= 1

IInv == /\ TypeOK /\ OneIdentity /\ Signed /\ Held /\ Confirmed /\ Consumed
        /\ CodesComeWithTotp /\ TotpComesWithCodes

-----------------------------------------------------------------------------
(* Sessions and requests.                                                   *)

\* What Answer does to the requests.
LEMMA Answered ==
  ASSUME TypeOK, NEW r \in Requests, NEW s \in Session, Answer(r, s)
  PROVE  /\ req' \in [Requests -> Request]
         /\ req'[r].step = "answer" /\ req'[r].sess = s
         /\ \A q \in Requests \ {r} : req'[q] = req[q]
  <1> DEFINE m == [req[r] EXCEPT !.step = "answer", !.sess = s]
  <1>1. m \in Request /\ m.step = "answer" /\ m.sess = s
    BY DEF TypeOK, Request
  <1>2. req' = [req EXCEPT ![r] = m]
    BY DEF TypeOK, Answer
  <1> HIDE DEF m
  <1>3. QED
    BY <1>1, <1>2 DEF TypeOK

\* What Then does to them.
LEMMA Stepped ==
  ASSUME TypeOK, NEW r \in Requests, NEW o \in Committing \cup {"totp_setup"}, Then(r, o)
  PROVE  /\ req' \in [Requests -> Request]
         /\ req'[r].step = o /\ req'[r].sess = req[r].sess
         /\ \A q \in Requests \ {r} : req'[q] = req[q]
  <1> DEFINE m == [req[r] EXCEPT !.step = o]
  <1>1. m \in Request /\ m.step = o /\ m.sess = req[r].sess
    BY DEF TypeOK, Request, Committing, Steps
  <1>2. req' = [req EXCEPT ![r] = m]
    BY DEF TypeOK, Then
  <1> HIDE DEF m
  <1>3. QED
    BY <1>1, <1>2 DEF TypeOK

\* The sessions the handlers make have their type and one identity.
LEMMA LoggedInType ==
  ASSUME NEW u \in Users \cup {None}
  PROVE  LoggedIn(u) \in Session /\ LoggedIn(u).user = u /\ LoggedIn(u).pending = None
  <1>1. user_requires_mfa_setup(u) \in BOOLEAN
    BY DEF user_requires_mfa_setup, has_any_mfa
  <1>2. QED
    BY <1>1 DEF LoggedIn, Session, Empty

\* A handler that ends with a session of one identity keeps the invariants of
\* sessions and requests.
LEMMA EndsWell ==
  ASSUME IInv, NEW r \in Requests, loop \in {None, r}, loop' = None, UNCHANGED cookie,
         req' \in [Requests -> Request], req'[r].step = "answer",
         req'[r].sess.user = None \/ req'[r].sess.pending = None,
         \A q \in Requests \ {r} : req'[q] = req[q]
  PROVE  OneIdentity' /\ Signed' /\ Held' /\ \A q \in Requests : req'[q].step \notin Committing
  <1>1. \A q \in Requests \ {r} : req[q].step \notin Committing
    BY AccountsAssumption DEF IInv, Held
  <1>2. OneIdentity'
    BY DEF IInv, OneIdentity, Sessions
  <1>3. Signed'
    BY DEF IInv, Signed, UserSteps, Committing
  <1>4. \A q \in Requests : req'[q].step \notin Committing
    BY <1>1 DEF Committing
  <1>5. Held'
    BY <1>4 DEF Held
  <1>6. QED
    BY <1>2, <1>3, <1>4, <1>5

\* A handler that commits and goes on with its own session keeps them too.
LEMMA GoesOnWell ==
  ASSUME IInv, NEW r \in Requests, loop \in {None, r}, loop' = r, UNCHANGED cookie,
         req[r].step \in UserSteps,
         req' \in [Requests -> Request], req'[r].step \in Committing \cup {"totp_setup"},
         req'[r].sess.user = req[r].sess.user, req'[r].sess.pending = req[r].sess.pending,
         \A q \in Requests \ {r} : req'[q] = req[q]
  PROVE  OneIdentity' /\ Signed' /\ Held' /\ \A q \in Requests \ {r} : req'[q].step \notin Committing
  <1>1. \A q \in Requests \ {r} : req[q].step \notin Committing
    BY AccountsAssumption DEF IInv, Held
  <1>2. OneIdentity'
    BY DEF IInv, OneIdentity, Sessions
  <1>3. Signed'
    BY DEF IInv, Signed, UserSteps, Committing
  <1>4. Held'
    BY <1>1, AccountsAssumption DEF Held
  <1>5. QED
    BY <1>1, <1>2, <1>3, <1>4

\* No handler is between two commits when another request's handler starts.
LEMMA NobodyBetween ==
  ASSUME IInv, NEW r \in Requests, loop \in {None, r}, req[r].step \notin Committing
  PROVE  \A u, S : S \subseteq Committing => ~ Between(u, S)
  BY AccountsAssumption DEF Between

\* The codes and their TOTP are as they were, and no handler is between commits.
LEMMA SameCodes ==
  ASSUME IInv, NEW r \in Requests, loop \in {None, r}, req[r].step \notin Committing,
         UNCHANGED <<totp, code, minted, logins, cut>>,
         \A q \in Requests : req'[q].step \notin Committing
  PROVE  Confirmed' /\ Consumed' /\ CodesComeWithTotp' /\ TotpComesWithCodes'
  <1>1. \A u : ~ Between(u, {"disable"}) /\ ~ Between(u, {"codes", "batch"})
    BY NobodyBetween DEF Committing
  <1>2. Confirmed'
    BY DEF Confirmed, Committing
  <1>3. Consumed'
    BY DEF IInv, Consumed
  <1>4. \A u : CodesOf(u)' = CodesOf(u)
    BY DEF CodesOf
  <1>5. CodesComeWithTotp' /\ TotpComesWithCodes'
    BY <1>1, <1>4 DEF IInv, CodesComeWithTotp, TotpComesWithCodes
  <1>6. QED
    BY <1>2, <1>3, <1>5

\* A handler that ends and has changed at most users, enforcement or passkeys.
LEMMA AnswerInv ==
  ASSUME IInv, NEW r \in Requests, loop \in {None, r}, req[r].step \notin Committing,
         NEW s \in Session, s.user = None \/ s.pending = None, Answer(r, s),
         exists' \subseteq Users, enforced' \subseteq Users,
         passkey' \in [Passkeys -> Users \cup {None}],
         UNCHANGED <<totp, code, cookie, minted, logins, cut>>
  PROVE  IInv'
  <1>1. /\ req' \in [Requests -> Request]
        /\ req'[r].step = "answer" /\ req'[r].sess = s
        /\ \A q \in Requests \ {r} : req'[q] = req[q]
    BY Answered DEF IInv
  <1>2. OneIdentity' /\ Signed' /\ Held' /\ \A q \in Requests : req'[q].step \notin Committing
    BY <1>1, EndsWell DEF Answer
  <1>3. Confirmed' /\ Consumed' /\ CodesComeWithTotp' /\ TotpComesWithCodes'
    BY <1>2, SameCodes
  <1>4. TypeOK'
    BY <1>1 DEF IInv, TypeOK, Answer
  <1>5. QED
    BY <1>2, <1>3, <1>4 DEF IInv

\* The session a request carries has its type and one identity.
LEMMA OwnSession ==
  ASSUME IInv, NEW r \in Requests
  PROVE  req[r].sess \in Session /\ (req[r].sess.user = None \/ req[r].sess.pending = None)
  BY DEF IInv, TypeOK, Request, OneIdentity, Sessions

\* login preserves the invariant.
LEMMA loginInv ==
  ASSUME IInv, NEW r \in Requests, login(r)
  PROVE  IInv'
  <1>1. loop \in {None, r} /\ req[r].step \notin Committing
    BY DEF login, Runs, Committing
  <1>2. PICK s \in Session : Answer(r, s) /\ (s.user = None \/ s.pending = None)
    <2>1. CASE Answer(r, req[r].sess)
      BY <2>1, OwnSession
    <2>2. ASSUME NEW u \in exists,
                 Answer(r, IF has_any_mfa(u) THEN [Empty EXCEPT !.pending = u] ELSE LoggedIn(u))
          PROVE  \E s \in Session : Answer(r, s) /\ (s.user = None \/ s.pending = None)
      <3>1. u \in Users
        BY DEF IInv, TypeOK
      <3>2. [Empty EXCEPT !.pending = u] \in Session /\ [Empty EXCEPT !.pending = u].user = None
        BY <3>1 DEF Empty, Session
      <3>3. CASE has_any_mfa(u)
        BY <2>2, <3>2, <3>3
      <3>4. CASE ~ has_any_mfa(u)
        BY <2>2, <3>1, <3>4, LoggedInType
      <3>5. QED
        BY <3>3, <3>4
    <2>3. QED
      BY <2>1, <2>2 DEF login
  <1>3. QED
    BY <1>1, <1>2, AnswerInv DEF login, tables, IInv, TypeOK

\* signup preserves the invariant.
LEMMA signupInv ==
  ASSUME IInv, NEW r \in Requests, signup(r)
  PROVE  IInv'
  <1>1. loop \in {None, r} /\ req[r].step \notin Committing
    BY DEF signup, Runs, Committing
  <1>2. PICK s \in Session : Answer(r, s) /\ (s.user = None \/ s.pending = None)
    <2>1. \A u \in Users : /\ [Empty EXCEPT !.user = u] \in Session
                           /\ [Empty EXCEPT !.user = u].pending = None
      BY DEF Empty, Session
    <2>2. QED
      BY <2>1, OwnSession DEF signup
  <1>3. exists' \subseteq Users
    BY DEF signup, IInv, TypeOK
  <1>4. QED
    BY <1>1, <1>2, <1>3, AnswerInv DEF signup, IInv, TypeOK

\* Handlers that answer with the session they got, or with none, preserve it.
LEMMA plainInv ==
  ASSUME IInv, NEW r \in Requests, logout(r) \/ page(r)
  PROVE  IInv'
  <1>1. loop \in {None, r} /\ req[r].step \notin Committing
    BY DEF logout, page, Runs, Committing
  <1>2. PICK s \in Session : Answer(r, s) /\ (s.user = None \/ s.pending = None)
    <2>1. Empty \in Session /\ Empty.user = None
      BY DEF Empty, Session
    <2>2. QED
      BY <2>1, OwnSession DEF logout, page
  <1>3. QED
    BY <1>1, <1>2, AnswerInv DEF logout, page, tables, IInv, TypeOK

\* Setting the flag changes nobody's identity.
LEMMA FlaggedType ==
  ASSUME NEW s \in Session, NEW e
  PROVE  Flagged(s, e) \in Session /\ Flagged(s, e).user = s.user /\ Flagged(s, e).pending = s.pending
  BY DEF Flagged, Session

\* The handlers that change who has to have a second factor preserve it.
LEMMA EnforcementInv ==
  ASSUME IInv, NEW r \in Requests, Enforcement(r)
  PROVE  IInv'
  <1>1. loop \in {None, r} /\ req[r].step \notin Committing
    BY DEF Enforcement, organization_toggle_mfa, invite_accept, Runs, Committing
  <1>2. PICK s \in Session : Answer(r, s) /\ (s.user = None \/ s.pending = None)
    <2>1. PICK t \in Session : t = req[r].sess /\ (t.user = None \/ t.pending = None)
      BY OwnSession
    <2>2. Answer(r, t) \/ \E e : Answer(r, Flagged(t, e))
      BY <2>1 DEF Enforcement, organization_toggle_mfa, invite_accept
    <2>3. QED
      BY <2>1, <2>2, FlaggedType
  <1>3. /\ exists' \subseteq Users /\ enforced' \subseteq Users
        /\ passkey' \in [Passkeys -> Users \cup {None}]
        /\ UNCHANGED <<totp, code, cookie, minted, logins, cut>>
    BY DEF Enforcement, organization_toggle_mfa, invite_accept, IInv, TypeOK
  <1>4. QED
    BY <1>1, <1>2, <1>3, AnswerInv

\* Setting a challenge or clearing the flag changes nobody's identity.
LEMMA Edited ==
  ASSUME NEW s \in Session, s.user = None \/ s.pending = None, NEW x \in BOOLEAN
  PROVE  /\ [s EXCEPT !.challenge = x] \in Session
         /\ [s EXCEPT !.challenge = x].user = s.user
         /\ [s EXCEPT !.challenge = x].pending = s.pending
         /\ [s EXCEPT !.mfa_setup_required = FALSE] \in Session
         /\ [s EXCEPT !.mfa_setup_required = FALSE].user = s.user
         /\ [s EXCEPT !.mfa_setup_required = FALSE].pending = s.pending
  BY DEF Session

\* The passkey handlers preserve the invariant.
LEMMA passkeyInv ==
  ASSUME IInv, NEW r \in Requests,
         \/ passkey_begin(r) \/ passkey_register_complete(r)
         \/ passkey_auth_complete(r) \/ passkey_delete(r)
  PROVE  IInv'
  <1> DEFINE t == [req[r].sess EXCEPT !.challenge = FALSE]
             b == [req[r].sess EXCEPT !.challenge = TRUE]
             v == [t EXCEPT !.mfa_setup_required = FALSE]
  <1>1. loop \in {None, r} /\ req[r].step \notin Committing
    BY DEF passkey_begin, passkey_register_complete, passkey_auth_complete, passkey_delete,
           Runs, Committing
  <1>2. t \in Session /\ (t.user = None \/ t.pending = None)
    BY OwnSession, Edited
  <1>3. b \in Session /\ (b.user = None \/ b.pending = None)
    BY OwnSession, Edited
  <1>4. v \in Session /\ (v.user = None \/ v.pending = None)
    BY <1>2, Edited
  <1>5. t.user \in Users \cup {None} /\ t.pending \in Users \cup {None}
    BY <1>2 DEF Session
  <1>6. LoggedIn(t.pending) \in Session /\ LoggedIn(t.pending).pending = None
    BY <1>5, LoggedInType
  <1>7. \/ Answer(r, t) \/ Answer(r, b) \/ Answer(r, v)
        \/ Answer(r, LoggedIn(t.pending)) \/ Answer(r, req[r].sess)
    BY DEF passkey_begin, passkey_register_complete, passkey_auth_complete, passkey_delete
  <1>8. passkey' \in [Passkeys -> Users \cup {None}]
    <2>1. CASE passkey_register_complete(r)
      BY <2>1, <1>5 DEF passkey_register_complete, IInv, TypeOK
    <2>2. CASE passkey_begin(r) \/ passkey_auth_complete(r) \/ passkey_delete(r)
      BY <2>2 DEF passkey_begin, passkey_auth_complete, passkey_delete, tables, IInv, TypeOK
    <2>3. QED
      BY <2>1, <2>2
  <1>9. /\ exists' \subseteq Users /\ enforced' \subseteq Users
        /\ UNCHANGED <<totp, code, cookie, minted, logins, cut>>
    BY DEF passkey_begin, passkey_register_complete, passkey_auth_complete, passkey_delete,
           tables, IInv, TypeOK
  <1> HIDE DEF t, b, v
  <1>10. PICK s \in Session : Answer(r, s) /\ (s.user = None \/ s.pending = None)
    BY <1>2, <1>3, <1>4, <1>6, <1>7, OwnSession
  <1>11. QED
    BY <1>1, <1>8, <1>9, <1>10, AnswerInv

\* mfa_verify preserves the invariant: a code listed as unused has completed
\* no login yet.
LEMMA mfa_verifyInv ==
  ASSUME IInv, NEW r \in Requests, mfa_verify(r)
  PROVE  IInv'
  <1> DEFINE u == req[r].sess.pending
  <1>1. loop \in {None, r} /\ req[r].step \notin Committing /\ u \in Users
    BY DEF mfa_verify, Runs, Committing, IInv, Signed
  <1>2. LoggedIn(u) \in Session /\ LoggedIn(u).pending = None
    BY <1>1, LoggedInType
  <1>3. PICK s \in Session : Answer(r, s) /\ (s.user = None \/ s.pending = None)
    BY <1>2, OwnSession DEF mfa_verify
  <1>4. CASE UNCHANGED <<code, logins>>
    BY <1>1, <1>3, <1>4, AnswerInv DEF mfa_verify, IInv, TypeOK
  <1>5. ASSUME NEW c \in list_unused_by_user(u), mark_used(c),
               logins' = [logins EXCEPT ![c] = @ + 1]
        PROVE  IInv'
    <2>1. c \in Codes /\ code[c] # None /\ code[c] \in CodeRow /\ ~ code[c].used
      BY DEF list_unused_by_user, CodesOf, IInv, TypeOK
    <2>2. logins[c] = 0
      BY <2>1 DEF IInv, Consumed
    <2>3. [code[c] EXCEPT !.used = TRUE] \in CodeRow
      BY <2>1 DEF CodeRow
    <2>4. code' = [code EXCEPT ![c] = [code[c] EXCEPT !.used = TRUE]]
      BY <1>5 DEF mark_used, IInv, TypeOK
    <2>5. /\ req' \in [Requests -> Request]
          /\ req'[r].step = "answer" /\ req'[r].sess = s
          /\ \A q \in Requests \ {r} : req'[q] = req[q]
      BY <1>3, Answered DEF IInv
    <2>6. /\ OneIdentity' /\ Signed' /\ Held'
          /\ \A q \in Requests : req'[q].step \notin Committing
      BY <1>1, <1>3, <2>5, EndsWell DEF Answer, mfa_verify
    <2>7. TypeOK'
      BY <1>3, <1>5, <2>1, <2>3, <2>4, <2>5 DEF IInv, TypeOK, Answer, mfa_verify
    <2>8. Consumed'
      <3>1. logins \in [Codes -> Nat] /\ code \in [Codes -> CodeRow \cup {None}] /\ Consumed
        BY DEF IInv, TypeOK
      <3>2. code'[c] = [code[c] EXCEPT !.used = TRUE] /\ c \in minted /\ minted' = minted
        BY <2>1, <2>4, <3>1 DEF Consumed, mfa_verify
      <3>3. code'[c].used
        BY <2>1, <3>2 DEF CodeRow
      <3>4. \A x \in Codes \ {c} : logins'[x] = logins[x] /\ code'[x] = code[x]
        BY <1>5, <2>4, <3>1
      <3>5. QED
        <4>1. logins'[c] = 1
          BY <1>5, <2>1, <2>2, <3>1
        <4>2. SUFFICES ASSUME NEW x \in Codes
              PROVE  /\ code'[x] # None => x \in minted'
                     /\ logins'[x] # 0 => x \in minted' /\ (code'[x] # None => code'[x].used)
                     /\ logins'[x] <= 1
          BY DEF Consumed
        <4>3. CASE x = c
          <5>1. logins'[x] <= 1
            BY <4>1, <4>3
          <5>2. QED
            BY <3>2, <3>3, <4>3, <5>1
        <4>4. CASE x # c
          BY <3>1, <3>2, <3>4, <4>4 DEF Consumed
        <4>5. QED
          BY <4>3, <4>4
    <2>9. \A x : CodesOf(x)' = CodesOf(x)
      <3>1. code \in [Codes -> CodeRow \cup {None}]
        BY DEF IInv, TypeOK
      <3>2. code'[c] # None /\ code'[c].user = code[c].user
        BY <2>1, <2>3, <2>4, <3>1, NoneAssumption DEF CodeRow
      <3>3. \A y \in Codes \ {c} : code'[y] = code[y]
        BY <2>4, <3>1
      <3>4. QED
        BY <2>1, <3>2, <3>3 DEF CodesOf
    <2>10. \A x : ~ Between(x, {"disable"}) /\ ~ Between(x, {"codes", "batch"})
      BY <1>1, NobodyBetween DEF Committing
    <2>11. CodesComeWithTotp' /\ TotpComesWithCodes'
      BY <2>9, <2>10 DEF IInv, CodesComeWithTotp, TotpComesWithCodes, mfa_verify
    <2>12. Confirmed'
      BY <2>6 DEF Confirmed, Committing
    <2>13. QED
      BY <2>6, <2>7, <2>8, <2>11, <2>12 DEF IInv
  <1>6. QED
    BY <1>4, <1>5 DEF mfa_verify

\* totp_setup_page preserves the invariant.
LEMMA totp_setup_pageInv ==
  ASSUME IInv, NEW r \in Requests, totp_setup_page(r)
  PROVE  IInv'
  <1> DEFINE u == req[r].sess.user
  <1>1. loop \in {None, r} /\ req[r].step = "totp_setup" /\ u \in Users
    BY DEF totp_setup_page, Runs, IInv, Signed, UserSteps
  <1>2. /\ UNCHANGED <<exists, enforced, code, passkey, cookie, minted, logins, cut>>
        /\ totp' \in [Users -> {"none", "pending", "confirmed"}]
        /\ \A x \in Users : totp'[x] = "confirmed" <=> totp[x] = "confirmed"
    BY <1>1 DEF totp_setup_page, IInv, TypeOK
  <1>3. Answer(r, req[r].sess) \/ Then(r, "totp_setup")
    BY DEF totp_setup_page
  <1>4. /\ req' \in [Requests -> Request] /\ loop' \in {None, r}
        /\ OneIdentity' /\ Signed' /\ Held'
        /\ \A q \in Requests : req'[q].step \notin Committing
    <2>1. CASE Answer(r, req[r].sess)
      <3>1. PICK s \in Session : s = req[r].sess /\ (s.user = None \/ s.pending = None)
        BY OwnSession
      <3>2. Answer(r, s)
        BY <2>1, <3>1
      <3>3. /\ req' \in [Requests -> Request]
            /\ req'[r].step = "answer" /\ req'[r].sess = s
            /\ \A q \in Requests \ {r} : req'[q] = req[q]
        BY <3>1, <3>2, Answered DEF IInv
      <3>4. loop' = None
        BY <2>1 DEF Answer
      <3>5. QED
        BY <1>1, <1>2, <3>1, <3>3, <3>4, EndsWell
    <2>2. CASE Then(r, "totp_setup")
      <3>1. /\ req' \in [Requests -> Request]
            /\ req'[r].step = "totp_setup" /\ req'[r].sess = req[r].sess
            /\ \A q \in Requests \ {r} : req'[q] = req[q]
        BY <2>2, Stepped DEF IInv
      <3>2. loop' = r
        BY <2>2 DEF Then
      <3>3. QED
        BY <1>1, <1>2, <3>1, <3>2, GoesOnWell DEF UserSteps, Committing
    <2>3. QED
      BY <1>3, <2>1, <2>2
  <1>5. TypeOK'
    BY <1>2, <1>4 DEF IInv, TypeOK
  <1>6. \A x : ~ Between(x, {"disable"}) /\ ~ Between(x, {"codes", "batch"})
    BY <1>1, NobodyBetween DEF Committing
  <1>7. \A x : CodesOf(x)' = CodesOf(x)
    BY <1>2 DEF CodesOf
  <1>8. CodesComeWithTotp' /\ TotpComesWithCodes'
    BY <1>2, <1>6, <1>7 DEF IInv, CodesComeWithTotp, TotpComesWithCodes
  <1>9. Confirmed' /\ Consumed'
    BY <1>2, <1>4 DEF IInv, Confirmed, Consumed, Committing
  <1>10. QED
    BY <1>4, <1>5, <1>8, <1>9 DEF IInv

\* totp_confirm preserves the invariant: what it commits is half done.
LEMMA totp_confirmInv ==
  ASSUME IInv, NEW r \in Requests, totp_confirm(r)
  PROVE  IInv'
  <1> DEFINE u == req[r].sess.user
  <1>1. loop \in {None, r} /\ req[r].step = "totp_confirm" /\ u \in Users
    BY DEF totp_confirm, Runs, IInv, Signed, UserSteps
  <1>2. CASE Answer(r, req[r].sess) /\ UNCHANGED totp
    <2>1. PICK s \in Session : s = req[r].sess /\ (s.user = None \/ s.pending = None)
      BY OwnSession
    <2>2. Answer(r, s)
      BY <1>2, <2>1
    <2>3. QED
      BY <1>1, <1>2, <2>1, <2>2, AnswerInv DEF totp_confirm, IInv, TypeOK, Committing
  <1>3. CASE /\ totp[u] = "pending" /\ totp' = [totp EXCEPT ![u] = "confirmed"]
             /\ req' = [req EXCEPT ![r].step = "codes", ![r].sess.mfa_setup_required = FALSE]
             /\ loop' = r
    <2> DEFINE t == [req[r].sess EXCEPT !.mfa_setup_required = FALSE]
               m == [req[r] EXCEPT !.step = "codes", !.sess = t]
    <2>1. t \in Session /\ t.user = u /\ t.pending = req[r].sess.pending
      BY OwnSession, Edited
    <2>2. req' = [req EXCEPT ![r] = m]
      BY <1>3 DEF IInv, TypeOK, Request
    <2> HIDE DEF t
    <2>3. m \in Request /\ m.step = "codes" /\ m.sess = t
      BY <2>1 DEF IInv, TypeOK, Request
    <2> HIDE DEF m
    <2>4. /\ req' \in [Requests -> Request] /\ req'[r].step = "codes"
          /\ req'[r].sess.user = u /\ req'[r].sess.pending = req[r].sess.pending
          /\ \A q \in Requests \ {r} : req'[q] = req[q]
      BY <2>1, <2>2, <2>3 DEF IInv, TypeOK
    <2>5. /\ OneIdentity' /\ Signed' /\ Held'
          /\ \A q \in Requests \ {r} : req'[q].step \notin Committing
      BY <1>1, <1>3, <2>4, GoesOnWell DEF totp_confirm, UserSteps, Committing
    <2>6. TypeOK'
      BY <1>1, <1>3, <2>4 DEF totp_confirm, IInv, TypeOK
    <2>7. \A x : ~ Between(x, {"disable"}) /\ ~ Between(x, {"codes", "batch"})
      BY <1>1, NobodyBetween DEF Committing
    <2>8. \A x : CodesOf(x)' = CodesOf(x)
      BY DEF totp_confirm, CodesOf
    <2>9. CodesComeWithTotp'
      BY <1>1, <1>3, <2>7, <2>8 DEF totp_confirm, IInv, TypeOK, CodesComeWithTotp
    <2>10. TotpComesWithCodes'
      <3> SUFFICES ASSUME NEW x \in Users, totp'[x] = "confirmed"
                   PROVE  CodesOf(x)' # {} \/ Between(x, {"codes", "batch"})' \/ x \in cut'
        BY DEF TotpComesWithCodes
      <3>1. CASE x = u
        BY <3>1, <1>3, <2>4, AccountsAssumption DEF Between
      <3>2. CASE x # u
        BY <3>2, <1>1, <1>3, <2>7, <2>8 DEF totp_confirm, IInv, TypeOK, TotpComesWithCodes
      <3>3. QED
        BY <3>1, <3>2
    <2>11. Confirmed'
      BY <1>1, <1>3, <2>4, <2>5 DEF Confirmed, Committing, IInv, TypeOK
    <2>12. Consumed'
      BY DEF totp_confirm, IInv, Consumed
    <2>13. QED
      BY <2>5, <2>6, <2>9, <2>10, <2>11, <2>12 DEF IInv
  <1>4. QED
    BY <1>2, <1>3 DEF totp_confirm

\* regenerate_recovery_codes preserves the invariant.
LEMMA regenerateInv ==
  ASSUME IInv, NEW r \in Requests, regenerate_recovery_codes(r)
  PROVE  IInv'
  <1> DEFINE u == req[r].sess.user
  <1>1. loop \in {None, r} /\ req[r].step = "regenerate" /\ u \in Users
    BY DEF regenerate_recovery_codes, Runs, IInv, Signed, UserSteps
  <1>2. CASE Answer(r, req[r].sess)
    <2>1. PICK s \in Session : s = req[r].sess /\ (s.user = None \/ s.pending = None)
      BY OwnSession
    <2>2. Answer(r, s)
      BY <1>2, <2>1
    <2>3. QED
      BY <1>1, <2>1, <2>2, AnswerInv
         DEF regenerate_recovery_codes, tables, IInv, TypeOK, Committing
  <1>3. CASE totp[u] = "confirmed" /\ Then(r, "codes")
    <2>1. /\ req' \in [Requests -> Request]
          /\ req'[r].step = "codes" /\ req'[r].sess = req[r].sess
          /\ \A q \in Requests \ {r} : req'[q] = req[q]
      BY <1>3, Stepped DEF IInv, Committing
    <2>2. loop' = r /\ UNCHANGED <<exists, enforced, totp, code, passkey, cookie, minted, logins, cut>>
      BY <1>3 DEF Then, regenerate_recovery_codes, tables
    <2>3. /\ OneIdentity' /\ Signed' /\ Held'
          /\ \A q \in Requests \ {r} : req'[q].step \notin Committing
      BY <1>1, <2>1, <2>2, GoesOnWell DEF UserSteps, Committing
    <2>4. TypeOK'
      BY <2>1, <2>2 DEF IInv, TypeOK
    <2>5. \A x : ~ Between(x, {"disable"}) /\ ~ Between(x, {"codes", "batch"})
      BY <1>1, NobodyBetween DEF Committing
    <2>6. \A x : CodesOf(x)' = CodesOf(x)
      BY <2>2 DEF CodesOf
    <2>7. CodesComeWithTotp' /\ TotpComesWithCodes'
      BY <2>2, <2>5, <2>6 DEF IInv, CodesComeWithTotp, TotpComesWithCodes
    <2>8. Confirmed' /\ Consumed'
      BY <1>3, <2>1, <2>2, <2>3 DEF IInv, Confirmed, Consumed, Committing
    <2>9. QED
      BY <2>3, <2>4, <2>7, <2>8 DEF IInv
  <1>4. QED
    BY <1>2, <1>3 DEF regenerate_recovery_codes

\* totp_disable preserves the invariant: the codes left are half done.
LEMMA totp_disableInv ==
  ASSUME IInv, NEW r \in Requests, totp_disable(r)
  PROVE  IInv'
  <1> DEFINE u == req[r].sess.user
  <1>1. loop \in {None, r} /\ req[r].step = "totp_disable" /\ u \in Users
    BY DEF totp_disable, Runs, IInv, Signed, UserSteps
  <1>2. CASE Answer(r, req[r].sess) /\ UNCHANGED totp
    <2>1. PICK s \in Session : s = req[r].sess /\ (s.user = None \/ s.pending = None)
      BY OwnSession
    <2>2. Answer(r, s)
      BY <1>2, <2>1
    <2>3. QED
      BY <1>1, <1>2, <2>1, <2>2, AnswerInv DEF totp_disable, IInv, TypeOK, Committing
  <1>3. CASE totp' = [totp EXCEPT ![u] = "none"] /\ Then(r, "disable")
    <2>1. /\ req' \in [Requests -> Request]
          /\ req'[r].step = "disable" /\ req'[r].sess = req[r].sess
          /\ \A q \in Requests \ {r} : req'[q] = req[q]
      BY <1>3, Stepped DEF IInv, Committing
    <2>2. loop' = r /\ UNCHANGED <<exists, enforced, code, passkey, cookie, minted, logins, cut>>
      BY <1>3 DEF Then, totp_disable
    <2>3. /\ OneIdentity' /\ Signed' /\ Held'
          /\ \A q \in Requests \ {r} : req'[q].step \notin Committing
      BY <1>1, <2>1, <2>2, GoesOnWell DEF UserSteps, Committing
    <2>4. TypeOK'
      BY <1>1, <1>3, <2>1, <2>2 DEF IInv, TypeOK
    <2>5. \A x : ~ Between(x, {"disable"}) /\ ~ Between(x, {"codes", "batch"})
      BY <1>1, NobodyBetween DEF Committing
    <2>6. \A x : CodesOf(x)' = CodesOf(x)
      BY <2>2 DEF CodesOf
    <2>7. TotpComesWithCodes'
      BY <1>1, <1>3, <2>2, <2>5, <2>6 DEF IInv, TypeOK, TotpComesWithCodes
    <2>8. CodesComeWithTotp'
      <3> SUFFICES ASSUME NEW x \in Users, CodesOf(x)' # {}
                   PROVE  totp'[x] = "confirmed" \/ Between(x, {"disable"})' \/ x \in cut'
        BY DEF CodesComeWithTotp
      <3>1. CASE x = u
        BY <3>1, <2>1, <2>2, AccountsAssumption DEF Between
      <3>2. CASE x # u
        BY <3>2, <1>1, <1>3, <2>2, <2>5, <2>6 DEF IInv, TypeOK, CodesComeWithTotp
      <3>3. QED
        BY <3>1, <3>2
    <2>9. Confirmed'
      BY <1>1, <1>3, <2>1, <2>3 DEF Confirmed, Committing, IInv, TypeOK
    <2>10. Consumed'
      BY <2>2 DEF IInv, Consumed
    <2>11. QED
      BY <2>3, <2>4, <2>7, <2>8, <2>9, <2>10 DEF IInv
  <1>4. QED
    BY <1>2, <1>3 DEF totp_disable

\* delete_all_by_user takes the user's codes and nobody else's.
LEMMA DeletedCodes ==
  ASSUME IInv, NEW u \in Users, delete_all_by_user(u), UNCHANGED <<minted, logins>>
  PROVE  /\ code' \in [Codes -> CodeRow \cup {None}]
         /\ CodesOf(u)' = {} /\ (\A x \in Users \ {u} : CodesOf(x)' = CodesOf(x))
         /\ Consumed'
  <1>1. code' \in [Codes -> CodeRow \cup {None}]
    BY DEF IInv, TypeOK, delete_all_by_user
  <1>2. CodesOf(u)' = {}
    BY DEF IInv, TypeOK, delete_all_by_user, CodesOf
  <1>3. \A x \in Users \ {u} : CodesOf(x)' = CodesOf(x)
    BY DEF IInv, TypeOK, delete_all_by_user, CodesOf
  <1>4. Consumed'
    BY DEF IInv, TypeOK, delete_all_by_user, Consumed
  <1>5. QED
    BY <1>1, <1>2, <1>3, <1>4

\* DeleteCodes preserves the invariant.
LEMMA DeleteCodesInv ==
  ASSUME IInv, NEW r \in Requests, DeleteCodes(r)
  PROVE  IInv'
  <1>1. loop = r /\ req[r].step = "codes" /\ req[r].sess.user \in Users
    BY DEF DeleteCodes, Runs, IInv, Signed, Held, UserSteps, Committing
  <1>2. PICK u \in Users : u = req[r].sess.user
    BY <1>1
  <1>3. totp[u] = "confirmed"
    BY <1>1, <1>2 DEF IInv, Confirmed
  <1>4. UNCHANGED <<exists, enforced, totp, passkey, cookie, minted, logins, cut>>
    BY DEF DeleteCodes
  <1>5. delete_all_by_user(u)
    BY <1>2 DEF DeleteCodes
  <1>6. /\ code' \in [Codes -> CodeRow \cup {None}]
        /\ CodesOf(u)' = {} /\ (\A x \in Users \ {u} : CodesOf(x)' = CodesOf(x))
        /\ Consumed'
    BY <1>4, <1>5, DeletedCodes
  <1>7. /\ req' \in [Requests -> Request] /\ loop' = r
        /\ req'[r].step = "batch" /\ req'[r].sess = req[r].sess
        /\ \A q \in Requests \ {r} : req'[q] = req[q]
    BY Stepped DEF DeleteCodes, Then, IInv, Committing
  <1>8. /\ OneIdentity' /\ Signed' /\ Held'
        /\ \A q \in Requests \ {r} : req'[q].step \notin Committing
    BY <1>1, <1>4, <1>7, GoesOnWell DEF UserSteps, Committing
  <1>9. TypeOK'
    BY <1>4, <1>6, <1>7 DEF IInv, TypeOK
  <1>10. \A x : ~ Between(x, {"disable"}) /\ (Between(x, {"codes", "batch"}) => x = u)
    BY <1>1, <1>2 DEF Between
  <1>11. CodesComeWithTotp'
    BY <1>3, <1>4, <1>6, <1>10 DEF IInv, CodesComeWithTotp
  <1>12. Between(u, {"codes", "batch"})'
    BY <1>2, <1>7, AccountsAssumption DEF Between
  <1>13. TotpComesWithCodes'
    BY <1>4, <1>6, <1>10, <1>12 DEF IInv, TotpComesWithCodes
  <1>14. Confirmed'
    BY <1>2, <1>3, <1>4, <1>7, <1>8 DEF Confirmed, Committing
  <1>15. QED
    BY <1>6, <1>8, <1>9, <1>11, <1>13, <1>14 DEF IInv

\* CreateCodes preserves the invariant: the codes drawn are new, and there is
\* at least one.
LEMMA CreateCodesInv ==
  ASSUME IInv, NEW r \in Requests, CreateCodes(r)
  PROVE  IInv'
  <1>1. loop = r /\ req[r].step = "batch" /\ req[r].sess.user \in Users
    BY DEF CreateCodes, Runs, IInv, Signed, Held, UserSteps, Committing
  <1>2. PICK u \in Users : u = req[r].sess.user
    BY <1>1
  <1>3. totp[u] = "confirmed"
    BY <1>1, <1>2 DEF IInv, Confirmed
  <1>4. UNCHANGED <<exists, enforced, totp, passkey, cookie, logins>> /\ cut' = cut \ {u}
    BY <1>2 DEF CreateCodes
  <1>5. PICK batch \in SUBSET (Codes \ minted) :
            /\ Cardinality(batch) = BatchSize
            /\ code' = [c \in Codes |-> IF c \in batch THEN [user |-> u, used |-> FALSE]
                                                        ELSE code[c]]
            /\ minted' = minted \cup batch
    BY <1>2 DEF CreateCodes, create_batch
  <1>6. batch # {}
    BY <1>5, FS_EmptySet, AccountsAssumption
  <1>7. [user |-> u, used |-> FALSE] \in CodeRow
    BY DEF CodeRow
  <1>8. code' \in [Codes -> CodeRow \cup {None}] /\ minted' \subseteq Codes
    BY <1>5, <1>7 DEF IInv, TypeOK
  <1>9. CodesOf(u)' # {}
    BY <1>5, <1>6, <1>7, NoneAssumption DEF CodesOf
  <1>10. \A x \in Users \ {u} : CodesOf(x)' = CodesOf(x)
    BY <1>5 DEF IInv, Consumed, CodesOf
  <1>11. Consumed'
    BY <1>4, <1>5 DEF IInv, TypeOK, Consumed
  <1>12. PICK s \in Session : s = req[r].sess /\ (s.user = None \/ s.pending = None)
    BY OwnSession
  <1>13. Answer(r, s)
    BY <1>12 DEF CreateCodes
  <1>14. /\ req' \in [Requests -> Request] /\ loop' = None
         /\ req'[r].step = "answer" /\ req'[r].sess = s
         /\ \A q \in Requests \ {r} : req'[q] = req[q]
    BY <1>13, Answered DEF Answer, IInv
  <1>15. OneIdentity' /\ Signed' /\ Held' /\ \A q \in Requests : req'[q].step \notin Committing
    BY <1>1, <1>4, <1>12, <1>14, EndsWell
  <1>16. TypeOK'
    BY <1>4, <1>8, <1>14 DEF IInv, TypeOK
  <1>17. \A x : ~ Between(x, {"disable"}) /\ (Between(x, {"codes", "batch"}) => x = u)
    BY <1>1, <1>2 DEF Between
  <1>18. CodesComeWithTotp'
    BY <1>3, <1>4, <1>10, <1>17 DEF IInv, CodesComeWithTotp
  <1>19. TotpComesWithCodes'
    BY <1>4, <1>9, <1>10, <1>17 DEF IInv, TotpComesWithCodes
  <1>20. Confirmed'
    BY <1>15 DEF Confirmed, Committing
  <1>21. QED
    BY <1>11, <1>15, <1>16, <1>18, <1>19, <1>20 DEF IInv

\* DisableCodes preserves the invariant.
LEMMA DisableCodesInv ==
  ASSUME IInv, NEW r \in Requests, DisableCodes(r)
  PROVE  IInv'
  <1>1. loop = r /\ req[r].step = "disable" /\ req[r].sess.user \in Users
    BY DEF DisableCodes, Runs, IInv, Signed, Held, UserSteps, Committing
  <1>2. PICK u \in Users : u = req[r].sess.user
    BY <1>1
  <1>3. totp[u] # "confirmed"
    BY <1>1, <1>2 DEF IInv, Confirmed
  <1>4. /\ UNCHANGED <<exists, enforced, totp, passkey, cookie, minted, logins>>
        /\ cut' = cut \ {u} /\ delete_all_by_user(u)
    BY <1>2 DEF DisableCodes
  <1>5. /\ code' \in [Codes -> CodeRow \cup {None}]
        /\ CodesOf(u)' = {} /\ (\A x \in Users \ {u} : CodesOf(x)' = CodesOf(x))
        /\ Consumed'
    BY <1>4, DeletedCodes
  <1>6. PICK s \in Session : s = req[r].sess /\ (s.user = None \/ s.pending = None)
    BY OwnSession
  <1>7. Answer(r, s)
    BY <1>6 DEF DisableCodes
  <1>8. /\ req' \in [Requests -> Request] /\ loop' = None
        /\ req'[r].step = "answer" /\ req'[r].sess = s
        /\ \A q \in Requests \ {r} : req'[q] = req[q]
    BY <1>7, Answered DEF Answer, IInv
  <1>9. OneIdentity' /\ Signed' /\ Held' /\ \A q \in Requests : req'[q].step \notin Committing
    BY <1>1, <1>4, <1>6, <1>8, EndsWell
  <1>10. TypeOK'
    BY <1>4, <1>5, <1>8 DEF IInv, TypeOK
  <1>11. \A x : ~ Between(x, {"codes", "batch"}) /\ (Between(x, {"disable"}) => x = u)
    BY <1>1, <1>2 DEF Between
  <1>12. CodesComeWithTotp'
    BY <1>4, <1>5, <1>11 DEF IInv, CodesComeWithTotp
  <1>13. TotpComesWithCodes'
    BY <1>3, <1>4, <1>5, <1>11 DEF IInv, TotpComesWithCodes
  <1>14. Confirmed'
    BY <1>9 DEF Confirmed, Committing
  <1>15. QED
    BY <1>5, <1>9, <1>10, <1>12, <1>13, <1>14 DEF IInv

\* send preserves the invariant.
LEMMA sendInv ==
  ASSUME IInv, NEW r \in Requests, NEW w \in Browsers, NEW o \in Steps, send(r, w, o)
  PROVE  IInv'
  <1> DEFINE m == [step |-> o, browser |-> w, sess |-> cookie[w]]
  <1>1. m \in Request /\ m.step = o /\ m.sess = cookie[w] /\ cookie[w] \in Session
    BY DEF IInv, TypeOK, Request
  <1>2. req' = [req EXCEPT ![r] = m] /\ Allowed(o, cookie[w]) /\ req[r].step = "idle"
    BY DEF send
  <1> HIDE DEF m
  <1>3. /\ req' \in [Requests -> Request] /\ req'[r].step = o /\ req'[r].sess = cookie[w]
        /\ \A q \in Requests \ {r} : req'[q] = req[q]
    BY <1>1, <1>2 DEF IInv, TypeOK
  <1>4. UNCHANGED <<exists, enforced, totp, code, passkey, cookie, loop, minted, logins, cut>>
    BY DEF send, tables
  <1>5. o \notin Committing /\ loop # r
    BY <1>2, AccountsAssumption DEF Steps, Committing, IInv, Held
  <1>6. TypeOK'
    BY <1>3, <1>4 DEF IInv, TypeOK
  <1>7. OneIdentity'
    BY <1>3, <1>4 DEF IInv, OneIdentity, Sessions
  <1>8. /\ o \in UserSteps => cookie[w].user \in Users
        /\ o \in {"mfa_verify", "auth_complete"} => cookie[w].pending \in Users
    BY <1>1, <1>2, <1>5 DEF Allowed, Session, UserSteps
  <1>9. Signed'
    BY <1>3, <1>8 DEF IInv, Signed
  <1>10. Held'
    BY <1>3, <1>4, <1>5 DEF IInv, TypeOK, Held
  <1>11. \A x, S : Between(x, S)' <=> Between(x, S)
    BY <1>3, <1>4, <1>5 DEF Between, IInv, TypeOK
  <1>12. \A x : CodesOf(x)' = CodesOf(x)
    BY <1>4 DEF CodesOf
  <1>13. CodesComeWithTotp' /\ TotpComesWithCodes'
    BY <1>4, <1>11, <1>12 DEF IInv, CodesComeWithTotp, TotpComesWithCodes
  <1>14. Confirmed' /\ Consumed'
    BY <1>3, <1>4, <1>5 DEF IInv, Confirmed, Consumed, Committing
  <1>15. QED
    BY <1>6, <1>7, <1>9, <1>10, <1>13, <1>14 DEF IInv

\* A request that ends leaves an idle slot.
LEMMA Ended ==
  ASSUME TypeOK, NEW r \in Requests, req' = [req EXCEPT ![r] = Idle]
  PROVE  /\ req' \in [Requests -> Request]
         /\ req'[r].step = "idle" /\ req'[r].sess = Empty
         /\ \A q \in Requests \ {r} : req'[q] = req[q]
         /\ Empty.user = None
  <1>1. Empty \in Session /\ Empty.user = None
    BY DEF Empty, Session
  <1>2. Idle \in Request /\ Idle.step = "idle" /\ Idle.sess = Empty
    BY <1>1 DEF Idle, Request
  <1>3. QED
    BY <1>1, <1>2 DEF TypeOK

\* deliver preserves the invariant: a late answer brings a whole session.
LEMMA deliverInv ==
  ASSUME IInv, NEW r \in Requests, deliver(r)
  PROVE  IInv'
  <1>1. /\ req' \in [Requests -> Request]
        /\ req'[r].step = "idle" /\ req'[r].sess = Empty
        /\ \A q \in Requests \ {r} : req'[q] = req[q]
        /\ Empty.user = None
    BY Ended DEF IInv, deliver
  <1>2. UNCHANGED <<exists, enforced, totp, code, passkey, loop, minted, logins, cut>>
    BY DEF deliver, tables
  <1>3. loop # r
    BY AccountsAssumption DEF deliver, IInv, Held, Committing
  <1>4. /\ cookie' \in [Browsers -> Session]
        /\ \A w \in Browsers : cookie'[w] \in {cookie[w], req[r].sess}
    BY OwnSession DEF deliver, IInv, TypeOK
  <1>5. TypeOK'
    BY <1>1, <1>2, <1>4 DEF IInv, TypeOK
  <1>6. OneIdentity'
    BY <1>1, <1>4 DEF IInv, OneIdentity, Sessions
  <1>7. Signed'
    BY <1>1 DEF IInv, Signed, UserSteps, Committing
  <1>8. Held'
    BY <1>1, <1>2, <1>3 DEF IInv, TypeOK, Held, Committing
  <1>9. \A x, S : Between(x, S)' <=> Between(x, S)
    BY <1>1, <1>2, <1>3 DEF Between, IInv, TypeOK
  <1>10. \A x : CodesOf(x)' = CodesOf(x)
    BY <1>2 DEF CodesOf
  <1>11. CodesComeWithTotp' /\ TotpComesWithCodes'
    BY <1>2, <1>9, <1>10 DEF IInv, CodesComeWithTotp, TotpComesWithCodes
  <1>12. Confirmed' /\ Consumed'
    BY <1>1, <1>2 DEF IInv, Confirmed, Consumed
  <1>13. QED
    BY <1>5, <1>6, <1>7, <1>8, <1>11, <1>12 DEF IInv

\* Fail preserves the invariant: whose handler was cut is remembered.
LEMMA FailInv ==
  ASSUME IInv, NEW r \in Requests, Fail(r)
  PROVE  IInv'
  <1>1. /\ req' \in [Requests -> Request]
        /\ req'[r].step = "idle" /\ req'[r].sess = Empty
        /\ \A q \in Requests \ {r} : req'[q] = req[q]
        /\ Empty.user = None
    BY Ended DEF IInv, Fail
  <1>2. UNCHANGED <<exists, enforced, totp, code, passkey, cookie, minted, logins>>
    BY DEF Fail, tables
  <1>3. /\ cut \subseteq cut' /\ cut' \subseteq Users
        /\ req[r].step \in Committing => req[r].sess.user \in cut'
    BY DEF Fail, IInv, TypeOK, Signed, UserSteps, Committing
  <1>4. loop' \in Requests \cup {None} /\ loop' # r /\ loop' \in {loop, None}
        /\ (loop # r => loop' = loop)
    BY AccountsAssumption DEF Fail, IInv, TypeOK
  <1>5. TypeOK'
    BY <1>1, <1>2, <1>3, <1>4 DEF IInv, TypeOK
  <1>6. OneIdentity'
    BY <1>1, <1>2 DEF IInv, OneIdentity, Sessions
  <1>7. Signed'
    BY <1>1 DEF IInv, Signed, UserSteps, Committing
  <1>8. Held'
    BY <1>1, <1>4 DEF IInv, TypeOK, Held, Committing
  <1>9. \A x, S : S \subseteq Committing /\ Between(x, S) => Between(x, S)' \/ x \in cut'
    BY <1>1, <1>3, <1>4 DEF Between, IInv, TypeOK
  <1>10. \A x : /\ Between(x, {"disable"}) => Between(x, {"disable"})' \/ x \in cut'
                /\ Between(x, {"codes", "batch"}) => Between(x, {"codes", "batch"})' \/ x \in cut'
    BY <1>9 DEF Committing
  <1>11. \A x : CodesOf(x)' = CodesOf(x)
    BY <1>2 DEF CodesOf
  <1>12. CodesComeWithTotp' /\ TotpComesWithCodes'
    BY <1>2, <1>3, <1>10, <1>11 DEF IInv, CodesComeWithTotp, TotpComesWithCodes
  <1>13. Confirmed' /\ Consumed'
    BY <1>1, <1>2 DEF IInv, Confirmed, Consumed
  <1>14. QED
    BY <1>5, <1>6, <1>7, <1>8, <1>12, <1>13 DEF IInv

\* The steps of the command line and of the organizations preserve it, and so
\* does a step that changes nothing.
LEMMA OtherInv ==
  ASSUME IInv, exists' \subseteq Users, enforced' \subseteq Users,
         UNCHANGED <<totp, code, passkey, cookie, req, loop, minted, logins, cut>>
  PROVE  IInv'
  <1>1. TypeOK'
    BY DEF IInv, TypeOK
  <1>2. OneIdentity' /\ Signed' /\ Held'
    BY DEF IInv, OneIdentity, Sessions, Signed, Held
  <1>3. Confirmed' /\ Consumed'
    BY DEF IInv, Confirmed, Consumed
  <1>4. \A x : CodesOf(x)' = CodesOf(x)
    BY DEF CodesOf
  <1>5. \A x, S : Between(x, S)' <=> Between(x, S)
    BY DEF Between
  <1>6. CodesComeWithTotp' /\ TotpComesWithCodes'
    BY <1>4, <1>5 DEF IInv, CodesComeWithTotp, TotpComesWithCodes
  <1>7. QED
    BY <1>1, <1>2, <1>3, <1>6 DEF IInv

-----------------------------------------------------------------------------
(* The theorems.                                                            *)

\* The first state satisfies the invariant.
LEMMA InitInv == Init => IInv
  <1> SUFFICES ASSUME Init PROVE IInv
    OBVIOUS
  <1>1. Empty \in Session /\ Empty.user = None
    BY DEF Empty, Session
  <1>2. Idle \in Request /\ Idle.step = "idle" /\ Idle.sess = Empty
    BY <1>1 DEF Idle, Request
  <1>3. TypeOK
    BY <1>1, <1>2 DEF Init, TypeOK
  <1>4. OneIdentity
    BY <1>1, <1>2 DEF Init, OneIdentity, Sessions
  <1>5. Signed /\ Held /\ Confirmed
    BY <1>2 DEF Init, Signed, Held, Confirmed, UserSteps, Committing
  <1>6. Consumed
    BY DEF Init, Consumed
  <1>7. CodesComeWithTotp /\ TotpComesWithCodes
    BY DEF Init, CodesComeWithTotp, TotpComesWithCodes, CodesOf
  <1>8. QED
    BY <1>3, <1>4, <1>5, <1>6, <1>7 DEF IInv

\* Every step preserves it.
LEMMA NextInv == IInv /\ [Next]_vars => IInv'
  <1> SUFFICES ASSUME IInv, [Next]_vars PROVE IInv'
    OBVIOUS
  <1>1. ASSUME NEW r \in Requests, NEW w \in Browsers, NEW o \in Steps, send(r, w, o)
        PROVE  IInv'
    BY <1>1, sendInv
  <1>2. ASSUME NEW r \in Requests, Auth(r) PROVE IInv'
    BY <1>2, loginInv, signupInv, mfa_verifyInv, plainInv DEF Auth
  <1>7. ASSUME NEW r \in Requests, Enforcement(r) PROVE IInv'
    BY <1>7, EnforcementInv
  <1>3. ASSUME NEW r \in Requests, Security(r) PROVE IInv'
    BY <1>3, totp_setup_pageInv, totp_confirmInv, totp_disableInv, regenerateInv,
       DeleteCodesInv, CreateCodesInv, DisableCodesInv, passkeyInv DEF Security
  <1>4. ASSUME NEW r \in Requests, deliver(r) \/ Fail(r) PROVE IInv'
    BY <1>4, deliverInv, FailInv
  <1>5. ASSUME NEW u \in Users, create_user(u) \/ user_has_enforcing_org_changes(u)
        PROVE  IInv'
    BY <1>5, OtherInv DEF create_user, user_has_enforcing_org_changes, IInv, TypeOK
  <1>6. CASE UNCHANGED vars
    BY <1>6, OtherInv DEF vars, IInv, TypeOK
  <1>8. QED
    BY <1>1, <1>2, <1>3, <1>4, <1>5, <1>6, <1>7 DEF Next

\* The invariant holds of every behaviour.
THEOREM InductiveInvariant == Spec => []IInv
  BY InitInv, NextInv, PTL DEF Spec

\* Tables, cookies and requests keep their types.
THEOREM TypeCorrect == Spec => []TypeOK
  <1>1. IInv => TypeOK
    BY DEF IInv
  <1>2. QED
    BY <1>1, InductiveInvariant, PTL

\* A recovery code completes one login at most (verify_recovery_code), for any
\* number of requests that carry it and any batches drawn and deleted between.
THEOREM CodesLogInOnce == Spec => []CodeLogsInOnce
  <1>1. IInv => CodeLogsInOnce
    BY DEF IInv, Consumed, CodeLogsInOnce
  <1>2. QED
    BY <1>1, InductiveInvariant, PTL

\* Recovery codes and a confirmed TOTP come together, except after a handler
\* that was cut between its commits (_generate_recovery_codes, disable_totp).
THEOREM CodesAndTotpTogether == Spec => [](CodesComeWithTotp /\ TotpComesWithCodes)
  <1>1. IInv => CodesComeWithTotp /\ TotpComesWithCodes
    BY DEF IInv
  <1>2. QED
    BY <1>1, InductiveInvariant, PTL

\* The half of it that keeps a user from being locked out: a confirmed TOTP has
\* recovery codes beside it unless a handler was cut between its commits.
THEOREM TotpHasCodes == Spec => []TotpComesWithCodes
  BY CodesAndTotpTogether, PTL

\* No session names a user logged in and a user pending (mfa_verify,
\* passkey_auth_complete and login clear it), however answers overtake each other.
THEOREM IdentityIsOne == Spec => []OneIdentity
  <1>1. IInv => OneIdentity
    BY DEF IInv
  <1>2. QED
    BY <1>1, InductiveInvariant, PTL

\* Only users who exist are members of an enforcing organization.
Enrolled == enforced \subseteq exists

\* Every behaviour keeps that.
LEMMA EnrolledAlways == Spec => []Enrolled
  <1>1. Init => Enrolled
    BY DEF Init, Enrolled
  <1>2. Enrolled /\ [Next]_vars => Enrolled'
    <2> SUFFICES ASSUME Enrolled, [Next]_vars PROVE Enrolled'
      OBVIOUS
    <2>1. ASSUME NEW r \in Requests, NEW w \in Browsers, NEW o \in Steps, send(r, w, o)
          PROVE  Enrolled'
      BY <2>1 DEF send, tables, Enrolled
    <2>2. ASSUME NEW r \in Requests, Auth(r) PROVE Enrolled'
      BY <2>2 DEF Auth, login, signup, mfa_verify, logout, page, tables, Enrolled
    <2>3. ASSUME NEW r \in Requests, Security(r) PROVE Enrolled'
      BY <2>3 DEF Security, totp_setup_page, totp_confirm, totp_disable,
         regenerate_recovery_codes, DeleteCodes, CreateCodes, DisableCodes, passkey_begin,
         passkey_register_complete, passkey_auth_complete, passkey_delete, tables, Enrolled
    <2>4. ASSUME NEW r \in Requests, deliver(r) \/ Fail(r) PROVE Enrolled'
      BY <2>4 DEF deliver, Fail, tables, Enrolled
    <2>5. ASSUME NEW u \in Users, create_user(u) \/ user_has_enforcing_org_changes(u)
          PROVE  Enrolled'
      BY <2>5 DEF create_user, user_has_enforcing_org_changes, Enrolled
    <2>6. CASE UNCHANGED vars
      BY <2>6 DEF vars, Enrolled
    <2>7. ASSUME NEW r \in Requests, Enforcement(r) PROVE Enrolled'
      BY <2>7 DEF Enforcement, organization_toggle_mfa, invite_accept, Enrolled
    <2>8. QED
      BY <2>1, <2>2, <2>3, <2>4, <2>5, <2>6, <2>7 DEF Next
  <1>3. QED
    BY <1>1, <1>2, PTL DEF Spec

\* What EveryLoginIsChecked says of one step and one request.
Checked(r) ==
    LET u == req'[r].sess.user
    IN  (req'[r].step = "answer" /\ u # None /\ u # req[r].sess.user) =>
            (req'[r].sess.mfa_setup_required <=> user_requires_mfa_setup(u))

\* An answer with the user the request came with, with nobody or with LoggedIn
\* needs no check or carries it.
LEMMA AnswerChecked ==
  ASSUME IInv, NEW r \in Requests, NEW s \in Session, Answer(r, s),
         \/ s.user = req[r].sess.user \/ s.user = None
         \/ s.mfa_setup_required <=> user_requires_mfa_setup(s.user)
  PROVE  Checked(r)
  <1>1. req'[r].sess = s
    BY Answered DEF IInv
  <1>2. QED
    BY <1>1 DEF Checked

\* A step that leaves a request alone or does not answer it needs no check.
LEMMA UnansweredChecked ==
  ASSUME NEW r \in Requests, req'[r] = req[r] \/ req'[r].step # "answer"
  PROVE  Checked(r)
  BY DEF Checked

\* LoggedIn carries the flag of its user.
LEMMA LoggedInFlag ==
  ASSUME NEW u \in Users \cup {None}
  PROVE  LoggedIn(u).mfa_setup_required = user_requires_mfa_setup(u)
  BY DEF LoggedIn, Empty

\* The three ways in: each session that names a new user carries his flag.
LEMMA AuthChecked ==
  ASSUME IInv, Enrolled, NEW r \in Requests, Auth(r)
  PROVE  Checked(r)
  <1>1. PICK t \in Session : t = req[r].sess
    BY OwnSession
  <1>2. CASE login(r)
    <2>1. ASSUME NEW u \in exists,
                 Answer(r, IF has_any_mfa(u) THEN [Empty EXCEPT !.pending = u] ELSE LoggedIn(u))
          PROVE  Checked(r)
      <3>1. u \in Users
        BY DEF IInv, TypeOK
      <3>2. PICK s \in Session : Answer(r, s) /\ (s.user = None \/ s = LoggedIn(u))
        <4>1. [Empty EXCEPT !.pending = u] \in Session /\ [Empty EXCEPT !.pending = u].user = None
          BY <3>1 DEF Empty, Session
        <4>2. LoggedIn(u) \in Session
          BY <3>1, LoggedInType
        <4>3. QED
          BY <2>1, <4>1, <4>2
      <3>3. LoggedIn(u).user = u /\ LoggedIn(u).mfa_setup_required = user_requires_mfa_setup(u)
        BY <3>1, LoggedInType, LoggedInFlag
      <3>4. QED
        BY <3>2, <3>3, AnswerChecked
    <2>2. QED
      BY <1>1, <1>2, <2>1, AnswerChecked DEF login
  <1>3. CASE signup(r)
    <2>1. ASSUME NEW u \in Users \ exists, Answer(r, [Empty EXCEPT !.user = u])
          PROVE  Checked(r)
      <3>1. PICK s \in Session : s = [Empty EXCEPT !.user = u]
        BY DEF Empty, Session
      <3>2. s.user = u /\ s.mfa_setup_required = FALSE
        BY <3>1 DEF Empty
      <3>3. ~ user_requires_mfa_setup(u)
        BY DEF user_requires_mfa_setup, Enrolled
      <3>4. Answer(r, s)
        BY <2>1, <3>1
      <3>5. QED
        BY <3>2, <3>3, <3>4, AnswerChecked
    <2>2. QED
      BY <1>1, <1>3, <2>1, AnswerChecked DEF signup
  <1>4. CASE mfa_verify(r)
    <2>1. PICK u \in Users : u = req[r].sess.pending
      BY <1>4 DEF mfa_verify, Runs, IInv, Signed
    <2>2. PICK s \in Session : s = LoggedIn(u)
      BY LoggedInType
    <2>3. s.user = u /\ s.mfa_setup_required = user_requires_mfa_setup(u)
      BY <2>2, LoggedInType, LoggedInFlag
    <2>4. Answer(r, s) \/ Answer(r, t)
      BY <1>1, <1>4, <2>1, <2>2 DEF mfa_verify
    <2>5. QED
      BY <1>1, <2>3, <2>4, AnswerChecked
  <1>5. CASE logout(r) \/ page(r)
    <2>1. PICK e \in Session : e = Empty /\ e.user = None
      <3>1. Empty \in Session /\ Empty.user = None
        BY DEF Empty, Session
      <3>2. QED
        BY <3>1
    <2>2. Answer(r, e) \/ Answer(r, t)
      BY <1>1, <1>5, <2>1 DEF logout, page
    <2>3. QED
      BY <1>1, <2>1, <2>2, AnswerChecked
  <1>6. QED
    BY <1>2, <1>3, <1>4, <1>5 DEF Auth

\* The handlers that switch enforcement keep the user.
LEMMA EnforcementChecked ==
  ASSUME IInv, NEW r \in Requests, Enforcement(r)
  PROVE  Checked(r)
  <1>1. PICK s \in Session : Answer(r, s) /\ s.user = req[r].sess.user
    BY OwnSession, FlaggedType DEF Enforcement, organization_toggle_mfa, invite_accept
  <1>2. QED
    BY <1>1, AnswerChecked

\* The handlers of security.py keep the user, except passkey_auth_complete.
LEMMA SecurityChecked ==
  ASSUME IInv, NEW r \in Requests, Security(r)
  PROVE  Checked(r)
  <1> DEFINE v == [[req[r].sess EXCEPT !.challenge = FALSE] EXCEPT !.mfa_setup_required = FALSE]
  <1>1. \A x \in BOOLEAN : /\ [req[r].sess EXCEPT !.challenge = x] \in Session
                           /\ [req[r].sess EXCEPT !.challenge = x].user = req[r].sess.user
                           /\ [req[r].sess EXCEPT !.challenge = x].pending = req[r].sess.pending
    BY OwnSession, Edited
  <1>2. v \in Session /\ v.user = req[r].sess.user
    BY <1>1, OwnSession, Edited
  <1>3. CASE passkey_auth_complete(r)
    <2>1. PICK u \in Users : u = req[r].sess.pending
      BY <1>3 DEF passkey_auth_complete, Runs, IInv, Signed
    <2>2. PICK s \in Session : s = LoggedIn(u)
      BY LoggedInType
    <2>3. s.user = u /\ s.mfa_setup_required = user_requires_mfa_setup(u)
      BY <2>2, LoggedInType, LoggedInFlag
    <2>4. PICK t \in Session : t = [req[r].sess EXCEPT !.challenge = FALSE]
      BY <1>1
    <2>5. t.user = req[r].sess.user /\ t.pending = u
      BY <1>1, <2>1, <2>4
    <2>6. Answer(r, s) \/ Answer(r, t)
      BY <1>3, <2>2, <2>4, <2>5 DEF passkey_auth_complete
    <2>7. QED
      BY <2>3, <2>5, <2>6, AnswerChecked
  <1>4. CASE \E s \in Session : Answer(r, s) /\ s.user = req[r].sess.user
    BY <1>4, AnswerChecked
  <1>5. CASE \E o \in Committing \cup {"totp_setup"} : Then(r, o)
    <2>1. PICK o \in Committing \cup {"totp_setup"} : Then(r, o)
      BY <1>5
    <2>2. req'[r].step = o
      BY <2>1, Stepped DEF IInv
    <2>3. QED
      BY <2>1, <2>2, UnansweredChecked DEF Committing
  <1>6. CASE req'[r].step = "codes"
    BY <1>6, UnansweredChecked
  <1>7. CASE passkey_begin(r) \/ passkey_register_complete(r) \/ passkey_delete(r)
    <2>1. \/ Answer(r, [req[r].sess EXCEPT !.challenge = TRUE])
          \/ Answer(r, [req[r].sess EXCEPT !.challenge = FALSE])
          \/ Answer(r, v) \/ Answer(r, req[r].sess)
      BY <1>7 DEF passkey_begin, passkey_register_complete, passkey_delete
    <2> HIDE DEF v
    <2>2. QED
      BY <1>1, <1>2, <1>4, <2>1, OwnSession
  <1>8. CASE totp_setup_page(r) \/ totp_disable(r) \/ regenerate_recovery_codes(r)
    BY <1>4, <1>5, <1>8, OwnSession
       DEF totp_setup_page, totp_disable, regenerate_recovery_codes, Committing
  <1>9. CASE totp_confirm(r)
    <2>1. CASE Answer(r, req[r].sess)
      BY <1>4, <2>1, OwnSession
    <2>2. CASE req' = [req EXCEPT ![r].step = "codes", ![r].sess.mfa_setup_required = FALSE]
      BY <1>6, <2>2 DEF IInv, TypeOK, Request
    <2>3. QED
      BY <1>9, <2>1, <2>2 DEF totp_confirm
  <1>10. CASE DeleteCodes(r) \/ CreateCodes(r) \/ DisableCodes(r)
    BY <1>4, <1>5, <1>10, OwnSession DEF DeleteCodes, CreateCodes, DisableCodes, Committing
  <1>11. QED
    BY <1>3, <1>7, <1>8, <1>9, <1>10 DEF Security

\* A handler touches no other request.
LEMMA OthersAlone ==
  ASSUME IInv, NEW r \in Requests, Auth(r) \/ Enforcement(r) \/ Security(r)
  PROVE  \A q \in Requests \ {r} : req'[q] = req[q]
  <1>1. CASE \E s : Answer(r, s)
    BY <1>1 DEF Answer, IInv, TypeOK
  <1>2. CASE \E o : Then(r, o)
    BY <1>2 DEF Then, IInv, TypeOK
  <1>3. CASE totp_confirm(r)
    BY <1>1, <1>3 DEF totp_confirm, IInv, TypeOK
  <1>4. CASE Auth(r)
    BY <1>1, <1>4 DEF Auth, login, signup, mfa_verify, logout, page
  <1>5. CASE Security(r) /\ ~ totp_confirm(r)
    BY <1>1, <1>2, <1>5 DEF Security, totp_setup_page, totp_disable,
       regenerate_recovery_codes, DeleteCodes, CreateCodes, DisableCodes, passkey_begin,
       passkey_register_complete, passkey_auth_complete, passkey_delete
  <1>6. CASE Enforcement(r)
    BY <1>1, <1>6 DEF Enforcement, organization_toggle_mfa, invite_accept
  <1>7. QED
    BY <1>3, <1>4, <1>5, <1>6

\* Whoever a step logs in is held at the MFA setup exactly when an organization
\* of his enforces MFA and he has none: login, signup, mfa_verify and
\* passkey_auth_complete set the flag from the tables as they are.
THEOREM LoginsAreChecked == Spec => EveryLoginIsChecked
  <1>1. IInv /\ Enrolled /\ [Next]_vars => [\A r \in Requests : Checked(r)]_vars
    <2> SUFFICES ASSUME IInv, Enrolled, Next, NEW q \in Requests
                 PROVE  Checked(q)
      OBVIOUS
    <2>1. ASSUME NEW r \in Requests, NEW w \in Browsers, NEW o \in Steps, send(r, w, o)
          PROVE  Checked(q)
      BY <2>1, UnansweredChecked DEF send, Steps, IInv, TypeOK
    <2>2. ASSUME NEW r \in Requests, Auth(r) \/ Enforcement(r) \/ Security(r)
          PROVE  Checked(q)
      BY <2>2, AuthChecked, EnforcementChecked, SecurityChecked, OthersAlone, UnansweredChecked
    <2>3. ASSUME NEW r \in Requests, deliver(r) \/ Fail(r) PROVE Checked(q)
      BY <2>3, Ended, UnansweredChecked DEF deliver, Fail, IInv
    <2>4. ASSUME NEW u \in Users, create_user(u) \/ user_has_enforcing_org_changes(u)
          PROVE  Checked(q)
      BY <2>4, UnansweredChecked DEF create_user, user_has_enforcing_org_changes
    <2>5. QED
      BY <2>1, <2>2, <2>3, <2>4 DEF Next
  <1>2. QED
    BY <1>1, InductiveInvariant, EnrolledAlways, PTL DEF Spec, EveryLoginIsChecked, Checked
=============================================================================
