------------------------- MODULE Organizations_proofs -------------------------
(***************************************************************************)
(* The invariants of Organizations, for any numbers of users,              *)
(* organizations, invites and billings.  What the invariants lack to be    *)
(* inductive is what the request in progress has already committed.        *)
(*                                                                         *)
(* Then those of Themes, for any numbers of owners, fields and jobs.  The  *)
(* composition implements Organizations, whose invariants it therefore     *)
(* has; the types and the log's account of the themes are inductive over   *)
(* them, and what a PDF shows follows from the types alone.                *)
(***************************************************************************)
EXTENDS Themes, TLAPS

\* Between the two commits of create_organization the organization exists and
\* has nobody, invited or not; between those of accept_invite the user is in and the invite is
\* still pending.
HalfDone ==
    /\ \A o \in Orgs : Creating(o) =>
          /\ org[o].state = "live" /\ org[o].by = run.user
          /\ \A u \in Users : member[o][u] = None
          /\ \A i \in Invites : invite[i] # None => invite[i].org # o
    /\ \A i \in Invites : Accepting(i) =>
          /\ Pending(i) /\ member[invite[i].org][invite[i].user] # None

\* Nobody belongs to an organization that does not exist yet.
NobodyEarly == \A o \in Orgs, u \in Users : org[o].state = "absent" => member[o][u] = None

InvitesExist == \A i \in Invites : invite[i] # None => org[invite[i].org].state # "absent"

\* A billing about to be transferred is still a person's.
TransferSound ==
    (run # None /\ run.step \in {"transfer", "transfer_unlogged"}) =>
        billing[run.row].state # "absent" /\ billing[run.row].type = "user"

Others == HalfDone /\ NobodyEarly /\ InvitesExist /\ TransferSound

IInv == /\ TypeOK /\ OnePendingInvite /\ PendingMeansOutside /\ MembersWereInvited
        /\ AnAdminRemains /\ Others

-----------------------------------------------------------------------------
\* The invariant holds at the start.
LEMMA InitInv == Init => IInv
  BY OrganizationsAssumption DEF Init, IInv, TypeOK, OrgRow, BillingRow, States,
     OnePendingInvite, PendingMeansOutside, MembersWereInvited, AnAdminRemains, Others, HalfDone,
     NobodyEarly, InvitesExist, TransferSound, Pending, Accepting, Creating

\* Between requests nothing is half done.
LEMMA FreeWhole == Free => \A o, i : ~ Creating(o) /\ ~ Accepting(i)
  BY DEF Free, Creating, Accepting

\* A request that has only its audit entry left is not half done.
LEMMA EventWhole ==
  ASSUME run # None => run.step \in Events
  PROVE  \A o, i : ~ Creating(o) /\ ~ Accepting(i)
  BY DEF Creating, Accepting, Events

\* A step followed by the audit entry leaves nothing half done.
LEMMA LogNext ==
  ASSUME NEW e \in Events, ThenLog(e)
  PROVE  run' \in Run /\ (\A o, i : ~ Creating(o)' /\ ~ Accepting(i)') /\ TransferSound'
  BY DEF ThenLog, Run, Creating, Accepting, TransferSound, Events

\* Steps that change neither a member nor an invite, and neither create an
\* organization nor stop in the middle.
LEMMA SameMembers ==
  ASSUME IInv, TypeOK', UNCHANGED <<member, invite, interrupted, abandoned>>,
         \A o \in Orgs : /\ org'[o].by = org[o].by
                         /\ org'[o].state = "absent" <=> org[o].state = "absent",
         \A o, i : ~ Creating(o) /\ ~ Accepting(i),
         \A o, i : ~ Creating(o)' /\ ~ Accepting(i)',
         TransferSound'
  PROVE  IInv'
  <1>1. OnePendingInvite' /\ PendingMeansOutside'
    BY DEF IInv, OnePendingInvite, PendingMeansOutside, Pending
  <1>2. MembersWereInvited'
    BY DEF IInv, MembersWereInvited
  <1>3. AnAdminRemains'
    BY DEF IInv, AnAdminRemains
  <1>4. Others'
    BY DEF IInv, TypeOK, InviteRow, Others, HalfDone, NobodyEarly, InvitesExist
  <1>5. QED
    BY <1>1, <1>2, <1>3, <1>4 DEF IInv

\* organization_edit preserves the invariant.
LEMMA organization_editInv ==
  ASSUME IInv, NEW u \in Users, NEW o \in Orgs, organization_edit(u, o)
  PROVE  IInv'
  <1>1. TypeOK'
    BY LogNext DEF IInv, TypeOK, organization_edit, tables, history, Events
  <1>2. QED
    BY <1>1, SameMembers, FreeWhole, LogNext
       DEF organization_edit, AsAdmin, tables, history, Events

\* organization_delete preserves the invariant.
LEMMA organization_deleteInv ==
  ASSUME IInv, NEW u \in Users, NEW o \in Orgs, organization_delete(u, o)
  PROVE  IInv'
  <1>1. [org[o] EXCEPT !.state = "deleted"] \in OrgRow
    BY DEF IInv, TypeOK, OrgRow, States
  <1>2. TypeOK'
    BY <1>1, LogNext DEF IInv, TypeOK, organization_delete, history, Events
  <1>3. \A x \in Orgs : /\ org'[x].by = org[x].by
                        /\ org'[x].state = "absent" <=> org[x].state = "absent"
    BY DEF IInv, TypeOK, OrgRow, organization_delete, AsAdmin, get_by_uuid
  <1>4. QED
    BY <1>2, <1>3, SameMembers, FreeWhole, LogNext
       DEF organization_delete, AsAdmin, history, Events

\* organization_toggle_mfa preserves the invariant.
LEMMA organization_toggle_mfaInv ==
  ASSUME IInv, NEW u \in Users, NEW o \in Orgs, organization_toggle_mfa(u, o)
  PROVE  IInv'
  <1>1. [org[o] EXCEPT !.mfa = ~ org[o].mfa] \in OrgRow
    BY DEF IInv, TypeOK, OrgRow
  <1>2. org' = [org EXCEPT ![o] = [org[o] EXCEPT !.mfa = ~ org[o].mfa]]
    BY DEF organization_toggle_mfa
  <1>3. TypeOK'
    BY <1>1, <1>2, LogNext DEF IInv, TypeOK, organization_toggle_mfa, history, Events
  <1>4. \A x \in Orgs : /\ org'[x].by = org[x].by
                        /\ org'[x].state = "absent" <=> org[x].state = "absent"
    BY <1>2 DEF IInv, TypeOK, OrgRow
  <1>5. QED
    BY <1>3, <1>4, SameMembers, FreeWhole, LogNext
       DEF organization_toggle_mfa, AsAdmin, history, Events

\* A transferred billing is a well-typed row.
LEMMA TransferType ==
  ASSUME TypeOK, NEW b \in Billings, NEW o \in Orgs, transfer_owner(b, o)
  PROVE  billing' \in [Billings -> BillingRow]
  <1>1. [billing[b] EXCEPT !.type = "organization", !.owner = o] \in BillingRow
    BY DEF TypeOK, BillingRow
  <1>2. billing' = [billing EXCEPT ![b] = [billing[b] EXCEPT !.type = "organization", !.owner = o]]
    BY DEF TypeOK, transfer_owner
  <1>3. QED
    BY <1>1, <1>2 DEF TypeOK

\* The checks of transfer_to_organization preserve the invariant, on both routes.
LEMMA transfer_to_organizationInv ==
  ASSUME IInv, Free, NEW s \in {"transfer", "transfer_unlogged"}, NEW u \in Users,
         NEW o \in Orgs, NEW b \in Billings, transfer_to_organization(s, u, o, b)
  PROVE  IInv'
  <1>1. /\ run' \in Run /\ TransferSound'
        /\ \A x, i : ~ Creating(x)' /\ ~ Accepting(i)'
    BY DEF transfer_to_organization, Then, tables, Run, TransferSound, Creating, Accepting
  <1>2. TypeOK'
    BY <1>1 DEF IInv, TypeOK, transfer_to_organization, tables, history
  <1>3. QED
    BY <1>1, <1>2, SameMembers, FreeWhole DEF transfer_to_organization, tables, history

\* TransferOwner preserves the invariant.
LEMMA TransferOwnerInv ==
  ASSUME IInv, NEW b \in Billings, TransferOwner(b)
  PROVE  IInv'
  <1>1. run.row \in Billings /\ run.org \in Orgs
    BY DEF IInv, TypeOK, TransferOwner, Run, Events
  <1>2. billing' \in [Billings -> BillingRow]
    BY <1>1, TransferType DEF IInv, TransferOwner
  <1>3. /\ run' \in Run \cup {None} /\ TransferSound'
        /\ \A x, i : ~ Creating(x)' /\ ~ Accepting(i)'
    <2>1. CASE run' = None
      BY <2>1 DEF TransferSound, Creating, Accepting
    <2>2. CASE ThenLog("BILLING_TRANSFER")
      BY <2>2, LogNext DEF Events
    <2>3. QED
      BY <2>1, <2>2 DEF TransferOwner
  <1>4. \A x, i : ~ Creating(x) /\ ~ Accepting(i)
    BY DEF TransferOwner, Creating, Accepting
  <1>5. TypeOK'
    BY <1>2, <1>3 DEF IInv, TypeOK, TransferOwner, history
  <1>6. QED
    BY <1>3, <1>4, <1>5, SameMembers DEF TransferOwner, history

\* The routes of web/routes/billing.py preserve the invariant.
LEMMA LandlordInv ==
  ASSUME IInv, NEW u \in Users, NEW b \in Billings, Landlord(u, b)
  PROVE  IInv'
  <1>1. CASE billing_transfer(u, b)
    BY <1>1, transfer_to_organizationInv DEF billing_transfer
  <1>2. CASE billing_create(u, b) \/ billing_delete(u, b)
    <2>1. billing' \in [Billings -> BillingRow]
      <3>1. CASE billing_create(u, b)
        BY <3>1 DEF billing_create, IInv, TypeOK, BillingRow, States
      <3>2. CASE billing_delete(u, b)
        <4>1. [billing[b] EXCEPT !.state = "deleted"] \in BillingRow
          BY DEF IInv, TypeOK, BillingRow, States
        <4>2. QED
          BY <3>2, <4>1 DEF billing_delete, IInv, TypeOK
      <3>3. QED
        BY <1>2, <3>1, <3>2
    <2>2. /\ Free /\ UNCHANGED <<org, member, invite, interrupted, abandoned>>
          /\ \E e \in Events : ThenLog(e)
      BY <1>2 DEF billing_create, billing_delete, history, Events
    <2>3. TypeOK'
      BY <2>1, <2>2, LogNext DEF IInv, TypeOK
    <2>4. QED
      BY <2>2, <2>3, SameMembers, FreeWhole, LogNext
  <1>3. QED
    BY <1>1, <1>2 DEF Landlord

\* The CLI's writes preserve the invariant, in the middle of any request.
LEMMA CliInv ==
  ASSUME IInv, NEW b \in Billings, Cli(b)
  PROVE  IInv'
  <1> DEFINE w == [billing[b] EXCEPT !.state = "deleted"]
             n == [state |-> "live", type |-> "user", owner |-> None]
  <1>1. /\ w \in BillingRow /\ w.state = "deleted" /\ w.type = billing[b].type
        /\ n \in BillingRow /\ n.state = "live" /\ n.type = "user"
    BY DEF IInv, TypeOK, BillingRow, States
  <1>2. \/ billing' = [billing EXCEPT ![b] = w]
        \/ billing' = [billing EXCEPT ![b] = n]
    BY DEF Cli, create_billing_menu, excluir_cobranca
  <1> HIDE DEF w, n
  <1>3. UNCHANGED <<org, member, invite, run, interrupted, abandoned>>
    BY DEF Cli, create_billing_menu, excluir_cobranca, history
  <1>4. TypeOK'
    BY <1>1, <1>2, <1>3 DEF IInv, TypeOK
  <1>5. TransferSound'
    <2>1. SUFFICES ASSUME run # None, run.step \in {"transfer", "transfer_unlogged"}
                   PROVE  billing'[run.row].state # "absent" /\ billing'[run.row].type = "user"
      BY <1>3 DEF TransferSound
    <2>2. run.row \in Billings
      BY <2>1 DEF IInv, TypeOK, Run, Events
    <2>3. billing[run.row].state # "absent" /\ billing[run.row].type = "user"
      BY <2>1 DEF IInv, Others, TransferSound
    <2>4. QED
      BY <1>1, <1>2, <2>2, <2>3 DEF IInv, TypeOK
  <1>6. OnePendingInvite' /\ PendingMeansOutside'
    BY <1>3 DEF IInv, OnePendingInvite, PendingMeansOutside, Pending, Accepting
  <1>7. MembersWereInvited' /\ AnAdminRemains'
    BY <1>3 DEF IInv, MembersWereInvited, AnAdminRemains, Accepting, Creating
  <1>8. HalfDone' /\ NobodyEarly' /\ InvitesExist'
    BY <1>3 DEF IInv, Others, HalfDone, NobodyEarly, InvitesExist, Pending, Accepting, Creating
  <1>9. QED
    BY <1>4, <1>5, <1>6, <1>7, <1>8 DEF IInv, Others

\* safe_log preserves the invariant.
LEMMA safe_logInv ==
  ASSUME IInv, safe_log
  PROVE  IInv'
  <1>1. TypeOK'
    BY DEF IInv, TypeOK, safe_log, tables, history
  <1>2. (\A o, i : ~ Creating(o)' /\ ~ Accepting(i)') /\ TransferSound'
    BY DEF safe_log, TransferSound, Creating, Accepting
  <1>3. QED
    BY <1>1, <1>2, EventWhole, SameMembers DEF safe_log, tables, history

-----------------------------------------------------------------------------
(* Steps that change who is a member.                                       *)

\* organization_create preserves the invariant.
LEMMA organization_createInv ==
  ASSUME IInv, NEW u \in Users, organization_create(u)
  PROVE  IInv'
  <1>1. PICK o \in Orgs :
          /\ org[o].state = "absent"
          /\ org' = [org EXCEPT ![o] = [state |-> "live", by |-> u, mfa |-> FALSE]]
          /\ Then("add_admin", u, o, None)
    BY DEF organization_create
  <1>2. UNCHANGED <<member, invite, billing, interrupted, abandoned>> /\ Free
    BY DEF organization_create, history
  <1>3. /\ run' \in Run /\ TransferSound' /\ run'.user = u
        /\ \A x \in Orgs : Creating(x)' <=> x = o
        /\ \A i \in Invites : ~ Accepting(i)'
    BY <1>1, NoneAssumption DEF Then, Run, TransferSound, Creating, Accepting
  <1>4. /\ org'[o].state = "live" /\ org'[o].by = u
        /\ \A x \in Orgs \ {o} : org'[x] = org[x]
    BY <1>1 DEF IInv, TypeOK
  <1>5. TypeOK'
    BY <1>1, <1>2, <1>3 DEF IInv, TypeOK, OrgRow, States
  <1>6. \A x \in Users : member[o][x] = None
    BY <1>1 DEF IInv, Others, NobodyEarly
  <1>7. OnePendingInvite' /\ PendingMeansOutside'
    <2>1. \A i \in Invites : ~ Accepting(i)
      BY <1>2, FreeWhole
    <2>2. OnePendingInvite'
      BY <1>2 DEF IInv, OnePendingInvite, Pending
    <2>3. PendingMeansOutside'
      BY <1>2, <2>1 DEF IInv, PendingMeansOutside, Pending
    <2>4. QED
      BY <2>2, <2>3
  <1>8. MembersWereInvited'
    BY <1>2, <1>4, <1>6, FreeWhole DEF IInv, MembersWereInvited
  <1>9. AnAdminRemains'
    BY <1>2, <1>3, <1>4, FreeWhole DEF IInv, AnAdminRemains
  <1>10. Others'
    BY <1>1, <1>2, <1>3, <1>4, <1>6 DEF IInv, TypeOK, InviteRow, Others, HalfDone, NobodyEarly, InvitesExist
  <1>11. QED
    BY <1>5, <1>7, <1>8, <1>9, <1>10 DEF IInv

\* AddFirstAdmin preserves the invariant.
LEMMA AddFirstAdminInv ==
  ASSUME IInv, AddFirstAdmin
  PROVE  IInv'
  <1> DEFINE o == run.org
             u == run.user
  <1>1. o \in Orgs /\ u \in Users /\ Creating(o)
    BY DEF IInv, TypeOK, AddFirstAdmin, Run, Events, Creating
  <1>2. /\ org[o].state = "live" /\ org[o].by = u
        /\ \A x \in Users : member[o][x] = None
        /\ \A i \in Invites : Pending(i) => invite[i].org # o
    BY <1>1 DEF IInv, Others, HalfDone, Pending
  <1>3. \A x \in Orgs : Creating(x) => x = o
    BY DEF Creating
  <1>4. /\ run' \in Run /\ TransferSound'
        /\ \A x, i : ~ Creating(x)' /\ ~ Accepting(i)'
        /\ UNCHANGED <<org, invite, billing, interrupted, abandoned>>
    BY LogNext DEF AddFirstAdmin, Events, history
  <1>5. /\ member' \in [Orgs -> [Users -> Roles \cup {None}]]
        /\ member'[o][u] = "admin"
        /\ \A x \in Orgs, y \in Users : ~ (x = o /\ y = u) => member'[x][y] = member[x][y]
    BY <1>1, OrganizationsAssumption DEF IInv, TypeOK, AddFirstAdmin, add_member, Roles
  <1>6. \A i \in Invites : ~ Accepting(i)
    BY DEF AddFirstAdmin, Accepting
  <1>7. \A i \in Invites : Pending(i) =>
          invite[i].org \in Orgs /\ invite[i].user \in Users
    BY DEF IInv, TypeOK, Pending, InviteRow
  <1> HIDE DEF o, u
  <1>8. TypeOK'
    BY <1>4, <1>5 DEF IInv, TypeOK
  <1>9. OnePendingInvite'
    BY <1>4 DEF IInv, OnePendingInvite, Pending
  <1>10. PendingMeansOutside'
    BY <1>2, <1>4, <1>5, <1>6, <1>7 DEF IInv, PendingMeansOutside, Pending
  <1>11. MembersWereInvited'
    BY <1>1, <1>2, <1>4, <1>5, <1>6 DEF IInv, MembersWereInvited
  <1>12. AnAdminRemains'
    <2>1. SUFFICES ASSUME NEW x \in Orgs, org[x].state # "absent", x # o,
                          x \notin interrupted, x \notin abandoned
                   PROVE  \E y \in Users : member'[x][y] = "admin"
      BY <1>1, <1>4, <1>5 DEF AnAdminRemains
    <2>2. PICK y \in Users : member[x][y] = "admin"
      BY <1>3, <2>1 DEF IInv, AnAdminRemains
    <2>3. QED
      BY <1>5, <2>1, <2>2
  <1>13. Others'
    <2>1. HalfDone'
      BY <1>4 DEF HalfDone
    <2>2. NobodyEarly'
      BY <1>1, <1>2, <1>4, <1>5 DEF IInv, Others, NobodyEarly
    <2>3. InvitesExist'
      BY <1>4 DEF IInv, Others, InvitesExist
    <2>4. QED
      BY <1>4, <2>1, <2>2, <2>3 DEF Others
  <1>14. QED
    BY <1>8, <1>9, <1>10, <1>11, <1>12, <1>13 DEF IInv

\* A row of members changes in one place.
LEMMA SetMember ==
  ASSUME TypeOK, NEW o \in Orgs, NEW u \in Users, NEW r \in Roles \cup {None},
         member' = [member EXCEPT ![o][u] = r]
  PROVE  /\ member' \in [Orgs -> [Users -> Roles \cup {None}]]
         /\ member'[o][u] = r
         /\ \A x \in Orgs, y \in Users : ~ (x = o /\ y = u) => member'[x][y] = member[x][y]
  BY DEF TypeOK

\* An answered invite keeps its organization, its user and its role.
LEMMA SetStatus ==
  ASSUME TypeOK, NEW i \in Invites, invite[i] # None, NEW s \in {"accepted", "declined"},
         update_status(i, s)
  PROVE  /\ invite' \in [Invites -> InviteRow \cup {None}]
         /\ invite'[i] # None /\ invite'[i].status = s
         /\ invite'[i].org = invite[i].org /\ invite'[i].user = invite[i].user
         /\ \A j \in Invites \ {i} : invite'[j] = invite[j]
  <1> DEFINE w == [invite[i] EXCEPT !.status = s]
  <1>1. invite[i] \in InviteRow
    BY DEF TypeOK
  <1>2. w \in InviteRow /\ w.status = s /\ w.org = invite[i].org /\ w.user = invite[i].user
    BY <1>1 DEF InviteRow
  <1>3. invite' = [invite EXCEPT ![i] = w]
    BY DEF update_status
  <1> HIDE DEF w
  <1>4. QED
    BY <1>2, <1>3, NoneAssumption DEF TypeOK

\* member_change_role preserves the invariant.
LEMMA member_change_roleInv ==
  ASSUME IInv, NEW u \in Users, NEW o \in Orgs, NEW t \in Users, member_change_role(u, o, t)
  PROVE  IInv'
  <1>1. PICK r \in OrgRole :
          /\ update_member_role(o, t, r)
          /\ abandoned' = IF r # "admin" /\ \A x \in Users \ {t} : get_member(o, x) # "admin"
                          THEN abandoned \cup {o} ELSE abandoned
    BY DEF member_change_role
  <1>2. r \in Roles /\ r # None
    BY OrganizationsAssumption DEF Roles
  <1>3. /\ member' \in [Orgs -> [Users -> Roles \cup {None}]]
        /\ member'[o][t] = IF member[o][t] = None THEN None ELSE r
        /\ \A x \in Orgs, y \in Users : ~ (x = o /\ y = t) => member'[x][y] = member[x][y]
    <2>1. CASE member[o][t] = None
      BY <1>1, <2>1 DEF update_member_role, get_member, IInv, TypeOK
    <2>2. CASE member[o][t] # None
      BY <1>1, <1>2, <2>2, SetMember DEF update_member_role, get_member, IInv
    <2>3. QED
      BY <2>1, <2>2
  <1>4. \A x \in Orgs, y \in Users : member'[x][y] = None <=> member[x][y] = None
    BY <1>2, <1>3
  <1>5. /\ run' \in Run /\ TransferSound' /\ UNCHANGED <<org, invite, billing, interrupted>>
        /\ \A x, i : ~ Creating(x)' /\ ~ Accepting(i)'
        /\ \A x, i : ~ Creating(x) /\ ~ Accepting(i)
    BY LogNext, FreeWhole DEF member_change_role, Events, AsAdmin
  <1>6. \A i \in Invites : invite[i] # None => invite[i].org \in Orgs /\ invite[i].user \in Users
    BY DEF IInv, TypeOK, InviteRow
  <1>7. TypeOK'
    BY <1>1, <1>3, <1>5 DEF IInv, TypeOK
  <1>8. OnePendingInvite'
    BY <1>5 DEF IInv, OnePendingInvite, Pending
  <1>9. PendingMeansOutside'
    BY <1>4, <1>5, <1>6 DEF IInv, PendingMeansOutside, Pending
  <1>10. MembersWereInvited'
    BY <1>4, <1>5 DEF IInv, MembersWereInvited
  <1>11. AnAdminRemains'
    <2>1. SUFFICES ASSUME NEW x \in Orgs, org[x].state # "absent",
                          x \notin interrupted, x \notin abandoned'
                   PROVE  \E y \in Users : member'[x][y] = "admin"
      BY <1>5 DEF AnAdminRemains
    <2>2. CASE x # o
      BY <1>1, <1>3, <1>5, <2>1, <2>2 DEF IInv, AnAdminRemains
    <2>3. CASE x = o
      <3>1. CASE r = "admin"
        <4>1. member[o][u] = "admin"
          BY DEF member_change_role, AsAdmin, get_member
        <4>2. QED
          BY <1>2, <1>3, <2>3, <3>1, <4>1
      <3>2. CASE r # "admin"
        <4>1. PICK y \in Users \ {t} : member[o][y] = "admin"
          BY <1>1, <2>1, <2>3, <3>2 DEF get_member
        <4>2. QED
          BY <1>3, <2>3, <4>1
      <3>3. QED
        BY <3>1, <3>2
    <2>4. QED
      BY <2>2, <2>3
  <1>12. Others'
    <2>1. HalfDone'
      BY <1>5 DEF HalfDone
    <2>2. NobodyEarly'
      BY <1>4, <1>5 DEF IInv, Others, NobodyEarly
    <2>3. InvitesExist'
      BY <1>5 DEF IInv, Others, InvitesExist
    <2>4. QED
      BY <1>5, <2>1, <2>2, <2>3 DEF Others
  <1>13. QED
    BY <1>7, <1>8, <1>9, <1>10, <1>11, <1>12 DEF IInv

\* member_remove preserves the invariant.
LEMMA member_removeInv ==
  ASSUME IInv, NEW u \in Users, NEW o \in Orgs, NEW t \in Users, member_remove(u, o, t)
  PROVE  IInv'
  <1>1. /\ member' \in [Orgs -> [Users -> Roles \cup {None}]]
        /\ member'[o][t] = None
        /\ \A x \in Orgs, y \in Users : ~ (x = o /\ y = t) => member'[x][y] = member[x][y]
    BY SetMember DEF IInv, member_remove, remove_member
  <1>2. /\ run' \in Run /\ TransferSound' /\ UNCHANGED <<org, invite, billing, interrupted, abandoned>>
        /\ \A x, i : ~ Creating(x)' /\ ~ Accepting(i)'
        /\ \A x, i : ~ Creating(x) /\ ~ Accepting(i)
    BY LogNext, FreeWhole DEF member_remove, Events, AsAdmin, history
  <1>3. \A i \in Invites : invite[i] # None => invite[i].org \in Orgs /\ invite[i].user \in Users
    BY DEF IInv, TypeOK, InviteRow
  <1>4. TypeOK'
    BY <1>1, <1>2 DEF IInv, TypeOK
  <1>5. OnePendingInvite'
    BY <1>2 DEF IInv, OnePendingInvite, Pending
  <1>6. PendingMeansOutside'
    BY <1>1, <1>2, <1>3 DEF IInv, PendingMeansOutside, Pending
  <1>7. MembersWereInvited'
    <2>1. \A x \in Orgs, y \in Users : member'[x][y] # None => member[x][y] # None
      BY <1>1
    <2>2. QED
      BY <1>2, <2>1 DEF IInv, MembersWereInvited
  <1>8. AnAdminRemains'
    <2>1. member'[o][u] = "admin"
      BY <1>1 DEF member_remove, AsAdmin, get_member
    <2>2. QED
      BY <1>1, <1>2, <2>1 DEF IInv, AnAdminRemains
  <1>9. Others'
    <2>1. HalfDone'
      BY <1>2 DEF HalfDone
    <2>2. NobodyEarly'
      BY <1>1, <1>2 DEF IInv, Others, NobodyEarly
    <2>3. InvitesExist'
      BY <1>2 DEF IInv, Others, InvitesExist
    <2>4. QED
      BY <1>2, <2>1, <2>2, <2>3 DEF Others
  <1>10. QED
    BY <1>4, <1>5, <1>6, <1>7, <1>8, <1>9 DEF IInv

-----------------------------------------------------------------------------
(* Steps that write an invite.                                              *)

\* organization_invite preserves the invariant.
LEMMA organization_inviteInv ==
  ASSUME IInv, NEW u \in Users, NEW o \in Orgs, NEW t \in Users, organization_invite(u, o, t)
  PROVE  IInv'
  <1>1. PICK r \in Roles, i \in Invites :
          /\ invite[i] = None /\ member[o][t] = None /\ ~ has_pending_invite(o, t)
          /\ invite_create(i, o, t, r)
    BY DEF organization_invite, send_invite, get_member
  <1>2. /\ run' \in Run /\ TransferSound' /\ UNCHANGED <<org, member, billing, interrupted, abandoned>>
        /\ \A x, j : ~ Creating(x)' /\ ~ Accepting(j)'
        /\ \A x, j : ~ Creating(x) /\ ~ Accepting(j)
    BY LogNext, FreeWhole DEF organization_invite, send_invite, Events, AsAdmin, history
  <1>3. org[o].state = "live"
    BY DEF organization_invite, AsAdmin, get_by_uuid
  <1> DEFINE w == [org |-> o, user |-> t, role |-> r, status |-> "pending"]
  <1>4. w \in InviteRow /\ w.org = o /\ w.user = t /\ w.status = "pending"
    BY DEF InviteRow
  <1>5. /\ invite' \in [Invites -> InviteRow \cup {None}] /\ invite'[i] = w
        /\ \A j \in Invites \ {i} : invite'[j] = invite[j]
    BY <1>1, <1>4 DEF invite_create, IInv, TypeOK
  <1> HIDE DEF w
  <1>6. TypeOK'
    BY <1>2, <1>5 DEF IInv, TypeOK
  <1>7. OnePendingInvite'
    BY <1>1, <1>4, <1>5 DEF IInv, OnePendingInvite, Pending, has_pending_invite
  <1>8. PendingMeansOutside'
    BY <1>1, <1>2, <1>4, <1>5 DEF IInv, PendingMeansOutside, Pending
  <1>9. MembersWereInvited'
    BY <1>1, <1>2, <1>5 DEF IInv, MembersWereInvited
  <1>10. AnAdminRemains'
    BY <1>2 DEF IInv, AnAdminRemains
  <1>11. Others'
    BY <1>2, <1>3, <1>4, <1>5 DEF IInv, Others, HalfDone, NobodyEarly, InvitesExist
  <1>12. QED
    BY <1>6, <1>7, <1>8, <1>9, <1>10, <1>11 DEF IInv

\* invite_decline preserves the invariant.
LEMMA invite_declineInv ==
  ASSUME IInv, NEW u \in Users, NEW i \in Invites, invite_decline(u, i)
  PROVE  IInv'
  <1>1. Pending(i) /\ invite[i] # None /\ update_status(i, "declined")
    BY DEF invite_decline, Pending
  <1>2. /\ invite' \in [Invites -> InviteRow \cup {None}]
        /\ invite'[i] # None /\ invite'[i].status = "declined"
        /\ invite'[i].org = invite[i].org /\ invite'[i].user = invite[i].user
        /\ \A j \in Invites \ {i} : invite'[j] = invite[j]
    BY <1>1, SetStatus DEF IInv
  <1>3. /\ run' \in Run /\ TransferSound' /\ UNCHANGED <<org, member, billing, interrupted, abandoned>>
        /\ \A x, j : ~ Creating(x)' /\ ~ Accepting(j)'
        /\ \A x, j : ~ Creating(x) /\ ~ Accepting(j)
    BY LogNext, FreeWhole DEF invite_decline, Events, history
  <1>4. TypeOK'
    BY <1>2, <1>3 DEF IInv, TypeOK
  <1>5. OnePendingInvite'
    BY <1>2 DEF IInv, OnePendingInvite, Pending
  <1>6. PendingMeansOutside'
    BY <1>2, <1>3 DEF IInv, PendingMeansOutside, Pending
  <1>7. MembersWereInvited'
    <2>1. SUFFICES ASSUME NEW x \in Orgs, NEW y \in Users, member[x][y] # None, org[x].by # y
                   PROVE  \E j \in Invites :
                            /\ invite'[j] # None /\ invite'[j].org = x /\ invite'[j].user = y
                            /\ invite'[j].status = "accepted" \/ j \in interrupted
      BY <1>3 DEF MembersWereInvited
    <2>2. PICK j \in Invites :
            /\ invite[j] # None /\ invite[j].org = x /\ invite[j].user = y
            /\ invite[j].status = "accepted" \/ j \in interrupted
      BY <1>3, <2>1 DEF IInv, MembersWereInvited
    <2>3. j = i => j \in interrupted
      BY <1>1, <2>2 DEF Pending
    <2>4. QED
      BY <1>2, <2>2, <2>3
  <1>8. AnAdminRemains'
    BY <1>3 DEF IInv, AnAdminRemains
  <1>9. Others'
    <2>1. HalfDone'
      BY <1>3 DEF HalfDone
    <2>2. NobodyEarly'
      BY <1>3 DEF IInv, Others, NobodyEarly
    <2>3. InvitesExist'
      BY <1>1, <1>2, <1>3 DEF IInv, Others, InvitesExist
    <2>4. QED
      BY <1>3, <2>1, <2>2, <2>3 DEF Others
  <1>10. QED
    BY <1>4, <1>5, <1>6, <1>7, <1>8, <1>9 DEF IInv

\* invite_accept preserves the invariant.
LEMMA invite_acceptInv ==
  ASSUME IInv, NEW u \in Users, NEW i \in Invites, invite_accept(u, i)
  PROVE  IInv'
  <1> DEFINE o == invite[i].org
  <1>1. /\ Pending(i) /\ invite[i] # None /\ invite[i].user = u
        /\ o \in Orgs /\ invite[i].role \in Roles
    BY DEF invite_accept, Pending, IInv, TypeOK, InviteRow
  <1>2. invite[i].role # None
    BY <1>1, OrganizationsAssumption
  <1>3. /\ member[o][u] = None
        /\ member' \in [Orgs -> [Users -> Roles \cup {None}]]
        /\ member'[o][u] = invite[i].role
        /\ \A x \in Orgs, y \in Users : ~ (x = o /\ y = u) => member'[x][y] = member[x][y]
    <2>1. member[o][u] = None /\ member' = [member EXCEPT ![o][u] = invite[i].role]
      BY DEF invite_accept, add_member, get_member
    <2>2. invite[i].role \in Roles \cup {None} /\ TypeOK
      BY <1>1 DEF IInv
    <2> HIDE DEF o
    <2>3. QED
      BY <1>1, <2>1, <2>2 DEF TypeOK
  <1>4. /\ UNCHANGED <<org, invite, billing, interrupted, abandoned>>
        /\ \A x, j : ~ Creating(x) /\ ~ Accepting(j)
    BY FreeWhole DEF invite_accept, history
  <1>5. /\ run' \in Run /\ TransferSound' /\ \A x : ~ Creating(x)'
        /\ \A j : Accepting(j)' <=> j = i
    BY <1>1, NoneAssumption DEF invite_accept, Then, Run, TransferSound, Creating, Accepting
  <1>6. \A j \in Invites : invite[j] # None => invite[j].org \in Orgs /\ invite[j].user \in Users
    BY DEF IInv, TypeOK, InviteRow
  <1>7. org[o].state # "absent"
    BY <1>1 DEF IInv, Others, InvitesExist
  <1>8. TypeOK'
    BY <1>3, <1>4, <1>5 DEF IInv, TypeOK
  <1>9. OnePendingInvite'
    BY <1>4 DEF IInv, OnePendingInvite, Pending
  <1>10. PendingMeansOutside'
    <2>1. SUFFICES ASSUME NEW j \in Invites, Pending(j), j # i, j \notin interrupted
                   PROVE  member'[invite[j].org][invite[j].user] = None
      BY <1>4, <1>5 DEF PendingMeansOutside, Pending
    <2>2. member[invite[j].org][invite[j].user] = None
      BY <1>4, <2>1 DEF IInv, PendingMeansOutside
    <2>3. ~ (invite[j].org = o /\ invite[j].user = u)
      BY <1>1, <2>1 DEF IInv, OnePendingInvite
    <2>4. QED
      BY <1>3, <1>6, <2>1, <2>2, <2>3 DEF Pending
  <1>11. MembersWereInvited'
    <2>1. SUFFICES ASSUME NEW x \in Orgs, NEW y \in Users, member'[x][y] # None, org[x].by # y
                   PROVE  \E j \in Invites :
                            /\ invite[j] # None /\ invite[j].org = x /\ invite[j].user = y
                            /\ invite[j].status = "accepted" \/ j = i \/ j \in interrupted
      BY <1>4, <1>5 DEF MembersWereInvited
    <2>2. CASE x = o /\ y = u
      BY <1>1, <2>2
    <2>3. CASE ~ (x = o /\ y = u)
      <3>1. member[x][y] # None
        BY <1>3, <2>1, <2>3
      <3>2. QED
        BY <1>4, <2>1, <3>1 DEF IInv, MembersWereInvited
    <2>4. QED
      BY <2>2, <2>3
  <1>12. AnAdminRemains'
    <2>1. SUFFICES ASSUME NEW x \in Orgs, org[x].state # "absent",
                          x \notin interrupted, x \notin abandoned
                   PROVE  \E y \in Users : member'[x][y] = "admin"
      BY <1>4 DEF AnAdminRemains
    <2>2. PICK y \in Users : member[x][y] = "admin"
      BY <1>4, <2>1 DEF IInv, AnAdminRemains
    <2>3. ~ (x = o /\ y = u)
      BY <1>3, <2>2, OrganizationsAssumption DEF Roles
    <2>4. QED
      BY <1>3, <2>2, <2>3
  <1>13. Others'
    <2>1. HalfDone'
      BY <1>1, <1>2, <1>3, <1>4, <1>5 DEF HalfDone, Pending
    <2>2. NobodyEarly'
      BY <1>3, <1>4, <1>7 DEF IInv, Others, NobodyEarly
    <2>3. InvitesExist'
      BY <1>4 DEF IInv, Others, InvitesExist
    <2>4. QED
      BY <1>5, <2>1, <2>2, <2>3 DEF Others
  <1>14. QED
    BY <1>8, <1>9, <1>10, <1>11, <1>12, <1>13 DEF IInv

\* SetAccepted preserves the invariant.
LEMMA SetAcceptedInv ==
  ASSUME IInv, SetAccepted
  PROVE  IInv'
  <1> DEFINE i == run.row
  <1>1. i \in Invites /\ Accepting(i) /\ update_status(i, "accepted")
    BY DEF IInv, TypeOK, SetAccepted, Run, Events, Accepting
  <1>2. Pending(i) /\ invite[i] # None /\ TypeOK
    BY <1>1 DEF IInv, Others, HalfDone, Pending
  <1>3. \A j : (Accepting(j) => j = i) /\ ~ Creating(j)
    BY DEF SetAccepted, Accepting, Creating
  <1>4. /\ run' \in Run /\ TransferSound' /\ UNCHANGED <<org, member, billing, interrupted, abandoned>>
        /\ \A x, j : ~ Creating(x)' /\ ~ Accepting(j)'
    BY LogNext DEF SetAccepted, Events, history
  <1> HIDE DEF i
  <1>5. /\ invite' \in [Invites -> InviteRow \cup {None}]
        /\ invite'[i] # None /\ invite'[i].status = "accepted"
        /\ invite'[i].org = invite[i].org /\ invite'[i].user = invite[i].user
        /\ \A j \in Invites \ {i} : invite'[j] = invite[j]
    BY <1>1, <1>2, SetStatus
  <1>6. TypeOK'
    BY <1>4, <1>5 DEF IInv, TypeOK
  <1>7. OnePendingInvite'
    BY <1>5 DEF IInv, OnePendingInvite, Pending
  <1>8. PendingMeansOutside'
    BY <1>3, <1>4, <1>5 DEF IInv, PendingMeansOutside, Pending
  <1>9. MembersWereInvited'
    <2>1. SUFFICES ASSUME NEW x \in Orgs, NEW y \in Users, member[x][y] # None, org[x].by # y
                   PROVE  \E j \in Invites :
                            /\ invite'[j] # None /\ invite'[j].org = x /\ invite'[j].user = y
                            /\ invite'[j].status = "accepted" \/ j \in interrupted
      BY <1>4 DEF MembersWereInvited
    <2>2. PICK j \in Invites :
            /\ invite[j] # None /\ invite[j].org = x /\ invite[j].user = y
            /\ invite[j].status = "accepted" \/ j = i \/ j \in interrupted
      BY <1>3, <2>1 DEF IInv, MembersWereInvited
    <2>3. QED
      BY <1>5, <2>2
  <1>10. AnAdminRemains'
    BY <1>3, <1>4 DEF IInv, AnAdminRemains
  <1>11. Others'
    <2>1. HalfDone'
      BY <1>4 DEF HalfDone
    <2>2. NobodyEarly'
      BY <1>4 DEF IInv, Others, NobodyEarly
    <2>3. InvitesExist'
      BY <1>1, <1>2, <1>4, <1>5 DEF IInv, Others, InvitesExist
    <2>4. QED
      BY <1>4, <2>1, <2>2, <2>3 DEF Others
  <1>12. QED
    BY <1>6, <1>7, <1>8, <1>9, <1>10, <1>11 DEF IInv

\* A failure between two commits is what the history remembers.
LEMMA FailInv ==
  ASSUME IInv, Fail
  PROVE  IInv'
  <1>1. /\ UNCHANGED <<org, member, invite, billing, abandoned>> /\ run' = None /\ TransferSound'
        /\ \A x, j : ~ Creating(x)' /\ ~ Accepting(j)'
    BY DEF Fail, tables, TransferSound, Creating, Accepting
  <1>2. /\ interrupted \subseteq interrupted'
        /\ \A o : Creating(o) => o \in interrupted'
        /\ \A i : Accepting(i) => i \in interrupted'
    BY DEF Fail, Creating, Accepting
  <1>3. interrupted' \subseteq Orgs \cup Invites
    BY DEF Fail, IInv, TypeOK, Run, Events
  <1>4. TypeOK'
    BY <1>1, <1>3 DEF IInv, TypeOK
  <1>5. OnePendingInvite'
    BY <1>1 DEF IInv, OnePendingInvite, Pending
  <1>6. PendingMeansOutside'
    BY <1>1, <1>2 DEF IInv, PendingMeansOutside, Pending
  <1>7. MembersWereInvited'
    BY <1>1, <1>2 DEF IInv, MembersWereInvited
  <1>8. AnAdminRemains'
    BY <1>1, <1>2 DEF IInv, AnAdminRemains
  <1>9. Others'
    <2>1. HalfDone'
      BY <1>1 DEF HalfDone
    <2>2. NobodyEarly'
      BY <1>1 DEF IInv, Others, NobodyEarly
    <2>3. InvitesExist'
      BY <1>1 DEF IInv, Others, InvitesExist
    <2>4. QED
      BY <1>1, <2>1, <2>2, <2>3 DEF Others
  <1>10. QED
    BY <1>4, <1>5, <1>6, <1>7, <1>8, <1>9 DEF IInv

-----------------------------------------------------------------------------
\* Every step keeps the invariant.
LEMMA NextInv == IInv /\ [Next]_vars => IInv'
  <1>1. ASSUME IInv, UNCHANGED vars
        PROVE  IInv'
    BY <1>1 DEF vars, IInv, TypeOK, OnePendingInvite, PendingMeansOutside, MembersWereInvited,
       AnAdminRemains, Others, HalfDone, NobodyEarly, InvitesExist, TransferSound, Pending, Accepting, Creating
  <1>2. ASSUME IInv, NEW u \in Users, NEW o \in Orgs, Admin(u, o)
        PROVE  IInv'
    BY <1>2, organization_editInv, organization_deleteInv, organization_toggle_mfaInv,
       member_change_roleInv, member_removeInv, organization_inviteInv,
       transfer_to_organizationInv DEF Admin, organization_transfer_billing, AsAdmin
  <1>3. QED
    BY <1>1, <1>2, organization_createInv, invite_acceptInv, invite_declineInv, LandlordInv,
       AddFirstAdminInv, SetAcceptedInv, TransferOwnerInv, CliInv, safe_logInv, FailInv
       DEF Next, Invited

\* The inductive invariant holds of every reachable state.
LEMMA AlwaysIInv == Spec => []IInv
  BY InitInv, NextInv, PTL DEF Spec

\* The tables keep their types, whatever the order of requests and failures.
THEOREM TypeCorrect == Spec => []TypeOK
  <1>1. IInv => TypeOK
    BY DEF IInv
  <1>2. QED
    BY <1>1, AlwaysIInv, PTL

\* send_invite never leaves a user with two pending invites to an organization.
THEOREM InvitedOnce == Spec => []OnePendingInvite
  <1>1. IInv => OnePendingInvite
    BY DEF IInv
  <1>2. QED
    BY <1>1, AlwaysIInv, PTL

\* Who has a pending invite is not a member, but for an accept_invite cut
\* between its commits.
THEOREM InvitedAreOutside == Spec => []PendingMeansOutside
  <1>1. IInv => PendingMeansOutside
    BY DEF IInv
  <1>2. QED
    BY <1>1, AlwaysIInv, PTL

\* Membership comes from creating the organization or accepting one's own
\* invite, in every organization and for every user.
THEOREM MembershipIsEarned == Spec => []MembersWereInvited
  <1>1. IInv => MembersWereInvited
    BY DEF IInv
  <1>2. QED
    BY <1>1, AlwaysIInv, PTL

\* member_remove cannot leave an organization without an admin.
THEOREM OrganizationsAreManaged == Spec => []AnAdminRemains
  <1>1. IInv => AnAdminRemains
    BY DEF IInv
  <1>2. QED
    BY <1>1, AlwaysIInv, PTL

-----------------------------------------------------------------------------
(* What a step may do.                                                      *)

\* The steps that answer an invite answer a pending one, and acceptance comes
\* after membership.
LEMMA AnswerStep ==
  ASSUME IInv, [Next]_vars, NEW i \in Invites, invite[i] # None, invite'[i] # invite[i]
  PROVE  /\ invite[i].status = "pending"
         /\ invite'[i].status = "accepted" => member'[invite[i].org][invite[i].user] # None
  <1>1. \/ \E u \in Users, o \in Orgs, t \in Users : organization_invite(u, o, t)
        \/ \E u \in Users, j \in Invites : invite_decline(u, j)
        \/ SetAccepted
    BY DEF Next, vars, organization_create, Admin, organization_edit, organization_delete,
       organization_toggle_mfa, member_change_role, member_remove, organization_transfer_billing,
       transfer_to_organization, Invited, invite_accept, Landlord, billing_create,
       billing_transfer, billing_delete, TransferOwner, Cli, create_billing_menu,
       excluir_cobranca, AddFirstAdmin, safe_log, Fail, tables
  <1>2. CASE \E u \in Users, o \in Orgs, t \in Users : organization_invite(u, o, t)
    BY <1>2 DEF organization_invite, send_invite, invite_create, IInv, TypeOK
  <1>3. CASE \E u \in Users, j \in Invites : invite_decline(u, j)
    <2>1. PICK u \in Users, j \in Invites : invite_decline(u, j)
      BY <1>3
    <2>2. Pending(j) /\ invite[j] # None /\ update_status(j, "declined") /\ TypeOK
      BY <2>1 DEF invite_decline, Pending, IInv
    <2>3. /\ invite'[j].status = "declined"
          /\ \A k \in Invites \ {j} : invite'[k] = invite[k]
      BY <2>2, SetStatus
    <2>4. QED
      BY <2>2, <2>3 DEF Pending
  <1>4. CASE SetAccepted
    <2> DEFINE j == run.row
    <2>1. j \in Invites /\ Accepting(j) /\ update_status(j, "accepted")
      BY <1>4 DEF IInv, TypeOK, SetAccepted, Run, Events, Accepting
    <2>2. /\ Pending(j) /\ invite[j] # None /\ TypeOK
          /\ member[invite[j].org][invite[j].user] # None
      BY <2>1 DEF IInv, Others, HalfDone, Pending
    <2>3. UNCHANGED member
      BY <1>4 DEF SetAccepted
    <2> HIDE DEF j
    <2>4. \A k \in Invites \ {j} : invite'[k] = invite[k]
      BY <2>1, <2>2, SetStatus
    <2>5. QED
      BY <2>2, <2>3, <2>4 DEF Pending
  <1>5. QED
    BY <1>1, <1>2, <1>3, <1>4

\* accept_invite and decline_invite answer an invite once, and an accepted
\* invite's user is a member at that moment.
THEOREM AnsweredOnce == Spec => InviteAnsweredOnce
  <1>1. IInv /\ [Next]_vars =>
          [\A i \in Invites :
              (invite[i] # None /\ invite'[i] # invite[i]) =>
                  /\ invite[i].status = "pending"
                  /\ invite'[i].status = "accepted" =>
                        member'[invite[i].org][invite[i].user] # None]_vars
    BY AnswerStep
  <1>2. QED
    BY <1>1, AlwaysIInv, PTL DEF Spec, InviteAnsweredOnce

\* The steps that give a billing another owner.
LEMMA OwnerStep ==
  ASSUME IInv, [Next]_vars, NEW b \in Billings, billing[b].state # "absent",
         billing'[b].owner # billing[b].owner
  PROVE  billing[b].type = "user" /\ billing'[b].type = "organization"
  <1>0. billing \in [Billings -> BillingRow] /\ billing[b] \in BillingRow
    BY DEF IInv, TypeOK
  <1>1. \/ \E c \in Billings : TransferOwner(c)
        \/ \E u \in Users, c \in Billings : billing_create(u, c) \/ billing_delete(u, c)
        \/ \E c \in Billings : Cli(c)
    BY DEF Next, vars, organization_create, Admin, organization_edit, organization_delete,
       organization_toggle_mfa, member_change_role, member_remove, organization_invite,
       organization_transfer_billing, transfer_to_organization, Invited, invite_accept,
       invite_decline, Landlord, billing_transfer, AddFirstAdmin, SetAccepted, safe_log, Fail, tables
  <1>2. CASE \E c \in Billings : TransferOwner(c)
    BY <1>2 DEF IInv, TypeOK, BillingRow, Others, TransferSound, TransferOwner, transfer_owner
  <1>3. CASE \E u \in Users, c \in Billings : billing_create(u, c) \/ billing_delete(u, c)
    <2>1. PICK u \in Users, c \in Billings : billing_create(u, c) \/ billing_delete(u, c)
      BY <1>3
    <2>2. CASE billing_create(u, c)
      BY <2>2, <1>0 DEF billing_create
    <2>3. CASE billing_delete(u, c)
      BY <2>3, <1>0 DEF billing_delete
    <2>4. QED
      BY <2>1, <2>2, <2>3
  <1>4. CASE \E c \in Billings : Cli(c)
    <2>1. PICK c \in Billings : create_billing_menu(c) \/ excluir_cobranca(c)
      BY <1>4 DEF Cli
    <2>2. CASE create_billing_menu(c)
      BY <2>2, <1>0 DEF create_billing_menu
    <2>3. CASE excluir_cobranca(c)
      BY <2>3, <1>0 DEF excluir_cobranca, BillingRow
    <2>4. QED
      BY <2>1, <2>2, <2>3
  <1>5. QED
    BY <1>1, <1>2, <1>3, <1>4

\* TransferOwner is the only step by which a billing changes hands, and it is
\* taken only for a billing that is still a person's.
THEOREM OwnedOnceTheorem == Spec => OwnedOnce
  <1>1. IInv /\ [Next]_vars =>
          [\A b \in Billings :
              (billing[b].state # "absent" /\ billing'[b].owner # billing[b].owner) =>
                  billing[b].type = "user" /\ billing'[b].type = "organization"]_vars
    BY OwnerStep
  <1>2. QED
    BY <1>1, AlwaysIInv, PTL DEF Spec, OwnedOnce

-----------------------------------------------------------------------------
(* Themes.                                                                  *)

TInv == ThemesTypeOK /\ LogRetellsThemes

\* The steps that change nothing of Organizations.
ThemeStep ==
    \/ \E x \in Owners : Save(x) \/ Reset(x)
    \/ LogTheme \/ LoseTheme
    \/ \E j \in Jobs : _generate_and_store_pdf(j) \/ \E b \in Billings : LoadBilling(j, b)

\* Every step of the composition is one of Organizations or one about themes.
LEMMA Steps == ThemesNext => OrganizationsStep \/ ThemeStep
  BY DEF ThemesNext, ThemeStep, user_theme_save, user_theme_delete, org_theme_save,
     org_theme_delete, billing_theme_save, billing_theme_delete, Owners

LEMMA ThemeStepLeaves == ThemeStep => UNCHANGED vars
  BY DEF ThemeStep, Save, Reset, LogTheme, LoseTheme, _generate_and_store_pdf, LoadBilling

\* Themes change nothing of what Organizations promises: its members, invites
\* and owners move as they do without them.
THEOREM ThemesLeaveOrganizations == ThemesSpec => Spec
<1>1. ThemesInit => Init
  BY DEF ThemesInit
<1>2. [ThemesNext]_allVars => [Next]_vars
  BY Steps, ThemeStepLeaves DEF OrganizationsStep, allVars
<1> QED BY <1>1, <1>2, PTL DEF ThemesSpec, Spec

-----------------------------------------------------------------------------
(* Types of the operators.                                                  *)

LEMMA DefaultType == DEFAULT_THEME \in Theme
  BY ThemesAssumption DEF DEFAULT_THEME, Theme

LEMMA OwnerType ==
  ASSUME ThemesTypeOK, NEW x
  PROVE  get_by_owner(x) \in Theme \cup {None}
  BY DEF ThemesTypeOK, get_by_owner

LEMMA SavedType ==
  ASSUME ThemesTypeOK, NEW x, NEW form \in _parse_theme_fields
  PROVE  create_or_update_theme(x, form) \in Theme
<1> DEFINE base == IF get_by_owner(x) = None THEN DEFAULT_THEME ELSE get_by_owner(x)
<1>1. base \in Theme
  BY DefaultType, OwnerType
<1>2. create_or_update_theme(x, form) =
         [f \in Fields |-> IF form[f] = Blank THEN base[f] ELSE form[f]]
  BY DEF create_or_update_theme
<1>3. form \in [Fields -> Values \cup {Blank}]
  BY DEF _parse_theme_fields
<1> HIDE DEF base
<1> QED BY <1>1, <1>2, <1>3 DEF Theme

LEMMA ResolvedType ==
  ASSUME ThemesTypeOK, NEW b, NEW x
  PROVE  resolve_theme_for_billing(b, x) \in Theme
  BY DefaultType, OwnerType DEF resolve_theme_for_billing

-----------------------------------------------------------------------------
(* The invariant.                                                           *)

LEMMA InitTInv == ThemesInit => TInv
  BY ThemesNoneAssumption DEF ThemesInit, TInv, ThemesTypeOK, LogRetellsThemes

LEMMA SaveTInv ==
  ASSUME TInv, NEW x \in Owners, Save(x)
  PROVE  TInv'
<1> USE ThemesNoneAssumption
<1>1. PICK form \in _parse_theme_fields :
         theme' = [theme EXCEPT ![x] = create_or_update_theme(x, form)]
  BY DEF Save
<1>2. theme' \in [Owners -> Theme \cup {None}] /\ theme'[x] \in Theme
      /\ \A y \in Owners \ {x} : theme'[y] = theme[y]
  BY <1>1, SavedType DEF TInv, ThemesTypeOK
<1>3. entry = None /\ told' = told /\ job' = job /\ pdf' = None
  BY DEF Save, Idle, themeVars
<1>4. entry' = [event |-> IF theme[x] = None THEN "THEME_CREATE" ELSE "THEME_UPDATE",
                owner |-> x, previous |-> theme[x], new |-> theme'[x]]
  BY DEF Save
<1>5. entry' \in Entry /\ theme[x] \in Theme \cup {None}
  BY <1>2, <1>4 DEF Entry, TInv, ThemesTypeOK
<1>6. ThemesTypeOK'
  BY <1>2, <1>3, <1>5 DEF TInv, ThemesTypeOK
<1>7. \A y \in Owners : told[y] # Lost => told[y] = theme[y]
  BY <1>3 DEF TInv, LogRetellsThemes
<1>8. LogRetellsThemes'
  BY <1>2, <1>3, <1>4, <1>5, <1>7 DEF LogRetellsThemes
<1> QED BY <1>6, <1>8 DEF TInv

LEMMA ResetTInv ==
  ASSUME TInv, NEW x \in Owners, Reset(x)
  PROVE  TInv'
<1> USE ThemesNoneAssumption
<1>1. /\ theme[x] # None /\ theme' = [theme EXCEPT ![x] = None]
      /\ entry = None /\ told' = told /\ job' = job /\ pdf' = None
      /\ entry' = [event |-> "THEME_DELETE", owner |-> x, previous |-> theme[x], new |-> None]
  BY DEF Reset, Idle
<1>2. /\ theme' \in [Owners -> Theme \cup {None}] /\ theme'[x] = None
      /\ \A y \in Owners \ {x} : theme'[y] = theme[y]
  BY <1>1 DEF TInv, ThemesTypeOK
<1>3. entry' \in Entry
  BY <1>1 DEF Entry, TInv, ThemesTypeOK
<1>4. ThemesTypeOK'
  BY <1>1, <1>2, <1>3 DEF TInv, ThemesTypeOK
<1>5. \A y \in Owners : told[y] # Lost => told[y] = theme[y]
  BY <1>1 DEF TInv, LogRetellsThemes
<1>6. LogRetellsThemes'
  BY <1>1, <1>2, <1>3, <1>5 DEF LogRetellsThemes
<1> QED BY <1>4, <1>6 DEF TInv

\* The entry about to be written, or lost, ends where the table is.
LEMMA LogTInv ==
  ASSUME TInv, LogTheme \/ LoseTheme
  PROVE  TInv'
<1> USE ThemesNoneAssumption
<1>1. /\ entry # None /\ entry' = None /\ pdf' = None /\ theme' = theme /\ job' = job
      /\ \/ told' = [told EXCEPT ![entry.owner] = IF @ = Lost THEN Lost ELSE entry.new]
         \/ told' = [told EXCEPT ![entry.owner] = Lost]
  BY DEF LogTheme, LoseTheme
<1>2. entry.owner \in Owners /\ entry.new \in Theme \cup {None}
  BY <1>1 DEF TInv, ThemesTypeOK, Entry
<1>3. ThemesTypeOK'
  BY <1>1, <1>2 DEF TInv, ThemesTypeOK
<1>4. \A y \in Owners \ {entry.owner} : told'[y] = told[y]
  BY <1>1 DEF TInv, ThemesTypeOK
<1>5. told'[entry.owner] \in {Lost, IF told[entry.owner] = Lost THEN Lost ELSE entry.new}
  BY <1>1, <1>2 DEF TInv, ThemesTypeOK
<1>6. ASSUME NEW y \in Owners, told'[y] # Lost
      PROVE  told'[y] = theme[y]
  <2>1. CASE y = entry.owner
    BY <1>1, <1>5, <1>6, <2>1 DEF TInv, LogRetellsThemes
  <2>2. CASE y # entry.owner
    BY <1>1, <1>4, <1>6, <2>2 DEF TInv, LogRetellsThemes
  <2> QED BY <2>1, <2>2
<1>7. LogRetellsThemes'
  BY <1>1, <1>6 DEF LogRetellsThemes
<1> QED BY <1>3, <1>7 DEF TInv

LEMMA LoadBillingTInv ==
  ASSUME TInv, TypeOK, NEW j \in Jobs, NEW b \in Billings, LoadBilling(j, b)
  PROVE  TInv'
<1> USE ThemesNoneAssumption
<1>1. PICK by \in {"web", "cli"} :
         job' = [job EXCEPT ![j] = [billing |-> b, owner |-> billing[b].owner, by |-> by]]
  BY DEF LoadBilling
<1>2. billing[b].owner \in Users \cup Orgs \cup {None}
  BY DEF TypeOK, BillingRow
<1>3. [billing |-> b, owner |-> billing[b].owner, by |-> by] \in Job
  BY <1>2 DEF Job
<1>4. UNCHANGED <<theme, entry, told>> /\ pdf' = None
  BY DEF LoadBilling
<1> QED BY <1>1, <1>3, <1>4 DEF TInv, ThemesTypeOK, LogRetellsThemes

LEMMA RenderTInv ==
  ASSUME TInv, NEW j \in Jobs, _generate_and_store_pdf(j)
  PROVE  TInv'
<1>1. pdf' \in Theme
  BY DefaultType, ResolvedType DEF _generate_and_store_pdf, TInv
<1>2. job' = [job EXCEPT ![j] = None] /\ UNCHANGED <<theme, entry, told>>
  BY DEF _generate_and_store_pdf
<1> QED BY <1>1, <1>2 DEF TInv, ThemesTypeOK, LogRetellsThemes

LEMMA NextTInv == TInv /\ TypeOK /\ [ThemesNext]_allVars => TInv'
<1> SUFFICES ASSUME TInv, TypeOK, [ThemesNext]_allVars PROVE TInv'
  OBVIOUS
<1>1. CASE OrganizationsStep
  BY <1>1 DEF OrganizationsStep, TInv, ThemesTypeOK, LogRetellsThemes
<1>2. CASE ThemeStep
  BY <1>2, SaveTInv, ResetTInv, LogTInv, LoadBillingTInv, RenderTInv DEF ThemeStep
<1>3. CASE UNCHANGED allVars
  BY <1>3 DEF allVars, themeVars, TInv, ThemesTypeOK, LogRetellsThemes
<1> QED BY <1>1, <1>2, <1>3, Steps

LEMMA AlwaysTInv == ThemesSpec => []TInv
<1>1. ThemesSpec => []TypeOK
  BY ThemesLeaveOrganizations, TypeCorrect, PTL
<1> QED BY <1>1, InitTInv, NextTInv, PTL DEF ThemesSpec

\* Rows, entries, jobs and PDFs keep their types: a theme in the table has
\* every field, whatever a form leaves empty.
THEOREM ThemesTypeCorrect == ThemesSpec => []ThemesTypeOK
<1>1. TInv => ThemesTypeOK
  BY DEF TInv
<1> QED BY <1>1, AlwaysTInv, PTL

\* Unless an entry was lost, the audit log retells the themes of every owner.
THEOREM ThemesAreRetold == ThemesSpec => []LogRetellsThemes
<1>1. TInv => LogRetellsThemes
  BY DEF TInv
<1> QED BY <1>1, AlwaysTInv, PTL

-----------------------------------------------------------------------------
(* What a PDF shows.                                                        *)

\* resolve_theme_for_billing and _resolve_effective_source, two functions in
\* two files, agree on a Billing whose owner is the stored one.
LEMMA ResolvedIsShown ==
  ASSUME TypeOK, NEW b \in Billings
  PROVE  resolve_theme_for_billing(b, billing[b].owner) = Shown(b)
<1>1. billing[b].type \in {"user", "organization"}
  BY DEF TypeOK, BillingRow
<1>2. CASE get_by_owner(b) # None
  BY <1>2 DEF Shown, _resolve_effective_source, resolve_theme_for_billing
<1>3. CASE get_by_owner(b) = None /\ get_by_owner(billing[b].owner) # None
  BY <1>1, <1>3 DEF Shown, _resolve_effective_source, resolve_theme_for_billing
<1>4. CASE get_by_owner(b) = None /\ get_by_owner(billing[b].owner) = None
  BY <1>4 DEF Shown, _resolve_effective_source, resolve_theme_for_billing
<1> QED BY <1>2, <1>3, <1>4

\* However many jobs are under way and whatever happens to owners and themes
\* meanwhile, a PDF of the web application has the theme its billing's page
\* shows, unless the billing was transferred since it was loaded.
THEOREM PdfsAreAsShown == ThemesSpec => RenderedAsShown
<1> DEFINE Renders == \A j \in Jobs :
              LET b == job[j].billing
              IN  ( /\ job[j] # None /\ job'[j] = None /\ job[j].by = "web"
                    /\ job[j].owner = billing[b].owner ) => pdf' = Shown(b)
<1>1. TInv /\ TypeOK /\ [ThemesNext]_allVars => [Renders]_allVars
  <2> SUFFICES ASSUME TInv, TypeOK, ThemesNext, NEW j \in Jobs, job[j] # None, job'[j] = None,
                      job[j].by = "web", job[j].owner = billing[job[j].billing].owner
               PROVE  pdf' = Shown(job[j].billing)
    OBVIOUS
  <2>1. job[j] \in Job /\ job \in [Jobs -> Job \cup {None}]
    BY DEF TInv, ThemesTypeOK
  <2>2. job[j].billing \in Billings
    BY <2>1 DEF Job
  <2>3. job' # job
    BY DEF TInv
  <2>4. ~ OrganizationsStep /\ \A x \in Owners : ~ Save(x) /\ ~ Reset(x)
    BY <2>3 DEF OrganizationsStep, Save, Reset
  <2>5. ~ LogTheme /\ ~ LoseTheme
    BY <2>3 DEF LogTheme, LoseTheme
  <2>6. ASSUME NEW k \in Jobs, NEW b \in Billings, LoadBilling(k, b)
        PROVE  FALSE
    <3>1. PICK by \in {"web", "cli"} :
             /\ job[k] = None
             /\ job' = [job EXCEPT ![k] = [billing |-> b, owner |-> billing[b].owner, by |-> by]]
      BY <2>6 DEF LoadBilling
    <3> QED BY <2>1, <3>1
  <2>7. PICK k \in Jobs : _generate_and_store_pdf(k)
    BY <2>4, <2>5, <2>6, Steps DEF ThemeStep
  <2>8. k = j
    BY <2>1, <2>7 DEF _generate_and_store_pdf
  <2>9. pdf' = resolve_theme_for_billing(job[j].billing, billing[job[j].billing].owner)
    BY <2>7, <2>8 DEF _generate_and_store_pdf
  <2> QED BY <2>2, <2>9, ResolvedIsShown
<1>2. ThemesSpec => []TypeOK
  BY ThemesLeaveOrganizations, TypeCorrect, PTL
<1> QED BY <1>1, <1>2, AlwaysTInv, PTL DEF ThemesSpec, RenderedAsShown
=============================================================================
