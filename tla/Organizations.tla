---------------------------- MODULE Organizations ----------------------------
(***************************************************************************)
(* Organizations, their members, invites, and who owns a billing.          *)
(*                                                                         *)
(* None of these web handlers suspends between its first SELECT and its    *)
(* last COMMIT (the CSRF middleware has already received the form), so     *)
(* requests do not interleave; but a request is several commits, and a     *)
(* failure between two of them leaves the first one done.  run is the      *)
(* request in progress.  The CLI, another process, writes billings at any  *)
(* moment.                                                                 *)
(*                                                                         *)
(* Names, descriptions and line items are left out; a refused request      *)
(* changes nothing and is not a step.                                      *)
(***************************************************************************)
EXTENDS Integers, FiniteSets

CONSTANTS Users, Orgs, Invites, Billings,
    OrgRole,    \* the roles of the enumeration OrgRole
    OtherRole,  \* any other text: organization_invite does not check the role
    None

Roles == OrgRole \cup {OtherRole}

ASSUME OrganizationsAssumption ==
    /\ None \notin Users /\ None \notin Orgs /\ None \notin Invites /\ None \notin Roles
    /\ "admin" \in OrgRole

VARIABLES
    org,        \* table organizations
    member,     \* table organization_members: the role of each user, or None
    invite,     \* table invites: None or the row
    billing,    \* table billings: state and owner
    run,        \* the request in progress, between two of its commits, or None
    interrupted, \* history: creations and acceptances cut between their commits
    abandoned   \* history: organizations whose last admin gave up the role

tables  == <<org, member, invite, billing>>
history == <<interrupted, abandoned>>
vars    == <<org, member, invite, billing, run, interrupted, abandoned>>

-----------------------------------------------------------------------------
(* Steps of a request.                                                      *)

\* A handler starts when no other one is running.
Free == run = None

\* The handler goes on with step s, about row r (an invite or a billing).
Then(s, u, o, r) == run' = [step |-> s, user |-> u, org |-> o, row |-> r]

\* The change is committed; the audit entry of type event comes next.
ThenLog(event) == run' = [step |-> event, user |-> None, org |-> None, row |-> None]

-----------------------------------------------------------------------------
(* Repositories.                                                            *)

get_by_uuid(o) == org[o].state = "live"

get_member(o, u) == member[o][u]

\* The uniqueness constraint uq_org_member makes a second INSERT fail.
add_member(o, u, r) ==
    /\ get_member(o, u) = None
    /\ member' = [member EXCEPT ![o][u] = r]

remove_member(o, u) == member' = [member EXCEPT ![o][u] = None]

\* UPDATE ... WHERE: nothing happens to a user who is no member.
update_member_role(o, u, r) ==
    member' = IF get_member(o, u) = None THEN member ELSE [member EXCEPT ![o][u] = r]

invite_create(i, o, u, r) ==
    invite' = [invite EXCEPT ![i] = [org |-> o, user |-> u, role |-> r, status |-> "pending"]]

update_status(i, s) == invite' = [invite EXCEPT ![i].status = s]

Pending(i) == invite[i] # None /\ invite[i].status = "pending"

has_pending_invite(o, u) == \E i \in Invites : Pending(i) /\ invite[i].org = o /\ invite[i].user = u

transfer_owner(b, o) == billing' = [billing EXCEPT ![b].type = "organization", ![b].owner = o]

-----------------------------------------------------------------------------
(* AuthorizationService.                                                    *)

get_role_for_billing(u, b) ==
    IF billing[b].type = "user" /\ billing[b].owner = u THEN "owner"
    ELSE IF billing[b].type = "organization" THEN get_member(billing[b].owner, u)
    ELSE None

can_edit_billing(u, b) == get_role_for_billing(u, b) \in {"owner", "admin"}

can_transfer_billing(u, b) == billing[b].type = "user" /\ billing[b].owner = u

\* Every handler of web/routes/organization.py but the first: the organization
\* exists and the user is one of its admins.
AsAdmin(u, o) == Free /\ get_by_uuid(o) /\ get_member(o, u) = "admin"

-----------------------------------------------------------------------------
(* web/routes/organization.py                                               *)

\* The row, and in a second commit its first admin.
organization_create(u) ==
    /\ Free
    /\ \E o \in Orgs :
          /\ org[o].state = "absent"
          /\ org' = [org EXCEPT ![o] = [state |-> "live", by |-> u, mfa |-> FALSE]]
          /\ Then("add_admin", u, o, None)
    /\ UNCHANGED <<member, invite, billing, history>>

AddFirstAdmin ==
    /\ run # None /\ run.step = "add_admin"
    /\ add_member(run.org, run.user, "admin")
    /\ ThenLog("ORGANIZATION_CREATE")
    /\ UNCHANGED <<org, invite, billing, history>>

\* repo.update writes the name and, unchanged, enforce_mfa.
organization_edit(u, o) ==
    /\ AsAdmin(u, o)
    /\ ThenLog("ORGANIZATION_UPDATE")
    /\ UNCHANGED <<tables, history>>

organization_delete(u, o) ==
    /\ AsAdmin(u, o)
    /\ org' = [org EXCEPT ![o].state = "deleted"]
    /\ ThenLog("ORGANIZATION_DELETE")
    /\ UNCHANGED <<member, invite, billing, history>>

\* Any target, the acting admin included.
member_change_role(u, o, t) ==
    /\ AsAdmin(u, o)
    /\ \E r \in OrgRole :
          /\ update_member_role(o, t, r)
          /\ abandoned' = IF r # "admin" /\ \A x \in Users \ {t} : get_member(o, x) # "admin"
                          THEN abandoned \cup {o} ELSE abandoned
    /\ ThenLog("ORGANIZATION_UPDATE_MEMBER_ROLE")
    /\ UNCHANGED <<org, invite, billing, interrupted>>

\* Mutant: an admin may remove himself.
member_remove_self(u, o, t) ==
    /\ AsAdmin(u, o)
    /\ remove_member(o, t)
    /\ ThenLog("ORGANIZATION_REMOVE_MEMBER")
    /\ UNCHANGED <<org, invite, billing, history>>

member_remove(u, o, t) ==
    /\ AsAdmin(u, o) /\ t # u
    /\ remove_member(o, t)
    /\ ThenLog("ORGANIZATION_REMOVE_MEMBER")
    /\ UNCHANGED <<org, invite, billing, history>>

\* Mutants: send_invite without its second, or its third, check.
send_invite_member(o, u, r) ==
    /\ ~ has_pending_invite(o, u)
    /\ \E i \in Invites : /\ invite[i] = None
                          /\ invite_create(i, o, u, r)
                          /\ ThenLog("INVITE_SEND")

send_invite_again(o, u, r) ==
    /\ get_member(o, u) = None
    /\ \E i \in Invites : /\ invite[i] = None
                          /\ invite_create(i, o, u, r)
                          /\ ThenLog("INVITE_SEND")

\* InviteService.send_invite
send_invite(o, u, r) ==
    /\ get_member(o, u) = None
    /\ ~ has_pending_invite(o, u)
    /\ \E i \in Invites : /\ invite[i] = None
                          /\ invite_create(i, o, u, r)
                          /\ ThenLog("INVITE_SEND")

organization_invite(u, o, t) ==
    /\ AsAdmin(u, o)
    /\ \E r \in Roles : send_invite(o, t, r)
    /\ UNCHANGED <<org, member, billing, history>>

organization_toggle_mfa(u, o) ==
    /\ AsAdmin(u, o)
    /\ org' = [org EXCEPT ![o].mfa = ~ @]
    /\ ThenLog("ORGANIZATION_UPDATE_MFA")
    /\ UNCHANGED <<member, invite, billing, history>>

\* BillingService.transfer_to_organization up to its UPDATE.
transfer_to_organization(s, u, o, b) ==
    /\ billing[b].state = "live" /\ billing[b].type = "user"
    /\ Then(s, u, o, b)
    /\ UNCHANGED <<tables, history>>

\* Mutant: the repository is called past the service and its checks.
organization_transfer_billing_direct(u, o, b) ==
    /\ AsAdmin(u, o)
    /\ billing[b].state = "live" /\ get_role_for_billing(u, b) # None
    /\ Then("transfer_unlogged", u, o, b)
    /\ UNCHANGED <<tables, history>>

organization_transfer_billing(u, o, b) ==
    /\ AsAdmin(u, o)
    /\ billing[b].state = "live" /\ can_transfer_billing(u, b)
    /\ transfer_to_organization("transfer_unlogged", u, o, b)

\* The UPDATE, which the CLI may have preceded with a soft delete.  The route
\* of web/routes/organization.py ends here and logs nothing.
TransferOwner(b) ==
    /\ run # None /\ run.step \in {"transfer", "transfer_unlogged"} /\ run.row = b
    /\ transfer_owner(b, run.org)
    /\ IF run.step = "transfer" THEN ThenLog("BILLING_TRANSFER") ELSE run' = None
    /\ UNCHANGED <<org, member, invite, history>>

-----------------------------------------------------------------------------
(* web/routes/invite.py and InviteService.                                  *)

\* Mutant: whoever follows the link joins.
invite_accept_anyone(u, i) ==
    /\ Free /\ Pending(i)
    /\ add_member(invite[i].org, u, invite[i].role)
    /\ Then("set_accepted", u, invite[i].org, i)
    /\ UNCHANGED <<org, invite, billing, history>>

\* Mutant: the invite is answered before the member is added.
invite_accept_early(u, i) ==
    /\ Free /\ Pending(i) /\ invite[i].user = u
    /\ update_status(i, "accepted")
    /\ Then("set_accepted", u, invite[i].org, i)
    /\ UNCHANGED <<org, member, billing, history>>

\* The member is committed first, whatever became of the organization; a user
\* who is a member already gets an error and nothing changes.
invite_accept(u, i) ==
    /\ Free /\ Pending(i) /\ invite[i].user = u
    /\ add_member(invite[i].org, u, invite[i].role)
    /\ Then("set_accepted", u, invite[i].org, i)
    /\ UNCHANGED <<org, invite, billing, history>>

SetAccepted ==
    /\ run # None /\ run.step = "set_accepted"
    /\ update_status(run.row, "accepted")
    /\ ThenLog("INVITE_ACCEPT")
    /\ UNCHANGED <<org, member, billing, history>>

invite_decline(u, i) ==
    /\ Free /\ Pending(i) /\ invite[i].user = u
    /\ update_status(i, "declined")
    /\ ThenLog("INVITE_DECLINE")
    /\ UNCHANGED <<org, member, billing, history>>

-----------------------------------------------------------------------------
(* web/routes/billing.py: ownership of a billing.                           *)

\* Owned by the user or by the organization id of the form, whatever that is.
billing_create(u, b) ==
    /\ Free /\ billing[b].state = "absent"
    /\ \E w \in {[state |-> "live", type |-> "user", owner |-> u]}
                  \cup [state: {"live"}, type: {"organization"}, owner: Orgs] :
          billing' = [billing EXCEPT ![b] = w]
    /\ ThenLog("BILLING_CREATE")
    /\ UNCHANGED <<org, member, invite, history>>

billing_transfer(u, b) ==
    /\ Free /\ billing[b].state = "live" /\ can_transfer_billing(u, b)
    /\ \E o \in Orgs : transfer_to_organization("transfer", u, o, b)

billing_delete(u, b) ==
    /\ Free /\ billing[b].state = "live" /\ can_edit_billing(u, b)
    /\ billing' = [billing EXCEPT ![b].state = "deleted"]
    /\ ThenLog("BILLING_DELETE")
    /\ UNCHANGED <<org, member, invite, history>>

-----------------------------------------------------------------------------
(* rentivo/cli/billing_menu.py: the CLI has no user, and asks for none of    *)
(* the permissions.  Its audit entries are left out.                         *)

\* owner_id stays 0, which is no user's id.
create_billing_menu(b) ==
    /\ billing[b].state = "absent"
    /\ billing' = [billing EXCEPT ![b] = [state |-> "live", type |-> "user", owner |-> None]]
    /\ UNCHANGED <<org, member, invite, run, history>>

excluir_cobranca(b) ==
    /\ billing[b].state # "absent"
    /\ billing' = [billing EXCEPT ![b].state = "deleted"]
    /\ UNCHANGED <<org, member, invite, run, history>>

-----------------------------------------------------------------------------
Events == {"ORGANIZATION_CREATE", "ORGANIZATION_UPDATE", "ORGANIZATION_DELETE",
           "ORGANIZATION_UPDATE_MEMBER_ROLE", "ORGANIZATION_REMOVE_MEMBER",
           "ORGANIZATION_UPDATE_MFA", "INVITE_SEND", "INVITE_ACCEPT", "INVITE_DECLINE",
           "BILLING_CREATE", "BILLING_TRANSFER", "BILLING_DELETE"}

\* AuditService.safe_log: an entry that cannot be written is given up, and the
\* handler ends either way.
safe_log ==
    /\ run # None /\ run.step \in Events
    /\ run' = None
    /\ UNCHANGED <<tables, history>>

\* The database raises or the process dies between two commits.
Fail ==
    /\ run # None
    /\ run' = None
    /\ interrupted' = interrupted \cup
          (CASE run.step = "add_admin"    -> {run.org}
             [] run.step = "set_accepted" -> {run.row}
             [] OTHER                     -> {})
    /\ UNCHANGED <<tables, abandoned>>

Init ==
    /\ org = [o \in Orgs |-> [state |-> "absent", by |-> None, mfa |-> FALSE]]
    /\ member = [o \in Orgs |-> [u \in Users |-> None]]
    /\ invite = [i \in Invites |-> None]
    /\ billing = [b \in Billings |-> [state |-> "absent", type |-> "user", owner |-> None]]
    /\ run = None /\ interrupted = {} /\ abandoned = {}

Admin(u, o) ==
    \/ organization_edit(u, o) \/ organization_delete(u, o) \/ organization_toggle_mfa(u, o)
    \/ \E t \in Users : \/ member_change_role(u, o, t) \/ member_remove(u, o, t)
                        \/ organization_invite(u, o, t)
    \/ \E b \in Billings : organization_transfer_billing(u, o, b)

Invited(u, i) == invite_accept(u, i) \/ invite_decline(u, i)

Landlord(u, b) == billing_create(u, b) \/ billing_transfer(u, b) \/ billing_delete(u, b)

Cli(b) == create_billing_menu(b) \/ excluir_cobranca(b)

Next ==
    \/ \E u \in Users : \/ organization_create(u)
                        \/ \E o \in Orgs : Admin(u, o)
                        \/ \E i \in Invites : Invited(u, i)
                        \/ \E b \in Billings : Landlord(u, b)
    \/ \E b \in Billings : Cli(b) \/ TransferOwner(b)
    \/ AddFirstAdmin \/ SetAccepted \/ safe_log \/ Fail

Spec == Init /\ [][Next]_vars

-----------------------------------------------------------------------------
(* Properties.                                                              *)

States == {"absent", "live", "deleted"}

OrgRow == [state: States, by: Users \cup {None}, mfa: BOOLEAN]

BillingRow == [state: States, type: {"user", "organization"},
               owner: Users \cup Orgs \cup {None}]

InviteRow == [org: Orgs, user: Users, role: Roles,
              status: {"pending", "accepted", "declined"}]

Run == [step: {"add_admin"}, user: Users, org: Orgs, row: {None}]
       \cup [step: {"set_accepted"}, user: Users, org: Orgs, row: Invites]
       \cup [step: {"transfer", "transfer_unlogged"}, user: Users, org: Orgs, row: Billings]
       \cup [step: Events, user: {None}, org: {None}, row: {None}]

ASSUME NoneAssumption == None \notin InviteRow /\ None \notin Run

\* Every table and the request in progress have their types.
TypeOK ==
    /\ org \in [Orgs -> OrgRow]
    /\ member \in [Orgs -> [Users -> Roles \cup {None}]]
    /\ invite \in [Invites -> InviteRow \cup {None}]
    /\ billing \in [Billings -> BillingRow]
    /\ run \in Run \cup {None}
    /\ interrupted \subseteq Orgs \cup Invites
    /\ abandoned \subseteq Orgs

Creating(o)  == run # None /\ run.step = "add_admin" /\ run.org = o
Accepting(i) == run # None /\ run.step = "set_accepted" /\ run.row = i

\* A user has at most one pending invite to an organization, through any
\* sequence of invites, answers, removals and failures (send_invite).
OnePendingInvite ==
    \A i, j \in Invites :
        (Pending(i) /\ Pending(j) /\ invite[i].org = invite[j].org
                    /\ invite[i].user = invite[j].user) => i = j

\* Who has a pending invite is not a member, unless accept_invite was cut
\* between adding the member and closing the invite.
PendingMeansOutside ==
    \A i \in Invites :
        Pending(i) => \/ member[invite[i].org][invite[i].user] = None
                      \/ Accepting(i) \/ i \in interrupted

\* Nobody is a member of an organization he did not create without an invite
\* of his own that he accepted, though the acceptance may have been cut short.
MembersWereInvited ==
    \A o \in Orgs, u \in Users :
        member[o][u] # None =>
            \/ org[o].by = u
            \/ \E i \in Invites :
                  /\ invite[i] # None /\ invite[i].org = o /\ invite[i].user = u
                  /\ invite[i].status = "accepted" \/ Accepting(i) \/ i \in interrupted

\* An organization keeps an admin: removing members cannot take the last one
\* (member_remove), only an interrupted creation or the last admin's own change
\* of role can.
AnAdminRemains ==
    \A o \in Orgs :
        org[o].state # "absent" =>
            \/ \E u \in Users : member[o][u] = "admin"
            \/ Creating(o) \/ o \in interrupted \/ o \in abandoned

\* An invite is answered once, and becomes accepted only when its user is a
\* member (accept_invite's order of commits).
InviteAnsweredOnce ==
    [][\A i \in Invites :
          (invite[i] # None /\ invite'[i] # invite[i]) =>
              /\ invite[i].status = "pending"
              /\ invite'[i].status = "accepted" => member'[invite[i].org][invite[i].user] # None]_vars

\* A billing changes hands at most once, from a person to an organization,
\* whichever of the two routes transfers it and whatever the CLI does between
\* the check of transfer_to_organization and its UPDATE.
OwnedOnce ==
    [][\A b \in Billings :
          (billing[b].state # "absent" /\ billing'[b].owner # billing[b].owner) =>
              billing[b].type = "user" /\ billing'[b].type = "organization"]_vars
=============================================================================
