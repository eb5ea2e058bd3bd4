------------------------------- MODULE Themes -------------------------------
(***************************************************************************)
(* The themes of invoices, composed with the organizations, memberships    *)
(* and billings that decide who may set one and whose theme a PDF shows.   *)
(*                                                                         *)
(* A theme belongs to a user, an organization or a billing.  Only the web  *)
(* application writes themes, and a handler does not suspend between its   *)
(* SELECT and its COMMIT; the audit entry is a second commit, which may be *)
(* lost.  A bill operation renders with the Billing it loaded before it    *)
(* suspended (job), while others transfer that billing or change themes.   *)
(***************************************************************************)
EXTENDS Organizations

CONSTANTS
    Fields,     \* the fields of a theme that a PDF shows: fonts, colours
    Values,     \* what they hold
    Default,    \* the value of every field of DEFAULT_THEME
    Blank,      \* a field the form leaves empty
    Lost,       \* in told: an entry is missing
    Jobs        \* bill operations that may be under way at once

Owners == Users \cup Orgs \cup Billings

ASSUME ThemesAssumption ==
    /\ Users \cap Orgs = {} /\ Users \cap Billings = {} /\ Orgs \cap Billings = {}
    /\ Default \in Values /\ Blank \notin Values /\ None \notin Owners

VARIABLES
    theme,      \* table themes: the row of each owner, or None
    entry,      \* the audit entry the running handler is about to write, or None
    told,       \* the theme of each owner as the audit log tells it, until an
                \* entry about it is lost
    job,        \* the Billing each bill operation holds in memory, or None
    pdf         \* the theme of the PDF that the last step stored, or None

themeVars == <<theme, entry, told, job, pdf>>
allVars   == <<vars, themeVars>>

Theme == [Fields -> Values]

DEFAULT_THEME == [f \in Fields |-> Default]

-----------------------------------------------------------------------------
(* ThemeService.                                                            *)

\* uq_themes_owner: an owner has at most one row.  The owner 0 of a billing
\* made by the CLI (None) has none.
get_by_owner(x) == IF x \in Owners THEN theme[x] ELSE None

\* Mutant: the owner's theme hides the billing's own.
resolve_theme_owner_first(b, owner) ==
    IF get_by_owner(owner) # None THEN get_by_owner(owner)
    ELSE IF get_by_owner(b) # None THEN get_by_owner(b)
    ELSE DEFAULT_THEME

\* The theme of billing b, by the owner the Billing in memory names.
resolve_theme_for_billing(b, owner) ==
    IF get_by_owner(b) # None THEN get_by_owner(b)
    ELSE IF get_by_owner(owner) # None THEN get_by_owner(owner)
    ELSE DEFAULT_THEME

\* web/routes/theme.py tells on the billing's page where its theme comes from.
_resolve_effective_source(b) ==
    IF get_by_owner(b) # None THEN "billing"
    ELSE IF get_by_owner(billing[b].owner) # None THEN billing[b].type
    ELSE "default"

\* What comes of a form: a field is left out, valid, or replaced by the default
\* font or colour.
_parse_theme_fields == [Fields -> Values \cup {Blank}]

\* A field left empty is no change: the row keeps its value and a new row has
\* the default.
create_or_update_theme(x, form) ==
    LET base == IF get_by_owner(x) = None THEN DEFAULT_THEME ELSE get_by_owner(x)
    IN  [f \in Fields |-> IF form[f] = Blank THEN base[f] ELSE form[f]]

-----------------------------------------------------------------------------
(* web/routes/theme.py: the change of one row, then its audit entry.        *)

Idle == Free /\ entry = None

\* Mutant: the previous theme is read after the change.
Save_late(x) ==
    /\ Idle
    /\ \E form \in _parse_theme_fields :
          theme' = [theme EXCEPT ![x] = create_or_update_theme(x, form)]
    /\ entry' = [event |-> "THEME_UPDATE", owner |-> x, previous |-> theme'[x], new |-> theme'[x]]
    /\ pdf' = None
    /\ UNCHANGED <<vars, told, job>>

Save(x) ==
    /\ Idle
    /\ \E form \in _parse_theme_fields :
          theme' = [theme EXCEPT ![x] = create_or_update_theme(x, form)]
    /\ entry' = [event |-> IF theme[x] = None THEN "THEME_CREATE" ELSE "THEME_UPDATE",
                 owner |-> x, previous |-> theme[x], new |-> theme'[x]]
    /\ pdf' = None
    /\ UNCHANGED <<vars, told, job>>

\* Without a row there is nothing to reset and nothing to log.
Reset(x) ==
    /\ Idle /\ theme[x] # None
    /\ theme' = [theme EXCEPT ![x] = None]
    /\ entry' = [event |-> "THEME_DELETE", owner |-> x, previous |-> theme[x], new |-> None]
    /\ pdf' = None
    /\ UNCHANGED <<vars, told, job>>

_check_org_admin(u, o) == get_by_uuid(o) /\ get_member(o, u) = "admin"

_check_billing_access(u, b) == billing[b].state = "live" /\ can_edit_billing(u, b)

user_theme_save(u)         == Save(u)
user_theme_delete(u)       == Reset(u)
org_theme_save(u, o)       == _check_org_admin(u, o) /\ Save(o)
org_theme_delete(u, o)     == _check_org_admin(u, o) /\ Reset(o)
billing_theme_save(u, b)   == _check_billing_access(u, b) /\ Save(b)
billing_theme_delete(u, b) == _check_billing_access(u, b) /\ Reset(b)

\* safe_log: the entry is written, or given up (the handler or the process may
\* also fail before it).
LogTheme ==
    /\ entry # None
    /\ told' = [told EXCEPT ![entry.owner] = IF @ = Lost THEN Lost ELSE entry.new]
    /\ entry' = None /\ pdf' = None
    /\ UNCHANGED <<vars, theme, job>>

LoseTheme ==
    /\ entry # None
    /\ told' = [told EXCEPT ![entry.owner] = Lost]
    /\ entry' = None /\ pdf' = None
    /\ UNCHANGED <<vars, theme, job>>

-----------------------------------------------------------------------------
(* BillService: a PDF is rendered with the Billing loaded at the start.     *)

\* The web's routes load the billing while they hold the event loop, and some
\* of them suspend after it; "cli" stands for the CLI and for the script, which
\* are other processes.
LoadBilling(j, b) ==
    /\ job[j] = None /\ billing[b].state = "live"
    /\ \E by \in {"web", "cli"} :
          /\ by = "web" => Idle
          /\ job' = [job EXCEPT ![j] = [billing |-> b, owner |-> billing[b].owner, by |-> by]]
    /\ pdf' = None
    /\ UNCHANGED <<vars, theme, entry, told>>

\* Only the web's BillService has a theme service.  A handler that has suspended
\* commits before it renders, so it reads the themes as they are.
_generate_and_store_pdf(j) ==
    /\ job[j] # None /\ (job[j].by = "web" => Idle)
    /\ pdf' = IF job[j].by = "web"
              THEN resolve_theme_for_billing(job[j].billing, job[j].owner)
              ELSE DEFAULT_THEME
    /\ job' = [job EXCEPT ![j] = None]
    /\ UNCHANGED <<vars, theme, entry, told>>

-----------------------------------------------------------------------------
ThemesInit ==
    /\ Init
    /\ theme = [x \in Owners |-> None]
    /\ entry = None
    /\ told = [x \in Owners |-> None]
    /\ job = [j \in Jobs |-> None]
    /\ pdf = None

\* Every web handler of Organizations moves run, and waits for a theme's
\* handler to end; the CLI does neither.
OrganizationsStep ==
    /\ Next
    /\ entry # None => run' = run
    /\ pdf' = None
    /\ UNCHANGED <<theme, entry, told, job>>

ThemesNext ==
    \/ OrganizationsStep
    \/ \E u \in Users :
          \/ user_theme_save(u) \/ user_theme_delete(u)
          \/ \E o \in Orgs : org_theme_save(u, o) \/ org_theme_delete(u, o)
          \/ \E b \in Billings : billing_theme_save(u, b) \/ billing_theme_delete(u, b)
    \/ LogTheme \/ LoseTheme
    \/ \E j \in Jobs : _generate_and_store_pdf(j) \/ \E b \in Billings : LoadBilling(j, b)

ThemesSpec == ThemesInit /\ [][ThemesNext]_allVars

-----------------------------------------------------------------------------
(* Properties.                                                              *)

Entry == [event: {"THEME_CREATE", "THEME_UPDATE", "THEME_DELETE"}, owner: Owners,
          previous: Theme \cup {None}, new: Theme \cup {None}]

Job == [billing: Billings, owner: Users \cup Orgs \cup {None}, by: {"web", "cli"}]

ASSUME ThemesNoneAssumption == 
    None \notin Entry /\ None \notin Job /\ None \notin Theme /\ Lost \notin Theme \cup {None}

\* Every row, entry, job and PDF has its type.
ThemesTypeOK ==
    /\ theme \in [Owners -> Theme \cup {None}]
    /\ entry \in Entry \cup {None}
    /\ told \in [Owners -> Theme \cup {None, Lost}]
    /\ job \in [Jobs -> Job \cup {None}]
    /\ pdf \in Theme \cup {None}

\* The audit log tells the truth about themes over time: unless one of its
\* entries was lost, reading an owner's THEME_* entries in order gives the row
\* in the table, and the entry about to be written starts from where the log
\* has arrived and has the type (create, update, delete) of the change.
LogRetellsThemes ==
    \A x \in {y \in Owners : told[y] # Lost} :
        IF entry # None /\ entry.owner = x
        THEN /\ entry.previous = told[x] /\ entry.new = theme[x]
             /\ entry.event = IF told[x] = None THEN "THEME_CREATE"
                              ELSE IF theme[x] = None THEN "THEME_DELETE" ELSE "THEME_UPDATE"
        ELSE told[x] = theme[x]

\* What the billing's page says of its theme: the row of the source it names.
Shown(b) ==
    LET source == _resolve_effective_source(b)
    IN  CASE source = "billing" -> get_by_owner(b)
          [] source \in {"user", "organization"} -> get_by_owner(billing[b].owner)
          [] source = "default" -> DEFAULT_THEME

\* A PDF the web application stores has the theme that the billing's page
\* shows at that moment, however long ago the Billing in memory was loaded,
\* unless the billing was transferred in between.
RenderedAsShown ==
    [][\A j \in Jobs :
          LET b == job[j].billing
          IN  ( /\ job[j] # None /\ job'[j] = None /\ job[j].by = "web"
                /\ job[j].owner = billing[b].owner ) => pdf' = Shown(b)]_allVars
=============================================================================
