-------------------------------- MODULE Accounts --------------------------------
(***************************************************************************)
(* One account: the owner changes it from the user settings while its user *)
(* signs in, browses and signs out in several browsers                     *)
(* (app/services/team_users.py, app/services/account_security.py,          *)
(* app/auth.py, the guard in app/main.py, app/services/workspace_context.py).*)
(*                                                                         *)
(* Accounts share no row, so one of each role stands for all.  Every       *)
(* request reads before the lock and writes under it, and a sign-in or a   *)
(* password change is several transactions.                                *)
(***************************************************************************)
EXTENDS Access, Naturals, FiniteSets

CONSTANTS
  AccountRoles,   \* roles the account may have
  Browsers,       \* browsers of its user
  Desks,          \* tabs of the owner
  AccountRooms    \* bounds, one record chosen at the start: tabs and browsers at the same
                  \* time, pages he asks for, highest session_version, where the contact
                  \* permission is changed

ASSUME AccountsAssumption ==
  /\ AccountRoles \subseteq Roles
  /\ AccountRooms \subseteq [desks : Nat, browsers : Nat, pages : SUBSET Pages,
                            version : Nat \ {0}, contact : SUBSET Workspaces]
  /\ IsFiniteSet(Desks)

VARIABLES
  account,     \* its row of users
  membership,  \* its rows of organization_memberships
  holds,       \* the workspaces where a lead is managed by the account
  browser,     \* cookie, auth_sessions row and navigation of each browser, and when its
               \* password was verified: since the last change of the account, while
               \* that change overtook the request, or before it
  desk,        \* what each tab has checked and is about to write
  accountRoom  \* the record of AccountRooms this behaviour has

accountVars == <<account, membership, holds, browser, desk, accountRoom>>

NoRow == [role |-> NoMembership, active |-> FALSE, contact |-> FALSE]
Nowhere == "nowhere"

SignedOut == [stage |-> "out", version |-> 0, row |-> "none", workspace |-> NoWorkspace,
              next |-> Nowhere, page |-> "login", hops |-> 0, proof |-> "none", must |-> FALSE]

NoRequest == [op |-> "idle", workspace |-> NoWorkspace, role |-> NoMembership, on |-> FALSE]

\* The owner is there from the start, in both workspaces.
AccountInit ==
  /\ \E role \in AccountRoles :
       /\ account = [role |-> role, status |-> IF role = "owner" THEN "active" ELSE "none",
                     must |-> FALSE, version |-> 1]
       /\ membership = [w \in Workspaces |->
            IF role = "owner" THEN [NoRow EXCEPT !.role = "workspace_admin", !.active = TRUE]
                              ELSE NoRow]
  /\ holds = {}
  /\ browser = [b \in Browsers |-> SignedOut]
  /\ desk = [t \in Desks |-> NoRequest]
  /\ accountRoom \in AccountRooms

Staff == account.role \in StaffRoles

\* authorized_workspaces
MemberOf == {w \in Workspaces : membership[w].active}

\* resolve_workspace_session: the chosen one, the owner's default, or the only one.
Resolve(chosen) ==
  IF chosen \in MemberOf THEN chosen
  ELSE IF account.role = "owner" THEN "mark-agency"
  ELSE IF Cardinality(MemberOf) = 1 THEN CHOOSE w \in MemberOf : TRUE
  ELSE NoWorkspace

ActorIn(w) == [role |-> account.role, workspace |-> w,
               membership |-> IF w = NoWorkspace THEN NoMembership ELSE membership[w].role]

\* The session of a browser, as current_user sees it.
Valid(b) ==
  /\ account.status = "active"
  /\ browser[b].version = account.version /\ browser[b].row = "live"

-----------------------------------------------------------------------------
(* The owner's requests.                                                   *)

\* _validated_membership_role
MembershipRolesOf(role) ==
  CASE role = "lead_sourcer" -> {"crm_contributor"}
    [] role = "relationship_manager" -> {"crm_contributor", "workspace_owner"}
    [] OTHER -> {}

\* create_managed_user
CreateAccount ==
  /\ account.status = "none"
  /\ account' = [account EXCEPT !.status = "active", !.must = TRUE]
  /\ IF Staff
     THEN \E w \in Workspaces, role \in MembershipRolesOf(account.role) :
            membership' = [membership EXCEPT ![w] = [NoRow EXCEPT !.role = role, !.active = TRUE]]
     ELSE UNCHANGED membership
  /\ UNCHANGED <<holds, browser, desk>>

Ask(t, request) ==
  /\ account.status # "none"
  /\ desk[t].op = "idle"
  /\ Cardinality({u \in Desks : desk[u].op # "idle"}) < accountRoom.desks
  /\ desk' = [desk EXCEPT ![t] = request]
  /\ UNCHANGED <<account, membership, holds, browser>>

Answer(t, op) == desk[t].op = op /\ desk' = [desk EXCEPT ![t] = NoRequest]

\* A request that asks for what is so already, or is refused, writes nothing.
Refuse(t) ==
  /\ desk[t].op # "idle"
  /\ desk' = [desk EXCEPT ![t] = NoRequest]
  /\ UNCHANGED <<account, membership, holds, browser>>

\* A session when the account is changed: a request that has verified the password and
\* not written yet goes on, the others stand on what is no more.
Overtaken(s) ==
  IF s.stage = "out" THEN s
  ELSE [s EXCEPT !.proof = IF s.stage \in {"known", "changing"} THEN "overtaken" ELSE "old"]

Revoked(s) == IF s.row = "live" THEN [s EXCEPT !.row = "revoked"] ELSE s

\* Mutant: the rows of auth_sessions are revoked, the version stays.
RevokeRowsOnly(row) ==
  /\ account' = row
  /\ browser' = [b \in Browsers |-> Overtaken(Revoked(browser[b]))]

\* session_version + 1 and revoke_all_sessions.
EndSessions(row) ==
  /\ account.version < accountRoom.version
  /\ account' = [row EXCEPT !.version = @ + 1]
  /\ browser' = [b \in Browsers |-> Overtaken(Revoked(browser[b]))]

\* set_workspace_membership, up to its first write.
AskAccess(t) ==
  \E w \in Workspaces, role \in MembershipRolesOf(account.role), on \in BOOLEAN :
    /\ Staff
    /\ membership[w].role # role \/ membership[w].active # on
    /\ Ask(t, [op |-> "access", workspace |-> w, role |-> role, on |-> on])

\* The upsert leaves can_contact_leads as it was; leads go back when access ends.
SetAccess(t) ==
  LET w == desk[t].workspace
  IN  /\ Answer(t, "access")
      /\ membership' = [membership EXCEPT ![w].role = desk[t].role, ![w].active = desk[t].on]
      /\ holds' = IF desk[t].on THEN holds ELSE holds \ {w}
      /\ EndSessions(account)

AskContact(t) ==
  \E w \in accountRoom.contact, on \in BOOLEAN :
    /\ account.role = "relationship_manager"
    /\ Ask(t, [NoRequest EXCEPT !.op = "contact", !.workspace = w, !.on = on])

\* set_can_contact_leads: of an active membership, and sessions go on.
SetContact(t) ==
  LET w == desk[t].workspace
  IN  /\ Answer(t, "contact")
      /\ membership[w].active
      /\ membership' = [membership EXCEPT ![w].contact = desk[t].on]
      /\ UNCHANGED <<account, holds, browser>>

AskActive(t) ==
  \E on \in BOOLEAN :
    /\ on # (account.status = "active")
    /\ ~on => account.role # "owner"
    /\ Ask(t, [NoRequest EXCEPT !.op = "active", !.on = on])

\* set_user_active: leads go back, staff without any membership get one.
SetActive(t) ==
  /\ Answer(t, "active")
  /\ EndSessions([account EXCEPT !.status = IF desk[t].on THEN "active" ELSE "inactive"])
  /\ holds' = IF desk[t].on THEN holds ELSE {}
  /\ membership' = IF desk[t].on /\ Staff /\ \A w \in Workspaces : membership[w] = NoRow
                   THEN [membership EXCEPT !["mark-agency"] =
                          [NoRow EXCEPT !.role = "crm_contributor", !.active = TRUE]]
                   ELSE membership

AskReset(t) == Ask(t, [NoRequest EXCEPT !.op = "reset"])

\* reset_user_password
ResetPassword(t) ==
  /\ Answer(t, "reset")
  /\ EndSessions([account EXCEPT !.must = TRUE])
  /\ UNCHANGED <<membership, holds>>

\* assign_relationship_manager: the account is looked up before the lock.
AskAssign(t) ==
  \E w \in MemberOf :
    /\ account.role = "relationship_manager" /\ account.status = "active"
    /\ Ask(t, [NoRequest EXCEPT !.op = "assign", !.workspace = w])

Assign(t) ==
  /\ Answer(t, "assign")
  /\ holds' = holds \cup {desk[t].workspace}
  /\ UNCHANGED <<account, membership, browser>>

-----------------------------------------------------------------------------
(* The user's browsers.                                                    *)

Turn(b, state) ==
  /\ browser' = [browser EXCEPT ![b] = state]
  /\ UNCHANGED <<account, membership, holds, desk>>

At(b, stage) == browser[b].stage = stage

\* authenticate_user: the password is verified against the row of an active account,
\* which is read before the lock.
BeginSignIn(b) ==
  /\ At(b, "out") /\ Cardinality({c \in Browsers : ~At(c, "out")}) < accountRoom.browsers
  /\ account.status = "active"
  /\ Turn(b, [SignedOut EXCEPT !.stage = "known", !.proof = "current"])

\* Its UPDATE, by the id alone, and the row as it is then.
Authenticate(b) ==
  /\ At(b, "known")
  /\ Turn(b, [browser[b] EXCEPT !.stage = "read", !.version = account.version,
                                !.must = account.must])

\* sign_in: a row of auth_sessions and a new cookie.
SignIn(b) ==
  /\ At(b, "read")
  /\ Turn(b, [browser[b] EXCEPT !.stage = "landing", !.row = "live", !.workspace = NoWorkspace])

\* login_submit and account_password_submit, their redirect.
Land(b) ==
  LET w == IF Valid(b) THEN Resolve(browser[b].workspace) ELSE NoWorkspace
  IN  /\ At(b, "landing")
      /\ \E page \in accountRoom.pages :
           Turn(b, [browser[b] EXCEPT !.stage = "in", !.hops = 1, !.workspace = w,
                      !.next = IF browser[b].must THEN "password"
                               ELSE PermittedDestination(ActorIn(w), page)])

Resting(b) == At(b, "in") /\ browser[b].next = Nowhere

Click(b) ==
  \E page \in accountRoom.pages : Resting(b) /\ Turn(b, [browser[b] EXCEPT !.next = page, !.hops = 0])

Shown(b, page) == [browser[b] EXCEPT !.next = Nowhere, !.page = page,
                                     !.workspace = Resolve(browser[b].workspace), !.hops = 0]
Redirected(b, page) == [browser[b] EXCEPT !.next = page, !.hops = @ + 1,
                                          !.workspace = Resolve(browser[b].workspace)]

Sent(b) == At(b, "in") /\ browser[b].next # Nowhere
Me(b) == ActorIn(Resolve(browser[b].workspace))

\* login_and_permission_guard, in its order.
GuardSession(b) ==
  Sent(b) /\ ~Valid(b) /\ Turn(b, SignedOut)

GuardAccess(b) ==
  /\ Sent(b) /\ Valid(b) /\ ~CanOpen(Me(b), browser[b].next)
  /\ Turn(b, Redirected(b, Landing(Me(b))))

Guarded(b) == Sent(b) /\ Valid(b) /\ CanOpen(Me(b), browser[b].next)

GuardPassword(b) ==
  /\ Guarded(b) /\ account.must /\ browser[b].next # "password"
  /\ Turn(b, Redirected(b, "password"))

CrmPages == {"crm", "lead", "templates", "clients"}

\* The pages that need a workspace refuse without one, or redirect.
Handle(b) ==
  LET page == browser[b].next
      w == Me(b).workspace
  IN  /\ Guarded(b) /\ (account.must => page = "password")
      /\ Turn(b,
           IF page = "relationship-manager"
              /\ (account.role # "relationship_manager" \/ w = NoWorkspace)
           THEN Redirected(b, "crm")
           ELSE Shown(b, IF page = "password" THEN "password"
                         ELSE IF page \in CrmPages /\ w = NoWorkspace THEN "forbidden"
                         ELSE "page"))

\* select_workspace, which only the owner may post.
SelectWorkspace(b) ==
  \E w \in MemberOf :
    /\ Resting(b) /\ Valid(b) /\ account.role = "owner" /\ ~account.must
    /\ Turn(b, [browser[b] EXCEPT !.workspace = w, !.next = "crm", !.hops = 1])

\* account_password_submit, until change_own_password has verified the old password.
BeginPassword(b) ==
  /\ Resting(b) /\ Valid(b)
  /\ Turn(b, [browser[b] EXCEPT !.stage = "changing", !.proof = "current"])

\* Its UPDATE, by the id alone, and the row as it is then.
ChangePassword(b) ==
  /\ At(b, "changing")
  /\ account.version < accountRoom.version
  /\ account' = [account EXCEPT !.version = @ + 1, !.must = FALSE]
  /\ browser' = [c \in Browsers |->
       IF c = b THEN [browser[b] EXCEPT !.stage = "read", !.version = account.version + 1,
                                        !.must = FALSE]
       ELSE Overtaken(browser[c])]
  /\ UNCHANGED <<membership, holds, desk>>

BeginRevoke(b) ==
  Resting(b) /\ Valid(b) /\ ~account.must /\ Turn(b, [browser[b] EXCEPT !.stage = "revoking"])

\* account_sessions_revoke_others
RevokeOthers(b) ==
  /\ At(b, "revoking")
  /\ browser' = [c \in Browsers |->
       IF c = b THEN [browser[b] EXCEPT !.stage = "in", !.next = "sessions", !.hops = 1]
       ELSE Revoked(browser[c])]
  /\ UNCHANGED <<account, membership, holds, desk>>

\* logout, or seven days without one.
SignOut(b) == Resting(b) /\ Turn(b, SignedOut)
Expire(b) == Resting(b) /\ browser[b].row = "live" /\ Turn(b, [browser[b] EXCEPT !.row = "revoked"])

\* An error in a handler: the cookie is as it was.
Fail(b) ==
  \/ At(b, "known") /\ Turn(b, SignedOut)
  \/ browser[b].stage \in {"changing", "revoking"} /\ Turn(b, [browser[b] EXCEPT !.stage = "in"])

AccountStep ==
  \/ CreateAccount
  \/ \E t \in Desks :
       \/ AskAccess(t) \/ SetAccess(t) \/ AskContact(t) \/ SetContact(t)
       \/ AskActive(t) \/ SetActive(t) \/ AskReset(t) \/ ResetPassword(t)
       \/ AskAssign(t) \/ Assign(t) \/ Refuse(t)
  \/ \E b \in Browsers :
       \/ BeginSignIn(b) \/ Authenticate(b) \/ SignIn(b) \/ Land(b)
       \/ Click(b) \/ GuardSession(b) \/ GuardAccess(b) \/ GuardPassword(b) \/ Handle(b)
       \/ SelectWorkspace(b) \/ BeginPassword(b) \/ ChangePassword(b)
       \/ BeginRevoke(b) \/ RevokeOthers(b) \/ SignOut(b) \/ Expire(b) \/ Fail(b)

AccountNext == AccountStep /\ UNCHANGED accountRoom

AccountSpec == AccountInit /\ [][AccountNext]_accountVars

-----------------------------------------------------------------------------
(* Properties.                                                             *)

\* The variables have their types, and memberships the roles the account's role allows.
AccountTypeOK ==
  /\ account \in [role : AccountRoles, status : {"none", "active", "inactive"},
                  must : BOOLEAN, version : 1..accountRoom.version]
  /\ membership \in [Workspaces -> [role : MembershipRoles \cup {NoMembership},
                                    active : BOOLEAN, contact : BOOLEAN]]
  /\ \A w \in Workspaces :
       membership[w].role \in {NoMembership} \cup MembershipRolesOf(account.role)
                              \cup {r \in {"workspace_admin"} : account.role = "owner"}
  /\ holds \subseteq Workspaces
  /\ \A b \in Browsers :
       /\ browser[b].next \in Pages \cup {Nowhere}
       /\ browser[b].row \in {"none", "live", "revoked"}

\* Whoever is in has verified the password since the account was last changed, by the
\* owner or from another browser, or was overtaken by that change: authenticate_user and
\* change_own_password verify the password before they write by the id alone, so a
\* change in between does not stop them.  Any other session ends with the change, one
\* whose row of auth_sessions is only inserted after the revocation included.  While
\* a new password is due nobody is shown more than the password page, and that holds
\* of the sign-in a reset overtook.  A password change that a reset overtook takes
\* the reset back; nothing here excludes that.
SessionsFollowChanges ==
  \A b \in Browsers : Valid(b) /\ At(b, "in") =>
    /\ browser[b].proof \in {"current", "overtaken"}
    /\ account.must => browser[b].page \in {"login", "password"}

\* With one tab of the owner at a time, an account that is not active manages no
\* lead, and nobody manages a lead in a workspace he has no access to.  Two tabs
\* can leave one behind: the manager is looked up, deactivated, then assigned.
NothingHeldWithoutAccess ==
  accountRoom.desks = 1 =>
    \A w \in holds : account.status = "active" /\ membership[w].active

\* A click ends: whatever the account's role, workspace and password state, and
\* however the owner changes them between two redirects, it takes two redirects at most.
RedirectsEnd == \A b \in Browsers : browser[b].hops <= 2

\* Who has a workspace to work in is never told that he has none: the owner, and
\* staff with one active membership.
SoleWorkspaceIsUsed ==
  [][\A b \in Browsers :
       browser'[b].page = "forbidden" /\ Sent(b) /\ ~Sent(b)' =>
         account.role # "owner" /\ Cardinality(MemberOf) # 1]_accountVars

\* Sessions and leads follow the account: no session and, with one tab, no lead outlives
\* a change of it, and no user is sent round.
AccessFollowsAccount == SessionsFollowChanges /\ NothingHeldWithoutAccess /\ RedirectsEnd
================================================================================
