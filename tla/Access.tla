--------------------------------- MODULE Access ---------------------------------
(***************************************************************************)
(* Who may open which page and post which form                             *)
(* (app/services/access_control.py).  An actor is an account's role with   *)
(* the workspace of its session.  Paths are grouped: pages that the code   *)
(* treats alike are one name, and so are forms.                            *)
(***************************************************************************)

Workspaces == {"mark-agency", "pendang"}
NoWorkspace == "no workspace"

StaffRoles == {"lead_sourcer", "relationship_manager"}
PersonalRoles == {"owner", "member"}
Roles == StaffRoles \cup PersonalRoles
MembershipRoles == {"workspace_admin", "workspace_owner", "crm_contributor"}
NoMembership == "no membership"

IsWorkspaceOwner(actor) ==
  actor.role = "relationship_manager" /\ actor.membership = "workspace_owner"

Pages == {"home", "crm", "relationship-manager", "pendang", "password", "sessions",
          "insights", "templates", "clients", "lead", "settings"}

EveryonesPages == {"password", "sessions", "insights"}

PagesOf(actor) ==
  CASE actor.role = "member" -> {"home"}
    [] actor.role = "lead_sourcer" -> {"crm", "lead"}
    [] IsWorkspaceOwner(actor) ->
         {"relationship-manager", "crm", "lead", "templates", "clients"}
    [] OTHER -> {"relationship-manager", "crm", "lead", "templates"}

\* can_access_request, of a page.
CanOpen(actor, page) ==
  IF page = "pendang"
  THEN actor.workspace = "pendang" /\ actor.role \in StaffRoles \cup {"owner"}
  ELSE actor.role = "owner" \/ page \in EveryonesPages \cup PagesOf(actor)

StaffForms == {"new lead", "deliver"}

FormsOf(actor) ==
  CASE actor.role = "member" -> {"personal"}
    [] actor.role = "lead_sourcer" ->
         StaffForms \cup {"research", "record activity", "correct activity"}
    [] IsWorkspaceOwner(actor) ->
         StaffForms \cup {"next action", "use template", "qualify", "pipeline",
                          "record activity", "correct activity", "manage workspace"}
    [] OTHER -> StaffForms \cup {"next action", "use template", "qualify", "pipeline",
                                 "record activity"}

\* can_access_request, of a form.
CanPost(actor, form) ==
  IF form = "company"
  THEN actor.workspace = "pendang"
       /\ (\/ actor.role = "owner"
           \/ /\ actor.role = "relationship_manager"
              /\ actor.membership \in {"workspace_admin", "workspace_owner"})
  ELSE actor.role = "owner" \/ form \in {"own account"} \cup FormsOf(actor)

\* landing_path_for_user
Landing(actor) ==
  IF actor.workspace = "pendang" /\ actor.role # "member" THEN "pendang"
  ELSE CASE actor.role \in PersonalRoles -> "home"
         [] actor.role = "relationship_manager" -> "relationship-manager"
         [] actor.role = "lead_sourcer" -> "crm"

\* permitted_destination
PermittedDestination(actor, page) == IF CanOpen(actor, page) THEN page ELSE Landing(actor)
================================================================================
