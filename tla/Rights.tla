------------------------------- MODULE Rights -------------------------------
(***************************************************************************)
(* What the roles of a user allow.  resolve_role_policy turns a set of    *)
(* roles into a policy; the handlers ask the policy through                *)
(* require_permission and through can_apply_change, which take different   *)
(* names for the same deed: none of the names the handlers are decorated   *)
(* with is a key of CHANGE_APPROVAL_LEVELS.                                *)
(***************************************************************************)
EXTENDS Integers, FiniteSetsExt

MAX_APPROVAL_LEVEL == 10
DEFAULT_APPROVAL_LEVEL == 6

CHANGE_APPROVAL_LEVELS ==
    [request_access |-> 3, create_vendor_profile |-> 9, update_vendor_profile |-> 6,
     update_offering |-> 6, create_offering |-> 6, create_contract |-> 6,
     update_contract |-> 6, map_contract_to_offering |-> 6, map_demo_to_offering |-> 3,
     add_vendor_owner |-> 6, add_vendor_org_assignment |-> 6, add_vendor_contact |-> 3,
     add_offering_owner |-> 6, remove_offering_owner |-> 6, add_offering_contact |-> 3,
     remove_offering_contact |-> 3, update_offering_profile |-> 6,
     add_offering_note |-> 3, add_offering_ticket |-> 3, update_offering_ticket |-> 3,
     add_offering_invoice |-> 3, remove_offering_invoice |-> 3, create_project |-> 6,
     update_project |-> 6, update_project_owner |-> 6, attach_project_vendor |-> 6,
     attach_project_offering |-> 6, add_project_note |-> 3, create_project_demo |-> 6,
     update_project_demo |-> 3, remove_project_demo |-> 3, create_doc_link |-> 3,
     remove_doc_link |-> 3, create_demo_outcome |-> 6,
     record_contract_cancellation |-> 9, grant_role |-> 9, grant_scope |-> 9]

Changes == DOMAIN CHANGE_APPROVAL_LEVELS

required_approval_level(change) ==
    IF change \in Changes THEN CHANGE_APPROVAL_LEVELS[change] ELSE DEFAULT_APPROVAL_LEVEL

Definition(level, edit, report, direct) ==
    [level |-> level, edit |-> edit, report |-> report, direct |-> direct]

ROLE_DEFAULT_DEFINITIONS ==
    [system_admin    |-> Definition( 0, FALSE, TRUE,  FALSE),
     vendor_admin    |-> Definition(10, TRUE,  TRUE,  TRUE),
     vendor_approver |-> Definition( 7, FALSE, TRUE,  FALSE),
     vendor_steward  |-> Definition( 7, TRUE,  TRUE,  TRUE),
     vendor_editor   |-> Definition( 4, TRUE,  TRUE,  FALSE),
     vendor_viewer   |-> Definition( 0, FALSE, FALSE, FALSE),
     vendor_auditor  |-> Definition( 0, FALSE, TRUE,  FALSE)]

BuiltIn == DOMAIN ROLE_DEFAULT_DEFINITIONS

default_change_permissions_for_role(role) ==
    {change \in Changes :
        \/ role = "vendor_admin"
        \/ CHANGE_APPROVAL_LEVELS[change] <= ROLE_DEFAULT_DEFINITIONS[role].level}

DefaultPermissions ==
    UNION {{role} \X default_change_permissions_for_role(role) : role \in BuiltIn}

\* The policy of a user without roles.
NoRolePolicy ==
    [roles |-> {}, edit |-> FALSE, report |-> FALSE, submit |-> TRUE, approve |-> FALSE,
     direct |-> FALSE, level |-> 0, actions |-> {"request_access"}]

\* definitions: those listed and active, by role; permissions: the active rows.
resolve_role_policy(roles, definitions, permissions) ==
    LET known == DOMAIN definitions \cap roles
        fallback == (BuiltIn \cap roles) \ known
        selected == {definitions[r] : r \in known}
                        \cup {ROLE_DEFAULT_DEFINITIONS[r] : r \in fallback}
        defs == IF selected = {} THEN {ROLE_DEFAULT_DEFINITIONS.vendor_viewer} ELSE selected
        admin == "vendor_admin" \in roles
        system == "system_admin" \in roles /\ ~admin
        top == Max({d.level : d \in defs})
        edits == \E d \in defs : d.edit
        level == IF admin THEN MAX_APPROVAL_LEVEL ELSE IF system THEN 0 ELSE top
        listed == IF admin THEN Changes
                  ELSE {c \in Changes : \E r \in roles : <<r, c>> \in permissions}
    IN [roles   |-> roles,
        edit    |-> admin \/ (edits /\ ~system),
        report  |-> admin \/ \E d \in defs : d.report,
        submit  |-> admin \/ ((edits \/ "vendor_viewer" \in roles) /\ ~system),
        approve |-> \/ admin
                    \/ /\ ~system
                       /\ \/ roles \cap {"vendor_approver", "vendor_steward"} # {}
                          \/ edits /\ top > 0,
        direct  |-> admin \/ (~system /\ \E d \in defs : d.direct),
        level   |-> level,
        actions |-> IF listed # {} THEN listed
                    ELSE {c \in Changes : CHANGE_APPROVAL_LEVELS[c] <= Max({1, level})}]

PolicyOf(roles, definitions, permissions) ==
    IF roles = {} THEN NoRolePolicy
    ELSE resolve_role_policy(roles, definitions, permissions)

can_apply_change(policy, change) ==
    /\ change \in Changes => change \in policy.actions
    /\ policy.level >= required_approval_level(change)

\* The decorator of a handler: FALSE is the answer 403.
require_permission(policy, permission) == can_apply_change(policy, permission)

can_review_level(policy, required) ==
    /\ policy.approve
    /\ policy.level >= Max({1, Min({required, MAX_APPROVAL_LEVEL})})

has_admin_rights(raw) == raw \cap {"system_admin", "vendor_admin"} # {}

\* A user with the stored defaults, before any role has been edited.
DefaultPolicy(roles) == PolicyOf(roles, ROLE_DEFAULT_DEFINITIONS, DefaultPermissions)
=============================================================================
