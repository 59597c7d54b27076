----------------------------- MODULE Approvals -----------------------------
(***************************************************************************)
(* Who may approve what.  A request needs an approval level, and belongs   *)
(* to lines of business: those its payload names and the one that owns its *)
(* vendor at the time it is looked at.  An approver sees and decides the   *)
(* requests of his level in the lines of business of his scope grants.     *)
(*                                                                         *)
(* The queue, the page of one request and the decision each work this out  *)
(* anew, the queue from the vendors of all its rows and the others by      *)
(* completing the payload, while vendors change hands and scopes come and  *)
(* go.  What a decision does is in ChangeRequests, how scopes are granted  *)
(* when statements fail in RoleGrants.  Of a payload only what it says of  *)
(* lines of business is kept, and the level in _meta.                      *)
(***************************************************************************)
EXTENDS Handlers

CONSTANTS Staff,        \* user principals
          PolicyOfUser, \* PolicyOfUser[u]: the policy of u
          Vendors,
          Orgs,         \* lines of business
          RequestIds,
          Forms,        \* the change types and levels chosen on the change form
          LocalDb       \* SQLite: refuses parameters a statement has no place for

GLOBAL_CHANGE_VENDOR_ID == "global"
Enterprise == "enterprise"
TERMINAL_WORKFLOW_STATUSES == {"approved", "rejected"}
list_workflow_status_options == {"submitted", "in_review", "approved", "rejected"}

ASSUME ApprovalsAssumption ==
    /\ GLOBAL_CHANGE_VENDOR_ID \notin Vendors
    /\ NoRow \notin Orgs /\ Enterprise \notin Orgs
    /\ LocalDb \in BOOLEAN
    /\ \A form \in Forms : form.level \in Int

VARIABLES
    owner_org,  \* owner_org[v]: the line of business that owns vendor v, or NoRow
    scopes,     \* scopes[u]: the active scope grants of u
    requests    \* requests[id]: a row of app_vendor_change_request, or NoRow

approvalVars == <<owner_org, scopes, requests>>

ApprovalsInit ==
    /\ owner_org \in [Vendors -> Orgs]
    /\ scopes = [u \in Staff |-> {}]
    /\ requests = [id \in RequestIds |-> NoRow]

\* owner is the owner_org_id on top of the payload, orgs what else it names.
RequestRows ==
    [vendor : Vendors \cup {GLOBAL_CHANGE_VENDOR_ID}, by : Staff, level : 1 .. MAX_APPROVAL_LEVEL,
     owner : Orgs \cup {NoRow}, orgs : SUBSET Orgs, status : list_workflow_status_options]

ApprovalsTypeOK ==
    /\ owner_org \in [Vendors -> Orgs \cup {NoRow}]
    /\ scopes \in [Staff -> SUBSET (Orgs \cup {Enterprise})]
    /\ requests \in [RequestIds -> RequestRows \cup {NoRow}]

-----------------------------------------------------------------------------
(* Scope.                                                                  *)

\* The statement has no placeholder and is given eight parameters; a query that
\* is refused reads as no rows.
list_scope_grants(u) == IF LocalDb THEN {} ELSE scopes[u]

_user_scope(u) ==
    IF "vendor_admin" \in PolicyOfUser[u].roles THEN {Enterprise} ELSE list_scope_grants(u)

_row_in_user_scope(orgs, u) == Enterprise \in _user_scope(u) \/ orgs \cap _user_scope(u) # {}

\* In range: the request was prepared.
_required_level(id) == requests[id].level
CanReview(u, id) == can_review_level(PolicyOfUser[u], _required_level(id))
_is_terminal_workflow_status(id) == requests[id].status \in TERMINAL_WORKFLOW_STATUSES

_payload_org_values(owner, orgs) == orgs \cup ({owner} \ {NoRow})

OwnerOf(id) ==
    IF requests[id].vendor = GLOBAL_CHANGE_VENDOR_ID THEN NoRow ELSE owner_org[requests[id].vendor]

\* The queue adds the line of business of the vendor to those of the payload.
QueueOrgs(id) ==
    _payload_org_values(requests[id].owner, requests[id].orgs) \cup ({OwnerOf(id)} \ {NoRow})

BadPayloadOrgs(id) ==   \* completes only a payload that names none
    LET named == _payload_org_values(requests[id].owner, requests[id].orgs)
    IN IF named = {} THEN _payload_org_values(OwnerOf(id), {}) ELSE named
\* The page and the decision take it for the owner the payload does not name:
\* setdefault("owner_org_id", owner_org).
PayloadOrgs(id) ==
    LET owner == IF requests[id].owner = NoRow THEN OwnerOf(id) ELSE requests[id].owner
    IN _payload_org_values(owner, requests[id].orgs)

-----------------------------------------------------------------------------
(* The pages.                                                              *)

can_access_workflows(u) ==
    PolicyOfUser[u].edit \/ PolicyOfUser[u].submit \/ PolicyOfUser[u].approve

_status_allows_queue(u, id, queue) ==
    CASE queue = "pending_review" -> TRUE
      [] queue = "my_submissions" -> requests[id].by = u
      [] queue = "my_approvals"   -> CanReview(u, id)

\* With the status filter as it comes, "pending": no decided request is listed.
_load_workflow_queue_view(u, queue) ==
    {id \in Present(requests) :
        /\ ~_is_terminal_workflow_status(id)
        /\ _status_allows_queue(u, id, queue)
        /\ queue = "my_approvals" /\ PolicyOfUser[u].approve => _row_in_user_scope(QueueOrgs(id), u)}

\* The first request that may be decided, or else the first; the order is that
\* of submission, which is left out.
workflow_next_pending(u, queue) ==
    LET view == _load_workflow_queue_view(u, queue)
        decidable == {id \in view : CanReview(u, id)}
    IN IF decidable = {} THEN view ELSE decidable

\* The page is shown; otherwise the answer sends the user back.
workflow_detail(u, id) ==
    PolicyOfUser[u].approve =>
        requests[id].by = u \/ _row_in_user_scope(PayloadOrgs(id), u)

MayDecide(u, id) ==
    /\ requests[id] # NoRow /\ ~_is_terminal_workflow_status(id)
    /\ CanReview(u, id)
    /\ _row_in_user_scope(PayloadOrgs(id), u)

workflow_decision(u, id, decision) ==
    /\ ~LockedMode
    /\ MayDecide(u, id)
    /\ requests' = [requests EXCEPT ![id].status = decision]
    /\ UNCHANGED <<owner_org, scopes>>

-----------------------------------------------------------------------------
(* Requests.  A handler applies a change itself when its user may, and     *)
(* leaves a request otherwise.                                             *)

_prepare_change_request_payload(level) == Max({1, Min({level, MAX_APPROVAL_LEVEL})})

create_vendor_change_request(id, u, vendor, level, owner, orgs) ==
    /\ id \in Unused(requests)
    /\ requests' = [requests EXCEPT ![id] =
           [vendor |-> vendor, by |-> u, level |-> _prepare_change_request_payload(level),
            owner |-> owner, orgs |-> orgs \ {NoRow}, status |-> "submitted"]]
    /\ UNCHANGED <<owner_org, scopes>>

Asks(id, u, vendor, change, owner, orgs) ==
    /\ ~can_apply_change(PolicyOfUser[u], change)
    /\ create_vendor_change_request(id, u, vendor, required_approval_level(change), owner, orgs)

\* The new vendor has no row yet: the request is a global one.
vendor_new_submit(id, u, org) ==
    /\ MayWrite(PolicyOfUser[u], "vendor_create")
    /\ Asks(id, u, GLOBAL_CHANGE_VENDOR_ID, "create_vendor_profile", org, {})

SetOwner(v, org) == owner_org' = [owner_org EXCEPT ![v] = org] /\ UNCHANGED <<scopes, requests>>

\* The primary line of business may be none.
update_vendor_ownership_lob_submit(id, u, v, org) ==
    /\ MayWrite(PolicyOfUser[u], "vendor_edit")
    /\ \/ can_apply_change(PolicyOfUser[u], "update_vendor_profile") /\ SetOwner(v, org)
       \/ Asks(id, u, v, "update_vendor_profile", NoRow, {org})

\* An assignment made at once does not change the owner.  The form may be empty.
add_vendor_org_assignment_submit(id, u, v, org) ==
    /\ MayWrite(PolicyOfUser[u], "vendor_org_assignment_create")
    /\ Asks(id, u, v, "add_vendor_org_assignment", NoRow, {org})

vendor_direct_update(u, v, org) ==
    /\ require_permission(PolicyOfUser[u], "vendor_edit") /\ ~_write_blocked
    /\ can_apply_change(PolicyOfUser[u], "update_vendor_profile")
    /\ owner_org[v] # org
    /\ SetOwner(v, org)

\* The change form names a type and may raise the level; like the requests of
\* the other pages (contracts, offerings, projects, demos), its request names no
\* line of business.
vendor_change_request(id, u, v, form) ==
    /\ ~_write_blocked /\ PolicyOfUser[u].submit
    /\ LET minimum == required_approval_level(form.change)
           chosen == Max({minimum, Min({form.level, MAX_APPROVAL_LEVEL})})
       IN create_vendor_change_request(id, u, v, chosen, NoRow, {})

\* The global requests that name no owner are the access requests.
_has_open_access_request(u) ==
    \E id \in Present(requests) :
        /\ requests[id].by = u /\ ~_is_terminal_workflow_status(id)
        /\ requests[id].vendor = GLOBAL_CHANGE_VENDOR_ID /\ requests[id].owner = NoRow

\* There is someone to approve it: Staff has an administrator.
submit_access_request(id, u) ==
    /\ ~LockedMode
    /\ ~_has_open_access_request(u)
    /\ create_vendor_change_request(id, u, GLOBAL_CHANGE_VENDOR_ID,
           required_approval_level("request_access"), NoRow, {})

grant_scope(u, who, scope) ==
    /\ MayManage(PolicyOfUser[u], "admin_scope_manage")
    /\ scopes' = [scopes EXCEPT ![who] = @ \cup {scope}]
    /\ UNCHANGED <<owner_org, requests>>

revoke_scope(u, who, scope) ==
    /\ MayManage(PolicyOfUser[u], "admin_scope_manage")
    /\ scopes' = [scopes EXCEPT ![who] = @ \ {scope}]
    /\ UNCHANGED <<owner_org, requests>>

ApprovalsNext ==
    \E u \in Staff :
        \/ \E id \in RequestIds :
             \/ submit_access_request(id, u)
             \/ \E decision \in list_workflow_status_options : workflow_decision(u, id, decision)
             \/ \E org \in Orgs : vendor_new_submit(id, u, org)
             \/ \E v \in Vendors :
                  \/ \E form \in Forms : vendor_change_request(id, u, v, form)
                  \/ \E org \in Orgs \cup {NoRow} :
                       \/ add_vendor_org_assignment_submit(id, u, v, org)
                       \/ update_vendor_ownership_lob_submit(id, u, v, org)
        \/ \E v \in Vendors, org \in Orgs \cup {NoRow} : vendor_direct_update(u, v, org)
        \/ \E who \in Staff, scope \in Orgs \cup {Enterprise} :
             grant_scope(u, who, scope) \/ revoke_scope(u, who, scope)

ApprovalsSpec == ApprovalsInit /\ [][ApprovalsNext]_approvalVars

-----------------------------------------------------------------------------
(* Property.                                                               *)

(* The queue "my approvals" lists the requests its user may decide, all of *)
(* them and no other, and whatever it or his list of submissions leads to  *)
(* opens: although the queue and the decision read the lines of business   *)
(* of a request in different ways, vendors change hands between them and   *)
(* a payload may name an owner of its own.                                 *)
QueueTells ==
    \A u \in Staff : can_access_workflows(u) =>
        /\ _load_workflow_queue_view(u, "my_approvals") = {id \in RequestIds : MayDecide(u, id)}
        /\ \A queue \in {"my_approvals", "my_submissions"} :
               \A id \in workflow_next_pending(u, queue) : workflow_detail(u, id)
=============================================================================
