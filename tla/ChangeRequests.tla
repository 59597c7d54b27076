---------------------------- MODULE ChangeRequests ----------------------------
(***************************************************************************)
(* Change requests: how they are submitted, decided and recorded, and how  *)
(* an approved access request grants its role.                             *)
(*                                                                         *)
(* The handlers read the form first and then run to their end on the event *)
(* loop, so each is one action; what makes them hard is that every         *)
(* statement commits alone and may fail, and that each check reads rows    *)
(* through the caches, where a row may have been replaced (CacheLayers).   *)
(***************************************************************************)
EXTENDS Naturals, FiniteSets

CONSTANTS Users, Ids, Roles,
          Pending,      \* the workflow statuses before a decision
          ReadFaults,   \* reads may fail; _query_or_empty makes them empty
          WriteFaults,  \* statements may fail, or be reported to fail
          None,
          MaxPast       \* bound on the statuses a request has had

Terminal == {"approved", "rejected"}
Statuses == Pending \cup Terminal

ASSUME RequestsAssumption ==
    /\ ReadFaults \in BOOLEAN /\ WriteFaults \in BOOLEAN
    /\ MaxPast \in Nat
    /\ "submitted" \in Pending /\ Pending \cap Terminal = {}
    /\ None \notin Roles \cup Ids \cup Statuses

\* An access request asks for a role; a change of a vendor asks for none.
Asks == [by : Users, role : Roles \cup {None}]

\* An event tells the status before and after; a new request had none before.
Events == [old : Statuses \cup {None}, new : Statuses]
ASSUME NoneAssumption == None \notin Asks \cup Events

VARIABLES
    status,     \* status[id]: the status of request id, or None
    ask,        \* ask[id]: who asked for what, or None
    event,      \* event[id]: its last workflow event, or None
    role,       \* role[u]: the direct role of u (RoleGrants), or None
    clean,      \* ghost: the caches hold no row that was replaced
    past,       \* ghost: past[id]: what status[id] was before
    lost,       \* ghost: lost[id]: its last change went without an event
    origin,     \* ghost: origin[u]: the request role[u] was granted by, or None
    overturned  \* ghost: the requests decided again after a decision

vars == <<status, ask, event, role, clean, past, lost, origin, overturned>>

Init ==
    /\ status = [id \in Ids |-> None]
    /\ ask = [id \in Ids |-> None]
    /\ event = [id \in Ids |-> None]
    /\ role = [u \in Users |-> None]
    /\ clean = TRUE
    /\ past = [id \in Ids |-> {}]
    /\ lost = [id \in Ids |-> FALSE]
    /\ origin = [u \in Users |-> None]
    /\ overturned = {}

-----------------------------------------------------------------------------
(* Reads.                                                                  *)

\* What a read of a request may return.
Seen(id) == {status[id]} \cup (IF clean THEN {} ELSE past[id])

BadIsOpen(s) == s = "submitted"
IsOpen(s) == s \notin Terminal \cup {None}

Requests(u) == {id \in Ids : status[id] # None /\ ask[id].by = u /\ ask[id].role # None}

\* No open request is found: there is none, the rows are old, or the read failed
\* and so returned no row.
NoneFound(u) ==
    \/ \A id \in Requests(u) : \E s \in Seen(id) : ~IsOpen(s)
    \/ ReadFaults

\* The handler of a decision goes on unless the request is missing or decided.
BadDecidable(s) == s # None
Decidable(s) == s \notin Terminal \cup {None}

-----------------------------------------------------------------------------
(* Writes.  A statement that fails without effect ends the handler: nothing *)
(* changed, and there is no action for it.                                 *)

Becomes(id, s) ==
    /\ status' = [status EXCEPT ![id] = s]
    /\ past' = [past EXCEPT ![id] = @ \cup {status[id]}]

\* A reported write clears the caches; one that took effect but was reported to
\* fail does not, and its exception skips what follows.
Reported == clean' = TRUE
Unreported == WriteFaults /\ clean' = FALSE

\* The event is a statement of its own; its failure is logged and forgotten.
NotRecorded(id) ==
    WriteFaults /\ lost' = [lost EXCEPT ![id] = TRUE] /\ UNCHANGED event

BadEventOf(old, new) == [old |-> new, new |-> new]
EventOf(old, new) == [old |-> old, new |-> new]

Recorded(id, e) ==
    /\ event' = [event EXCEPT ![id] = e]
    /\ lost' = [lost EXCEPT ![id] = FALSE]

BadCreated == "new"
Created == "submitted"

\* A request of u that asks for r enters with status s and event e.
Enter(id, u, r, e, s) ==
    /\ status[id] = None
    /\ Becomes(id, s)
    /\ ask' = [ask EXCEPT ![id] = [by |-> u, role |-> r]]
    /\ \/ Reported /\ (Recorded(id, e) \/ NotRecorded(id))
       \/ Unreported /\ NotRecorded(id)
    /\ UNCHANGED <<role, origin, overturned>>

-----------------------------------------------------------------------------
(* The handlers.                                                           *)

SubmitAccess(id, u, r) == NoneFound(u) /\ Enter(id, u, r, EventOf(None, Created), Created)

SubmitChange(id, u) == Enter(id, u, None, EventOf(None, Created), Created)

\* A direct update of a vendor leaves a request that is already approved.
BadDirectUpdate(id, u) == Enter(id, u, None, EventOf(None, Created), "approved")
DirectUpdate(id, u) == Enter(id, u, None, EventOf("submitted", "approved"), "approved")

\* grant_role of the requestor, whose exception is caught: it may break off
\* before or after the roles the user had were revoked (RoleGrants).
Grant(id) ==
    LET u == ask[id].by IN
    \/ role' = [role EXCEPT ![u] = ask[id].role] /\ origin' = [origin EXCEPT ![u] = id]
    \/ role' = [role EXCEPT ![u] = None] /\ origin' = [origin EXCEPT ![u] = None]
    \/ UNCHANGED <<role, origin>>

BadGrants(id, d) == ask[id].role # None
Grants(id, d) == d = "approved" /\ ask[id].role # None

\* The status was set; the failure of the statement skips the event and the grant.
UpdateFails(id) == Unreported /\ NotRecorded(id) /\ UNCHANGED <<role, origin>>

UpdateSucceeds(id, d) ==
    /\ Reported
    /\ \/ \E old \in Seen(id) \ {None} : Recorded(id, EventOf(old, d))
       \/ NotRecorded(id)
    /\ IF Grants(id, d) THEN Grant(id) ELSE UNCHANGED <<role, origin>>

\* The UPDATE names the request only, not the status that was read.
Decide(id, d) ==
    /\ status[id] # None
    /\ \E s \in Seen(id) : Decidable(s)
    /\ Cardinality(past[id]) < MaxPast
    /\ Becomes(id, d)
    /\ UpdateSucceeds(id, d) \/ UpdateFails(id)
    /\ overturned' = IF status[id] \in Terminal THEN overturned \cup {id} ELSE overturned
    /\ UNCHANGED ask

\* The admin page grants, changes or revokes the role of u.
AdminSetsRole(u, r) ==
    /\ role' = [role EXCEPT ![u] = r]
    /\ origin' = [origin EXCEPT ![u] = None]
    /\ UNCHANGED <<status, ask, event, clean, past, lost, overturned>>

\* A page that read before a write stores what it read after it; entries expire.
CacheTurns ==
    /\ clean' = ~clean
    /\ UNCHANGED <<status, ask, event, role, past, lost, origin, overturned>>

Next ==
    \/ \E id \in Ids, u \in Users :
           \/ \E r \in Roles : SubmitAccess(id, u, r)
           \/ SubmitChange(id, u)
           \/ DirectUpdate(id, u)
    \/ \E id \in Ids, d \in Statuses : Decide(id, d)
    \/ \E u \in Users, r \in Roles \cup {None} : AdminSetsRole(u, r)
    \/ CacheTurns

Spec == Init /\ [][Next]_vars

-----------------------------------------------------------------------------
(* Properties                                                              *)

\* Types.  A request has a status and a requestor together, and no event before.
TypeOK ==
    /\ status \in [Ids -> Statuses \cup {None}]
    /\ ask \in [Ids -> Asks \cup {None}]
    /\ event \in [Ids -> Events \cup {None}]
    /\ role \in [Users -> Roles \cup {None}]
    /\ clean \in BOOLEAN
    /\ past \in [Ids -> SUBSET (Statuses \cup {None})]
    /\ lost \in [Ids -> BOOLEAN]
    /\ origin \in [Users -> Ids \cup {None}]
    /\ overturned \subseteq Ids
    /\ \A id \in Ids : status[id] = None => ask[id] = None /\ event[id] = None
    /\ \A id \in Ids : status[id] # None => ask[id] # None

\* "Change request is already approved": a decision stands.  Only a handler that
\* reads an old row decides a request again.
DecisionsStand ==
    [][clean => \A id \in Ids : status[id] \in Terminal => status'[id] = status[id]]_vars

\* "An access request is already open for your account", or the check could not
\* be made and no request is created: while the caches hold no old rows, a user
\* with an open access request gets no other.
OneOpenRequest ==
    [][clean => \A u \in Users, id, new \in Ids :
           /\ id \in Requests(u) /\ status[id] \in Pending
           /\ status[new] = None /\ status'[new] \in Pending
           => ask'[new].by # u \/ ask'[new].role = None]_vars

\* A role that came from an access request is the one it asked for, for the user
\* who asked, and the request is approved: no failure between the UPDATE, the
\* event and the grant leaves a role that the requests do not explain.
RoleIsExplained ==
    \A u \in Users :
        origin[u] # None =>
            /\ ask[origin[u]] = [by |-> u, role |-> role[u]]
            /\ origin[u] \in overturned \/ status[origin[u]] = "approved"

\* The last workflow event tells the status of its request, unless the last change
\* lost its event.
EventsTellStatus ==
    \A id \in Ids : status[id] # None /\ ~lost[id] => event[id] # None /\ event[id].new = status[id]

\* And it tells the status the request had, unless an old row was read: the events
\* of a request join up.
EventsJoinUp ==
    [][clean => \A id \in Ids :
           status[id] # None /\ event'[id] # event[id] => event'[id].old = status[id]]_vars

=============================================================================
