------------------------- MODULE ChangeRequests_proofs -------------------------
(***************************************************************************)
(* Proofs about ChangeRequests, for any users, requests, roles and pending *)
(* statuses.  The invariants are inductive together; the action properties *)
(* follow from their types and the definition of a step.                   *)
(***************************************************************************)
EXTENDS ChangeRequests, TLAPS

Inv == TypeOK /\ RoleIsExplained /\ EventsTellStatus

-----------------------------------------------------------------------------

\* A request enters as an event and a status of the right types.
LEMMA EventTypes ==
    /\ Created \in Statuses
    /\ EventOf(None, Created) \in Events
    /\ EventOf("submitted", "approved") \in Events
    /\ "approved" \in Statuses
    /\ \A old \in Statuses, d \in Statuses : EventOf(old, d) \in Events
BY RequestsAssumption DEF Created, EventOf, Events, Statuses, Terminal

LEMMA Nothing ==
    /\ None \notin Statuses
    /\ None \notin Roles
    /\ None \notin Ids
    /\ None \notin Asks
    /\ None \notin Events
BY RequestsAssumption, NoneAssumption

\* The initial state.
LEMMA InitInv == Init => Inv
BY Nothing DEF Init, Inv, TypeOK, RoleIsExplained, EventsTellStatus

\* What every step that gives a request a status preserves: its types.
LEMMA BecomesTypes ==
    ASSUME TypeOK, NEW id \in Ids, NEW s \in Statuses, Becomes(id, s)
    PROVE  /\ status' \in [Ids -> Statuses \cup {None}]
           /\ past' \in [Ids -> SUBSET (Statuses \cup {None})]
           /\ status'[id] = s
           /\ \A i \in Ids \ {id} : status'[i] = status[i]
BY DEF TypeOK, Becomes

\* The event and the mark of a lost event, whichever way a write turns out.
LEMMA EventKept ==
    ASSUME TypeOK, NEW id \in Ids, NEW e \in Events, Recorded(id, e) \/ NotRecorded(id)
    PROVE  /\ event' \in [Ids -> Events \cup {None}]
           /\ lost' \in [Ids -> BOOLEAN]
           /\ lost'[id] \/ event'[id] = e
           /\ \A i \in Ids \ {id} : event'[i] = event[i] /\ lost'[i] = lost[i]
BY ZenonT(60) DEF TypeOK, Recorded, NotRecorded

-----------------------------------------------------------------------------
(* Entering.                                                               *)

LEMMA EnterInv ==
    ASSUME Inv, NEW id \in Ids, NEW u \in Users, NEW r \in Roles \cup {None},
           NEW s \in Statuses, NEW e \in Events, e.new = s, Enter(id, u, r, e, s)
    PROVE  Inv'
<1>1. /\ status' \in [Ids -> Statuses \cup {None}]
      /\ past' \in [Ids -> SUBSET (Statuses \cup {None})]
      /\ status'[id] = s
      /\ \A i \in Ids \ {id} : status'[i] = status[i]
    BY BecomesTypes DEF Inv, Enter
<1>2. /\ event' \in [Ids -> Events \cup {None}]
      /\ lost' \in [Ids -> BOOLEAN]
      /\ lost'[id] \/ event'[id] = e
      /\ \A i \in Ids \ {id} : event'[i] = event[i] /\ lost'[i] = lost[i]
    BY EventKept DEF Inv, Enter
<1>3. clean' \in BOOLEAN
    BY DEF Enter, Reported, Unreported
<1>4. [by |-> u, role |-> r] \in Asks
    BY DEF Asks
<1>5. /\ ask' \in [Ids -> Asks \cup {None}]
      /\ ask'[id] = [by |-> u, role |-> r]
      /\ \A i \in Ids \ {id} : ask'[i] = ask[i]
    BY <1>4 DEF Inv, TypeOK, Enter
<1>6. UNCHANGED <<role, origin, overturned>> /\ status[id] = None
    BY DEF Enter
<1>7. TypeOK'
    BY <1>1, <1>2, <1>3, <1>4, <1>5, <1>6, Nothing DEF Inv, TypeOK
<1>8. RoleIsExplained'
    <2> SUFFICES ASSUME NEW v \in Users, origin[v] # None
                 PROVE  /\ ask'[origin[v]] = [by |-> v, role |-> role[v]]
                        /\ origin[v] \in overturned \/ status'[origin[v]] = "approved"
        BY <1>6 DEF RoleIsExplained
    <2>1. /\ origin[v] \in Ids
          /\ ask[origin[v]] = [by |-> v, role |-> role[v]]
          /\ origin[v] \in overturned \/ status[origin[v]] = "approved"
        BY DEF Inv, TypeOK, RoleIsExplained
    <2>2. /\ [by |-> v, role |-> role[v]] \in Asks
        BY DEF Asks, Inv, TypeOK
    <2>3. origin[v] # id
        BY <2>1, <2>2, <1>6, Nothing DEF Inv, TypeOK
    <2> QED
        BY <2>1, <2>3, <1>1, <1>5
<1>9. EventsTellStatus'
    BY <1>1, <1>2, Nothing DEF Inv, EventsTellStatus
<1> QED
    BY <1>7, <1>8, <1>9 DEF Inv

-----------------------------------------------------------------------------
(* Deciding.                                                               *)

\* The role and its origin after a decision: the three outcomes of the grant.
LEMMA Granted ==
    ASSUME Inv, NEW id \in Ids, status[id] # None, NEW d \in Statuses,
           IF Grants(id, d) THEN Grant(id) ELSE UNCHANGED <<role, origin>>
    PROVE  /\ role' \in [Users -> Roles \cup {None}]
           /\ origin' \in [Users -> Ids \cup {None}]
           /\ \A v \in Users :
                  \/ role'[v] = role[v] /\ origin'[v] = origin[v]
                  \/ origin'[v] = None
                  \/ /\ d = "approved" /\ origin'[v] = id
                     /\ ask[id] = [by |-> v, role |-> role'[v]]
<1>1. ask[id] \in Asks
    BY DEF Inv, TypeOK
<1>2. PICK u \in Users, r \in Roles \cup {None} : ask[id] = [by |-> u, role |-> r]
    BY <1>1 DEF Asks
<1>3. ask[id].by = u /\ ask[id].role = r
    BY <1>2
<1>4. role \in [Users -> Roles \cup {None}] /\ origin \in [Users -> Ids \cup {None}]
    BY DEF Inv, TypeOK
<1>5. CASE UNCHANGED <<role, origin>>
    BY <1>4, <1>5
<1>6. CASE /\ d = "approved"
           /\ role' = [role EXCEPT ![u] = r] /\ origin' = [origin EXCEPT ![u] = id]
    BY <1>2, <1>4, <1>6
<1>7. CASE role' = [role EXCEPT ![u] = None] /\ origin' = [origin EXCEPT ![u] = None]
    BY <1>4, <1>7
<1> QED
    BY <1>3, <1>5, <1>6, <1>7 DEF Grants, Grant

LEMMA DecideInv ==
    ASSUME Inv, NEW id \in Ids, NEW d \in Statuses, Decide(id, d)
    PROVE  Inv'
<1>1. /\ status' \in [Ids -> Statuses \cup {None}]
      /\ past' \in [Ids -> SUBSET (Statuses \cup {None})]
      /\ status'[id] = d
      /\ \A i \in Ids \ {id} : status'[i] = status[i]
    BY BecomesTypes DEF Inv, Decide
<1>2. Seen(id) \subseteq Statuses \cup {None}
    BY DEF Inv, TypeOK, Seen
<1>3. /\ event' \in [Ids -> Events \cup {None}]
      /\ lost' \in [Ids -> BOOLEAN]
      /\ lost'[id] \/ (event'[id] # None /\ event'[id].new = d)
      /\ \A i \in Ids \ {id} : event'[i] = event[i] /\ lost'[i] = lost[i]
    <2>1. CASE NotRecorded(id)
        BY <2>1 DEF NotRecorded, Inv, TypeOK
    <2>2. CASE \E old \in Seen(id) \ {None} : Recorded(id, EventOf(old, d))
        <3>1. PICK old \in Statuses : Recorded(id, EventOf(old, d))
            BY <1>2, <2>2
        <3>2. EventOf(old, d) \in Events /\ EventOf(old, d).new = d
            BY EventTypes DEF EventOf
        <3> QED
            BY <3>1, <3>2, Nothing DEF Recorded, Inv, TypeOK
    <2> QED
        BY <2>1, <2>2 DEF Decide, UpdateSucceeds, UpdateFails
<1>4. clean' \in BOOLEAN
    BY DEF Decide, UpdateSucceeds, UpdateFails, Reported, Unreported
<1>5. /\ status[id] # None
      /\ ask' = ask
      /\ overturned' = IF status[id] \in Terminal THEN overturned \cup {id} ELSE overturned
    BY DEF Decide
<1>6. /\ role' \in [Users -> Roles \cup {None}]
      /\ origin' \in [Users -> Ids \cup {None}]
      /\ \A v \in Users :
             \/ role'[v] = role[v] /\ origin'[v] = origin[v]
             \/ origin'[v] = None
             \/ /\ d = "approved" /\ origin'[v] = id
                /\ ask[id] = [by |-> v, role |-> role'[v]]
    <2>1. CASE UNCHANGED <<role, origin>>
        BY <2>1 DEF Inv, TypeOK
    <2>2. CASE IF Grants(id, d) THEN Grant(id) ELSE UNCHANGED <<role, origin>>
        BY <1>5, <2>2, Granted
    <2> QED
        BY <2>1, <2>2 DEF Decide, UpdateSucceeds, UpdateFails
<1>7. overturned' \subseteq Ids
    BY <1>5 DEF Inv, TypeOK
<1>8. \A i \in Ids : /\ status'[i] = None => ask'[i] = None /\ event'[i] = None
                     /\ status'[i] # None => ask'[i] # None
    BY <1>1, <1>3, <1>5, Nothing DEF Inv, TypeOK
<1>9. TypeOK'
    BY <1>1, <1>3, <1>4, <1>5, <1>6, <1>7, <1>8 DEF Inv, TypeOK
<1>10. RoleIsExplained'
    <2> SUFFICES ASSUME NEW v \in Users, origin'[v] # None
                 PROVE  /\ ask[origin'[v]] = [by |-> v, role |-> role'[v]]
                        /\ origin'[v] \in overturned' \/ status'[origin'[v]] = "approved"
        BY <1>5 DEF RoleIsExplained
    <2>1. CASE role'[v] = role[v] /\ origin'[v] = origin[v]
        <3>1. /\ origin[v] \in Ids
              /\ ask[origin[v]] = [by |-> v, role |-> role[v]]
              /\ origin[v] \in overturned \/ status[origin[v]] = "approved"
            BY <2>1 DEF Inv, TypeOK, RoleIsExplained
        <3>2. CASE origin[v] = id
            BY <2>1, <3>1, <3>2, <1>5 DEF Terminal
        <3>3. CASE origin[v] # id
            BY <2>1, <3>1, <3>3, <1>1, <1>5
        <3> QED
            BY <3>2, <3>3
    <2>2. CASE /\ d = "approved" /\ origin'[v] = id
               /\ ask[id] = [by |-> v, role |-> role'[v]]
        BY <2>2, <1>1
    <2> QED
        BY <2>1, <2>2, <1>6
<1>11. EventsTellStatus'
    BY <1>1, <1>3, Nothing DEF Inv, EventsTellStatus
<1> QED
    BY <1>9, <1>10, <1>11 DEF Inv

-----------------------------------------------------------------------------

LEMMA AdminInv ==
    ASSUME Inv, NEW u \in Users, NEW r \in Roles \cup {None}, AdminSetsRole(u, r)
    PROVE  Inv'
<1>1. UNCHANGED <<status, ask, event, clean, past, lost, overturned>>
    BY DEF AdminSetsRole
<1>2. /\ role' \in [Users -> Roles \cup {None}]
      /\ origin' \in [Users -> Ids \cup {None}]
      /\ \A v \in Users : origin'[v] # None => origin'[v] = origin[v] /\ role'[v] = role[v]
    BY DEF AdminSetsRole, Inv, TypeOK
<1>3. TypeOK' /\ EventsTellStatus'
    BY <1>1, <1>2 DEF Inv, TypeOK, EventsTellStatus
<1>4. RoleIsExplained'
    BY <1>1, <1>2 DEF Inv, RoleIsExplained
<1> QED
    BY <1>3, <1>4 DEF Inv

\* Inv is inductive.
THEOREM Inductive == Inv /\ [Next]_vars => Inv'
<1> SUFFICES ASSUME Inv, [Next]_vars PROVE Inv'
    OBVIOUS
<1>1. ASSUME NEW id \in Ids, NEW u \in Users, NEW r \in Roles, SubmitAccess(id, u, r)
      PROVE  Inv'
    BY <1>1, EnterInv, EventTypes DEF SubmitAccess, EventOf
<1>2. ASSUME NEW id \in Ids, NEW u \in Users, SubmitChange(id, u)
      PROVE  Inv'
    BY <1>2, EnterInv, EventTypes DEF SubmitChange, EventOf
<1>3. ASSUME NEW id \in Ids, NEW u \in Users, DirectUpdate(id, u)
      PROVE  Inv'
    BY <1>3, EnterInv, EventTypes DEF DirectUpdate, EventOf
<1>4. ASSUME NEW id \in Ids, NEW d \in Statuses, Decide(id, d)
      PROVE  Inv'
    BY <1>4, DecideInv
<1>5. ASSUME NEW u \in Users, NEW r \in Roles \cup {None}, AdminSetsRole(u, r)
      PROVE  Inv'
    BY <1>5, AdminInv
<1>6. CASE CacheTurns
    BY <1>6 DEF CacheTurns, Inv, TypeOK, RoleIsExplained, EventsTellStatus
<1>7. CASE UNCHANGED vars
    BY <1>7 DEF vars, Inv, TypeOK, RoleIsExplained, EventsTellStatus
<1> QED
    BY <1>1, <1>2, <1>3, <1>4, <1>5, <1>6, <1>7 DEF Next

LEMMA Always == Spec => []Inv
BY InitInv, Inductive, PTL DEF Spec

\* The state is well typed: a request has a status and a requestor together.
THEOREM TypeCorrect == Spec => []TypeOK
<1>1. Inv => TypeOK
    BY DEF Inv
<1> QED
    BY <1>1, Always, PTL

\* A role that came from an access request is the one it asked for, for the user
\* who asked, and no failure separates it from the approval.
THEOREM RolesAreExplained == Spec => []RoleIsExplained
<1>1. Inv => RoleIsExplained
    BY DEF Inv
<1> QED
    BY <1>1, Always, PTL

\* The last workflow event of a request tells its status, unless it was lost.
THEOREM EventsAreTrue == Spec => []EventsTellStatus
<1>1. Inv => EventsTellStatus
    BY DEF Inv
<1> QED
    BY <1>1, Always, PTL

-----------------------------------------------------------------------------
(* Steps: what a step does to the status and the events of a request that  *)
(* exists, while the caches hold no row that was replaced.                 *)

LEMMA EnterSteps ==
    ASSUME TypeOK, NEW id \in Ids, NEW u \in Users, NEW r \in Roles \cup {None},
           NEW e, NEW s \in Statuses, Enter(id, u, r, e, s)
    PROVE  /\ status[id] = None
           /\ ask'[id].by = u /\ ask'[id].role = r
           /\ \A i \in Ids \ {id} : status'[i] = status[i] /\ event'[i] = event[i]
BY DEF TypeOK, Enter, Becomes, Recorded, NotRecorded

LEMMA DecideSteps ==
    ASSUME TypeOK, clean, NEW id \in Ids, NEW d \in Statuses, Decide(id, d)
    PROVE  /\ status[id] \in Pending
           /\ event'[id] # event[id] => event'[id].old = status[id]
           /\ \A i \in Ids \ {id} : status'[i] = status[i] /\ event'[i] = event[i]
<1>1. Seen(id) = {status[id]}
    BY DEF Seen
<1>2. status[id] \in Pending
    BY <1>1 DEF TypeOK, Decide, Decidable, Statuses
<1>3. CASE NotRecorded(id)
    BY <1>2, <1>3 DEF TypeOK, NotRecorded, Decide, Becomes
<1>4. CASE Recorded(id, EventOf(status[id], d))
    BY <1>2, <1>4 DEF TypeOK, Recorded, EventOf, Decide, Becomes
<1> QED
    BY <1>1, <1>3, <1>4 DEF Decide, UpdateSucceeds, UpdateFails

\* Every step enters a request, decides one, or changes no request.
LEMMA StepKinds ==
    ASSUME [Next]_vars
    PROVE  \/ \E id \in Ids, u \in Users, r \in Roles \cup {None}, e \in {EventOf(None, Created), EventOf("submitted", "approved")}, s \in {Created, "approved"} :
                  /\ Enter(id, u, r, e, s)
                  /\ r # None => SubmitAccess(id, u, r)
           \/ \E id \in Ids, d \in Statuses : Decide(id, d)
           \/ UNCHANGED <<status, ask, event>>
BY DEF Next, vars, SubmitAccess, SubmitChange, DirectUpdate, AdminSetsRole, CacheTurns

\* A decision stands: only a handler that reads an old row decides again.
THEOREM DecisionsAreFinal == Spec => DecisionsStand
<1>1. TypeOK /\ [Next]_vars =>
          [clean => \A id \in Ids : status[id] \in Terminal => status'[id] = status[id]]_vars
    <2> SUFFICES ASSUME TypeOK, [Next]_vars, clean, NEW id \in Ids, status[id] \in Terminal
                 PROVE  status'[id] = status[id]
        OBVIOUS
    <2>1. status[id] # None /\ status[id] \notin Pending
        BY RequestsAssumption DEF Statuses
    <2>2. ASSUME NEW i \in Ids, NEW u \in Users, NEW r \in Roles \cup {None}, NEW e,
                 NEW s \in Statuses, Enter(i, u, r, e, s)
          PROVE  status'[id] = status[id]
        BY <2>1, <2>2, EnterSteps
    <2>3. ASSUME NEW i \in Ids, NEW d \in Statuses, Decide(i, d)
          PROVE  status'[id] = status[id]
        BY <2>1, <2>3, DecideSteps
    <2> QED
        BY <2>2, <2>3, StepKinds, EventTypes
<1> QED
    BY <1>1, TypeCorrect, PTL DEF Spec, DecisionsStand

\* While no read fails and the caches hold no old row, a user with an open access
\* request gets no other.
THEOREM OneOpenPerUser == ASSUME ~ReadFaults PROVE Spec => OneOpenRequest
<1>1. TypeOK /\ [Next]_vars =>
          [clean => \A u \in Users, id, new \in Ids :
               /\ id \in Requests(u) /\ status[id] \in Pending
               /\ status[new] = None /\ status'[new] \in Pending
               => ask'[new].by # u \/ ask'[new].role = None]_vars
    <2> SUFFICES ASSUME TypeOK, [Next]_vars, clean,
                        NEW u \in Users, NEW id \in Ids, NEW new \in Ids,
                        id \in Requests(u), status[id] \in Pending,
                        status[new] = None, status'[new] \in Pending
                 PROVE  ask'[new].by # u \/ ask'[new].role = None
        OBVIOUS
    <2>1. None \notin Pending /\ IsOpen(status[id])
        BY RequestsAssumption DEF IsOpen, Statuses
    <2>2. ASSUME NEW i \in Ids, NEW v \in Users, NEW r \in Roles \cup {None}, NEW e,
                 NEW s \in Statuses, Enter(i, v, r, e, s),
                 r # None => SubmitAccess(i, v, r)
          PROVE  ask'[new].by # u \/ ask'[new].role = None
        <3>1. i = new /\ ask'[new].by = v /\ ask'[new].role = r
            BY <2>1, <2>2, EnterSteps
        <3>2. r # None => v # u
            BY <2>1, <2>2 DEF SubmitAccess, NoneFound, Seen
        <3> QED
            BY <3>1, <3>2
    <2>3. ASSUME NEW i \in Ids, NEW d \in Statuses, Decide(i, d)
          PROVE  FALSE
        BY <2>1, <2>3, DecideSteps
    <2> QED
        BY <2>1, <2>2, <2>3, StepKinds, EventTypes
<1> QED
    BY <1>1, TypeCorrect, PTL DEF Spec, OneOpenRequest

\* The events of a request join up: each tells the status the one before left.
THEOREM EventsAreJoined == Spec => EventsJoinUp
<1>1. TypeOK /\ [Next]_vars =>
          [clean => \A id \in Ids :
               status[id] # None /\ event'[id] # event[id] => event'[id].old = status[id]]_vars
    <2> SUFFICES ASSUME TypeOK, [Next]_vars, clean, NEW id \in Ids, status[id] # None,
                        event'[id] # event[id]
                 PROVE  event'[id].old = status[id]
        OBVIOUS
    <2>1. ASSUME NEW i \in Ids, NEW u \in Users, NEW r \in Roles \cup {None}, NEW e,
                 NEW s \in Statuses, Enter(i, u, r, e, s)
          PROVE  event'[id].old = status[id]
        BY <2>1, EnterSteps
    <2>2. ASSUME NEW i \in Ids, NEW d \in Statuses, Decide(i, d)
          PROVE  event'[id].old = status[id]
        BY <2>2, DecideSteps
    <2> QED
        BY <2>1, <2>2, StepKinds, EventTypes
<1> QED
    BY <1>1, TypeCorrect, PTL DEF Spec, EventsJoinUp

=============================================================================
