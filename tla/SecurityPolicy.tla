--------------------------- MODULE SecurityPolicy ---------------------------
(***************************************************************************)
(* How a change of roles reaches the requests of users who are signed in. *)
(*                                                                         *)
(* The roles a request acts with come from a snapshot in the session       *)
(* cookie, or are read again when the snapshot is too old or carries       *)
(* another security policy version than the current one.  Every operation  *)
(* of the admin page ends by bumping that version, a row of                *)
(* app_user_settings which is deleted and inserted again.                  *)
(*                                                                         *)
(* POST handlers run on the event loop, so one admin operation runs at a   *)
(* time; the requests of pages run in the thread pool, between any two of  *)
(* its statements.  Reads go through the caches of CacheLayers and return  *)
(* what that module promises.  epoch counts the changes of the security    *)
(* tables; superseded, gone, floor and reused are ghosts.                  *)
(***************************************************************************)
EXTENDS Integers

CONSTANTS Requests,
          Browsers,       \* cookie jars
          BrowserOf,      \* the one that sends a request
          S,              \* TVENDOR_POLICY_SNAPSHOT_TTL_SEC
          RoleBudget,     \* how long the caches may serve superseded roles
          VersionBudget,  \* how long they may serve a superseded version
          Faults,         \* statements and reads may fail
          ProdPolicy,     \* TVENDOR_ENV=prod: only INSERT and UPDATE are let through
          MaxStatements,  \* most statements of an admin operation
          NoSnapshot, NoRoles,
          MaxTime, MaxEpoch, MaxVersion  \* bounds

ASSUME PolicyAssumption ==
    /\ BrowserOf \in [Requests -> Browsers]
    /\ S \in Nat /\ RoleBudget \in Nat /\ VersionBudget \in Nat
    /\ Faults \in BOOLEAN /\ ProdPolicy \in BOOLEAN
    /\ MaxStatements \in Nat \ {0}
    /\ MaxTime \in Nat /\ MaxEpoch \in Nat /\ MaxVersion \in Nat \ {0}
    /\ NoRoles \notin Nat

Epochs == 0 .. MaxEpoch
Roles == Epochs \cup {NoRoles}   \* NoRoles: what a failed read falls back to
NoRow == 0
Rows == 0 .. MaxVersion          \* the stored version, or no row
Versions == 1 .. MaxVersion
Never == -1

Snapshots == [captured : Nat, version : Versions, roles : Roles]
ASSUME SnapshotAssumption == NoSnapshot \notin Snapshots

VARIABLES
    now,         \* time.time()
    epoch,       \* the content of the security tables
    superseded,  \* ghost: when the contents of each older epoch were replaced
    row,         \* the row that holds the policy version
    gone,        \* ghost: when a row was last deleted
    floor,       \* ghost: the epoch a version was stored for
    reused,      \* ghost: a version was stored a second time
    clean,       \* ghost: the last write was reported and no load raced it
    admin,       \* the admin operation: "idle", "write", "bump", "delete",
                 \*     "insert" or "audit"
    todo,        \* the statements it has left before the bump
    next,        \* the version it is about to store
    session,     \* session[b]: the snapshot in the cookie
    pc,          \* "idle", "version", "roles" or "act"
    mine,        \* the session of a request, sent back with the response
    started,     \* now_ts
    version,     \* the policy version it read
    roles        \* the roles it acts with

vars == <<now, epoch, superseded, row, gone, floor, reused, clean, admin, todo, next,
          session, pc, mine, started, version, roles>>
dataVars == <<epoch, superseded>>
rowVars == <<row, gone, floor, reused>>
adminVars == <<admin, todo, next>>
requestVars == <<session, pc, mine, started, version, roles>>

Init ==
    /\ now = 0
    /\ epoch = 0 /\ superseded = [e \in Epochs |-> 0]
    /\ row = NoRow
    /\ gone = [v \in Rows |-> -VersionBudget]
    /\ floor = [v \in Versions |-> Never]
    /\ reused = FALSE /\ clean = TRUE
    /\ admin = "idle" /\ todo = 0 /\ next = 1
    /\ session = [b \in Browsers |-> NoSnapshot]
    /\ pc = [q \in Requests |-> "idle"]
    /\ mine = [q \in Requests |-> NoSnapshot]
    /\ started = [q \in Requests |-> 0]
    /\ version = [q \in Requests |-> 1]
    /\ roles = [q \in Requests |-> NoRoles]

-----------------------------------------------------------------------------
(* What a read through the caches may return.                              *)

\* max(1, int(payload.get("version", 1))): no row, or one that cannot be read,
\* is version 1.
BadVersionOf(r) == r
VersionOf(r) == IF r = NoRow THEN 1 ELSE r

SeenVersions ==
    {VersionOf(row)}
    \cup (IF clean THEN {} ELSE {VersionOf(r) : r \in {x \in Rows : gone[x] + VersionBudget > now}})
    \cup (IF Faults THEN {1} ELSE {})

SeenRoles ==
    {epoch}
    \cup (IF clean THEN {} ELSE {e \in Epochs : e < epoch /\ superseded[e] + RoleBudget > now})
    \cup (IF Faults THEN {NoRoles} ELSE {})

\* A write that is reported clears every cache; a load under way then may still
\* put an older value back.
Loading == {q \in Requests : pc[q] \in {"version", "roles"}}
Cleared == clean' = (Loading = {})

-----------------------------------------------------------------------------
(* The admin operation.  An exception ends it; what was done stays done.   *)

Begin ==
    /\ admin = "idle"
    /\ admin' = "write"
    /\ todo' \in 1 .. MaxStatements
    /\ UNCHANGED <<now, dataVars, rowVars, clean, next, requestVars>>

Change ==
    /\ epoch < MaxEpoch
    /\ epoch' = epoch + 1
    /\ superseded' = [superseded EXCEPT ![epoch] = now]

\* INSERT or UPDATE of a security table; UPDATE and INSERT again for the
\* operations that replace what was there.
Write ==
    /\ admin = "write"
    /\ Change /\ Cleared
    /\ todo' = todo - 1
    /\ admin' = IF todo = 1 THEN "bump" ELSE "write"
    /\ UNCHANGED <<now, rowVars, next, requestVars>>

\* The statement fails, or takes effect and is reported to fail: no bump.
WriteFails ==
    /\ Faults
    /\ admin = "write"
    /\ \/ Change /\ clean' = FALSE
       \/ UNCHANGED <<dataVars, clean>>
    /\ admin' = "idle" /\ todo' = 0
    /\ UNCHANGED <<now, rowVars, next, requestVars>>

NextVersion(v) == v + 1

Bump ==
    /\ admin = "bump"
    /\ \E v \in SeenVersions :
          /\ NextVersion(v) \in Versions
          /\ next' = NextVersion(v)
    /\ admin' = "delete"
    /\ UNCHANGED <<now, dataVars, rowVars, clean, todo, requestVars>>

RowDeleted ==
    /\ row' = NoRow
    /\ gone' = [gone EXCEPT ![row] = now]
    /\ UNCHANGED <<floor, reused>>

Delete ==
    /\ admin = "delete" /\ ~ProdPolicy
    /\ RowDeleted /\ Cleared
    /\ admin' = "insert"
    /\ UNCHANGED <<now, dataVars, todo, next, requestVars>>

\* save_user_setting logs its failures and returns; the bump clears the
\* repository's cache, not the client's, and the operation goes on as if the
\* version had been stored.
DeleteFails ==
    /\ admin = "delete"
    /\ \/ (Faults \/ ProdPolicy) /\ UNCHANGED <<rowVars, clean>>
       \/ Faults /\ ~ProdPolicy /\ RowDeleted /\ clean' = FALSE
    /\ admin' = "audit"
    /\ UNCHANGED <<now, dataVars, todo, next, requestVars>>

RowInserted ==
    /\ row' = next
    /\ gone' = [gone EXCEPT ![NoRow] = now]
    /\ floor' = [floor EXCEPT ![next] = epoch]
    /\ reused' = (reused \/ floor[next] # Never)

Insert ==
    /\ admin = "insert"
    /\ \/ RowInserted /\ Cleared
       \/ Faults /\ RowInserted /\ clean' = FALSE
       \/ Faults /\ UNCHANGED <<rowVars, clean>>
    /\ admin' = "audit"
    /\ UNCHANGED <<now, dataVars, todo, next, requestVars>>

\* The audit record is one more write; a failure is reported to the admin as if
\* the operation had failed.  Saving a role definition writes none.
Audit ==
    /\ admin = "audit"
    /\ Cleared \/ UNCHANGED clean
    /\ admin' = "idle" /\ next' = 1
    /\ UNCHANGED <<now, dataVars, rowVars, todo, requestVars>>

-----------------------------------------------------------------------------
(* A request: get_user_context, then the handler.                          *)

\* The cookie is read, then the clock; the version and the roles come later.
Arrive(q) ==
    /\ pc[q] = "idle"
    /\ pc' = [pc EXCEPT ![q] = "version"]
    /\ mine' = [mine EXCEPT ![q] = session[BrowserOf[q]]]
    /\ started' = [started EXCEPT ![q] = now]
    /\ UNCHANGED <<now, dataVars, rowVars, clean, adminVars, session, version, roles>>

BadHonoured(q, v) == mine[q] # NoSnapshot /\ started[q] - mine[q].captured < S
Honoured(q, v) ==
    /\ mine[q] # NoSnapshot
    /\ started[q] - mine[q].captured < S
    /\ mine[q].version = v

\* What using a snapshot leaves in the session.
BadKept(q) == [mine[q] EXCEPT !.captured = started[q]]
Kept(q) == mine[q]

\* A snapshot may be turned down for another reason: the role override, the
\* groups or the developer mode it was taken under changed.
ReadVersion(q) ==
    /\ pc[q] = "version"
    /\ \E v \in SeenVersions :
          /\ version' = [version EXCEPT ![q] = v]
          /\ \/ /\ Honoured(q, v)
                /\ pc' = [pc EXCEPT ![q] = "act"]
                /\ roles' = [roles EXCEPT ![q] = mine[q].roles]
                /\ mine' = [mine EXCEPT ![q] = Kept(q)]
             \/ /\ pc' = [pc EXCEPT ![q] = "roles"]
                /\ UNCHANGED <<mine, roles>>
    /\ UNCHANGED <<now, dataVars, rowVars, clean, adminVars, session, started>>

ReadRoles(q) ==
    /\ pc[q] = "roles"
    /\ \E r \in SeenRoles :
          /\ roles' = [roles EXCEPT ![q] = r]
          /\ mine' = [mine EXCEPT ![q] =
                 IF S = 0 THEN @
                 ELSE [captured |-> started[q], version |-> version[q], roles |-> r]]
    /\ pc' = [pc EXCEPT ![q] = "act"]
    /\ UNCHANGED <<now, dataVars, rowVars, clean, adminVars, session, started, version>>

Leaves(q) ==
    /\ pc' = [pc EXCEPT ![q] = "idle"]
    /\ mine' = [mine EXCEPT ![q] = NoSnapshot]
    /\ started' = [started EXCEPT ![q] = 0]
    /\ version' = [version EXCEPT ![q] = 1]
    /\ roles' = [roles EXCEPT ![q] = NoRoles]
    /\ UNCHANGED <<now, dataVars, rowVars, clean, adminVars>>

\* Every response, an error's too, carries the session it was served with: of
\* two answers to one browser the last one wins, however old its snapshot.
Respond(q) ==
    /\ pc[q] \in {"act"} \cup (IF Faults THEN {"version", "roles"} ELSE {})
    /\ session' = [session EXCEPT ![BrowserOf[q]] = mine[q]]
    /\ Leaves(q)

\* The client is gone, or an unhandled exception replaced the response.
Lose(q) ==
    /\ pc[q] # "idle"
    /\ UNCHANGED session
    /\ Leaves(q)

Tick ==
    /\ now < MaxTime
    /\ now' = now + 1
    /\ UNCHANGED <<dataVars, rowVars, clean, adminVars, requestVars>>

Next ==
    \/ Begin \/ Write \/ WriteFails \/ Bump \/ Delete \/ DeleteFails \/ Insert \/ Audit
    \/ \E q \in Requests : \/ Arrive(q) \/ ReadVersion(q) \/ ReadRoles(q)
                           \/ Respond(q) \/ Lose(q)
    \/ Tick

Spec == Init /\ [][Next]_vars

-----------------------------------------------------------------------------
(* Properties                                                              *)

\* Types.  A request never sees a version below 1.
TypeOK ==
    /\ now \in Nat /\ epoch \in Epochs
    /\ superseded \in [Epochs -> Nat]
    /\ row \in Rows /\ gone \in [Rows -> Int]
    /\ floor \in [Versions -> Epochs \cup {Never}]
    /\ reused \in BOOLEAN /\ clean \in BOOLEAN
    /\ admin \in {"idle", "write", "bump", "delete", "insert", "audit"}
    /\ todo \in 0 .. MaxStatements /\ (admin = "write" => todo # 0)
    /\ next \in Versions
    /\ session \in [Browsers -> Snapshots \cup {NoSnapshot}]
    /\ pc \in [Requests -> {"idle", "version", "roles", "act"}]
    /\ mine \in [Requests -> Snapshots \cup {NoSnapshot}]
    /\ started \in [Requests -> Nat]
    /\ version \in [Requests -> Versions]
    /\ roles \in [Requests -> Roles]

\* A snapshot lives less than S seconds; without snapshots only the second in
\* which the roles are read remains.
Lifetime == IF S = 0 THEN 1 ELSE S

\* Whatever is lost, fails or races, and even when the version says nothing at
\* all, no request acts with roles that were replaced more than the snapshot's
\* lifetime plus the caches' budget before it started: a snapshot is not
\* renewed by being used, sent back late or stamped with a newer version.
BoundedRevocation ==
    \A q \in Requests :
        pc[q] = "act" /\ roles[q] # NoRoles /\ roles[q] # epoch
            => superseded[roles[q]] + RoleBudget + Lifetime > started[q]

\* When the caches serve no superseded roles (the repository cache is off, or no
\* load raced a write), the version does its work: a request that saw version v
\* acts with roles at least as new as the ones v was stored for, through any
\* order of reads and statements and any failure, unless a version was stored
\* twice.
VersionGuards ==
    RoleBudget = 0 /\ ~reused =>
        \A q \in Requests :
            pc[q] = "act" /\ roles[q] # NoRoles => roles[q] >= floor[version[q]]

\* "Bump security policy version so session-cached policies can refresh
\* quickly": an operation that went on to its audit record left the new version
\* in the table.
BumpTakesEffect == admin = "audit" => row = next

=============================================================================
