------------------------------ MODULE RoleGrants ------------------------------
(***************************************************************************)
(* The grants of the admin page: direct roles of users in                  *)
(* sec_user_role_map, roles of groups in sec_group_role_map and lines of   *)
(* business of users in sec_user_org_scope.                                *)
(*                                                                         *)
(* A user has one direct role at a time, so granting one revokes the       *)
(* others first; groups (and scopes, which behave like the roles of a      *)
(* group) hold any number.  Every statement commits alone, an exception    *)
(* ends the operation, and the audit record is its last statement.  One    *)
(* operation runs at a time: the handlers run on the event loop and do not *)
(* yield between statements.                                               *)
(***************************************************************************)
EXTENDS Integers, Sequences

CONSTANTS Users,
          Groups,    \* groups, and users as holders of scopes
          Roles,     \* roles, and (line of business, level) pairs
          LocalDb,   \* SQLite: UNIQUE (principal, role, active_flag)
          Faults,    \* statements may fail
          NoOp,
          MaxRows    \* bound on the rows of one principal and role

ASSUME GrantsAssumption ==
    /\ LocalDb \in BOOLEAN /\ Faults \in BOOLEAN
    /\ MaxRows \in Nat
    /\ Users \cap Groups = {}

Principals == Users \cup Groups

\* A "change" replaces role old by role new; the others ignore old.
Ops == [kind : {"grant", "change", "revoke"}, who : Principals, old : Roles, new : Roles]
ASSUME NoOpAssumption == NoOp \notin Ops

VARIABLES
    active,   \* active[p][r]: rows with active_flag set and no revoked_at
    revoked,  \* revoked[p][r]: the others
    op,       \* the operation under way, or NoOp
    plan,     \* the statements it has left
    audited,  \* ghost: the roles of p as audit_access_event tells them
    broken    \* ghost: an operation on p ended early since they last agreed

vars == <<active, revoked, op, plan, audited, broken>>

Init ==
    /\ active = [p \in Principals |-> [r \in Roles |-> 0]]
    /\ revoked = [p \in Principals |-> [r \in Roles |-> 0]]
    /\ op = NoOp /\ plan = << >>
    /\ audited = [p \in Principals |-> {}]
    /\ broken = [p \in Principals |-> FALSE]

-----------------------------------------------------------------------------
(* Statements.                                                             *)

\* revoke_all_user_role_grants.sql, revoke_role_grant.sql and their kin.
Revoke(p, rs) ==
    /\ active' = [active EXCEPT ![p] = [r \in Roles |-> IF r \in rs THEN 0 ELSE active[p][r]]]
    /\ revoked' = [revoked EXCEPT ![p] =
           [r \in Roles |-> IF r \in rs THEN revoked[p][r] + active[p][r] ELSE revoked[p][r]]]

Insert(p, r) ==
    /\ active' = [active EXCEPT ![p][r] = @ + 1]
    /\ UNCHANGED revoked

\* The UNIQUE constraints of the local schema; Databricks enforces none.
RevokeRefused(p, rs) ==
    LocalDb /\ \E r \in rs : active[p][r] > 0 /\ active[p][r] + revoked[p][r] > 1
InsertRefused(p, r) == LocalDb /\ active[p][r] > 0

Statement(s) ==
    CASE s = "revoke all" -> Revoke(op.who, Roles)
      [] s = "revoke old" -> Revoke(op.who, {op.old})
      [] s = "revoke new" -> Revoke(op.who, {op.new})
      [] s = "insert new" -> Insert(op.who, op.new)

Refused(s) ==
    CASE s = "revoke all" -> RevokeRefused(op.who, Roles)
      [] s = "revoke old" -> RevokeRefused(op.who, {op.old})
      [] s = "revoke new" -> RevokeRefused(op.who, {op.new})
      [] s = "insert new" -> InsertRefused(op.who, op.new)

-----------------------------------------------------------------------------
(* Operations.                                                             *)

\* grant_role and change_role_grant of a user revoke every other role, whatever
\* role the form believes to be the current one.
BadUserPlan(o) == IF o.kind = "change" THEN <<"revoke old", "insert new">> ELSE <<"insert new">>
UserPlan(o) == <<"revoke all", "insert new">>

BadGroupPlan(o) == <<"insert new">>
GroupPlan(o) == IF o.kind = "change" THEN <<"revoke old", "insert new">> ELSE <<"insert new">>

PlanOf(o) ==
    IF o.kind = "revoke" THEN <<"revoke new">>
    ELSE IF o.who \in Users THEN UserPlan(o) ELSE GroupPlan(o)

\* A change to the same role returns at once.
Begin(o) ==
    /\ op = NoOp
    /\ o.kind = "change" => o.old # o.new
    /\ o.kind = "revoke" \/ active[o.who][o.new] + revoked[o.who][o.new] < MaxRows
    /\ op' = o
    /\ plan' = PlanOf(o)
    /\ UNCHANGED <<active, revoked, audited, broken>>

Execute ==
    /\ plan # << >>
    /\ ~Refused(Head(plan))
    /\ Statement(Head(plan))
    /\ plan' = Tail(plan)
    /\ UNCHANGED <<op, audited, broken>>

\* An exception skips the statements that are left.
BadAbandon ==
    /\ op' = NoOp
    /\ broken' = [broken EXCEPT ![op.who] = TRUE]
    /\ UNCHANGED <<plan, audited>>
Abandon ==
    /\ op' = NoOp /\ plan' = << >>
    /\ broken' = [broken EXCEPT ![op.who] = TRUE]
    /\ UNCHANGED audited

ExecuteFails ==
    /\ plan # << >>
    /\ Refused(Head(plan)) \/ Faults
    /\ UNCHANGED <<active, revoked>>
    /\ Abandon

\* The statement takes effect, but the driver reports an error.
ExecuteUnreported ==
    /\ plan # << >>
    /\ Faults /\ ~Refused(Head(plan))
    /\ Statement(Head(plan))
    /\ Abandon

\* What the record says of the roles of its target.  A direct role replaces the
\* one before it.
Told(o) ==
    CASE o.kind = "revoke" -> audited[o.who] \ {o.new}
      [] o.kind # "revoke" /\ o.who \in Users -> {o.new}
      [] o.kind = "grant" /\ o.who \notin Users -> audited[o.who] \cup {o.new}
      [] o.kind = "change" /\ o.who \notin Users -> (audited[o.who] \ {o.old}) \cup {o.new}

\* The policy version is bumped (SecurityPolicy), then the record is written.
Audit ==
    /\ op # NoOp /\ plan = << >>
    /\ audited' = [audited EXCEPT ![op.who] = Told(op)]
    /\ broken' = [broken EXCEPT ![op.who] =
           @ /\ ~(op.who \in Users /\ op.kind # "revoke")]
    /\ op' = NoOp
    /\ UNCHANGED <<active, revoked, plan>>

AuditFails ==
    /\ op # NoOp /\ plan = << >>
    /\ Faults
    /\ UNCHANGED <<active, revoked>>
    /\ Abandon

Next ==
    \/ \E o \in Ops : Begin(o)
    \/ Execute \/ ExecuteFails \/ ExecuteUnreported
    \/ Audit \/ AuditFails

Spec == Init /\ [][Next]_vars

-----------------------------------------------------------------------------
(* Properties                                                              *)

\* Types.  Nothing is left to run when no operation is under way, and the local
\* schema never holds two rows of a kind.
TypeOK ==
    /\ active \in [Principals -> [Roles -> Nat]]
    /\ revoked \in [Principals -> [Roles -> Nat]]
    /\ op \in Ops \cup {NoOp}
    /\ plan \in Seq({"revoke all", "revoke old", "revoke new", "insert new"})
    /\ op = NoOp => plan = << >>
    /\ audited \in [Principals -> SUBSET Roles]
    /\ broken \in [Principals -> BOOLEAN]
    /\ LocalDb => \A p \in Principals, r \in Roles : active[p][r] <= 1 /\ revoked[p][r] <= 1

\* "Enforce one active direct role per user", after any operation and between
\* any two statements of one, in whatever order they fail, and whichever role a
\* form believed to be the current one.
OneActiveRole ==
    \A u \in Users, r, s \in Roles :
        /\ active[u][r] <= 1
        /\ r # s => active[u][r] = 0 \/ active[u][s] = 0

\* The audit trail tells the roles a principal has: replaying its records gives
\* the active grants of everybody no operation broke off on, however often a
\* group was granted the same role.
AuditTells ==
    op = NoOp =>
        \A p \in Principals :
            ~broken[p] => {r \in Roles : active[p][r] > 0} = audited[p]

\* "Grant a role to a user and write an access audit event": while no statement
\* fails of itself, every operation on a user's roles comes to its end.
GrantsSucceed == ~Faults => \A u \in Users : ~broken[u]

=============================================================================
