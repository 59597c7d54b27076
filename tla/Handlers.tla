------------------------------ MODULE Handlers ------------------------------
(***************************************************************************)
(* What the handlers that write share: the users who ask, the gate in      *)
(* front of the handlers, and statements that may fail.                    *)
(***************************************************************************)
EXTENDS Rights

CONSTANTS Policies,    \* those of the users who ask
          LockedMode,  \* TVENDOR_LOCKED_MODE
          Faults,      \* statements may fail, or succeed and be reported to fail
          NoRow        \* an identifier without a row

\* The gate of a handler: the decorator, locked mode, can_edit.
_write_blocked == LockedMode
MayWrite(p, permission) == require_permission(p, permission) /\ ~_write_blocked /\ p.edit

\* The gate of a page of the administrators.
MayManage(p, permission) ==
    require_permission(p, permission) /\ ~_write_blocked /\ has_admin_rights(p.roles)

Present(table) == {id \in DOMAIN table : table[id] # NoRow}

\* An identifier of a new row (a UUID): any that has no row yet.
Unused(table) == DOMAIN table \ Present(table)
=============================================================================
