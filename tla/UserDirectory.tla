---------------------------- MODULE UserDirectory ----------------------------
(***************************************************************************)
(* The users the application knows (app_user_directory), found or entered  *)
(* when a page or a handler needs the identifier of a person, and the      *)
(* owners of vendors, offerings and projects, who are such identifiers:    *)
(* named one by one, and handed over from one person to another.           *)
(*                                                                         *)
(* Pages run in threads: between the query that finds no row and the       *)
(* insert others run.  POST handlers run one at a time; the hand-over is   *)
(* a loop in which the threads and the external employee directory move.   *)
(* Profiles and last-seen times are left out, and so are the local         *)
(* development mode without employee directory and the system users.  The  *)
(* reads of the two directories and of the assignments succeed here.       *)
(***************************************************************************)
EXTENDS Handlers

CONSTANTS Employees, Names, UserIds, Threads, Assignments,
          FoundAs,      \* the employee the directory has under a name (mail,
                        \* network name, number), or NoOne
          ShownAs,      \* ... under a login or display name, by searching
          LoginOf,      \* the login of an employee: the mail, else the first other
          OldOwners,    \* the owners to begin with: logins
          UniqueLogin   \* the table refuses a second row of a login (SQLite)

NoOne == "no one"
None == ""
NoUser == NoRow

\* An employee is found under no other employee's login.
ASSUME DirectoryAssumption ==
    /\ FoundAs \in [Names -> Employees \cup {NoOne}]
    /\ ShownAs \in [Names -> Employees \cup {NoOne}]
    /\ NoOne \notin Employees /\ None \notin Names
    /\ LoginOf \in [Employees -> Names]
    /\ \A e \in Employees : FoundAs[LoginOf[e]] \in {e, NoOne}
    /\ OldOwners \in [Assignments -> Names \cup {NoRow}]
    /\ UserIds \cap Names = {} /\ NoRow \notin UserIds \cup Names

VARIABLES
    active,  \* vw_employee_directory: the employees who are active
    users,   \* app_user_directory: the login of a user
    calls,   \* of a page's thread: the login it is about to insert
    owners,  \* who owns, by assignment: of vendors, offerings and projects
    job      \* the hand-over under way

directoryVars == <<active, users, calls, owners, job>>

DirectoryInit ==
    /\ active \in SUBSET Employees
    /\ users = [u \in UserIds |-> NoRow]
    /\ calls = [t \in Threads |-> NoRow]
    /\ owners = OldOwners
    /\ job = NoRow

DirectoryTypeOK ==
    /\ active \subseteq Employees
    /\ users \in [UserIds -> Names \cup {NoRow}]
    /\ calls \in [Threads -> Names \cup {NoRow}]
    /\ owners \in [Assignments -> Present(users) \cup Names \cup {NoRow}]

-----------------------------------------------------------------------------
(* Find a person.                                                          *)

_lookup_employee_directory_identity(name) ==
    IF FoundAs[name] \in active THEN FoundAs[name] ELSE NoOne

search_user_directory(name) == IF ShownAs[name] \in active THEN ShownAs[name] ELSE NoOne

\* get_employee_directory_status_map finds those who are not active as well.
ActiveInDirectory(name) == name \in Names /\ FoundAs[name] \in active

RowsOf(login) == {u \in Present(users) : users[u] = login}

resolve_user_login_identifier(name) ==
    IF name \in UserIds THEN None
    ELSE IF _lookup_employee_directory_identity(name) # NoOne
    THEN LoginOf[_lookup_employee_directory_identity(name)]
    ELSE IF RowsOf(name) # {} THEN name
    ELSE IF search_user_directory(name) # NoOne THEN LoginOf[search_user_directory(name)]
    ELSE None

\* The possible <<identifier, table>>; none is an exception.
_ensure_user_directory_entry(name) ==
    LET employee == _lookup_employee_directory_identity(name)
        login == LoginOf[employee]
    IN IF employee = NoOne THEN {}
       ELSE IF RowsOf(login) # {} THEN RowsOf(login) \X {users}
       ELSE {<<u, [users EXCEPT ![u] = login]>> : u \in Unused(users)}

\* An identifier is taken as it is, a login's row without order.
resolve_user_id(name, allow_create) ==
    LET employee == _lookup_employee_directory_identity(name)
        shown == search_user_directory(name)
        known == IF shown = NoOne THEN {} ELSE RowsOf(LoginOf[shown])
    IN IF name \in UserIds THEN {<<name, users>>}
       ELSE IF RowsOf(name) # {} THEN RowsOf(name) \X {users}
       ELSE IF employee # NoOne THEN _ensure_user_directory_entry(LoginOf[employee])
       ELSE IF ~allow_create THEN (IF known = {} THEN {NoUser} ELSE known) \X {users}
       ELSE _ensure_user_directory_entry(IF shown = NoOne THEN name ELSE LoginOf[shown])

-----------------------------------------------------------------------------
(* Pages: enter the user who asks, if there is no row yet.                 *)

sync_user_directory_identity(t, name) ==
    LET employee == _lookup_employee_directory_identity(name)
    IN /\ calls[t] = NoRow
       /\ employee # NoOne
       /\ RowsOf(LoginOf[employee]) = {}
       /\ calls' = [calls EXCEPT ![t] = LoginOf[employee]]
       /\ UNCHANGED <<active, users, owners, job>>

create_user_directory(t) ==
    /\ calls[t] # NoRow
    /\ calls' = [calls EXCEPT ![t] = NoRow]
    /\ \/ /\ UniqueLogin => RowsOf(calls[t]) = {}
          /\ \E u \in Unused(users) : users' = [users EXCEPT ![u] = calls[t]]
       \/ /\ Faults \/ (UniqueLogin /\ RowsOf(calls[t]) # {})
          /\ UNCHANGED users
    /\ UNCHANGED <<active, owners, job>>

\* The people of the company come and go.
EmployeeChanges(e) ==
    /\ active' = (active \ {e}) \cup ({e} \ active)
    /\ UNCHANGED <<users, calls, owners, job>>

-----------------------------------------------------------------------------
(* Name an owner.                                                          *)

add_vendor_owner(a, login) ==
    \E found \in resolve_user_id(login, TRUE) :
        /\ users' = found[2]
        /\ \/ owners' = [owners EXCEPT ![a] = found[1]]
           \/ Faults /\ UNCHANGED owners

add_vendor_owner_submit(p, a, name) ==
    LET login == resolve_user_login_identifier(name)
    IN /\ MayWrite(p, "vendor_owner_create") /\ can_apply_change(p, "add_vendor_owner")
       /\ job = NoRow
       /\ login # None
       /\ add_vendor_owner(a, login)
       /\ UNCHANGED <<active, calls, job>>

-----------------------------------------------------------------------------
(* Hand over what a person owns.                                           *)

\* The login of an owner, as the directory joined to the assignments has it.
OwnerLogin(a) ==
    IF owners[a] \in Present(users) THEN users[owners[a]] ELSE owners[a]

BadAssignments(source, ref) ==              \* looks for the identifier alone
    {a \in Present(owners) : owners[a] = ref}
list_owner_reassignment_assignments(source, ref) ==
    LET login == resolve_user_login_identifier(source)
    IN {a \in Present(owners) : \/ OwnerLogin(a) \in {source, login}
                                \/ owners[a] \in {source, login, ref}}

\* All rows to one person, the chosen rows to one, or each to one of its own.
ownership_reassign_submit(p, source, all, chosen, targets) ==
    /\ MayManage(p, "admin_role_manage")
    /\ job = NoRow
    /\ \E found \in resolve_user_id(source, FALSE) :
         LET login == resolve_user_login_identifier(source)
             listed == list_owner_reassignment_assignments(source, found[1])
             todo == IF all THEN listed ELSE chosen \cap listed
         IN /\ todo # {}
            /\ job' = [values |-> {source, login, found[1]} \ {None, NoUser},
                       all |-> all, targets |-> targets, todo |-> todo, skipped |-> FALSE]
            /\ users' = found[2]
    /\ UNCHANGED <<active, calls, owners>>

\* An exception ends the loop and loses the count of what was done.
Raise == job' = NoRow /\ UNCHANGED owners

Reassign(a, target, found) ==
    LET login == resolve_user_login_identifier(target)
        target_values == {target, found[1], IF login = None THEN target ELSE login}
        rest == [job EXCEPT !.todo = @ \ {a}]
    IN \/ (found[1] = NoUser \/ ~ActiveInDirectory(target)) /\ Raise
       \/ /\ found[1] # NoUser /\ ActiveInDirectory(target)
          /\ IF job.values \cap target_values # {}
             THEN job' = [rest EXCEPT !.skipped = TRUE] /\ UNCHANGED owners
             ELSE \/ owners' = [owners EXCEPT ![a] = found[1]] /\ job' = rest
                  \/ Faults /\ Raise

bulk_reassign_owner_assignments(target) ==
    /\ job # NoRow
    /\ target \in job.targets
    /\ \E a \in job.todo :
         \/ \E found \in resolve_user_id(target, FALSE) :
              Reassign(a, target, found) /\ users' = found[2]
         \/ resolve_user_id(target, FALSE) = {} /\ Raise /\ UNCHANGED users
    /\ UNCHANGED <<active, calls>>

Reassigned ==
    /\ job # NoRow /\ job.todo = {}
    /\ job' = NoRow
    /\ UNCHANGED <<active, users, calls, owners>>

-----------------------------------------------------------------------------
DirectoryNext ==
    \/ \E t \in Threads : \/ \E name \in Names : sync_user_directory_identity(t, name)
                          \/ create_user_directory(t)
    \/ \E e \in Employees : EmployeeChanges(e)
    \/ \E p \in Policies, name \in Names \cup UserIds :
         \/ \E a \in Assignments : add_vendor_owner_submit(p, a, name)
         \/ \E all \in BOOLEAN, chosen \in SUBSET Assignments,
               targets \in {{t} : t \in Names \cup UserIds} \cup {Names \cup UserIds} :
              ownership_reassign_submit(p, name, all, chosen, targets)
    \/ \E target \in Names \cup UserIds : bulk_reassign_owner_assignments(target)
    \/ Reassigned

DirectorySpec == DirectoryInit /\ [][DirectoryNext]_directoryVars

-----------------------------------------------------------------------------
(* Properties.                                                             *)

(* A hand-over of everything that runs to its end leaves no assignment     *)
(* under what its source was resolved to: the name that was typed in, the  *)
(* login this person has, and the identifier the login was found under;    *)
(* whether an assignment has the login itself or an identifier whose row   *)
(* has it, be it one of two that two pages entered at once, and while      *)
(* people leave and pages enter more users.  Of a source that is typed in  *)
(* as an identifier, no login is looked up: what the person owns under the *)
(* login or under a second identifier stays, and nothing is claimed of it. *)
NothingLeft ==
    [][job # NoRow /\ job.all /\ ~job.skipped /\ job.todo = {} /\ job' = NoRow =>
         \A a \in Present(owners) : {owners[a], OwnerLogin(a)} \cap job.values = {}]_directoryVars
=============================================================================
