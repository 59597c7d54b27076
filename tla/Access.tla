------------------------------- MODULE Access -------------------------------
(***************************************************************************)
(* The door of the application: a page is shown to a user who has a role   *)
(* and has agreed to the terms in force, and the first administrator lets  *)
(* himself in while nobody can approve his request.                        *)
(*                                                                         *)
(* Several users may share a browser, and a user may have several; a       *)
(* release brings other terms, or the earlier ones back.  The agreement is *)
(* a user setting, deleted and inserted again, whose failures are logged   *)
(* and forgotten; a read may return what was there before (CacheLayers).   *)
(***************************************************************************)
EXTENDS Handlers

CONSTANTS Users, Browsers,
          TermsVersions,   \* the digests of TERMS_DOCUMENT_TEXT, by release
          TermsEnforced,   \* TVENDOR_TERMS_ENFORCEMENT_ENABLED
          BootstrapPassword  \* one is configured

ASSUME AccessAssumption == NoRow \notin TermsVersions /\ TermsEnforced \in BOOLEAN

NotAgreed == NoRow
Approving == {"vendor_admin", "vendor_steward", "vendor_approver"}

VARIABLES
    current_terms_version,
    role,      \* sec_user_role_map: the role of a user
    acceptance,    \* app_user_settings: the version a user agreed to
    was,       \* ghost: what it has been, and a cache may still hold
    cookie,    \* the session of a browser: the version, by user
    shown,     \* the last answer to a user: a page, the terms, an error, or a
               \* redirection (to the terms, to ask for access, back)
    agreed     \* ghost: the versions a user agreed to

accessVars == <<current_terms_version, role, acceptance, was, cookie, shown, agreed>>

AccessInit ==
    /\ current_terms_version \in TermsVersions
    /\ role = [u \in Users |-> NoRow]
    /\ acceptance = [u \in Users |-> NotAgreed]
    /\ was = [u \in Users |-> {}]
    /\ cookie = [b \in Browsers |-> [u \in Users |-> NotAgreed]]
    /\ shown = [u \in Users |-> "elsewhere"]
    /\ agreed = [u \in Users |-> {}]

AccessTypeOK ==
    /\ current_terms_version \in TermsVersions
    /\ role \in [Users -> BuiltIn \cup {NoRow}]
    /\ acceptance \in [Users -> TermsVersions \cup {NotAgreed}]
    /\ cookie \in [Browsers -> [Users -> TermsVersions \cup {NotAgreed}]]
    /\ shown \in [Users -> {"elsewhere", "page", "form", "error"}]
    /\ agreed \in [Users -> SUBSET TermsVersions]

Answer(u, what) == shown' = [shown EXCEPT ![u] = what]

-----------------------------------------------------------------------------
(* Terms.                                                                  *)

StoredAcceptance(u) == {acceptance[u]} \cup was[u] \cup (IF Faults THEN {NotAgreed} ELSE {})

BadSessionKey(u) == CHOOSE v \in Users : TRUE   \* the users of a browser share a key
_session_key(u) == u

\* accepted: the answer; the stored agreement is copied into the session.
has_current_terms_acceptance(b, u, accepted) ==
    IF ~TermsEnforced \/ cookie[b][_session_key(u)] = current_terms_version
    THEN accepted = TRUE /\ UNCHANGED cookie
    ELSE \E setting \in StoredAcceptance(u) :
            /\ accepted = (setting = current_terms_version)
            /\ cookie' = IF accepted THEN [cookie EXCEPT ![b][_session_key(u)] = setting] ELSE cookie

\* The middleware in front of the pages (GET and HEAD; writes are not asked).
register_request_perf_middleware(b, u) ==
    /\ \/ role[u] = NoRow /\ Answer(u, "elsewhere") /\ UNCHANGED cookie
       \/ role[u] # NoRow /\ \E accepted \in BOOLEAN :
            /\ has_current_terms_acceptance(b, u, accepted)
            /\ Answer(u, IF accepted THEN "page" ELSE "elsewhere")
    /\ UNCHANGED <<current_terms_version, role, acceptance, was, agreed>>

\* terms_document() takes no argument, and its callers pass it the repository:
\* the form with the version to send back is never rendered.
terms_document(arguments) == IF arguments = {} THEN "form" ELSE "error"

access_terms_page(b, u) ==
    /\ \E accepted \in BOOLEAN :
         /\ has_current_terms_acceptance(b, u, accepted)
         /\ Answer(u, IF accepted THEN "elsewhere" ELSE terms_document({"repo"}))
    /\ UNCHANGED <<current_terms_version, role, acceptance, was, agreed>>

access_terms_view_page(u) ==
    /\ Answer(u, terms_document({"repo"}))
    /\ UNCHANGED <<current_terms_version, role, acceptance, was, cookie, agreed>>

\* The statements that took effect: both, the deletion, or none; the exception
\* is swallowed.
SaveAcceptance(u, version) ==
    /\ \/ acceptance' = [acceptance EXCEPT ![u] = version]
       \/ Faults /\ acceptance' = [acceptance EXCEPT ![u] = NotAgreed]
       \/ Faults /\ UNCHANGED acceptance
    /\ was' = [was EXCEPT ![u] = @ \cup {acceptance[u]}]

record_terms_acceptance(b, u, version) ==
    /\ version = current_terms_version
    /\ SaveAcceptance(u, version)
    /\ cookie' = [cookie EXCEPT ![b][_session_key(u)] = version]
    /\ agreed' = [agreed EXCEPT ![u] = @ \cup {version}]
    /\ Answer(u, "elsewhere")

\* The version comes from a form that may be older than the release.
accept_terms(b, u, agree, version) ==
    /\ TermsEnforced
    /\ \/ agree /\ record_terms_acceptance(b, u, version)
       \/ /\ Faults \/ ~agree \/ version # current_terms_version
          /\ Answer(u, "elsewhere")
          /\ UNCHANGED <<acceptance, was, cookie, agreed>>
    /\ UNCHANGED <<current_terms_version, role>>

\* A release: the forms that are open stay so, the pages shown are past.
Release(version) ==
    /\ current_terms_version' = version
    /\ shown' = [u \in Users |-> "elsewhere"]
    /\ UNCHANGED <<role, acceptance, was, cookie, agreed>>

\* Cookies are lost; of two answers to a browser the last one wins, which may
\* carry what a user agreed to before.
CookieReplaced(b, u, version) ==
    /\ cookie' = [cookie EXCEPT ![b][_session_key(u)] = version]
    /\ UNCHANGED <<current_terms_version, role, acceptance, was, shown, agreed>>

-----------------------------------------------------------------------------
(* Roles.                                                                  *)

has_active_access_approvers == \E u \in Users : role[u] \in Approving

\* grant_role revokes what the user had, then inserts (RoleGrants).
bootstrap_initial_admin(u, rightPassword) ==
    /\ ~LockedMode /\ BootstrapPassword /\ ~has_active_access_approvers /\ rightPassword
    /\ \/ role' = [role EXCEPT ![u] = "vendor_admin"]
       \/ Faults /\ role' = [role EXCEPT ![u] = NoRow]
    /\ Answer(u, "elsewhere")
    /\ UNCHANGED <<current_terms_version, acceptance, was, cookie, agreed>>

\* An administrator grants, changes or revokes (RoleGrants, ChangeRequests).
RoleSet(u, r) ==
    /\ has_active_access_approvers
    /\ role' = [role EXCEPT ![u] = r]
    /\ shown' = [shown EXCEPT ![u] = "elsewhere"]
    /\ UNCHANGED <<current_terms_version, acceptance, was, cookie, agreed>>

-----------------------------------------------------------------------------
AccessNext ==
    \/ \E b \in Browsers, u \in Users :
         \/ register_request_perf_middleware(b, u)
         \/ access_terms_page(b, u)
         \/ \E agree \in BOOLEAN, version \in TermsVersions : accept_terms(b, u, agree, version)
         \/ \E version \in agreed[u] \cup {NotAgreed} : CookieReplaced(b, u, version)
    \/ \E u \in Users : \/ access_terms_view_page(u)
                        \/ \E right \in BOOLEAN : bootstrap_initial_admin(u, right)
                        \/ \E r \in {"vendor_admin", NoRow} : RoleSet(u, r)
    \/ \E version \in TermsVersions : Release(version)

AccessSpec == AccessInit /\ [][AccessNext]_accessVars

-----------------------------------------------------------------------------
(* Properties.                                                             *)

(* "Continued use requires re-acceptance whenever a revised version is     *)
(* published": a page is shown to a user only after this user, and not     *)
(* another one of the browser, agreed to the version in force, whatever    *)
(* failed to be saved, came back from a cache or an old cookie, or was     *)
(* released and withdrawn.                                                 *)
TermsAgreed ==
    TermsEnforced => \A u \in Users : shown[u] = "page" => current_terms_version \in agreed[u]

(* "assert terms_page.status_code == 200" of tests/test_terms_acceptance.py *)
(* :35: a user who is sent to the terms can read and accept them.          *)
TermsShown == \A u \in Users : shown[u] # "error"
=============================================================================
