---------------------------- MODULE Services_proofs ----------------------------
(***************************************************************************)
(* The terms, the hand-over of what a person owns, the approvals, the      *)
(* request limits, the options of a type and the lists a user keeps: their *)
(* properties for any number of users, browsers, releases, employees,      *)
(* assignments, requests, lines of business, clients, codes, windows and   *)
(* items, and for any limits, with or without failures; and that each of   *)
(* them keeps its types.                                                   *)
(***************************************************************************)
EXTENDS MCServices, WellFoundedInduction, FiniteSetTheorems, SequenceTheorems,
        TLAPS

-----------------------------------------------------------------------------
(* The terms                                                               *)

\* A version that is stored, cached or in a cookie is one its user agreed to.
Agreed(u) == agreed[u] \cup {NotAgreed}

CookiesTraced ==
    /\ cookie \in [Browsers -> [Users -> TermsVersions \cup {NotAgreed}]]
    /\ \A b \in Browsers, u \in Users : cookie[b][u] \in Agreed(u)

Traced ==
    /\ role \in [Users -> BuiltIn \cup {NoRow}]
    /\ shown \in [Users -> {"elsewhere", "page", "form", "error"}]
    /\ acceptance \in [Users -> TermsVersions \cup {NotAgreed}]
    /\ was \in [Users -> SUBSET (TermsVersions \cup {NotAgreed})]
    /\ agreed \in [Users -> SUBSET TermsVersions]
    /\ current_terms_version \in TermsVersions
    /\ \A u \in Users : acceptance[u] \in Agreed(u) /\ was[u] \subseteq Agreed(u)
    /\ CookiesTraced
    /\ TermsAgreed

LEMMA InitTraced == AccessInit => Traced
BY DEF AccessInit, Traced, CookiesTraced, Agreed, TermsAgreed, NotAgreed

\* A session may take whatever its user agreed to.
LEMMA CookieStep ==
    ASSUME CookiesTraced, agreed' \in [Users -> SUBSET TermsVersions],
           NEW b \in Browsers, NEW u \in Users, NEW version \in Agreed(u)',
           \A w \in Users : Agreed(w) \subseteq Agreed(w)',
           cookie' = cookie \/ cookie' = [cookie EXCEPT ![b][u] = version]
    PROVE  CookiesTraced'
<1>1. version \in TermsVersions \cup {NotAgreed}
  BY DEF Agreed
<1>2. CASE cookie' = cookie
  BY <1>2 DEF CookiesTraced
<1>3. CASE cookie' = [cookie EXCEPT ![b][u] = version]
  <2>1. cookie' \in [Browsers -> [Users -> TermsVersions \cup {NotAgreed}]]
    BY <1>1, <1>3 DEF CookiesTraced
  <2>2. ASSUME NEW d \in Browsers, NEW w \in Users PROVE cookie'[d][w] \in Agreed(w)'
    <3>1. cookie'[d][w] = IF d = b /\ w = u THEN version ELSE cookie[d][w]
      BY <1>3 DEF CookiesTraced
    <3> QED BY <3>1 DEF CookiesTraced
  <2> QED BY <2>1, <2>2 DEF CookiesTraced
<1> QED BY <1>2, <1>3

\* Whoever is let through has agreed; what goes into the session was agreed.
LEMMA AcceptedIsAgreed ==
    ASSUME Traced, NEW b \in Browsers, NEW u \in Users, NEW accepted \in BOOLEAN,
           has_current_terms_acceptance(b, u, accepted)
    PROVE  /\ TermsEnforced /\ accepted => current_terms_version \in agreed[u]
           /\ \/ cookie' = cookie
              \/ /\ TermsEnforced /\ accepted
                 /\ cookie' = [cookie EXCEPT ![b][u] = current_terms_version]
<1>0. NotAgreed \notin TermsVersions /\ current_terms_version \in TermsVersions
  BY AccessAssumption DEF NotAgreed, Traced
<1>1. CASE ~TermsEnforced \/ cookie[b][u] = current_terms_version
  BY <1>0, <1>1 DEF has_current_terms_acceptance, _session_key, Traced, CookiesTraced, Agreed
<1>2. CASE TermsEnforced /\ cookie[b][u] # current_terms_version
  <2>1. PICK setting \in StoredAcceptance(u) :
            /\ accepted = (setting = current_terms_version)
            /\ cookie' = IF accepted THEN [cookie EXCEPT ![b][u] = setting] ELSE cookie
    BY <1>2 DEF has_current_terms_acceptance, _session_key
  <2>2. setting \in Agreed(u)
    BY <2>1 DEF StoredAcceptance, Traced, Agreed
  <2>3. CASE accepted
    <3>1. setting = current_terms_version /\ setting # NotAgreed
      BY <1>0, <2>1, <2>3
    <3> QED BY <1>2, <2>1, <2>2, <2>3, <3>1 DEF Agreed
  <2> QED BY <2>1, <2>3
<1> QED BY <1>1, <1>2, AccessAssumption

LEMMA AccessStep == Traced /\ [AccessNext]_accessVars => Traced'
<1> SUFFICES ASSUME Traced, [AccessNext]_accessVars PROVE Traced'
  OBVIOUS
<1>0. NotAgreed \notin TermsVersions
  BY AccessAssumption DEF NotAgreed
<1>1. CASE UNCHANGED accessVars
  BY <1>1 DEF accessVars, Traced, CookiesTraced, Agreed, TermsAgreed
<1>2. ASSUME NEW b \in Browsers, NEW u \in Users, register_request_perf_middleware(b, u)
      PROVE  Traced'
  <2>1. CASE role[u] = NoRow /\ Answer(u, "elsewhere") /\ UNCHANGED cookie
    BY <1>2, <2>1 DEF register_request_perf_middleware, Answer, Traced, CookiesTraced, Agreed, TermsAgreed
  <2>2. CASE role[u] # NoRow
    <3>1. PICK accepted \in BOOLEAN : /\ has_current_terms_acceptance(b, u, accepted)
                                      /\ Answer(u, IF accepted THEN "page" ELSE "elsewhere")
      BY <1>2, <2>2 DEF register_request_perf_middleware
    <3>2. /\ TermsEnforced /\ accepted => current_terms_version \in agreed[u]
          /\ \/ cookie' = cookie
             \/ /\ TermsEnforced /\ accepted
                /\ cookie' = [cookie EXCEPT ![b][u] = current_terms_version]
      BY <3>1, AcceptedIsAgreed
    <3>3. UNCHANGED <<current_terms_version, role, acceptance, was, agreed>>
      BY <1>2 DEF register_request_perf_middleware
    <3>4. CookiesTraced'
      BY <3>2, <3>3, CookieStep DEF Traced, Agreed
    <3> QED BY <3>1, <3>2, <3>3, <3>4 DEF Answer, Traced, Agreed, TermsAgreed
  <2> QED BY <1>2, <2>1, <2>2 DEF register_request_perf_middleware
<1>3. ASSUME NEW b \in Browsers, NEW u \in Users, access_terms_page(b, u)
      PROVE  Traced'
  <2>1. PICK accepted \in BOOLEAN :
            /\ has_current_terms_acceptance(b, u, accepted)
            /\ Answer(u, IF accepted THEN "elsewhere" ELSE "error")
    BY <1>3 DEF access_terms_page, terms_document
  <2>2. /\ TermsEnforced /\ accepted => current_terms_version \in agreed[u]
        /\ \/ cookie' = cookie
           \/ /\ TermsEnforced /\ accepted
              /\ cookie' = [cookie EXCEPT ![b][u] = current_terms_version]
    BY <2>1, AcceptedIsAgreed
  <2>3. UNCHANGED <<current_terms_version, role, acceptance, was, agreed>>
    BY <1>3 DEF access_terms_page
  <2>4. CookiesTraced'
    BY <2>2, <2>3, CookieStep DEF Traced, Agreed
  <2> QED BY <2>1, <2>2, <2>3, <2>4 DEF Answer, Traced, Agreed, TermsAgreed
<1>4. ASSUME NEW u \in Users, access_terms_view_page(u)
      PROVE  Traced'
  BY <1>4 DEF access_terms_view_page, terms_document, Answer, Traced, CookiesTraced, Agreed, TermsAgreed
<1>5. ASSUME NEW b \in Browsers, NEW u \in Users, NEW agree \in BOOLEAN,
             NEW version \in TermsVersions, accept_terms(b, u, agree, version)
      PROVE  Traced'
  <2>1. CASE record_terms_acceptance(b, u, version)
    <3>1. /\ cookie' = [cookie EXCEPT ![b][u] = version]
          /\ agreed' = [agreed EXCEPT ![u] = @ \cup {version}]
          /\ shown' = [shown EXCEPT ![u] = "elsewhere"]
          /\ UNCHANGED <<current_terms_version, role>>
      BY <1>5, <2>1 DEF accept_terms, record_terms_acceptance, Answer, _session_key
    <3>2. /\ \/ acceptance' = [acceptance EXCEPT ![u] = version]
             \/ acceptance' = [acceptance EXCEPT ![u] = NotAgreed]
             \/ UNCHANGED acceptance
          /\ was' = [was EXCEPT ![u] = @ \cup {acceptance[u]}]
      BY <2>1 DEF record_terms_acceptance, SaveAcceptance
    <3>3. /\ \A w \in Users : Agreed(w) \subseteq Agreed(w)'
          /\ version \in Agreed(u)'
      BY <3>1 DEF Agreed, Traced
    <3>4. CookiesTraced'
      BY <3>1, <3>3, CookieStep DEF Traced
    <3>5. \A w \in Users : acceptance'[w] \in Agreed(w)' /\ was'[w] \subseteq Agreed(w)'
      <4>1. NotAgreed \in Agreed(u)'
        BY DEF Agreed
      <4> QED BY <3>2, <3>3, <4>1 DEF Traced
    <3>6. TermsAgreed'
      BY <3>1 DEF Traced, TermsAgreed
    <3>7. /\ acceptance' \in [Users -> TermsVersions \cup {NotAgreed}]
          /\ was' \in [Users -> SUBSET (TermsVersions \cup {NotAgreed})]
      BY <3>2 DEF Traced
    <3>8. agreed' \in [Users -> SUBSET TermsVersions]
      BY <3>1 DEF Traced
    <3> QED BY <3>1, <3>4, <3>5, <3>6, <3>7, <3>8 DEF Traced
  <2>2. CASE Answer(u, "elsewhere") /\ UNCHANGED <<acceptance, was, cookie, agreed>>
    BY <1>5, <2>2 DEF accept_terms, Answer, Traced, CookiesTraced, Agreed, TermsAgreed
  <2> QED BY <1>5, <2>1, <2>2 DEF accept_terms
<1>6. ASSUME NEW b \in Browsers, NEW u \in Users, NEW version \in agreed[u] \cup {NotAgreed},
             CookieReplaced(b, u, version)
      PROVE  Traced'
  <2>1. /\ cookie' = [cookie EXCEPT ![b][u] = version]
        /\ UNCHANGED <<current_terms_version, role, acceptance, was, shown, agreed>>
    BY <1>6 DEF CookieReplaced, _session_key
  <2>2. CookiesTraced'
    BY <2>1, CookieStep DEF Traced, Agreed
  <2> QED BY <2>1, <2>2 DEF Traced, Agreed, TermsAgreed
<1>7. ASSUME NEW u \in Users, NEW right \in BOOLEAN, bootstrap_initial_admin(u, right)
      PROVE  Traced'
  <2>1. role' \in [Users -> BuiltIn \cup {NoRow}]
    BY <1>7 DEF bootstrap_initial_admin, Traced, BuiltIn, ROLE_DEFAULT_DEFINITIONS
  <2> QED BY <1>7, <2>1
      DEF bootstrap_initial_admin, Answer, Traced, CookiesTraced, Agreed, TermsAgreed
<1>8. ASSUME NEW u \in Users, NEW r \in {"vendor_admin", NoRow}, RoleSet(u, r)
      PROVE  Traced'
  <2>1. role' \in [Users -> BuiltIn \cup {NoRow}]
    BY <1>8 DEF RoleSet, Traced, BuiltIn, ROLE_DEFAULT_DEFINITIONS
  <2> QED BY <1>8, <2>1 DEF RoleSet, Traced, CookiesTraced, Agreed, TermsAgreed
<1>9. ASSUME NEW version \in TermsVersions, Release(version)
      PROVE  Traced'
  BY <1>9 DEF Release, Traced, CookiesTraced, Agreed, TermsAgreed
<1> QED BY <1>1, <1>2, <1>3, <1>4, <1>5, <1>6, <1>7, <1>8, <1>9 DEF AccessNext

(* A page is shown to a user only after this user, and not another one of  *)
(* the browser, agreed to the version in force, for any number of users,   *)
(* browsers and releases, and whatever fails.                              *)
THEOREM PagesAreAgreed == AccessSpec => []TermsAgreed
<1>1. AccessInit => Traced
  BY InitTraced
<1>2. Traced /\ [AccessNext]_accessVars => Traced'
  BY AccessStep
<1>3. Traced => TermsAgreed
  BY DEF Traced
<1> QED BY <1>1, <1>2, <1>3, PTL DEF AccessSpec

-----------------------------------------------------------------------------
(* The hand-over                                                           *)

\* Owners are known to the directory, or logins.
Owned ==
    /\ users \in [UserIds -> Names \cup {NoRow}]
    /\ calls \in [Threads -> Names \cup {NoRow}]
    /\ owners \in [Assignments -> Present(users) \cup Names \cup {NoRow}]

\* What a hand-over of everything has not reached is still to do.
StillToDo ==
    job # NoRow /\ job.all /\ ~job.skipped =>
        \A a \in Present(owners) : {owners[a], OwnerLogin(a)} \cap job.values # {} => a \in job.todo

Jobs == [values : SUBSET (Names \cup UserIds), all : BOOLEAN,
         targets : SUBSET (Names \cup UserIds), todo : SUBSET Assignments, skipped : BOOLEAN]

Valued == job # NoRow => job \in Jobs

HandOver == Owned /\ StillToDo /\ Valued

\* Users are only ever entered.
Entered(table) ==
    /\ table \in [UserIds -> Names \cup {NoRow}]
    /\ \A u \in Present(users) : table[u] = users[u]

LEMMA PresentUsers ==
    ASSUME Owned
    PROVE  /\ Present(users) = {u \in UserIds : users[u] # NoRow}
           /\ \A u \in Present(users) : u \in UserIds /\ u \notin Names /\ users[u] \in Names
           /\ NoRow \notin Present(users)
BY DirectoryAssumption DEF Owned, Present

LEMMA EmployeesFound ==
    ASSUME NEW name \in Names
    PROVE  /\ _lookup_employee_directory_identity(name) \in Employees \cup {NoOne}
           /\ search_user_directory(name) \in Employees \cup {NoOne}
BY DirectoryAssumption DEF _lookup_employee_directory_identity, search_user_directory

\* An entry made for a login has this login.
LEMMA EntryHasLogin ==
    ASSUME Owned, NEW e \in Employees, NEW found \in _ensure_user_directory_entry(LoginOf[e])
    PROVE  /\ Entered(found[2])
           /\ found[1] \in UserIds /\ found[2][found[1]] = LoginOf[e]
<1> DEFINE f == _lookup_employee_directory_identity(LoginOf[e])
<1>1. LoginOf[e] \in Names /\ FoundAs[LoginOf[e]] \in {e, NoOne} /\ e # NoOne
  BY DirectoryAssumption
<1>2. f \in {e, NoOne}
  BY <1>1 DEF _lookup_employee_directory_identity
<1>3. f # NoOne
  BY DEF _ensure_user_directory_entry
<1>4. f = e
  BY <1>2, <1>3
<1>5. CASE RowsOf(LoginOf[e]) # {}
  <2>1. found \in RowsOf(LoginOf[e]) \X {users}
    BY <1>3, <1>4, <1>5 DEF _ensure_user_directory_entry
  <2> QED BY <2>1, PresentUsers DEF RowsOf, Entered, Owned
<1>6. CASE RowsOf(LoginOf[e]) = {}
  <2>1. found \in {<<u, [users EXCEPT ![u] = LoginOf[e]]>> : u \in Unused(users)}
    BY <1>3, <1>4, <1>6 DEF _ensure_user_directory_entry
  <2>2. PICK u \in Unused(users) : found = <<u, [users EXCEPT ![u] = LoginOf[e]]>>
    BY <2>1
  <2>3. u \in UserIds /\ u \notin Present(users)
    BY DEF Unused, Owned
  <2>4. Entered([users EXCEPT ![u] = LoginOf[e]])
    BY <1>1, <2>3, PresentUsers DEF Entered, Owned
  <2> QED BY <2>2, <2>3, <2>4 DEF Owned
<1> QED BY <1>5, <1>6

\* What a name is resolved to: nobody, the identifier itself, or a row with a
\* login that the name, or the login it stands for, is equal to.
LEMMA ResolvedHasLogin ==
    ASSUME Owned, NEW name \in Names \cup UserIds, NEW found \in resolve_user_id(name, FALSE)
    PROVE  /\ Entered(found[2])
           /\ \/ found[1] = NoUser
              \/ found[1] = name /\ name \in UserIds
              \/ /\ found[1] \in UserIds
                 /\ found[2][found[1]] \in {name, resolve_user_login_identifier(name)} \cap Names
<1>0. Entered(users)
  BY DEF Entered, Owned
<1>1. CASE name \in UserIds
  BY <1>0, <1>1 DEF resolve_user_id
<1>2. CASE name \notin UserIds /\ RowsOf(name) # {}
  <2>1. found \in RowsOf(name) \X {users}
    BY <1>2 DEF resolve_user_id
  <2> QED BY <1>0, <1>2, <2>1, PresentUsers DEF RowsOf
<1> DEFINE e == _lookup_employee_directory_identity(name)
           s == search_user_directory(name)
<1>3. CASE name \notin UserIds /\ RowsOf(name) = {} /\ e # NoOne
  <2>1. e \in Employees
    BY <1>3, EmployeesFound
  <2>2. found \in _ensure_user_directory_entry(LoginOf[e])
    BY <1>3 DEF resolve_user_id
  <2>3. resolve_user_login_identifier(name) = LoginOf[e] /\ LoginOf[e] \in Names
    BY <1>3, <2>1, DirectoryAssumption DEF resolve_user_login_identifier
  <2> QED BY <2>1, <2>2, <2>3, EntryHasLogin
<1>4. CASE name \notin UserIds /\ RowsOf(name) = {} /\ e = NoOne
  <2> DEFINE known == IF s = NoOne THEN {} ELSE RowsOf(LoginOf[s])
  <2>1. found \in (IF known = {} THEN {NoUser} ELSE known) \X {users}
    BY <1>4 DEF resolve_user_id
  <2>2. CASE known = {}
    BY <1>0, <2>1, <2>2
  <2>3. CASE known # {}
    <3>1. s \in Employees /\ s # NoOne
      BY <1>4, <2>3, EmployeesFound
    <3>2. resolve_user_login_identifier(name) = LoginOf[s] /\ LoginOf[s] \in Names
      BY <1>4, <3>1, DirectoryAssumption DEF resolve_user_login_identifier
    <3>3. found[1] \in RowsOf(LoginOf[s]) /\ found[2] = users
      BY <2>1, <2>3, <3>1
    <3> QED BY <1>0, <3>2, <3>3, PresentUsers DEF RowsOf
  <2> QED BY <2>2, <2>3
<1> QED BY <1>1, <1>2, <1>3, <1>4

\* A named owner has a row from then on.
LEMMA CreatedHasRow ==
    ASSUME Owned, NEW name \in Names, NEW found \in resolve_user_id(name, TRUE)
    PROVE  Entered(found[2]) /\ found[1] \in UserIds /\ found[2][found[1]] \in Names
<1> DEFINE e == _lookup_employee_directory_identity(name)
           s == search_user_directory(name)
<1>0. name \notin UserIds /\ Entered(users)
  BY DirectoryAssumption DEF Entered, Owned
<1>1. CASE RowsOf(name) # {}
  <2>1. found \in RowsOf(name) \X {users}
    BY <1>0, <1>1 DEF resolve_user_id
  <2> QED BY <1>0, <2>1, PresentUsers DEF RowsOf
<1>2. CASE RowsOf(name) = {} /\ e # NoOne
  <2>1. e \in Employees /\ LoginOf[e] \in Names
    BY <1>2, EmployeesFound, DirectoryAssumption
  <2>2. found \in _ensure_user_directory_entry(LoginOf[e])
    BY <1>0, <1>2 DEF resolve_user_id
  <2> QED BY <2>1, <2>2, EntryHasLogin
<1>3. CASE RowsOf(name) = {} /\ e = NoOne
  <2>1. found \in _ensure_user_directory_entry(IF s = NoOne THEN name ELSE LoginOf[s])
    BY <1>0, <1>3 DEF resolve_user_id
  <2>2. s # NoOne
    BY <1>3, <2>1 DEF _ensure_user_directory_entry
  <2>3. s \in Employees /\ LoginOf[s] \in Names
    BY <2>2, EmployeesFound, DirectoryAssumption
  <2> QED BY <2>1, <2>2, <2>3, EntryHasLogin
<1> QED BY <1>1, <1>2, <1>3

LEMMA LoginResolved ==
    ASSUME NEW name \in Names \cup UserIds, resolve_user_login_identifier(name) # None
    PROVE  resolve_user_login_identifier(name) \in Names
<1>1. name \in Names
  BY DEF resolve_user_login_identifier
<1> QED BY <1>1, EmployeesFound, DirectoryAssumption DEF resolve_user_login_identifier

\* Entering users disturbs nothing that is known of the owners.
LEMMA EntriesKeep ==
    ASSUME Owned, Entered(users')
    PROVE  /\ users' \in [UserIds -> Names \cup {NoRow}]
           /\ Present(users) \subseteq Present(users)'
           /\ \A a \in Assignments : owners'[a] = owners[a] => OwnerLogin(a)' = OwnerLogin(a)
<1>1. users' \in [UserIds -> Names \cup {NoRow}]
  BY DEF Entered
<1>2. Present(users)' = {u \in UserIds : users'[u] # NoRow}
  BY <1>1 DEF Present
<1>3. Present(users) \subseteq Present(users)'
  BY <1>2, PresentUsers, DirectoryAssumption DEF Entered
<1>4. ASSUME NEW a \in Assignments, owners'[a] = owners[a]
      PROVE  OwnerLogin(a)' = OwnerLogin(a)
  <2>1. CASE owners[a] \in Present(users)
    BY <1>3, <1>4, <2>1 DEF OwnerLogin, Entered
  <2>2. CASE owners[a] \notin Present(users)
    <3>1. owners[a] \notin UserIds
      BY <2>2, DirectoryAssumption DEF Owned
    <3> QED BY <1>2, <1>4, <2>2, <3>1 DEF OwnerLogin
  <2> QED BY <2>1, <2>2
<1> QED BY <1>1, <1>3, <1>4

\* A step that enters users and leaves the owners and the hand-over alone.
LEMMA EntryStep ==
    ASSUME HandOver, Entered(users'), UNCHANGED <<owners, job>>,
           calls' \in [Threads -> Names \cup {NoRow}]
    PROVE  HandOver'
<1>1. /\ users' \in [UserIds -> Names \cup {NoRow}]
      /\ Present(users) \subseteq Present(users)'
      /\ \A a \in Assignments : OwnerLogin(a)' = OwnerLogin(a)
  BY EntriesKeep DEF HandOver
<1>2. Present(owners) \subseteq Assignments
  BY DEF HandOver, Owned, Present
<1>3. Owned'
  BY <1>1 DEF HandOver, Owned
<1>4. StillToDo'
  <2>1. Present(owners)' = Present(owners)
    BY DEF Present
  <2> QED BY <1>1, <1>2, <2>1 DEF HandOver, StillToDo
<1> QED BY <1>3, <1>4 DEF HandOver, Valued

\* While nothing is handed over only the types matter.
LEMMA IdleStep ==
    ASSUME Owned', job' = NoRow
    PROVE  HandOver'
BY DEF HandOver, StillToDo, Valued

LEMMA InitHandOver == DirectoryInit => HandOver
BY DirectoryAssumption DEF DirectoryInit, HandOver, Owned, StillToDo, Valued, Present

\* What is listed is all that the person owns.
LEMMA TakenStep ==
    ASSUME HandOver, NEW p \in Policies, NEW name \in Names \cup UserIds, NEW all \in BOOLEAN,
           NEW chosen \in SUBSET Assignments, NEW targets \in SUBSET (Names \cup UserIds),
           ownership_reassign_submit(p, name, all, chosen, targets)
    PROVE  HandOver'
<1> DEFINE login == resolve_user_login_identifier(name)
<1>1. PICK found \in resolve_user_id(name, FALSE) :
        LET listed == list_owner_reassignment_assignments(name, found[1])
            todo == IF all THEN listed ELSE chosen \cap listed
        IN /\ job' = [values |-> {name, login, found[1]} \ {None, NoUser}, all |-> all,
                      targets |-> targets, todo |-> todo, skipped |-> FALSE]
           /\ users' = found[2]
  BY DEF ownership_reassign_submit
<1> DEFINE listed == list_owner_reassignment_assignments(name, found[1])
           values == {name, login, found[1]} \ {None, NoUser}
           todo == IF all THEN listed ELSE chosen \cap listed
<1>2. UNCHANGED <<calls, owners>>
  BY DEF ownership_reassign_submit
<1>3. Entered(users')
  BY <1>1, ResolvedHasLogin DEF HandOver
<1>4. /\ users' \in [UserIds -> Names \cup {NoRow}]
      /\ Present(users) \subseteq Present(users)'
      /\ \A a \in Assignments : OwnerLogin(a)' = OwnerLogin(a)
  BY <1>2, <1>3, EntriesKeep DEF HandOver
<1>5. Owned'
  BY <1>2, <1>4 DEF HandOver, Owned
<1>6. /\ job' = [values |-> values, all |-> all, targets |-> targets, todo |-> todo,
                 skipped |-> FALSE]
      /\ job'.values = values
      /\ job'.all = all /\ job'.todo = todo
  BY <1>1
<1>7. StillToDo'
  <2> SUFFICES ASSUME all, NEW a \in Present(owners), {owners[a], OwnerLogin(a)'} \cap values # {}
               PROVE  a \in listed
    <3>1. Present(owners)' = Present(owners) /\ owners' = owners
      BY <1>2 DEF Present
    <3> QED BY <1>6, <3>1 DEF StillToDo
  <2>1. a \in Assignments /\ OwnerLogin(a)' = OwnerLogin(a)
    BY <1>4 DEF HandOver, Owned, Present
  <2>2. OwnerLogin(a) \in Names
    BY PresentUsers, DirectoryAssumption DEF OwnerLogin, HandOver, Owned, Present
  <2>3. found[1] \in UserIds \cup {NoUser} /\ found[1] \notin Names
    BY ResolvedHasLogin, DirectoryAssumption DEF HandOver, NoUser
  <2>4. owners[a] \in {name, login, found[1]} \/ OwnerLogin(a) \in {name, login}
    BY <2>1, <2>2, <2>3
  <2> QED BY <2>4 DEF list_owner_reassignment_assignments
<1>8. Valued'
  <2>2. login \in Names \cup {None}
    BY LoginResolved
  <2>3. found[1] \in Names \cup UserIds \cup {NoUser}
    BY ResolvedHasLogin DEF HandOver
  <2>4. todo \subseteq Assignments
    BY DEF list_owner_reassignment_assignments, Present, HandOver, Owned
  <2>5. values \subseteq Names \cup UserIds
    BY <2>2, <2>3
  <2> HIDE DEF todo, values, login
  <2>6. job' \in Jobs
    BY <1>6, <2>2, <2>4, <2>5 DEF Jobs
  <2> QED BY <1>6, <2>6 DEF Valued
<1> QED BY <1>5, <1>7, <1>8 DEF HandOver

\* An assignment that is handed over is handed to somebody else.
LEMMA ReassignStep ==
    ASSUME HandOver, NEW target \in Names \cup UserIds,
           bulk_reassign_owner_assignments(target)
    PROVE  HandOver'
<1>1. job # NoRow /\ UNCHANGED calls
  BY DEF bulk_reassign_owner_assignments
<1>2. PICK a \in job.todo :
         \/ \E found \in resolve_user_id(target, FALSE) :
              Reassign(a, target, found) /\ users' = found[2]
         \/ resolve_user_id(target, FALSE) = {} /\ Raise /\ UNCHANGED users
  BY DEF bulk_reassign_owner_assignments
<1>3. CASE Raise /\ UNCHANGED users
  <2>1. Owned'
    BY <1>1, <1>3 DEF Raise, HandOver, Owned, Present
  <2> QED BY <1>3, <2>1, IdleStep DEF Raise
<1>4. ASSUME NEW found \in resolve_user_id(target, FALSE),
             Reassign(a, target, found), users' = found[2]
      PROVE  HandOver'
  <2> DEFINE login == resolve_user_login_identifier(target)
             target_values == {target, found[1], IF login = None THEN target ELSE login}
             rest == [job EXCEPT !.todo = @ \ {a}]
  <2>1. /\ Entered(users')
        /\ \/ found[1] = NoUser
           \/ found[1] = target /\ target \in UserIds
           \/ found[1] \in UserIds /\ users'[found[1]] \in {target, login} \cap Names
    BY <1>4, ResolvedHasLogin DEF HandOver
  <2>2. /\ users' \in [UserIds -> Names \cup {NoRow}]
        /\ Present(users) \subseteq Present(users)'
        /\ \A b \in Assignments : owners'[b] = owners[b] => OwnerLogin(b)' = OwnerLogin(b)
    BY <2>1, EntriesKeep DEF HandOver
  <2>3. CASE Raise
    <3>1. Owned'
      BY <1>1, <2>2, <2>3 DEF Raise, HandOver, Owned
    <3> QED BY <2>3, <3>1, IdleStep DEF Raise
  <2>r. job \in Jobs
    BY <1>1 DEF HandOver, Valued
  <2>4. CASE job' = [rest EXCEPT !.skipped = TRUE] /\ UNCHANGED owners
    <3>1. /\ job' \in Jobs /\ job'.skipped
          /\ job'.values = job.values
      BY <2>r, <2>4 DEF Jobs
    <3>2. Owned'
      BY <1>1, <2>2, <2>4 DEF HandOver, Owned
    <3> QED BY <2>r, <3>1, <3>2 DEF HandOver, StillToDo, Valued
  <2>5. CASE /\ found[1] # NoUser /\ ActiveInDirectory(target)
             /\ job.values \cap target_values = {}
             /\ owners' = [owners EXCEPT ![a] = found[1]] /\ job' = rest
    <3>1. /\ job' \in Jobs /\ job'.todo = job.todo \ {a}
          /\ job'.values = job.values
          /\ job'.all = job.all /\ job'.skipped = job.skipped
      BY <2>r, <2>5 DEF Jobs
    <3>2. target \in Names /\ target \notin UserIds
      BY <2>5, DirectoryAssumption DEF ActiveInDirectory
    <3>3. found[1] \in UserIds /\ users'[found[1]] \in {target, login} \cap Names
      BY <2>1, <2>5, <3>2
    <3>4. found[1] \in Present(users)'
      BY <2>2, <3>3, DirectoryAssumption DEF Present
    <3>5. a \in Assignments
      BY <1>2, <2>r DEF Jobs
    <3>6. owners' \in [Assignments -> Present(users)' \cup Names \cup {NoRow}]
      BY <2>2, <2>5, <3>4 DEF HandOver, Owned
    <3>7. Owned'
      BY <1>1, <2>2, <3>6 DEF HandOver, Owned
    <3>8. users'[found[1]] \in target_values
      BY <3>3, DirectoryAssumption
    <3>9. OwnerLogin(a)' = users'[found[1]]
      BY <2>5, <3>4, <3>5 DEF OwnerLogin, HandOver, Owned
    <3>10. owners'[a] = found[1] /\ {owners'[a], OwnerLogin(a)'} \cap job.values = {}
      <4>1. owners'[a] = found[1] /\ found[1] \in target_values
        BY <2>5, <3>5 DEF HandOver, Owned
      <4> QED BY <2>5, <3>8, <3>9, <4>1
    <3>11. StillToDo'
      <4> SUFFICES ASSUME job.all, ~job.skipped, NEW b \in Present(owners)',
                          {owners'[b], OwnerLogin(b)'} \cap job.values # {}
                   PROVE  b \in job.todo \ {a}
        BY <3>1 DEF StillToDo
      <4>1. b # a /\ b \in Assignments
        BY <3>6, <3>10 DEF Present
      <4>2. owners'[b] = owners[b]
        BY <2>5, <4>1 DEF HandOver, Owned
      <4>3. b \in Present(owners)
        BY <4>1, <4>2 DEF Present, HandOver, Owned
      <4> QED BY <1>1, <2>2, <4>1, <4>2, <4>3 DEF HandOver, StillToDo
    <3> QED BY <2>r, <3>1, <3>7, <3>11 DEF HandOver, Valued
  <2> QED BY <1>4, <2>3, <2>4, <2>5 DEF Reassign
<1> QED BY <1>2, <1>3, <1>4

LEMMA DirectoryStep == HandOver /\ [DirectoryNext]_directoryVars => HandOver'
<1> SUFFICES ASSUME HandOver, [DirectoryNext]_directoryVars PROVE HandOver'
  OBVIOUS
<1>0. Entered(users)
  BY DEF Entered, HandOver, Owned
<1>1. CASE UNCHANGED directoryVars
  BY <1>0, <1>1, EntryStep DEF directoryVars, HandOver, Owned
<1>2. ASSUME NEW t \in Threads, NEW name \in Names, sync_user_directory_identity(t, name)
      PROVE  HandOver'
  <2> DEFINE e == _lookup_employee_directory_identity(name)
  <2>1. LoginOf[e] \in Names
    BY <1>2, EmployeesFound, DirectoryAssumption DEF sync_user_directory_identity
  <2>2. calls' \in [Threads -> Names \cup {NoRow}]
    BY <1>2, <2>1 DEF sync_user_directory_identity, HandOver, Owned
  <2> QED BY <1>0, <1>2, <2>2, EntryStep DEF sync_user_directory_identity
<1>3. ASSUME NEW t \in Threads, create_user_directory(t)
      PROVE  HandOver'
  <2>1. calls[t] \in Names /\ calls' \in [Threads -> Names \cup {NoRow}]
    BY <1>3 DEF create_user_directory, HandOver, Owned
  <2>2. Entered(users')
    <3>1. CASE UNCHANGED users
      BY <1>0, <3>1
    <3>2. CASE \E u \in Unused(users) : users' = [users EXCEPT ![u] = calls[t]]
      BY <2>1, <3>2 DEF Unused, Entered, HandOver, Owned
    <3> QED BY <1>3, <3>1, <3>2 DEF create_user_directory
  <2> QED BY <1>3, <2>1, <2>2, EntryStep DEF create_user_directory
<1>4. ASSUME NEW e \in Employees, EmployeeChanges(e)
      PROVE  HandOver'
  BY <1>0, <1>4, EntryStep DEF EmployeeChanges, HandOver, Owned
<1>5. ASSUME NEW p \in Policies, NEW name \in Names \cup UserIds, NEW a \in Assignments,
             add_vendor_owner_submit(p, a, name)
      PROVE  HandOver'
  <2> DEFINE login == resolve_user_login_identifier(name)
  <2>1. login \in Names /\ job' = NoRow /\ UNCHANGED calls
    BY <1>5, LoginResolved DEF add_vendor_owner_submit
  <2>2. PICK found \in resolve_user_id(login, TRUE) :
          /\ users' = found[2]
          /\ owners' = [owners EXCEPT ![a] = found[1]] \/ UNCHANGED owners
    BY <1>5 DEF add_vendor_owner_submit, add_vendor_owner
  <2> HIDE DEF login
  <2>3. Entered(users') /\ found[1] \in UserIds /\ users'[found[1]] \in Names
    BY <2>1, <2>2, CreatedHasRow DEF HandOver
  <2>4. users' \in [UserIds -> Names \cup {NoRow}] /\ Present(users) \subseteq Present(users)'
    BY <2>3, EntriesKeep DEF HandOver
  <2>5. found[1] \in Present(users)'
    BY <2>3, <2>4, DirectoryAssumption DEF Present
  <2>6. Owned'
    BY <2>1, <2>2, <2>4, <2>5 DEF HandOver, Owned
  <2> QED BY <2>1, <2>6, IdleStep
<1>6. ASSUME NEW p \in Policies, NEW name \in Names \cup UserIds, NEW all \in BOOLEAN,
             NEW chosen \in SUBSET Assignments, NEW targets \in SUBSET (Names \cup UserIds),
             ownership_reassign_submit(p, name, all, chosen, targets)
      PROVE  HandOver'
  BY <1>6, TakenStep
<1>7. ASSUME NEW target \in Names \cup UserIds, bulk_reassign_owner_assignments(target)
      PROVE  HandOver'
  BY <1>7, ReassignStep
<1>8. CASE Reassigned
  <2>1. Owned'
    BY <1>8 DEF Reassigned, HandOver, Owned, Present
  <2> QED BY <1>8, <2>1, IdleStep DEF Reassigned
<1>9. \A t \in Names \cup UserIds : {t} \in SUBSET (Names \cup UserIds)
  OBVIOUS
<1> QED BY <1>1, <1>2, <1>3, <1>4, <1>5, <1>6, <1>7, <1>8, <1>9 DEF DirectoryNext

(* A hand-over of everything that runs to its end leaves no assignment     *)
(* under the name, the login or the identifier its source was resolved to, *)
(* for any number of people, users and assignments, and whoever enters     *)
(* users or leaves the company meanwhile.                                  *)
THEOREM HandOverLeavesNothing == DirectorySpec => NothingLeft
<1>1. DirectoryInit => HandOver
  BY InitHandOver
<1>2. HandOver /\ [DirectoryNext]_directoryVars => HandOver'
  BY DirectoryStep
<1>3. HandOver => (job # NoRow /\ job.all /\ ~job.skipped /\ job.todo = {} /\ job' = NoRow =>
                      \A a \in Present(owners) : {owners[a], OwnerLogin(a)} \cap job.values = {})
  BY DEF HandOver, StillToDo
<1> QED BY <1>1, <1>2, <1>3, PTL DEF DirectorySpec, NothingLeft

-----------------------------------------------------------------------------
(* The approvals                                                           *)

\* A row has the columns of the table, and a payload names an owner only while
\* its vendor has no row.
IsRow(r) ==
    r = [vendor |-> r.vendor, by |-> r.by, level |-> r.level, owner |-> r.owner,
         orgs |-> r.orgs, status |-> r.status]

WellOwned(r) == r # NoRow => IsRow(r) /\ (r.owner # NoRow => r.vendor = GLOBAL_CHANGE_VENDOR_ID)

RequestsOwned ==
    /\ requests = [id \in RequestIds |-> requests[id]]
    /\ \A id \in RequestIds : WellOwned(requests[id])

\* What the queue and the decision make of one request is the same.
LEMMA OrgsAgree ==
    ASSUME RequestsOwned, NEW id \in RequestIds, requests[id] # NoRow
    PROVE  QueueOrgs(id) = PayloadOrgs(id)
<1>1. CASE requests[id].owner = NoRow
  BY <1>1 DEF QueueOrgs, PayloadOrgs, _payload_org_values
<1>2. CASE requests[id].owner # NoRow
  <2>1. OwnerOf(id) = NoRow
    BY <1>2 DEF RequestsOwned, WellOwned, OwnerOf
  <2> QED BY <1>2, <2>1 DEF QueueOrgs, PayloadOrgs, _payload_org_values
<1> QED BY <1>1, <1>2

LEMMA OwnedTells == RequestsOwned => QueueTells
<1> SUFFICES ASSUME RequestsOwned, NEW u \in Staff
             PROVE  /\ _load_workflow_queue_view(u, "my_approvals") = {id \in RequestIds : MayDecide(u, id)}
                    /\ \A queue \in {"my_approvals", "my_submissions"} :
                           \A id \in workflow_next_pending(u, queue) : workflow_detail(u, id)
  BY DEF QueueTells
<1>1. Present(requests) = {id \in RequestIds : requests[id] # NoRow}
  <2>1. DOMAIN requests = RequestIds
    BY DEF RequestsOwned
  <2> QED BY <2>1 DEF Present
<1>2. ASSUME NEW id \in Present(requests)
      PROVE  QueueOrgs(id) = PayloadOrgs(id)
  BY <1>1, OrgsAgree
<1>3. ASSUME NEW id \in RequestIds
      PROVE  CanReview(u, id) => PolicyOfUser[u].approve
  BY DEF CanReview, can_review_level
<1>4. _load_workflow_queue_view(u, "my_approvals") = {id \in RequestIds : MayDecide(u, id)}
  <2>1. ASSUME NEW id \in RequestIds
        PROVE  id \in _load_workflow_queue_view(u, "my_approvals") <=> MayDecide(u, id)
    <3>1. _status_allows_queue(u, id, "my_approvals") <=> CanReview(u, id)
      BY DEF _status_allows_queue
    <3>2. requests[id] # NoRow => QueueOrgs(id) = PayloadOrgs(id)
      BY OrgsAgree
    <3> QED BY <1>1, <1>3, <3>1, <3>2 DEF _load_workflow_queue_view, MayDecide
  <2>2. _load_workflow_queue_view(u, "my_approvals") \subseteq RequestIds
    BY <1>1 DEF _load_workflow_queue_view
  <2> QED BY <2>1, <2>2
<1>5. ASSUME NEW queue \in {"my_approvals", "my_submissions"},
             NEW id \in workflow_next_pending(u, queue)
      PROVE  workflow_detail(u, id)
  <2>1. id \in _load_workflow_queue_view(u, queue)
    BY DEF workflow_next_pending
  <2>2. CASE queue = "my_approvals"
    <3>1. MayDecide(u, id)
      BY <1>4, <2>1, <2>2
    <3> QED BY <3>1 DEF MayDecide, workflow_detail
  <2>3. CASE queue = "my_submissions"
    <3>1. requests[id].by = u
      BY <2>1, <2>3 DEF _load_workflow_queue_view, _status_allows_queue
    <3> QED BY <3>1 DEF workflow_detail
  <2> QED BY <2>2, <2>3
<1> QED BY <1>4, <1>5

LEMMA CreatedOwned ==
    ASSUME RequestsOwned,
           NEW id, NEW u, NEW vendor, NEW level, NEW owner, NEW orgs,
           create_vendor_change_request(id, u, vendor, level, owner, orgs),
           owner # NoRow => vendor = GLOBAL_CHANGE_VENDOR_ID
    PROVE  RequestsOwned'
<1> DEFINE row == [vendor |-> vendor, by |-> u, level |-> _prepare_change_request_payload(level),
                   owner |-> owner, orgs |-> orgs \ {NoRow}, status |-> "submitted"]
<1>1. WellOwned(row)
  BY DEF WellOwned, IsRow
<1>2. requests' = [requests EXCEPT ![id] = row]
  BY DEF create_vendor_change_request
<1> HIDE DEF row
<1> QED BY <1>1, <1>2 DEF RequestsOwned

LEMMA DecidedOwned ==
    ASSUME RequestsOwned, NEW u \in Staff, NEW id \in RequestIds, NEW decision,
           workflow_decision(u, id, decision)
    PROVE  RequestsOwned'
<1> DEFINE row == [requests[id] EXCEPT !.status = decision]
<1>1. requests[id] # NoRow /\ WellOwned(requests[id])
  BY DEF workflow_decision, MayDecide, RequestsOwned
<1>2. WellOwned(row)
  BY <1>1 DEF WellOwned, IsRow
<1>3. requests' = [requests EXCEPT ![id] = row]
  BY DEF workflow_decision
<1> HIDE DEF row
<1> QED BY <1>2, <1>3 DEF RequestsOwned

LEMMA ApprovalsStep == RequestsOwned /\ [ApprovalsNext]_approvalVars => RequestsOwned'
<1> SUFFICES ASSUME RequestsOwned, [ApprovalsNext]_approvalVars PROVE RequestsOwned'
  OBVIOUS
<1>1. CASE requests' = requests
  BY <1>1 DEF RequestsOwned
<1>2. ASSUME NEW u \in Staff, NEW id \in RequestIds, submit_access_request(id, u)
      PROVE  RequestsOwned'
  BY <1>2, CreatedOwned DEF submit_access_request
<1>3. ASSUME NEW u \in Staff, NEW id \in RequestIds, NEW decision \in list_workflow_status_options,
             workflow_decision(u, id, decision)
      PROVE  RequestsOwned'
  BY <1>3, DecidedOwned
<1>4. ASSUME NEW u \in Staff, NEW id \in RequestIds, NEW org \in Orgs, vendor_new_submit(id, u, org)
      PROVE  RequestsOwned'
  BY <1>4, CreatedOwned DEF vendor_new_submit, Asks
<1>5. ASSUME NEW u \in Staff, NEW id \in RequestIds, NEW v \in Vendors, NEW form \in Forms,
             vendor_change_request(id, u, v, form)
      PROVE  RequestsOwned'
  BY <1>5, CreatedOwned DEF vendor_change_request
<1>6. ASSUME NEW u \in Staff, NEW id \in RequestIds, NEW v \in Vendors, NEW org \in Orgs \cup {NoRow},
             \/ add_vendor_org_assignment_submit(id, u, v, org)
             \/ update_vendor_ownership_lob_submit(id, u, v, org)
      PROVE  RequestsOwned'
  BY <1>1, <1>6, CreatedOwned
     DEF add_vendor_org_assignment_submit, update_vendor_ownership_lob_submit, Asks, SetOwner
<1>7. ASSUME NEW u \in Staff, NEW v \in Vendors, NEW org \in Orgs \cup {NoRow},
             vendor_direct_update(u, v, org)
      PROVE  RequestsOwned'
  BY <1>1, <1>7 DEF vendor_direct_update, SetOwner
<1>8. ASSUME NEW u \in Staff, NEW who \in Staff, NEW scope \in Orgs \cup {Enterprise},
             grant_scope(u, who, scope) \/ revoke_scope(u, who, scope)
      PROVE  RequestsOwned'
  BY <1>1, <1>8 DEF grant_scope, revoke_scope
<1>9. CASE UNCHANGED approvalVars
  BY <1>1, <1>9 DEF approvalVars
<1> QED BY <1>2, <1>3, <1>4, <1>5, <1>6, <1>7, <1>8, <1>9 DEF ApprovalsNext

\* The queue of an approver and what he may decide are the same, for any number
\* of vendors, lines of business, users and requests, with any policies, and also
\* where the scope grants cannot be read.
THEOREM QueueIsWhatMayBeDecided == ApprovalsSpec => []QueueTells
<1>1. ApprovalsInit => RequestsOwned
  BY DEF ApprovalsInit, RequestsOwned, WellOwned
<1>2. RequestsOwned /\ [ApprovalsNext]_approvalVars => RequestsOwned'
  BY ApprovalsStep
<1> QED BY <1>1, <1>2, OwnedTells, PTL DEF ApprovalsSpec

-----------------------------------------------------------------------------
(* The limit on write requests                                             *)

\* The least element of a set of natural numbers.
LEMMA LeastOf ==
    ASSUME NEW S \in SUBSET Nat, S # {}
    PROVE  Min(S) \in S /\ \A m \in S : Min(S) <= m
<1>1. PICK n \in S : \A m \in S : ~(<<m, n>> \in OpToRel(<, Nat))
  BY WFMin, NatLessThanWellFounded
<1>2. \A m \in S : n <= m
  <2> SUFFICES ASSUME NEW m \in S, ~(n <= m) PROVE FALSE
    OBVIOUS
  <2>1. <<m, n>> \in {ss \in Nat \X Nat : ss[1] < ss[2]}
    OBVIOUS
  <2>2. {ss \in Nat \X Nat : ss[1] < ss[2]} = OpToRel(<, Nat)
    BY DEF OpToRel
  <2> QED BY <1>1, <2>1, <2>2
<1> QED BY <1>2 DEF Min

-----------------------------------------------------------------------------
(* InForce.  Positions are counted from the newest.                        *)

FromEnd(s, k) == s[Len(s) - k]

\* What g tells of the time after at, s has as well.
Fit(g, s, at) ==
    \A k \in Nat : k < Len(g) /\ FromEnd(g, k) > at => k < Len(s) /\ FromEnd(s, k) = FromEnd(g, k)

\* InForce as the table has them.
Sampled(s) ==
    /\ s \in Seq(0 .. now) /\ Len(s) <= max_requests
    /\ \A i \in 1 .. Len(s) : s[i] <= FromEnd(s, 0)

Suffix(s, t) ==
    /\ t \in Seq(0 .. now) /\ Len(t) <= Len(s)
    /\ \A k \in Nat : k < Len(t) => FromEnd(t, k) = FromEnd(s, k)

LEMMA SubSeqFacts ==
    ASSUME NEW S, NEW s \in Seq(S), NEW m \in 1 .. Len(s) + 1
    PROVE  /\ SubSeq(s, m, Len(s)) \in Seq(S)
           /\ Len(SubSeq(s, m, Len(s))) = Len(s) - m + 1
           /\ \A i \in 1 .. Len(s) - m + 1 : SubSeq(s, m, Len(s))[i] = s[m + i - 1]
<1>1. \A i \in m .. Len(s) : s[i] \in S
  OBVIOUS
<1>2. CASE m <= Len(s)
  BY <1>1, <1>2, SubSeqProperties
<1>3. CASE m = Len(s) + 1
  BY <1>3, SubSeqProperties
<1> QED BY <1>2, <1>3

LEMMA TrimmedKeeps ==
    ASSUME now \in Nat, NEW s \in Seq(0 .. now)
    PROVE  /\ Suffix(s, Trimmed(s))
           /\ Fit(s, Trimmed(s), now - window)
           /\ Trimmed(s) # <<>> => Trimmed(s)[1] > now - window
           /\ Len(Trimmed(s)) = Len(s) => Trimmed(s) = s
<1> DEFINE InWindow(i) == i <= Len(s) => s[i] > now - window
           Places == {i \in 1 .. Len(s) + 1 : InWindow(i)}
           first == Min(Places)
           t == SubSeq(s, first, Len(s))
<1>0. window \in Nat
  BY LimiterAssumption DEF LimiterAssumption
<1>1. Places \in SUBSET Nat /\ Len(s) + 1 \in Places
  OBVIOUS
<1>2. first \in Places /\ \A i \in Places : first <= i
  <2> HIDE DEF Places
  <2> QED BY <1>1, LeastOf
<1>3. Trimmed(s) = t
  BY DEF Trimmed
<1>4. /\ first \in 1 .. Len(s) + 1
      /\ first <= Len(s) => s[first] > now - window
      /\ \A i \in 1 .. Len(s) : s[i] > now - window => first <= i
  <2> HIDE DEF first
  <2> QED BY <1>2
<1> HIDE DEF first, Places
<1>5. /\ t \in Seq(0 .. now) /\ Len(t) = Len(s) - first + 1
      /\ \A i \in 1 .. Len(s) - first + 1 : t[i] = s[first + i - 1]
  BY <1>4, SubSeqFacts
<1> HIDE DEF t
<1>6. Suffix(s, t)
  <2> SUFFICES ASSUME NEW k \in Nat, k < Len(t) PROVE FromEnd(t, k) = FromEnd(s, k)
    BY <1>4, <1>5 DEF Suffix
  <2>1. Len(t) - k \in 1 .. Len(s) - first + 1 /\ first + (Len(t) - k) - 1 = Len(s) - k
    BY <1>4, <1>5
  <2> QED BY <1>5, <2>1 DEF FromEnd
<1>7. Fit(s, t, now - window)
  <2> SUFFICES ASSUME NEW k \in Nat, k < Len(s), FromEnd(s, k) > now - window
               PROVE  k < Len(t) /\ FromEnd(t, k) = FromEnd(s, k)
    BY DEF Fit
  <2>1. Len(s) - k \in 1 .. Len(s)
    OBVIOUS
  <2>2. first <= Len(s) - k
    BY <1>4, <2>1 DEF FromEnd
  <2> QED BY <1>4, <1>5, <1>6, <2>2 DEF Suffix
<1>8. t # <<>> => t[1] > now - window
  <2> SUFFICES ASSUME t # <<>> PROVE t[1] > now - window
    OBVIOUS
  <2>1. Len(t) > 0
    BY <1>5
  <2>2. first <= Len(s) /\ t[1] = s[first]
    BY <1>4, <1>5, <2>1
  <2> QED BY <1>4, <2>2
<1>9. Len(t) = Len(s) => t = s
  <2> SUFFICES ASSUME Len(t) = Len(s) PROVE t = s
    OBVIOUS
  <2>1. first = 1
    BY <1>4, <1>5
  <2> QED BY <1>5, <2>1, SeqEqual
<1> QED BY <1>3, <1>6, <1>7, <1>8, <1>9

-----------------------------------------------------------------------------
\* Later, less has to fit; and a part that still has what is newer fits as well.
LEMMA FitLater ==
    ASSUME NEW g, NEW s, NEW at \in Int, NEW later \in Int, at <= later, Fit(g, s, at),
           g \in Seq(Int)
    PROVE  Fit(g, s, later)
<1> SUFFICES ASSUME NEW k \in Nat, k < Len(g), FromEnd(g, k) > later
             PROVE  FromEnd(g, k) > at
  BY DEF Fit
<1>1. Len(g) - k \in 1 .. Len(g)
  OBVIOUS
<1> QED BY <1>1 DEF FromEnd

LEMMA FitPart ==
    ASSUME NEW g, NEW s, NEW t, NEW at \in Int, NEW from \in Int, from <= at,
           Fit(g, s, at), Fit(s, t, from), g \in Seq(Int), s \in Seq(Int)
    PROVE  Fit(g, t, at)
<1> SUFFICES ASSUME NEW k \in Nat, k < Len(g), FromEnd(g, k) > at
             PROVE  k < Len(t) /\ FromEnd(t, k) = FromEnd(g, k)
  BY DEF Fit
<1>1. k < Len(s) /\ FromEnd(s, k) = FromEnd(g, k)
  BY DEF Fit
<1>2. FromEnd(g, k) \in Int
  <2>1. Len(g) - k \in 1 .. Len(g)
    OBVIOUS
  <2> QED BY <2>1 DEF FromEnd
<1> QED BY <1>1, <1>2 DEF Fit

LEMMA PartSampled ==
    ASSUME now \in Nat, NEW s, Sampled(s)
    PROVE  /\ Sampled(Trimmed(s))
           /\ Trimmed(s) # <<>> => s # <<>> /\ FromEnd(Trimmed(s), 0) = FromEnd(s, 0)
                                   /\ FromEnd(s, 0) > now - window
<1> DEFINE t == Trimmed(s)
<1>1. s \in Seq(0 .. now) /\ max_requests \in Nat /\ window \in Nat
  BY LimiterAssumption DEF Sampled
<1>2. Suffix(s, t) /\ (t # <<>> => t[1] > now - window)
  BY <1>1, TrimmedKeeps
<1> HIDE DEF t
<1>3. t \in Seq(0 .. now) /\ Len(t) <= Len(s)
  BY <1>2 DEF Suffix
<1>4. ASSUME NEW i \in 1 .. Len(t) PROVE t[i] = s[Len(s) - (Len(t) - i)] /\ Len(s) - (Len(t) - i) \in 1 .. Len(s)
  <2>1. Len(t) - i \in Nat /\ Len(t) - i < Len(t) /\ Len(t) - (Len(t) - i) = i
    BY <1>3
  <2> QED BY <1>1, <1>2, <1>3, <2>1 DEF Suffix, FromEnd
<1>5. t # <<>> => Len(t) > 0
  BY <1>3
<1>6. t # <<>> => FromEnd(t, 0) = FromEnd(s, 0)
  BY <1>2, <1>5 DEF Suffix
<1>7. ASSUME NEW i \in 1 .. Len(t) PROVE t[i] <= FromEnd(t, 0)
  <2>1. t # <<>>
    BY <1>3
  <2> QED BY <1>4, <1>6, <2>1 DEF Sampled
<1>8. t # <<>> => s # <<>> /\ FromEnd(s, 0) > now - window
  <2> SUFFICES ASSUME t # <<>> PROVE s # <<>> /\ FromEnd(s, 0) > now - window
    OBVIOUS
  <2>1. 1 \in 1 .. Len(t) /\ t[1] > now - window /\ t[1] \in Int
    BY <1>2, <1>3, <1>5
  <2>2. t[1] <= FromEnd(s, 0)
    BY <1>6, <1>7, <2>1
  <2>3. Len(s) \in 1 .. Len(s) /\ s # <<>>
    BY <1>1, <1>3, <1>5
  <2>4. FromEnd(s, 0) \in Int
    BY <1>1, <2>3 DEF FromEnd
  <2> QED BY <1>1, <2>1, <2>2, <2>3, <2>4
<1>9. Sampled(t)
  BY <1>1, <1>3, <1>7 DEF Sampled
<1> QED BY <1>6, <1>8, <1>9 DEF t

-----------------------------------------------------------------------------
(* The table against what was granted.                                     *)

SamplesOf(table, c) == IF c \in DOMAIN table THEN table[c] ELSE <<>>

\* What the table knows of each client.
KnownOf(table, gr) ==
    /\ DOMAIN table \subseteq Clients
    /\ \A c \in DOMAIN table :
         /\ Sampled(table[c])
         /\ table[c] # <<>> => gr[c] # <<>> /\ FromEnd(gr[c], 0) = FromEnd(table[c], 0)

Tells(table, gr, at) == \A c \in Clients : Fit(gr[c], SamplesOf(table, c), at)

Crowd(gr) == Cardinality({c \in Clients : Trimmed(gr[c]) # <<>>}) > max_keys

\* Clients leave the table when it is full, those that are active only when
\* too many are.
LEMMA TrimmedTable ==
    ASSUME now \in Nat, NEW table, NEW seen, NEW gr \in [Clients -> Seq(0 .. now)],
           KnownOf(table, gr), NEW at \in Int, now - window <= at, Tells(table, gr, at),
           NEW left \in _trim_locked(table, seen)
    PROVE  /\ DOMAIN left \subseteq DOMAIN table
           /\ \A c \in DOMAIN left : left[c] \in {table[c], Trimmed(table[c])}
           /\ KnownOf(left, gr)
           /\ Tells(left, gr, at) \/ Crowd(gr)
<1> DEFINE live == {c \in DOMAIN table : Trimmed(table[c]) # <<>>}
           surplus == Cardinality(live) - max_keys
           Oldest(S) == \A c \in S, d \in live \ S : seen[c] <= seen[d]
           outs == IF surplus <= 0 THEN {{}} ELSE {T \in kSubset(surplus, live) : Oldest(T)}
<1>0. window \in Nat /\ max_keys \in Nat /\ IsFiniteSet(Clients)
  BY LimiterAssumption
<1>1. CASE left = table
  BY <1>1
<1>2. ASSUME NEW S \in outs, left = [c \in live \ S |-> Trimmed(table[c])]
      PROVE  /\ DOMAIN left \subseteq DOMAIN table
             /\ \A c \in DOMAIN left : left[c] \in {table[c], Trimmed(table[c])}
             /\ KnownOf(left, gr)
             /\ Tells(left, gr, at) \/ Crowd(gr)
  <2>1. DOMAIN left \subseteq live /\ \A c \in DOMAIN left : left[c] = Trimmed(table[c])
    BY <1>2
  <2>2. \A c \in live : c \in Clients /\ gr[c] \in Seq(0 .. now) /\ Sampled(table[c])
                        /\ gr[c] # <<>> /\ FromEnd(gr[c], 0) = FromEnd(table[c], 0)
                        /\ FromEnd(table[c], 0) > now - window
                        /\ FromEnd(Trimmed(table[c]), 0) = FromEnd(table[c], 0)
                        /\ Sampled(Trimmed(table[c]))
    BY PartSampled DEF KnownOf
  <2>3. KnownOf(left, gr)
    BY <2>1, <2>2 DEF KnownOf
  <2>4. CASE surplus <= 0
    <3>1. S = {}
      BY <2>4
    <3>2. ASSUME NEW c \in Clients PROVE Fit(gr[c], SamplesOf(left, c), at)
      <4>0. Fit(gr[c], SamplesOf(table, c), at) /\ gr[c] \in Seq(Int)
        BY DEF Tells
      <4>1. CASE c \in DOMAIN table
        <5>1. table[c] \in Seq(0 .. now) /\ table[c] \in Seq(Int)
          BY <4>1 DEF KnownOf, Sampled
        <5>2. Fit(table[c], Trimmed(table[c]), now - window)
          BY <5>1, TrimmedKeeps
        <5>3. Fit(gr[c], Trimmed(table[c]), at)
          BY <1>0, <4>0, <4>1, <5>1, <5>2, FitPart DEF SamplesOf
        <5>4. SamplesOf(left, c) = Trimmed(table[c])
          BY <1>2, <3>1, <4>1 DEF SamplesOf
        <5> QED BY <5>3, <5>4
      <4>2. CASE c \notin DOMAIN table
        <5>1. SamplesOf(left, c) = SamplesOf(table, c)
          BY <2>1, <4>2 DEF SamplesOf
        <5> QED BY <4>0, <5>1
      <4> QED BY <4>1, <4>2
    <3> QED BY <2>1, <2>3, <3>2 DEF Tells
  <2>5. CASE ~(surplus <= 0)
    <3> DEFINE busy == {c \in Clients : Trimmed(gr[c]) # <<>>}
    <3>1. ASSUME NEW c \in live PROVE c \in busy
      <4>1. gr[c] \in Seq(0 .. now) /\ gr[c] # <<>> /\ FromEnd(gr[c], 0) > now - window
        BY <2>2
      <4>2. Fit(gr[c], Trimmed(gr[c]), now - window) /\ Suffix(gr[c], Trimmed(gr[c]))
        BY <4>1, TrimmedKeeps
      <4>3. 0 < Len(gr[c])
        BY <4>1
      <4>4. 0 < Len(Trimmed(gr[c]))
        BY <4>1, <4>2, <4>3 DEF Fit
      <4> QED BY <2>2, <4>2, <4>4 DEF Suffix
    <3>2. IsFiniteSet(busy) /\ live \subseteq busy
      BY <1>0, <3>1, FS_Subset
    <3>3. Cardinality(live) <= Cardinality(busy) /\ Cardinality(live) \in Nat /\ Cardinality(busy) \in Nat
      BY <3>2, FS_Subset, FS_CardinalityType
    <3>4. Crowd(gr)
      BY <1>0, <2>5, <3>3 DEF Crowd
    <3> QED BY <2>1, <2>3, <3>4
  <2> QED BY <2>4, <2>5
<1>3. left = table \/ \E S \in outs : left = [c \in live \ S |-> Trimmed(table[c])]
  BY DEF _trim_locked
<1> HIDE DEF live, outs
<1> QED BY <1>1, <1>2, <1>3

-----------------------------------------------------------------------------
(* A request: what is noted of the client in the table and in granted.     *)

LEMMA GreaterOf ==
    ASSUME NEW a \in Int, NEW b \in Int
    PROVE  Max({a, b}) \in {a, b} /\ Max({a, b}) >= a /\ Max({a, b}) >= b
<1>1. \E x \in {a, b} : \A y \in {a, b} : x >= y
  <2>1. CASE a >= b
    BY <2>1
  <2>2. CASE ~(a >= b)
    BY <2>2
  <2> QED BY <2>1, <2>2
<1> QED BY <1>1 DEF Max

LEMMA AppendFacts ==
    ASSUME NEW S, NEW s \in Seq(S), NEW x \in S
    PROVE  /\ Append(s, x) \in Seq(S) /\ Len(Append(s, x)) = Len(s) + 1
           /\ FromEnd(Append(s, x), 0) = x
           /\ \A k \in Nat : 0 < k /\ k <= Len(s) => FromEnd(Append(s, x), k) = FromEnd(s, k - 1)
           /\ \A i \in 1 .. Len(s) : Append(s, x)[i] = s[i]
<1>1. Len(s) \in Nat /\ Append(s, x) \in Seq(S) /\ Len(Append(s, x)) = Len(s) + 1
      /\ Append(s, x)[Len(s) + 1] = x /\ \A i \in 1 .. Len(s) : Append(s, x)[i] = s[i]
  OBVIOUS
<1>2. ASSUME NEW k \in Nat, 0 < k, k <= Len(s)
      PROVE  FromEnd(Append(s, x), k) = FromEnd(s, k - 1)
  <2>1. Len(s) + 1 - k \in 1 .. Len(s) /\ Len(s) - (k - 1) = Len(s) + 1 - k
    BY <1>1, <1>2
  <2> HIDE <1>2
  <2> QED BY <1>1, <2>1 DEF FromEnd
<1>3. Len(s) + 1 - 0 = Len(s) + 1
  BY <1>1
<1> QED BY <1>1, <1>2, <1>3 DEF FromEnd

LEMMA NewestKeeps ==
    ASSUME NEW S, NEW s \in Seq(S), Len(s) > 0
    PROVE  /\ Newest(s) \in Seq(S) /\ Len(Newest(s)) \in 1 .. max_requests + 1
           /\ Len(Newest(s)) <= Len(s)
           /\ \A k \in Nat : k < Len(Newest(s)) => FromEnd(Newest(s), k) = FromEnd(s, k)
<1> DEFINE m == Max({1, Len(s) - max_requests})
           t == SubSeq(s, m, Len(s))
<1>1. max_requests \in Nat /\ max_requests > 0 /\ Len(s) \in Nat
  BY LimiterAssumption
<1>2. m \in 1 .. Len(s) /\ m >= Len(s) - max_requests
  <2> HIDE DEF m
  <2>1. m \in {1, Len(s) - max_requests} /\ m >= 1 /\ m >= Len(s) - max_requests
    <3>1. 1 \in Int /\ Len(s) - max_requests \in Int
      BY <1>1
    <3> QED BY <3>1, GreaterOf DEF m
  <2> QED BY <1>1, <2>1
<1> HIDE DEF m
<1>3. /\ t \in Seq(S) /\ Len(t) = Len(s) - m + 1
      /\ \A i \in 1 .. Len(s) - m + 1 : t[i] = s[m + i - 1]
  BY <1>1, <1>2, SubSeqFacts
<1>4. Newest(s) = t
  BY DEF Newest, m
<1> HIDE DEF t
<1>5. ASSUME NEW k \in Nat, k < Len(t) PROVE FromEnd(t, k) = FromEnd(s, k)
  <2>1. Len(t) - k \in 1 .. Len(s) - m + 1 /\ m + (Len(t) - k) - 1 = Len(s) - k
    BY <1>1, <1>2, <1>3, <1>5
  <2> QED BY <1>3, <2>1 DEF FromEnd
<1> QED BY <1>1, <1>2, <1>3, <1>4, <1>5

\* One more sample of a client that is let through.
LEMMA Noted ==
    ASSUME now \in Nat, NEW s, Sampled(s), Len(s) < max_requests, NEW g \in Seq(0 .. now),
           NEW at \in Int, now - window <= at, Fit(g, s, at)
    PROVE  LET s1 == Append(s, now)
               g1 == Newest(Append(Trimmed(g), now))
           IN /\ Sampled(s1) /\ s1 # <<>>
              /\ g1 \in Seq(0 .. now) /\ Len(g1) <= max_requests + 1
              /\ g1 # <<>> /\ FromEnd(g1, 0) = FromEnd(s1, 0)
              /\ Fit(g1, s1, at)
<1> DEFINE t == Trimmed(g)
           g0 == Append(t, now)
           s1 == Append(s, now)
           g1 == Newest(g0)
<1>1. max_requests \in Nat /\ now \in 0 .. now /\ s \in Seq(0 .. now)
  BY LimiterAssumption DEF Sampled
<1>2. Suffix(g, t)
  BY TrimmedKeeps
<1>3. t \in Seq(0 .. now) /\ Len(t) <= Len(g)
  BY <1>2 DEF Suffix
<1> HIDE DEF t
<1>4. /\ g0 \in Seq(0 .. now) /\ Len(g0) = Len(t) + 1 /\ FromEnd(g0, 0) = now
      /\ \A k \in Nat : 0 < k /\ k <= Len(t) => FromEnd(g0, k) = FromEnd(t, k - 1)
  BY <1>1, <1>3, AppendFacts
<1> HIDE DEF g0
<1>5. /\ g1 \in Seq(0 .. now) /\ Len(g1) \in 1 .. max_requests + 1 /\ Len(g1) <= Len(g0)
      /\ \A k \in Nat : k < Len(g1) => FromEnd(g1, k) = FromEnd(g0, k)
  <2>1. Len(t) \in Nat /\ Len(g0) > 0
    BY <1>3, <1>4
  <2> QED BY <1>4, <2>1, NewestKeeps
<1> HIDE DEF g1
<1>6. /\ s1 \in Seq(0 .. now) /\ Len(s1) = Len(s) + 1 /\ FromEnd(s1, 0) = now
      /\ \A k \in Nat : 0 < k /\ k <= Len(s) => FromEnd(s1, k) = FromEnd(s, k - 1)
  BY <1>1, AppendFacts
<1> HIDE DEF s1
<1>7. Len(s) \in Nat /\ Len(t) \in Nat /\ Len(g) \in Nat
  BY <1>1, <1>3
<1>8. g1 # <<>> /\ FromEnd(g1, 0) = now /\ s1 # <<>>
  <2>1. 0 < Len(g1) /\ 0 < Len(s1)
    BY <1>5, <1>6, <1>7
  <2> QED BY <1>4, <1>5, <2>1
<1>9. Sampled(s1)
  <2>1. \A i \in 1 .. Len(s1) : s1[i] <= now
    BY <1>6
  <2>2. Len(s1) <= max_requests
    BY <1>1, <1>6, <1>7
  <2> QED BY <1>6, <2>1, <2>2 DEF Sampled
<1>10. Fit(g1, s1, at)
  <2> SUFFICES ASSUME NEW k \in Nat, k < Len(g1), FromEnd(g1, k) > at
               PROVE  k < Len(s1) /\ FromEnd(s1, k) = FromEnd(g1, k)
    BY DEF Fit
  <2>1. CASE k = 0
    BY <1>6, <1>7, <1>8, <2>1
  <2>2. CASE k > 0
    <3>1. k - 1 \in Nat /\ k - 1 < Len(t) /\ k - 1 < Len(g)
      <4>1. Len(g1) \in Int /\ Len(g1) <= Len(t) + 1
        BY <1>1, <1>4, <1>5
      <4> QED BY <1>3, <1>7, <2>2, <4>1
    <3>2. FromEnd(g1, k) = FromEnd(g0, k) /\ FromEnd(g0, k) = FromEnd(t, k - 1)
      BY <1>4, <1>5, <1>7, <2>2, <3>1
    <3>3. FromEnd(t, k - 1) = FromEnd(g, k - 1)
      BY <1>2, <3>1 DEF Suffix
    <3>4. k - 1 < Len(s) /\ FromEnd(s, k - 1) = FromEnd(g, k - 1)
      BY <3>1, <3>2, <3>3 DEF Fit
    <3>5. FromEnd(s1, k) = FromEnd(s, k - 1)
      BY <1>6, <1>7, <2>2, <3>4
    <3> QED BY <1>6, <1>7, <3>2, <3>3, <3>4, <3>5
  <2> QED BY <2>1, <2>2
<1> QED BY <1>5, <1>6, <1>8, <1>9, <1>10 DEF g1, g0, s1, t

-----------------------------------------------------------------------------
(* The invariant.                                                          *)

Horizon == Max({crowded, now - window})

\* A client that was blocked is told when its oldest sample leaves the window.
BlockedUntil(table, ans) ==
    \A c \in DOMAIN table :
        ans[c] # Allowed /\ Len(table[c]) = max_requests
        => table[c][1] + window <= ans[c].at + ans[c].after * Second + (Second - 1)

Limited ==
    /\ now \in Nat /\ crowded \in Int /\ crowded <= now
    /\ granted \in [Clients -> Seq(0 .. now)]
    /\ \A c \in Clients : Len(granted[c]) <= max_requests + 1
    /\ reply \in [Clients -> [at : Int, after : Int]]
    /\ KnownOf(events, granted)
    /\ Tells(events, granted, Horizon)
    /\ BlockedUntil(events, reply)

LEMMA HorizonIs ==
    ASSUME now \in Nat, crowded \in Int
    PROVE  Horizon \in Int /\ Horizon >= crowded /\ Horizon >= now - window
           /\ Horizon \in {crowded, now - window}
<1>1. crowded \in Int /\ now - window \in Int
  BY LimiterAssumption
<1>2. Max({crowded, now - window}) \in {crowded, now - window} /\ Max({crowded, now - window}) >= crowded
      /\ Max({crowded, now - window}) >= now - window
  BY <1>1, GreaterOf
<1> QED BY <1>1, <1>2 DEF Horizon

LEMMA LimitedInit == LimiterInit => Limited
<1> SUFFICES ASSUME LimiterInit PROVE Limited
  OBVIOUS
<1>0. window \in Nat /\ max_requests \in Nat
  BY LimiterAssumption
<1>1. now \in Nat /\ crowded \in Int /\ crowded <= now
  BY <1>0 DEF LimiterInit, Never
<1>2. granted \in [Clients -> Seq(0 .. now)] /\ \A c \in Clients : granted[c] = <<>> /\ Len(granted[c]) = 0
  BY DEF LimiterInit
<1>3. reply \in [Clients -> [at : Int, after : Int]]
  BY <1>0 DEF LimiterInit, Allowed, Never
<1>4. DOMAIN events = {}
  BY DEF LimiterInit
<1>5. KnownOf(events, granted) /\ BlockedUntil(events, reply)
  BY <1>4 DEF KnownOf, BlockedUntil
<1>6. Tells(events, granted, Horizon)
  BY <1>2 DEF Tells, Fit
<1> QED BY <1>0, <1>1, <1>2, <1>3, <1>5, <1>6 DEF Limited

LEMMA LimitedBounds == Limited => WindowBound
<1> SUFFICES ASSUME Limited, NEW c \in Clients, Len(Trimmed(granted[c])) > max_requests,
                    ~(crowded > now - window)
             PROVE  FALSE
  BY DEF WindowBound
<1>0. window \in Nat /\ max_requests \in Nat /\ now \in Nat /\ crowded \in Int
  BY LimiterAssumption DEF Limited
<1>1. Horizon = now - window
  BY <1>0, HorizonIs
<1> DEFINE g == granted[c]
           t == Trimmed(g)
           s == SamplesOf(events, c)
<1>2. g \in Seq(0 .. now) /\ Len(g) <= max_requests + 1 /\ Fit(g, s, now - window)
  BY <1>1 DEF Limited, Tells
<1>3. Suffix(g, t) /\ (t # <<>> => t[1] > now - window)
  BY <1>0, <1>2, TrimmedKeeps
<1>4. Len(t) > max_requests
  OBVIOUS
<1> HIDE DEF g, t
<1>5. t \in Seq(0 .. now) /\ Len(t) = max_requests + 1 /\ Len(g) = max_requests + 1 /\ t # <<>>
  BY <1>0, <1>2, <1>3, <1>4 DEF Suffix
<1>6. FromEnd(t, max_requests) > now - window
  <2>1. Len(t) - max_requests = 1
    BY <1>0, <1>5
  <2> QED BY <1>3, <1>5, <2>1 DEF FromEnd
<1>7. FromEnd(g, max_requests) > now - window
  BY <1>0, <1>3, <1>5, <1>6 DEF Suffix
<1>8. max_requests < Len(s)
  BY <1>0, <1>2, <1>5, <1>7 DEF Fit
<1>9. Len(s) <= max_requests
  <2>1. CASE c \in DOMAIN events
    BY <2>1 DEF Limited, KnownOf, Sampled, SamplesOf
  <2>2. CASE c \notin DOMAIN events
    BY <1>0, <2>2 DEF SamplesOf
  <2> QED BY <2>1, <2>2
<1>10. Len(s) \in Nat
  <2>1. CASE c \in DOMAIN events
    BY <2>1 DEF Limited, KnownOf, Sampled, SamplesOf
  <2>2. CASE c \notin DOMAIN events
    BY <1>0, <2>2 DEF SamplesOf
  <2> QED BY <2>1, <2>2
<1> QED BY <1>0, <1>8, <1>9, <1>10

\* The clock alone changes nothing.
LEMMA LimitedTick ==
    ASSUME Limited, Tick
    PROVE  Limited'
<1>0. window \in Nat /\ max_requests \in Nat /\ now \in Nat /\ crowded \in Int /\ now' = now + 1
  BY LimiterAssumption DEF Limited, Tick
<1>1. UNCHANGED <<events, last_seen, reply, granted, crowded>>
  BY DEF Tick
<1>2. 0 .. now \subseteq 0 .. now'
  BY <1>0
<1>3. \A s \in Seq(0 .. now) : s \in Seq(0 .. now')
  <2> SUFFICES ASSUME NEW s \in Seq(0 .. now) PROVE s \in Seq(0 .. now')
    OBVIOUS
  <2> QED BY <1>2, SeqMonotonic
<1>4. granted' \in [Clients -> Seq(0 .. now')]
  BY <1>1, <1>3 DEF Limited
<1>5. KnownOf(events, granted)'
  BY <1>1, <1>3 DEF Limited, KnownOf, Sampled
<1>6. Horizon \in Int /\ Horizon' \in Int /\ Horizon <= Horizon'
  <2>1. Horizon' = Max({crowded, now + 1 - window})
    BY <1>0, <1>1 DEF Horizon
  <2>2. now + 1 - window \in Int
    BY <1>0
  <2>3. /\ Max({crowded, now + 1 - window}) \in {crowded, now + 1 - window}
        /\ Max({crowded, now + 1 - window}) >= crowded
        /\ Max({crowded, now + 1 - window}) >= now + 1 - window
    BY <1>0, <2>2, GreaterOf
  <2> QED BY <1>0, <2>1, <2>2, <2>3, HorizonIs
<1>7. Tells(events, granted, Horizon)'
  <2> SUFFICES ASSUME NEW c \in Clients PROVE Fit(granted[c], SamplesOf(events, c), Horizon')
    BY <1>1 DEF Tells, SamplesOf, Fit, FromEnd
  <2>1. Fit(granted[c], SamplesOf(events, c), Horizon) /\ granted[c] \in Seq(Int)
    BY DEF Limited, Tells
  <2> QED BY <1>6, <2>1, FitLater
<1>8. BlockedUntil(events, reply)'
  BY <1>1 DEF Limited, BlockedUntil
<1> QED BY <1>0, <1>1, <1>4, <1>5, <1>7, <1>8 DEF Limited

-----------------------------------------------------------------------------
(* A request against the limit.                                            *)

InForce(c) == IF c \in DOMAIN events THEN Trimmed(events[c]) ELSE <<>>
AtLimit(c) == Len(InForce(c)) >= max_requests
Asked(c) == [d \in DOMAIN events \cup {c} |->
                IF d # c THEN events[d] ELSE IF AtLimit(c) THEN InForce(c) ELSE Append(InForce(c), now)]

LEMMA SamplesIn ==
    ASSUME Limited, NEW c \in Clients
    PROVE  /\ Sampled(InForce(c)) /\ granted[c] \in Seq(0 .. now)
           /\ Fit(granted[c], InForce(c), Horizon)
           /\ InForce(c) # <<>> => granted[c] # <<>> /\ FromEnd(granted[c], 0) = FromEnd(InForce(c), 0)
           /\ AtLimit(c) => c \in DOMAIN events /\ InForce(c) = events[c] /\ InForce(c) # <<>>
                         /\ Len(events[c]) = max_requests /\ InForce(c)[1] \in Int
                         /\ InForce(c)[1] > now - window
<1>0. now \in Nat /\ window \in Nat /\ max_requests \in Nat \ {0} /\ granted[c] \in Seq(0 .. now)
  BY LimiterAssumption DEF Limited
<1>1. Horizon \in Int /\ now - window <= Horizon
  BY HorizonIs DEF Limited
<1>2. Fit(granted[c], SamplesOf(events, c), Horizon)
  BY DEF Limited, Tells
<1>3. CASE c \notin DOMAIN events
  <2>1. InForce(c) = <<>> /\ ~AtLimit(c)
    BY <1>0, <1>3 DEF InForce, AtLimit
  <2>2. Sampled(InForce(c))
    BY <1>0, <2>1 DEF Sampled
  <2> QED BY <1>0, <1>2, <1>3, <2>1, <2>2 DEF SamplesOf
<1>4. CASE c \in DOMAIN events
  <2> DEFINE s == events[c]
             t == Trimmed(s)
  <2>1. InForce(c) = t /\ SamplesOf(events, c) = s
    BY <1>4 DEF InForce, SamplesOf
  <2>2. Sampled(s) /\ (s # <<>> => granted[c] # <<>> /\ FromEnd(granted[c], 0) = FromEnd(s, 0))
    BY <1>4 DEF Limited, KnownOf
  <2>3. s \in Seq(0 .. now) /\ Len(s) <= max_requests
    BY <2>2 DEF Sampled
  <2>4. /\ Suffix(s, t) /\ Fit(s, t, now - window)
        /\ (t # <<>> => t[1] > now - window) /\ (Len(t) = Len(s) => t = s)
    BY <1>0, <2>3, TrimmedKeeps
  <2>5. Sampled(t) /\ (t # <<>> => s # <<>> /\ FromEnd(t, 0) = FromEnd(s, 0))
    BY <1>0, <2>2, PartSampled
  <2> HIDE DEF s, t
  <2>6. Fit(granted[c], t, Horizon)
    <3>1. s \in Seq(Int) /\ granted[c] \in Seq(Int)
      <4>1. 0 .. now \subseteq Int
        OBVIOUS
      <4> QED BY <1>0, <2>3, <4>1, SeqMonotonic
    <3> QED BY <1>0, <1>1, <1>2, <2>1, <2>4, <3>1, FitPart
  <2>7. AtLimit(c) => t = s /\ Len(s) = max_requests /\ t # <<>> /\ t[1] \in Int
    <3> SUFFICES ASSUME AtLimit(c) PROVE t = s /\ Len(s) = max_requests /\ t # <<>> /\ t[1] \in Int
      OBVIOUS
    <3>1. Len(t) >= max_requests /\ Len(t) \in Nat /\ Len(t) <= Len(s)
      BY <2>1, <2>4 DEF AtLimit, Suffix
    <3>2. Len(t) = Len(s) /\ Len(s) = max_requests
      BY <1>0, <2>3, <3>1
    <3>3. t = s /\ 1 \in 1 .. Len(s)
      BY <1>0, <2>4, <3>2
    <3> QED BY <1>0, <2>3, <3>2, <3>3
  <2> QED BY <1>0, <1>4, <2>1, <2>2, <2>4, <2>5, <2>6, <2>7 DEF s
<1> QED BY <1>3, <1>4

\* The table and what was granted, before clients leave the table.
LEMMA TableIn ==
    ASSUME Limited, NEW c \in Clients,
           granted' = IF AtLimit(c) THEN granted
                      ELSE [granted EXCEPT ![c] = Newest(Append(Trimmed(@), now))]
    PROVE  /\ granted' \in [Clients -> Seq(0 .. now)]
           /\ \A d \in Clients : Len(granted'[d]) <= max_requests + 1
           /\ KnownOf(Asked(c), granted')
           /\ Tells(Asked(c), granted', Horizon)
<1>0. now \in Nat /\ window \in Nat /\ max_requests \in Nat \ {0}
      /\ granted \in [Clients -> Seq(0 .. now)]
  BY LimiterAssumption DEF Limited
<1>1. Horizon \in Int /\ now - window <= Horizon
  BY HorizonIs DEF Limited
<1>2. DOMAIN events \subseteq Clients
  BY DEF Limited, KnownOf
<1>3. ASSUME NEW d \in Clients, d # c
      PROVE  /\ granted'[d] = granted[d] /\ granted'[d] \in Seq(0 .. now)
             /\ Len(granted'[d]) <= max_requests + 1
             /\ d \in DOMAIN Asked(c) <=> d \in DOMAIN events
             /\ d \in DOMAIN Asked(c) =>
                  /\ Sampled(Asked(c)[d])
                  /\ Asked(c)[d] # <<>> => granted'[d] # <<>> /\ FromEnd(granted'[d], 0) = FromEnd(Asked(c)[d], 0)
             /\ Fit(granted'[d], SamplesOf(Asked(c), d), Horizon)
  <2>1. granted'[d] = granted[d] /\ granted'[d] \in Seq(0 .. now)
    BY <1>0, <1>3
  <2>2. /\ d \in DOMAIN Asked(c) <=> d \in DOMAIN events
        /\ d \in DOMAIN events => Asked(c)[d] = events[d]
    BY <1>3 DEF Asked
  <2>3. SamplesOf(Asked(c), d) = SamplesOf(events, d)
    BY <2>2 DEF SamplesOf
  <2>4. Len(granted[d]) <= max_requests + 1 /\ Fit(granted[d], SamplesOf(events, d), Horizon)
    BY DEF Limited, Tells
  <2>5. d \in DOMAIN events => /\ Sampled(events[d])
                               /\ events[d] # <<>> => granted[d] # <<>> /\ FromEnd(granted[d], 0) = FromEnd(events[d], 0)
    BY DEF Limited, KnownOf
  <2> QED BY <2>1, <2>2, <2>3, <2>4, <2>5
<1>4. /\ granted'[c] \in Seq(0 .. now) /\ Len(granted'[c]) <= max_requests + 1
      /\ c \in DOMAIN Asked(c)
      /\ Sampled(Asked(c)[c])
      /\ Asked(c)[c] # <<>> => granted'[c] # <<>> /\ FromEnd(granted'[c], 0) = FromEnd(Asked(c)[c], 0)
      /\ Fit(granted'[c], SamplesOf(Asked(c), c), Horizon)
  <2>1. /\ Sampled(InForce(c)) /\ granted[c] \in Seq(0 .. now)
        /\ Fit(granted[c], InForce(c), Horizon)
        /\ InForce(c) # <<>> => granted[c] # <<>> /\ FromEnd(granted[c], 0) = FromEnd(InForce(c), 0)
    BY SamplesIn
  <2>2. c \in DOMAIN Asked(c) /\ SamplesOf(Asked(c), c) = Asked(c)[c]
    BY DEF Asked, SamplesOf
  <2>3. CASE AtLimit(c)
    <3>1. Asked(c)[c] = InForce(c) /\ granted'[c] = granted[c]
      BY <2>3 DEF Asked
    <3>2. Len(granted[c]) <= max_requests + 1
      BY DEF Limited
    <3> QED BY <2>1, <2>2, <3>1, <3>2
  <2>4. CASE ~AtLimit(c)
    <3>1. Asked(c)[c] = Append(InForce(c), now) /\ granted'[c] = Newest(Append(Trimmed(granted[c]), now))
      BY <1>0, <2>4 DEF Asked
    <3>2. Len(InForce(c)) < max_requests
      <4>1. Len(InForce(c)) \in Nat
        BY <2>1 DEF Sampled
      <4> QED BY <1>0, <2>4, <4>1 DEF AtLimit
    <3> QED BY <1>0, <1>1, <2>1, <2>2, <3>1, <3>2, Noted
  <2> QED BY <2>3, <2>4
<1>5. granted' \in [Clients -> Seq(0 .. now)]
  <2>1. DOMAIN granted' = Clients /\ granted' = [d \in Clients |-> granted'[d]]
    BY <1>0
  <2>2. \A d \in Clients : granted'[d] \in Seq(0 .. now)
    BY <1>3, <1>4
  <2> QED BY <2>1, <2>2
<1>6. KnownOf(Asked(c), granted')
  <2>1. DOMAIN Asked(c) \subseteq Clients
    BY <1>2 DEF Asked
  <2> QED BY <1>3, <1>4, <2>1 DEF KnownOf
<1>7. Tells(Asked(c), granted', Horizon)
  BY <1>3, <1>4 DEF Tells
<1>8. \A d \in Clients : Len(granted'[d]) <= max_requests + 1
  BY <1>3, <1>4
<1> QED BY <1>5, <1>6, <1>7, <1>8

\* int() cuts off less than a second.
LEMMA RetryCovers ==
    ASSUME now \in Nat, NEW samples, samples[1] \in Int
    PROVE  /\ retry_after(samples) \in Int
           /\ samples[1] + window <= now + retry_after(samples) * Second + (Second - 1)
<1> DEFINE x == samples[1] + window - now
           q == x \div Second
           r == retry_after(samples)
<1>0. Second \in Nat \ {0} /\ window \in Nat
  BY LimiterAssumption
<1>1. x \in Int
  BY <1>0
<1>2. q \in Int /\ x <= q * Second + (Second - 1)
  <2> HIDE DEF x
  <2> QED BY <1>0, <1>1
<1>3. r \in {1, q} /\ r >= q
  <2>1. 1 \in Int /\ q \in Int
    BY <1>2
  <2> HIDE DEF q
  <2>2. Max({1, q}) \in {1, q} /\ Max({1, q}) >= q
    BY <2>1, GreaterOf
  <2> QED BY <2>2 DEF retry_after, q
<1> HIDE DEF q
<1>4. r \in Int
  BY <1>2, <1>3
<1> HIDE DEF r
<1>5. q * Second <= r * Second
  BY <1>0, <1>2, <1>3, <1>4
<1>6. q * Second \in Int /\ r * Second \in Int
  BY <1>0, <1>2, <1>4
<1>7. x <= r * Second + (Second - 1)
  <2> DEFINE a == q * Second
             b == r * Second
  <2>1. a \in Int /\ b \in Int /\ a <= b /\ x <= a + (Second - 1)
    BY <1>2, <1>5, <1>6
  <2> HIDE DEF a, b, x
  <2>2. x <= b + (Second - 1)
    BY <1>0, <1>1, <2>1
  <2> QED BY <2>2 DEF b
<1>8. samples[1] + window <= now + r * Second + (Second - 1)
  <2> DEFINE b == r * Second
  <2>1. b \in Int /\ samples[1] + window - now <= b + (Second - 1)
    BY <1>6, <1>7
  <2> HIDE DEF b
  <2>2. samples[1] + window <= now + b + (Second - 1)
    BY <1>0, <2>1
  <2> QED BY <2>2 DEF b
<1> QED BY <1>4, <1>8 DEF r

LEMMA LimitedAllow ==
    ASSUME Limited, NEW c \in Clients, allow(c)
    PROVE  Limited'
<1> DEFINE seen == [d \in DOMAIN events \cup {c} |-> IF d = c THEN now ELSE last_seen[d]]
<1>0. now \in Nat /\ window \in Nat /\ max_requests \in Nat \ {0} /\ crowded \in Int /\ crowded <= now
      /\ reply \in [Clients -> [at : Int, after : Int]] /\ IsFiniteSet(Clients)
  BY LimiterAssumption DEF Limited
<1>1. /\ now' = now
      /\ events' \in _trim_locked(Asked(c), seen)
      /\ reply' = [reply EXCEPT ![c] = IF AtLimit(c) THEN [at |-> now, after |-> retry_after(InForce(c))]
                                                  ELSE Allowed]
      /\ granted' = IF AtLimit(c) THEN granted ELSE [granted EXCEPT ![c] = Newest(Append(Trimmed(@), now))]
      /\ crowded' = IF Cardinality(Active') > max_keys THEN now ELSE crowded
  BY DEF allow, Asked, AtLimit, InForce
<1> HIDE DEF seen
<1>2. /\ granted' \in [Clients -> Seq(0 .. now)]
      /\ \A d \in Clients : Len(granted'[d]) <= max_requests + 1
      /\ KnownOf(Asked(c), granted')
      /\ Tells(Asked(c), granted', Horizon)
  BY <1>1, TableIn
<1>3. Horizon \in Int /\ now - window <= Horizon /\ crowded <= Horizon /\ Horizon \in {crowded, now - window}
  BY HorizonIs DEF Limited
<1>4. /\ DOMAIN events' \subseteq DOMAIN Asked(c)
      /\ \A d \in DOMAIN events' : events'[d] \in {Asked(c)[d], Trimmed(Asked(c)[d])}
      /\ KnownOf(events', granted')
      /\ Tells(events', granted', Horizon) \/ Crowd(granted')
  <2> DEFINE table == Asked(c)
             gr == granted'
             left == events'
             at == Horizon
  <2>1. /\ now \in Nat /\ gr \in [Clients -> Seq(0 .. now)] /\ KnownOf(table, gr)
        /\ at \in Int /\ now - window <= at /\ Tells(table, gr, at)
        /\ left \in _trim_locked(table, seen)
    BY <1>0, <1>1, <1>2, <1>3
  <2> HIDE DEF table, gr, left, at
  <2>2. /\ DOMAIN left \subseteq DOMAIN table
        /\ \A d \in DOMAIN left : left[d] \in {table[d], Trimmed(table[d])}
        /\ KnownOf(left, gr)
        /\ Tells(left, gr, at) \/ Crowd(gr)
    BY <2>1, TrimmedTable
  <2> QED BY <2>2 DEF table, gr, left, at
<1>5. reply' \in [Clients -> [at : Int, after : Int]]
  <2>1. Allowed \in [at : Int, after : Int]
    BY <1>0 DEF Allowed, Never
  <2>2. AtLimit(c) => [at |-> now, after |-> retry_after(InForce(c))] \in [at : Int, after : Int]
    BY <1>0, SamplesIn, RetryCovers
  <2> QED BY <1>0, <1>1, <2>1, <2>2
<1>6. crowded' \in Int /\ crowded' <= now' /\ crowded <= crowded' /\ (Crowd(granted') => crowded' = now)
  <2>1. Crowd(granted') => Cardinality(Active') > max_keys
    BY <1>1 DEF Crowd, Active, Trimmed
  <2> QED BY <1>0, <1>1, <2>1
<1>7. Horizon' \in Int /\ Horizon <= Horizon' /\ (Crowd(granted') => Horizon' >= now)
  <2>1. Horizon' = Max({crowded', now - window})
    BY <1>1 DEF Horizon
  <2>2. now - window \in Int
    BY <1>0
  <2>3. /\ Max({crowded', now - window}) \in {crowded', now - window}
        /\ Max({crowded', now - window}) >= crowded'
        /\ Max({crowded', now - window}) >= now - window
    BY <1>6, <2>2, GreaterOf
  <2> QED BY <1>0, <1>3, <1>6, <2>1, <2>2, <2>3
<1>8. Tells(events', granted', Horizon')
  <2> SUFFICES ASSUME NEW d \in Clients PROVE Fit(granted'[d], SamplesOf(events', d), Horizon')
    BY DEF Tells
  <2>1. granted'[d] \in Seq(0 .. now) /\ granted'[d] \in Seq(Int)
    <3>1. 0 .. now \subseteq Int
      OBVIOUS
    <3> QED BY <1>2, <3>1, SeqMonotonic
  <2>2. CASE Tells(events', granted', Horizon)
    <3>1. Fit(granted'[d], SamplesOf(events', d), Horizon)
      BY <2>2 DEF Tells
    <3> QED BY <1>3, <1>7, <2>1, <3>1, FitLater
  <2>3. CASE Crowd(granted')
    <3> SUFFICES ASSUME NEW k \in Nat, k < Len(granted'[d]), FromEnd(granted'[d], k) > Horizon'
                 PROVE  FALSE
      BY DEF Fit
    <3>1. FromEnd(granted'[d], k) \in 0 .. now
      <4>1. Len(granted'[d]) - k \in 1 .. Len(granted'[d])
        BY <2>1
      <4>2. granted'[d][Len(granted'[d]) - k] \in 0 .. now
        BY <2>1, <4>1, ElementOfSeq
      <4> QED BY <4>2 DEF FromEnd
    <3> QED BY <1>0, <1>7, <2>3, <3>1
  <2> QED BY <1>4, <2>2, <2>3
<1>9. KnownOf(events, granted)'
  BY <1>1, <1>4 DEF KnownOf, Sampled, FromEnd
<1>10. Tells(events, granted, Horizon)'
  BY <1>8 DEF Tells, Fit, FromEnd, SamplesOf
<1>11. BlockedUntil(events', reply')
  <2> SUFFICES ASSUME NEW d \in DOMAIN events', reply'[d] # Allowed, Len(events'[d]) = max_requests
               PROVE  events'[d][1] + window <= reply'[d].at + reply'[d].after * Second + (Second - 1)
    BY DEF BlockedUntil
  <2>1. d \in DOMAIN Asked(c) /\ d \in Clients
    BY <1>4 DEF KnownOf
  <2>2. Sampled(Asked(c)[d])
    BY <1>2, <2>1 DEF KnownOf
  <2>3. events'[d] = Asked(c)[d] /\ Len(Asked(c)[d]) = max_requests
    <3>1. Asked(c)[d] \in Seq(0 .. now) /\ Len(Asked(c)[d]) <= max_requests
      BY <2>2 DEF Sampled
    <3>2. /\ Trimmed(Asked(c)[d]) \in Seq(0 .. now) /\ Len(Trimmed(Asked(c)[d])) <= Len(Asked(c)[d])
          /\ Len(Trimmed(Asked(c)[d])) = Len(Asked(c)[d]) => Trimmed(Asked(c)[d]) = Asked(c)[d]
      BY <1>0, <3>1, TrimmedKeeps DEF Suffix
    <3> QED BY <1>0, <1>4, <3>1, <3>2
  <2>4. CASE d = c
    <3>1. AtLimit(c) /\ reply'[c] = [at |-> now, after |-> retry_after(InForce(c))]
      BY <1>0, <1>1, <2>1, <2>4
    <3>2. Asked(c)[c] = InForce(c) /\ InForce(c)[1] \in Int
      BY <3>1, SamplesIn DEF Asked
    <3>3. InForce(c)[1] + window <= now + retry_after(InForce(c)) * Second + (Second - 1)
      BY <1>0, <3>2, RetryCovers
    <3> QED BY <2>3, <2>4, <3>1, <3>2, <3>3
  <2>5. CASE d # c
    <3>1. d \in DOMAIN events /\ Asked(c)[d] = events[d] /\ reply'[d] = reply[d]
      BY <1>0, <1>1, <2>1, <2>5 DEF Asked
    <3> QED BY <2>3, <3>1 DEF Limited, BlockedUntil
  <2> QED BY <2>4, <2>5
<1>12. BlockedUntil(events, reply)'
  BY <1>11 DEF BlockedUntil, Allowed, Never
<1> QED BY <1>0, <1>1, <1>2, <1>5, <1>6, <1>9, <1>10, <1>12 DEF Limited

LEMMA LimitedNext ==
    ASSUME Limited, [LimiterNext]_limiterVars
    PROVE  Limited'
<1>1. CASE UNCHANGED limiterVars
  BY <1>1 DEF limiterVars, Limited, KnownOf, Sampled, Tells, Fit, FromEnd, SamplesOf, BlockedUntil, Allowed, Never, Horizon
<1> QED BY <1>1, LimitedAllow, LimitedTick DEF LimiterNext

\* A client that comes when it was told to finds its oldest sample expired.
LEMMA HonouredNext ==
    ASSUME Limited, [LimiterNext]_limiterVars
    PROVE  [\A c \in Clients :
              /\ reply[c] # Allowed /\ reply'[c] # reply[c]
              /\ now >= reply[c].at + reply[c].after * Second + (Second - 1)
              => reply'[c] = Allowed]_limiterVars
<1> SUFFICES ASSUME NEW d \in Clients, reply[d] # Allowed, reply'[d] # reply[d],
                    now >= reply[d].at + reply[d].after * Second + (Second - 1)
             PROVE  reply'[d] = Allowed
  OBVIOUS
<1>0. now \in Nat /\ window \in Nat /\ reply \in [Clients -> [at : Int, after : Int]] /\ Second \in Nat
  BY LimiterAssumption DEF Limited
<1>1. PICK c \in Clients : allow(c)
  BY DEF LimiterNext, Tick, limiterVars
<1>2. reply' = [reply EXCEPT ![c] = IF AtLimit(c) THEN [at |-> now, after |-> retry_after(InForce(c))]
                                               ELSE Allowed]
  BY <1>1 DEF allow, AtLimit, InForce
<1>3. d = c
  BY <1>0, <1>2
<1>4. CASE AtLimit(c)
  <2>1. /\ c \in DOMAIN events /\ Len(events[c]) = max_requests
        /\ events[c][1] \in Int /\ events[c][1] > now - window
    BY <1>4, SamplesIn
  <2>2. events[c][1] + window <= reply[c].at + reply[c].after * Second + (Second - 1)
    BY <1>3, <2>1 DEF Limited, BlockedUntil
  <2> DEFINE back == reply[c].at + reply[c].after * Second + (Second - 1)
  <2>3. back \in Int
    BY <1>0
  <2>4. now >= back /\ events[c][1] + window <= back
    BY <1>3, <2>2
  <2> HIDE DEF back
  <2> QED BY <1>0, <2>1, <2>3, <2>4
<1>5. CASE ~AtLimit(c)
  BY <1>0, <1>2, <1>3, <1>5
<1> QED BY <1>4, <1>5

(* The bound on the requests of a client holds for any number of clients,  *)
(* any limit, any window and any size of the table.                        *)
THEOREM LimiterBound == LimiterSpec => []WindowBound
<1>1. LimiterSpec => []Limited
  BY LimitedInit, LimitedNext, PTL DEF LimiterSpec
<1> QED BY <1>1, LimitedBounds, PTL

(* A client that comes back when it was told to is let through.            *)
THEOREM LimiterRetry == LimiterSpec => RetryHonoured
<1>1. LimiterSpec => []Limited
  BY LimitedInit, LimitedNext, PTL DEF LimiterSpec
<1> QED BY <1>1, HonouredNext, PTL DEF LimiterSpec, RetryHonoured

-----------------------------------------------------------------------------
(* The options of a type                                                   *)

Windows == OptionWindows \cup {<<FirstDay, LastDay>>}
AllOverlap == \A v, w \in Windows : v[1] <= w[2] /\ w[1] <= v[2]

IsOption(o) ==
    /\ o \in [code : OptionCodes, label : OptionLabels, sort : 1 .. MaxOptions, from : Int, to : Int]
    /\ <<o.from, o.to>> \in Windows

LabelsDiffer(S) ==
    \A a, b \in S : a # b /\ _lookup_windows_overlap(a, b) => a.label # b.label
Numbered(S) == {o.sort : o \in S} = 1 .. Cardinality(S)

\* What may be read as the options of the type.
OptionSet(S) ==
    /\ IsFiniteSet(S) /\ Cardinality(S) <= MaxOptions
    /\ \A o \in S : IsOption(o)

Ordered ==
    /\ OptionSet(options)
    /\ stored \in BOOLEAN /\ cutShort \in BOOLEAN /\ misled \in BOOLEAN
    /\ ~stored => options = {}
    /\ FilledIn = {TRUE} => stored
    /\ ~misled => LabelsDiffer(options)
    /\ ~misled /\ FilledIn = {TRUE} /\ ~cutShort /\ AllOverlap => Numbered(options)

-----------------------------------------------------------------------------
\* The elements of a list whose ranks are their places.
Entries(f, n) == {f[i] : i \in 1 .. n}
Distinct(f, n) == \A i, j \in 1 .. n : i # j => f[i] # f[j]
\* The options that are not in the list.
Apart(base, f, n) == base \ Entries(f, n)
\* The successors of the rows in the base, and those that differ.
Successors(base, before, after, n) ==
    {after[i] : i \in {k \in 1 .. n : before[k] \in base \/ before[k] # after[k]}}

LEMMA NumberedList ==
    ASSUME NEW n \in Nat, NEW f, f = [i \in 1 .. n |-> f[i]], \A i \in 1 .. n : f[i].sort = i
    PROVE  IsFiniteSet(Entries(f, n)) /\ Cardinality(Entries(f, n)) = n /\ Numbered(Entries(f, n))
<1>1. IsFiniteSet(1 .. n) /\ Cardinality(1 .. n) = n
  <2>1. IsFiniteSet(1 .. n) /\ Cardinality(1 .. n) = IF 1 > n THEN 0 ELSE n - 1 + 1
    BY FS_Interval
  <2> QED BY <2>1
<1>2. f \in Surjection(1 .. n, Entries(f, n)) /\ f \in Injection(1 .. n, Entries(f, n))
  BY DEF Surjection, Injection, IsInjective, Entries
<1>3. IsFiniteSet(Entries(f, n)) /\ Cardinality(Entries(f, n)) = n
  BY <1>1, <1>2, FS_Surjection
<1>4. {o.sort : o \in Entries(f, n)} = 1 .. n
  BY DEF Entries
<1> QED BY <1>3, <1>4 DEF Numbered

LEMMA DefaultsOrdered ==
    /\ OptionSet(_default_lookup_option_rows) /\ LabelsDiffer(_default_lookup_option_rows)
    /\ Numbered(_default_lookup_option_rows)
<1> DEFINE n == Len(DefaultOptions)
           f == [i \in 1 .. n |-> Option(DefaultOptions[i][1], DefaultOptions[i][2], i,
                                         <<FirstDay, LastDay>>)]
<1>1. /\ n \in Nat /\ DOMAIN DefaultOptions = 1 .. n /\ n <= MaxOptions
      /\ \A i \in 1 .. n : DefaultOptions[i] \in OptionCodes \X OptionLabels
  BY OptionsAssumption DEF OptionsAssumption
<1>2. \A i \in 1 .. n : f[i].sort = i /\ f[i].label = DefaultOptions[i][2]
  BY DEF Option
<1>3. _default_lookup_option_rows = Entries(f, n)
  BY <1>1 DEF _default_lookup_option_rows, Entries
<1>4. \A i \in 1 .. n : IsOption(f[i])
  <2> SUFFICES ASSUME NEW i \in 1 .. n PROVE IsOption(f[i])
    OBVIOUS
  <2>1. f[i] = [code |-> DefaultOptions[i][1], label |-> DefaultOptions[i][2], sort |-> i,
                from |-> 0, to |-> LastDay]
    BY DEF Option, FirstDay
  <2>2. DefaultOptions[i][1] \in OptionCodes /\ DefaultOptions[i][2] \in OptionLabels
        /\ i \in 1 .. MaxOptions /\ LastDay \in Int
    BY <1>1, OptionsAssumption DEF OptionsAssumption
  <2> QED BY <2>1, <2>2 DEF IsOption, Windows, FirstDay
<1>5. LabelsDiffer(Entries(f, n))
  <2>1. \A i, j \in 1 .. n : i # j => f[i].label # f[j].label
    BY <1>1, <1>2, OptionsAssumption DEF OptionsAssumption
  <2> HIDE DEF f
  <2> QED BY <2>1 DEF LabelsDiffer, Entries
<1>6. IsFiniteSet(Entries(f, n)) /\ Cardinality(Entries(f, n)) = n /\ Numbered(Entries(f, n))
  <2>1. f = [i \in 1 .. n |-> f[i]]
    OBVIOUS
  <2> HIDE DEF f
  <2> QED BY <1>1, <1>2, <2>1, NumberedList
<1>7. \A o \in Entries(f, n) : IsOption(o)
  BY <1>4 DEF Entries
<1> HIDE DEF f
<1> QED BY <1>1, <1>3, <1>5, <1>6, <1>7 DEF OptionSet

LEMMA OrderedStart == OptionsInit => Ordered
<1> SUFFICES ASSUME OptionsInit PROVE Ordered
  OBVIOUS
<1>1. stored \in BOOLEAN /\ cutShort = FALSE /\ misled = FALSE /\ (FilledIn = {TRUE} => stored)
  BY OptionsAssumption DEF OptionsInit, OptionsAssumption
<1>2. CASE stored
  BY <1>1, <1>2, DefaultsOrdered DEF OptionsInit, Ordered
<1>3. CASE ~stored
  <2>1. options = {}
    BY <1>3 DEF OptionsInit
  <2>2. OptionSet({}) /\ LabelsDiffer({})
    BY FS_EmptySet, OptionsAssumption DEF OptionSet, LabelsDiffer, OptionsAssumption
  <2> QED BY <1>1, <1>3, <2>1, <2>2 DEF Ordered
<1> QED BY <1>2, <1>3

\* What the operations are given is a set of options as well.
LEMMA FrameOrdered ==
    ASSUME Ordered, NEW failed \in BOOLEAN
    PROVE  /\ OptionSet(_lookup_versions_frame(failed))
           /\ ~misled => LabelsDiffer(_lookup_versions_frame(failed))
           /\ ~failed => StoredRows \subseteq _lookup_versions_frame(failed)
           /\ StoredRows \subseteq options
BY DefaultsOrdered DEF Ordered, _lookup_versions_frame, StoredRows

\* The rows that are named are rows; all of them, after a read that did not fail.
LEMMA NamedRows ==
    ASSUME NEW rows, NEW failed \in BOOLEAN, NEW named \in Named(rows, failed)
    PROVE  named \subseteq rows /\ (~failed => named = rows)
BY DEF Named

LEMMA FailingIs == Failing \subseteq BOOLEAN
BY DEF Failing

\* The options in a sequence.
LEMMA RankedFacts ==
    ASSUME NEW S, IsFiniteSet(S), NEW ranked \in Ranked(S)
    PROVE  /\ ranked \in Seq(S) /\ Len(ranked) = Cardinality(S)
           /\ Distinct(ranked, Len(ranked))
           /\ \A o \in S : \E i \in 1 .. Len(ranked) : ranked[i] = o
<1> DEFINE n == Cardinality(S)
<1>1. n \in Nat /\ IsFiniteSet(1 .. n) /\ Cardinality(1 .. n) = n
  BY FS_CardinalityType, FS_Interval
<1> HIDE DEF n
<1>2. ranked \in [1 .. n -> S] /\ \A i, j \in 1 .. n : i # j => ranked[i] # ranked[j]
  BY DEF Ranked, SetToSeqs, n
<1>3. ranked \in Injection(1 .. n, S)
  BY <1>2 DEF Injection, IsInjective
<1>4. ranked \in Surjection(1 .. n, S)
  BY <1>1, <1>3, FS_Injection DEF n
<1>5. ranked \in Seq(S) /\ Len(ranked) = n
  BY <1>1, <1>2, SeqDef
<1>6. \A o \in S : \E i \in 1 .. n : ranked[i] = o
  BY <1>4 DEF Surjection
<1> QED BY <1>2, <1>5, <1>6 DEF n, Distinct

\* t is s with e inserted.
Inserted(t, S, s, at, e) ==
    /\ t \in Seq(S \cup {e}) /\ Len(t) = Len(s) + 1
    /\ \A i \in 1 .. at - 1 : t[i] = s[i]
    /\ t[at] = e
    /\ \A i \in at .. Len(s) : t[i + 1] = s[i]

LEMMA InsertFacts ==
    ASSUME NEW S, NEW s \in Seq(S), NEW at \in 1 .. Len(s) + 1, NEW e
    PROVE  Inserted(InsertAt(s, at, e), S, s, at, e)
<1> DEFINE T == S \cup {e}
           a == SubSeq(s, 1, at - 1)
           b == SubSeq(s, at, Len(s))
<1>1. Len(s) \in Nat /\ s \in Seq(T) /\ \A i \in 1 .. Len(s) : s[i] \in T
  <2>1. s \in Seq(T)
    BY SeqMonotonic
  <2> QED BY <2>1
<1>2. a \in Seq(T) /\ Len(a) = at - 1 /\ \A i \in 1 .. at - 1 : a[i] = s[i]
  <2>1. \A i \in 1 .. at - 1 : s[i] \in T
    BY <1>1
  <2>2. /\ a \in Seq(T) /\ Len(a) = IF 1 <= at - 1 THEN at - 1 - 1 + 1 ELSE 0
        /\ \A i \in 1 .. at - 1 - 1 + 1 : a[i] = s[1 + i - 1]
    BY <1>1, <2>1, SubSeqProperties
  <2> QED BY <1>1, <2>2
<1>3. b \in Seq(T) /\ Len(b) = Len(s) - at + 1 /\ \A i \in 1 .. Len(s) - at + 1 : b[i] = s[at + i - 1]
  BY <1>1, SubSeqFacts
<1> HIDE DEF a, b, T
<1>4. e \in T
  BY DEF T
<1> DEFINE c == a \o <<e>>
<1>5. c \in Seq(T) /\ Len(c) = at /\ c[at] = e /\ \A i \in 1 .. at - 1 : c[i] = s[i]
  BY <1>1, <1>2, <1>4
<1> HIDE DEF c
<1>6. /\ c \o b \in Seq(T) /\ Len(c \o b) = Len(c) + Len(b)
      /\ \A i \in 1 .. Len(c) + Len(b) : (c \o b)[i] = IF i <= Len(c) THEN c[i] ELSE b[i - Len(c)]
  BY <1>3, <1>5, ConcatProperties
<1>7. \A i \in 1 .. at : (c \o b)[i] = c[i]
  BY <1>1, <1>3, <1>5, <1>6
<1>8. ASSUME NEW i \in at .. Len(s) PROVE (c \o b)[i + 1] = s[i]
  <2>1. i + 1 - at \in 1 .. Len(s) - at + 1 /\ at + (i + 1 - at) - 1 = i
        /\ i + 1 \in 1 .. Len(c) + Len(b) /\ ~(i + 1 <= Len(c)) /\ i + 1 - Len(c) = i + 1 - at
    BY <1>1, <1>3, <1>5
  <2>2. (c \o b)[i + 1] = b[i + 1 - at]
    <3> DEFINE k == i + 1
    <3>1. k \in 1 .. Len(c) + Len(b) /\ ~(k <= Len(c))
      BY <2>1
    <3> HIDE DEF k
    <3>2. (c \o b)[k] = b[k - Len(c)]
      BY <1>6, <3>1
    <3> QED BY <1>5, <3>2 DEF k
  <2>3. b[i + 1 - at] = s[at + (i + 1 - at) - 1]
    BY <1>3, <2>1
  <2> QED BY <2>1, <2>2, <2>3
<1>9. Len(c \o b) = Len(s) + 1
  BY <1>1, <1>3, <1>5, <1>6
<1>10. (c \o b)[at] = e /\ \A i \in 1 .. at - 1 : (c \o b)[i] = s[i]
  BY <1>1, <1>5, <1>7
<1> QED BY <1>6, <1>8, <1>9, <1>10 DEF InsertAt, Inserted, a, b, c, T

-----------------------------------------------------------------------------
\* The versions before, which differ, and their successors after.
Pairing(pairs, before, after, n) ==
    /\ n \in Nat /\ Len(pairs) = n
    /\ \A i \in 1 .. n : pairs[i][1] = before[i] /\ pairs[i][2] = after[i]
    /\ Distinct(before, n)

LEMMA PairsFacts ==
    ASSUME NEW n \in Nat, NEW before, NEW after, DOMAIN after = 1 .. n, Distinct(before, n)
    PROVE  Pairing([i \in DOMAIN after |-> <<before[i], after[i]>>], before, after, n)
<1> DEFINE pairs == [i \in DOMAIN after |-> <<before[i], after[i]>>]
<1>1. pairs \in Seq({pairs[i] : i \in 1 .. n})
  <2>1. pairs \in [1 .. n -> {pairs[i] : i \in 1 .. n}]
    OBVIOUS
  <2> QED BY <2>1, SeqDef
<1>2. DOMAIN pairs = 1 .. Len(pairs) /\ Len(pairs) \in Nat /\ DOMAIN pairs = 1 .. n
  BY <1>1
<1>3. Len(pairs) = n
  BY <1>2
<1> QED BY <1>3 DEF Pairing

\* A rewrite leaves X of the rows in base, with the successors it has inserted.
\* before and after: what is closed and what is inserted, rank by rank.
Leaves(X, unnamed, base, any, before, after, n) ==
    /\ options' = unnamed \cup X
    /\ X \subseteq base \/ X \subseteq Apart(base, before, n) \cup Entries(after, n)
    /\ any = TRUE => stored' = TRUE
    /\ stored' = TRUE \/ (any = FALSE /\ stored' = FALSE /\ X \subseteq base)
    /\ cutShort \in BOOLEAN => cutShort' \in BOOLEAN
    /\ ~cutShort' =>
          /\ ~cutShort
          /\ X \subseteq Apart(base, before, n) \cup Entries(after, n)
          /\ Apart(base, before, n) \subseteq X
          /\ Successors(base, before, after, n) \subseteq X

LEMMA RewriteKeeps ==
    ASSUME NEW unnamed, NEW base, NEW any \in BOOLEAN, NEW n, NEW before, NEW after, NEW pairs,
           Pairing(pairs, before, after, n), Rewrite(unnamed, base, any, pairs)
    PROVE  \E X : Leaves(X, unnamed, base, any, before, after, n)
<1> DEFINE kept == base \ Entries(before, n)
<1>1. /\ n \in Nat /\ Len(pairs) = n
      /\ \A i \in 1 .. n : pairs[i][1] = before[i] /\ pairs[i][2] = after[i]
      /\ \A i, j \in 1 .. n : i # j => before[i] # before[j]
  BY DEF Pairing, Distinct
<1>4. PICK closed \in 0 .. n, inserted \in 0 .. n :
        /\ inserted > 0 => closed = n
        /\ options' = unnamed \cup Rewritten(base, pairs, closed, inserted)
        /\ stored' = (any \/ Differ(pairs, inserted) # {})
        /\ cutShort' = (cutShort \/ Differ(pairs, inserted) # Differ(pairs, n))
  BY <1>1 DEF Rewrite
<1> DEFINE C == Differ(pairs, closed)
           D == Differ(pairs, inserted)
           X == Rewritten(base, pairs, closed, inserted)
<1>5. \A m \in 0 .. n : Differ(pairs, m) = {i \in 1 .. m : before[i] # after[i]}
  BY <1>1 DEF Differ
<1>6. X = (base \ {before[i] : i \in C}) \cup {after[i] : i \in D}
  <2>1. C \subseteq 1 .. n /\ D \subseteq 1 .. n
    BY <1>1, <1>5
  <2>2. {pairs[i][1] : i \in C} = {before[i] : i \in C} /\ {pairs[i][2] : i \in D} = {after[i] : i \in D}
    BY <1>1, <2>1
  <2> HIDE DEF C, D
  <2> QED BY <2>2 DEF Rewritten, C, D
<1>7. C \subseteq {i \in 1 .. n : before[i] # after[i]} /\ D \subseteq {i \in 1 .. n : before[i] # after[i]}
  BY <1>1, <1>5
<1>8. closed = n => C = {i \in 1 .. n : before[i] # after[i]}
  BY <1>1, <1>5
<1>9. inserted = 0 => D = {}
  BY <1>5
<1>10. stored' = (any \/ D # {}) /\ cutShort' = (cutShort \/ D # {i \in 1 .. n : before[i] # after[i]})
  <2>1. Differ(pairs, n) = {i \in 1 .. n : before[i] # after[i]}
    BY <1>1, <1>5
  <2> QED BY <1>4, <2>1
<1>24. options' = unnamed \cup X
  BY <1>4
<1> HIDE DEF C, D, X
<1>11. D = {} => X \subseteq base
  BY <1>6
<1>12. C = {i \in 1 .. n : before[i] # after[i]} => X \subseteq kept \cup Entries(after, n)
  <2> SUFFICES ASSUME C = {i \in 1 .. n : before[i] # after[i]}, NEW x \in X,
                      x \notin Entries(after, n)
               PROVE  x \in kept
    OBVIOUS
  <2>1. x \in base /\ x \notin {before[i] : i \in C}
    BY <1>6, <1>7 DEF Entries
  <2>2. \A i \in 1 .. n : before[i] = after[i] => x # before[i]
    BY DEF Entries
  <2> QED BY <2>1, <2>2 DEF Entries
<1>13. kept \subseteq X
  BY <1>6, <1>7 DEF Entries
<1>14. ASSUME D = {i \in 1 .. n : before[i] # after[i]}
       PROVE  C = {i \in 1 .. n : before[i] # after[i]}
  <2>1. CASE inserted = 0
    BY <1>7, <1>9, <1>14, <2>1
  <2>2. CASE inserted > 0
    BY <1>4, <1>8, <2>2
  <2> QED BY <2>1, <2>2
<1>15. ASSUME D = {i \in 1 .. n : before[i] # after[i]}, NEW i \in 1 .. n,
              before[i] \in base \/ before[i] # after[i]
       PROVE  after[i] \in X
  <2>1. CASE before[i] # after[i]
    BY <1>6, <1>15, <2>1
  <2>2. CASE before[i] = after[i]
    <3>1. \A j \in C : before[j] # before[i]
      BY <1>1, <1>7, <2>2
    <3> QED BY <1>6, <1>15, <2>2, <3>1
  <2> QED BY <2>1, <2>2
<1>16. X \subseteq base \/ X \subseteq kept \cup Entries(after, n)
  <2>1. CASE inserted = 0
    BY <1>9, <1>11, <2>1
  <2>2. CASE inserted > 0
    BY <1>4, <1>8, <1>12, <2>2
  <2> QED BY <2>1, <2>2
<1>17. any = TRUE => stored' = TRUE
  BY <1>10
<1>18. stored' = TRUE \/ (any = FALSE /\ stored' = FALSE /\ D = {})
  <2>1. CASE any = TRUE \/ D # {}
    <3>1. any \/ D # {}
      BY <2>1
    <3> QED BY <1>10, <3>1
  <2>2. CASE any = FALSE /\ D = {}
    BY <1>10, <2>2
  <2> QED BY <2>1, <2>2
<1>20. D = {i \in 1 .. n : before[i] # after[i]} => Successors(base, before, after, n) \subseteq X
  BY <1>15 DEF Successors
<1>19. /\ cutShort \in BOOLEAN => cutShort' \in BOOLEAN
       /\ ~cutShort' => ~cutShort /\ D = {i \in 1 .. n : before[i] # after[i]}
  BY <1>10
<1> HIDE DEF kept
<1>21. kept = Apart(base, before, n)
  BY DEF kept, Apart
<1>22. stored' = TRUE \/ (any = FALSE /\ stored' = FALSE /\ X \subseteq base)
  BY <1>11, <1>18
<1>23. ASSUME ~cutShort'
       PROVE  /\ ~cutShort
              /\ X \subseteq kept \cup Entries(after, n)
              /\ kept \subseteq X
              /\ Successors(base, before, after, n) \subseteq X
  <2>1. ~cutShort /\ D = {i \in 1 .. n : before[i] # after[i]}
    BY <1>19, <1>23
  <2> QED BY <1>12, <1>13, <1>14, <1>20, <2>1
<1> QED BY <1>16, <1>17, <1>19, <1>21, <1>22, <1>23, <1>24 DEF Leaves

Ranks(f, n) ==
    f = [i \in 1 .. n |-> f[i]] /\ \A i \in 1 .. n : IsOption(f[i]) /\ f[i].sort = i

\* The options as they are after a rewrite of what was read, wherever it stopped.
LEMMA RearrangedStep ==
    ASSUME Ordered, ~misled, ~misled', NEW unnamed, unnamed = {}, NEW base \in SUBSET options, NEW any \in BOOLEAN, ~any => base = {},
           NEW n \in Nat, NEW before, NEW after, NEW pairs,
           Ranks(after, n), Pairing(pairs, before, after, n), Rewrite(unnamed, base, any, pairs),
           LabelsDiffer(Apart(base, before, n) \cup Entries(after, n)),
           Cardinality(Apart(base, before, n)) + n <= MaxOptions,
           AllOverlap => base \subseteq Entries(before, n),
           misled' \in BOOLEAN, FilledIn = {TRUE} => any /\ Entries(after, n) = Successors(base, before, after, n)
    PROVE  Ordered'
<1> DEFINE kept == Apart(base, before, n)
<1>2. /\ options' \subseteq base \/ options' \subseteq kept \cup Entries(after, n)
      /\ any => stored'
      /\ ~stored' => ~any /\ options' \subseteq base
      /\ stored' \in BOOLEAN /\ cutShort' \in BOOLEAN
      /\ ~cutShort' =>
            /\ ~cutShort
            /\ options' \subseteq kept \cup Entries(after, n)
            /\ Successors(base, before, after, n) \subseteq options'
  <2>1. cutShort \in BOOLEAN
    BY DEF Ordered
  <2>2. PICK X : Leaves(X, unnamed, base, any, before, after, n)
    BY RewriteKeeps
  <2>3. Leaves(X, unnamed, base, any, before, after, n)
        <=> /\ options' = unnamed \cup X
            /\ X \subseteq base \/ X \subseteq kept \cup Entries(after, n)
            /\ any = TRUE => stored' = TRUE
            /\ stored' = TRUE \/ (any = FALSE /\ stored' = FALSE /\ X \subseteq base)
            /\ cutShort \in BOOLEAN => cutShort' \in BOOLEAN
            /\ ~cutShort' =>
                  /\ ~cutShort
                  /\ X \subseteq kept \cup Entries(after, n)
                  /\ kept \subseteq X
                  /\ Successors(base, before, after, n) \subseteq X
    BY DEF Leaves
  <2> HIDE DEF kept
  <2>4. options' = X
    BY <2>2, <2>3
  <2> QED BY <2>1, <2>2, <2>3, <2>4
<1>3. /\ IsFiniteSet(base) /\ Cardinality(base) <= MaxOptions /\ Cardinality(base) \in Nat
      /\ \A o \in base : IsOption(o)
      /\ LabelsDiffer(base)
  <2>1. IsFiniteSet(options) /\ Cardinality(options) <= MaxOptions
    BY DEF Ordered, OptionSet
  <2>2. IsFiniteSet(base) /\ Cardinality(base) <= Cardinality(options)
    BY <2>1, FS_Subset
  <2>3. Cardinality(base) \in Nat /\ Cardinality(options) \in Nat /\ MaxOptions \in Nat
    BY <2>1, <2>2, FS_CardinalityType, OptionsAssumption DEF OptionsAssumption
  <2> QED BY <2>1, <2>2, <2>3 DEF Ordered, OptionSet, LabelsDiffer
<1>4. IsFiniteSet(Entries(after, n)) /\ Cardinality(Entries(after, n)) = n /\ Numbered(Entries(after, n))
  BY NumberedList DEF Ranks
<1>5. IsFiniteSet(kept) /\ Cardinality(kept) \in Nat
  BY <1>3, FS_Difference, FS_CardinalityType DEF Apart
<1> DEFINE all == kept \cup Entries(after, n)
<1>6. IsFiniteSet(all) /\ Cardinality(all) <= MaxOptions
  <2>1. /\ IsFiniteSet(all)
        /\ Cardinality(all) = Cardinality(kept) + n - Cardinality(kept \cap Entries(after, n))
    BY <1>4, <1>5, FS_Union
  <2>2. Cardinality(kept \cap Entries(after, n)) \in Nat
    BY <1>5, FS_Intersection, FS_CardinalityType
  <2>3. MaxOptions \in Nat /\ Cardinality(kept) + n <= MaxOptions
    BY OptionsAssumption DEF OptionsAssumption
  <2> HIDE DEF kept, all
  <2> QED BY <1>5, <2>1, <2>2, <2>3
<1>7. OptionSet(all) /\ LabelsDiffer(all)
  <2>1. \A o \in all : IsOption(o)
    BY <1>3 DEF Entries, Apart, Ranks
  <2> QED BY <1>6, <2>1 DEF OptionSet
<1>8. OptionSet(base) /\ LabelsDiffer(base)
  BY <1>3 DEF OptionSet
<1>9. \A S, T : OptionSet(S) /\ LabelsDiffer(S) /\ T \subseteq S => OptionSet(T) /\ LabelsDiffer(T)
  <2> SUFFICES ASSUME NEW S, NEW T, OptionSet(S), LabelsDiffer(S), T \subseteq S
               PROVE  OptionSet(T) /\ LabelsDiffer(T)
    OBVIOUS
  <2>1. IsFiniteSet(S) /\ Cardinality(S) <= MaxOptions /\ MaxOptions \in Nat
    BY OptionsAssumption DEF OptionSet, OptionsAssumption
  <2>2. IsFiniteSet(T) /\ Cardinality(T) <= Cardinality(S)
    BY <2>1, FS_Subset
  <2>3. Cardinality(S) \in Nat /\ Cardinality(T) \in Nat
    BY <2>1, <2>2, FS_CardinalityType
  <2> QED BY <2>1, <2>2, <2>3 DEF OptionSet, LabelsDiffer
<1> HIDE DEF kept
<1>10. OptionSet(options)' /\ LabelsDiffer(options)'
  <2>1. OptionSet(options') /\ LabelsDiffer(options')
    BY <1>2, <1>7, <1>8, <1>9
  <2> QED BY <2>1 DEF OptionSet, LabelsDiffer, IsOption, _lookup_windows_overlap
<1>11. ASSUME FilledIn = {TRUE}, ~cutShort', AllOverlap PROVE Numbered(options)'
  <2>1. kept = {}
    BY <1>11 DEF kept, Apart
  <2>2. options' = Entries(after, n)
    BY <1>2, <1>11, <2>1 DEF Entries, Successors
  <2> QED BY <1>4, <2>2 DEF Numbered
<1>12. ~stored' => options' = {}
  BY <1>2
<1>13. FilledIn = {TRUE} => stored'
  BY <1>2
<1> QED BY <1>2, <1>10, <1>11, <1>12, <1>13 DEF Ordered, AllOverlap, Windows

\* A set of options is finite, of rows.
LEMMA RowsKept ==
    ASSUME NEW S, NEW T, IsFiniteSet(S), \A o \in S : IsOption(o), T \subseteq S,
           Cardinality(T) <= MaxOptions
    PROVE  OptionSet(T)
BY FS_Subset DEF OptionSet

\* The options as they are after a rewrite of the defaults.
LEMMA MisledStep ==
    ASSUME Ordered, misled' = TRUE, NEW unnamed \in SUBSET options, NEW base \in SUBSET options,
           NEW any \in BOOLEAN, ~any => unnamed = {} /\ base = {}, FilledIn = {TRUE} => any,
           NEW n \in Nat, NEW before, NEW after, NEW pairs,
           Ranks(after, n), Pairing(pairs, before, after, n), Rewrite(unnamed, base, any, pairs),
           Cardinality(options') <= MaxOptions
    PROVE  Ordered'
<1>1. PICK X : Leaves(X, unnamed, base, any, before, after, n)
  BY RewriteKeeps
<1> DEFINE all == options \cup Entries(after, n)
<1>2. IsFiniteSet(options) /\ (\A o \in options : IsOption(o)) /\ cutShort \in BOOLEAN
  BY DEF Ordered, OptionSet
<1>3. IsFiniteSet(Entries(after, n)) /\ \A o \in Entries(after, n) : IsOption(o)
  <2>1. IsFiniteSet(Entries(after, n))
    BY NumberedList DEF Ranks
  <2> QED BY <2>1 DEF Ranks, Entries
<1>4. IsFiniteSet(all) /\ \A o \in all : IsOption(o)
  BY <1>2, <1>3, FS_Union
<1>5. options' \subseteq all
  BY <1>1 DEF Leaves, Apart
<1>6. OptionSet(options')
  BY <1>4, <1>5, RowsKept
<1>7. OptionSet(options)'
  BY <1>6 DEF OptionSet, IsOption
<1>8. stored' \in BOOLEAN /\ cutShort' \in BOOLEAN /\ misled' \in BOOLEAN
  BY <1>1, <1>2 DEF Leaves
<1>9. ~stored' => options' = {}
  BY <1>1 DEF Leaves
<1>10. FilledIn = {TRUE} => stored'
  BY <1>1 DEF Leaves
<1> QED BY <1>7, <1>8, <1>9, <1>10 DEF Ordered

\* What becomes of the labels when nothing failed.
LabelsLost == {o.label : o \in options} \ {o.label : o \in options'}

\* All but one have a successor with their label.
Follow(before, after, n, gone) ==
    \A i \in 1 .. n : before[i] # gone => after[i].label = before[i].label

LEMMA LabelsStay ==
    ASSUME ~cutShort', NEW unnamed, NEW base, NEW any \in BOOLEAN, NEW n, NEW before, NEW after,
           NEW pairs, Pairing(pairs, before, after, n), Rewrite(unnamed, base, any, pairs),
           NEW gone, options \subseteq unnamed \cup base \cup {gone},
           Follow(before, after, n, gone)
    PROVE  Cardinality(LabelsLost) <= 1
<1>1. PICK X : Leaves(X, unnamed, base, any, before, after, n)
  BY RewriteKeeps
<1>2. \A o \in options : o # gone => \E q \in options' : q.label = o.label
  <2> SUFFICES ASSUME NEW o \in options, o # gone PROVE \E q \in options' : q.label = o.label
    OBVIOUS
  <2>3. CASE o \in unnamed
    BY <1>1, <2>3 DEF Leaves
  <2>1. CASE o \in base /\ \E i \in 1 .. n : before[i] = o
    <3>1. PICK i \in 1 .. n : before[i] = o
      BY <2>1
    <3>2. after[i] \in options' /\ after[i].label = o.label
      BY <1>1, <2>1, <3>1 DEF Leaves, Successors, Follow
    <3> QED BY <3>2
  <2>2. CASE o \in base /\ \A i \in 1 .. n : before[i] # o
    BY <1>1, <2>2 DEF Leaves, Apart, Entries
  <2> QED BY <2>1, <2>2, <2>3
<1>4. LabelsLost \subseteq {gone.label}
  BY <1>2 DEF LabelsLost
<1>5. IsFiniteSet({gone.label}) /\ Cardinality({gone.label}) = 1
  BY FS_Singleton
<1>6. IsFiniteSet(LabelsLost) /\ Cardinality(LabelsLost) <= Cardinality({gone.label})
  BY <1>4, <1>5, FS_Subset
<1> QED BY <1>5, <1>6

\* A row whose rank is yet to be settled.
IsOptionRow(o) ==
    /\ o \in [code : OptionCodes, label : OptionLabels, sort : Int, from : Int, to : Int]
    /\ <<o.from, o.to>> \in Windows

LEMMA OptionIsRow ==
    ASSUME NEW o, IsOption(o)
    PROVE  IsOptionRow(o) /\ o # NoOption
<1>1. o \in [code : OptionCodes, label : OptionLabels, sort : 1 .. MaxOptions, from : Int, to : Int]
      /\ <<o.from, o.to>> \in Windows
  BY DEF IsOption
<1>2. 1 .. MaxOptions \subseteq Int
  BY OptionsAssumption DEF OptionsAssumption
<1>3. o # NoOption
  <2>1. DOMAIN o = {"code", "label", "sort", "from", "to"}
    BY <1>1
  <2>2. DOMAIN NoOption = {"code"}
    BY DEF NoOption
  <2> QED BY <2>1, <2>2
<1> QED BY <1>1, <1>2, <1>3 DEF IsOptionRow

\* A rank changes nothing else.
Alike(a, b) == a.label = b.label /\ a.from = b.from /\ a.to = b.to

LEMMA RankGiven ==
    ASSUME NEW n \in Nat, n <= MaxOptions, NEW S, NEW rows \in Seq(S), Len(rows) = n,
           \A o \in S : IsOptionRow(o)
    PROVE  /\ Ranks(Renumbered(rows), n)
           /\ \A i \in 1 .. n : Alike(Renumbered(rows)[i], rows[i])
<1>1. DOMAIN rows = 1 .. n /\ \A i \in 1 .. n : rows[i] \in S
  OBVIOUS
<1>2. Renumbered(rows) = [i \in 1 .. n |-> [rows[i] EXCEPT !.sort = i]]
  BY <1>1 DEF Renumbered
<1>3. ASSUME NEW i \in 1 .. n
      PROVE  LET o == [rows[i] EXCEPT !.sort = i]
             IN IsOption(o) /\ o.sort = i /\ Alike(o, rows[i])
  <2> DEFINE o == [rows[i] EXCEPT !.sort = i]
  <2>1. rows[i] \in [code : OptionCodes, label : OptionLabels, sort : Int, from : Int, to : Int]
        /\ <<rows[i].from, rows[i].to>> \in Windows
    BY <1>1 DEF IsOptionRow
  <2>2. i \in 1 .. MaxOptions
    BY OptionsAssumption DEF OptionsAssumption
  <2>3. o.sort = i /\ o.label = rows[i].label /\ o.from = rows[i].from /\ o.to = rows[i].to
    BY <2>1
  <2>4. o \in [code : OptionCodes, label : OptionLabels, sort : 1 .. MaxOptions, from : Int, to : Int]
    BY <2>1, <2>2
  <2> QED BY <2>1, <2>3, <2>4 DEF IsOption, Alike
<1> QED BY <1>2, <1>3 DEF Ranks

LEMMA RelabelledDiffer ==
    ASSUME NEW R, LabelsDiffer(R), NEW kept \in SUBSET R, NEW n \in Nat, NEW rows, NEW after,
           \A i \in 1 .. n : rows[i] \in R \ kept /\ Alike(after[i], rows[i]),
           Distinct(rows, n)
    PROVE  LabelsDiffer(kept \cup Entries(after, n))
<1> SUFFICES ASSUME NEW a \in kept \cup Entries(after, n), NEW b \in kept \cup Entries(after, n),
                    a # b, _lookup_windows_overlap(a, b)
             PROVE  a.label # b.label
  BY DEF LabelsDiffer
<1>1. \A x \in kept \cup Entries(after, n) :
        \/ x \in kept
        \/ \E i \in 1 .. n : x = after[i]
  BY DEF Entries
<1>2. \E p, q \in R : p # q /\ Alike(a, p) /\ Alike(b, q)
  <2>1. CASE a \in kept /\ b \in kept
    BY <2>1 DEF Alike
  <2>2. CASE a \in kept /\ \E j \in 1 .. n : b = after[j]
    BY <2>2 DEF Alike
  <2>3. CASE b \in kept /\ \E i \in 1 .. n : a = after[i]
    BY <2>3 DEF Alike
  <2>4. CASE (\E i \in 1 .. n : a = after[i]) /\ (\E j \in 1 .. n : b = after[j])
    BY <2>4 DEF Distinct
  <2> QED BY <1>1, <2>1, <2>2, <2>3, <2>4
<1> QED BY <1>2 DEF LabelsDiffer, Alike, _lookup_windows_overlap

LEMMA PartOf ==
    ASSUME NEW S, OptionSet(S), NEW T \in SUBSET S
    PROVE  /\ OptionSet(T) /\ Cardinality(T) <= Cardinality(S) /\ Cardinality(T) \in Nat
           /\ LabelsDiffer(S) => LabelsDiffer(T)
<1>1. IsFiniteSet(S) /\ Cardinality(S) <= MaxOptions /\ MaxOptions \in Nat
  BY OptionsAssumption DEF OptionSet, OptionsAssumption
<1>2. IsFiniteSet(T) /\ Cardinality(T) <= Cardinality(S)
  BY <1>1, FS_Subset
<1>3. Cardinality(S) \in Nat /\ Cardinality(T) \in Nat
  BY <1>1, <1>2, FS_CardinalityType
<1> QED BY <1>1, <1>2, <1>3 DEF OptionSet, LabelsDiffer

LEMMA DeleteStep ==
    ASSUME Ordered, NEW target, NEW failed \in BOOLEAN, delete_lookup_option(target, failed)
    PROVE  Ordered' /\ (stored /\ ~cutShort' => Cardinality(LabelsLost) <= 1)
<1>1. PICK closed \in Named(StoredRows, failed) :
        LET rest == StoredRows \ (closed \cap {target})
        IN \/ /\ Faults
              /\ options' = rest /\ cutShort' = TRUE /\ misled' = (misled \/ failed)
              /\ UNCHANGED stored
           \/ \E again \in Failing : \E named \in Named(rest, again) :
                LET frame == IF again THEN _default_lookup_option_rows ELSE rest
                    overlapping == {o \in frame : _lookup_windows_overlap(target, o)}
                IN /\ \E ranked \in Ranked(overlapping) :
                        LET after == Renumbered(ranked)
                        IN Rewrite(rest \ named, named, TRUE,
                                   [i \in DOMAIN after |-> <<ranked[i], after[i]>>])
                   /\ misled' = (misled \/ failed \/ again)
  BY DEF delete_lookup_option
<1> DEFINE rest == StoredRows \ (closed \cap {target})
<1>2. /\ OptionSet(options) /\ stored \in BOOLEAN /\ cutShort \in BOOLEAN /\ misled \in BOOLEAN
      /\ rest \subseteq options /\ (stored => options \subseteq rest \cup {target})
      /\ ~failed => target \notin rest
      /\ ~stored => rest = {}
  BY NamedRows DEF Ordered, StoredRows
<1>3. OptionSet(rest) /\ (~misled => LabelsDiffer(rest))
  BY <1>2, PartOf DEF Ordered
<1> HIDE DEF rest
<1>4. CASE /\ options' = rest /\ cutShort' = TRUE /\ misled' = (misled \/ failed)
           /\ UNCHANGED stored
  <2>1. OptionSet(options') /\ (~misled => LabelsDiffer(options'))
    BY <1>3, <1>4
  <2>2. OptionSet(options)' /\ (~misled => LabelsDiffer(options)')
    BY <2>1 DEF OptionSet, LabelsDiffer, IsOption, _lookup_windows_overlap
  <2>3. misled' \in BOOLEAN /\ (~misled' => ~misled)
    BY <1>2, <1>4
  <2> QED BY <1>2, <1>4, <2>2, <2>3 DEF Ordered
<1>5. ASSUME NEW again \in Failing, NEW named \in Named(rest, again),
             \E ranked \in Ranked({o \in IF again THEN _default_lookup_option_rows ELSE rest :
                                      _lookup_windows_overlap(target, o)}) :
               LET after == Renumbered(ranked)
               IN Rewrite(rest \ named, named, TRUE,
                          [i \in DOMAIN after |-> <<ranked[i], after[i]>>]),
             misled' = (misled \/ failed \/ again)
      PROVE  Ordered' /\ (stored /\ ~cutShort' => Cardinality(LabelsLost) <= 1)
  <2> DEFINE frame == IF again THEN _default_lookup_option_rows ELSE rest
             overlapping == {o \in frame : _lookup_windows_overlap(target, o)}
  <2>1. PICK ranked \in Ranked(overlapping) :
          LET after == Renumbered(ranked)
          IN Rewrite(rest \ named, named, TRUE, [i \in DOMAIN after |-> <<ranked[i], after[i]>>])
    BY <1>5
  <2> DEFINE after == Renumbered(ranked)
             n == Len(ranked)
             pairs == [i \in DOMAIN after |-> <<ranked[i], after[i]>>]
             kept == Apart(rest, ranked, n)
             unnamed == rest \ named
  <2>2. Rewrite(unnamed, named, TRUE, pairs)
    BY <2>1
  <2>3. /\ again \in BOOLEAN /\ named \subseteq rest /\ (~again => named = rest)
        /\ OptionSet(frame) /\ OptionSet(overlapping)
    <3>1. again \in BOOLEAN
      BY FailingIs
    <3>2. OptionSet(frame)
      BY <1>3, <3>1, DefaultsOrdered
    <3>3. OptionSet(overlapping)
      BY <3>2, PartOf
    <3> QED BY <3>1, <3>2, <3>3, NamedRows
  <2>4. /\ ranked \in Seq(overlapping) /\ n = Cardinality(overlapping) /\ n \in Nat
        /\ Distinct(ranked, n)
        /\ \A o \in overlapping : \E i \in 1 .. n : ranked[i] = o
        /\ \A i \in 1 .. n : ranked[i] \in overlapping
    <3>1. IsFiniteSet(overlapping)
      BY <2>3 DEF OptionSet
    <3>2. ranked \in Ranked(overlapping)
      BY <2>1
    <3> HIDE DEF overlapping
    <3>3. /\ ranked \in Seq(overlapping) /\ Len(ranked) = Cardinality(overlapping)
          /\ Distinct(ranked, Len(ranked))
          /\ \A o \in overlapping : \E i \in 1 .. Len(ranked) : ranked[i] = o
      BY <3>1, <3>2, RankedFacts
    <3> QED BY <3>3
  <2>5. n <= MaxOptions
    BY <2>3, <2>4 DEF OptionSet
  <2>6. Entries(ranked, n) = overlapping
    BY <2>4 DEF Entries
  <2> HIDE DEF after, pairs, n
  <2>7. Ranks(after, n) /\ \A i \in 1 .. n : Alike(after[i], ranked[i])
    <3>1. \A o \in overlapping : IsOptionRow(o)
      BY <2>3, OptionIsRow DEF OptionSet
    <3> QED BY <2>4, <2>5, <3>1, RankGiven DEF after, n
  <2>8. DOMAIN after = 1 .. n
    BY <2>7 DEF Ranks
  <2>9. Pairing(pairs, ranked, after, n)
    BY <2>4, <2>8, PairsFacts DEF pairs
  <2>10. ASSUME ~(misled \/ failed \/ again) PROVE Ordered'
    <3>1. /\ ~misled /\ misled' = FALSE /\ frame = rest /\ named = rest /\ unnamed = {}
          /\ rest \in SUBSET options
      BY <1>2, <1>5, <2>3, <2>10
    <3>2. Rewrite(unnamed, rest, TRUE, pairs)
      BY <2>2, <3>1
    <3>3. overlapping \subseteq rest
      BY <3>1
    <3>4. LabelsDiffer(kept \cup Entries(after, n))
      <4>1. \A i \in 1 .. n : ranked[i] \in rest \ kept
        BY <2>4, <2>6, <3>3 DEF Apart
      <4>2. LabelsDiffer(rest) /\ kept \in SUBSET rest
        BY <1>3, <3>1 DEF Apart
      <4> HIDE DEF overlapping, kept, frame
      <4> QED BY <2>4, <2>7, <4>1, <4>2, RelabelledDiffer
    <3>5. Cardinality(kept) + n <= MaxOptions
      <4>1. IsFiniteSet(rest) /\ Cardinality(rest) <= MaxOptions
        BY <1>3 DEF OptionSet
      <4>2. Cardinality(rest \ overlapping) = Cardinality(rest) - Cardinality(rest \cap overlapping)
        BY <4>1, FS_Difference
      <4>3. rest \cap overlapping = overlapping /\ kept = rest \ overlapping
        BY <2>6, <3>3 DEF Apart
      <4>4. Cardinality(rest) \in Nat /\ MaxOptions \in Nat
        BY <4>1, FS_CardinalityType, OptionsAssumption DEF OptionsAssumption
      <4>5. Cardinality(kept) = Cardinality(rest) - n
        BY <2>4, <4>2, <4>3
      <4> HIDE DEF kept, overlapping, frame
      <4> QED BY <2>4, <4>1, <4>4, <4>5
    <3>6. AllOverlap => rest \subseteq Entries(ranked, n)
      <4>1. IsOption(target) /\ \A o \in rest : IsOption(o)
        BY <1>3, FrameOrdered DEF OptionSet, delete_lookup_option
      <4> QED BY <2>6, <3>1, <4>1 DEF AllOverlap, IsOption, _lookup_windows_overlap
    <3>7. Entries(after, n) = Successors(rest, ranked, after, n)
      BY <2>4, <3>3 DEF Entries, Successors
    <3> HIDE DEF overlapping, frame, unnamed
    <3>9. ~misled' /\ misled' \in BOOLEAN /\ TRUE \in BOOLEAN
      BY <3>1
    <3> QED
      BY <2>4, <2>7, <2>9, <3>1, <3>2, <3>4, <3>5, <3>6, <3>7, <3>9, RearrangedStep
  <2>11. ASSUME misled \/ failed \/ again PROVE Ordered'
    <3>1. misled' = TRUE /\ unnamed \in SUBSET options /\ named \in SUBSET options
      BY <1>2, <1>5, <2>3, <2>11
    <3>2. Cardinality(options') <= MaxOptions
      BY DEF delete_lookup_option
    <3> HIDE DEF overlapping, frame, kept, unnamed
    <3> QED BY <2>2, <2>4, <2>7, <2>9, <3>1, <3>2, MisledStep
  <2>12. ASSUME stored, ~cutShort' PROVE Cardinality(LabelsLost) <= 1
    <3>1. options \subseteq unnamed \cup named \cup {target}
      BY <1>2, <2>3, <2>12
    <3>2. Follow(ranked, after, n, target)
      BY <2>7 DEF Alike, Follow
    <3> HIDE DEF overlapping, frame, kept, unnamed
    <3> QED BY <2>2, <2>9, <2>12, <3>1, <3>2, LabelsStay
  <2> QED BY <2>10, <2>11, <2>12
<1> QED BY <1>1, <1>4, <1>5 DEF rest

\* The option a form selects is one that is shown, if there is one.
LEMMA SelectedShown ==
    ASSUME NEW frame, OptionSet(frame), NEW form \in frame \cup {NoOption}, NEW code
    PROVE  SelectedOption(frame, form, code) \in frame \cup {NoOption}
<1> DEFINE named == {o \in frame : o.code = code}
<1>1. IsFiniteSet(named)
  BY PartOf DEF OptionSet
<1>2. CASE Cardinality(named) = 1
  <2>1. \E o : named = {o}
    <3> HIDE DEF named
    <3> QED BY <1>1, <1>2, FS_Singleton
  <2>2. (CHOOSE o \in named : TRUE) \in named
    BY <2>1
  <2> QED BY <2>2 DEF SelectedOption
<1>3. CASE Cardinality(named) # 1
  BY <1>3 DEF SelectedOption
<1> QED BY <1>2, <1>3

\* A sequence of n rows: those of S and e, which is at its place.
Wide(t, n, S, at, e) ==
    /\ t \in Seq(S \cup {e}) /\ Len(t) = n /\ DOMAIN t = 1 .. n
    /\ Distinct(t, n) /\ Entries(t, n) = S \cup {e}
    /\ t[at] = e

LEMMA Widened ==
    ASSUME NEW S, NEW ranked \in Seq(S), Distinct(ranked, Len(ranked)),
           \A o \in S : \E i \in 1 .. Len(ranked) : ranked[i] = o,
           NEW at \in 1 .. Len(ranked) + 1, NEW e, e \notin S
    PROVE  /\ Wide(InsertAt(ranked, at, e), Len(ranked) + 1, S, at, e)
           /\ Inserted(InsertAt(ranked, at, e), S, ranked, at, e)
<1> DEFINE m == Len(ranked)
           n == m + 1
           wide == InsertAt(ranked, at, e)
<1>1. /\ m \in Nat /\ at \in 1 .. n
      /\ \A i \in 1 .. m : ranked[i] \in S
      /\ \A i, j \in 1 .. m : i # j => ranked[i] # ranked[j]
      /\ \A o \in S : \E i \in 1 .. m : ranked[i] = o
  BY DEF Distinct
<1>2. Inserted(wide, S, ranked, at, e)
  BY InsertFacts
<1> HIDE DEF wide
<1>3. /\ wide \in Seq(S \cup {e}) /\ Len(wide) = n
      /\ \A i \in 1 .. at - 1 : wide[i] = ranked[i]
      /\ wide[at] = e
      /\ \A i \in at .. m : wide[i + 1] = ranked[i]
  BY <1>2 DEF Inserted
<1> HIDE DEF m
<1>4. DOMAIN wide = 1 .. n
  BY <1>3
<1>5. ASSUME NEW i \in 1 .. n, i < at PROVE i \in 1 .. m /\ wide[i] = ranked[i]
  <2>1. i \in 1 .. at - 1 /\ i \in 1 .. m
    BY <1>1, <1>5
  <2> QED BY <1>3, <2>1
<1>6. ASSUME NEW i \in 1 .. n, i > at PROVE i - 1 \in 1 .. m /\ wide[i] = ranked[i - 1]
  <2>1. i - 1 \in at .. m /\ i - 1 \in 1 .. m /\ i - 1 + 1 = i
    BY <1>1, <1>6
  <2> QED BY <1>3, <2>1
<1>7. \A i \in 1 .. n : i < at \/ i = at \/ i > at
  BY <1>1
<1>8. Distinct(wide, n)
  <2> SUFFICES ASSUME NEW i \in 1 .. n, NEW j \in 1 .. n, i < j PROVE wide[i] # wide[j]
    BY DEF Distinct
  <2>1. CASE i < at /\ j < at
    BY <1>1, <1>5, <2>1
  <2>2. CASE i > at
    <3>1. j > at /\ i - 1 # j - 1
      BY <1>1, <2>2
    <3> QED BY <1>1, <1>6, <2>2, <3>1
  <2>3. CASE i = at
    <3>1. j > at /\ wide[i] = e
      BY <1>1, <1>3, <2>3
    <3>2. wide[j] = ranked[j - 1] /\ ranked[j - 1] \in S
      BY <1>1, <1>6, <3>1
    <3> QED BY <3>1, <3>2
  <2>4. CASE i < at /\ j = at
    BY <1>1, <1>5, <1>3, <2>4
  <2>5. CASE i < at /\ j > at
    <3>1. i # j - 1
      BY <1>1, <2>5
    <3>2. wide[i] = ranked[i] /\ i \in 1 .. m
      BY <1>5, <2>5
    <3>3. wide[j] = ranked[j - 1] /\ j - 1 \in 1 .. m
      BY <1>6, <2>5
    <3> QED BY <1>1, <3>1, <3>2, <3>3
  <2> QED BY <1>7, <2>1, <2>2, <2>3, <2>4, <2>5
<1>9. Entries(wide, n) = S \cup {e}
  <2>1. Entries(wide, n) \subseteq S \cup {e}
    BY <1>3, <1>4 DEF Entries
  <2>2. ASSUME NEW o \in S PROVE o \in Entries(wide, n)
    <3>1. PICK i \in 1 .. m : ranked[i] = o
      BY <1>1
    <3>2. CASE i < at
      <4>1. i \in 1 .. n
        BY <1>1
      <4> QED BY <1>5, <3>1, <3>2, <4>1 DEF Entries
    <3>3. CASE ~(i < at)
      <4>1. i + 1 \in 1 .. n /\ i \in at .. m
        BY <1>1, <3>3
      <4>2. wide[i + 1] = ranked[i]
        BY <1>3, <4>1
      <4> QED BY <3>1, <4>1, <4>2 DEF Entries
    <3> QED BY <3>2, <3>3
  <2>3. e \in Entries(wide, n)
    BY <1>1, <1>3 DEF Entries
  <2> QED BY <2>1, <2>2, <2>3
<1> QED BY <1>2, <1>3, <1>4, <1>8, <1>9 DEF Wide, m, wide

\* Two sequences that differ in one row.
LEMMA WideAlike ==
    ASSUME NEW S, NEW ranked \in Seq(S), NEW at \in 1 .. Len(ranked) + 1, NEW d, NEW e,
           NEW t, Inserted(t, S, ranked, at, d), NEW u, Inserted(u, S, ranked, at, e),
           NEW i \in 1 .. Len(ranked) + 1, i # at
    PROVE  t[i] = u[i]
<1>1. Len(ranked) \in Nat
  OBVIOUS
<1>2. CASE i < at
  <2>1. i \in 1 .. at - 1
    BY <1>1, <1>2
  <2> QED BY <2>1 DEF Inserted
<1>3. CASE i > at
  <2> DEFINE k == i - 1
  <2>1. k \in at .. Len(ranked) /\ k + 1 = i
    BY <1>1, <1>3
  <2> HIDE DEF k
  <2>2. t[k + 1] = ranked[k] /\ u[k + 1] = ranked[k]
    BY <2>1 DEF Inserted
  <2> QED BY <2>1, <2>2
<1> QED BY <1>1, <1>2, <1>3

LEMMA SaveStep ==
    ASSUME Ordered, NEW form, NEW code \in OptionCodes, NEW label \in OptionLabels,
           NEW sort \in SortInputs, NEW w \in OptionWindows, NEW failed \in BOOLEAN,
           save_lookup_option(form, code, label, sort, w, failed)
    PROVE  Ordered' /\ (stored /\ ~cutShort' => Cardinality(LabelsLost) <= 1)
<1> DEFINE frame == _lookup_versions_frame(failed)
           selected == SelectedOption(frame, form, code)
           target == Option(code, label, sort, w)
           others == frame \ {selected}
           overlapping == {o \in others : _lookup_windows_overlap(target, o)}
<1>1. /\ form \in frame \cup {NoOption}
      /\ w[1] <= w[2]
      /\ \A o \in overlapping : o.label # label
      /\ Cardinality(others) < MaxOptions
      /\ Cardinality(options') <= MaxOptions
      /\ misled' = (misled \/ failed)
  BY DEF save_lookup_option
<1>2. PICK ranked \in Ranked(overlapping), named \in Named(StoredRows, failed) :
        LET at == Min({sort, Len(ranked) + 1})
            before == InsertAt(ranked, at, selected)
            after == Renumbered(InsertAt(ranked, at, target))
        IN Rewrite(StoredRows \ named, named, stored,
                   [i \in DOMAIN after |-> <<before[i], after[i]>>])
  BY DEF save_lookup_option
<1> DEFINE m == Len(ranked)
           n == m + 1
           at == Min({sort, m + 1})
           before == InsertAt(ranked, at, selected)
           rows == InsertAt(ranked, at, target)
           after == Renumbered(rows)
           pairs == [i \in DOMAIN after |-> <<before[i], after[i]>>]
           kept == Apart(StoredRows, before, n)
           unnamed == StoredRows \ named
<1>3. Rewrite(unnamed, named, stored, pairs)
  BY <1>2
<1>4. /\ OptionSet(frame) /\ (~misled => LabelsDiffer(frame))
      /\ ~failed => StoredRows \subseteq frame /\ named = StoredRows
      /\ named \subseteq StoredRows /\ StoredRows \subseteq options
      /\ selected \in frame \cup {NoOption}
      /\ OptionSet(others) /\ (~misled => LabelsDiffer(others)) /\ OptionSet(overlapping)
      /\ overlapping \subseteq others /\ selected \notin others
  <2>1. /\ OptionSet(frame) /\ (~misled => LabelsDiffer(frame))
        /\ ~failed => StoredRows \subseteq frame
        /\ StoredRows \subseteq options
    BY FrameOrdered
  <2>2. named \subseteq StoredRows /\ (~failed => named = StoredRows)
    BY NamedRows
  <2>3. selected \in frame \cup {NoOption}
    BY <1>1, <2>1, SelectedShown
  <2>4. OptionSet(others) /\ (~misled => LabelsDiffer(others)) /\ OptionSet(overlapping)
    BY <2>1, PartOf
  <2> QED BY <2>1, <2>2, <2>3, <2>4
<1>0. failed = FALSE /\ stored = TRUE => frame = StoredRows
  BY DEF StoredRows, _lookup_versions_frame
<1>5. /\ target.label = label /\ target.from = w[1] /\ target.to = w[2] /\ IsOptionRow(target)
      /\ target \notin others
  <2>1. w[1] \in Int /\ w[2] \in Int /\ w = <<w[1], w[2]>>
    BY OptionsAssumption DEF OptionsAssumption
  <2>2. target = [code |-> code, label |-> label, sort |-> sort, from |-> w[1], to |-> w[2]]
    BY DEF Option
  <2>3. sort \in Int
    BY OptionsAssumption DEF SortInputs, OptionsAssumption
  <2>4. target.label = label /\ target.from = w[1] /\ target.to = w[2]
    BY <2>2
  <2>5. IsOptionRow(target)
    BY <2>1, <2>2, <2>3 DEF IsOptionRow, Windows
  <2>6. _lookup_windows_overlap(target, target)
    BY <1>1, <2>1, <2>4 DEF _lookup_windows_overlap
  <2> HIDE DEF target
  <2>7. target \notin others
    BY <1>1, <2>4, <2>6
  <2> QED BY <2>4, <2>5, <2>7
<1> HIDE DEF selected, target, frame
<1>6. /\ ranked \in Seq(overlapping) /\ m = Cardinality(overlapping) /\ m \in Nat
      /\ Distinct(ranked, m)
      /\ \A o \in overlapping : \E i \in 1 .. m : ranked[i] = o
  <2>1. IsFiniteSet(overlapping)
    BY <1>4 DEF OptionSet
  <2>2. ranked \in Ranked(overlapping)
    BY <1>2
  <2> HIDE DEF overlapping
  <2>3. /\ ranked \in Seq(overlapping) /\ Len(ranked) = Cardinality(overlapping)
        /\ Distinct(ranked, Len(ranked))
        /\ \A o \in overlapping : \E i \in 1 .. Len(ranked) : ranked[i] = o
    BY <2>1, <2>2, RankedFacts
  <2> QED BY <2>3
<1>7. at \in 1 .. n
  <2>1. sort \in Nat /\ sort >= 1 /\ m \in Nat
    BY <1>6, OptionsAssumption DEF SortInputs, OptionsAssumption
  <2> HIDE DEF m
  <2>2. at \in {sort, m + 1} /\ at <= m + 1
    <3> DEFINE S == {sort, m + 1}
    <3>1. S \in SUBSET Nat /\ S # {}
      BY <2>1
    <3> HIDE DEF S
    <3>2. Min(S) \in S /\ \A k \in S : Min(S) <= k
      BY <3>1, LeastOf
    <3> QED BY <3>2 DEF S
  <2> QED BY <2>1, <2>2
<1>8. selected \notin overlapping /\ target \notin overlapping
  BY <1>4, <1>5
<1> HIDE DEF at, overlapping, others
<1>9. /\ Wide(before, n, overlapping, at, selected) /\ Inserted(before, overlapping, ranked, at, selected)
      /\ Wide(rows, n, overlapping, at, target) /\ Inserted(rows, overlapping, ranked, at, target)
  BY <1>6, <1>7, <1>8, Widened
<1>10. /\ n \in Nat /\ n <= MaxOptions
       /\ ~failed => Cardinality(kept) + n <= MaxOptions /\ kept \subseteq others \ overlapping
  <2>1. IsFiniteSet(others) /\ overlapping \subseteq others /\ IsFiniteSet(overlapping)
    BY <1>4 DEF OptionSet
  <2>2. Entries(before, n) = overlapping \cup {selected}
    BY <1>9 DEF Wide
  <2>3. ~failed => kept \subseteq others \ overlapping
    BY <1>4, <2>2 DEF Apart, others
  <2> HIDE DEF kept, m
  <2>4. /\ Cardinality(others \ overlapping) = Cardinality(others) - Cardinality(others \cap overlapping)
        /\ IsFiniteSet(others \ overlapping)
    BY <2>1, FS_Difference
  <2>5. others \cap overlapping = overlapping
    BY <2>1
  <2>6. ASSUME ~failed
        PROVE  /\ IsFiniteSet(kept) /\ Cardinality(kept) <= Cardinality(others \ overlapping)
               /\ Cardinality(kept) \in Nat
    BY <2>3, <2>4, <2>6, FS_Subset, FS_CardinalityType
  <2>7. /\ Cardinality(others) \in Nat
        /\ Cardinality(others \ overlapping) \in Nat /\ MaxOptions \in Nat
    BY <2>1, <2>4, FS_CardinalityType, OptionsAssumption DEF OptionsAssumption
  <2>8. Cardinality(others \ overlapping) = Cardinality(others) - m
    BY <1>6, <2>4, <2>5
  <2>9. Cardinality(others) < MaxOptions
    BY <1>1 DEF others
  <2>10. m \in Nat /\ n = m + 1 /\ n <= MaxOptions
    BY <1>6, <2>7, <2>8, <2>9
  <2>11. ASSUME ~failed PROVE Cardinality(kept) + n <= MaxOptions
    BY <2>6, <2>7, <2>8, <2>9, <2>10, <2>11
  <2> QED BY <2>3, <2>10, <2>11
<1> HIDE DEF before, rows, m
<1>12. Ranks(after, n) /\ \A i \in 1 .. n : Alike(after[i], rows[i])
  <2>1. \A o \in overlapping \cup {target} : IsOptionRow(o)
    BY <1>4, <1>5, OptionIsRow DEF OptionSet
  <2>2. rows \in Seq(overlapping \cup {target}) /\ Len(rows) = n
    BY <1>9 DEF Wide
  <2> QED BY <1>10, <2>1, <2>2, RankGiven
<1> HIDE DEF after
<1>13. DOMAIN after = 1 .. n
  BY <1>12 DEF Ranks
<1>14. Pairing(pairs, before, after, n)
  <2>1. Distinct(before, n)
    BY <1>9 DEF Wide
  <2> QED BY <1>10, <1>13, <2>1, PairsFacts
<1>15. ASSUME ~misled, ~failed PROVE LabelsDiffer(kept \cup Entries(after, n))
  <2> DEFINE R == others \cup {target}
  <2>1. \A o \in others : _lookup_windows_overlap(target, o) => o.label # label
    BY <1>1 DEF overlapping, others
  <2>2. LabelsDiffer(R)
    BY <1>4, <1>5, <1>15, <2>1 DEF LabelsDiffer, OptionSet, _lookup_windows_overlap
  <2>3. kept \in SUBSET R
    BY <1>10, <1>15
  <2>4. \A i \in 1 .. n : rows[i] \in R \ kept /\ Alike(after[i], rows[i])
    <3>1. \A i \in 1 .. n : rows[i] \in overlapping \cup {target}
      BY <1>9 DEF Wide, Entries
    <3> QED BY <1>4, <1>5, <1>10, <1>12, <1>15, <3>1
  <2>5. Distinct(rows, n)
    BY <1>9 DEF Wide
  <2> HIDE DEF R, kept
  <2> QED BY <1>10, <2>2, <2>3, <2>4, <2>5, RelabelledDiffer
<1>16. ~failed /\ AllOverlap => StoredRows \subseteq Entries(before, n)
  <2> SUFFICES ASSUME ~failed, AllOverlap, NEW o \in StoredRows, o # selected PROVE o \in overlapping
    BY <1>9 DEF Wide
  <2>1. o \in others /\ IsOption(o)
    BY <1>4 DEF others, OptionSet
  <2>2. <<o.from, o.to>> \in Windows /\ <<target.from, target.to>> \in Windows
    BY <1>5, <2>1 DEF IsOption, IsOptionRow
  <2> QED BY <2>1, <2>2 DEF overlapping, others, AllOverlap, _lookup_windows_overlap
<1>17. \A i \in 1 .. n : IsOption(after[i])
  BY <1>12 DEF Ranks
<1>18. ASSUME stored = TRUE, ~failed, NEW i \in 1 .. n
       PROVE  before[i] \in StoredRows \/ before[i] # after[i]
  <2>1. before[i] \in overlapping \cup {selected}
    BY <1>9 DEF Wide, Entries
  <2>2. StoredRows = frame
    BY <1>0, <1>18
  <2>3. after[i] # NoOption
    BY <1>17, OptionIsRow
  <2> QED BY <1>4, <2>1, <2>2, <2>3 DEF others
<1>19. /\ StoredRows \in SUBSET options /\ stored \in BOOLEAN /\ misled \in BOOLEAN
       /\ ~stored => StoredRows = {}
       /\ FilledIn = {TRUE} => stored
  BY DEF Ordered, StoredRows
<1>20. ASSUME ~(misled \/ failed) PROVE Ordered'
  <2>1. stored = TRUE => Entries(after, n) = Successors(StoredRows, before, after, n)
    BY <1>18, <1>20 DEF Entries, Successors
  <2>2. FilledIn = {TRUE} => stored = TRUE
    BY <1>19
  <2>3. named = StoredRows /\ ~misled /\ misled' = FALSE
    BY <1>1, <1>4, <1>20
  <2>4. Rewrite(unnamed, StoredRows, stored, pairs) /\ unnamed = {}
    BY <1>3, <2>3
  <2>5. LabelsDiffer(kept \cup Entries(after, n)) /\ Cardinality(kept) + n <= MaxOptions
    BY <1>10, <1>15, <1>20
  <2>6. AllOverlap => StoredRows \subseteq Entries(before, n)
    BY <1>16, <1>20
  <2> HIDE DEF unnamed
  <2> QED BY <1>10, <1>12, <1>14, <1>19, <2>1, <2>2, <2>3, <2>4, <2>5, <2>6, RearrangedStep
<1>21. ASSUME misled \/ failed PROVE Ordered'
  <2>1. /\ misled' = TRUE /\ unnamed \in SUBSET options /\ named \in SUBSET options
        /\ ~stored => unnamed = {} /\ named = {}
    BY <1>1, <1>4, <1>19, <1>21
  <2> HIDE DEF unnamed
  <2> QED BY <1>1, <1>3, <1>10, <1>12, <1>14, <1>19, <2>1, MisledStep
<1>22. ASSUME stored, ~cutShort' PROVE Cardinality(LabelsLost) <= 1
  <2>1. options \subseteq unnamed \cup named \cup {selected}
    BY <1>4, <1>22 DEF StoredRows
  <2>2. Follow(before, after, n, selected)
    <3> SUFFICES ASSUME NEW i \in 1 .. n, before[i] # selected PROVE after[i].label = before[i].label
      BY DEF Follow
    <3>1. i # at
      BY <1>9 DEF Wide
    <3>2. before[i] = rows[i]
      BY <1>6, <1>7, <1>9, <3>1, WideAlike DEF n, m
    <3> QED BY <1>12, <3>2 DEF Alike
  <2> HIDE DEF unnamed
  <2>3. stored \in BOOLEAN /\ ~cutShort'
    BY <1>19, <1>22
  <2> QED BY <1>3, <1>14, <2>1, <2>2, <2>3, LabelsStay
<1> QED BY <1>20, <1>21, <1>22

LEMMA OptionsStep == Ordered /\ [OptionsNext]_optionVars => Ordered'
<1> SUFFICES ASSUME Ordered, [OptionsNext]_optionVars PROVE Ordered'
  OBVIOUS
<1>1. ASSUME NEW p \in Policies, NEW failed \in Failing, NEW form, NEW code \in OptionCodes,
             NEW label \in OptionLabels, NEW sort \in SortInputs, NEW w \in OptionWindows,
             save_lookup_option_submit(p, form, code, label, sort, w, failed)
      PROVE  Ordered'
  BY <1>1, SaveStep, FailingIs DEF save_lookup_option_submit
<1>2. ASSUME NEW p \in Policies, NEW failed \in Failing, NEW o,
             delete_lookup_option_submit(p, o, failed)
      PROVE  Ordered'
  BY <1>2, DeleteStep, FailingIs DEF delete_lookup_option_submit
<1>3. CASE UNCHANGED optionVars
  BY <1>3 DEF optionVars, Ordered, OptionSet, Numbered, LabelsDiffer, IsOption, _lookup_windows_overlap
<1> QED BY <1>1, <1>2, <1>3 DEF OptionsNext

LEMMA OptionsInductive == OptionsSpec => []Ordered
BY OrderedStart, OptionsStep, PTL DEF OptionsSpec

(* As long as every operation has read the table, whatever is saved, moved *)
(* and removed and wherever a rewrite stops, the options that are valid on *)
(* a day have different labels, and those of a filled-in type whose        *)
(* windows overlap are ranked 1 to n.  With Faults a read may fail at any  *)
(* time, and what the operation then does to the table is part of the      *)
(* specification: nothing is claimed of the order after it.                *)
THEOREM OptionsStayInOrder == OptionsSpec => []OptionsInOrder
<1>1. Ordered => OptionsInOrder
  BY DEF Ordered, LabelsDiffer, Numbered, OptionsInOrder, AllOverlap, Windows
<1> QED BY <1>1, OptionsInductive, PTL

(* An operation whose statements all succeed takes at most the label of    *)
(* the option it was asked to change or remove, even when it was given the *)
(* default rows for the stored ones.                                       *)
THEOREM OthersAreNotLost == OptionsSpec => OthersStay
<1>1. Ordered /\ [OptionsNext]_optionVars =>
        [stored /\ ~cutShort' => Cardinality(LabelsLost) <= 1]_optionVars
  <2> SUFFICES ASSUME Ordered, OptionsNext, stored, ~cutShort' PROVE Cardinality(LabelsLost) <= 1
    OBVIOUS
  <2>1. ASSUME NEW p \in Policies, NEW failed \in Failing, NEW form, NEW code \in OptionCodes,
               NEW label \in OptionLabels, NEW sort \in SortInputs, NEW w \in OptionWindows,
               save_lookup_option_submit(p, form, code, label, sort, w, failed)
        PROVE  Cardinality(LabelsLost) <= 1
    BY <2>1, SaveStep, FailingIs DEF save_lookup_option_submit
  <2>2. ASSUME NEW p \in Policies, NEW failed \in Failing, NEW o,
               delete_lookup_option_submit(p, o, failed)
        PROVE  Cardinality(LabelsLost) <= 1
    BY <2>2, DeleteStep, FailingIs DEF delete_lookup_option_submit
  <2> QED BY <2>1, <2>2 DEF OptionsNext
<1> QED BY <1>1, OptionsInductive, PTL DEF OptionsSpec, OthersStay, LabelsLost

-----------------------------------------------------------------------------
(* The lists of a user                                                     *)

MostOf(s) == IF s = "boards" THEN MAX_WORKSPACE_BOARDS ELSE IMPORT_MAPPING_PROFILE_LIMIT
IsList(s, list) == list \in Seq(Items) /\ IsInjective(list) /\ Len(list) <= MostOf(s)

\* A cache that is not old has what is stored.
Current(s) ==
    /\ IsList(s, lists[s])
    /\ cached[s] # Unread => IsList(s, cached[s]) /\ (~old[s] => cached[s] = lists[s])

Listed ==
    /\ lists = [s \in Settings |-> lists[s]] /\ cached = [s \in Settings |-> cached[s]]
    /\ old = [s \in Settings |-> old[s]] /\ loading = [t \in PageThreads |-> loading[t]]
    /\ \A s \in Settings : Current(s)
    /\ \A t \in PageThreads : loading[t] # NoRow =>
         loading[t].setting \in Settings /\ IsList(loading[t].setting, loading[t].list)

\* t is s without its element m.
TakenOut(t, S, s, m) ==
    /\ t \in Seq(S) /\ Len(t) = Len(s) - 1
    /\ \A i \in 1 .. m - 1 : t[i] = s[i]
    /\ \A i \in m .. Len(s) - 1 : t[i] = s[i + 1]

LEMMA RemovedFacts ==
    ASSUME NEW S, NEW s \in Seq(S), NEW m \in 1 .. Len(s)
    PROVE  TakenOut(RemoveAt(s, m), S, s, m)
<1> DEFINE a == SubSeq(s, 1, m - 1)
           b == SubSeq(s, m + 1, Len(s))
<1>1. Len(s) \in Nat /\ \A i \in 1 .. Len(s) : s[i] \in S
  OBVIOUS
<1>2. a \in Seq(S) /\ Len(a) = m - 1 /\ \A i \in 1 .. m - 1 : a[i] = s[i]
  <2>1. \A i \in 1 .. m - 1 : s[i] \in S
    BY <1>1
  <2>2. /\ a \in Seq(S) /\ Len(a) = IF 1 <= m - 1 THEN m - 1 - 1 + 1 ELSE 0
        /\ \A i \in 1 .. m - 1 - 1 + 1 : a[i] = s[1 + i - 1]
    BY <1>1, <2>1, SubSeqProperties
  <2> QED BY <1>1, <2>2
<1>3. b \in Seq(S) /\ Len(b) = Len(s) - m /\ \A i \in 1 .. Len(s) - m : b[i] = s[m + i]
  <2>1. m + 1 \in 1 .. Len(s) + 1
    BY <1>1
  <2>2. /\ b \in Seq(S) /\ Len(b) = Len(s) - (m + 1) + 1
        /\ \A i \in 1 .. Len(s) - (m + 1) + 1 : b[i] = s[m + 1 + i - 1]
    BY <2>1, SubSeqFacts
  <2> QED BY <1>1, <2>2
<1> HIDE DEF a, b
<1>4. /\ a \o b \in Seq(S) /\ Len(a \o b) = Len(a) + Len(b)
      /\ \A i \in 1 .. Len(a) + Len(b) : (a \o b)[i] = IF i <= Len(a) THEN a[i] ELSE b[i - Len(a)]
  BY <1>2, <1>3, ConcatProperties
<1>5. Len(a \o b) = Len(s) - 1
  BY <1>1, <1>2, <1>3, <1>4
<1>6. \A i \in 1 .. m - 1 : (a \o b)[i] = s[i]
  BY <1>1, <1>2, <1>3, <1>4
<1>7. ASSUME NEW i \in m .. Len(s) - 1 PROVE (a \o b)[i] = s[i + 1]
  <2> DEFINE k == i - (m - 1)
  <2>1. k \in 1 .. Len(s) - m /\ m + k = i + 1 /\ i - Len(a) = k
        /\ i \in 1 .. Len(a) + Len(b) /\ ~(i <= Len(a))
    BY <1>1, <1>2, <1>3
  <2> HIDE DEF k
  <2>2. (a \o b)[i] = b[k]
    BY <1>4, <2>1
  <2>3. b[k] = s[m + k]
    BY <1>3, <2>1
  <2> QED BY <2>1, <2>2, <2>3
<1> QED BY <1>4, <1>5, <1>6, <1>7 DEF TakenOut, RemoveAt, a, b

\* A list without an element.
Rid(t, list, i) ==
    /\ t \in Seq(Items) /\ IsInjective(t) /\ ToSet(t) = ToSet(list) \ {i}
    /\ i \in ToSet(list) => Len(t) = Len(list) - 1
    /\ i \notin ToSet(list) => t = list

LEMMA WithoutFacts ==
    ASSUME NEW list \in Seq(Items), IsInjective(list), NEW i
    PROVE  Rid(Without(list, i), list, i)
<1> DEFINE n == Len(list)
           places == {k \in 1 .. n : list[k] = i}
           m == Min(places)
<1>1. n \in Nat /\ DOMAIN list = 1 .. n /\ \A k \in 1 .. n : list[k] \in Items
  OBVIOUS
<1>2. CASE i \notin ToSet(list)
  <2>1. ~\E k \in 1 .. n : list[k] = i
    BY <1>1, <1>2 DEF ToSet
  <2>2. Without(list, i) = list
    BY <2>1 DEF Without, RemoveFirst
  <2> QED BY <1>2, <2>2 DEF Rid
<1>3. CASE i \in ToSet(list)
  <2>1. \E k \in 1 .. n : list[k] = i
    BY <1>1, <1>3 DEF ToSet
  <2>2. Without(list, i) = RemoveAt(list, m)
    <3>1. SelectInSeq(list, LAMBDA v : v = i) = m
      BY <2>1 DEF SelectInSeq
    <3> QED BY <2>1, <3>1 DEF Without, RemoveFirst
  <2>3. m \in 1 .. n /\ list[m] = i
    <3>1. places \in SUBSET Nat /\ places # {}
      BY <1>1, <2>1
    <3>2. \A k \in places : k \in 1 .. n /\ list[k] = i
      OBVIOUS
    <3> HIDE DEF places
    <3> QED BY <3>1, <3>2, LeastOf
  <2> HIDE DEF m
  <2> DEFINE t == RemoveAt(list, m)
  <2>4. TakenOut(t, Items, list, m)
    BY <2>3, RemovedFacts
  <2> HIDE DEF t
  <2>5. /\ t \in Seq(Items) /\ Len(t) = n - 1
        /\ \A k \in 1 .. m - 1 : t[k] = list[k]
        /\ \A k \in m .. n - 1 : t[k] = list[k + 1]
    BY <2>4 DEF TakenOut
  <2> HIDE DEF n
  <2>6. DOMAIN t = 1 .. n - 1
    BY <2>5
  <2> DEFINE from == [k \in 1 .. n - 1 |-> IF k < m THEN k ELSE k + 1]
  <2>7. ASSUME NEW k \in 1 .. n - 1
        PROVE  from[k] \in 1 .. n /\ from[k] # m /\ t[k] = list[from[k]]
    <3>1. CASE k < m
      <4>1. k \in 1 .. m - 1 /\ k \in 1 .. n /\ from[k] = k
        BY <1>1, <2>3, <3>1
      <4> QED BY <2>3, <2>5, <3>1, <4>1
    <3>2. CASE ~(k < m)
      <4>1. k \in m .. n - 1 /\ k + 1 \in 1 .. n /\ from[k] = k + 1 /\ k + 1 # m
        BY <1>1, <2>3, <3>2
      <4> QED BY <2>5, <4>1
    <3> QED BY <3>1, <3>2
  <2>8. \A k, l \in 1 .. n - 1 : k # l => from[k] # from[l]
    BY <1>1, <2>3
  <2> HIDE DEF from
  <2>9. IsInjective(t)
    BY <1>1, <2>6, <2>7, <2>8 DEF IsInjective
  <2>10. ToSet(t) \subseteq ToSet(list) \ {i}
    BY <1>1, <2>3, <2>6, <2>7 DEF IsInjective, ToSet
  <2>11. ASSUME NEW k \in 1 .. n, k # m PROVE list[k] \in ToSet(t)
    <3>1. CASE k < m
      <4>1. k \in 1 .. m - 1 /\ k \in 1 .. n - 1
        BY <1>1, <2>3, <3>1
      <4> QED BY <2>5, <2>6, <4>1 DEF ToSet
    <3>2. CASE ~(k < m)
      <4> DEFINE l == k - 1
      <4>1. l \in m .. n - 1 /\ l + 1 = k /\ l \in 1 .. n - 1
        BY <1>1, <2>3, <2>11, <3>2
      <4> HIDE DEF l
      <4>2. t[l] = list[l + 1]
        BY <2>5, <4>1
      <4> QED BY <2>6, <4>1, <4>2 DEF ToSet
    <3> QED BY <3>1, <3>2
  <2>12. ToSet(list) \ {i} \subseteq ToSet(t)
    BY <1>1, <2>3, <2>11 DEF ToSet
  <2> QED BY <1>3, <2>2, <2>5, <2>9, <2>10, <2>12 DEF Rid, t, n
<1> QED BY <1>2, <1>3

\* A list with an element on top.
Topped(u, list, i) ==
    /\ u \in Seq(Items) /\ IsInjective(u) /\ ToSet(u) = ToSet(list) \cup {i}
    /\ i \in ToSet(list) => Len(u) = Len(list)
    /\ i \notin ToSet(list) => Len(u) = Len(list) + 1 /\ \A k \in 1 .. Len(list) : u[k + 1] = list[k]

LEMMA OnTopFacts ==
    ASSUME NEW list \in Seq(Items), IsInjective(list), NEW i \in Items
    PROVE  Topped(OnTop(list, i), list, i)
<1> DEFINE t == Without(list, i)
           u == <<i>> \o t
           n == Len(t)
<1>1. Rid(t, list, i)
  BY WithoutFacts
<1> HIDE DEF t
<1>2. t \in Seq(Items) /\ IsInjective(t) /\ ToSet(t) = ToSet(list) \ {i}
  BY <1>1 DEF Rid
<1>3. n \in Nat /\ DOMAIN t = 1 .. n /\ u \in Seq(Items) /\ Len(u) = n + 1 /\ u[1] = i
      /\ \A k \in 1 .. n : u[k + 1] = t[k]
  BY <1>2
<1> HIDE DEF n, u
<1>4. DOMAIN u = 1 .. n + 1
  BY <1>3
<1>5. \A k \in 1 .. n + 1 : k # 1 => k - 1 \in 1 .. n /\ u[k] = t[k - 1]
  <2> SUFFICES ASSUME NEW k \in 1 .. n + 1, k # 1 PROVE k - 1 \in 1 .. n /\ u[k] = t[k - 1]
    OBVIOUS
  <2> DEFINE l == k - 1
  <2>1. l \in 1 .. n /\ l + 1 = k
    BY <1>3
  <2> HIDE DEF l
  <2>2. u[l + 1] = t[l]
    BY <1>3, <2>1
  <2> QED BY <2>1, <2>2 DEF l
<1>6. \A k \in 1 .. n : t[k] # i
  BY <1>2, <1>3 DEF ToSet
<1>7. IsInjective(u)
  <2> SUFFICES ASSUME NEW k \in 1 .. n + 1, NEW l \in 1 .. n + 1, u[k] = u[l] PROVE k = l
    BY <1>4 DEF IsInjective
  <2>1. CASE k # 1 /\ l # 1
    <3>1. t[k - 1] = t[l - 1] /\ k - 1 \in 1 .. n /\ l - 1 \in 1 .. n
      BY <1>5, <2>1
    <3>2. k - 1 = l - 1
      BY <1>2, <1>3, <3>1 DEF IsInjective
    <3> QED BY <3>2
  <2>2. CASE k = 1 \/ l = 1
    BY <1>3, <1>5, <1>6, <2>2
  <2> QED BY <2>1, <2>2
<1>8. ToSet(u) = ToSet(t) \cup {i}
  <2>1. ToSet(u) \subseteq ToSet(t) \cup {i}
    <3> SUFFICES ASSUME NEW k \in 1 .. n + 1 PROVE u[k] \in ToSet(t) \cup {i}
      BY <1>4 DEF ToSet
    <3>1. CASE k = 1
      BY <1>3, <3>1
    <3>2. CASE k # 1
      <4>1. k - 1 \in DOMAIN t /\ u[k] = t[k - 1]
        BY <1>3, <1>5, <3>2
      <4> QED BY <4>1 DEF ToSet
    <3> QED BY <3>1, <3>2
  <2>2. i \in ToSet(u)
    BY <1>3, <1>4 DEF ToSet
  <2>3. ASSUME NEW k \in 1 .. n PROVE t[k] \in ToSet(u)
    <3>1. k + 1 \in 1 .. n + 1
      BY <1>3
    <3> QED BY <1>3, <1>4, <3>1 DEF ToSet
  <2>4. ToSet(t) \subseteq ToSet(u)
    BY <1>3, <2>3 DEF ToSet
  <2> QED BY <2>1, <2>2, <2>4
<1>9. Len(list) \in Nat
  OBVIOUS
<1>10. CASE i \in ToSet(list)
  <2>1. Len(u) = Len(list)
    BY <1>1, <1>3, <1>9, <1>10 DEF Rid, n
  <2> QED BY <1>2, <1>3, <1>7, <1>8, <1>10, <2>1 DEF Topped, OnTop, u, t
<1>11. CASE i \notin ToSet(list)
  <2>1. t = list
    BY <1>1, <1>11 DEF Rid
  <2>2. Len(u) = Len(list) + 1 /\ \A k \in 1 .. Len(list) : u[k + 1] = list[k]
    BY <1>3, <2>1 DEF n
  <2> QED BY <1>2, <1>3, <1>7, <1>8, <1>11, <2>2 DEF Topped, OnTop, u, t
<1> QED BY <1>10, <1>11

\* What a save makes of a list, and what it takes from it.
Taken(list, next) == ToSet(list) \ ToSet(next)

LEMMA UpsertFacts ==
    ASSUME NEW list, IsList("boards", list), NEW i \in Items, NEW next \in _workspace_upsert_board(list, i)
    PROVE  IsList("boards", next) /\ Taken(list, next) = {}
<1>1. list \in Seq(Items) /\ IsInjective(list) /\ Len(list) <= MAX_WORKSPACE_BOARDS
  BY DEF IsList, MostOf
<1>2. next = OnTop(list, i) /\ (i \in ToSet(list) \/ Len(list) < MAX_WORKSPACE_BOARDS)
  BY DEF _workspace_upsert_board
<1>3. Topped(next, list, i)
  BY <1>1, <1>2, OnTopFacts
<1>4. Len(list) \in Nat /\ MAX_WORKSPACE_BOARDS \in Nat
  BY <1>1, SettingsAssumption DEF SettingsAssumption
<1>5. Len(next) <= MAX_WORKSPACE_BOARDS
  BY <1>1, <1>2, <1>3, <1>4 DEF Topped
<1> QED BY <1>3, <1>5 DEF Topped, IsList, MostOf, Taken

LEMMA DeleteFacts ==
    ASSUME NEW list, IsList("boards", list), NEW i \in Items, NEW next \in _workspace_delete_board(list, i)
    PROVE  IsList("boards", next) /\ Taken(list, next) = {i}
<1>1. list \in Seq(Items) /\ IsInjective(list) /\ Len(list) <= MAX_WORKSPACE_BOARDS
  BY DEF IsList, MostOf
<1>2. next = Without(list, i) /\ i \in ToSet(list)
  BY DEF _workspace_delete_board
<1>3. Rid(next, list, i)
  BY <1>1, <1>2, WithoutFacts
<1>4. Len(list) \in Nat /\ MAX_WORKSPACE_BOARDS \in Nat
  BY <1>1, SettingsAssumption DEF SettingsAssumption
<1>5. Len(next) <= MAX_WORKSPACE_BOARDS
  BY <1>1, <1>2, <1>3, <1>4 DEF Rid
<1> QED BY <1>2, <1>3, <1>5 DEF Rid, IsList, MostOf, Taken

LEMMA ProfileFacts ==
    ASSUME NEW list, IsList("profiles", list), NEW i \in Items, NEW next \in save_mapping_profile(list, i)
    PROVE  /\ IsList("profiles", next)
           /\ \A j \in Taken(list, next) : Len(list) = IMPORT_MAPPING_PROFILE_LIMIT /\ j = Last(list)
<1> DEFINE L == IMPORT_MAPPING_PROFILE_LIMIT
           u == OnTop(list, i)
           n == Len(u)
           m == Min({n, L})
<1>1. list \in Seq(Items) /\ IsInjective(list) /\ Len(list) <= L /\ Len(list) \in Nat /\ L \in Nat
  BY SettingsAssumption DEF IsList, MostOf, SettingsAssumption
<1>2. next = SubSeq(u, 1, m)
  BY DEF save_mapping_profile
<1>3. Topped(u, list, i)
  BY <1>1, OnTopFacts
<1> HIDE DEF u
<1>4. u \in Seq(Items) /\ IsInjective(u) /\ n \in Nat /\ DOMAIN u = 1 .. n
      /\ ToSet(u) = ToSet(list) \cup {i}
  BY <1>3 DEF Topped
<1> HIDE DEF n, L
<1>5. m \in {n, L} /\ m <= n /\ m <= L /\ m \in Nat
  <2> DEFINE S == {n, L}
  <2>1. S \in SUBSET Nat /\ S # {}
    BY <1>1, <1>4
  <2> HIDE DEF S
  <2>2. Min(S) \in S /\ \A k \in S : Min(S) <= k
    BY <2>1, LeastOf
  <2> QED BY <1>1, <1>4, <2>2 DEF S
<1> HIDE DEF m
<1>6. next \in Seq(Items) /\ Len(next) = m /\ \A k \in 1 .. m : next[k] = u[k]
  <2>1. \A k \in 1 .. m : u[k] \in Items
    BY <1>4, <1>5
  <2>2. /\ SubSeq(u, 1, m) \in Seq(Items) /\ Len(SubSeq(u, 1, m)) = IF 1 <= m THEN m - 1 + 1 ELSE 0
        /\ \A k \in 1 .. m - 1 + 1 : SubSeq(u, 1, m)[k] = u[1 + k - 1]
    BY <1>5, <2>1, SubSeqProperties
  <2> QED BY <1>2, <1>5, <2>2
<1>7. DOMAIN next = 1 .. m
  BY <1>6
<1>8. IsInjective(next)
  BY <1>4, <1>5, <1>6, <1>7 DEF IsInjective
<1>9. IsList("profiles", next)
  BY <1>5, <1>6, <1>8 DEF IsList, MostOf, L
<1>10. ASSUME NEW j \in Taken(list, next) PROVE Len(list) = L /\ j = list[Len(list)]
  <2>1. j \in ToSet(list) /\ j \in ToSet(u) /\ j \notin ToSet(next)
    BY <1>4 DEF Taken
  <2>2. PICK k \in 1 .. n : u[k] = j
    BY <1>4, <2>1 DEF ToSet
  <2>3. ~(k \in 1 .. m)
    BY <1>6, <1>7, <2>1, <2>2 DEF ToSet
  <2>4. m = L /\ k > L
    BY <1>1, <1>4, <1>5, <2>3
  <2>5. i \notin ToSet(list)
    <3> SUFFICES ASSUME i \in ToSet(list) PROVE FALSE
      OBVIOUS
    <3>1. n = Len(list)
      BY <1>3 DEF Topped, n
    <3> QED BY <1>1, <2>4, <3>1
  <2>6. n = Len(list) + 1 /\ \A l \in 1 .. Len(list) : u[l + 1] = list[l]
    BY <1>3, <2>5 DEF Topped, n
  <2>7. k = Len(list) + 1 /\ Len(list) = L
    BY <1>1, <2>4, <2>6
  <2>8. Len(list) \in 1 .. Len(list)
    <3>1. PICK l \in DOMAIN list : list[l] = j
      BY <2>1 DEF ToSet
    <3> QED BY <1>1, <3>1
  <2> QED BY <2>2, <2>6, <2>7, <2>8
<1> QED BY <1>9, <1>10 DEF Last, L

LEMMA EmptyList == ASSUME NEW s \in Settings PROVE IsList(s, <<>>)
<1>1. <<>> \in Seq(Items) /\ Len(<<>>) = 0 /\ IsInjective(<<>>)
  BY DEF IsInjective
<1>2. MostOf(s) \in Nat
  BY SettingsAssumption DEF MostOf, SettingsAssumption
<1> QED BY <1>1, <1>2 DEF IsList

\* What a save reads: what is stored, unless the cache is old or the query failed.
LEMMA ReadFacts ==
    ASSUME Listed, NEW s \in Settings, NEW read \in get_user_setting(s)
    PROVE  IsList(s, read) /\ (~old[s] => read = lists[s] \/ cached[s] = Unread)
<1>1. Current(s)
  BY DEF Listed
<1>2. CASE cached[s] # Unread
  BY <1>1, <1>2 DEF Current, get_user_setting
<1>3. CASE cached[s] = Unread
  <2>1. read = lists[s] \/ read = <<>>
    BY <1>3 DEF get_user_setting, Queried
  <2> QED BY <1>1, <1>3, <2>1, EmptyList DEF Current
<1> QED BY <1>2, <1>3

LEMMA SavedLists ==
    ASSUME Listed, NEW s \in Settings, NEW read, IsList(s, read), NEW list, IsList(s, list),
           NEW what, NEW i, save_user_setting(s, read, list, what, i), UNCHANGED loading
    PROVE  /\ Listed'
           /\ told'.what # "failed" =>
                lists' = [lists EXCEPT ![s] = list] /\ told'.what = what /\ told'.item = i
<1>1. /\ lists = [q \in Settings |-> lists[q]] /\ cached = [q \in Settings |-> cached[q]]
      /\ old = [q \in Settings |-> old[q]] /\ loading = [t \in PageThreads |-> loading[t]]
      /\ \A q \in Settings : Current(q)
      /\ \A t \in PageThreads : loading[t] # NoRow =>
           loading[t].setting \in Settings /\ IsList(loading[t].setting, loading[t].list)
  BY DEF Listed
<1>2. IsList(s, <<>>)
  BY EmptyList
<1>3. ASSUME lists' \in {lists, [lists EXCEPT ![s] = <<>>], [lists EXCEPT ![s] = list]},
             Cleared \/ Kept(s, read)
      PROVE  Listed'
  <2>1. /\ lists' = [q \in Settings |-> lists'[q]]
        /\ \A q \in Settings : IsList(q, lists'[q]) /\ (q # s => lists'[q] = lists[q])
    BY <1>1, <1>2, <1>3 DEF Current
  <2>2. /\ cached' = [q \in Settings |-> cached'[q]] /\ old' = [q \in Settings |-> old'[q]]
        /\ \A q \in Settings :
             cached'[q] # Unread => IsList(q, cached'[q]) /\ (~old'[q] => cached'[q] = lists'[q])
    <3>1. CASE Cleared
      BY <3>1 DEF Cleared
    <3>2. CASE Kept(s, read)
      <4>1. /\ cached' = [cached EXCEPT ![s] = read]
            /\ old' = [old EXCEPT ![s] = read # lists'[s]]
        BY <3>2 DEF Kept
      <4>2. /\ cached' = [q \in Settings |-> cached'[q]] /\ old' = [q \in Settings |-> old'[q]]
            /\ cached'[s] = read /\ old'[s] = (read # lists'[s])
            /\ \A q \in Settings : q # s => cached'[q] = cached[q] /\ old'[q] = old[q]
        BY <1>1, <4>1
      <4> QED BY <1>1, <2>1, <4>2 DEF Current
    <3> QED BY <1>3, <3>1, <3>2
  <2>3. \A q \in Settings : Current(q)'
    BY <2>1, <2>2 DEF Current, IsList, MostOf, Unread
  <2>4. /\ loading' = [t \in PageThreads |-> loading'[t]]
        /\ \A t \in PageThreads : loading'[t] # NoRow =>
             loading'[t].setting \in Settings /\ IsList(loading'[t].setting, loading'[t].list)
    BY <1>1
  <2> QED BY <2>1, <2>2, <2>3, <2>4 DEF Listed, IsList, MostOf
<1>4. CASE lists' = [lists EXCEPT ![s] = list] /\ Cleared /\ Told(what, s, i)
  BY <1>3, <1>4 DEF Told
<1>5. CASE lists' \in {lists, [lists EXCEPT ![s] = <<>>]} /\ Kept(s, read) /\ Told("failed", s, i)
  BY <1>3, <1>5 DEF Told
<1>6. CASE /\ lists' \in {[lists EXCEPT ![s] = <<>>], [lists EXCEPT ![s] = list]}
           /\ Cleared /\ Told("failed", s, i)
  BY <1>3, <1>6 DEF Told
<1> QED BY <1>4, <1>5, <1>6 DEF save_user_setting

\* Of the setting that is saved goes what its function takes of what is stored.
Lost(s) == ToSet(lists[s]) \ ToSet(lists'[s])
LosesNoOther ==
    \A s \in Settings :
       ~old[s] /\ told'.what # "failed" =>
          \A i \in Lost(s) :
             \/ told'.what = "deleted" /\ told'.item = i
             \/ Full(s) /\ i = Last(lists[s])

\* A function of lists that gives lists and takes what it may.
MayTake(s, list, next, what, i) ==
    \A j \in Taken(list, next) :
       \/ what = "deleted" /\ i = j
       \/ s = "profiles" /\ Len(list) = IMPORT_MAPPING_PROFILE_LIMIT /\ j = Last(list)

LEMMA SaveKeeps ==
    ASSUME Listed, NEW s \in Settings, NEW become, NEW what, NEW i, Save(s, become, what, i),
           \A read \in get_user_setting(s) : \A list \in become[read] :
             IsList(s, read) => IsList(s, list) /\ MayTake(s, read, list, what, i)
    PROVE  Listed' /\ LosesNoOther
<1>1. PICK read \in get_user_setting(s) : \E list \in become[read] :
        save_user_setting(s, read, list,
           IF cached[s] = Unread /\ read # lists[s] THEN "failed" ELSE what, i)
  BY DEF Save
<1>2. PICK list \in become[read] :
        save_user_setting(s, read, list,
           IF cached[s] = Unread /\ read # lists[s] THEN "failed" ELSE what, i)
  BY <1>1
<1> DEFINE say == IF cached[s] = Unread /\ read # lists[s] THEN "failed" ELSE what
<1>3. save_user_setting(s, read, list, say, i) /\ UNCHANGED loading
  BY <1>2 DEF Save
<1>4. IsList(s, read) /\ (~old[s] => read = lists[s] \/ cached[s] = Unread)
  BY ReadFacts
<1>5. IsList(s, list) /\ MayTake(s, read, list, what, i)
  BY <1>4
<1> HIDE DEF say
<1>6. /\ Listed'
      /\ told'.what # "failed" =>
           lists' = [lists EXCEPT ![s] = list] /\ told'.what = say /\ told'.item = i
  BY <1>3, <1>4, <1>5, SavedLists
<1>7. ASSUME NEW q \in Settings, ~old[q], told'.what # "failed", NEW j \in Lost(q)
      PROVE  \/ told'.what = "deleted" /\ told'.item = j
             \/ Full(q) /\ j = Last(lists[q])
  <2>1. lists' = [lists EXCEPT ![s] = list] /\ told'.what = say /\ told'.item = i
    BY <1>6, <1>7
  <2>2. DOMAIN lists = Settings
    BY DEF Listed
  <2>3. q = s
    BY <1>7, <2>1, <2>2 DEF Lost
  <2>4. lists'[s] = list
    BY <2>1, <2>2
  <2>5. read = lists[s] /\ say = what
    BY <1>4, <1>7, <2>1, <2>3 DEF say
  <2>6. j \in Taken(read, list)
    BY <1>7, <2>3, <2>4, <2>5 DEF Lost, Taken
  <2> QED BY <1>5, <2>1, <2>3, <2>5, <2>6 DEF MayTake, Full
<1> QED BY <1>6, <1>7 DEF LosesNoOther

\* Reading takes nothing from the lists.
LEMMA ReadingKeeps == ASSUME UNCHANGED lists PROVE LosesNoOther
  BY DEF LosesNoOther, Lost

LEMMA PageReadsKeeps ==
    ASSUME Listed, NEW t \in PageThreads, NEW s \in Settings, PageReads(t, s)
    PROVE  Listed'
<1>1. PICK list \in Queried(s) : loading' = [loading EXCEPT ![t] = [setting |-> s, list |-> list]]
  BY DEF PageReads
<1>2. IsList(s, list)
  BY EmptyList DEF Queried, Listed, Current
<1>3. /\ loading' = [u \in PageThreads |-> loading'[u]]
      /\ \A u \in PageThreads : loading'[u] # NoRow =>
           loading'[u].setting \in Settings /\ IsList(loading'[u].setting, loading'[u].list)
  <2>1. /\ loading' = [u \in PageThreads |-> loading'[u]]
        /\ loading'[t] = [setting |-> s, list |-> list]
        /\ \A u \in PageThreads : u # t => loading'[u] = loading[u]
    BY <1>1 DEF Listed
  <2> QED BY <1>2, <2>1 DEF Listed
<1>4. UNCHANGED <<lists, cached, old>>
  BY DEF PageReads
<1> QED BY <1>3, <1>4 DEF Listed, Current, IsList, MostOf, Unread

LEMMA PageCachesKeeps ==
    ASSUME Listed, NEW t \in PageThreads, PageCaches(t)
    PROVE  Listed'
<1> DEFINE s == loading[t].setting
           list == loading[t].list
<1>1. s \in Settings /\ IsList(s, list)
  BY DEF PageCaches, Listed
<1>2. UNCHANGED lists /\ cached' = [cached EXCEPT ![s] = list]
      /\ old' = [old EXCEPT ![s] = list # lists[s]]
      /\ loading' = [loading EXCEPT ![t] = NoRow]
  BY DEF PageCaches
<1> HIDE DEF s, list
<1>3. /\ cached' = [q \in Settings |-> cached'[q]] /\ old' = [q \in Settings |-> old'[q]]
      /\ cached'[s] = list /\ old'[s] = (list # lists[s])
      /\ \A q \in Settings : q # s => cached'[q] = cached[q] /\ old'[q] = old[q]
  BY <1>1, <1>2 DEF Listed
<1>4. \A q \in Settings : Current(q)'
  BY <1>1, <1>2, <1>3 DEF Listed, Current, IsList, MostOf, Unread
<1>5. /\ loading' = [u \in PageThreads |-> loading'[u]] /\ loading'[t] = NoRow
      /\ \A u \in PageThreads : u # t => loading'[u] = loading[u]
  BY <1>2 DEF Listed
<1> QED BY <1>2, <1>3, <1>4, <1>5 DEF Listed, IsList, MostOf

LEMMA CacheClearKeeps ==
    ASSUME Listed, _cache_clear
    PROVE  Listed'
<1>1. /\ \A q \in Settings : cached'[q] = Unread \/ cached'[q] = cached[q]
      /\ cached' = [q \in Settings |-> cached'[q]]
  <2>1. CASE cached' = [q \in Settings |-> Unread]
    BY <2>1
  <2>2. CASE \E q \in Settings : cached' = [cached EXCEPT ![q] = Unread]
    BY <2>2 DEF Listed
  <2> QED BY <2>1, <2>2 DEF _cache_clear
<1>2. old' = [q \in Settings |-> old[q] /\ cached'[q] # Unread] /\ UNCHANGED <<lists, loading>>
  BY DEF _cache_clear
<1>3. \A q \in Settings : Current(q)'
  BY <1>1, <1>2 DEF Listed, Current, IsList, MostOf, Unread
<1>4. old' = [q \in Settings |-> old'[q]]
  BY <1>2
<1> QED BY <1>1, <1>2, <1>3, <1>4 DEF Listed, IsList, MostOf

LEMMA BoardSaved ==
    ASSUME Listed, NEW p, NEW i \in Items, reports_workspace_save_board(p, i)
    PROVE  Listed' /\ LosesNoOther
<1> DEFINE become == [list \in get_user_setting("boards") |-> _workspace_upsert_board(list, i)]
<1>1. Save("boards", become, "saved", i)
  BY DEF reports_workspace_save_board
<1>2. ASSUME NEW read \in get_user_setting("boards"), NEW list \in become[read], IsList("boards", read)
      PROVE  IsList("boards", list) /\ MayTake("boards", read, list, "saved", i)
  BY <1>2, UpsertFacts DEF MayTake
<1>3. "boards" \in Settings
  BY DEF Settings
<1> HIDE DEF become
<1> QED BY <1>1, <1>2, <1>3, SaveKeeps

LEMMA BoardDeleted ==
    ASSUME Listed, NEW p, NEW i \in Items, reports_workspace_delete_board(p, i)
    PROVE  Listed' /\ LosesNoOther
<1> DEFINE become == [list \in get_user_setting("boards") |-> _workspace_delete_board(list, i)]
<1>1. Save("boards", become, "deleted", i)
  BY DEF reports_workspace_delete_board
<1>2. ASSUME NEW read \in get_user_setting("boards"), NEW list \in become[read], IsList("boards", read)
      PROVE  IsList("boards", list) /\ MayTake("boards", read, list, "deleted", i)
  BY <1>2, DeleteFacts DEF MayTake
<1>3. "boards" \in Settings
  BY DEF Settings
<1> HIDE DEF become
<1> QED BY <1>1, <1>2, <1>3, SaveKeeps

LEMMA ProfileSaved ==
    ASSUME Listed, NEW p, NEW i \in Items, imports_remap(p, i)
    PROVE  Listed' /\ LosesNoOther
<1> DEFINE become == [list \in get_user_setting("profiles") |-> save_mapping_profile(list, i)]
<1>1. Save("profiles", become, "saved", i)
  BY DEF imports_remap
<1>2. ASSUME NEW read \in get_user_setting("profiles"), NEW list \in become[read],
             IsList("profiles", read)
      PROVE  IsList("profiles", list) /\ MayTake("profiles", read, list, "saved", i)
  BY <1>2, ProfileFacts DEF MayTake
<1>3. "profiles" \in Settings
  BY DEF Settings
<1> HIDE DEF become
<1> QED BY <1>1, <1>2, <1>3, SaveKeeps

LEMMA ListedStart == SettingsInit => Listed
<1> SUFFICES ASSUME SettingsInit PROVE Listed
  OBVIOUS
<1>1. \A s \in Settings : Current(s)
  BY EmptyList DEF SettingsInit, Current
<1> QED BY <1>1 DEF SettingsInit, Listed

LEMMA ListedStep ==
    ASSUME Listed, [SettingsNext]_settingVars
    PROVE  Listed' /\ [LosesNoOther]_settingVars
<1>1. CASE \E t \in PageThreads : PageCaches(t) \/ \E s \in Settings : PageReads(t, s)
  <2>1. Listed'
    BY <1>1, PageReadsKeeps, PageCachesKeeps
  <2>2. UNCHANGED lists
    BY <1>1 DEF PageReads, PageCaches
  <2> QED BY <2>1, <2>2, ReadingKeeps
<1>2. CASE _cache_clear
  <2>1. UNCHANGED lists
    BY <1>2 DEF _cache_clear
  <2> QED BY <1>2, <2>1, CacheClearKeeps, ReadingKeeps
<1>3. CASE \E p \in Policies, i \in Items : \/ reports_workspace_save_board(p, i)
                                            \/ reports_workspace_delete_board(p, i)
                                            \/ imports_remap(p, i)
  BY <1>3, BoardSaved, BoardDeleted, ProfileSaved
<1>4. CASE UNCHANGED settingVars
  BY <1>4 DEF settingVars, Listed, Current, IsList, MostOf, Unread
<1> QED BY <1>1, <1>2, <1>3, <1>4 DEF SettingsNext

LEMMA ListedInductive == SettingsSpec => []Listed
<1> QED BY ListedStart, ListedStep, PTL DEF SettingsSpec

(* Saving or deleting one board or one profile leaves the others of the    *)
(* user, as long as the cache has what is stored and nothing failed: the   *)
(* lists that get_user_setting reads and save_user_setting replaces.       *)
THEOREM OthersAreKept == SettingsSpec => OthersKept
<1>1. Listed /\ [SettingsNext]_settingVars => [LosesNoOther]_settingVars
  BY ListedStep
<1>2. SettingsSpec => [][LosesNoOther]_settingVars
  BY <1>1, ListedInductive, PTL DEF SettingsSpec
<1> QED BY <1>2 DEF OthersKept, LosesNoOther, Lost

-----------------------------------------------------------------------------
(* The types                                                               *)

\* Each service takes its own steps, as if it were alone.
LEMMA ServicesAlone ==
    Spec => /\ OptionsSpec /\ DirectorySpec /\ AccessSpec
            /\ LimiterSpec /\ SettingsSpec /\ ApprovalsSpec
<1> DEFINE vars == <<focus, optionVars, directoryVars, accessVars, limiterVars, settingVars,
                    approvalVars>>
<1>1. Init => /\ OptionsInit /\ DirectoryInit /\ AccessInit
              /\ LimiterInit /\ SettingsInit /\ ApprovalsInit
  BY DEF Init
<1>2. [Next]_vars => [OptionsNext]_optionVars
  BY DEF Next
<1>3. [Next]_vars => [DirectoryNext]_directoryVars
  BY DEF Next
<1>4. [Next]_vars => [AccessNext]_accessVars
  BY DEF Next
<1>5. [Next]_vars => [LimiterNext]_limiterVars
  BY DEF Next
<1>6. [Next]_vars => [SettingsNext]_settingVars
  BY DEF Next
<1>7. [Next]_vars => [ApprovalsNext]_approvalVars
  BY DEF Next
<1> QED BY <1>1, <1>2, <1>3, <1>4, <1>5, <1>6, <1>7, PTL
        DEF Spec, OptionsSpec, DirectorySpec, AccessSpec, LimiterSpec, SettingsSpec, ApprovalsSpec

LEMMA OptionsTyped == OptionsSpec => []OptionsTypeOK
<1>1. Ordered => OptionsTypeOK
  BY DEF Ordered, OptionSet, IsOption, Windows, OptionsTypeOK
<1> QED BY <1>1, OptionsInductive, PTL

LEMMA AccessTyped == AccessSpec => []AccessTypeOK
<1>1. Traced => AccessTypeOK
  BY DEF Traced, CookiesTraced, AccessTypeOK
<1> QED BY <1>1, InitTraced, AccessStep, PTL DEF AccessSpec

\* Whoever is in the directory is an employee.
LEMMA EmployeesStay ==
    ASSUME active \subseteq Employees, [DirectoryNext]_directoryVars
    PROVE  active' \subseteq Employees
<1>1. CASE UNCHANGED active
  BY <1>1
<1>2. ASSUME NEW e \in Employees, EmployeeChanges(e)
      PROVE  active' \subseteq Employees
  BY <1>2 DEF EmployeeChanges
<1> QED BY <1>1, <1>2
        DEF DirectoryNext, directoryVars, sync_user_directory_identity, create_user_directory,
            add_vendor_owner_submit, ownership_reassign_submit, bulk_reassign_owner_assignments,
            Reassigned

LEMMA DirectoryTyped == DirectorySpec => []DirectoryTypeOK
<1>1. DirectoryInit => HandOver /\ active \subseteq Employees
  BY InitHandOver DEF DirectoryInit
<1>2. HandOver /\ active \subseteq Employees => DirectoryTypeOK
  BY DEF HandOver, Owned, DirectoryTypeOK
<1>3. active \subseteq Employees /\ [DirectoryNext]_directoryVars => (active \subseteq Employees)'
  BY EmployeesStay
<1> QED BY <1>1, <1>2, <1>3, DirectoryStep, PTL DEF DirectorySpec

\* A client is in both dictionaries, and was not seen later than now.
Clocked ==
    /\ now \in 0 .. MaxTime
    /\ DOMAIN last_seen = DOMAIN events
    /\ \A c \in DOMAIN last_seen : last_seen[c] \in 0 .. now

LEMMA ClockedStep ==
    ASSUME Clocked, [LimiterNext]_limiterVars
    PROVE  Clocked'
<1>0. MaxTime \in Nat
  BY LimiterAssumption
<1>1. CASE UNCHANGED limiterVars
  BY <1>1 DEF limiterVars, Clocked
<1>2. CASE Tick
  BY <1>0, <1>2 DEF Tick, Clocked
<1>3. ASSUME NEW c \in Clients, allow(c)
      PROVE  Clocked'
  <2> DEFINE known == DOMAIN events \cup {c}
             seen == [d \in known |-> IF d = c THEN now ELSE last_seen[d]]
  <2>1. PICK table : DOMAIN table = known /\ events' \in _trim_locked(table, seen)
    <3> DEFINE samples == IF c \in DOMAIN events THEN Trimmed(events[c]) ELSE <<>>
               full == Len(samples) >= max_requests
               asked == [d \in known |-> IF d # c THEN events[d]
                                         ELSE IF full THEN samples ELSE Append(samples, now)]
    <3>1. events' \in _trim_locked(asked, seen)
      BY <1>3 DEF allow
    <3>2. DOMAIN asked = known
      OBVIOUS
    <3> HIDE DEF asked, seen
    <3> QED BY <3>1, <3>2
  <2>2. now' = now /\ last_seen' = [d \in DOMAIN events' |-> seen[d]]
    BY <1>3 DEF allow
  <2>3. \A d \in known : seen[d] \in 0 .. now
    BY <1>0 DEF Clocked
  <2> HIDE DEF known, seen
  <2>4. DOMAIN events' \subseteq known
    BY <2>1 DEF _trim_locked
  <2> QED BY <2>2, <2>3, <2>4 DEF Clocked
<1> QED BY <1>1, <1>2, <1>3 DEF LimiterNext

LEMMA LimiterTyped == LimiterSpec => []LimiterTypeOK
<1>1. LimiterInit => Limited /\ Clocked
  BY LimitedInit, LimiterAssumption DEF LimiterInit, Clocked
<1>2. Limited /\ [LimiterNext]_limiterVars => Limited'
  BY LimitedNext
<1>3. Limited /\ Clocked => LimiterTypeOK
  BY DEF Limited, KnownOf, Sampled, Clocked, LimiterTypeOK
<1> QED BY <1>1, <1>2, <1>3, ClockedStep, PTL DEF LimiterSpec

LEMMA SettingsTyped == SettingsSpec => []SettingsTypeOK
<1>1. Listed => SettingsTypeOK
  <2> SUFFICES ASSUME Listed PROVE SettingsTypeOK
    OBVIOUS
  <2>1. ASSUME NEW s, NEW list, IsList(s, list)
        PROVE  IsInjective(list) /\ ToSet(list) \subseteq Items /\ Len(list) <= MostOf(s)
    BY <2>1 DEF IsList, ToSet
  <2> QED BY <2>1 DEF Listed, Current, MostOf, Settings, SettingsTypeOK
<1> QED BY <1>1, ListedInductive, PTL

-----------------------------------------------------------------------------
(* The types of the approvals                                              *)

LEMMA LesserOf ==
    ASSUME NEW a \in Int, NEW b \in Int
    PROVE  Min({a, b}) \in {a, b} /\ Min({a, b}) <= a /\ Min({a, b}) <= b
<1>1. \E x \in {a, b} : \A y \in {a, b} : x <= y
  <2>1. CASE a <= b
    BY <2>1
  <2>2. CASE ~(a <= b)
    BY <2>2
  <2> QED BY <2>1, <2>2
<1> QED BY <1>1 DEF Min

LEMMA CappedLevel ==
    ASSUME NEW level \in Int
    PROVE  Min({level, MAX_APPROVAL_LEVEL}) \in Int /\ Min({level, MAX_APPROVAL_LEVEL}) <= 10
BY LesserOf DEF MAX_APPROVAL_LEVEL

\* A request that was prepared has a level one can have.
LEMMA PreparedLevel ==
    ASSUME NEW level \in Int
    PROVE  _prepare_change_request_payload(level) \in 1 .. MAX_APPROVAL_LEVEL
<1> DEFINE least == Min({level, MAX_APPROVAL_LEVEL})
<1>1. least \in Int /\ least <= 10 /\ MAX_APPROVAL_LEVEL = 10
  BY CappedLevel DEF MAX_APPROVAL_LEVEL
<1> HIDE DEF least
<1>2. Max({1, least}) \in {1, least} /\ Max({1, least}) >= 1
  BY <1>1, GreaterOf
<1> QED BY <1>1, <1>2 DEF _prepare_change_request_payload, least

LEMMA RequiredLevel ==
    ASSUME NEW change
    PROVE  required_approval_level(change) \in Int
BY DEF required_approval_level, Changes, CHANGE_APPROVAL_LEVELS, DEFAULT_APPROVAL_LEVEL

LEMMA CreatedTyped ==
    ASSUME ApprovalsTypeOK,
           NEW id, NEW u \in Staff, NEW vendor \in Vendors \cup {GLOBAL_CHANGE_VENDOR_ID},
           NEW level, level \in Int, NEW owner \in Orgs \cup {NoRow},
           NEW orgs \in SUBSET (Orgs \cup {NoRow}),
           create_vendor_change_request(id, u, vendor, level, owner, orgs)
    PROVE  ApprovalsTypeOK'
<1> DEFINE row == [vendor |-> vendor, by |-> u, level |-> _prepare_change_request_payload(level),
                   owner |-> owner, orgs |-> orgs \ {NoRow}, status |-> "submitted"]
<1>1. row \in RequestRows
  BY PreparedLevel DEF RequestRows, list_workflow_status_options
<1>2. requests' = [requests EXCEPT ![id] = row] /\ UNCHANGED <<owner_org, scopes>>
  BY DEF create_vendor_change_request
<1> HIDE DEF row
<1> QED BY <1>1, <1>2 DEF ApprovalsTypeOK

LEMMA ApprovalsTypedStep == ApprovalsTypeOK /\ [ApprovalsNext]_approvalVars => ApprovalsTypeOK'
<1> SUFFICES ASSUME ApprovalsTypeOK, [ApprovalsNext]_approvalVars PROVE ApprovalsTypeOK'
  OBVIOUS
<1>1. CASE UNCHANGED approvalVars
  BY <1>1 DEF ApprovalsTypeOK, approvalVars
<1>2. ASSUME NEW u \in Staff, NEW id \in RequestIds, submit_access_request(id, u)
      PROVE  ApprovalsTypeOK'
  BY <1>2, RequiredLevel, CreatedTyped DEF submit_access_request
<1>3. ASSUME NEW u \in Staff, NEW id \in RequestIds, NEW decision \in list_workflow_status_options,
             workflow_decision(u, id, decision)
      PROVE  ApprovalsTypeOK'
  <2> DEFINE row == [requests[id] EXCEPT !.status = decision]
  <2>1. requests[id] \in RequestRows
    BY <1>3 DEF workflow_decision, MayDecide, ApprovalsTypeOK
  <2>2. row \in RequestRows
    <3>1. PICK r \in RequestRows : r = requests[id]
      BY <2>1
    <3>2. [r EXCEPT !.status = decision] \in RequestRows
      BY DEF RequestRows
    <3> QED BY <3>1, <3>2
  <2>3. requests' = [requests EXCEPT ![id] = row] /\ UNCHANGED <<owner_org, scopes>>
    BY <1>3 DEF workflow_decision
  <2> HIDE DEF row
  <2> QED BY <2>2, <2>3 DEF ApprovalsTypeOK
<1>4. ASSUME NEW u \in Staff, NEW id \in RequestIds, NEW org \in Orgs, vendor_new_submit(id, u, org)
      PROVE  ApprovalsTypeOK'
  BY <1>4, RequiredLevel, CreatedTyped DEF vendor_new_submit, Asks
<1>5. ASSUME NEW u \in Staff, NEW id \in RequestIds, NEW v \in Vendors, NEW form \in Forms,
             vendor_change_request(id, u, v, form)
      PROVE  ApprovalsTypeOK'
  <2> DEFINE minimum == required_approval_level(form.change)
             least == Min({form.level, MAX_APPROVAL_LEVEL})
             chosen == Max({minimum, least})
  <2>1. minimum \in Int
    BY RequiredLevel
  <2>2. least \in Int
    <3>1. PICK level \in Int : level = form.level
      BY ApprovalsAssumption
    <3>2. least = Min({level, MAX_APPROVAL_LEVEL})
      BY <3>1
    <3> HIDE DEF least
    <3> QED BY <3>2, CappedLevel
  <2>3. create_vendor_change_request(id, u, v, chosen, NoRow, {})
    BY <1>5 DEF vendor_change_request
  <2> HIDE DEF minimum, least
  <2>4. chosen \in Int
    BY <2>1, <2>2, GreaterOf
  <2> HIDE DEF chosen
  <2> QED BY <2>3, <2>4, CreatedTyped
<1>6. ASSUME NEW u \in Staff, NEW id \in RequestIds, NEW v \in Vendors, NEW org \in Orgs \cup {NoRow},
             \/ add_vendor_org_assignment_submit(id, u, v, org)
             \/ update_vendor_ownership_lob_submit(id, u, v, org)
      PROVE  ApprovalsTypeOK'
  <2>1. CASE SetOwner(v, org)
    BY <2>1 DEF SetOwner, ApprovalsTypeOK
  <2>2. ASSUME NEW change, Asks(id, u, v, change, NoRow, {org})
        PROVE  ApprovalsTypeOK'
    BY <2>2, RequiredLevel, CreatedTyped DEF Asks
  <2> QED BY <1>6, <2>1, <2>2
          DEF add_vendor_org_assignment_submit, update_vendor_ownership_lob_submit
<1>7. ASSUME NEW u \in Staff, NEW v \in Vendors, NEW org \in Orgs \cup {NoRow},
             vendor_direct_update(u, v, org)
      PROVE  ApprovalsTypeOK'
  BY <1>7 DEF vendor_direct_update, SetOwner, ApprovalsTypeOK
<1>8. ASSUME NEW u \in Staff, NEW who \in Staff, NEW scope \in Orgs \cup {Enterprise},
             grant_scope(u, who, scope) \/ revoke_scope(u, who, scope)
      PROVE  ApprovalsTypeOK'
  BY <1>8 DEF grant_scope, revoke_scope, ApprovalsTypeOK
<1> QED BY <1>1, <1>2, <1>3, <1>4, <1>5, <1>6, <1>7, <1>8 DEF ApprovalsNext

LEMMA ApprovalsTyped == ApprovalsSpec => []ApprovalsTypeOK
<1>1. ApprovalsInit => ApprovalsTypeOK
  BY DEF ApprovalsInit, ApprovalsTypeOK
<1> QED BY <1>1, ApprovalsTypedStep, PTL DEF ApprovalsSpec

(* Every service keeps its types, whichever of them moves: among others    *)
(* the limits on the options, on the samples of a client and on the lists  *)
(* of a user, which the code only trims when it writes.                    *)
THEOREM ServicesTyped == Spec => []ServicesTypeOK
<1>1. /\ OptionsTypeOK /\ DirectoryTypeOK /\ AccessTypeOK
      /\ LimiterTypeOK /\ SettingsTypeOK /\ ApprovalsTypeOK
      => ServicesTypeOK
  BY DEF ServicesTypeOK
<1> QED BY <1>1, ServicesAlone, OptionsTyped, DirectoryTyped, AccessTyped, LimiterTyped,
           SettingsTyped, ApprovalsTyped, PTL
=============================================================================
