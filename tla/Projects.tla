------------------------------ MODULE Projects ------------------------------
(***************************************************************************)
(* Projects, the vendors and offerings attached to them, and the demos    *)
(* and notes filed under a project and one of its vendors.  An update      *)
(* that gives vendors or offerings closes every map row and inserts the    *)
(* new ones one by one; when a statement fails the rest does not happen.   *)
(***************************************************************************)
EXTENDS Catalogue

CONSTANTS ProjectIds, DemoIds,
          Rank   \* the order of the identifiers of vendors

NoVendor == "no vendor"
ProjectDemoRows == [project : ProjectIds, vendor : Vendors,
                    offering : Offerings \cup {NoOffering}, active : BOOLEAN]

ASSUME ProjectsAssumption ==
    /\ Rank \in [Vendors -> Nat]
    /\ NoVendor \notin Vendors /\ NoRow \notin Vendors \cup {NoVendor}

VARIABLES
    primary,      \* vendor_id in app_project, NoRow for an identifier without a project
    vendorMap,    \* the active rows of app_project_vendor_map
    offeringMap,  \* the active rows of app_project_offering_map
    projectDemos, \* app_project_demo
    notes,        \* <<project, vendor>> of the rows of app_project_note
    broken,       \* ghost: the projects whose last update of the maps broke off
    narrowed      \* ghost: those whose vendors became fewer while the offerings stayed

mapVars == <<primary, vendorMap, offeringMap, broken, narrowed>>
projectVars == <<mapVars, projectDemos, notes>>

ProjectsInit ==
    /\ primary = [j \in ProjectIds |-> NoRow]
    /\ vendorMap = [j \in ProjectIds |-> {}]
    /\ offeringMap = [j \in ProjectIds |-> {}]
    /\ projectDemos = [d \in DemoIds |-> NoRow]
    /\ notes = {}
    /\ broken = {} /\ narrowed = {}

ProjectsTypeOK ==
    /\ primary \in [ProjectIds -> Vendors \cup {NoVendor, NoRow}]
    /\ vendorMap \in [ProjectIds -> SUBSET Vendors]
    /\ offeringMap \in [ProjectIds -> SUBSET Offerings]
    /\ projectDemos \in [DemoIds -> ProjectDemoRows \cup {NoRow}]
    /\ notes \subseteq ProjectIds \X Vendors
    /\ broken \subseteq ProjectIds /\ narrowed \subseteq ProjectIds

-----------------------------------------------------------------------------
(* Reads.                                                                  *)

VendorsOf(O) == {VendorOf[o] : o \in O}

\* What may be read: without map rows the primary vendor stands in, and a
\* read that fails finds no row.
_project_vendor_ids(j) ==
    LET primaryOnly == {primary[j]} \ {NoVendor, NoRow}
    IN {IF vendorMap[j] # {} THEN vendorMap[j] ELSE primaryOnly}
           \cup IF Faults THEN {primaryOnly, {}} ELSE {}

project_belongs_to_vendor(v, j) == \E theirs \in _project_vendor_ids(j) : v \in theirs
list_project_offerings(j) == {offeringMap[j]} \cup IF Faults THEN {{}} ELSE {}
get_project_by_id(j) == j \in Present(primary)

BadFirstOf(V) == NoVendor                   \* attaching loses the primary vendor
\* They are listed by identifier, whichever was given first.
FirstOf(V) == IF V = {} THEN NoVendor
              ELSE CHOOSE v \in V : \A w \in V : Rank[v] <= Rank[w]

list_project_demos(v, j) ==
    {d \in Present(projectDemos) :
        projectDemos[d].vendor = v /\ projectDemos[d].project = j /\ projectDemos[d].active}

-----------------------------------------------------------------------------
(* Create and update.                                                      *)

\* The maps after the rows up to the first failure.
Maps(V, O) ==
    {<<V, O>>} \cup IF ~Faults THEN {}
                    ELSE ((SUBSET V) \X {{}}) \cup ({V} \X SUBSET O)

create_project(j, first, V, O) ==
    LET all == V \cup VendorsOf(O)
    IN /\ ~get_project_by_id(j)
       /\ primary' = [primary EXCEPT ![j] = first]
       /\ \E m \in Maps(all, O) :
            /\ vendorMap' = [vendorMap EXCEPT ![j] = m[1]]
            /\ offeringMap' = [offeringMap EXCEPT ![j] = m[2]]
            /\ broken' = IF m = <<all, O>> THEN broken \ {j} ELSE broken \cup {j}
       /\ narrowed' = narrowed \ {j}
       /\ UNCHANGED <<projectDemos, notes>>

\* With the vendors alone the offerings stay attached, whosever they are.
update_project_vendors(j, first, V) ==
    /\ get_project_by_id(j)
    /\ primary' = [primary EXCEPT ![j] = first]
    /\ \/ vendorMap' = [vendorMap EXCEPT ![j] = V] /\ UNCHANGED broken
       \/ \E done \in {vendorMap[j]} \cup SUBSET V : /\ Faults /\ broken' = broken \cup {j}
                                                    /\ vendorMap' = [vendorMap EXCEPT ![j] = done]
    /\ narrowed' = IF vendorMap[j] \subseteq V THEN narrowed ELSE narrowed \cup {j}
    /\ UNCHANGED <<offeringMap, projectDemos, notes>>

\* With both, a failure may come before either map is touched, within the
\* first, between the two or within the second.
update_project(j, first, V, O) ==
    LET all == V \cup VendorsOf(O)
        fails == {<<vendorMap[j], offeringMap[j]>>}
                    \cup ((SUBSET all) \X {offeringMap[j]}) \cup ({all} \X SUBSET O)
    IN /\ get_project_by_id(j)
       /\ primary' = [primary EXCEPT ![j] = first]
       /\ \E m \in {<<all, O>>} \cup IF Faults THEN fails ELSE {} :
            /\ vendorMap' = [vendorMap EXCEPT ![j] = m[1]]
            /\ offeringMap' = [offeringMap EXCEPT ![j] = m[2]]
            /\ broken' = IF m = <<all, O>> THEN broken \ {j} ELSE broken \cup {j}
       /\ narrowed' = narrowed \ {j}
       /\ UNCHANGED <<projectDemos, notes>>

\* Which of the vendors of a form comes first: one of those chosen, or else
\* one of an offering.
Firsts(V, O) == IF V # {} THEN V ELSE IF O # {} THEN VendorsOf(O) ELSE {NoVendor}

projects_new_submit(p, j, V, O) ==
    /\ MayWrite(p, "project_create")
    /\ can_apply_change(p, "create_project")
    /\ \E first \in Firsts(V, O) : create_project(j, first, V, O)

\* From the page of a vendor, which then is the first unless it was chosen
\* among others; the one handler that does not ask for can_edit.
vendor_project_new_submit(p, v, j, V, O) ==
    /\ require_permission(p, "project_create") /\ ~_write_blocked
    /\ can_apply_change(p, "create_project")
    /\ create_project(j, v, V \cup {v}, O)

project_edit_submit(p, j, V, O) ==
    /\ MayWrite(p, "project_edit")
    /\ can_apply_change(p, "update_project")
    /\ \E first \in Firsts(V, O) : update_project(j, first, V, O)

vendor_project_edit_submit(p, v, j, V, O) ==
    /\ MayWrite(p, "project_edit")
    /\ project_belongs_to_vendor(v, j)
    /\ can_apply_change(p, "update_project")
    /\ \E first \in IF v \in V THEN V ELSE {v} : update_project(j, first, V \cup {v}, O)

-----------------------------------------------------------------------------
(* Attach: the vendors and offerings there are, and one more.              *)

\* The vendors there are come in the order of their identifiers, so the
\* first of them becomes primary.
project_add_vendor(p, j, v) ==
    \E theirs \in _project_vendor_ids(j) :
       /\ MayWrite(p, "project_vendor_add")
       /\ can_apply_change(p, "attach_project_vendor")
       /\ update_project_vendors(j, FirstOf(IF theirs = {} THEN {v} ELSE theirs), theirs \cup {v})

project_add_offering(p, j, o) ==
    \E theirs \in _project_vendor_ids(j), O \in list_project_offerings(j) :
       /\ MayWrite(p, "project_offering_add")
       /\ can_apply_change(p, "attach_project_offering")
       /\ update_project(j, FirstOf(IF theirs = {} THEN {VendorOf[o]} ELSE theirs),
                         theirs \cup {VendorOf[o]}, O \cup {o})

-----------------------------------------------------------------------------
(* The rows of an import, which go without a request.  A row that is       *)
(* merged leaves the project with one vendor, the one it names or else the *)
(* primary one, and says nothing of the offerings.                         *)

import_project_new(p, j, V) ==
    MayWrite(p, "import_apply") /\ create_project(j, FirstOf(V), V, {})

import_project_merge(p, j, V) ==
    LET named == IF V = {} THEN {primary[j]} \ {NoVendor} ELSE V
    IN /\ MayWrite(p, "import_apply")
       /\ get_project_by_id(j)
       /\ named # {} /\ \A v \in named : project_belongs_to_vendor(v, j)
       /\ update_project_vendors(j, FirstOf(named), named)

-----------------------------------------------------------------------------
(* Demos and notes of a project.                                           *)

create_project_demo(v, j, o) ==
    /\ project_belongs_to_vendor(v, j)
    /\ Mappable(v, o)
    /\ \E d \in Unused(projectDemos) : projectDemos' = [projectDemos EXCEPT ![d] =
           [project |-> j, vendor |-> v, offering |-> o, active |-> TRUE]]
    /\ UNCHANGED <<mapVars, notes>>

\* Under the offering of the demo of the vendor it copies.
map_vendor_demo_to_project(v, j, o) == create_project_demo(v, j, o)

\* Whether the vendor is still attached is not asked.
update_project_demo(v, j, d, o) ==
    /\ d \in list_project_demos(v, j)
    /\ Mappable(v, o)
    /\ projectDemos' = [projectDemos EXCEPT ![d].offering = o]
    /\ UNCHANGED <<mapVars, notes>>

remove_project_demo(v, j, d) ==
    /\ d \in list_project_demos(v, j)
    /\ projectDemos' = [projectDemos EXCEPT ![d].active = FALSE]
    /\ UNCHANGED <<mapVars, notes>>

\* Under the primary vendor if there is one, which must be attached.
add_project_note(j) ==
    \E theirs \in _project_vendor_ids(j) :
       LET v == IF primary[j] = NoVendor THEN FirstOf(theirs) ELSE primary[j]
       IN /\ get_project_by_id(j)
          /\ project_belongs_to_vendor(v, j)
          /\ notes' = notes \cup {<<j, v>>}
          /\ UNCHANGED <<mapVars, projectDemos>>

project_demo_new_submit(p, v, j, o) ==
    /\ MayWrite(p, "project_demo_create")
    /\ can_apply_change(p, "create_project_demo")
    /\ create_project_demo(v, j, o)

\* Does not ask can_apply_change.
project_demo_map_submit(p, v, j, o) ==
    MayWrite(p, "project_demo_map") /\ map_vendor_demo_to_project(v, j, o)

\* A field the form leaves empty stays as it is.
project_demo_update_submit(p, v, j, d, o) ==
    /\ MayWrite(p, "project_demo_update")
    /\ can_apply_change(p, "update_project_demo")
    /\ o # NoOffering
    /\ update_project_demo(v, j, d, o)

project_demo_remove_submit(p, v, j, d) ==
    /\ MayWrite(p, "project_demo_delete")
    /\ can_apply_change(p, "remove_project_demo")
    /\ remove_project_demo(v, j, d)

project_note_add(p, j) ==
    /\ MayWrite(p, "project_note_create")
    /\ can_apply_change(p, "add_project_note")
    /\ add_project_note(j)

-----------------------------------------------------------------------------
ProjectsNext ==
    \E p \in Policies, j \in ProjectIds :
        \/ \E V \in SUBSET Vendors, O \in SUBSET Offerings :
             \/ projects_new_submit(p, j, V, O)
             \/ project_edit_submit(p, j, V, O)
             \/ \E v \in Vendors : \/ vendor_project_new_submit(p, v, j, V, O)
                                   \/ vendor_project_edit_submit(p, v, j, V, O)
        \/ \E v \in Vendors : project_add_vendor(p, j, v)
        \/ \E o \in Offerings : project_add_offering(p, j, o)
        \/ \E V \in {{}} \cup {{v} : v \in Vendors} :
             import_project_new(p, j, V) \/ import_project_merge(p, j, V)
        \/ \E v \in Vendors, o \in Offerings \cup {NoOffering} :
             \/ project_demo_new_submit(p, v, j, o)
             \/ project_demo_map_submit(p, v, j, o)
             \/ \E d \in DemoIds : project_demo_update_submit(p, v, j, d, o)
        \/ \E v \in Vendors, d \in DemoIds : project_demo_remove_submit(p, v, j, d)
        \/ project_note_add(p, j)

ProjectsSpec == ProjectsInit /\ [][ProjectsNext]_projectVars

-----------------------------------------------------------------------------
(* Properties.                                                             *)

(* The vendors of the offerings attached to a project are attached too, so *)
(* it is found on their pages, whichever page, list or attached row wrote  *)
(* the maps: all but two things see to that.  An update may break off, and *)
(* one that gives the vendors alone may give fewer than there are, as an   *)
(* import does that merges a project, or one who attaches a vendor when    *)
(* those there are could not be read; an edit of both lists makes up for   *)
(* either.                                                                 *)
OfferingsBringVendors ==
    \A j \in ProjectIds \ (broken \cup narrowed) : VendorsOf(offeringMap[j]) \subseteq vendorMap[j]

(* The primary vendor of a project is one of its vendors, or it has none,  *)
(* so notes can be filed and access be told by either.                     *)
PrimaryIsAttached ==
    \A j \in Present(primary) \ broken :
        IF vendorMap[j] = {} THEN primary[j] = NoVendor ELSE primary[j] \in vendorMap[j]
=============================================================================
