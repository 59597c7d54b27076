------------------------------ MODULE Offerings ------------------------------
(***************************************************************************)
(* What is kept about vendors and offerings besides their own rows:       *)
(* owners, contacts, line-of-business assignments, warnings, invoices,     *)
(* data flows, tickets, notes, profiles and document links.  A write is    *)
(* one statement and then the audit record of it; the audit helper         *)
(* swallows its own failure.  A request that is refused, that submits a    *)
(* change request (ChangeRequests) or whose statement fails changes        *)
(* nothing here and is a stuttering step.                                  *)
(***************************************************************************)
EXTENDS Catalogue

CONSTANTS RowIds,
          Values      \* what a row says: its owner, status, direction ...

OfOffering == {"owner", "contact", "invoice", "data flow", "ticket", "note", "profile"}
OfVendor == {"vendor owner", "org assignment", "vendor contact", "warning"}
Documents == {"document"}
Row(kind, v, o, x) == [kind |-> kind, vendor |-> v, offering |-> o, value |-> x, active |-> TRUE]
OfferingRows ==
    [kind : OfOffering \cup OfVendor \cup Documents, vendor : Vendors,
     offering : Offerings \cup {NoOffering}, value : Values, active : BOOLEAN]

ASSUME OfferingsAssumption == NoRow \notin OfferingRows /\ NoOffering \notin Offerings

VARIABLES
    rows,    \* the rows of these tables, by identifier
    trail,   \* the rows as a reader of audit_entity_change last heard of them
    untold   \* ghost: the rows whose trail is known not to tell what they are

offeringVars == <<rows, trail, untold>>

OfferingsInit ==
    /\ rows = [r \in RowIds |-> NoRow]
    /\ trail = rows
    /\ untold = {}

OfferingsTypeOK ==
    /\ rows \in [RowIds -> OfferingRows \cup {NoRow}]
    /\ trail \in [RowIds -> OfferingRows \cup {NoRow}]
    /\ untold \subseteq RowIds

-----------------------------------------------------------------------------
(* One statement, and its audit record unless that is lost.                *)

BadStatement(r, row, told) ==               \* the record tells what the row was before
    /\ rows' = [rows EXCEPT ![r] = row]
    /\ \/ trail' = [trail EXCEPT ![r] = rows[r]] /\ untold' = untold \ {r}
       \/ Faults /\ UNCHANGED trail /\ untold' = untold \cup {r}
Statement(r, row, told) ==
    /\ rows' = [rows EXCEPT ![r] = row]
    /\ \/ trail' = [trail EXCEPT ![r] = told] /\ untold' = untold \ {r}
       \/ Faults /\ UNCHANGED trail /\ untold' = untold \cup {r}

Create(kind, v, o, x) == \E r \in Unused(rows) : LET row == Row(kind, v, o, x)
                                                 IN Statement(r, row, row)
Amend(r, x) == LET row == [rows[r] EXCEPT !.value = x] IN Statement(r, row, row)
Retire(r) == LET row == [rows[r] EXCEPT !.active = FALSE] IN Statement(r, row, row)

RowsOf(kind, v) == {r \in Present(rows) : rows[r].kind = kind /\ rows[r].vendor = v}
RowsAt(kind, o) == {r \in Present(rows) : rows[r].kind = kind /\ rows[r].offering = o}

-----------------------------------------------------------------------------
(* The rows of a vendor.                                                   *)

add_vendor_owner(v, x) == Create("vendor owner", v, NoOffering, x)
add_vendor_org_assignment(v, x) == Create("org assignment", v, NoOffering, x)
add_vendor_contact(v, x) == Create("vendor contact", v, NoOffering, x)
create_vendor_warning(v, x) == Create("warning", v, NoOffering, x)

\* Also from resolved back to open.
resolve_vendor_warning(v, r, x) == r \in RowsOf("warning", v) /\ Amend(r, x)

add_vendor_owner_submit(p, v, x) ==
    /\ MayWrite(p, "vendor_owner_create")
    /\ can_apply_change(p, "add_vendor_owner")
    /\ add_vendor_owner(v, x)

add_vendor_org_assignment_submit(p, v, x) ==
    /\ MayWrite(p, "vendor_org_assignment_create")
    /\ can_apply_change(p, "add_vendor_org_assignment")
    /\ add_vendor_org_assignment(v, x)

add_vendor_contact_submit(p, v, x) ==
    /\ require_permission(p, "vendor_contact_create") /\ ~_write_blocked
    /\ can_apply_change(p, "add_vendor_contact")
    /\ add_vendor_contact(v, x)

\* A missing line of business is added; the profile is in VendorHistory.
update_vendor_ownership_lob_submit(p, v, x) ==
    /\ MayWrite(p, "vendor_edit")
    /\ can_apply_change(p, "update_vendor_profile")
    /\ \A r \in RowsOf("org assignment", v) : rows[r].active => rows[r].value # x
    /\ add_vendor_org_assignment(v, x)

add_vendor_warning_submit(p, v, x) ==
    MayWrite(p, "vendor_edit") /\ create_vendor_warning(v, x)

resolve_vendor_warning_submit(p, v, r, x) ==
    MayWrite(p, "vendor_edit") /\ resolve_vendor_warning(v, r, x)

-----------------------------------------------------------------------------
(* Owners and contacts of an offering.                                     *)

add_offering_owner(v, o, x) ==
    offering_belongs_to_vendor(v, o) /\ Create("owner", v, o, x)

add_offering_contact(v, o, x) ==
    offering_belongs_to_vendor(v, o) /\ Create("contact", v, o, x)

\* The audit record tells of a removal whether or not a row of the offering
\* has the identifier.
RetireAt(kind, o, r) ==
    \/ r \in RowsAt(kind, o) /\ Retire(r)
    \/ /\ r \in Present(rows) \ RowsAt(kind, o)
       /\ rows[r].kind = kind
       /\ trail' = [trail EXCEPT ![r] = [rows[r] EXCEPT !.active = FALSE]]
       /\ untold' = untold \cup {r}
       /\ UNCHANGED rows

remove_offering_owner(v, o, r) == offering_belongs_to_vendor(v, o) /\ RetireAt("owner", o, r)
remove_offering_contact(v, o, r) ==
    offering_belongs_to_vendor(v, o) /\ RetireAt("contact", o, r)

get_vendor_offering_business_owners(v) == RowsOf("owner", v)

\* Of a removed assignment too.
update_offering_owner(v, o, r, x) ==
    /\ offering_belongs_to_vendor(v, o)
    /\ r \in RowsAt("owner", o)
    /\ Amend(r, x)

\* Row by row, without a record; any prefix may be all that happens.
bulk_reassign_offering_owner(v, from, to) ==
    LET theirs == {r \in get_vendor_offering_business_owners(v) :
                     rows[r].active /\ rows[r].value = from}
    IN /\ from # to
       /\ \E done \in SUBSET theirs :
            /\ Faults \/ done = theirs
            /\ rows' = [r \in RowIds |-> IF r \in done THEN [rows[r] EXCEPT !.value = to]
                                         ELSE rows[r]]
            /\ untold' = untold \cup done
            /\ UNCHANGED trail

add_offering_owner_submit(p, v, o, x) ==
    /\ require_permission(p, "offering_owner_create") /\ ~_write_blocked
    /\ can_apply_change(p, "add_offering_owner")
    /\ add_offering_owner(v, o, x)

remove_offering_owner_submit(p, v, o, r) ==
    /\ MayWrite(p, "offering_owner_delete")
    /\ can_apply_change(p, "remove_offering_owner")
    /\ remove_offering_owner(v, o, r)

update_offering_owner_submit(p, v, o, r, x) ==
    /\ MayWrite(p, "offering_owner_edit")
    /\ r \in get_vendor_offering_business_owners(v) \cap RowsAt("owner", o)
    /\ can_apply_change(p, "add_offering_owner")
    /\ update_offering_owner(v, o, r, x)

\* Neither asks can_apply_change.
reassign_single_offering_owner_submit(p, v, o, r, to) ==
    /\ MayWrite(p, "offering_owner_edit")
    /\ r \in get_vendor_offering_business_owners(v) \cap RowsAt("owner", o)
    /\ rows[r].value # to
    /\ update_offering_owner(v, o, r, to)

bulk_reassign_offering_owner_submit(p, v, from, to) ==
    MayWrite(p, "offering_owner_edit") /\ bulk_reassign_offering_owner(v, from, to)

add_offering_contact_submit(p, v, o, x) ==
    /\ require_permission(p, "offering_contact_create") /\ ~_write_blocked
    /\ can_apply_change(p, "add_offering_contact")
    /\ add_offering_contact(v, o, x)

remove_offering_contact_submit(p, v, o, r) ==
    /\ MayWrite(p, "offering_contact_delete")
    /\ can_apply_change(p, "remove_offering_contact")
    /\ remove_offering_contact(v, o, r)

-----------------------------------------------------------------------------
(* Invoices, data flows, tickets, notes and the profile of an offering.    *)

add_offering_invoice(v, o, x) ==
    offering_belongs_to_vendor(v, o) /\ Create("invoice", v, o, x)

get_offering_invoice(v, o) == RowsOf("invoice", v) \cap RowsAt("invoice", o)
remove_offering_invoice(v, o, r) == r \in get_offering_invoice(v, o) /\ Retire(r)

add_offering_data_flow(v, o, x) ==
    offering_belongs_to_vendor(v, o) /\ Create("data flow", v, o, x)

\* Of removed flows too: the updates of a flow do not ask whether it is active.
get_offering_data_flow(v, o) == RowsOf("data flow", v) \cap RowsAt("data flow", o)
remove_offering_data_flow(v, o, r) == r \in get_offering_data_flow(v, o) /\ Retire(r)
update_offering_data_flow(v, o, r, x) ==
    /\ offering_belongs_to_vendor(v, o)
    /\ r \in get_offering_data_flow(v, o)
    /\ Amend(r, x)

add_offering_ticket(v, o, x) ==
    offering_belongs_to_vendor(v, o) /\ Create("ticket", v, o, x)
update_offering_ticket(v, o, r, x) ==
    /\ offering_belongs_to_vendor(v, o)
    /\ r \in RowsOf("ticket", v) \cap RowsAt("ticket", o) /\ rows[r].active
    /\ Amend(r, x)

add_offering_note(v, o, x) ==
    offering_belongs_to_vendor(v, o) /\ Create("note", v, o, x)

get_offering_profile(v, o) == RowsOf("profile", v) \cap RowsAt("profile", o)
save_offering_profile(v, o, x) ==
    /\ offering_belongs_to_vendor(v, o)
    /\ \/ get_offering_profile(v, o) = {} /\ Create("profile", v, o, x)
       \/ \E r \in get_offering_profile(v, o) : Amend(r, x)

\* The one handler of these that does not ask for can_edit.
add_offering_invoice_submit(p, v, o, x) ==
    /\ require_permission(p, "offering_invoice_create") /\ ~_write_blocked
    /\ can_apply_change(p, "add_offering_invoice")
    /\ add_offering_invoice(v, o, x)

remove_offering_invoice_submit(p, v, o, r) ==
    /\ MayWrite(p, "offering_invoice_delete")
    /\ can_apply_change(p, "remove_offering_invoice")
    /\ remove_offering_invoice(v, o, r)

offering_profile_save_submit(p, v, o, x) ==
    /\ MayWrite(p, "offering_profile_edit")
    /\ can_apply_change(p, "update_offering_profile")
    /\ save_offering_profile(v, o, x)

add_offering_data_flow_submit(p, v, o, x) ==
    /\ MayWrite(p, "offering_dataflow_create")
    /\ can_apply_change(p, "update_offering_profile")
    /\ add_offering_data_flow(v, o, x)

remove_offering_data_flow_submit(p, v, o, r) ==
    /\ MayWrite(p, "offering_dataflow_delete") /\ offering_belongs_to_vendor(v, o)
    /\ can_apply_change(p, "update_offering_profile")
    /\ remove_offering_data_flow(v, o, r)

update_offering_data_flow_submit(p, v, o, r, x) ==
    /\ MayWrite(p, "offering_dataflow_edit")
    /\ can_apply_change(p, "update_offering_profile")
    /\ update_offering_data_flow(v, o, r, x)

add_offering_note_submit(p, v, o, x) ==
    /\ MayWrite(p, "offering_note_create")
    /\ can_apply_change(p, "add_offering_note")
    /\ add_offering_note(v, o, x)

add_offering_ticket_submit(p, v, o, x) ==
    /\ MayWrite(p, "offering_ticket_create")
    /\ can_apply_change(p, "add_offering_ticket")
    /\ add_offering_ticket(v, o, x)

update_offering_ticket_status_submit(p, v, o, r, x) ==
    /\ MayWrite(p, "offering_ticket_update")
    /\ can_apply_change(p, "update_offering_ticket")
    /\ update_offering_ticket(v, o, r, x)

-----------------------------------------------------------------------------
(* Document links of a vendor (NoOffering) or of one of its offerings;     *)
(* those of projects and demos are left out.                               *)

_entity_exists_for_doc(v, o) == Mappable(v, o)
create_doc_link(v, o, x) == Create("document", v, o, x)

_create_doc_link_for_entity(p, v, o, x) ==
    /\ ~_write_blocked /\ p.edit
    /\ _entity_exists_for_doc(v, o)
    /\ can_apply_change(p, "create_doc_link")
    /\ create_doc_link(v, o, x)

vendor_doc_link_submit(p, v, x) ==
    /\ require_permission(p, "vendor_doc_create")
    /\ _create_doc_link_for_entity(p, v, NoOffering, x)
offering_doc_link_submit(p, v, o, x) ==
    /\ require_permission(p, "offering_doc_create")
    /\ _create_doc_link_for_entity(p, v, o, x)

\* Whether or not it is active: a link may be removed twice.
get_doc_link == {r \in Present(rows) : rows[r].kind = "document"}
remove_doc_link(r) == r \in get_doc_link /\ Retire(r)

doc_link_remove_submit(p, r) ==
    /\ MayWrite(p, "doc_delete")
    /\ can_apply_change(p, "remove_doc_link")
    /\ remove_doc_link(r)

-----------------------------------------------------------------------------
OfVendorNext(p, v) ==
    \E x \in Values :
        \/ add_vendor_owner_submit(p, v, x)
        \/ add_vendor_org_assignment_submit(p, v, x)
        \/ add_vendor_contact_submit(p, v, x)
        \/ update_vendor_ownership_lob_submit(p, v, x)
        \/ add_vendor_warning_submit(p, v, x)
        \/ vendor_doc_link_submit(p, v, x)
        \/ \E r \in RowIds : resolve_vendor_warning_submit(p, v, r, x)
        \/ \E to \in Values : bulk_reassign_offering_owner_submit(p, v, x, to)

EnterNext(p, v, o, x) ==
    \/ add_offering_owner_submit(p, v, o, x)
    \/ add_offering_contact_submit(p, v, o, x)
    \/ add_offering_invoice_submit(p, v, o, x)
    \/ add_offering_data_flow_submit(p, v, o, x)
    \/ add_offering_note_submit(p, v, o, x)
    \/ add_offering_ticket_submit(p, v, o, x)
    \/ offering_profile_save_submit(p, v, o, x)
    \/ offering_doc_link_submit(p, v, o, x)

EditNext(p, v, o, r) ==
    \/ remove_offering_owner_submit(p, v, o, r)
    \/ remove_offering_contact_submit(p, v, o, r)
    \/ remove_offering_invoice_submit(p, v, o, r)
    \/ remove_offering_data_flow_submit(p, v, o, r)
    \/ \E x \in Values :
         \/ update_offering_owner_submit(p, v, o, r, x)
         \/ reassign_single_offering_owner_submit(p, v, o, r, x)
         \/ update_offering_data_flow_submit(p, v, o, r, x)
         \/ update_offering_ticket_status_submit(p, v, o, r, x)

OfferingsNext ==
    \E p \in Policies :
        \/ \E v \in Vendors :
             \/ OfVendorNext(p, v)
             \/ \E o \in Offerings :
                  \/ \E x \in Values : EnterNext(p, v, o, x)
                  \/ \E r \in RowIds : EditNext(p, v, o, r)
        \/ \E r \in RowIds : doc_link_remove_submit(p, r)

OfferingsSpec == OfferingsInit /\ [][OfferingsNext]_offeringVars

-----------------------------------------------------------------------------
(* Properties.                                                             *)

(* Who reads the audit trail learns what every row is now: the known      *)
(* exceptions are rows whose audit record was lost, rows reassigned in     *)
(* bulk, and rows whose identifier was posted to another offering's page.  *)
TrailReplays ==
    \A r \in RowIds \ untold : trail[r] = rows[r]

(* Each row names the vendor of its offering, so the pages of the vendor   *)
(* and of the offering show the same rows.                                 *)
RowsOfVendor ==
    \A r \in Present(rows) :
        rows[r].offering # NoOffering => VendorOf[rows[r].offering] = rows[r].vendor
=============================================================================
