---------------------------- MODULE VendorHistory ----------------------------
(***************************************************************************)
(* The rows of vendors and offerings themselves, and the versions of a     *)
(* vendor that hist_vendor keeps.  An update of a vendor is a sequence of  *)
(* statements: the approved request and its event, the update, the close   *)
(* of the current version, the next version, the audit record; a failure   *)
(* of the update ends the request, a failure of any other is swallowed.    *)
(* The request and its event are in ChangeRequests.                        *)
(***************************************************************************)
EXTENDS Catalogue, SequencesExt

CONSTANTS Profiles,     \* what the row of a vendor or of an offering says
          MaxHistory   \* bound on the versions of a vendor

VARIABLES
    vendors,    \* core_vendor
    versions,   \* hist_vendor: the versions of a vendor in the order of insertion
    behind,     \* ghost: the vendors whose last update left the history unfinished
    offerings   \* core_vendor_offering

historyVars == <<vendors, versions, behind, offerings>>

Version(n, row) == [number |-> n, row |-> row, current |-> TRUE]
VersionRows == [number : 1 .. MaxHistory, row : Profiles, current : BOOLEAN]

ASSUME HistoryAssumption == MaxHistory \in Nat /\ NoRow \notin Profiles

HistoryInit ==
    /\ vendors = [v \in Vendors |-> NoRow]
    /\ versions = [v \in Vendors |-> <<>>]
    /\ behind = {}
    /\ offerings = [o \in Offerings |-> NoRow]

HistoryTypeOK ==
    /\ vendors \in [Vendors -> Profiles \cup {NoRow}]
    /\ \A v \in Vendors : /\ Len(versions[v]) <= MaxHistory
                          /\ ToSet(versions[v]) \subseteq VersionRows
    /\ behind \subseteq Vendors
    /\ offerings \in [Offerings -> Profiles \cup {NoRow}]

-----------------------------------------------------------------------------
(* Vendors.                                                                *)

\* Without a version: the first is written by the first update.
create_vendor_profile(v, row) ==
    /\ vendors[v] = NoRow
    /\ vendors' = [vendors EXCEPT ![v] = row]
    /\ UNCHANGED <<versions, behind, offerings>>

BadClosed(history) == history               \* the version before stays current
Closed(history) == [i \in DOMAIN history |-> [history[i] EXCEPT !.current = FALSE]]
BadNextVersion(history) ==                  \* counts one too many
    Max({history[i].number : i \in DOMAIN history} \cup {0}) + 2
next_version(history) == Max({history[i].number : i \in DOMAIN history} \cup {0}) + 1

\* What hist_vendor may hold after an update: untouched, closed, or closed
\* and continued.  A failed read of the next number is no failure: the new
\* version then is a first one, which only the local database refuses to
\* enter a second time.
Numbers(history) == {next_version(history)} \cup IF Faults THEN {1} ELSE {}
Continued(v, row) == {Append(Closed(versions[v]), Version(n, row)) : n \in Numbers(versions[v])}
Interrupted(v) == IF Faults THEN {versions[v], Closed(versions[v])} ELSE {}

apply_vendor_profile_update(v, row) ==
    /\ vendors[v] # NoRow
    /\ Len(versions[v]) < MaxHistory
    /\ vendors' = [vendors EXCEPT ![v] = row]
    /\ \/ \E history \in Continued(v, row) :
            versions' = [versions EXCEPT ![v] = history] /\ behind' = behind \ {v}
       \/ \E history \in Interrupted(v) :
            versions' = [versions EXCEPT ![v] = history] /\ behind' = behind \cup {v}
    /\ UNCHANGED offerings

vendor_new_submit(p, v, row) ==
    /\ MayWrite(p, "vendor_create")
    /\ can_apply_change(p, "create_vendor_profile")
    /\ create_vendor_profile(v, row)

\* The one handler of a profile that does not ask for can_edit.
vendor_direct_update(p, v, row) ==
    /\ require_permission(p, "vendor_edit") /\ ~_write_blocked
    /\ can_apply_change(p, "update_vendor_profile")
    /\ vendors[v] # row
    /\ apply_vendor_profile_update(v, row)

\* Saving the lines of business updates the profile even when nothing differs.
vendor_lob_update(p, v, row) ==
    /\ MayWrite(p, "vendor_edit")
    /\ can_apply_change(p, "update_vendor_profile")
    /\ apply_vendor_profile_update(v, row)

-----------------------------------------------------------------------------
(* Offerings.                                                              *)

create_offering(v, o, row) ==
    /\ vendors[v] # NoRow /\ VendorOf[o] = v
    /\ offerings[o] = NoRow
    /\ offerings' = [offerings EXCEPT ![o] = row]
    /\ UNCHANGED <<vendors, versions, behind>>

get_offering_record(v) == {o \in Present(offerings) : VendorOf[o] = v}
update_offering_fields(v, o, row) ==
    /\ o \in get_offering_record(v)
    /\ offerings' = [offerings EXCEPT ![o] = row]
    /\ UNCHANGED <<vendors, versions, behind>>

offering_new_submit(p, v, o, row) ==
    /\ MayWrite(p, "offering_create")
    /\ can_apply_change(p, "create_offering")
    /\ create_offering(v, o, row)

offering_update_submit(p, v, o, row) ==
    /\ MayWrite(p, "offering_edit")
    /\ can_apply_change(p, "update_offering")
    /\ update_offering_fields(v, o, row)

offering_ownership_lob_update_submit(p, v, o, row) ==
    /\ MayWrite(p, "offering_edit")
    /\ can_apply_change(p, "update_offering")
    /\ update_offering_fields(v, o, row)

-----------------------------------------------------------------------------
(* The rows of an import, which go without a request.                      *)

import_vendor(p, v, row) ==
    /\ MayWrite(p, "import_apply")
    /\ create_vendor_profile(v, row) \/ apply_vendor_profile_update(v, row)

import_offering(p, v, o, row) ==
    /\ MayWrite(p, "import_apply")
    /\ create_offering(v, o, row) \/ update_offering_fields(v, o, row)

-----------------------------------------------------------------------------
HistoryNext ==
    \E p \in Policies, v \in Vendors, row \in Profiles :
        \/ vendor_new_submit(p, v, row)
        \/ vendor_direct_update(p, v, row)
        \/ vendor_lob_update(p, v, row)
        \/ import_vendor(p, v, row)
        \/ \E o \in Offerings :
             \/ offering_new_submit(p, v, o, row)
             \/ offering_update_submit(p, v, o, row)
             \/ offering_ownership_lob_update_submit(p, v, o, row)
             \/ import_offering(p, v, o, row)

HistorySpec == HistoryInit /\ [][HistoryNext]_historyVars

-----------------------------------------------------------------------------
(* Properties.                                                             *)

(* A vendor has at most one current version, the last, whichever of the    *)
(* statements of its updates failed; once an update went through, that     *)
(* version is what the vendor is, also after updates whose version was     *)
(* lost.  A version has the number after the greatest before it, or it is  *)
(* a first one: a number above one never comes twice, but the first may,   *)
(* since a failed read of the next number is taken for no version yet.     *)
HistoryTells ==
    \A v \in Vendors :
        /\ \A i \in DOMAIN versions[v] :
             /\ versions[v][i].current => i = Len(versions[v])
             /\ versions[v][i].number # 1 =>
                  /\ \A j \in 1 .. i - 1 : versions[v][j].number < versions[v][i].number
                  /\ \E j \in 1 .. i - 1 : versions[v][j].number = versions[v][i].number - 1
        /\ v \notin behind /\ versions[v] # <<>> =>
             Last(versions[v]).row = vendors[v] /\ Last(versions[v]).current
=============================================================================
