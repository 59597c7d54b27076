------------------------------- MODULE Imports -------------------------------
(***************************************************************************)
(* Bulk imports: a file is uploaded and its columns are mapped, every row  *)
(* is matched with what there is, the preview waits in the memory of the   *)
(* process for the user to choose new, merge or skip for each row, and     *)
(* then the rows are applied one by one, each with the rows of the areas   *)
(* (contacts, owners, offerings, contracts, projects) that come with it.   *)
(*                                                                         *)
(* A request runs to the end on the event loop: while rows are applied     *)
(* nothing else happens here, except that the process may go down.  Names, *)
(* addresses and numbers are opaque; the parsing of the four formats is    *)
(* left out: a file is its rows, functions from source keys to values.     *)
(***************************************************************************)
EXTENDS Handlers, SequencesExt

CONSTANTS
    VendorIds, OfferingIds, ProjectRowIds, JobIds, Uploads,
    Catalogues,     \* what the pages have entered: [vendors, offerings, projects]
    Files,          \* the files uploaded, by name: [layout, keys, rows]
    GroupOf,        \* the group of a source key, "static" if it does not repeat
    Score,          \* _mapping_candidate_score of <<field, source key>>
    Requested,      \* the mappings a user asks for, by name: functions from source keys
    Near,           \* names the search takes for one another
    LoginOf,        \* the login of the person a name of an owner stands for
    DomainOf,       \* the mail domain of a contact
    IMPORT_PREVIEW_MAX_ITEMS,
    MaxRemaps,      \* bound: how often a preview is mapped again
    MaxUnread       \* bound: places whose keys a run fails to read

None == ""
NoRun == [phase |-> "none"]
Unmapped == <<None, None>>

ASSUME ImportsAssumption ==
    /\ NoRow \notin Nat /\ IMPORT_PREVIEW_MAX_ITEMS \in Nat
    /\ None \notin VendorIds \cup OfferingIds \cup ProjectRowIds \cup JobIds
    /\ \A c \in Catalogues :
         /\ DOMAIN c.vendors \subseteq VendorIds /\ DOMAIN c.offerings \subseteq OfferingIds
         /\ DOMAIN c.projects \subseteq ProjectRowIds
         /\ \A v \in DOMAIN c.vendors :
              DOMAIN c.vendors[v] = {"name"} /\ c.vendors[v].name # None
         /\ \A o \in DOMAIN c.offerings :
              /\ DOMAIN c.offerings[o] = {"vendor", "name"}
              /\ c.offerings[o].vendor \in DOMAIN c.vendors
         /\ \A j \in DOMAIN c.projects :
              /\ DOMAIN c.projects[j] = {"name", "vendor", "vendors"}
              /\ c.projects[j].vendor \in DOMAIN c.vendors \cup {None}
              /\ c.projects[j].vendors \subseteq DOMAIN c.vendors
    /\ \A name \in DOMAIN Files :
         LET file == Files[name]
         IN /\ file.layout \in {"vendors", "offerings", "projects"}
            /\ Len(file.rows) \in Nat /\ DOMAIN file.rows = 1 .. Len(file.rows)

\* The targets of a mapping, in their order.
import_target_field_options ==
    <<<<"vendor", "vendor_id">>, <<"vendor", "legal_name">>, <<"vendor", "display_name">>,
      <<"vendor_contact", "vendor_id">>, <<"vendor_contact", "email">>,
      <<"vendor_owner", "vendor_id">>, <<"vendor_owner", "owner_user_principal">>,
      <<"offering", "offering_id">>, <<"offering", "vendor_id">>, <<"offering", "offering_name">>,
      <<"offering_owner", "offering_id">>, <<"offering_owner", "owner_user_principal">>,
      <<"offering_contact", "offering_id">>, <<"offering_contact", "email">>,
      <<"contract", "vendor_id">>, <<"contract", "offering_id">>, <<"contract", "contract_number">>,
      <<"project", "project_id">>, <<"project", "vendor_id">>, <<"project", "project_name">>>>

\* The columns of a layout, with the target each belongs to.
IMPORT_LAYOUT_FIELD_TARGET_KEYS ==
    [vendors |->
        [id |-> <<"vendor_id", <<"vendor", "vendor_id">>>>,
         name |-> <<"legal_name", <<"vendor", "legal_name">>>>,
         contact |-> <<"support_email", <<"vendor_contact", "email">>>>],
     offerings |->
        [id |-> <<"offering_id", <<"offering", "offering_id">>>>,
         vendor |-> <<"vendor_id", <<"offering", "vendor_id">>>>,
         vendorName |-> <<"vendor_name", <<"vendor", "display_name">>>>,
         name |-> <<"offering_name", <<"offering", "offering_name">>>>,
         contact |-> <<"vendor_contact_email", <<"vendor_contact", "email">>>>],
     projects |->
        [id |-> <<"project_id", <<"project", "project_id">>>>,
         vendor |-> <<"vendor_id", <<"project", "vendor_id">>>>,
         name |-> <<"project_name", <<"project", "project_name">>>>]]

\* A table is a function from the identifiers that have a row.
VARIABLES
    vendorRows, offeringRows, projectRows, \* the catalogue
    children,   \* contacts, owners and contracts that imports have entered
    jobs,       \* app_import_job
    previews,   \* _IMPORT_PREVIEW_STORE of this process, oldest first
    run,        \* what imports_apply is at
    uploads     \* how often the rows of an upload have been applied

importVars == <<vendorRows, offeringRows, projectRows, children, jobs, previews, run, uploads>>
catalogue == <<vendorRows, offeringRows, projectRows, children>>

ImportsInit ==
    /\ \E c \in Catalogues :
         vendorRows = c.vendors /\ offeringRows = c.offerings /\ projectRows = c.projects
    /\ children = {}
    /\ jobs = <<>>
    /\ previews = <<>>
    /\ run = NoRun
    /\ uploads = [u \in Uploads |-> NoRow]

There(table) == DOMAIN table

\* An identifier of a new row is any that has no row yet.
Entered(table, id, row) == [x \in DOMAIN table \cup {id} |-> IF x = id THEN row ELSE table[x]]

ImportsTypeOK ==
    /\ There(vendorRows) \subseteq VendorIds /\ There(offeringRows) \subseteq OfferingIds
    /\ There(projectRows) \subseteq ProjectRowIds /\ There(jobs) \subseteq JobIds
    /\ \A v \in There(vendorRows) : vendorRows[v].name # None
    /\ \A o \in There(offeringRows) : offeringRows[o].vendor \in There(vendorRows)
    /\ \A j \in There(projectRows) : /\ projectRows[j].vendor \in There(vendorRows) \cup {None}
                                    /\ projectRows[j].vendors \subseteq There(vendorRows)
    /\ \A c \in children : c.vendor \in There(vendorRows)
    /\ \A b \in There(jobs) : jobs[b].status \in {"staged", "applied", "applied_with_errors"}
    /\ Len(previews) <= IMPORT_PREVIEW_MAX_ITEMS + 1
    /\ uploads \in [Uploads -> {NoRow} \cup Nat]

-----------------------------------------------------------------------------
(* The columns: every source key gets at most one target, every column of  *)
(* the layout at most one source key.                                      *)

_mapping_candidate_score(field, key) == Score[<<field, key>>]
Likely(field, key) == _mapping_candidate_score(field, key) >= 68

\* The first of those with the greatest score.
Best(scores) == Min({i \in DOMAIN scores : scores[i] = Max(Range(scores))})

\* A mapping is a sequence of <<source key, target>>, in the order of the
\* columns and without those that have no target.
_resolve_source_target_mapping(keys, requested) ==
    LET targets == import_target_field_options
        TargetOf(key) ==
            LET best == targets[Best([i \in DOMAIN targets |->
                                        _mapping_candidate_score(targets[i][2], key)])]
            IN IF key \in DOMAIN requested THEN requested[key]
               ELSE IF Likely(best[2], key) THEN best ELSE Unmapped
    IN SelectSeq([i \in DOMAIN keys |-> <<keys[i], TargetOf(keys[i])>>], LAMBDA m : m[2] # Unmapped)

_layout_field_mapping_from_source_targets(mapping, target) ==
    LET theirs == SelectSeq(mapping, LAMBDA m : m[2] = target)
    IN IF theirs = <<>> THEN None ELSE Head(theirs)[1]

_resolve_field_mapping(layout, keys, mapping) ==
    [f \in DOMAIN IMPORT_LAYOUT_FIELD_TARGET_KEYS[layout] |->
        LET column == IMPORT_LAYOUT_FIELD_TARGET_KEYS[layout][f]
            mapped == _layout_field_mapping_from_source_targets(mapping, column[2])
            best == keys[Best([i \in DOMAIN keys |-> _mapping_candidate_score(column[1], keys[i])])]
        IN IF mapped # None THEN mapped ELSE IF Likely(column[1], best) THEN best ELSE None]

_apply_field_mapping(row, fields) ==
    [f \in DOMAIN fields |-> IF fields[f] = None THEN None ELSE row[fields[f]]]

\* The rows of the areas of one row of the file: those of a group together,
\* with what does not repeat; what does not repeat on its own only when no
\* group is there.
_build_stage_area_rows(row, mapping) ==
    LET Of(area) == SelectSeq(mapping, LAMBDA m : m[2][1] = area /\ row[m[1]] # None)
        Groups(area) == {GroupOf[m[1]] : m \in Range(Of(area))}
        Value(area, group, field) ==
            LET theirs == SelectSeq(Of(area), LAMBDA m : m[2][2] = field /\ GroupOf[m[1]] = group)
            IN IF theirs = <<>> THEN None ELSE row[Last(theirs)[1]]
        Payload(area, group) ==
            LET Field(field) == IF Value(area, group, field) # None THEN Value(area, group, field)
                                ELSE Value(area, "static", field)
            IN [area |-> area, group |-> group,
                id |-> Field(IF area = "project" THEN "project_id" ELSE "offering_id"),
                vendor |-> Field("vendor_id"),
                key |-> CASE area \in {"vendor_contact", "offering_contact"} -> Field("email")
                          [] area \in {"vendor_owner", "offering_owner"} -> Field("owner_user_principal")
                          [] area = "contract" -> Field("contract_number")
                          [] area = "offering" -> Field("offering_name")
                          [] OTHER -> Field("project_name")]
        RowsOf(area) == {Payload(area, g) :
                            g \in IF Groups(area) \subseteq {"static"} THEN Groups(area)
                                  ELSE Groups(area) \ {"static"}}
    \* The order in which apply_stage_area_rows_for_row takes the areas.
    IN FoldSeq(LAMBDA area, rest : SetToSeq(RowsOf(area)) \o rest, <<>>,
               <<"offering", "vendor_owner", "vendor_contact", "offering_owner",
                 "offering_contact", "contract", "project">>)

\* A file with a mapping: its rows as those of the layout, and their areas.
parse_layout_rows ==
    [parsed \in (DOMAIN Files) \X (DOMAIN Requested) |->
        LET file == Files[parsed[1]]
            mapping == _resolve_source_target_mapping(file.keys, Requested[parsed[2]])
            fields == _resolve_field_mapping(file.layout, file.keys, mapping)
        IN [layout |-> file.layout,
            rows   |-> [i \in DOMAIN file.rows |-> _apply_field_mapping(file.rows[i], fields)],
            areas  |-> [i \in DOMAIN file.rows |-> _build_stage_area_rows(file.rows[i], mapping)]]]

-----------------------------------------------------------------------------
(* Matching a row with what there is when the preview is made.             *)

\* The only member, if there is just one.
Only(S) == IF Cardinality(S) = 1 THEN CHOOSE x \in S : TRUE ELSE None

ByName(table, name, V) ==
    LET found == {id \in There(table) \cap V : <<name, table[id].name>> \in Near}
        exact == {id \in found : table[id].name = name}
    IN IF name = None THEN None ELSE IF Only(exact) # None THEN Only(exact) ELSE Only(found)

match_vendor_by_contact(contact) ==
    LET known == {c \in children : c.area = "vendor_contact"}
        same == {c.vendor : c \in {d \in known : d.key = contact}}
        domain == {c.vendor : c \in {d \in known : DomainOf[d.key] = DomainOf[contact]}}
    IN IF contact = None THEN None ELSE IF Only(same) # None THEN Only(same) ELSE Only(domain)

_suggest_vendor_match(data) ==
    LET named == ByName(vendorRows, data.name, VendorIds)
    IN IF data.id \in There(vendorRows) THEN data.id
       ELSE IF named # None THEN named ELSE match_vendor_by_contact(data.contact)

_infer_vendor_for_offering(data) ==
    LET named == ByName(vendorRows, data.vendorName, VendorIds)
    IN IF data.vendor # None THEN data.vendor
       ELSE IF named # None THEN named ELSE match_vendor_by_contact(data.contact)

OfferingsOf(v) == {o \in There(offeringRows) : v \in {None, offeringRows[o].vendor}}

\* The offering, and the vendor it would be filed under.
_suggest_offering_match(data) ==
    LET inferred == _infer_vendor_for_offering(data)
        named == ByName(offeringRows, data.name, OfferingsOf(inferred))
    IN IF data.id # None
       THEN IF data.id \in There(offeringRows) THEN <<data.id, offeringRows[data.id].vendor>>
            ELSE <<None, None>>
       ELSE IF named # None THEN <<named, offeringRows[named].vendor>> ELSE <<None, inferred>>

_suggest_project_match(data) ==
    LET theirs == {j \in There(projectRows) : data.vendor \in {None, projectRows[j].vendor}}
    IN IF data.id # None THEN IF data.id \in There(projectRows) THEN data.id ELSE None
       ELSE ByName(projectRows, data.name, theirs)

build_preview_row(layout, data) ==
    CASE layout = "vendors"   -> [data |-> data, target |-> _suggest_vendor_match(data), vendor |-> None]
      [] layout = "offerings" -> [data |-> data, target |-> _suggest_offering_match(data)[1],
                                  vendor |-> _suggest_offering_match(data)[2]]
      [] layout = "projects"  -> [data |-> data, target |-> _suggest_project_match(data), vendor |-> None]

-----------------------------------------------------------------------------
(* The store of previews, and the staging tables.                          *)

\* The oldest expire first, and make room when there are too many.
_prune_preview_store ==
    {SubSeq(previews, i, Len(previews)) :
        i \in Max({1, Len(previews) - IMPORT_PREVIEW_MAX_ITEMS + 1}) .. Len(previews) + 1}

\* A preview is known by a token that only its page carries; here by the
\* upload and the number of times it has been mapped again.
Loaded(store, token) == {i \in DOMAIN store : store[i].token = token}
Discarded(store, token) ==
    IF Loaded(store, token) = {} THEN store
    ELSE RemoveAt(store, CHOOSE i \in Loaded(store, token) : TRUE)

Preview(token, parsed, job) ==
    LET file == parse_layout_rows[parsed]
    IN [token |-> token, file |-> parsed[1], job |-> job, layout |-> file.layout, areas |-> file.areas,
        rows |-> [i \in DOMAIN file.rows |-> build_preview_row(file.layout, file.rows[i])]]

\* The job of a preview: none when staging failed, which is only a warning.
Staged(rows, job) ==
    \/ /\ job \in JobIds \ There(jobs)
       /\ jobs' = Entered(jobs, job, [status |-> "staged", rows |-> Len(rows), created |-> 0,
                                      merged |-> 0, skipped |-> 0, failed |-> 0])
    \/ Faults /\ job = None /\ UNCHANGED jobs

imports_preview(p, u, file, requested) ==
    /\ run = NoRun
    /\ MayWrite(p, "import_preview")
    /\ uploads[u] = NoRow
    /\ uploads' = [uploads EXCEPT ![u] = 0]
    /\ \E job \in JobIds \cup {None}, store \in _prune_preview_store :
         LET preview == Preview(<<u, 0>>, <<file, requested>>, job)
         IN Staged(preview.rows, job) /\ previews' = Append(store, preview)
    /\ UNCHANGED <<catalogue, run>>

imports_remap(p, token, requested) ==
    /\ run = NoRun
    /\ token[2] < MaxRemaps
    /\ MayWrite(p, "import_preview")
    /\ \E job \in JobIds \cup {None}, loaded, store \in _prune_preview_store :
       \E i \in Loaded(loaded, token) :
         LET preview == Preview(<<token[1], token[2] + 1>>, <<loaded[i].file, requested>>, job)
         IN /\ Staged(preview.rows, job)
            /\ previews' = Discarded(Append(store, preview), token)
    /\ UNCHANGED <<catalogue, run, uploads>>

-----------------------------------------------------------------------------
(* Applying: one row of the file after the other, and for each the rows of *)
(* its areas.                                                              *)

imports_apply(p, token, reason) ==
    /\ run = NoRun
    /\ MayWrite(p, "import_apply")
    /\ \E loaded \in _prune_preview_store : \E i \in Loaded(loaded, token) :
         /\ previews' = loaded
         /\ run' = [preview |-> loaded[i], reason |-> reason, at |-> 1, phase |-> "primary",
                    status |-> None, vendor |-> None, offering |-> None,
                    made |-> {}, groups |-> <<>>, todo |-> <<>>, context |-> <<>>,
                    created |-> 0, merged |-> 0, skipped |-> 0, failed |-> 0]
    /\ uploads' = [uploads EXCEPT ![token[1]] = @ + 1]
    /\ UNCHANGED <<catalogue, jobs>>

Running == run # NoRun /\ run.at <= Len(run.preview.rows)
FileRow == run.preview.rows[run.at]

BadRowDone(r, status) ==                    \* skipped rows are not counted
    run' = [r EXCEPT !.at = @ + 1, !.phase = "primary",
                     !.created = @ + (IF status = "created" THEN 1 ELSE 0),
                     !.merged  = @ + (IF status = "merged"  THEN 1 ELSE 0),
                     !.failed  = @ + (IF status = "failed"  THEN 1 ELSE 0)]
\* The row is done, in one of the four ways.
RowDone(r, status) ==
    run' = [r EXCEPT !.at = @ + 1, !.phase = "primary",
                     !.created = @ + (IF status = "created" THEN 1 ELSE 0),
                     !.merged  = @ + (IF status = "merged"  THEN 1 ELSE 0),
                     !.skipped = @ + (IF status = "skipped" THEN 1 ELSE 0),
                     !.failed  = @ + (IF status = "failed"  THEN 1 ELSE 0)]

Refused == RowDone(run, "failed") /\ UNCHANGED catalogue

\* On to the areas, with what the row became.
OnToAreas(r, status, v, o) ==
    run' = [r EXCEPT !.phase = "areas", !.status = status, !.vendor = v,
                     !.offering = o, !.made = {}, !.groups = <<>>,
                     !.todo = run.preview.areas[run.at]]

\* A write of the row: it succeeds, or the row fails, with or without it.
Wrote(write, next) == (write /\ next) \/ (Faults /\ RowDone(run, "failed") /\ (write \/ UNCHANGED catalogue))

\* Contacts and owners are known where they are filed, contracts under their
\* vendor; an owner is read back by login, whatever name the file gives.
Place(area, v, o) == <<area, v, IF area = "contract" THEN None ELSE o>>
PlaceOf(c) == Place(c.area, c.vendor, c.offering)
StoredAs(area, name) == IF area \in {"vendor_owner", "offering_owner"} THEN LoginOf[name] ELSE name

NewChild(area, v, o, name, read, reported) ==
    LET key == StoredAs(area, name)
        same == {c \in children : PlaceOf(c) = Place(area, v, o) /\ c.key = key}
    IN [area |-> area, vendor |-> v, offering |-> o, name |-> name, key |-> key,
        upload |-> run.preview.token[1],
        copy |-> Cardinality(same) + 1,
        read |-> read,          \* the keys of its place had been read
        reported |-> reported]  \* its statement was reported to succeed

\* What the apply context may know of a place: it is read once, and a read
\* that fails leaves it without keys for the rest of the run.
_load_keys(place) ==
    LET unread == {x \in DOMAIN run.context : ~run.context[x].read}
    IN IF place \in DOMAIN run.context THEN {run.context[place]}
       ELSE {[keys |-> {c.key : c \in {d \in children : PlaceOf(d) = place}}, read |-> TRUE]}
               \cup IF Faults /\ Cardinality(unread) < MaxUnread THEN {[keys |-> {}, read |-> FALSE]}
                    ELSE {}

BadKnowing(place, loaded) ==                \* what was added is not remembered
    [x \in DOMAIN run.context \cup {place} |->
        IF x \in DOMAIN run.context THEN run.context[x]
        ELSE [loaded EXCEPT !.keys = {c.key : c \in {d \in children : PlaceOf(d) = place}}]]
Knowing(place, loaded) ==
    [x \in DOMAIN run.context \cup {place} |-> IF x = place THEN loaded ELSE run.context[x]]

\* A contact, an owner or a contract that is not known yet: what becomes of
\* it, and what is known then.
maybe_add(area, v, o, name, allowed) ==
    LET place == Place(area, v, o)
        Outcome(outcome, entered, loaded) ==
            [outcome |-> outcome, children |-> children \cup entered, context |-> Knowing(place, loaded)]
        Outcomes(loaded) ==
            IF name \in loaded.keys THEN {Outcome("known", {}, loaded)}
            ELSE IF ~allowed THEN {Outcome("failed", {}, loaded)}
            ELSE {Outcome("added", {NewChild(area, v, o, name, loaded.read, TRUE)},
                          [keys |-> loaded.keys \cup {name}, read |-> loaded.read])}
                 \cup IF ~Faults THEN {}
                      ELSE {Outcome("failed", entered, loaded) :
                               entered \in {{}, {NewChild(area, v, o, name, loaded.read, FALSE)}}}
    IN UNION {Outcomes(loaded) : loaded \in _load_keys(place)}

apply_vendor_row(action, target) ==
    LET data == FileRow.data
        \* The support contact, when the vendor is written, if it is.
        Support(v, allowed, status, updated) ==
            \E done \in IF data.contact = None
                       THEN {[outcome |-> "known", children |-> children, context |-> run.context]}
                       ELSE maybe_add("vendor_contact", v, None, data.contact, allowed) :
               LET r == [run EXCEPT !.context = done.context]
               IN /\ children' = done.children
                  /\ IF done.outcome = "failed" \/ (done.outcome = "known" /\ ~updated)
                     THEN RowDone(r, "failed") ELSE OnToAreas(r, status, v, None)
        Written(v, row, status) ==
            /\ vendorRows' = Entered(vendorRows, v, row)
            /\ Support(v, TRUE, status, TRUE) \/ (Faults /\ RowDone(run, "failed") /\ UNCHANGED children)
            /\ UNCHANGED <<offeringRows, projectRows>>
    IN \/ /\ data.name # None
          /\ \/ /\ action = "new"
                /\ \E v \in VendorIds \ There(vendorRows) :
                     Written(v, [name |-> data.name], "created")
             \/ /\ action = "merge" /\ target \in There(vendorRows)
                /\ Written(target, [vendorRows[target] EXCEPT !.name = data.name], "merged")
             \/ (Faults \/ (action = "merge" /\ target \notin There(vendorRows))) /\ Refused
       \/ data.name = None /\ action = "new" /\ Refused
       \/ /\ data.name = None /\ action = "merge"
          /\ Support(target, target \in There(vendorRows), "merged", FALSE)
          /\ UNCHANGED <<vendorRows, offeringRows, projectRows>>

OfferingCreated(o, v, name) ==
    /\ offeringRows' = Entered(offeringRows, o, [vendor |-> v, name |-> name])
    /\ UNCHANGED <<vendorRows, projectRows, children>>
OfferingUpdated(o, name) ==
    /\ offeringRows' = [offeringRows EXCEPT ![o].name = name]
    /\ UNCHANGED <<vendorRows, projectRows, children>>

apply_offering_row(action, target) ==
    LET data == FileRow.data
        given == IF data.vendor # None THEN data.vendor ELSE FileRow.vendor
        v == IF given # None \/ target \notin There(offeringRows) THEN given
             ELSE offeringRows[target].vendor
        creates == action = "new" /\ data.name # None /\ given \in There(vendorRows)
        merges == /\ action = "merge" /\ target \in There(offeringRows) /\ data.name # None
                  /\ offeringRows[target].vendor = v
    IN \/ creates /\ \E o \in OfferingIds \ There(offeringRows) :
              Wrote(OfferingCreated(o, given, data.name), OnToAreas(run, "created", given, o))
       \/ merges /\ Wrote(OfferingUpdated(target, data.name), OnToAreas(run, "merged", v, target))
       \/ ~creates /\ ~merges /\ Refused

ProjectBecomes(j, row) ==
    /\ projectRows' = Entered(projectRows, j, row)
    /\ UNCHANGED <<vendorRows, offeringRows, children>>

\* The vendors of a project: those of its map, or else its primary one; a
\* read that fails finds no row.
ProjectVendors(j) ==
    LET row == projectRows[j]
        primary == {row.vendor} \ {None}
    IN {IF row.vendors = {} THEN primary ELSE row.vendors}
          \cup IF Faults THEN {primary, {}} ELSE {}

\* A project is written in several statements: its row, then its vendors.
ProjectWritten(j, row, halfway, next) ==
    \/ ProjectBecomes(j, row) /\ next
    \/ /\ Faults /\ RowDone(run, "failed")
       /\ \/ UNCHANGED catalogue
          \/ \E V \in halfway : ProjectBecomes(j, [row EXCEPT !.vendors = V])

ProjectCreated(name, v, next) ==
    \E j \in ProjectRowIds \ There(projectRows) :
        ProjectWritten(j, [name |-> name, vendor |-> v, vendors |-> {v} \ {None}],
                       {{}, {v} \ {None}}, next)

\* The vendor that is named has to be one of the project's, and is the only
\* one it has then.
ProjectUpdatable(j, v) == v = None \/ \E theirs \in ProjectVendors(j) : v \in theirs
ProjectMerged(j, name, v, next) ==
    LET old == projectRows[j]
        named == [old EXCEPT !.name = IF name = None THEN @ ELSE name]
    IN IF v = None THEN ProjectWritten(j, named, {old.vendors}, next)
       ELSE ProjectWritten(j, [named EXCEPT !.vendor = v, !.vendors = {v}],
                           {old.vendors, {}, {v}}, next)

apply_project_row(action, target) ==
    LET data == FileRow.data
        creates == action = "new" /\ data.name # None /\ data.vendor \in There(vendorRows) \cup {None}
        merges == action = "merge" /\ target \in There(projectRows)
        v == IF data.vendor # None THEN data.vendor ELSE projectRows[target].vendor
        changes == (data.name # None \/ v # None) /\ ProjectUpdatable(target, v)
    IN \/ creates /\ ProjectCreated(data.name, data.vendor,
                                    OnToAreas(run, "created", data.vendor, None))
       \/ merges /\ changes /\ ProjectMerged(target, data.name, v,
                                              OnToAreas(run, "merged", v, None))
       \/ ~creates /\ ~(merges /\ changes) /\ Refused

apply_import_row(action, target) ==
    CASE run.preview.layout = "vendors"   -> apply_vendor_row(action, target)
      [] run.preview.layout = "offerings" -> apply_offering_row(action, target)
      [] run.preview.layout = "projects"  -> apply_project_row(action, target)

\* The row as the user has chosen for it.
ApplyRow(action, target) ==
    /\ Running /\ run.phase = "primary"
    /\ \/ action = "skip" /\ RowDone(run, "skipped") /\ UNCHANGED catalogue
       \/ action = "merge" /\ (~run.reason \/ target = None) /\ Refused
       \/ action # "skip" /\ (action = "merge" => run.reason /\ target # None)
          /\ apply_import_row(action, target)
    /\ UNCHANGED <<jobs, previews, uploads>>

-----------------------------------------------------------------------------
(* The rows of the areas.                                                  *)

resolve_offering_id(a) ==
    IF a.id # None THEN a.id
    ELSE IF a.group \in DOMAIN run.groups THEN run.groups[a.group]
    ELSE IF run.offering # None THEN run.offering ELSE Only(run.made)

NamedVendor(a) ==
    IF a.vendor # None THEN a.vendor
    ELSE IF run.vendor # None THEN run.vendor
    ELSE IF FileRow.data.vendor # None THEN FileRow.data.vendor ELSE FileRow.vendor

\* The vendor of the offering when none is named, if it can be read.
resolve_vendor_id(a, o) ==
    IF NamedVendor(a) # None \/ o \notin There(offeringRows) THEN {NamedVendor(a)}
    ELSE {offeringRows[o].vendor} \cup IF Faults THEN {None} ELSE {}

AreaDone(r) == run' = [r EXCEPT !.todo = Tail(@)]
Skipped == AreaDone(run) /\ UNCHANGED catalogue

\* An offering named by its identifier is changed, if it is found, and any
\* other created.
apply_offering_area(a) ==
    LET known == a.id \in There(offeringRows)
        v == IF NamedVendor(a) = None /\ known THEN offeringRows[a.id].vendor ELSE NamedVendor(a)
        Grouped(o) == [g \in DOMAIN run.groups \cup {a.group} |->
                          IF g = a.group THEN o ELSE run.groups[g]]
    IN \/ /\ a.id # None /\ known /\ a.key # None /\ offeringRows[a.id].vendor = v
          /\ Wrote(OfferingUpdated(a.id, a.key), AreaDone([run EXCEPT !.groups = Grouped(a.id)]))
       \/ /\ a.id # None /\ known /\ a.key = None
          /\ AreaDone([run EXCEPT !.groups = Grouped(a.id)]) /\ UNCHANGED catalogue
       \/ a.id # None /\ known /\ a.key # None /\ offeringRows[a.id].vendor # v /\ Refused
       \/ (IF a.id # None THEN ~known \/ Faults ELSE a.key = None) /\ Skipped
       \/ /\ a.id = None /\ a.key # None
          /\ IF v \notin There(vendorRows) THEN Refused
             ELSE \E o \in OfferingIds \ There(offeringRows) :
                    Wrote(OfferingCreated(o, v, a.key),
                          AreaDone([run EXCEPT !.groups = Grouped(o), !.made = @ \cup {o}]))

apply_child_area(a) ==
    LET o == IF a.area \in {"vendor_contact", "vendor_owner"} THEN None ELSE resolve_offering_id(a)
        Nothing(v) == \/ v = None \/ a.key = None
                      \/ o = None /\ a.area \in {"offering_owner", "offering_contact"}
        Allowed(v) == v \in There(vendorRows) /\ (o # None => o \in OfferingsOf(v))
    IN \E v \in resolve_vendor_id(a, o) :
          \/ Nothing(v) /\ Skipped
          \/ /\ ~Nothing(v)
             /\ \E done \in maybe_add(a.area, v, o, a.key, Allowed(v)) :
                  LET r == [run EXCEPT !.context = done.context]
                  IN /\ children' = done.children
                     /\ IF done.outcome = "failed" THEN RowDone(r, "failed") ELSE AreaDone(r)
             /\ UNCHANGED <<vendorRows, offeringRows, projectRows>>

\* A project that cannot be read is taken for one that is not there.
apply_project_area(a) ==
    LET v == NamedVendor(a)
        known == a.id \in There(projectRows)
        updates == known /\ (a.key # None \/ v # None)
        creates == (~known \/ Faults) /\ a.key # None
        updatable == ProjectUpdatable(a.id, v)
        creatable == v \in There(vendorRows) \cup {None}
    IN \/ updates /\ updatable /\ ProjectMerged(a.id, a.key, v, AreaDone(run))
       \/ creates /\ creatable /\ ProjectCreated(a.key, v, AreaDone(run))
       \/ ((updates /\ ~updatable) \/ (creates /\ ~creatable)) /\ Refused
       \/ (IF known THEN ~updates \/ (Faults /\ a.key = None) ELSE a.key = None) /\ Skipped

apply_stage_area_rows_for_row ==
    /\ Running /\ run.phase = "areas" /\ run.todo # <<>>
    /\ LET a == Head(run.todo)
       IN CASE a.area = "offering" -> apply_offering_area(a)
            [] a.area = "project"  -> apply_project_area(a)
            [] OTHER               -> apply_child_area(a)
    /\ UNCHANGED <<jobs, previews, uploads>>

RowApplied ==
    /\ Running /\ run.phase = "areas" /\ run.todo = <<>>
    /\ RowDone(run, run.status)
    /\ UNCHANGED <<catalogue, jobs, previews, uploads>>

\* The job gets its counts, if that succeeds, and the preview goes.
finalize_import_staging_job ==
    /\ run # NoRun /\ ~Running
    /\ LET b == run.preview.job
       IN \/ /\ b # None
             /\ jobs' = [jobs EXCEPT ![b] = [@ EXCEPT
                    !.status = IF run.failed = 0 THEN "applied" ELSE "applied_with_errors",
                    !.created = run.created, !.merged = run.merged,
                    !.skipped = run.skipped, !.failed = run.failed]]
          \/ (b = None \/ Faults) /\ UNCHANGED jobs
    /\ previews' = Discarded(previews, run.preview.token)
    /\ run' = NoRun
    /\ UNCHANGED <<catalogue, uploads>>

\* A restart empties the store, and nothing goes on with a run.
Restart ==
    /\ run' = NoRun /\ previews' = <<>>
    /\ UNCHANGED <<catalogue, jobs, uploads>>

-----------------------------------------------------------------------------
Tokens == {previews[i].token : i \in DOMAIN previews}

ImportsNext ==
    \/ \E p \in Policies, requested \in DOMAIN Requested :
         \/ \E u \in Uploads, file \in DOMAIN Files : imports_preview(p, u, file, requested)
         \/ \E token \in Tokens : imports_remap(p, token, requested)
    \/ \E p \in Policies, token \in Tokens, reason \in BOOLEAN : imports_apply(p, token, reason)
    \/ \E action \in {"new", "merge", "skip"} :
         /\ Running
         /\ \E target \in {FileRow.target} \cup (There(vendorRows) \cup There(offeringRows)) :
              ApplyRow(action, IF action = "merge" THEN target ELSE None)
    \/ apply_stage_area_rows_for_row
    \/ RowApplied
    \/ finalize_import_staging_job
    \/ Restart

ImportsSpec == ImportsInit /\ [][ImportsNext]_importVars

-----------------------------------------------------------------------------
(* Properties.                                                             *)

(* What an import files under an offering belongs to the vendor of that    *)
(* offering, whichever of the identifiers of the row, of its group and of  *)
(* the match were put together.                                            *)
ChildrenOfVendor ==
    \A c \in children : c.offering # None => offeringRows[c.offering].vendor = c.vendor

(* No import enters a contact, an owner or a contract twice: within a run   *)
(* none is entered again under the same name, not through two rows of the  *)
(* file nor the two places of a row that name a contact, unless its        *)
(* statement was reported to fail; and none is that was there before,      *)
(* under whatever name and whether reported or not, unless the keys of its *)
(* place could not be read then or it is now an owner named otherwise than *)
(* by login.  A contract counts under its vendor, whichever the offering.  *)
ChildrenOnce ==
    \A c, d \in children :
        PlaceOf(c) = PlaceOf(d) /\ c.key = d.key /\ d.copy < c.copy =>
            IF c.upload = d.upload THEN d.name = c.name => ~d.reported
            ELSE c.read => c.name # c.key

(* A preview is applied once, whichever page it is submitted from again    *)
(* and however often its columns were mapped again before; and a job that  *)
(* is closed accounts for every row of its file, and is applied without    *)
(* errors just when no row failed.                                         *)
JobsTell ==
    /\ \A u \in Uploads : uploads[u] # NoRow => uploads[u] <= 1
    /\ \A b \in There(jobs) :
        LET j == jobs[b]
        IN j.status # "staged" =>
             /\ j.created + j.merged + j.skipped + j.failed = j.rows
             /\ j.status = "applied" <=> j.failed = 0
=============================================================================
