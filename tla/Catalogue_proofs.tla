--------------------------- MODULE Catalogue_proofs ---------------------------
(***************************************************************************)
(* Contracts, the rows of vendors and offerings, the history of vendors,   *)
(* projects and demos: their safety properties for any number of vendors,  *)
(* offerings and rows, any users, forms and failures.  Each component has  *)
(* an inductive invariant of its own, as they share no variable.           *)
(***************************************************************************)
EXTENDS Contracts, Offerings, VendorHistory, Projects, Demos, WellFoundedInduction,
        SequenceTheorems, TLAPS

-----------------------------------------------------------------------------
(* Contracts                                                               *)

Contracted ==
    /\ contracts \in [ContractIds -> ContractRows \cup {NoRow}]
    /\ ContractsAgree
    /\ OfferingOfVendor

\* What both invariants ask of one contract.
Sound(row) ==
    /\ row \in ContractRows
    /\ row.cancelled_flag <=> row.status = "cancelled"
    /\ NoDate \notin {row.start, row.end} => row.start <= row.end
    /\ row.offering # NoOffering => VendorOf[row.offering] = row.vendor

LEMMA PresentIsSound ==
    ASSUME Contracted, NEW c \in Present(contracts)
    PROVE  c \in ContractIds /\ Sound(contracts[c])
<1>1. c \in ContractIds /\ contracts[c] \in ContractRows
  BY DEF Contracted, Present
<1> QED BY <1>1 DEF Contracted, ContractsAgree, OfferingOfVendor, Sound

\* A step that leaves every contract alone or makes it sound keeps them so.
LEMMA SoundStep ==
    ASSUME Contracted, contracts' = [c \in ContractIds |-> contracts'[c]],
           \A c \in ContractIds : contracts'[c] = contracts[c] \/ Sound(contracts'[c])
    PROVE  Contracted'
<1>1. contracts' \in [ContractIds -> ContractRows \cup {NoRow}]
  BY DEF Contracted, Sound
<1>2. \A c \in Present(contracts)' : Sound(contracts'[c])
  <2> SUFFICES ASSUME NEW c \in Present(contracts)' PROVE Sound(contracts'[c])
    OBVIOUS
  <2>1. c \in ContractIds /\ contracts'[c] # NoRow
    BY <1>1 DEF Present
  <2>2. CASE contracts'[c] = contracts[c]
    <3>1. c \in Present(contracts)
      BY <2>1, <2>2 DEF Present, Contracted
    <3> QED BY <2>2, <3>1, PresentIsSound
  <2> QED BY <2>1, <2>2
<1>3. ContractsAgree' /\ OfferingOfVendor'
  BY <1>2 DEF ContractsAgree, OfferingOfVendor, Sound
<1> QED BY <1>1, <1>3 DEF Contracted

LEMMA ContractStep == Contracted /\ [ContractsNext]_contractVars => Contracted'
<1> SUFFICES ASSUME Contracted, [ContractsNext]_contractVars PROVE Contracted'
  OBVIOUS
<1>a. contracts = [c \in ContractIds |-> contracts[c]]
  BY DEF Contracted
<1>b. \A c \in Present(contracts) : c \in ContractIds /\ Sound(contracts[c])
  BY PresentIsSound
<1>1. CASE UNCHANGED contractVars
  BY <1>1 DEF contractVars, Contracted, ContractsAgree, OfferingOfVendor
<1>2. ASSUME NEW v \in Vendors, NEW o \in Offerings \cup {NoOffering}, NEW status \in StatusInputs,
             NEW start \in Dates \cup {NoDate}, NEW end \in Dates \cup {NoDate},
             create_contract(v, o, status, start, end)
      PROVE  Contracted'
  <2> DEFINE row == [vendor |-> v, offering |-> o, status |-> status, start |-> start,
                     end |-> end, cancelled_flag |-> (status = "cancelled")]
  <2>1. Sound(row)
    BY <1>2, ContractsAssumption
    DEF create_contract, Sound, ContractRows, InOrder, Mappable, offering_belongs_to_vendor
  <2>2. PICK c \in ContractIds : contracts' = [contracts EXCEPT ![c] = row]
    BY <1>2, <1>a DEF create_contract, ContractsBecome, Unused
  <2> HIDE DEF row
  <2>3. QED BY <1>a, <2>1, <2>2, SoundStep
<1>3. ASSUME NEW v \in Vendors, NEW c \in ContractIds, NEW o \in Offerings \cup {NoOffering},
             NEW status \in StatusInputs, NEW start \in Dates \cup {NoDate},
             NEW end \in Dates \cup {NoDate}, update_contract(v, c, o, status, start, end)
      PROVE  Contracted'
  <2> DEFINE flag == IF status = contracts[c].status THEN contracts[c].cancelled_flag
                     ELSE status = "cancelled"
             row == [vendor |-> v, offering |-> o, status |-> status, start |-> start,
                     end |-> end, cancelled_flag |-> flag]
  <2>1. Sound(contracts[c]) /\ contracts[c].vendor = v
    BY <1>b, <1>3 DEF update_contract, get_vendor_contracts
  <2>2. flag \in BOOLEAN /\ (flag <=> status = "cancelled")
    BY <2>1 DEF Sound, ContractRows
  <2>3. NoDate \notin {start, end} => start <= end
    BY <1>3 DEF update_contract, InOrder, Checked
  <2>4. status \in allowed_statuses /\ Mappable(v, o)
    BY <1>3 DEF update_contract
  <2>5. contracts' = [contracts EXCEPT ![c] = row]
    BY <1>3 DEF update_contract, ContractsBecome
  <2> HIDE DEF flag
  <2>6. Sound(row)
    BY <2>2, <2>3, <2>4 DEF Sound, ContractRows, Mappable, offering_belongs_to_vendor
  <2> HIDE DEF row
  <2> QED BY <1>a, <2>5, <2>6, SoundStep
<1>4. ASSUME NEW v \in Vendors, NEW C \in SUBSET get_vendor_contracts(v),
             NEW o \in Offerings \cup {NoOffering}, Mappable(v, o), contracts' = MappedTo(C, o)
      PROVE  Contracted'
  <2>1. \A c \in C : c \in ContractIds /\ Sound(contracts[c]) /\ contracts[c].vendor = v
    BY <1>b DEF get_vendor_contracts
  <2>2. \A c \in C : Sound([contracts[c] EXCEPT !.offering = o])
    BY <1>4, <2>1 DEF Sound, ContractRows, Mappable, offering_belongs_to_vendor
  <2> QED BY <1>4, <2>2, SoundStep DEF MappedTo
<1>5. ASSUME NEW v \in Vendors, NEW c \in get_vendor_contracts(v), record_contract_cancellation(c)
      PROVE  Contracted'
  <2> DEFINE row == [contracts[c] EXCEPT !.status = "cancelled", !.cancelled_flag = TRUE]
  <2>1. c \in ContractIds /\ Sound(contracts[c])
    BY <1>b DEF get_vendor_contracts
  <2>2. Sound(row)
    BY <2>1 DEF Sound, ContractRows, allowed_statuses
  <2>3. contracts' = contracts \/ contracts' = [contracts EXCEPT ![c] = row]
    BY <1>5, <1>a, <2>1 DEF record_contract_cancellation
  <2> HIDE DEF row
  <2> QED BY <1>a, <2>1, <2>2, <2>3, SoundStep
<1>6. ASSUME NEW p \in Policies, NEW v \in Vendors, NEW o \in Offerings \cup {NoOffering},
             NEW c \in ContractIds, map_contract_submit(p, v, c, o)
      PROVE  Contracted'
  <2>1. {c} \in SUBSET get_vendor_contracts(v) /\ Mappable(v, o) /\ contracts' = MappedTo({c}, o)
    BY <1>6 DEF map_contract_submit, map_contract_to_offering, ContractsBecome
  <2> QED BY <1>4, <2>1
<1>7. ASSUME NEW p \in Policies, NEW v \in Vendors, NEW o \in Offerings,
             NEW C \in SUBSET ContractIds, map_contracts_bulk_submit(p, v, C, o)
      PROVE  Contracted'
  <2>1. PICK done \in SUBSET C : contracts' = MappedTo(done, o)
    BY <1>7 DEF map_contracts_bulk_submit, bulk_map_contracts_to_offering, ContractsBecome
  <2>2. done \in SUBSET get_vendor_contracts(v) /\ Mappable(v, o)
    BY <1>7 DEF map_contracts_bulk_submit, Mappable
  <2> QED BY <1>4, <2>1, <2>2
<1>8. CASE ContractsNext
  <2>1. PICK p \in Policies, v \in Vendors :
          \/ \E o \in Offerings \cup {NoOffering}, status \in StatusInputs,
                start, end \in Dates \cup {NoDate} :
               \/ add_vendor_contract_submit(p, v, o, status, start, end)
               \/ \E c \in ContractIds :
                    update_vendor_contract_submit(p, v, c, o, status, start, end)
          \/ \E o \in Offerings \cup {NoOffering}, c \in ContractIds :
               map_contract_submit(p, v, c, o)
          \/ \E o \in Offerings, C \in SUBSET ContractIds :
               map_contracts_bulk_submit(p, v, C, o)
          \/ \E c \in ContractIds : cancel_vendor_contract_submit(p, v, c)
    BY <1>8 DEF ContractsNext
  <2>2. ASSUME NEW o \in Offerings \cup {NoOffering}, NEW status \in StatusInputs,
               NEW start \in Dates \cup {NoDate}, NEW end \in Dates \cup {NoDate},
               \/ add_vendor_contract_submit(p, v, o, status, start, end)
               \/ \E c \in ContractIds :
                    update_vendor_contract_submit(p, v, c, o, status, start, end)
        PROVE  Contracted'
    BY <1>2, <1>3, <2>2 DEF add_vendor_contract_submit, update_vendor_contract_submit
  <2>3. ASSUME NEW c \in ContractIds, cancel_vendor_contract_submit(p, v, c)
        PROVE  Contracted'
    BY <1>5, <2>3 DEF cancel_vendor_contract_submit
  <2> QED BY <1>6, <1>7, <2>1, <2>2, <2>3
<1> QED BY <1>1, <1>8

LEMMA ContractInit == ContractsInit => Contracted
BY DEF ContractsInit, Contracted, ContractsAgree, OfferingOfVendor, Present

LEMMA ContractsInductive == ContractsSpec => []Contracted
BY ContractInit, ContractStep, PTL DEF ContractsSpec

\* Whichever handlers set the status, the flag and the dates of a contract, and
\* wherever one of them fails, status and flag say the same and no contract
\* ends before it starts.
THEOREM ContractsAlwaysAgree == ContractsSpec => []ContractsAgree
BY ContractsInductive, PTL DEF Contracted

\* No contract is filed under an offering of another vendor.
THEOREM ContractsStayWithTheirVendor == ContractsSpec => []OfferingOfVendor
BY ContractsInductive, PTL DEF Contracted

-----------------------------------------------------------------------------
(* The rows of vendors and offerings                                       *)

Kept ==
    /\ rows \in [RowIds -> OfferingRows \cup {NoRow}]
    /\ trail \in [RowIds -> OfferingRows \cup {NoRow}]
    /\ untold \in SUBSET RowIds
    /\ TrailReplays
    /\ RowsOfVendor

\* A row of its tables that names the vendor of its offering.
Filed(row) ==
    /\ row \in OfferingRows
    /\ row.offering # NoOffering => VendorOf[row.offering] = row.vendor

LEMMA PresentIsFiled ==
    ASSUME Kept, NEW r \in Present(rows)
    PROVE  r \in RowIds /\ Filed(rows[r])
<1>1. r \in RowIds /\ rows[r] \in OfferingRows
  BY DEF Kept, Present
<1> QED BY <1>1 DEF Kept, RowsOfVendor, Filed

\* What a handler does to the rows and the trail: write a row and its record,
\* record a removal that touched nothing, or write rows without a record.
Written == \E r \in RowIds : \E row \in OfferingRows : Filed(row) /\ Statement(r, row, row)
OnlyTold ==
    \E r \in RowIds : \E row \in OfferingRows :
        rows' = rows /\ trail' = [trail EXCEPT ![r] = row] /\ untold' = untold \cup {r}
Untold ==
    \E done \in SUBSET RowIds :
        /\ rows' = [r \in RowIds |-> rows'[r]]
        /\ \A r \in RowIds : IF r \in done THEN Filed(rows'[r]) ELSE rows'[r] = rows[r]
        /\ untold' = untold \cup done
        /\ trail' = trail

LEMMA KeptStep ==
    ASSUME Kept, Written \/ OnlyTold \/ Untold
    PROVE  Kept'
<1>1. CASE Written
  <2>1. PICK r \in RowIds, row \in OfferingRows : Filed(row) /\ Statement(r, row, row)
    BY <1>1 DEF Written
  <2>2. rows' = [rows EXCEPT ![r] = row]
    BY <2>1 DEF Statement
  <2>3. /\ trail' \in [RowIds -> OfferingRows \cup {NoRow}] /\ untold' \in SUBSET RowIds
        /\ TrailReplays'
    BY <2>1, <2>2 DEF Statement, Kept, TrailReplays
  <2>4. rows' \in [RowIds -> OfferingRows \cup {NoRow}]
    BY <2>1, <2>2 DEF Kept
  <2>5. RowsOfVendor'
    BY <2>1, <2>2, <2>4, PresentIsFiled DEF Kept, RowsOfVendor, Filed, Present
  <2> QED BY <2>3, <2>4, <2>5 DEF Kept
<1>2. CASE OnlyTold
  BY <1>2 DEF OnlyTold, Kept, TrailReplays, RowsOfVendor
<1>3. CASE Untold
  <2>1. PICK done \in SUBSET RowIds :
          /\ rows' = [r \in RowIds |-> rows'[r]]
          /\ \A r \in RowIds : IF r \in done THEN Filed(rows'[r]) ELSE rows'[r] = rows[r]
          /\ untold' = untold \cup done
          /\ trail' = trail
    BY <1>3 DEF Untold
  <2>2. \A r \in RowIds : Filed(rows'[r]) \/ rows'[r] = rows[r]
    BY <2>1
  <2>3. rows' \in [RowIds -> OfferingRows \cup {NoRow}]
    BY <2>1, <2>2 DEF Kept, Filed
  <2>4. untold' \in SUBSET RowIds /\ TrailReplays'
    BY <2>1 DEF Kept, TrailReplays
  <2>5. RowsOfVendor'
    BY <2>2, <2>3, PresentIsFiled DEF Kept, RowsOfVendor, Filed, Present
  <2> QED BY <2>1, <2>3, <2>4, <2>5 DEF Kept
<1> QED BY <1>1, <1>2, <1>3

LEMMA CreateWrites ==
    ASSUME Kept, NEW kind \in OfOffering \cup OfVendor \cup Documents, NEW v \in Vendors,
           NEW o \in Offerings \cup {NoOffering}, NEW x \in Values, Mappable(v, o),
           Create(kind, v, o, x)
    PROVE  Written
<1> DEFINE row == Row(kind, v, o, x)
<1>1. Filed(row)
  BY DEF Filed, Row, OfferingRows, Mappable, offering_belongs_to_vendor
<1>2. PICK r \in RowIds : Statement(r, row, row)
  BY DEF Create, Unused, Kept
<1> HIDE DEF row
<1> QED BY <1>1, <1>2 DEF Written, Filed

LEMMA AmendWrites ==
    ASSUME Kept, NEW r \in Present(rows), NEW x \in Values, Amend(r, x)
    PROVE  Written
<1> DEFINE row == [rows[r] EXCEPT !.value = x]
<1>1. r \in RowIds /\ Filed(row)
  BY PresentIsFiled DEF Filed, OfferingRows
<1>2. Statement(r, row, row)
  BY DEF Amend
<1> HIDE DEF row
<1> QED BY <1>1, <1>2 DEF Written, Filed

LEMMA RetireWrites ==
    ASSUME Kept, NEW r \in Present(rows), Retire(r)
    PROVE  Written
<1> DEFINE row == [rows[r] EXCEPT !.active = FALSE]
<1>1. r \in RowIds /\ Filed(row)
  BY PresentIsFiled DEF Filed, OfferingRows
<1>2. Statement(r, row, row)
  BY DEF Retire
<1> HIDE DEF row
<1> QED BY <1>1, <1>2 DEF Written, Filed

LEMMA RemovalRecords ==
    ASSUME Kept, NEW kind, NEW o, NEW r, RetireAt(kind, o, r)
    PROVE  Written \/ OnlyTold
<1>1. CASE r \in RowsAt(kind, o) /\ Retire(r)
  BY <1>1, RetireWrites DEF RowsAt
<1>2. CASE ~(r \in RowsAt(kind, o) /\ Retire(r))
  <2> DEFINE row == [rows[r] EXCEPT !.active = FALSE]
  <2>1. r \in Present(rows) /\ rows' = rows /\ trail' = [trail EXCEPT ![r] = row]
        /\ untold' = untold \cup {r}
    BY <1>2 DEF RetireAt
  <2>2. r \in RowIds /\ row \in OfferingRows
    BY <2>1, PresentIsFiled DEF Filed, OfferingRows
  <2> HIDE DEF row
  <2> QED BY <2>1, <2>2 DEF OnlyTold
<1> QED BY <1>1, <1>2

LEMMA ReassignmentMoves ==
    ASSUME Kept, NEW v, NEW from \in Values, NEW to \in Values,
           bulk_reassign_offering_owner(v, from, to)
    PROVE  Untold
<1>1. PICK done \in SUBSET {r \in get_vendor_offering_business_owners(v) :
                              rows[r].active /\ rows[r].value = from} :
        /\ rows' = [r \in RowIds |-> IF r \in done THEN [rows[r] EXCEPT !.value = to]
                                      ELSE rows[r]]
        /\ untold' = untold \cup done
        /\ trail' = trail
  BY DEF bulk_reassign_offering_owner
<1>2. done \subseteq Present(rows)
  BY DEF get_vendor_offering_business_owners, RowsOf
<1>3. \A r \in done : r \in RowIds /\ Filed([rows[r] EXCEPT !.value = to])
  BY <1>2, PresentIsFiled DEF Filed, OfferingRows
<1> QED BY <1>1, <1>3 DEF Untold

LEMMA OfVendorStep ==
    ASSUME Kept, NEW p \in Policies, NEW v \in Vendors, OfVendorNext(p, v)
    PROVE  Written \/ OnlyTold \/ Untold
<1>1. PICK x \in Values :
        \/ Create("vendor owner", v, NoOffering, x)
        \/ Create("org assignment", v, NoOffering, x)
        \/ Create("vendor contact", v, NoOffering, x)
        \/ Create("warning", v, NoOffering, x)
        \/ Create("document", v, NoOffering, x)
        \/ \E r \in RowsOf("warning", v) : Amend(r, x)
        \/ \E to \in Values : bulk_reassign_offering_owner(v, x, to)
  BY DEF OfVendorNext, add_vendor_owner_submit, add_vendor_owner,
     add_vendor_org_assignment_submit, add_vendor_org_assignment, add_vendor_contact_submit,
     add_vendor_contact, update_vendor_ownership_lob_submit, add_vendor_warning_submit,
     create_vendor_warning, vendor_doc_link_submit, _create_doc_link_for_entity, create_doc_link,
     resolve_vendor_warning_submit, resolve_vendor_warning, bulk_reassign_offering_owner_submit
<1>2. Mappable(v, NoOffering)
  BY DEF Mappable
<1> QED BY <1>1, <1>2, CreateWrites, AmendWrites, ReassignmentMoves
    DEF OfOffering, OfVendor, Documents, RowsOf

LEMMA EnterStep ==
    ASSUME Kept, NEW p \in Policies, NEW v \in Vendors, NEW o \in Offerings,
           NEW x \in Values, EnterNext(p, v, o, x)
    PROVE  Written
<1>1. /\ Mappable(v, o)
      /\ \/ \E kind \in OfOffering \cup Documents : Create(kind, v, o, x)
         \/ \E r \in RowsAt("profile", o) : Amend(r, x)
  BY DEF EnterNext, add_offering_owner_submit, add_offering_owner, add_offering_contact_submit,
     add_offering_contact, add_offering_invoice_submit, add_offering_invoice,
     add_offering_data_flow_submit, add_offering_data_flow, add_offering_note_submit,
     add_offering_note, add_offering_ticket_submit, add_offering_ticket,
     offering_profile_save_submit, save_offering_profile, get_offering_profile,
     offering_doc_link_submit, _create_doc_link_for_entity, _entity_exists_for_doc,
     create_doc_link, Mappable, OfOffering, Documents
<1> QED BY <1>1, CreateWrites, AmendWrites DEF RowsAt

LEMMA EditStep ==
    ASSUME Kept, NEW p \in Policies, NEW v \in Vendors, NEW o \in Offerings,
           NEW r \in RowIds, EditNext(p, v, o, r)
    PROVE  Written \/ OnlyTold
<1>1. \/ RetireAt("owner", o, r)
      \/ RetireAt("contact", o, r)
      \/ r \in Present(rows) /\ Retire(r)
      \/ r \in Present(rows) /\ \E x \in Values : Amend(r, x)
  BY DEF EditNext, remove_offering_owner_submit, remove_offering_owner,
     remove_offering_contact_submit, remove_offering_contact, remove_offering_invoice_submit,
     remove_offering_invoice, get_offering_invoice, remove_offering_data_flow_submit,
     remove_offering_data_flow, get_offering_data_flow, update_offering_owner_submit,
     update_offering_owner, reassign_single_offering_owner_submit,
     update_offering_data_flow_submit, update_offering_data_flow,
     update_offering_ticket_status_submit, update_offering_ticket, RowsOf, RowsAt
<1> QED BY <1>1, RemovalRecords, RetireWrites, AmendWrites

LEMMA OfferingsStep == Kept /\ [OfferingsNext]_offeringVars => Kept'
<1> SUFFICES ASSUME Kept, [OfferingsNext]_offeringVars PROVE Kept'
  OBVIOUS
<1>1. CASE UNCHANGED offeringVars
  BY <1>1 DEF offeringVars, Kept, TrailReplays, RowsOfVendor
<1>2. ASSUME NEW p \in Policies, NEW r \in RowIds, doc_link_remove_submit(p, r) PROVE Kept'
  <2>1. r \in Present(rows) /\ Retire(r)
    BY <1>2 DEF doc_link_remove_submit, remove_doc_link, get_doc_link
  <2> QED BY <2>1, RetireWrites, KeptStep
<1> QED BY <1>1, <1>2, OfVendorStep, EnterStep, EditStep, KeptStep DEF OfferingsNext

LEMMA OfferingsStart == OfferingsInit => Kept
BY DEF OfferingsInit, Kept, TrailReplays, RowsOfVendor, Present

LEMMA OfferingsInductive == OfferingsSpec => []Kept
BY OfferingsStart, OfferingsStep, PTL DEF OfferingsSpec

\* The audit trail tells every row as it is, but for the exceptions it is known
\* to have, whatever handlers write and whichever records are lost.
THEOREM TrailIsComplete == OfferingsSpec => []TrailReplays
BY OfferingsInductive, PTL DEF Kept

\* No row is filed under an offering of another vendor.
THEOREM RowsStayWithTheirVendor == OfferingsSpec => []RowsOfVendor
BY OfferingsInductive, PTL DEF Kept

-----------------------------------------------------------------------------
(* The history of vendors                                                  *)

\* The versions of one vendor: only the last one current, each a first one or
\* one more than the greatest before it.
Numbered(history) ==
    \A i \in 1 .. Len(history) :
        /\ history[i].current => i = Len(history)
        /\ history[i].number \in 1 .. i
        /\ history[i].number # 1 =>
             /\ \A j \in 1 .. i - 1 : history[j].number < history[i].number
             /\ \E j \in 1 .. i - 1 : history[j].number = history[i].number - 1

HistoryInv ==
    /\ vendors \in [Vendors -> Profiles \cup {NoRow}]
    /\ versions \in [Vendors -> Seq([number : Nat, row : Profiles, current : BOOLEAN])]
    /\ \A v \in Vendors :
         /\ vendors[v] = NoRow => versions[v] = <<>>
         /\ Numbered(versions[v])
         /\ v \notin behind /\ versions[v] # <<>> =>
              /\ versions[v][Len(versions[v])].row = vendors[v]
              /\ versions[v][Len(versions[v])].current

Records == [number : Nat, row : Profiles, current : BOOLEAN]

LEMMA ClosedKeeps ==
    ASSUME NEW history \in Seq(Records)
    PROVE  /\ Closed(history) \in Seq(Records) /\ Len(Closed(history)) = Len(history)
           /\ \A i \in 1 .. Len(history) : /\ Closed(history)[i].number = history[i].number
                                          /\ ~Closed(history)[i].current
<1>1. DOMAIN history = 1 .. Len(history) /\ Len(history) \in Nat
  OBVIOUS
<1>2. \A i \in 1 .. Len(history) : history[i] \in Records
  OBVIOUS
<1>3. Closed(history) = [i \in 1 .. Len(history) |-> [history[i] EXCEPT !.current = FALSE]]
  BY <1>1 DEF Closed
<1>4. \A i \in 1 .. Len(history) : [history[i] EXCEPT !.current = FALSE] \in Records
  BY <1>2 DEF Records
<1>5. Closed(history) \in Seq(Records) /\ Len(Closed(history)) = Len(history)
  BY <1>1, <1>3, <1>4
<1>6. \A i \in 1 .. Len(history) : /\ Closed(history)[i].number = history[i].number
                                 /\ ~Closed(history)[i].current
  BY <1>2, <1>3 DEF Records
<1> QED BY <1>5, <1>6

\* Natural numbers up to a bound have a greatest.
LEMMA GreatestOfBounded ==
    ASSUME NEW B \in Nat, NEW S, S \subseteq 0 .. B, S # {}
    PROVE  Max(S) \in S /\ \A x \in S : x <= Max(S)
<1> DEFINE below == {B - x : x \in S}
<1>1. below \subseteq Nat /\ below # {}
  <2>1. \A x \in S : x \in Int /\ 0 <= x /\ x <= B
    OBVIOUS
  <2>2. \A x \in S : B - x \in Nat
    BY <2>1
  <2> QED BY <2>2
<1>2. PICK d \in below : \A e \in below : ~(<<e, d>> \in OpToRel(<, Nat))
  <2> HIDE DEF below
  <2> QED BY <1>1, WFMin, NatLessThanWellFounded
<1>3. \A e \in below : d <= e
  <2> SUFFICES ASSUME NEW e \in below, ~(d <= e) PROVE FALSE
    OBVIOUS
  <2>1. d \in Nat /\ e \in Nat
    BY <1>1
  <2>2. <<e, d>> \in {ss \in Nat \X Nat : ss[1] < ss[2]}
    BY <2>1
  <2>3. {ss \in Nat \X Nat : ss[1] < ss[2]} = OpToRel(<, Nat)
    BY DEF OpToRel
  <2> QED BY <1>2, <2>2, <2>3
<1>4. PICK m \in S : d = B - m
  OBVIOUS
<1>5. \A x \in S : m >= x
  <2> SUFFICES ASSUME NEW x \in S PROVE m >= x
    OBVIOUS
  <2>1. B - m <= B - x
    BY <1>3, <1>4
  <2> QED BY <2>1
<1>6. \E x \in S : \A y \in S : x >= y
  BY <1>5
<1>7. Max(S) \in S /\ \A y \in S : Max(S) >= y
  BY <1>6 DEF Max
<1> QED BY <1>7

\* The next number is one more than the greatest there is.
LEMMA NextNumber ==
    ASSUME NEW history \in Seq(Records), Numbered(history)
    PROVE  LET n == next_version(history)
           IN  /\ n \in 1 .. Len(history) + 1
               /\ \A j \in 1 .. Len(history) : history[j].number < n
               /\ n # 1 => \E j \in 1 .. Len(history) : history[j].number = n - 1
<1> DEFINE S == {history[i].number : i \in DOMAIN history} \cup {0}
           m == Max(S)
<1>1. DOMAIN history = 1 .. Len(history) /\ Len(history) \in Nat
  OBVIOUS
<1>2. S \subseteq 0 .. Len(history) /\ S # {}
  <2> SUFFICES ASSUME NEW x \in S PROVE x \in 0 .. Len(history)
    OBVIOUS
  <2>1. CASE x = 0
    BY <1>1, <2>1
  <2>2. ASSUME NEW i \in 1 .. Len(history), x = history[i].number
        PROVE  x \in 0 .. Len(history)
    <3> HIDE DEF S
    <3>1. i \in Nat /\ i <= Len(history)
      BY <1>1, <2>2
    <3>2. history[i].number \in 1 .. i
      BY <1>1, <2>2 DEF Numbered
    <3> QED BY <1>1, <2>2, <3>1, <3>2
  <2> QED BY <1>1, <2>1, <2>2
<1>3. m \in S /\ \A x \in S : x <= m
  <2> HIDE DEF S
  <2> QED BY <1>1, <1>2, GreatestOfBounded
<1>4. next_version(history) = m + 1
  BY DEF next_version
<1>5. \A j \in 1 .. Len(history) : history[j].number \in S
  BY <1>1
<1>6. m # 0 => \E j \in 1 .. Len(history) : history[j].number = m
  BY <1>1, <1>3
<1> HIDE DEF S, m
<1>7. m \in 0 .. Len(history)
  BY <1>2, <1>3
<1>8. \A j \in 1 .. Len(history) : history[j].number < m + 1
  <2> SUFFICES ASSUME NEW j \in 1 .. Len(history) PROVE history[j].number < m + 1
    OBVIOUS
  <2>1. history[j].number <= m /\ history[j].number \in 0 .. Len(history)
    BY <1>2, <1>3, <1>5
  <2> QED BY <1>1, <1>7, <2>1
<1>9. m + 1 # 1 => \E j \in 1 .. Len(history) : history[j].number = m + 1 - 1
  BY <1>6, <1>7
<1> QED BY <1>1, <1>4, <1>7, <1>8, <1>9

LEMMA ContinuedTells ==
    ASSUME NEW v \in Vendors, NEW row \in Profiles,
           versions[v] \in Seq(Records), Numbered(versions[v]),
           NEW history \in Continued(v, row)
    PROVE  /\ history \in Seq(Records) /\ Numbered(history) /\ Len(history) = Len(versions[v]) + 1
           /\ history[Len(history)].row = row /\ history[Len(history)].current
<1> DEFINE closed_ == Closed(versions[v])
           n == Len(versions[v])
<1>1. /\ closed_ \in Seq(Records) /\ Len(closed_) = n /\ n \in Nat
      /\ \A i \in 1 .. n : closed_[i].number = versions[v][i].number /\ ~closed_[i].current
  BY ClosedKeeps
<1>2. PICK number \in Numbers(versions[v]) : history = Append(closed_, Version(number, row))
  BY DEF Continued
<1> DEFINE new == Version(number, row)
<1>3. /\ number \in 1 .. n + 1
      /\ number # 1 => /\ \A j \in 1 .. n : versions[v][j].number < number
                       /\ \E j \in 1 .. n : versions[v][j].number = number - 1
  <2>1. CASE number = next_version(versions[v])
    BY <2>1, NextNumber
  <2>2. CASE number = 1
    BY <1>1, <2>2
  <2> QED BY <1>2, <2>1, <2>2 DEF Numbers
<1>4. new \in Records /\ new = [number |-> number, row |-> row, current |-> TRUE]
  BY <1>1, <1>3 DEF Version, Records
<1>5. \A i \in 1 .. n :
        /\ versions[v][i].number \in 1 .. i
        /\ versions[v][i].number # 1 =>
             /\ \A j \in 1 .. i - 1 : versions[v][j].number < versions[v][i].number
             /\ \E j \in 1 .. i - 1 : versions[v][j].number = versions[v][i].number - 1
  BY DEF Numbered
<1> HIDE DEF closed_, n, new
<1>6. /\ history \in Seq(Records) /\ Len(history) = n + 1
      /\ history[n + 1] = new
      /\ \A i \in 1 .. n : history[i] = closed_[i]
  BY <1>1, <1>2, <1>4 DEF new
<1>7. \A i \in 1 .. n : history[i].number = versions[v][i].number /\ ~history[i].current
  BY <1>1, <1>6
<1>8. Numbered(history)
  <2> SUFFICES ASSUME NEW i \in 1 .. n + 1
               PROVE  /\ history[i].current => i = n + 1
                      /\ history[i].number \in 1 .. i
                      /\ history[i].number # 1 =>
                           /\ \A j \in 1 .. i - 1 : history[j].number < history[i].number
                           /\ \E j \in 1 .. i - 1 : history[j].number = history[i].number - 1
    BY <1>6 DEF Numbered
  <2>1. CASE i = n + 1
    <3>1. history[i].number = number /\ 1 .. i - 1 = 1 .. n
      BY <1>1, <1>4, <1>6, <2>1
    <3> QED BY <1>1, <1>3, <1>7, <2>1, <3>1
  <2>2. CASE i \in 1 .. n
    <3>1. \A j \in 1 .. i - 1 : j \in 1 .. n /\ history[j].number = versions[v][j].number
      BY <1>1, <1>7, <2>2
    <3> QED BY <1>5, <1>7, <2>2, <3>1
  <2> QED BY <1>1, <2>1, <2>2
<1> QED BY <1>4, <1>6, <1>8 DEF n

LEMMA HistoryStep == HistoryInv /\ [HistoryNext]_historyVars => HistoryInv'
<1> SUFFICES ASSUME HistoryInv, [HistoryNext]_historyVars PROVE HistoryInv'
  OBVIOUS
<1>a. \A v \in Vendors : versions[v] \in Seq(Records) /\ Numbered(versions[v])
  BY DEF HistoryInv, Records
<1>1. CASE UNCHANGED historyVars
  BY <1>1 DEF historyVars, HistoryInv
<1>2. ASSUME NEW v \in Vendors, NEW row \in Profiles, apply_vendor_profile_update(v, row)
      PROVE  HistoryInv'
  <2>1. vendors' = [vendors EXCEPT ![v] = row]
    BY <1>2 DEF apply_vendor_profile_update
  <2>2. ASSUME NEW history \in Continued(v, row),
               versions' = [versions EXCEPT ![v] = history] /\ behind' = behind \ {v}
        PROVE  HistoryInv'
    <3>1. /\ history \in Seq(Records) /\ Numbered(history)
          /\ history[Len(history)].row = row /\ history[Len(history)].current
      BY <1>a, ContinuedTells
    <3> QED BY <2>1, <2>2, <3>1, HistoryAssumption DEF HistoryInv, Records
  <2>3. ASSUME NEW history \in {versions[v], Closed(versions[v])},
               versions' = [versions EXCEPT ![v] = history] /\ behind' = behind \cup {v}
        PROVE  HistoryInv'
    <3>1. history \in Seq(Records) /\ Numbered(history)
      <4>1. /\ Closed(versions[v]) \in Seq(Records)
            /\ Len(Closed(versions[v])) = Len(versions[v]) /\ Len(versions[v]) \in Nat
            /\ \A i \in 1 .. Len(versions[v]) :
                 /\ Closed(versions[v])[i].number = versions[v][i].number
                 /\ ~Closed(versions[v])[i].current
        BY <1>a, ClosedKeeps
      <4>2. ASSUME NEW i \in 1 .. Len(versions[v])
            PROVE  \A j \in 1 .. i - 1 : j \in 1 .. Len(versions[v])
        BY <4>1
      <4>3. Numbered(Closed(versions[v]))
        BY <1>a, <4>1, <4>2 DEF Numbered
      <4> QED BY <1>a, <2>3, <4>1, <4>3
    <3> QED BY <2>1, <2>3, <3>1, HistoryAssumption DEF HistoryInv, Records
  <2> QED BY <1>2, <2>2, <2>3 DEF apply_vendor_profile_update, Interrupted
<1>3. ASSUME NEW v \in Vendors, NEW row \in Profiles, create_vendor_profile(v, row)
      PROVE  HistoryInv'
  BY <1>3, HistoryAssumption DEF create_vendor_profile, HistoryInv
<1>4. ASSUME NEW v \in Vendors, NEW o \in Offerings, NEW row \in Profiles,
             create_offering(v, o, row) \/ update_offering_fields(v, o, row)
      PROVE  HistoryInv'
  BY <1>4 DEF create_offering, update_offering_fields, HistoryInv
<1> QED
  BY <1>1, <1>2, <1>3, <1>4
  DEF HistoryNext, vendor_new_submit, vendor_direct_update, vendor_lob_update, import_vendor,
      offering_new_submit, offering_update_submit, offering_ownership_lob_update_submit, import_offering

LEMMA HistoryStart == HistoryInit => HistoryInv
BY DEF HistoryInit, HistoryInv, Numbered

LEMMA HistoryTold == HistoryInv => HistoryTells
<1> SUFFICES ASSUME HistoryInv, NEW v \in Vendors
             PROVE  /\ \A i \in DOMAIN versions[v] :
                         /\ versions[v][i].current => i = Len(versions[v])
                         /\ versions[v][i].number # 1 =>
                              /\ \A j \in 1 .. i - 1 : versions[v][j].number < versions[v][i].number
                              /\ \E j \in 1 .. i - 1 :
                                   versions[v][j].number = versions[v][i].number - 1
                    /\ v \notin behind /\ versions[v] # <<>> =>
                         Last(versions[v]).row = vendors[v] /\ Last(versions[v]).current
  BY DEF HistoryTells
<1>1. DOMAIN versions[v] = 1 .. Len(versions[v])
  BY DEF HistoryInv
<1> QED BY <1>1 DEF HistoryInv, Numbered, Last

\* At most one version is current, the last one, and it tells what the vendor
\* is unless the vendor's last update lost it; no number above one comes
\* twice, whichever statements and reads failed.
THEOREM HistoryIsTold == HistorySpec => []HistoryTells
BY HistoryStart, HistoryStep, HistoryTold, PTL DEF HistorySpec

-----------------------------------------------------------------------------
(* Projects                                                                *)

Attached ==
    /\ primary \in [ProjectIds -> Vendors \cup {NoVendor, NoRow}]
    /\ vendorMap \in [ProjectIds -> SUBSET Vendors]
    /\ offeringMap \in [ProjectIds -> SUBSET Offerings]
    /\ PrimaryIsAttached
    /\ OfferingsBringVendors

\* Some vendor comes first among those there are.
LEMMA FirstIsOne ==
    ASSUME NEW V \in SUBSET Vendors, V # {}
    PROVE  FirstOf(V) \in V
<1> DEFINE ranks == {Rank[v] : v \in V}
<1>1. ranks \subseteq Nat /\ ranks # {}
  BY ProjectsAssumption DEF ProjectsAssumption
<1>2. PICK x \in ranks : \A y \in ranks : ~(<<y, x>> \in OpToRel(<, Nat))
  <2> HIDE DEF ranks
  <2> QED BY <1>1, WFMin, NatLessThanWellFounded
<1>3. \A y \in ranks : x <= y
  <2> SUFFICES ASSUME NEW y \in ranks, ~(x <= y) PROVE FALSE
    OBVIOUS
  <2>1. x \in Nat /\ y \in Nat
    BY <1>1
  <2>2. <<y, x>> \in {ss \in Nat \X Nat : ss[1] < ss[2]}
    BY <2>1
  <2>3. {ss \in Nat \X Nat : ss[1] < ss[2]} = OpToRel(<, Nat)
    BY DEF OpToRel
  <2> QED BY <1>2, <2>2, <2>3
<1>4. \E v \in V : \A w \in V : Rank[v] <= Rank[w]
  BY <1>3
<1> QED BY <1>4 DEF FirstOf

\* What one step may make of one project: it broke off, or the lists and the
\* primary vendor fit together.
Fits(first, V, O) ==
    /\ V \in SUBSET Vendors /\ VendorsOf(O) \subseteq V
    /\ IF V = {} THEN first = NoVendor ELSE first \in V

LEMMA ProjectStep ==
    ASSUME Attached, NEW j \in ProjectIds, NEW first \in Vendors \cup {NoVendor},
           NEW V \in SUBSET Vendors, NEW O \in SUBSET Offerings,
           primary' = [primary EXCEPT ![j] = first],
           vendorMap' = [vendorMap EXCEPT ![j] = V],
           offeringMap' = [offeringMap EXCEPT ![j] = O],
           broken \ {j} \subseteq broken', narrowed \ {j} \subseteq narrowed',
           \/ j \in broken'
           \/ Fits(first, V, {}) /\ j \in narrowed'
           \/ Fits(first, V, O)
    PROVE  Attached'
<1>1. /\ primary' \in [ProjectIds -> Vendors \cup {NoVendor, NoRow}]
      /\ vendorMap' \in [ProjectIds -> SUBSET Vendors]
      /\ offeringMap' \in [ProjectIds -> SUBSET Offerings]
  BY DEF Attached
<1>2. PrimaryIsAttached'
  BY <1>1 DEF Attached, PrimaryIsAttached, Present, Fits
<1>3. OfferingsBringVendors'
  <2> SUFFICES ASSUME NEW k \in ProjectIds, k \notin broken', k \notin narrowed'
               PROVE  VendorsOf(offeringMap'[k]) \subseteq vendorMap'[k]
    BY DEF OfferingsBringVendors, VendorsOf
  <2>1. CASE k = j
    BY <2>1 DEF Attached, Fits
  <2>2. CASE k # j
    BY <2>2 DEF Attached, OfferingsBringVendors
  <2> QED BY <2>1, <2>2
<1> QED BY <1>1, <1>2, <1>3 DEF Attached

LEMMA BothMaps ==
    ASSUME Attached, NEW j \in ProjectIds, NEW V \in SUBSET Vendors, NEW O \in SUBSET Offerings,
           NEW first \in Vendors \cup {NoVendor},
           Fits(first, V \cup VendorsOf(O), O),
           create_project(j, first, V, O) \/ update_project(j, first, V, O)
    PROVE  Attached'
<1> DEFINE all == V \cup VendorsOf(O)
<1>1. all \in SUBSET Vendors
  BY DEF Fits
<1>2. PICK W \in SUBSET Vendors, Q \in SUBSET Offerings :
        /\ primary' = [primary EXCEPT ![j] = first]
        /\ vendorMap' = [vendorMap EXCEPT ![j] = W]
        /\ offeringMap' = [offeringMap EXCEPT ![j] = Q]
        /\ broken' = IF <<W, Q>> = <<all, O>> THEN broken \ {j} ELSE broken \cup {j}
        /\ narrowed' = narrowed \ {j}
  <2>1. CASE create_project(j, first, V, O)
    <3>1. PICK m \in Maps(all, O) :
            /\ primary' = [primary EXCEPT ![j] = first]
            /\ vendorMap' = [vendorMap EXCEPT ![j] = m[1]]
            /\ offeringMap' = [offeringMap EXCEPT ![j] = m[2]]
            /\ broken' = IF m = <<all, O>> THEN broken \ {j} ELSE broken \cup {j}
            /\ narrowed' = narrowed \ {j}
      BY <2>1 DEF create_project
    <3>2. m[1] \in SUBSET Vendors /\ m[2] \in SUBSET Offerings /\ m = <<m[1], m[2]>>
      BY <1>1 DEF Maps
    <3> QED BY <3>1, <3>2
  <2>2. CASE update_project(j, first, V, O)
    <3> DEFINE fails == {<<vendorMap[j], offeringMap[j]>>}
                           \cup ((SUBSET all) \X {offeringMap[j]}) \cup ({all} \X SUBSET O)
    <3>1. PICK m \in {<<all, O>>} \cup IF Faults THEN fails ELSE {} :
            /\ primary' = [primary EXCEPT ![j] = first]
            /\ vendorMap' = [vendorMap EXCEPT ![j] = m[1]]
            /\ offeringMap' = [offeringMap EXCEPT ![j] = m[2]]
            /\ broken' = IF m = <<all, O>> THEN broken \ {j} ELSE broken \cup {j}
            /\ narrowed' = narrowed \ {j}
      BY <2>2 DEF update_project
    <3>2. vendorMap[j] \in SUBSET Vendors /\ offeringMap[j] \in SUBSET Offerings
      BY DEF Attached
    <3>3. m[1] \in SUBSET Vendors /\ m[2] \in SUBSET Offerings /\ m = <<m[1], m[2]>>
      BY <1>1, <3>2
    <3> QED BY <3>1, <3>3
  <2> QED BY <2>1, <2>2
<1>3. /\ broken \ {j} \subseteq broken' /\ narrowed \ {j} \subseteq narrowed'
      /\ j \in broken' \/ (W = all /\ Q = O)
  BY <1>2
<1>4. j \in broken' \/ Fits(first, W, Q)
  BY <1>3
<1> HIDE DEF all
<1> QED BY <1>2, <1>3, <1>4, ProjectStep

\* With the vendors alone, some may be left out while the offerings stay.
LEMMA VendorsAlone ==
    ASSUME Attached, NEW j \in ProjectIds, NEW V \in SUBSET Vendors, NEW first \in V,
           update_project_vendors(j, first, V)
    PROVE  Attached'
<1>1. /\ offeringMap' = [offeringMap EXCEPT ![j] = offeringMap[j]]
      /\ offeringMap[j] \in SUBSET Offerings /\ vendorMap[j] \in SUBSET Vendors
      /\ primary' = [primary EXCEPT ![j] = first] /\ first \in Vendors \cup {NoVendor}
      /\ narrowed \subseteq narrowed' /\ (j \in narrowed' \/ vendorMap[j] \subseteq V)
  BY DEF update_project_vendors, Attached
<1>2. CASE vendorMap' = [vendorMap EXCEPT ![j] = V] /\ UNCHANGED broken
  <2>1. j \in broken' \/ j \in narrowed' \/ VendorsOf(offeringMap[j]) \subseteq V
    BY <1>1, <1>2 DEF Attached, OfferingsBringVendors
  <2>2. Fits(first, V, {})
    BY DEF Fits, VendorsOf
  <2>3. VendorsOf(offeringMap[j]) \subseteq V => Fits(first, V, offeringMap[j])
    BY DEF Fits
  <2>4. broken \ {j} \subseteq broken'
    BY <1>2
  <2> QED BY <1>1, <1>2, <2>1, <2>2, <2>3, <2>4, ProjectStep
<1>3. ASSUME NEW done \in {vendorMap[j]} \cup SUBSET V,
             broken' = broken \cup {j}, vendorMap' = [vendorMap EXCEPT ![j] = done]
      PROVE  Attached'
  <2>1. done \in SUBSET Vendors
    BY <1>1
  <2>2. broken \ {j} \subseteq broken' /\ j \in broken'
    BY <1>3
  <2> QED BY <1>1, <1>3, <2>1, <2>2, ProjectStep
<1> QED BY <1>2, <1>3 DEF update_project_vendors

LEMMA VendorsAreIds ==
    ASSUME Attached, NEW j \in ProjectIds
    PROVE  _project_vendor_ids(j) \subseteq SUBSET Vendors
BY DEF Attached, _project_vendor_ids

\* The first vendor of a form fits the lists of the form.
LEMMA FirstsFit ==
    ASSUME NEW V \in SUBSET Vendors, NEW O \in SUBSET Offerings, NEW first \in Firsts(V, O)
    PROVE  first \in Vendors \cup {NoVendor} /\ Fits(first, V \cup VendorsOf(O), O)
<1>1. VendorsOf(O) \in SUBSET Vendors
  BY VendorOfAssumption DEF VendorsOf, VendorOfAssumption
<1>2. O # {} => VendorsOf(O) # {}
  BY DEF VendorsOf
<1>3. O = {} => VendorsOf(O) = {}
  BY DEF VendorsOf
<1> QED BY <1>1, <1>2, <1>3 DEF Fits, Firsts

LEMMA AttachedStep == Attached /\ [ProjectsNext]_projectVars => Attached'
<1> SUFFICES ASSUME Attached, [ProjectsNext]_projectVars PROVE Attached'
  OBVIOUS
<1>a. \A O \in SUBSET Offerings : VendorsOf(O) \in SUBSET Vendors
  BY VendorOfAssumption DEF VendorsOf, VendorOfAssumption
<1>1. CASE UNCHANGED mapVars
  BY <1>1 DEF mapVars, Attached, PrimaryIsAttached, OfferingsBringVendors
<1>2. ASSUME NEW p \in Policies, NEW j \in ProjectIds, NEW V \in SUBSET Vendors,
             NEW O \in SUBSET Offerings,
             projects_new_submit(p, j, V, O) \/ project_edit_submit(p, j, V, O)
      PROVE  Attached'
  BY <1>2, FirstsFit, BothMaps DEF projects_new_submit, project_edit_submit
<1>3. ASSUME NEW p \in Policies, NEW j \in ProjectIds, NEW V \in SUBSET Vendors,
             NEW O \in SUBSET Offerings, NEW v \in Vendors,
             vendor_project_new_submit(p, v, j, V, O) \/ vendor_project_edit_submit(p, v, j, V, O)
      PROVE  Attached'
  <2>1. PICK first \in V \cup {v} : \/ create_project(j, first, V \cup {v}, O)
                                  \/ update_project(j, first, V \cup {v}, O)
    BY <1>3 DEF vendor_project_new_submit, vendor_project_edit_submit
  <2>2. V \cup {v} \in SUBSET Vendors /\ first \in Vendors \cup {NoVendor}
    OBVIOUS
  <2>3. Fits(first, (V \cup {v}) \cup VendorsOf(O), O)
    BY <1>a DEF Fits
  <2> QED BY <2>1, <2>2, <2>3, BothMaps
<1>4. ASSUME NEW p \in Policies, NEW j \in ProjectIds, NEW v \in Vendors,
             project_add_vendor(p, j, v)
      PROVE  Attached'
  <2>1. PICK theirs \in _project_vendor_ids(j) :
          update_project_vendors(j, FirstOf(IF theirs = {} THEN {v} ELSE theirs), theirs \cup {v})
    BY <1>4 DEF project_add_vendor
  <2> DEFINE listed == IF theirs = {} THEN {v} ELSE theirs
             V == theirs \cup {v}
  <2>2. V \in SUBSET Vendors /\ listed \in SUBSET Vendors /\ listed # {} /\ listed \subseteq V
    BY VendorsAreIds
  <2>3. FirstOf(listed) \in V
    BY <2>2, FirstIsOne
  <2> QED BY <2>1, <2>2, <2>3, VendorsAlone
<1>5. ASSUME NEW p \in Policies, NEW j \in ProjectIds, NEW o \in Offerings,
             project_add_offering(p, j, o)
      PROVE  Attached'
  <2>1. PICK theirs \in _project_vendor_ids(j), others \in list_project_offerings(j) :
          update_project(j, FirstOf(IF theirs = {} THEN {VendorOf[o]} ELSE theirs),
                         theirs \cup {VendorOf[o]}, others \cup {o})
    BY <1>5 DEF project_add_offering
  <2> DEFINE listed == IF theirs = {} THEN {VendorOf[o]} ELSE theirs
             first == FirstOf(listed)
             V == theirs \cup {VendorOf[o]}
             O == others \cup {o}
  <2>2. /\ V \in SUBSET Vendors /\ listed \in SUBSET Vendors
        /\ listed # {} /\ listed \subseteq V
    BY VendorsAreIds, VendorOfAssumption DEF VendorOfAssumption
  <2>3. O \in SUBSET Offerings
    BY DEF list_project_offerings, Attached
  <2>4. first \in V /\ first \in Vendors \cup {NoVendor}
    BY <2>2, FirstIsOne
  <2>5. update_project(j, first, V, O)
    BY <2>1
  <2> HIDE DEF first, V, O
  <2>6. Fits(first, V \cup VendorsOf(O), O)
    BY <1>a, <2>2, <2>3, <2>4 DEF Fits
  <2> QED BY <2>2, <2>3, <2>4, <2>5, <2>6, BothMaps
<1>9. ASSUME NEW p \in Policies, NEW j \in ProjectIds, NEW V \in {{}} \cup {{v} : v \in Vendors},
             import_project_new(p, j, V)
      PROVE  Attached'
  <2>1. V \in SUBSET Vendors /\ {} \in SUBSET Offerings /\ create_project(j, FirstOf(V), V, {})
    BY <1>9 DEF import_project_new
  <2>2. IF V = {} THEN FirstOf(V) = NoVendor ELSE FirstOf(V) \in V
    BY <2>1, FirstIsOne DEF FirstOf
  <2>3. VendorsOf({}) = {}
    BY DEF VendorsOf
  <2>4. FirstOf(V) \in Vendors \cup {NoVendor} /\ Fits(FirstOf(V), V \cup VendorsOf({}), {})
    BY <2>1, <2>2, <2>3 DEF Fits
  <2> QED BY <2>1, <2>4, BothMaps
<1>10. ASSUME NEW p \in Policies, NEW j \in ProjectIds, NEW V \in {{}} \cup {{v} : v \in Vendors},
              import_project_merge(p, j, V)
       PROVE  Attached'
  <2> DEFINE named == IF V = {} THEN {primary[j]} \ {NoVendor} ELSE V
  <2>1. named # {} /\ update_project_vendors(j, FirstOf(named), named) /\ primary[j] # NoRow
    BY <1>10 DEF import_project_merge, get_project_by_id, Present
  <2>2. named \in SUBSET Vendors
    BY <2>1 DEF Attached
  <2>3. FirstOf(named) \in named
    BY <2>1, <2>2, FirstIsOne
  <2> QED BY <2>1, <2>2, <2>3, VendorsAlone
<1>6. ASSUME NEW p \in Policies, NEW j \in ProjectIds, NEW v \in Vendors,
             NEW o \in Offerings \cup {NoOffering},
             \/ project_demo_new_submit(p, v, j, o)
             \/ project_demo_map_submit(p, v, j, o)
             \/ \E d \in DemoIds : project_demo_update_submit(p, v, j, d, o)
      PROVE  Attached'
  BY <1>1, <1>6 DEF project_demo_new_submit, project_demo_map_submit, map_vendor_demo_to_project,
     create_project_demo, project_demo_update_submit, update_project_demo
<1>7. ASSUME NEW p \in Policies, NEW j \in ProjectIds,
             \/ \E v \in Vendors, d \in DemoIds : project_demo_remove_submit(p, v, j, d)
             \/ project_note_add(p, j)
      PROVE  Attached'
  BY <1>1, <1>7 DEF project_demo_remove_submit, remove_project_demo, project_note_add,
     add_project_note
<1>8. CASE UNCHANGED projectVars
  BY <1>1, <1>8 DEF projectVars
<1> QED BY <1>2, <1>3, <1>4, <1>5, <1>6, <1>7, <1>8, <1>9, <1>10 DEF ProjectsNext

LEMMA ProjectsStart == ProjectsInit => Attached
BY DEF ProjectsInit, Attached, PrimaryIsAttached, OfferingsBringVendors, Present, VendorsOf

LEMMA ProjectsInductive == ProjectsSpec => []Attached
BY ProjectsStart, AttachedStep, PTL DEF ProjectsSpec

\* The primary vendor of a project is one of its vendors whichever page set
\* them, unless an update of the project broke off.
THEOREM PrimaryStaysAttached == ProjectsSpec => []PrimaryIsAttached
BY ProjectsInductive, PTL DEF Attached

\* A project's vendors include those of its offerings, unless an update of it
\* broke off or gave it fewer vendors and left the offerings as they were, as
\* the import of a row that merges it does.
THEOREM OfferingsHaveTheirVendors == ProjectsSpec => []OfferingsBringVendors
BY ProjectsInductive, PTL DEF Attached

-----------------------------------------------------------------------------
(* Demos: sums                                                             *)

\* Induction over the places of a sequence.
LEMMA UpTo ==
    ASSUME NEW n \in Nat, NEW T, 0 \in T, \A k \in 1 .. n : k - 1 \in T => k \in T
    PROVE  0 .. n \subseteq T
<1> SUFFICES ASSUME (0 .. n) \ T # {} PROVE FALSE
  OBVIOUS
<1>1. (0 .. n) \ T \subseteq Nat
  OBVIOUS
<1>2. PICK k \in (0 .. n) \ T : \A m \in (0 .. n) \ T : ~(<<m, k>> \in OpToRel(<, Nat))
  BY <1>1, WFMin, NatLessThanWellFounded
<1>3. {ss \in Nat \X Nat : ss[1] < ss[2]} = OpToRel(<, Nat)
  BY DEF OpToRel
<1>4. k \in 1 .. n /\ k - 1 \in 0 .. n
  <2>1. k \in 0 .. n /\ k \notin T
    BY <1>2
  <2>2. k # 0
    BY <2>1
  <2> QED BY <2>1, <2>2
<1>5. <<k - 1, k>> \in {ss \in Nat \X Nat : ss[1] < ss[2]}
  BY <1>4
<1>6. k - 1 \in T
  BY <1>2, <1>3, <1>4, <1>5
<1> QED BY <1>2, <1>4, <1>6

\* The totals on the way to the sum of n terms.
Totals(terms, n, sum) == sum = [m \in 0 .. n |-> IF m = 0 THEN 0 ELSE sum[m - 1] + terms[m]]

LEMMA TotalsThere ==
    ASSUME NEW terms, NEW n \in Nat
    PROVE  \E sum : Totals(terms, n, sum)
<1> DEFINE T == {k \in 0 .. n : \E sum : Totals(terms, k, sum)}
<1>1. 0 \in T
  <2> DEFINE sum == [m \in 0 .. 0 |-> 0]
  <2>1. \A m \in 0 .. 0 : m = 0
    OBVIOUS
  <2>2. sum = [m \in 0 .. 0 |-> IF m = 0 THEN 0 ELSE sum[m - 1] + terms[m]]
    BY <2>1
  <2>3. Totals(terms, 0, sum)
    BY <2>2 DEF Totals
  <2> QED BY <2>3
<1>2. ASSUME NEW k \in 1 .. n, k - 1 \in T PROVE k \in T
  <2>1. PICK old : Totals(terms, k - 1, old)
    BY <1>2
  <2> DEFINE sum == [m \in 0 .. k |-> IF m = k THEN old[k - 1] + terms[k] ELSE old[m]]
  <2>2. ASSUME NEW m \in 0 .. k
        PROVE  sum[m] = IF m = 0 THEN 0 ELSE sum[m - 1] + terms[m]
    <3>1. \A l \in 0 .. k - 1 : old[l] = IF l = 0 THEN 0 ELSE old[l - 1] + terms[l]
      BY <2>1 DEF Totals
    <3>2. CASE m = k
      <4>1. k - 1 \in 0 .. k /\ k - 1 # k /\ k # 0
        OBVIOUS
      <4>2. sum[k - 1] = old[k - 1]
        BY <4>1
      <4> QED BY <3>2, <4>1, <4>2
    <3>3. CASE m # k /\ m # 0
      <4>1. m \in 0 .. k - 1 /\ m - 1 \in 0 .. k /\ m - 1 # k
        BY <3>3
      <4>2. sum[m - 1] = old[m - 1] /\ sum[m] = old[m]
        BY <3>3, <4>1
      <4> QED BY <3>1, <3>3, <4>1, <4>2
    <3>4. CASE m = 0 /\ m # k
      <4>1. 0 \in 0 .. k - 1
        OBVIOUS
      <4> QED BY <3>1, <3>4, <4>1
    <3> QED BY <3>2, <3>3, <3>4
  <2>3. sum = [m \in 0 .. k |-> IF m = 0 THEN 0 ELSE sum[m - 1] + terms[m]]
    <3>1. sum = [m \in 0 .. k |-> sum[m]]
      OBVIOUS
    <3> HIDE DEF sum
    <3> QED BY <2>2, <3>1
  <2> HIDE DEF sum
  <2>4. Totals(terms, k, sum)
    BY <2>3 DEF Totals
  <2> QED BY <2>4
<1>3. 0 .. n \subseteq T
  <2> HIDE DEF T
  <2> QED BY <1>1, <1>2, UpTo
<1>4. n \in 0 .. n
  OBVIOUS
<1> QED BY <1>3, <1>4

LEMMA SumIs ==
    ASSUME NEW terms \in Seq(Nat)
    PROVE  \E sum : Totals(terms, Len(terms), sum) /\ SumOf(terms) = sum[Len(terms)]
<1>1. Len(terms) \in Nat
  OBVIOUS
<1>2. \E sum : Totals(terms, Len(terms), sum)
  BY <1>1, TotalsThere
<1> QED BY <1>2 DEF SumOf, Totals

\* The sum of more is more; terms up to most have an average up to most.
LEMMA SumsGrow ==
    ASSUME NEW a \in Seq(Nat), NEW b \in Seq(Nat), Len(a) = Len(b), \A i \in 1 .. Len(a) : a[i] <= b[i]
    PROVE  SumOf(a) \in Nat /\ SumOf(b) \in Nat /\ SumOf(a) <= SumOf(b)
<1> DEFINE n == Len(a)
<1>1. n \in Nat /\ Len(b) = n /\ \A i \in 1 .. n : a[i] \in Nat /\ b[i] \in Nat /\ a[i] <= b[i]
  OBVIOUS
<1>2. PICK s : Totals(a, n, s) /\ SumOf(a) = s[n]
  BY SumIs
<1>3. PICK t : Totals(b, n, t) /\ SumOf(b) = t[n]
  BY SumIs
<1> HIDE DEF n
<1> DEFINE T == {k \in 0 .. n : s[k] \in Nat /\ t[k] \in Nat /\ s[k] <= t[k]}
<1>4. \A k \in 0 .. n : s[k] = IF k = 0 THEN 0 ELSE s[k - 1] + a[k]
  BY <1>2 DEF Totals
<1>5. \A k \in 0 .. n : t[k] = IF k = 0 THEN 0 ELSE t[k - 1] + b[k]
  BY <1>3 DEF Totals
<1>6. 0 \in T
  BY <1>1, <1>4, <1>5
<1>7. ASSUME NEW k \in 1 .. n, k - 1 \in T PROVE k \in T
  <2>1. s[k] = s[k - 1] + a[k] /\ t[k] = t[k - 1] + b[k] /\ k \in 0 .. n
    BY <1>1, <1>4, <1>5
  <2>2. a[k] \in Nat /\ b[k] \in Nat /\ a[k] <= b[k] /\ k \in 0 .. n
    BY <1>1
  <2>3. s[k - 1] \in Nat /\ t[k - 1] \in Nat /\ s[k - 1] <= t[k - 1]
    BY <1>7
  <2>4. \A p, q, x, y \in Nat : p <= q /\ x <= y => p + x \in Nat /\ q + y \in Nat /\ p + x <= q + y
    OBVIOUS
  <2>5. s[k - 1] + a[k] \in Nat /\ t[k - 1] + b[k] \in Nat /\ s[k - 1] + a[k] <= t[k - 1] + b[k]
    BY ONLY <2>2, <2>3, <2>4, Zenon
  <2>6. s[k] \in Nat /\ t[k] \in Nat /\ s[k] <= t[k]
    BY ONLY <2>1, <2>5, Zenon
  <2> QED BY <2>2, <2>6
<1>8. 0 .. n \subseteq T
  <2> HIDE DEF T
  <2> QED BY <1>1, <1>6, <1>7, UpTo
<1>9. n \in 0 .. n
  BY <1>1
<1> QED BY <1>2, <1>3, <1>8, <1>9

LEMMA SumBounded ==
    ASSUME NEW a \in Seq(Nat), NEW most \in Nat, \A i \in 1 .. Len(a) : a[i] <= most
    PROVE  SumOf(a) \in Nat /\ SumOf(a) <= Len(a) * most
<1> DEFINE n == Len(a)
<1>1. n \in Nat /\ \A i \in 1 .. n : a[i] \in Nat /\ a[i] <= most
  OBVIOUS
<1>2. PICK s : Totals(a, n, s) /\ SumOf(a) = s[n]
  BY SumIs
<1> HIDE DEF n
<1> DEFINE T == {k \in 0 .. n : s[k] \in Nat /\ s[k] <= k * most}
<1>3. \A k \in 0 .. n : s[k] = IF k = 0 THEN 0 ELSE s[k - 1] + a[k]
  BY <1>2 DEF Totals
<1>4. 0 \in T
  BY <1>1, <1>3
<1>5. ASSUME NEW k \in 1 .. n, k - 1 \in T PROVE k \in T
  <2>1. s[k] = s[k - 1] + a[k] /\ k \in 0 .. n
    BY <1>1, <1>3
  <2>2. (k - 1) * most + most = k * most
    OBVIOUS
  <2>3. k * most \in Nat /\ (k - 1) * most \in Nat
    OBVIOUS
  <2> QED BY <1>1, <1>5, <2>1, <2>2, <2>3
<1>6. 0 .. n \subseteq T
  <2> HIDE DEF T
  <2> QED BY <1>1, <1>4, <1>5, UpTo
<1>7. n \in 0 .. n
  BY <1>1
<1> QED BY <1>2, <1>6, <1>7 DEF n

-----------------------------------------------------------------------------
(* The questions of a form                                                 *)

IsQuestion(q) ==
    /\ q \in [type : SCORE_SCALE \cup SCORE_OPTION \cup NON_SCORED, weight : Nat,
             required : BOOLEAN, multiple : BOOLEAN, min : Int, max : Int, step : Nat,
             options : Seq(Nat)]
    /\ q.step > 0
    /\ q.type \in SCORE_SCALE => q.min < q.max
    /\ q.type \in SCORE_OPTION => q.options # <<>>

IsForm(form) ==
    /\ form = [i \in 1 .. Len(form) |-> form[i]] /\ Len(form) \in Nat
    /\ \A i \in 1 .. Len(form) : IsQuestion(form[i])

LEMMA Least ==
    ASSUME NEW a \in Int, NEW b \in Int
    PROVE  Min({a, b}) \in {a, b} /\ Min({a, b}) <= a /\ Min({a, b}) <= b
<1>1. \E x \in {a, b} : \A y \in {a, b} : x <= y
  <2>1. CASE a <= b
    BY <2>1
  <2>2. CASE ~(a <= b)
    BY <2>2
  <2> QED BY <2>1, <2>2
<1> QED BY <1>1 DEF Min

LEMMA Greatest ==
    ASSUME NEW a \in Int, NEW b \in Int
    PROVE  Max({a, b}) \in {a, b} /\ Max({a, b}) >= a /\ Max({a, b}) >= b
<1>1. \E x \in {a, b} : \A y \in {a, b} : x >= y
  <2>1. CASE a >= b
    BY <2>1
  <2>2. CASE ~(a >= b)
    BY <2>2
  <2> QED BY <2>1, <2>2
<1> QED BY <1>1 DEF Max

LEMMA SafeFloat ==
    ASSUME NEW x, x \in Int, NEW lo, lo \in Int, NEW hi, hi \in Int, lo <= hi
    PROVE  _safe_float(x, lo, hi) \in Int /\ _safe_float(x, lo, hi) >= lo
<1>1. Min({x, hi}) \in Int
  BY Least
<1>2. Max({lo, Min({x, hi})}) \in {lo, Min({x, hi})} /\ Max({lo, Min({x, hi})}) >= lo
  BY <1>1, Greatest
<1> QED BY <1>1, <1>2 DEF _safe_float

LEMMA DefaultOptions ==
    ASSUME NEW type \in SCORE_OPTION
    PROVE  _default_options_for_question_type(type) \in Seq(Nat) \ {<<>>}
<1>1. type \in {"boolean", "multi_choice", "likert_scale", "dropdown_select"}
  BY DEF SCORE_OPTION
<1>2. /\ <<100, 0>> \in Seq(Nat) \ {<<>>} /\ <<100, 50, 0>> \in Seq(Nat) \ {<<>>}
      /\ <<100, 200, 300, 400, 500>> \in Seq(Nat) \ {<<>>}
  OBVIOUS
<1>3. CASE type = "boolean"
  BY <1>2, <1>3 DEF _default_options_for_question_type
<1>4. CASE type = "multi_choice"
  BY <1>2, <1>4 DEF _default_options_for_question_type
<1>5. CASE type = "likert_scale"
  BY <1>2, <1>5 DEF _default_options_for_question_type
<1>6. CASE type = "dropdown_select"
  BY <1>2, <1>6 DEF _default_options_for_question_type
<1> QED BY <1>1, <1>3, <1>4, <1>5, <1>6

LEMMA ParsedIsQuestion ==
    ASSUME NEW q \in QuestionInputs, Accepted(q)
    PROVE  IsQuestion(ParsedQuestion(q))
<1> DEFINE r == ParsedQuestion(q)
           opts == IF q.type \notin SCORE_OPTION THEN <<>>
                   ELSE IF q.options = <<>> THEN _default_options_for_question_type(q.type)
                   ELSE [i \in DOMAIN q.options |-> _safe_float(q.options[i], 0, 10000)]
           lo == IF q.type = "star_rating" THEN 100 ELSE _safe_float(q.min, 0, 100000)
           hi == IF q.type = "star_rating" THEN 500 ELSE _safe_float(q.max, 1, 100000)
           st == IF q.type = "star_rating" THEN 100 ELSE _safe_float(q.step, 1, 10000)
           w == _safe_float(q.weight, 1, 10000)
<1>1. /\ q.type \in SCORE_SCALE \cup SCORE_OPTION \cup NON_SCORED /\ q.weight \in Int
      /\ q.required \in BOOLEAN /\ q.multiple \in BOOLEAN /\ q.min \in Int /\ q.max \in Int
      /\ q.step \in Int /\ q.options \in Seq(Int)
  BY DEF QuestionInputs
<1> HIDE DEF r, opts, lo, hi, st, w
<1>2. w \in Nat
  <2>1. q.weight \in Int
    BY <1>1
  <2>2. w \in Int /\ w >= 1
    BY <2>1, SafeFloat DEF w
  <2> QED BY <2>2
<1>3. st \in Nat /\ st > 0
  <2>1. q.step \in Int
    BY <1>1
  <2>2. _safe_float(q.step, 1, 10000) \in Int /\ _safe_float(q.step, 1, 10000) >= 1
    BY <2>1, SafeFloat
  <2> QED BY <2>2 DEF st
<1>4. lo \in Int /\ hi \in Int /\ (q.type \in SCORE_SCALE => lo < hi)
  <2>1. q.min \in Int /\ q.max \in Int
    BY <1>1
  <2>2. _safe_float(q.min, 0, 100000) \in Int /\ _safe_float(q.max, 1, 100000) \in Int
    BY <2>1, SafeFloat
  <2> QED BY <2>2 DEF Accepted, lo, hi, SCORE_SCALE
<1>5. opts \in Seq(Nat) /\ (q.type \in SCORE_OPTION => opts # <<>>)
  <2>1. CASE q.type \notin SCORE_OPTION
    BY <2>1 DEF opts
  <2>2. CASE q.type \in SCORE_OPTION /\ q.options = <<>>
    BY <2>2, DefaultOptions DEF opts
  <2>3. CASE q.type \in SCORE_OPTION /\ q.options # <<>>
    <3> DEFINE n == Len(q.options)
    <3>1. n \in Nat /\ n # 0 /\ DOMAIN q.options = 1 .. n /\ \A i \in 1 .. n : q.options[i] \in Int
      BY <1>1, <2>3
    <3> HIDE DEF n
    <3>2. \A i \in 1 .. n : _safe_float(q.options[i], 0, 10000) \in Nat
      <4> SUFFICES ASSUME NEW i \in 1 .. n PROVE _safe_float(q.options[i], 0, 10000) \in Nat
        OBVIOUS
      <4>1. q.options[i] \in Int
        BY <3>1
      <4> HIDE DEF n
      <4>2. _safe_float(q.options[i], 0, 10000) \in Int /\ _safe_float(q.options[i], 0, 10000) >= 0
        BY <4>1, SafeFloat
      <4> QED BY <4>2
    <3>3. opts = [i \in 1 .. n |-> _safe_float(q.options[i], 0, 10000)]
      BY <2>3, <3>1 DEF opts
    <3>4. opts \in Seq(Nat) /\ Len(opts) = n
      BY <3>1, <3>2, <3>3
    <3> QED BY <2>3, <3>1, <3>4
  <2> QED BY <2>1, <2>2, <2>3
<1>6. r = [type |-> q.type, weight |-> w, required |-> q.required /\ q.type # "section_header",
           multiple |-> q.multiple /\ q.type = "multi_choice", min |-> lo, max |-> hi,
           step |-> st, options |-> opts]
  BY DEF ParsedQuestion, r, w, lo, hi, st, opts
<1> QED BY <1>1, <1>2, <1>3, <1>4, <1>5, <1>6 DEF IsQuestion, r

LEMMA ParsedIsForm ==
    ASSUME NEW input \in FormInputs
    PROVE  IsForm(parse_template_questions_from_form(input))
<1>1. input \in Seq(QuestionInputs)
  BY DemosAssumption DEF DemosAssumption
<1> DEFINE n == Len(input)
           form == parse_template_questions_from_form(input)
<1>2. n \in Nat /\ DOMAIN input = 1 .. n /\ \A i \in 1 .. n : input[i] \in QuestionInputs
  BY <1>1
<1> HIDE DEF n
<1>3. CASE \A i \in 1 .. n : Accepted(input[i])
  <2>1. form = [i \in 1 .. n |-> ParsedQuestion(input[i])]
    BY <1>2, <1>3 DEF parse_template_questions_from_form
  <2>2. \A i \in 1 .. n : IsQuestion(ParsedQuestion(input[i]))
    BY <1>2, <1>3, ParsedIsQuestion
  <2> HIDE DEF form
  <2>3. Len(form) = n /\ form = [i \in 1 .. n |-> form[i]]
        /\ \A i \in 1 .. n : form[i] = ParsedQuestion(input[i])
    BY <1>2, <2>1
  <2> QED BY <1>2, <2>2, <2>3 DEF IsForm, form
<1>4. CASE ~\A i \in 1 .. n : Accepted(input[i])
  <2>1. form = <<>>
    BY <1>2, <1>4 DEF parse_template_questions_from_form, NoForm
  <2>2. Len(<<>>) = 0 /\ <<>> = [i \in 1 .. 0 |-> <<>>[i]] /\ 1 .. 0 = {}
    OBVIOUS
  <2> QED BY <2>1, <2>2 DEF IsForm
<1> QED BY <1>3, <1>4

-----------------------------------------------------------------------------
(* Scores                                                                  *)

LEMMA TimesMore ==
    ASSUME NEW w, w \in Nat, NEW x, x \in Nat, NEW y, y \in Nat, x <= y
    PROVE  w * x \in Nat /\ w * y \in Nat /\ w * x <= w * y
<1>1. w * (y - x) \in Nat
  OBVIOUS
<1>2. w * y = w * x + w * (y - x)
  OBVIOUS
<1> QED BY <1>1, <1>2

\* Division, as it is.
LEMMA Quotient ==
    ASSUME NEW a, a \in Nat, NEW b, b \in Nat, b > 0
    PROVE  \E q \in Nat : /\ a \div b = q /\ a % b = a - b * q
                          /\ b * q <= a /\ a < b * q + b
<1>1. PICK x \in Nat : x = a
  OBVIOUS
<1>2. PICK y \in Nat : y = b
  OBVIOUS
<1>3. x \div y \in Nat
  BY <1>2
<1>4. PICK q \in Nat : q = x \div y
  BY <1>3
<1>5. y * q <= x /\ x < y * q + y
  BY <1>2, <1>4
<1>6. x % y = x - y * q
  BY <1>2, <1>4
<1> QED BY <1>1, <1>2, <1>4, <1>5, <1>6

LEMMA AtMost ==
    ASSUME NEW a, a \in Nat, NEW b, b \in Nat, b > 0, NEW m, m \in Nat, a <= b * m
    PROVE  a \div b \in Nat /\ a \div b <= m
<1>1. PICK q \in Nat : a \div b = q /\ b * q <= a
  BY Quotient
<1>2. ASSUME q > m PROVE FALSE
  <2>1. m + 1 <= q /\ m + 1 \in Nat
    BY <1>2
  <2>2. b * (m + 1) <= b * q
    BY <1>1, <2>1, TimesMore
  <2>3. b * (m + 1) = b * m + b
    OBVIOUS
  <2>4. b * q \in Nat /\ b * m \in Nat
    BY <1>1
  <2> QED BY <1>1, <2>2, <2>3, <2>4
<1> QED BY <1>1, <1>2

\* Nothing is rounded beyond what there is in all.
Full == 1000

LEMMA Rounded ==
    ASSUME NEW a, a \in Nat, NEW b, b \in Nat, b > 0, a <= b * Full
    PROVE  Round(a, b) \in 0 .. Full
<1> USE DEF Full
<1>1. PICK q \in Nat : a \div b = q /\ a % b = a - b * q /\ b * q <= a /\ a < b * q + b
  BY Quotient
<1>2. q <= 1000
  <2>1. PICK m \in Nat : m = 1000
    OBVIOUS
  <2>2. a <= b * m
    BY <2>1
  <2> QED BY <1>1, <2>1, <2>2, AtMost
<1>3. CASE q < 1000
  BY <1>1, <1>3 DEF Round
<1>4. CASE q = 1000
  <2>1. a % b = 0
    BY <1>1, <1>4
  <2>2. 2 * (a % b) < b
    BY <2>1
  <2> QED BY <1>1, <1>4, <2>2 DEF Round
<1> QED BY <1>2, <1>3, <1>4

\* A sequence and one number more have a greatest.
LEMMA GreatestOf ==
    ASSUME NEW s \in Seq(Nat)
    PROVE  LET S == Range(s) \cup {1}
           IN Max(S) \in Nat /\ Max(S) >= 1 /\ \A i \in 1 .. Len(s) : s[i] <= Max(S)
<1> DEFINE n == Len(s)
           First(k) == {s[i] : i \in 1 .. k} \cup {1}
           T == {k \in 0 .. n : \E x \in First(k) : \A y \in First(k) : x >= y}
<1>1. n \in Nat /\ DOMAIN s = 1 .. n /\ \A i \in 1 .. n : s[i] \in Nat
  OBVIOUS
<1> HIDE DEF n
<1>2. 0 \in T
  BY <1>1
<1>3. ASSUME NEW k \in 1 .. n, k - 1 \in T PROVE k \in T
  <2>1. PICK x \in First(k - 1) : \A y \in First(k - 1) : x >= y
    BY <1>3
  <2>2. First(k) = First(k - 1) \cup {s[k]}
    BY <1>1
  <2>3. x \in Nat /\ s[k] \in Nat /\ First(k - 1) \subseteq Nat /\ k \in 0 .. n
    BY <1>1
  <2> HIDE DEF First
  <2>4. CASE x >= s[k]
    BY <2>1, <2>2, <2>3, <2>4
  <2>5. CASE ~(x >= s[k])
    <3>1. \A y \in First(k) : s[k] >= y
      BY <2>1, <2>2, <2>3, <2>5
    <3> QED BY <2>2, <2>3, <3>1
  <2> QED BY <2>4, <2>5
<1>4. 0 .. n \subseteq T
  <2> HIDE DEF T
  <2> QED BY <1>1, <1>2, <1>3, UpTo
<1>5. n \in 0 .. n /\ First(n) = Range(s) \cup {1}
  BY <1>1 DEF Range
<1>6. \E x \in Range(s) \cup {1} : \A y \in Range(s) \cup {1} : x >= y
  BY <1>4, <1>5
<1>7. Range(s) \cup {1} \subseteq Nat
  BY <1>1 DEF Range
<1>8. Max(Range(s) \cup {1}) \in Range(s) \cup {1}
      /\ \A y \in Range(s) \cup {1} : Max(Range(s) \cup {1}) >= y
  BY <1>6 DEF Max
<1>9. \A i \in 1 .. n : s[i] \in Range(s)
  BY <1>1 DEF Range
<1> QED BY <1>1, <1>7, <1>8, <1>9 DEF n

\* What is read back of a question: no option weighs more than the top.
ReadBack(t) ==
    /\ IsQuestion(t.q) /\ t.top \in Nat
    /\ t.q.type \in SCORE_SCALE => t.top = 100
    /\ t.q.type \in SCORE_OPTION => \A i \in 1 .. Len(t.q.options) : t.q.options[i] <= t.top

LEMMA TemplateFacts ==
    ASSUME NEW form, IsForm(form)
    PROVE  /\ DOMAIN _parse_template_v2(form) = 1 .. Len(form)
           /\ \A i \in 1 .. Len(form) : ReadBack(_parse_template_v2(form)[i])
<1> DEFINE n == Len(form)
           top(q) == IF q.type \in SCORE_OPTION THEN Max(Range(q.options) \cup {1})
                     ELSE IF q.type \in SCORE_SCALE THEN 100 ELSE 0
<1>1. DOMAIN form = 1 .. n /\ \A i \in 1 .. n : IsQuestion(form[i])
  BY DEF IsForm
<1> HIDE DEF n
<1>2. _parse_template_v2(form) = [i \in 1 .. n |-> [q |-> form[i], top |-> top(form[i])]]
  BY <1>1 DEF _parse_template_v2
<1>3. ASSUME NEW q, IsQuestion(q) PROVE ReadBack([q |-> q, top |-> top(q)])
  <2>1. q.options \in Seq(Nat)
    BY <1>3 DEF IsQuestion
  <2>2. q.type \in SCORE_SCALE => q.type \notin SCORE_OPTION
    BY DEF SCORE_SCALE, SCORE_OPTION
  <2>3. top(q) \in Nat
    BY <2>1, GreatestOf
  <2>4. q.type \in SCORE_OPTION => \A i \in 1 .. Len(q.options) : q.options[i] <= top(q)
    BY <2>1, GreatestOf
  <2>5. q.type \in SCORE_SCALE => top(q) = 100
    BY <2>2
  <2> HIDE DEF top
  <2> QED BY <1>3, <2>3, <2>4, <2>5 DEF ReadBack
<1> HIDE DEF top
<1> QED BY <1>1, <1>2, <1>3 DEF n

\* What an answer may earn.
Earns(part) == part.is \in Nat /\ part.of \in Nat /\ part.is <= part.of

LEMMA WeightedFacts ==
    ASSUME NEW t, ReadBack(t), NEW answer \in Seq(Int), AnswerOK(t.q, answer)
    PROVE  Earns(Weighted(t, answer))
<1> DEFINE q == t.q
<1>1. /\ IsQuestion(q) /\ t.top \in Nat
      /\ q.type \in SCORE_SCALE => t.top = 100
      /\ q.type \in SCORE_OPTION => \A i \in 1 .. Len(q.options) : q.options[i] <= t.top
  BY DEF ReadBack
<1>2. q.weight \in Nat /\ q.min \in Int /\ q.max \in Int /\ q.multiple \in BOOLEAN
      /\ q.options \in Seq(Nat) /\ (q.type \in SCORE_SCALE => q.min < q.max)
  BY <1>1 DEF IsQuestion
<1>3. q.type \in SCORE_SCALE => q.type \notin SCORE_OPTION
  BY DEF SCORE_SCALE, SCORE_OPTION
<1>4. AnswerOK(q, answer)
  OBVIOUS
<1>5. CASE answer = <<>> \/ q.type \notin SCORE_SCALE \cup SCORE_OPTION
  BY <1>5 DEF Weighted, Earns
<1>6. CASE answer # <<>> /\ q.type \in SCORE_SCALE
  <2> DEFINE on == OnScale(q, answer[1])
             share == (100 * (on - q.min)) \div (q.max - q.min)
  <2>1. on \in q.min .. q.max
    BY <1>4, <1>6 DEF AnswerOK, SCORE_SCALE
  <2>2. Weighted(t, answer) = [is |-> q.weight * share, of |-> q.weight * t.top]
    BY <1>6 DEF Weighted
  <2> HIDE DEF on, q
  <2>3. on - q.min \in Nat /\ q.max - q.min \in Nat /\ q.max - q.min > 0 /\ on - q.min <= q.max - q.min
    BY <1>2, <1>6, <2>1
  <2>4. 100 * (on - q.min) \in Nat /\ 100 * (on - q.min) <= (q.max - q.min) * 100
    BY <2>3
  <2>5. share \in Nat /\ share <= 100
    BY <2>3, <2>4, AtMost
  <2> HIDE DEF share
  <2>6. q.weight * share \in Nat /\ q.weight * t.top \in Nat /\ q.weight * share <= q.weight * t.top
    BY <1>1, <1>2, <1>6, <2>5, TimesMore
  <2> QED BY <2>2, <2>6 DEF Earns
<1>7. CASE answer # <<>> /\ q.type \in SCORE_OPTION
  <2> DEFINE chosen == Chosen(q, answer)
             weights == WeightsOf(q, answer)
             share == SumOf(weights) \div Len(chosen)
  <2>1. Range(chosen) \subseteq DOMAIN q.options
    BY <1>4, <1>7 DEF AnswerOK, SCORE_OPTION
  <2>2. Weighted(t, answer) = [is |-> q.weight * share, of |-> q.weight * t.top]
    BY <1>3, <1>7 DEF Weighted
  <2> HIDE DEF q
  <2>3. /\ chosen \in Seq(Int) /\ Len(chosen) \in Nat \ {0} /\ DOMAIN chosen = 1 .. Len(chosen)
        /\ \A i \in 1 .. Len(chosen) : chosen[i] = answer[i]
    <3>1. CASE q.multiple
      BY <1>7, <3>1 DEF Chosen
    <3>2. CASE ~q.multiple
      <4>1. answer[1] \in Int
        BY <1>7
      <4>2. chosen = <<answer[1]>>
        BY <3>2 DEF Chosen
      <4> QED BY <4>1, <4>2
    <3> QED BY <3>1, <3>2
  <2> DEFINE m == Len(chosen)
  <2>4. \A i \in 1 .. m : chosen[i] \in 1 .. Len(q.options)
    <3>1. DOMAIN q.options = 1 .. Len(q.options)
      BY <1>2
    <3>2. \A i \in 1 .. m : chosen[i] \in Range(chosen)
      BY <2>3 DEF Range
    <3> QED BY <2>1, <3>1, <3>2
  <2>5. weights = [i \in 1 .. m |-> q.options[chosen[i]]]
    BY <2>3 DEF WeightsOf
  <2> HIDE DEF chosen, weights, m
  <2>6. \A i \in 1 .. m : q.options[chosen[i]] \in Nat /\ q.options[chosen[i]] <= t.top
    BY <1>1, <1>2, <1>7, <2>4
  <2>7. m \in Nat /\ m > 0
    BY <2>3 DEF m
  <2>8. weights \in Seq(Nat) /\ Len(weights) = m /\ \A i \in 1 .. m : weights[i] <= t.top
    <3>1. \A i \in 1 .. m : weights[i] \in Nat /\ weights[i] <= t.top
      BY <2>5, <2>6
    <3>2. weights \in Seq(Nat) /\ Len(weights) = m
      BY <2>5, <2>7, <3>1
    <3> QED BY <3>1, <3>2
  <2>9. SumOf(weights) \in Nat /\ SumOf(weights) <= m * t.top
    BY <1>1, <2>8, SumBounded
  <2>10. share \in Nat /\ share <= t.top
    BY <1>1, <2>7, <2>9, AtMost DEF m
  <2> HIDE DEF share
  <2>11. q.weight * share \in Nat /\ q.weight * t.top \in Nat /\ q.weight * share <= q.weight * t.top
    BY <1>1, <1>2, <2>10, TimesMore
  <2> QED BY <2>2, <2>11 DEF Earns
<1> QED BY <1>5, <1>6, <1>7

Results == [overall : 0 .. Full, answered : BOOLEAN]

LEMMA ScoreFits ==
    ASSUME NEW form, IsForm(form), NEW answers, \A i \in 1 .. Len(form) : answers[i] \in Seq(Int),
           \A i \in 1 .. Len(form) : AnswerOK(_parse_template_v2(form)[i].q, answers[i])
    PROVE  build_submission_from_form(_parse_template_v2(form), answers) \in Results
<1> DEFINE t == _parse_template_v2(form)
           n == Len(form)
           part == [i \in 1 .. n |-> Weighted(t[i], answers[i])]
           is == [i \in 1 .. n |-> part[i].is]
           of == [i \in 1 .. n |-> part[i].of]
<1>1. n \in Nat
  BY DEF IsForm
<1>2. DOMAIN t = 1 .. n /\ \A i \in 1 .. n : ReadBack(t[i])
  BY TemplateFacts
<1>3. \A i \in 1 .. n : answers[i] \in Seq(Int) /\ AnswerOK(t[i].q, answers[i])
  OBVIOUS
<1> DEFINE score == IF SumOf(of) = 0 THEN 0 ELSE Round(1000 * SumOf(is), SumOf(of))
           text == build_submission_from_form(t, answers)
           some == \E i \in DOMAIN t : answers[i] # <<>> /\ t[i].q.type # "section_header"
<1>4. text = [overall |-> score, answered |-> some]
  BY <1>2 DEF build_submission_from_form
<1>b. some \in BOOLEAN
  OBVIOUS
<1> HIDE DEF some
<1> HIDE DEF t, n
<1>5. \A i \in 1 .. n : Earns(part[i])
  BY <1>2, <1>3, WeightedFacts
<1> HIDE DEF part
<1>6. /\ is \in Seq(Nat) /\ of \in Seq(Nat) /\ Len(is) = n /\ Len(of) = n
      /\ \A i \in 1 .. n : is[i] <= of[i]
  BY <1>1, <1>5 DEF Earns
<1> HIDE DEF is, of
<1>7. SumOf(is) \in Nat /\ SumOf(of) \in Nat /\ SumOf(is) <= SumOf(of)
  BY <1>6, SumsGrow
<1>8. score \in 0 .. Full
  <2>1. CASE SumOf(of) = 0
    BY <2>1 DEF Full
  <2>2. CASE SumOf(of) # 0
    <3> DEFINE a == 1000 * SumOf(is)
               b == SumOf(of)
    <3>1. a \in Nat /\ b \in Nat /\ a <= b * Full /\ b > 0
      BY <1>7, <2>2 DEF Full
    <3>2. score = Round(a, b)
      BY <2>2
    <3> HIDE DEF a, b, score
    <3>3. Round(a, b) \in 0 .. Full
      BY ONLY <3>1, Rounded
    <3> QED BY <3>2, <3>3
  <2> QED BY <2>1, <2>2
<1> HIDE DEF score, text
<1>9. text \in Results
  BY ONLY <1>4, <1>8, <1>b DEF Results
<1> QED BY <1>9 DEF text, t

-----------------------------------------------------------------------------
(* Demos.  No version of a form has a number above its place.  The newest  *)
(* note of a reviewer is what he submitted last.                           *)

IsLibrary(forms) ==
    /\ forms = [i \in 1 .. Len(forms) |-> forms[i]] /\ Len(forms) \in Nat
    /\ \A i \in 1 .. Len(forms) :
          /\ forms[i].number \in 1 .. i
          /\ IsForm(forms[i].questions) /\ forms[i].questions # NoForm
          /\ forms[i].status \in {"active", "deleted"}

Newest(list, i, who) == list[i].by = who /\ \A j \in i + 1 .. Len(list) : list[j].by # who

Reviews == [by : Range(ActorRef), text : Results]
Lasts == [Reviewers -> {NoScore} \cup Results]

\* What a reviewer was told, and what his reviews are.
Tells(list, last) ==
    /\ \A u \in Reviewers : last[u] # NoScore =>
          \E i \in 1 .. Len(list) : Newest(list, i, ActorRef[u]) /\ list[i].text = last[u]
    /\ \A i \in 1 .. Len(list) : \E u \in Reviewers : list[i].by = ActorRef[u] /\ last[u] # NoScore

Reviewed ==
    /\ vendorDemos \in [DemoRowIds -> VendorDemoRows \cup {NoRow}]
    /\ stages \in [DemoRowIds -> Range(DEMO_STAGE_ORDER) \cup {NoStage}]
    /\ library = [k \in FormKeys |-> library[k]] /\ \A k \in FormKeys : IsLibrary(library[k])
    /\ attached = [d \in DemoRowIds |-> attached[d]] /\ \A d \in DemoRowIds : IsForm(attached[d])
    /\ reviews = [d \in DemoRowIds |-> reviews[d]]
    /\ \A d \in DemoRowIds : reviews[d] \in Seq(Reviews)
    /\ lastScores \in [DemoRowIds -> Lasts]
    /\ \A d \in DemoRowIds : Tells(reviews[d], lastScores[d])

LEMMA ReviewedStart == DemosInit => Reviewed
<1> SUFFICES ASSUME DemosInit PROVE Reviewed
  OBVIOUS
<1>1. Len(<<>>) = 0 /\ <<>> = [i \in 1 .. 0 |-> <<>>[i]] /\ 1 .. 0 = {}
  OBVIOUS
<1>2. IsLibrary(<<>>) /\ IsForm(NoForm)
  BY <1>1 DEF IsLibrary, IsForm, NoForm
<1>3. \A d \in DemoRowIds : reviews[d] = <<>> /\ lastScores[d] = [u \in Reviewers |-> NoScore]
  BY DEF DemosInit
<1>4. \A d \in DemoRowIds : Tells(reviews[d], lastScores[d])
  BY <1>1, <1>3 DEF Tells
<1>6. lastScores \in [DemoRowIds -> Lasts]
  BY DEF DemosInit, Lasts
<1>5. \A d \in DemoRowIds : reviews[d] \in Seq(Reviews)
  <2>1. <<>> \in Seq(Reviews)
    OBVIOUS
  <2> QED BY <1>3, <2>1
<1> QED BY <1>2, <1>4, <1>5, <1>6 DEF DemosInit, Reviewed

LEMMA GreatestPlace ==
    ASSUME NEW n \in Nat, NEW S \in SUBSET (1 .. n), S # {}
    PROVE  Max(S) \in S /\ \A y \in S : Max(S) >= y
<1> DEFINE T == {k \in 0 .. n : S \cap 1 .. k # {} =>
                    \E x \in S \cap 1 .. k : \A y \in S \cap 1 .. k : x >= y}
<1>1. 0 \in T
  OBVIOUS
<1>2. ASSUME NEW k \in 1 .. n, k - 1 \in T PROVE k \in T
  <2>1. CASE k \in S
    BY <2>1
  <2>2. CASE k \notin S
    <3>1. S \cap 1 .. k = S \cap 1 .. (k - 1)
      BY <2>2
    <3> QED BY <1>2, <3>1
  <2> QED BY <2>1, <2>2
<1>3. 0 .. n \subseteq T
  <2> HIDE DEF T
  <2> QED BY <1>1, <1>2, UpTo
<1>4. n \in 0 .. n
  OBVIOUS
<1>5. S \cap 1 .. n = S
  OBVIOUS
<1>6. n \in T
  BY <1>3, <1>4
<1>7. \E x \in S : \A y \in S : x >= y
  BY <1>5, <1>6
<1> QED BY <1>7 DEF Max

\* The library.
LEMMA IndexFacts ==
    ASSUME NEW k \in FormKeys, IsLibrary(library[k]), library[k] # <<>>
    PROVE  LET t == build_template_library_index(k)
           IN t.number \in 1 .. Len(library[k]) /\ IsForm(t.questions) /\ t.questions # NoForm
<1> DEFINE s == library[k]
           n == Len(s)
           Top(i) == \A j \in 1 .. n : \/ s[j].number < s[i].number
                                       \/ (s[j].number = s[i].number /\ j <= i)
<1>1. /\ s = [i \in 1 .. n |-> s[i]] /\ n \in Nat
      /\ \A i \in 1 .. n : /\ s[i].number \in 1 .. i
                           /\ IsForm(s[i].questions) /\ s[i].questions # NoForm
  BY DEF IsLibrary
<1>2. s # <<>>
  OBVIOUS
<1>3. DOMAIN s = 1 .. n
  BY <1>1
<1>4. build_template_library_index(k) = s[CHOOSE i \in 1 .. n : Top(i)]
  BY <1>3 DEF build_template_library_index
<1> HIDE DEF s, n
<1>5. n # 0 /\ n \in 1 .. n
  <2> SUFFICES ASSUME n = 0 PROVE FALSE
    BY <1>1
  <2>1. s = [i \in {} |-> s[i]]
    BY <1>1
  <2> QED BY <1>2, <2>1
<1>6. \E i \in 1 .. n : Top(i)
  <2> DEFINE numbers == {s[i].number : i \in 1 .. n}
             most == Max(numbers)
             places == {i \in 1 .. n : s[i].number = most}
  <2>1. numbers \in SUBSET (1 .. n) /\ numbers # {}
    BY <1>1, <1>5
  <2> HIDE DEF numbers
  <2>2. most \in numbers /\ \A y \in numbers : most >= y
    BY <1>1, <2>1, GreatestPlace
  <2> HIDE DEF most
  <2>3. places \in SUBSET (1 .. n) /\ places # {}
    BY <2>2 DEF numbers
  <2>4. \A i \in 1 .. n : s[i].number \in numbers /\ s[i].number \in Nat
    BY <1>1 DEF numbers
  <2>5. \A i \in 1 .. n : i \in places <=> s[i].number = most
    OBVIOUS
  <2> HIDE DEF places
  <2>6. Max(places) \in places /\ \A y \in places : Max(places) >= y
    BY <1>1, <2>3, GreatestPlace
  <2>7. PICK i \in 1 .. n : i \in places /\ \A y \in places : i >= y
    BY <2>3, <2>6
  <2>8. ASSUME NEW j \in 1 .. n
        PROVE  s[j].number < s[i].number \/ (s[j].number = s[i].number /\ j <= i)
    <3>1. s[i].number = most /\ s[j].number <= most /\ s[i].number \in Nat /\ s[j].number \in Nat
      BY <2>1, <2>2, <2>4, <2>5, <2>7
    <3>2. CASE s[j].number = most
      BY <2>5, <2>7, <3>1, <3>2
    <3> QED BY <3>1, <3>2
  <2> QED BY <2>8
<1>7. PICK i \in 1 .. n : build_template_library_index(k) = s[i]
  BY <1>4, <1>6
<1> QED BY <1>1, <1>7 DEF s, n

LEMMA NumberIs ==
    ASSUME NEW k \in FormKeys, IsLibrary(library[k])
    PROVE  _next_template_version(k) \subseteq 1 .. Len(library[k]) + 1
<1>1. Len(library[k]) \in Nat
  BY DEF IsLibrary
<1>2. CASE library[k] = <<>>
  BY <1>1, <1>2 DEF _next_template_version, Listed
<1>3. CASE library[k] # <<>>
  BY <1>1, <1>3, IndexFacts DEF _next_template_version, Listed
<1> QED BY <1>2, <1>3

LEMMA LibraryGrows ==
    ASSUME Reviewed, NEW k \in FormKeys, NEW status \in {"active", "deleted"},
           NEW questions, IsForm(questions), questions # NoForm, NEW number, number \in 1 .. Len(library[k]) + 1,
           create_app_note(k, TemplateNote(status, questions, number))
    PROVE  library' = [j \in FormKeys |-> library'[j]] /\ \A j \in FormKeys : IsLibrary(library'[j])
<1> DEFINE s == library[k]
           n == Len(s)
           t == TemplateNote(status, questions, number)
           u == Append(s, t)
<1>1. library' = [library EXCEPT ![k] = u] /\ library = [j \in FormKeys |-> library[j]]
      /\ \A j \in FormKeys : IsLibrary(library[j])
  BY DEF create_app_note, Reviewed
<1>2. t.status = status /\ t.questions = questions /\ t.number \in 1 .. n + 1
  BY DEF TemplateNote
<1>3. /\ s = [i \in 1 .. n |-> s[i]] /\ n \in Nat
      /\ \A i \in 1 .. n :
          /\ s[i].number \in 1 .. i
          /\ IsForm(s[i].questions) /\ s[i].questions # NoForm
          /\ s[i].status \in {"active", "deleted"}
  BY <1>1 DEF IsLibrary
<1> HIDE DEF s, t
<1>4. u = [i \in 1 .. n + 1 |-> IF i = n + 1 THEN t ELSE s[i]]
  <2> DEFINE S == {s[i] : i \in 1 .. n} \cup {t}
  <2>1. s \in Seq(S) /\ t \in S
    BY <1>3
  <2> HIDE DEF S
  <2>2. DOMAIN u = 1 .. n + 1 /\ u = [i \in 1 .. n + 1 |-> u[i]]
    <3>1. u \in Seq(S) /\ Len(u) = n + 1
      BY <2>1, AppendProperties
    <3> HIDE DEF u, n
    <3> QED BY <1>3, <3>1
  <2>3. u[n + 1] = t /\ \A i \in 1 .. n + 1 : i # n + 1 => u[i] = s[i]
    BY <1>3, <2>1
  <2> QED BY <2>2, <2>3
<1> HIDE DEF u, n
<1>5. Len(u) = n + 1
  BY <1>3, <1>4
<1>6. u = [i \in 1 .. Len(u) |-> u[i]]
  BY <1>4, <1>5
<1>7. IsLibrary(u)
  BY <1>2, <1>3, <1>4, <1>5, <1>6 DEF IsLibrary
<1>8. library' = [j \in FormKeys |-> library'[j]] /\ library'[k] = u
      /\ \A j \in FormKeys : j # k => library'[j] = library[j]
  BY <1>1
<1> QED BY <1>1, <1>7, <1>8

\* What the library changes leaves the rest.
LEMMA LibraryKept ==
    ASSUME Reviewed, UNCHANGED <<vendorDemos, stages, reviews, lastScores>>,
           library' = [j \in FormKeys |-> library'[j]] /\ \A j \in FormKeys : IsLibrary(library'[j]),
           attached' = [d \in DemoRowIds |-> attached'[d]] /\ \A d \in DemoRowIds : IsForm(attached'[d])
    PROVE  Reviewed'
  BY DEF Reviewed

LEMMA SaveKeepsReviews ==
    ASSUME Reviewed, NEW p, NEW k \in FormKeys, NEW input \in FormInputs,
           save_demo_form_template(p, k, input)
    PROVE  Reviewed'
<1> DEFINE f == parse_template_questions_from_form(input)
<1>1. /\ f # NoForm
      /\ \E number \in _next_template_version(k) :
            create_app_note(k, TemplateNote("active", f, number))
      /\ UNCHANGED <<vendorDemos, stages, attached, reviews, lastScores>>
  BY DEF save_demo_form_template
<1>2. IsForm(f)
  BY ParsedIsForm
<1> HIDE DEF f
<1>3. _next_template_version(k) \subseteq 1 .. Len(library[k]) + 1
  BY NumberIs DEF Reviewed
<1>4. library' = [j \in FormKeys |-> library'[j]] /\ \A j \in FormKeys : IsLibrary(library'[j])
  BY <1>1, <1>2, <1>3, LibraryGrows
<1>5. attached' = [d \in DemoRowIds |-> attached'[d]] /\ \A d \in DemoRowIds : IsForm(attached'[d])
  BY <1>1 DEF Reviewed
<1> QED BY <1>1, <1>4, <1>5, LibraryKept

LEMMA CopyKeeps ==
    ASSUME Reviewed, NEW p, NEW k \in FormKeys, copy_demo_form_template(p, k)
    PROVE  Reviewed'
<1> DEFINE f == build_template_library_index(k).questions
<1>1. PICK new \in FormKeys \ Listed : create_app_note(new, TemplateNote("active", f, 1))
  BY DEF copy_demo_form_template
<1>2. UNCHANGED <<vendorDemos, stages, attached, reviews, lastScores>> /\ library[k] # <<>>
  BY DEF copy_demo_form_template, Listed
<1>3. IsForm(f) /\ f # NoForm
  BY <1>2, IndexFacts DEF Reviewed
<1>4. library[new] = <<>> /\ 1 \in 1 .. Len(library[new]) + 1
  BY DEF Listed
<1> HIDE DEF f
<1>5. library' = [j \in FormKeys |-> library'[j]] /\ \A j \in FormKeys : IsLibrary(library'[j])
  BY <1>1, <1>3, <1>4, LibraryGrows
<1>6. attached' = [d \in DemoRowIds |-> attached'[d]] /\ \A d \in DemoRowIds : IsForm(attached'[d])
  BY <1>2 DEF Reviewed
<1> QED BY <1>2, <1>5, <1>6, LibraryKept

LEMMA DeleteKeeps ==
    ASSUME Reviewed, NEW p, NEW k \in FormKeys, delete_demo_form_template(p, k)
    PROVE  Reviewed'
<1> DEFINE t == build_template_library_index(k)
           note == TemplateNote("deleted", t.questions, t.number + 1)
<1>1. /\ create_app_note(k, note)
      /\ UNCHANGED <<vendorDemos, stages, attached, reviews, lastScores>> /\ library[k] # <<>>
  BY DEF delete_demo_form_template, Listed
<1>2. IsLibrary(library[k]) /\ Len(library[k]) \in Nat
  BY DEF Reviewed, IsLibrary
<1>3. IsForm(t.questions) /\ t.questions # NoForm /\ t.number \in 1 .. Len(library[k])
  BY <1>1, <1>2, IndexFacts
<1> HIDE DEF t
<1>4. t.number + 1 \in 1 .. Len(library[k]) + 1
  BY <1>2, <1>3
<1>5. library' = [j \in FormKeys |-> library'[j]] /\ \A j \in FormKeys : IsLibrary(library'[j])
  BY <1>1, <1>3, <1>4, LibraryGrows
<1>6. attached' = [d \in DemoRowIds |-> attached'[d]] /\ \A d \in DemoRowIds : IsForm(attached'[d])
  BY <1>1 DEF Reviewed
<1> QED BY <1>1, <1>5, <1>6, LibraryKept

LEMMA TemplateKeeps ==
    ASSUME Reviewed, NEW p, NEW d \in DemoRowIds, NEW k \in FormKeys, NEW input \in FormInputs,
           NEW attach_now, save_demo_review_template(p, d, k, input, attach_now)
    PROVE  Reviewed'
<1> DEFINE f == parse_template_questions_from_form(input)
<1>1. /\ f # NoForm
      /\ \E number \in _next_template_version(k) :
            create_app_note(k, TemplateNote("active", f, number))
      /\ attached' = [attached EXCEPT ![d] = f] \/ UNCHANGED attached
      /\ UNCHANGED <<vendorDemos, stages, reviews, lastScores>>
  BY DEF save_demo_review_template
<1>2. IsForm(f)
  BY ParsedIsForm
<1> HIDE DEF f
<1>3. _next_template_version(k) \subseteq 1 .. Len(library[k]) + 1
  BY NumberIs DEF Reviewed
<1>4. library' = [j \in FormKeys |-> library'[j]] /\ \A j \in FormKeys : IsLibrary(library'[j])
  BY <1>1, <1>2, <1>3, LibraryGrows
<1>5. attached' = [e \in DemoRowIds |-> attached'[e]] /\ \A e \in DemoRowIds : IsForm(attached'[e])
  <2>1. CASE attached' = [attached EXCEPT ![d] = f]
    BY <1>2, <2>1 DEF Reviewed
  <2>2. CASE UNCHANGED attached
    BY <2>2 DEF Reviewed
  <2> QED BY <1>1, <2>1, <2>2
<1> QED BY <1>1, <1>4, <1>5, LibraryKept

LEMMA AttachKeeps ==
    ASSUME Reviewed, NEW p, NEW d \in DemoRowIds, NEW k \in FormKeys, NEW i,
           attach_demo_review_template(p, d, k, i)
    PROVE  Reviewed'
<1>1. /\ i \in DOMAIN library[k] /\ attached' = [attached EXCEPT ![d] = library[k][i].questions]
      /\ UNCHANGED <<vendorDemos, stages, library, reviews, lastScores>>
  BY DEF attach_demo_review_template
<1>2. IsForm(library[k][i].questions)
  <2>1. IsLibrary(library[k])
    BY DEF Reviewed
  <2>2. i \in 1 .. Len(library[k])
    BY <1>1, <2>1 DEF IsLibrary
  <2> QED BY <2>1, <2>2 DEF IsLibrary
<1>3. attached' = [e \in DemoRowIds |-> attached'[e]] /\ \A e \in DemoRowIds : IsForm(attached'[e])
  BY <1>1, <1>2 DEF Reviewed
<1>4. library' = [j \in FormKeys |-> library'[j]] /\ \A j \in FormKeys : IsLibrary(library'[j])
  BY <1>1 DEF Reviewed
<1> QED BY <1>1, <1>3, <1>4, LibraryKept

\* Demos and their stages.
LEMMA RestKept ==
    ASSUME Reviewed, UNCHANGED <<library, attached, reviews, lastScores>>,
           vendorDemos' \in [DemoRowIds -> VendorDemoRows \cup {NoRow}],
           stages' \in [DemoRowIds -> Range(DEMO_STAGE_ORDER) \cup {NoStage}]
    PROVE  Reviewed'
<1>1. library' = library /\ attached' = attached /\ reviews' = reviews /\ lastScores' = lastScores
  OBVIOUS
<1>2. /\ library' = [k \in FormKeys |-> library'[k]] /\ \A k \in FormKeys : IsLibrary(library'[k])
      /\ attached' = [d \in DemoRowIds |-> attached'[d]] /\ \A d \in DemoRowIds : IsForm(attached'[d])
  BY <1>1 DEF Reviewed
<1>3. /\ reviews' = [d \in DemoRowIds |-> reviews'[d]]
      /\ \A d \in DemoRowIds : reviews'[d] \in Seq(Reviews)
      /\ lastScores' \in [DemoRowIds -> Lasts]
      /\ \A d \in DemoRowIds : Tells(reviews'[d], lastScores'[d])
  BY <1>1 DEF Reviewed
<1> QED BY <1>2, <1>3 DEF Reviewed

LEMMA CreateKeeps ==
    ASSUME Reviewed, NEW p, NEW v \in Vendors, NEW o \in Offerings \cup {NoOffering},
           NEW outcome \in OutcomeInputs, create_demo(p, v, o, outcome)
    PROVE  Reviewed'
<1>1. PICK d \in Unused(vendorDemos) :
        /\ vendorDemos' = [vendorDemos EXCEPT ![d] = [vendor |-> v, offering |-> o, outcome |-> outcome]]
        /\ stages' = [stages EXCEPT ![d] = "scheduled"] \/ UNCHANGED stages
  BY DEF create_demo
<1>2. [vendor |-> v, offering |-> o, outcome |-> outcome] \in VendorDemoRows
  BY DemosAssumption DEF DemosAssumption, VendorDemoRows
<1>3. "scheduled" \in Range(DEMO_STAGE_ORDER)
  <2>1. 2 \in DOMAIN DEMO_STAGE_ORDER /\ DEMO_STAGE_ORDER[2] = "scheduled"
    BY DEF DEMO_STAGE_ORDER
  <2> QED BY <2>1 DEF Range
<1>4. vendorDemos' \in [DemoRowIds -> VendorDemoRows \cup {NoRow}]
  BY <1>1, <1>2 DEF Reviewed
<1>5. stages' \in [DemoRowIds -> Range(DEMO_STAGE_ORDER) \cup {NoStage}]
  <2>1. CASE stages' = [stages EXCEPT ![d] = "scheduled"]
    BY <1>3, <2>1 DEF Reviewed
  <2>2. CASE UNCHANGED stages
    BY <2>2 DEF Reviewed
  <2> QED BY <1>1, <2>1, <2>2
<1>6. UNCHANGED <<library, attached, reviews, lastScores>>
  BY DEF create_demo
<1> QED BY <1>4, <1>5, <1>6, RestKept

LEMMA StageKeeps ==
    ASSUME Reviewed, NEW p, NEW d \in DemoRowIds, NEW stage, update_demo_stage(p, d, stage)
    PROVE  Reviewed'
<1>1. stages' = [stages EXCEPT ![d] = stage] /\ stage \in Range(DEMO_STAGE_ORDER)
      /\ UNCHANGED <<vendorDemos, library, attached, reviews, lastScores>>
  BY DEF update_demo_stage
<1>2. stages' \in [DemoRowIds -> Range(DEMO_STAGE_ORDER) \cup {NoStage}]
  BY <1>1 DEF Reviewed
<1>3. vendorDemos' \in [DemoRowIds -> VendorDemoRows \cup {NoRow}]
  BY <1>1 DEF Reviewed
<1> QED BY <1>1, <1>2, <1>3, RestKept

LEMMA MapKeeps ==
    ASSUME Reviewed, NEW v, NEW D, D \subseteq get_vendor_demos(v), NEW o \in Offerings \cup {NoOffering},
           map_demo_to_offering(D, o)
    PROVE  Reviewed'
<1>1. /\ vendorDemos' = [d \in DemoRowIds |->
           IF d \in D THEN [vendorDemos[d] EXCEPT !.offering = o] ELSE vendorDemos[d]]
      /\ UNCHANGED <<stages, library, attached, reviews, lastScores>>
  BY DEF map_demo_to_offering, DemosBecome
<1>2. vendorDemos \in [DemoRowIds -> VendorDemoRows \cup {NoRow}]
  BY DEF Reviewed
<1>3. \A d \in D : vendorDemos[d] \in VendorDemoRows
  BY <1>2 DEF get_vendor_demos, Present
<1>4. \A d \in D : [vendorDemos[d] EXCEPT !.offering = o] \in VendorDemoRows
  BY <1>3 DEF VendorDemoRows
<1>5. vendorDemos' \in [DemoRowIds -> VendorDemoRows \cup {NoRow}]
  BY <1>1, <1>2, <1>4
<1>6. stages' \in [DemoRowIds -> Range(DEMO_STAGE_ORDER) \cup {NoStage}]
  BY <1>1 DEF Reviewed
<1> QED BY <1>1, <1>5, <1>6, RestKept

\* Reviews.
LEMMA Refs ==
    /\ \A u \in Reviewers : ActorRef[u] \in Range(ActorRef)
    /\ \A u, w \in Reviewers : ActorRef[u] = ActorRef[w] => u = w
  BY DemosAssumption DEF DemosAssumption, IsInjective, Range

LEMMA ToldIs ==
    ASSUME NEW last, last \in Lasts, NEW u, u \in Reviewers, NEW text, text \in Results
    PROVE  LET told == [last EXCEPT ![u] = text]
           IN told \in Lasts /\ text # NoScore
<1> DEFINE V == {NoScore} \cup Results
<1>1. text \in V
  OBVIOUS
<1>2. text # NoScore
  <2>1. text.overall \in 0 .. Full /\ NoScore.overall = -1
    BY DEF Results, NoScore
  <2> QED BY <2>1
<1>3. last \in [Reviewers -> V]
  BY DEF Lasts
<1> HIDE DEF V
<1>4. [last EXCEPT ![u] = text] \in [Reviewers -> V]
  BY <1>1, <1>3
<1> QED BY <1>2, <1>3, <1>4 DEF Lasts, V

LEMMA SubmittedNew ==
    ASSUME NEW list \in Seq(Reviews), NEW last \in Lasts, Tells(list, last),
           NEW u \in Reviewers, NEW text, text \in Results
    PROVE  LET new == Append(list, [by |-> ActorRef[u], text |-> text])
               told == [last EXCEPT ![u] = text]
           IN new \in Seq(Reviews) /\ told \in Lasts /\ Tells(new, told)
<1> DEFINE n == Len(list)
           r == [by |-> ActorRef[u], text |-> text]
           new == Append(list, r)
           told == [last EXCEPT ![u] = text]
<1>1. r \in Reviews /\ r.by = ActorRef[u] /\ r.text = text
  BY Refs DEF Reviews
<1>2. told \in Lasts /\ told[u] = text /\ text # NoScore
      /\ \A w \in Reviewers : w # u => told[w] = last[w]
  <2>1. DOMAIN last = Reviewers
    BY DEF Lasts
  <2>2. told[u] = text /\ \A w \in Reviewers : w # u => told[w] = last[w]
    BY <2>1
  <2>3. told \in Lasts /\ text # NoScore
    BY ToldIs
  <2> QED BY <2>2, <2>3
<1> HIDE DEF r
<1>3. /\ n \in Nat /\ new \in Seq(Reviews) /\ Len(new) = n + 1 /\ new[n + 1] = r
      /\ \A i \in 1 .. n : new[i] = list[i]
  BY <1>1
<1>4. /\ \A w \in Reviewers : last[w] # NoScore =>
           \E i \in 1 .. n : Newest(list, i, ActorRef[w]) /\ list[i].text = last[w]
      /\ \A i \in 1 .. n : \E w \in Reviewers : list[i].by = ActorRef[w] /\ last[w] # NoScore
  BY DEF Tells
<1> HIDE DEF new, told, n
<1>5. ASSUME NEW w \in Reviewers, told[w] # NoScore
      PROVE  \E i \in 1 .. n + 1 : Newest(new, i, ActorRef[w]) /\ new[i].text = told[w]
  <2>1. CASE w = u
    <3>1. Newest(new, n + 1, ActorRef[w]) /\ new[n + 1].text = told[w]
      BY <1>1, <1>2, <1>3, <2>1 DEF Newest
    <3> QED BY <1>3, <3>1
  <2>2. CASE w # u
    <3>1. PICK i \in 1 .. n : Newest(list, i, ActorRef[w]) /\ list[i].text = last[w]
      BY <1>2, <1>4, <1>5, <2>2
    <3>2. ActorRef[w] # ActorRef[u]
      BY <2>2, Refs
    <3>3. ASSUME NEW j \in i + 1 .. n + 1 PROVE new[j].by # ActorRef[w]
      <4>1. CASE j = n + 1
        BY <1>1, <1>3, <3>2, <4>1
      <4>2. CASE j # n + 1
        <5>1. j \in i + 1 .. Len(list) /\ j \in 1 .. n
          BY <1>3, <4>2 DEF n
        <5> QED BY <1>3, <3>1, <5>1 DEF Newest
      <4> QED BY <4>1, <4>2
    <3>4. Newest(new, i, ActorRef[w]) /\ new[i].text = told[w]
      BY <1>2, <1>3, <2>2, <3>1, <3>3 DEF Newest
    <3> QED BY <1>3, <3>4
  <2> QED BY <2>1, <2>2
<1>6. ASSUME NEW i \in 1 .. n + 1
      PROVE  \E w \in Reviewers : new[i].by = ActorRef[w] /\ told[w] # NoScore
  <2>1. CASE i = n + 1
    BY <1>1, <1>2, <1>3, <2>1
  <2>2. CASE i # n + 1
    <3>1. i \in 1 .. n
      BY <1>3, <2>2
    <3>2. PICK w \in Reviewers : list[i].by = ActorRef[w] /\ last[w] # NoScore
      BY <1>4, <3>1
    <3> QED BY <1>2, <1>3, <3>1, <3>2
  <2> QED BY <2>1, <2>2
<1>7. Tells(new, told)
  BY <1>3, <1>5, <1>6 DEF Tells
<1> QED BY <1>2, <1>3, <1>7 DEF new, told, r

(* The list after a second submission: one note has the new text.         *)
Rescored(new, list, m, text) ==
    /\ new \in Seq(Reviews) /\ Len(new) = Len(list)
    /\ \A i \in 1 .. Len(list) : new[i].by = list[i].by /\ (i # m => new[i] = list[i])
    /\ new[m].text = text

LEMMA SubmittedAgain ==
    ASSUME NEW list \in Seq(Reviews), NEW last \in Lasts, Tells(list, last),
           NEW u \in Reviewers, NEW text, text \in Results,
           NEW m, m \in 1 .. Len(list), Newest(list, m, ActorRef[u]),
           NEW new, Rescored(new, list, m, text),
           NEW told, told = [last EXCEPT ![u] = text]
    PROVE  new \in Seq(Reviews) /\ told \in Lasts /\ Tells(new, told)
<1> DEFINE n == Len(list)
<1>1. n \in Nat /\ DOMAIN list = 1 .. n /\ \A i \in 1 .. n : list[i] \in Reviews
  OBVIOUS
<1>2. told \in Lasts /\ told[u] = text /\ text # NoScore
      /\ \A w \in Reviewers : w # u => told[w] = last[w]
  <2>1. DOMAIN last = Reviewers
    BY DEF Lasts
  <2>2. told[u] = text /\ \A w \in Reviewers : w # u => told[w] = last[w]
    BY <2>1
  <2>3. told \in Lasts /\ text # NoScore
    BY ToldIs
  <2> QED BY <2>2, <2>3
<1>3. m \in 1 .. n
  OBVIOUS
<1>4. /\ new \in Seq(Reviews) /\ Len(new) = n
      /\ \A i \in 1 .. n : new[i].by = list[i].by /\ (i # m => new[i] = list[i])
      /\ new[m].text = text
  BY DEF Rescored
<1> HIDE DEF n
<1>5. /\ \A w \in Reviewers : last[w] # NoScore =>
           \E i \in 1 .. n : Newest(list, i, ActorRef[w]) /\ list[i].text = last[w]
      /\ \A i \in 1 .. n : \E w \in Reviewers : list[i].by = ActorRef[w] /\ last[w] # NoScore
  BY DEF Tells, n
<1>6. ASSUME NEW i \in 1 .. n, NEW who, Newest(list, i, who) PROVE Newest(new, i, who)
  BY <1>1, <1>4, <1>6 DEF Newest, n
<1>7. ASSUME NEW w \in Reviewers, told[w] # NoScore
      PROVE  \E i \in 1 .. n : Newest(new, i, ActorRef[w]) /\ new[i].text = told[w]
  <2>1. CASE w = u
    BY <1>2, <1>3, <1>4, <1>6, <2>1
  <2>2. CASE w # u
    <3>1. PICK i \in 1 .. n : Newest(list, i, ActorRef[w]) /\ list[i].text = last[w]
      BY <1>2, <1>5, <1>7, <2>2
    <3>2. i # m
      BY <2>2, <3>1, Refs DEF Newest
    <3> QED BY <1>2, <1>4, <1>6, <2>2, <3>1, <3>2
  <2> QED BY <2>1, <2>2
<1>8. ASSUME NEW i \in 1 .. n
      PROVE  \E w \in Reviewers : new[i].by = ActorRef[w] /\ told[w] # NoScore
  <2>1. PICK w \in Reviewers : list[i].by = ActorRef[w] /\ last[w] # NoScore
    BY <1>5
  <2> QED BY <1>2, <1>4, <2>1
<1>9. Tells(new, told)
  BY <1>4, <1>7, <1>8 DEF Tells
<1> QED BY <1>2, <1>4, <1>9

LEMMA SubmitKeeps ==
    ASSUME Reviewed, NEW p, NEW u \in Reviewers, NEW d \in DemoRowIds,
           NEW answers \in [DOMAIN attached[d] -> AnswerInputs],
           submit_demo_review_form(p, u, d, answers)
    PROVE  Reviewed'
<1> DEFINE form == attached[d]
           template == parse_template_note(d)
           text == build_submission_from_form(template, answers)
           list == reviews[d]
           last == lastScores[d]
<1>1. /\ \A i \in DOMAIN template : AnswerOK(template[i].q, answers[i])
      /\ \/ create_demo_note(d, u, text)
         \/ LET existing == list_demo_notes_by_demo_and_creator(d, u)
            IN existing # {} /\ update_demo_note_text(d, Max(existing), u, text)
      /\ lastScores' = [lastScores EXCEPT ![d][u] = text]
      /\ UNCHANGED <<vendorDemos, stages, library, attached>>
  BY DEF submit_demo_review_form
<1>2. IsForm(form) /\ list \in Seq(Reviews) /\ last \in Lasts /\ Tells(list, last)
  BY DEF Reviewed
<1>3. text \in Results
  <2>1. template = _parse_template_v2(form)
    BY DEF parse_template_note
  <2>2. DOMAIN template = 1 .. Len(form) /\ DOMAIN form = 1 .. Len(form)
    BY <1>2, <2>1, TemplateFacts DEF IsForm
  <2>3. \A i \in 1 .. Len(form) : answers[i] \in Seq(Int)
    BY <2>2, DemosAssumption DEF DemosAssumption
  <2>4. \A i \in 1 .. Len(form) : AnswerOK(_parse_template_v2(form)[i].q, answers[i])
    BY <1>1, <2>1, <2>2
  <2> QED BY <1>2, <2>1, <2>3, <2>4, ScoreFits
<1> DEFINE told == [last EXCEPT ![u] = text]
<1> HIDE DEF template, text
<1>4. \E new \in Seq(Reviews) : /\ reviews' = [reviews EXCEPT ![d] = new]
                                /\ told \in Lasts /\ Tells(new, told)
  <2> DEFINE existing == list_demo_notes_by_demo_and_creator(d, u)
  <2>1. CASE create_demo_note(d, u, text)
    <3> DEFINE new == Append(list, [by |-> ActorRef[u], text |-> text])
    <3>1. reviews' = [reviews EXCEPT ![d] = new]
      BY <2>1 DEF create_demo_note
    <3> HIDE DEF list, last, existing
    <3>2. new \in Seq(Reviews) /\ told \in Lasts /\ Tells(new, told)
      BY <1>2, <1>3, SubmittedNew
    <3> HIDE DEF new, told
    <3> QED BY <3>1, <3>2
  <2>2. CASE existing # {} /\ update_demo_note_text(d, Max(existing), u, text)
    <3> DEFINE m == Max(existing)
               n == Len(list)
               new == [list EXCEPT ![m].text = text]
    <3>1. n \in Nat /\ DOMAIN list = 1 .. n
      BY <1>2
    <3>2. existing = {i \in 1 .. n : list[i].by = u}
      BY <3>1 DEF list_demo_notes_by_demo_and_creator
    <3>3. list[m].by = ActorRef[u] /\ reviews' = [reviews EXCEPT ![d] = new]
      BY <2>2 DEF update_demo_note_text
    <3> HIDE DEF list, last, existing, n
    <3>4. m \in existing /\ \A i \in existing : m >= i
      <4>1. existing \in SUBSET (1 .. n)
        BY <3>2
      <4> QED BY <2>2, <3>1, <4>1, GreatestPlace
    <3> HIDE DEF m
    <3>5. m \in 1 .. n /\ list[m].by = u /\ ActorRef[u] = u
      BY <3>2, <3>3, <3>4
    <3>6. ASSUME NEW i \in m + 1 .. n PROVE list[i].by # u
      <4>1. i \in 1 .. n /\ ~(m >= i)
        BY <3>1, <3>5
      <4> QED BY <3>2, <3>4, <4>1
    <3>7. Newest(list, m, ActorRef[u])
      BY <3>5, <3>6 DEF Newest, n
    <3>8. Rescored(new, list, m, text)
      <4> DEFINE r == [list[m] EXCEPT !.text = text]
      <4>1. list[m] \in Reviews /\ new = [list EXCEPT ![m] = r]
        BY <1>2, <3>1, <3>5
      <4>2. r \in Reviews /\ r.by = list[m].by /\ r.text = text
        <5>1. PICK note \in Reviews : note = list[m]
          BY <4>1
        <5>2. [note EXCEPT !.text = text] \in Reviews
              /\ [note EXCEPT !.text = text].by = note.by
              /\ [note EXCEPT !.text = text].text = text
          BY <1>3 DEF Reviews
        <5> QED BY <5>1, <5>2
      <4> HIDE DEF r, new
      <4>3. new \in Seq(Reviews) /\ Len(new) = Len(list)
        <5>1. new = [i \in 1 .. n |-> IF i = m THEN r ELSE list[i]]
          BY <3>1, <4>1
        <5>2. \A i \in 1 .. n : (IF i = m THEN r ELSE list[i]) \in Reviews
          BY <1>2, <3>1, <4>2
        <5> QED BY <3>1, <5>1, <5>2 DEF n
      <4>4. new[m] = r /\ \A i \in 1 .. n : i # m => new[i] = list[i]
        BY <3>1, <3>5, <4>1
      <4> QED BY <4>2, <4>3, <4>4 DEF Rescored, n
    <3>9. m \in 1 .. Len(list)
      BY <3>5 DEF n
    <3> HIDE DEF new, told
    <3>10. new \in Seq(Reviews) /\ told \in Lasts /\ Tells(new, told)
      <4>1. list \in Seq(Reviews) /\ last \in Lasts /\ Tells(list, last)
        BY <1>2
      <4>2. u \in Reviewers /\ text \in Results
        BY <1>3
      <4> HIDE DEF form, template
      <4>3. told = [last EXCEPT ![u] = text]
        BY DEF told
      <4> QED BY ONLY <3>7, <3>8, <3>9, <4>1, <4>2, <4>3, SubmittedAgain
    <3> QED BY <3>3, <3>10
  <2> QED BY <1>1, <2>1, <2>2
<1>5. PICK new \in Seq(Reviews) : /\ reviews' = [reviews EXCEPT ![d] = new]
                                  /\ told \in Lasts /\ Tells(new, told)
  BY <1>4
<1>6. lastScores' = [lastScores EXCEPT ![d] = told]
  BY <1>1
<1> HIDE DEF told, list, last
<1>7. /\ reviews' = [e \in DemoRowIds |-> reviews'[e]] /\ reviews'[d] = new
      /\ \A e \in DemoRowIds : e # d => reviews'[e] = reviews[e]
  BY <1>5 DEF Reviewed
<1>8. /\ lastScores' \in [DemoRowIds -> Lasts] /\ lastScores'[d] = told
      /\ \A e \in DemoRowIds : e # d => lastScores'[e] = lastScores[e]
  BY <1>5, <1>6 DEF Reviewed
<1>9. \A e \in DemoRowIds : reviews'[e] \in Seq(Reviews) /\ Tells(reviews'[e], lastScores'[e])
  BY <1>5, <1>7, <1>8 DEF Reviewed
<1>10. vendorDemos' = vendorDemos /\ stages' = stages /\ library' = library /\ attached' = attached
  BY <1>1
<1> QED BY <1>7, <1>8, <1>9, <1>10 DEF Reviewed

LEMMA ReviewedStep ==
    ASSUME Reviewed, [DemosNext]_demoVars
    PROVE  Reviewed'
<1>1. CASE UNCHANGED demoVars
  BY <1>1 DEF demoVars, Reviewed
<1>2. CASE DemosNext
  <2>1. PICK p \in Policies :
        \/ \E v \in Vendors, o \in Offerings \cup {NoOffering} :
             \/ \E outcome \in OutcomeInputs : create_demo(p, v, o, outcome)
             \/ \E d \in DemoRowIds : map_demo_submit(p, v, d, o)
        \/ \E v \in Vendors, o \in Offerings, D \in SUBSET DemoRowIds :
             map_demos_bulk_submit(p, v, D, o)
        \/ \E d \in DemoRowIds, stage \in StageInputs : update_demo_stage(p, d, stage)
        \/ \E k \in FormKeys :
             \/ \E input \in FormInputs :
                  \/ save_demo_form_template(p, k, input)
                  \/ \E d \in DemoRowIds, attach_now \in BOOLEAN :
                       save_demo_review_template(p, d, k, input, attach_now)
             \/ copy_demo_form_template(p, k)
             \/ delete_demo_form_template(p, k)
             \/ \E d \in DemoRowIds, i \in 1 .. MaxVersions :
                  attach_demo_review_template(p, d, k, i)
        \/ \E u \in Reviewers, d \in DemoRowIds :
             \E answers \in [DOMAIN attached[d] -> AnswerInputs] :
                submit_demo_review_form(p, u, d, answers)
    BY <1>2 DEF DemosNext
  <2>2. CASE \E v \in Vendors, o \in Offerings \cup {NoOffering}, outcome \in OutcomeInputs :
                create_demo(p, v, o, outcome)
    BY <2>2, CreateKeeps
  <2>3. CASE \E v \in Vendors, o \in Offerings \cup {NoOffering}, d \in DemoRowIds :
                map_demo_submit(p, v, d, o)
    <3>1. PICK v \in Vendors, o \in Offerings \cup {NoOffering}, d \in DemoRowIds :
                map_demo_submit(p, v, d, o)
      BY <2>3
    <3>2. map_demo_to_offering({d}, o) /\ {d} \subseteq get_vendor_demos(v)
      BY <3>1 DEF map_demo_submit
    <3> QED BY <3>2, MapKeeps
  <2>4. CASE \E v \in Vendors, o \in Offerings, D \in SUBSET DemoRowIds :
                map_demos_bulk_submit(p, v, D, o)
    <3>1. PICK v \in Vendors, o \in Offerings, D \in SUBSET DemoRowIds :
                map_demos_bulk_submit(p, v, D, o)
      BY <2>4
    <3>2. PICK done \in SUBSET D : map_demo_to_offering(done, o)
      BY <3>1 DEF map_demos_bulk_submit, bulk_map_demos_to_offering
    <3>3. done \subseteq get_vendor_demos(v)
      BY <3>1 DEF map_demos_bulk_submit
    <3> QED BY <3>2, <3>3, MapKeeps
  <2>5. CASE \E d \in DemoRowIds, stage \in StageInputs : update_demo_stage(p, d, stage)
    BY <2>5, StageKeeps
  <2>6. CASE \E k \in FormKeys, input \in FormInputs : save_demo_form_template(p, k, input)
    BY <2>6, SaveKeepsReviews
  <2>7. CASE \E k \in FormKeys, input \in FormInputs, d \in DemoRowIds, attach_now \in BOOLEAN :
                save_demo_review_template(p, d, k, input, attach_now)
    BY <2>7, TemplateKeeps
  <2>8. CASE \E k \in FormKeys : copy_demo_form_template(p, k) \/ delete_demo_form_template(p, k)
    BY <2>8, CopyKeeps, DeleteKeeps
  <2>9. CASE \E k \in FormKeys, d \in DemoRowIds, i \in 1 .. MaxVersions :
                attach_demo_review_template(p, d, k, i)
    BY <2>9, AttachKeeps
  <2>10. CASE \E u \in Reviewers, d \in DemoRowIds :
                \E answers \in [DOMAIN attached[d] -> AnswerInputs] :
                   submit_demo_review_form(p, u, d, answers)
    BY <2>10, SubmitKeeps
  <2> QED BY <2>1, <2>2, <2>3, <2>4, <2>5, <2>6, <2>7, <2>8, <2>9, <2>10
<1> QED BY <1>1, <1>2

LEMMA ReviewedInductive == DemosSpec => []Reviewed
<1> QED BY ReviewedStart, ReviewedStep, PTL DEF DemosSpec

LEMMA ReviewedTells == Reviewed => SummaryIsLatest
<1> SUFFICES ASSUME Reviewed, NEW d \in DemoRowIds
             PROVE  /\ \A u \in Reviewers :
                          LET his == {i \in build_review_summary(d) : reviews[d][i].by = ActorRef[u]}
                          IN /\ lastScores[d][u] = NoScore => his = {}
                             /\ lastScores[d][u].answered =>
                                   his # {} /\ \A i \in his : reviews[d][i].text = lastScores[d][u]
                             /\ \A i, j \in his : i = j
                    /\ \A r \in Range(reviews[d]) :
                          r.by \in Range(ActorRef) /\ r.text.overall \in 0 .. 1000
  BY DEF SummaryIsLatest
<1> DEFINE list == reviews[d]
           last == lastScores[d]
           n == Len(list)
           shown == build_review_summary(d)
<1>1. list \in Seq(Reviews) /\ last \in Lasts /\ Tells(list, last)
  BY DEF Reviewed
<1>2. n \in Nat /\ DOMAIN list = 1 .. n /\ \A i \in 1 .. n : list[i] \in Reviews
  BY <1>1
<1>3. /\ shown \subseteq 1 .. n
      /\ \A i \in 1 .. n : i \in shown <=>
           /\ list[i].text.answered
           /\ \A j \in 1 .. n : list[j].text.answered /\ j > i => list[j].by # list[i].by
  BY <1>2 DEF build_review_summary, parse_submission_note
<1> HIDE DEF list, last, n, shown
<1>4. ASSUME NEW r \in Range(list)
      PROVE  r.by \in Range(ActorRef) /\ r.text.overall \in 0 .. Full
  <2>1. PICK i \in 1 .. n : r = list[i]
    BY <1>2 DEF Range
  <2>2. r \in Reviews
    BY <1>2, <2>1
  <2> QED BY <2>2 DEF Reviews, Results
<1>5. ASSUME NEW u \in Reviewers
      PROVE  LET his == {i \in shown : list[i].by = ActorRef[u]}
             IN /\ last[u] = NoScore => his = {}
                /\ last[u].answered => his # {} /\ \A i \in his : list[i].text = last[u]
                /\ \A i, j \in his : i = j
  <2> DEFINE his == {i \in shown : list[i].by = ActorRef[u]}
  <2>1. ASSUME NEW i \in his, NEW j \in his, i < j PROVE FALSE
    BY <1>2, <1>3, <2>1
  <2>2. ASSUME NEW i \in his, NEW j \in his PROVE i = j
    <3>1. i \in Nat /\ j \in Nat
      BY <1>2, <1>3
    <3> QED BY <2>1, <3>1
  <2>3. ASSUME last[u] = NoScore, NEW i \in his PROVE FALSE
    <3>1. PICK w \in Reviewers : list[i].by = ActorRef[w] /\ last[w] # NoScore
      BY <1>1, <1>3 DEF Tells, n
    <3> QED BY <2>3, <3>1, Refs
  <2>4. ASSUME last[u].answered
        PROVE  his # {} /\ \A i \in his : list[i].text = last[u]
    <3>1. last[u] # NoScore
      BY <2>4 DEF NoScore
    <3>2. PICK i \in 1 .. n : Newest(list, i, ActorRef[u]) /\ list[i].text = last[u]
      BY <1>1, <3>1 DEF Tells, n
    <3>3. ASSUME NEW j \in 1 .. n, j > i PROVE list[j].by # ActorRef[u]
      <4>1. j \in i + 1 .. Len(list)
        BY <1>2, <3>3 DEF n
      <4> QED BY <3>2, <4>1 DEF Newest
    <3>4. i \in his
      BY <1>3, <2>4, <3>2, <3>3 DEF Newest
    <3> QED BY <2>2, <3>2, <3>4
  <2> QED BY <2>2, <2>3, <2>4
<1> QED BY <1>4, <1>5 DEF list, last, shown, Full

(* The summary of a demo has each reviewer who recorded an answer in his   *)
(* last submission once, with the score he was told, one who did not at    *)
(* most once and nobody else, and no score is above ten: what              *)
(* build_review_summary shows of what submit_demo_review_form wrote, for   *)
(* any forms and answers and whichever reads fail.                         *)
THEOREM SummaryStaysLatest == DemosSpec => []SummaryIsLatest
<1> QED BY ReviewedInductive, ReviewedTells, PTL

-----------------------------------------------------------------------------
(* The types                                                               *)

LEMMA ContractsTyped == ContractsSpec => []ContractsTypeOK
<1> DEFINE Counted == events \in [ContractIds -> 0 .. MaxEvents]
<1>1. ContractsInit => Counted
  BY ContractsAssumption DEF ContractsInit, ContractsAssumption
<1>2. Counted /\ [ContractsNext]_contractVars => Counted'
  <2> SUFFICES ASSUME Counted, [ContractsNext]_contractVars PROVE Counted'
    OBVIOUS
  <2>1. CASE UNCHANGED events
    BY <2>1
  <2>2. ASSUME NEW c, c \in ContractIds, record_contract_cancellation(c)
        PROVE  Counted'
    BY <2>2, ContractsAssumption DEF record_contract_cancellation, ContractsAssumption
  <2>3. UNCHANGED events \/ \E c \in ContractIds : record_contract_cancellation(c)
    <3>1. CASE UNCHANGED contractVars
      BY <3>1 DEF contractVars
    <3>2. ASSUME NEW p, NEW v, NEW c, NEW o, NEW status, NEW start, NEW end, NEW C,
                 \/ add_vendor_contract_submit(p, v, o, status, start, end)
                 \/ update_vendor_contract_submit(p, v, c, o, status, start, end)
                 \/ map_contract_submit(p, v, c, o)
                 \/ map_contracts_bulk_submit(p, v, C, o)
          PROVE  UNCHANGED events
      BY <3>2 DEF add_vendor_contract_submit, create_contract, ContractsBecome,
         update_vendor_contract_submit, update_contract, map_contract_submit,
         map_contract_to_offering, map_contracts_bulk_submit, bulk_map_contracts_to_offering
    <3>3. \A p, v, c : cancel_vendor_contract_submit(p, v, c) => record_contract_cancellation(c)
      BY DEF cancel_vendor_contract_submit
    <3>4. CASE ContractsNext
      BY <3>2, <3>3, <3>4 DEF ContractsNext
    <3> QED BY <3>1, <3>4
  <2> QED BY <2>1, <2>2, <2>3
<1>3. Contracted /\ Counted => ContractsTypeOK
  BY DEF Contracted, ContractsTypeOK
<1> HIDE DEF Counted
<1> QED BY <1>1, <1>2, <1>3, ContractsInductive, PTL DEF ContractsSpec

LEMMA OfferingsTyped == OfferingsSpec => []OfferingsTypeOK
<1>1. Kept => OfferingsTypeOK
  BY DEF Kept, OfferingsTypeOK
<1> QED BY <1>1, OfferingsInductive, PTL

\* The numbers of the versions end where the versions do.
LEMMA VersionsTyped ==
    ASSUME HistoryInv, NEW v \in Vendors, Len(versions[v]) <= MaxHistory
    PROVE  ToSet(versions[v]) \subseteq VersionRows
<1> DEFINE s == versions[v]
<1>1. s \in Seq(Records) /\ Numbered(s) /\ Len(s) <= MaxHistory
  BY DEF HistoryInv, Records
<1> HIDE DEF s
<1>2. DOMAIN s = 1 .. Len(s) /\ Len(s) \in Nat /\ \A i \in 1 .. Len(s) : s[i] \in Records
  BY <1>1
<1>3. ASSUME NEW i \in DOMAIN s PROVE s[i] \in VersionRows
  <2>1. i \in 1 .. Len(s) /\ i \in 1 .. MaxHistory
    BY <1>1, <1>2, HistoryAssumption DEF HistoryAssumption
  <2>2. s[i] \in Records /\ s[i].number \in 1 .. MaxHistory
    <3>1. s[i].number \in 1 .. i
      BY <1>1, <2>1 DEF Numbered
    <3>2. i \in Nat /\ i <= MaxHistory
      BY <2>1
    <3>3. s[i].number \in 1 .. MaxHistory
      BY <3>1, <3>2, HistoryAssumption DEF HistoryAssumption
    <3> QED BY <1>2, <2>1, <3>3
  <2>3. \A x \in Records : x.number \in 1 .. MaxHistory => x \in VersionRows
    BY DEF Records, VersionRows
  <2> QED BY <2>1, <2>2, <2>3
<1>4. ToSet(s) \subseteq VersionRows
  BY <1>3 DEF ToSet
<1> QED BY <1>4 DEF s

LEMMA HistoryTyped == HistorySpec => []HistoryTypeOK
<1> DEFINE Short == /\ \A v \in Vendors : Len(versions[v]) <= MaxHistory
                    /\ behind \subseteq Vendors
                    /\ offerings \in [Offerings -> Profiles \cup {NoRow}]
<1>1. HistoryInit => Short
  BY HistoryAssumption DEF HistoryInit, HistoryAssumption
<1>2. HistoryInv /\ Short /\ [HistoryNext]_historyVars => Short'
  <2> SUFFICES ASSUME HistoryInv, Short, [HistoryNext]_historyVars PROVE Short'
    OBVIOUS
  <2>a. \A v \in Vendors : versions[v] \in Seq(Records) /\ Numbered(versions[v])
    BY DEF HistoryInv, Records
  <2>1. CASE UNCHANGED <<versions, behind, offerings>>
    BY <2>1
  <2>2. ASSUME NEW v \in Vendors, NEW row \in Profiles, apply_vendor_profile_update(v, row)
        PROVE  Short'
    <3>1. Len(versions[v]) \in Nat /\ Len(versions[v]) < MaxHistory /\ UNCHANGED offerings
      BY <2>2, <2>a DEF apply_vendor_profile_update
    <3>2. \A history \in Continued(v, row) : Len(history) = Len(versions[v]) + 1
      BY <2>a, ContinuedTells
    <3>3. PICK history \in Continued(v, row) \cup {versions[v], Closed(versions[v])} :
            versions' = [versions EXCEPT ![v] = history]
      BY <2>2 DEF apply_vendor_profile_update, Interrupted
    <3>4. behind' \subseteq behind \cup {v}
      BY <2>2 DEF apply_vendor_profile_update
    <3>5. Len(history) <= MaxHistory
      BY <2>a, <3>1, <3>2, ClosedKeeps, HistoryAssumption DEF HistoryAssumption
    <3>6. \A w \in Vendors : versions'[w] = IF w = v THEN history ELSE versions[w]
      BY <3>3 DEF HistoryInv
    <3> QED BY <3>1, <3>4, <3>5, <3>6
  <2>3. ASSUME NEW o \in Offerings, NEW row \in Profiles, offerings' = [offerings EXCEPT ![o] = row],
               UNCHANGED <<versions, behind>>
        PROVE  Short'
    BY <2>3
  <2>4. \/ UNCHANGED <<versions, behind, offerings>>
        \/ \E v \in Vendors, row \in Profiles : apply_vendor_profile_update(v, row)
        \/ \E o \in Offerings, row \in Profiles :
              offerings' = [offerings EXCEPT ![o] = row] /\ UNCHANGED <<versions, behind>>
    BY DEF HistoryNext, historyVars, vendor_new_submit, vendor_direct_update, vendor_lob_update,
           offering_new_submit, offering_update_submit, offering_ownership_lob_update_submit,
           import_vendor, import_offering, create_vendor_profile, create_offering, update_offering_fields
  <2> QED BY <2>1, <2>2, <2>3, <2>4
<1>3. HistoryInv /\ Short => HistoryTypeOK
  BY VersionsTyped DEF HistoryInv, HistoryTypeOK
<1>4. HistorySpec => []HistoryInv
  BY HistoryStart, HistoryStep, PTL DEF HistorySpec
<1> HIDE DEF Short
<1> QED BY <1>1, <1>2, <1>3, <1>4, PTL DEF HistorySpec

LEMMA ProjectsTyped == ProjectsSpec => []ProjectsTypeOK
<1> DEFINE Filed_ == /\ projectDemos \in [DemoIds -> ProjectDemoRows \cup {NoRow}]
                     /\ notes \subseteq ProjectIds \X Vendors
                     /\ broken \subseteq ProjectIds /\ narrowed \subseteq ProjectIds
<1>1. ProjectsInit => Filed_
  BY DEF ProjectsInit
<1>2. Attached /\ Filed_ /\ [ProjectsNext]_projectVars => Filed_'
  <2> SUFFICES ASSUME Attached, Filed_, [ProjectsNext]_projectVars PROVE Filed_'
    OBVIOUS
  <2>a. \A j \in ProjectIds : \A v : project_belongs_to_vendor(v, j) => v \in Vendors
    BY VendorsAreIds DEF project_belongs_to_vendor
  <2>1. CASE UNCHANGED <<projectDemos, notes, broken, narrowed>>
    BY <2>1
  <2>2. ASSUME NEW j \in ProjectIds, UNCHANGED <<projectDemos, notes>>,
               broken' \in {broken, broken \ {j}, broken \cup {j}},
               narrowed' \in {narrowed, narrowed \ {j}, narrowed \cup {j}}
        PROVE  Filed_'
    BY <2>2
  <2>3. ASSUME NEW j \in ProjectIds, NEW v \in Vendors, NEW o \in Offerings \cup {NoOffering},
               create_project_demo(v, j, o)
        PROVE  Filed_'
    BY <2>3 DEF create_project_demo, ProjectDemoRows, Unused, mapVars
  <2>4. ASSUME NEW j \in ProjectIds, NEW v \in Vendors, NEW d \in DemoIds,
               NEW o \in Offerings \cup {NoOffering},
               update_project_demo(v, j, d, o) \/ remove_project_demo(v, j, d)
        PROVE  Filed_'
    <3>1. projectDemos[d] \in ProjectDemoRows
      BY <2>4 DEF update_project_demo, remove_project_demo, list_project_demos, Present
    <3> QED BY <2>4, <3>1 DEF update_project_demo, remove_project_demo, ProjectDemoRows, mapVars
  <2>5. ASSUME NEW j \in ProjectIds, add_project_note(j)
        PROVE  Filed_'
    BY <2>5, <2>a DEF add_project_note, mapVars
  <2>6. \/ UNCHANGED <<projectDemos, notes, broken, narrowed>>
        \/ \E j \in ProjectIds : /\ UNCHANGED <<projectDemos, notes>>
                                 /\ broken' \in {broken, broken \ {j}, broken \cup {j}}
                                 /\ narrowed' \in {narrowed, narrowed \ {j}, narrowed \cup {j}}
        \/ \E j \in ProjectIds, v \in Vendors, o \in Offerings \cup {NoOffering} :
              \/ create_project_demo(v, j, o)
              \/ \E d \in DemoIds : update_project_demo(v, j, d, o) \/ remove_project_demo(v, j, d)
        \/ \E j \in ProjectIds : add_project_note(j)
    <3>1. \A j \in ProjectIds : \A first, V, O :
            create_project(j, first, V, O) \/ update_project(j, first, V, O)
            \/ update_project_vendors(j, first, V)
            => /\ UNCHANGED <<projectDemos, notes>>
               /\ broken' \in {broken, broken \ {j}, broken \cup {j}}
               /\ narrowed' \in {narrowed, narrowed \ {j}, narrowed \cup {j}}
      BY DEF create_project, update_project, update_project_vendors
    <3>2. CASE UNCHANGED projectVars
      BY <3>2 DEF projectVars, mapVars
    <3>3. ASSUME NEW p, NEW j \in ProjectIds, NEW v, NEW o, NEW V, NEW O,
                 \/ projects_new_submit(p, j, V, O) \/ project_edit_submit(p, j, V, O)
                 \/ vendor_project_new_submit(p, v, j, V, O)
                 \/ vendor_project_edit_submit(p, v, j, V, O)
                 \/ project_add_vendor(p, j, v) \/ project_add_offering(p, j, o)
                 \/ import_project_new(p, j, V) \/ import_project_merge(p, j, V)
          PROVE  /\ UNCHANGED <<projectDemos, notes>>
                 /\ broken' \in {broken, broken \ {j}, broken \cup {j}}
                 /\ narrowed' \in {narrowed, narrowed \ {j}, narrowed \cup {j}}
      <4>1. \E first, W, Q : \/ create_project(j, first, W, Q) \/ update_project(j, first, W, Q)
                            \/ update_project_vendors(j, first, W)
        BY <3>3 DEF projects_new_submit, project_edit_submit, vendor_project_new_submit,
           vendor_project_edit_submit, project_add_vendor, project_add_offering,
           import_project_new, import_project_merge
      <4> QED BY <3>1, <4>1
    <3>4. ASSUME NEW p, NEW j, NEW v, NEW o, NEW d
          PROVE  /\ project_demo_new_submit(p, v, j, o) \/ project_demo_map_submit(p, v, j, o)
                    => create_project_demo(v, j, o)
                 /\ project_demo_update_submit(p, v, j, d, o) => update_project_demo(v, j, d, o)
                 /\ project_demo_remove_submit(p, v, j, d) => remove_project_demo(v, j, d)
                 /\ project_note_add(p, j) => add_project_note(j)
      BY DEF project_demo_new_submit, project_demo_map_submit, map_vendor_demo_to_project,
         project_demo_update_submit, project_demo_remove_submit, project_note_add
    <3>5. CASE ProjectsNext
      <4>1. PICK p \in Policies, j \in ProjectIds :
               \/ \E V \in SUBSET Vendors, O \in SUBSET Offerings :
                    \/ projects_new_submit(p, j, V, O)
                    \/ project_edit_submit(p, j, V, O)
                    \/ \E v \in Vendors : \/ vendor_project_new_submit(p, v, j, V, O)
                                          \/ vendor_project_edit_submit(p, v, j, V, O)
               \/ \E v \in Vendors : project_add_vendor(p, j, v)
               \/ \E o \in Offerings : project_add_offering(p, j, o)
               \/ \E V \in {{}} \cup {{v} : v \in Vendors} :
                    import_project_new(p, j, V) \/ import_project_merge(p, j, V)
               \/ \E v \in Vendors, o \in Offerings \cup {NoOffering} :
                    \/ project_demo_new_submit(p, v, j, o)
                    \/ project_demo_map_submit(p, v, j, o)
                    \/ \E d \in DemoIds : project_demo_update_submit(p, v, j, d, o)
               \/ \E v \in Vendors, d \in DemoIds : project_demo_remove_submit(p, v, j, d)
               \/ project_note_add(p, j)
        BY <3>5 DEF ProjectsNext
      <4>2. NoOffering \in Offerings \cup {NoOffering}
        OBVIOUS
      <4> QED BY <3>3, <3>4, <4>1, <4>2
    <3> QED BY <3>2, <3>5
  <2> QED BY <2>1, <2>2, <2>3, <2>4, <2>5, <2>6
<1>3. Attached /\ Filed_ => ProjectsTypeOK
  BY DEF Attached, ProjectsTypeOK
<1> HIDE DEF Filed_
<1> QED BY <1>1, <1>2, <1>3, ProjectsInductive, PTL DEF ProjectsSpec

LEMMA DemosTyped == DemosSpec => []DemosTypeOK
<1>1. Reviewed => DemosTypeOK
  <2> SUFFICES ASSUME Reviewed PROVE DemosTypeOK
    OBVIOUS
  <2>1. ASSUME NEW k \in FormKeys, NEW i \in DOMAIN library[k]
        PROVE  library[k][i].status \in {"active", "deleted"} /\ library[k][i].questions # NoForm
    <3>1. IsLibrary(library[k])
      BY DEF Reviewed
    <3>2. i \in 1 .. Len(library[k])
      BY <2>1, <3>1 DEF IsLibrary
    <3> QED BY <3>1, <3>2 DEF IsLibrary
  <2>2. ASSUME NEW d \in DemoRowIds, NEW i \in DOMAIN reviews[d]
        PROVE  reviews[d][i].by \in Range(ActorRef) /\ reviews[d][i].text.overall \in Int
    <3>1. reviews[d] \in Seq(Reviews)
      BY DEF Reviewed
    <3>2. reviews[d][i] \in Reviews
      BY <2>2, <3>1
    <3> QED BY <3>2 DEF Reviews, Results, Full
  <2>3. DOMAIN library = FormKeys
    BY DEF Reviewed
  <2> QED BY <2>1, <2>2, <2>3 DEF Reviewed, DemosTypeOK
<1> QED BY <1>1, ReviewedInductive, PTL

=============================================================================
