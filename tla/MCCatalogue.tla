---------------------------- MODULE MCCatalogue ----------------------------
(* The catalogue for TLC.  Its components share no variable, so one of them *)
(* moves in a behaviour, chosen at the start.                              *)
EXTENDS Contracts, Offerings, VendorHistory, Projects, Demos, Imports, TLC

MCVendorOf == ("o1" :> "v1") @@ ("o2" :> "v2")
MCPolicies == {DefaultPolicy({"vendor_admin"})}

\* Projects
MCRank == ("v1" :> 1) @@ ("v2" :> 2)

\* Demos: one of the reviewers has a login that is taken for an identifier; a
\* scale whose steps miss its end with a dropdown; several choices with
\* a title, which may go without an answer; a likert scale of one step,
\* which is refused.
MCActorRef == ("ann" :> "usr-1") @@ ("usr-2" :> "usr-2")
Question(type, weight, values, multiple, step) ==
    [type |-> type, weight |-> weight, options |-> values, multiple |-> multiple,
     required |-> TRUE, min |-> 100, max |-> 500, step |-> step]
MCFormInputs ==
    {<<Question("scale", 100, <<>>, FALSE, 300), Question("dropdown_select", 0, <<0, 0>>, FALSE, 100)>>,
     <<Question("section_header", 100, <<>>, FALSE, 100),
       [Question("multi_choice", 300, <<100, 300>>, TRUE, 100) EXCEPT !.required = FALSE]>>,
     <<Question("likert_scale", 100, <<200>>, FALSE, 100)>>}
MCAnswerInputs == {<<>>, <<2, 1>>, <<400>>, <<600>>}

\* Imports
FileKeys == {"legal_name", "contacts_1.email", "contacts_2.email", "contract_number",
         "offering_name", "vendor_name", "owner_user_principal", "offering_id",
         "vendor_id", "project_name"}
Ids == {"vendor_id", "offering_id", "project_id"}
Emails == {"contacts_1.email", "contacts_2.email"}
MCGroupOf == [key \in FileKeys |-> IF key \in Emails THEN SubSeq(key, 1, 10) ELSE "static"]
\* What _mapping_candidate_score returns for these columns.
Fields == {f[2] : f \in Range(import_target_field_options)}
              \cup {f[1] : f \in UNION {Range(IMPORT_LAYOUT_FIELD_TARGET_KEYS[l]) : l \in {"vendors", "offerings", "projects"}}}
Named == {"legal_name", "display_name", "vendor_name", "offering_name", "project_name"}
MCScore ==
    [x \in Fields \X FileKeys |->
        CASE x[1] = x[2]                                     -> 100
          [] x[1] = "email" /\ x[2] \in Emails               -> 94
          [] x[1] \in {"support_email", "vendor_contact_email"} /\ x[2] \in Emails -> 82
          [] x[1] \in Named /\ x[2] \in Named                -> 70
          [] x[1] \in Ids /\ x[2] \in Ids                     -> 68
          [] OTHER                                           -> 0]
File(layout, keys, lines) == [layout |-> layout, keys |-> keys,
                             rows |-> [i \in DOMAIN lines |-> [key \in Range(keys) |->
                                          lines[i][CHOOSE j \in DOMAIN keys : keys[j] = key]]]]
MCFiles ==
    [\* Two rows of one vendor, with a contact each names twice.
     vendors |->
        File("vendors", <<"legal_name", "contacts_1.email", "contacts_2.email">>,
             <<<<"acme", "a@x", "b@x">>, <<"acme", "", "a@x">>>>),
     \* An offering by name, filed under a vendor by name, with an owner and a
     \* contract.
     offerings |->
        File("offerings", <<"offering_name", "vendor_name", "owner_user_principal", "contract_number">>,
             <<<<"crm", "acme", "ann", "k1">>>>),
     \* An offering by its identifier, with the owner by another name; without
     \* the empty column its identifier would be taken for that of the vendor.
     known |->
        File("offerings", <<"offering_id", "vendor_id", "offering_name", "owner_user_principal">>,
             <<<<"o1", "", "crm", "Ann">>>>),
     \* A project with an offering.
     projects |-> File("projects", <<"project_name", "offering_name">>, <<<<"move", "crm">>>>)]
\* Nothing yet; or two vendors, an offering of one and a project of both.
NoCatalogue == [vendors |-> <<>>, offerings |-> <<>>, projects |-> <<>>]
MCCatalogues ==
    {NoCatalogue} \cup
    {[vendors   |-> [v \in VendorIds |-> [name |-> IF v = first THEN "acme" ELSE "apex"]],
      offerings |-> "o1" :> [vendor |-> first, name |-> "crm"],
      projects  |-> [j \in ProjectRowIds |-> [name |-> "move", vendor |-> first, vendors |-> VendorIds]]] :
        first \in VendorIds}
MCRequested == [automatic |-> <<>>,
                owner |-> "owner_user_principal" :> <<"offering_owner", "owner_user_principal">>]
MCNear == {<<"acme", "acme">>, <<"crm", "crm">>, <<"move", "move">>}
MCLoginOf == ("ann" :> "ann") @@ ("Ann" :> "ann")
MCDomainOf == ("a@x" :> "x") @@ ("b@x" :> "x")

\* The components share their values, so that there are few permutations.
Symmetry == Permutations(ContractIds \cup RowIds \cup Profiles \cup FormKeys \cup VendorIds) \cup Permutations(Uploads)

VARIABLE focus

Init ==
    /\ focus \in {"contracts", "offerings", "history", "projects", "demos", "imports"}
    /\ ContractsInit
    /\ OfferingsInit
    /\ HistoryInit
    /\ ProjectsInit
    /\ DemosInit
    /\ ImportsInit /\ (focus # "imports" => vendorRows = <<>>)

Next ==
    \/ focus = "contracts" /\ ContractsNext /\ UNCHANGED <<focus, offeringVars, historyVars, projectVars, demoVars, importVars>>
    \/ focus = "offerings" /\ OfferingsNext /\ UNCHANGED <<focus, contractVars, historyVars, projectVars, demoVars, importVars>>
    \/ focus = "history" /\ HistoryNext /\ UNCHANGED <<focus, contractVars, offeringVars, projectVars, demoVars, importVars>>
    \/ focus = "projects" /\ ProjectsNext /\ UNCHANGED <<focus, contractVars, offeringVars, historyVars, demoVars, importVars>>
    \/ focus = "demos" /\ DemosNext /\ UNCHANGED <<focus, contractVars, offeringVars, historyVars, projectVars, importVars>>
    \/ focus = "imports" /\ ImportsNext /\ UNCHANGED <<focus, contractVars, offeringVars, historyVars, projectVars, demoVars>>

Spec == Init /\ [][Next]_<<focus, contractVars, offeringVars, historyVars, projectVars, demoVars, importVars>>

CatalogueTypeOK ==
    /\ ContractsTypeOK /\ OfferingsTypeOK /\ HistoryTypeOK
    /\ ProjectsTypeOK /\ DemosTypeOK /\ ImportsTypeOK

(* Whatever is filed under an offering is filed under the vendor of that   *)
(* offering: contracts, the rows of the pages, what an import brings, and  *)
(* the offerings of a project, whose vendors are the project's.  So the    *)
(* pages of the vendor and those of the offering show the same.  Projects  *)
(* are excepted whose last update broke off or gave them fewer vendors     *)
(* without their offerings, as the import of a row that merges one does.   *)
FiledUnderItsVendor ==
    OfferingOfVendor /\ RowsOfVendor /\ OfferingsBringVendors /\ ChildrenOfVendor
=============================================================================
