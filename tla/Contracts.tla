------------------------------ MODULE Contracts ------------------------------
(***************************************************************************)
(* The contracts of a vendor: entered, edited, mapped to offerings and    *)
(* cancelled from the pages of Vendor 360.                                 *)
(*                                                                         *)
(* A POST handler awaits its form and then runs to the end on the event    *)
(* loop, so a request is one step; but its statements are separate         *)
(* transactions, and any of them may fail.  A request that is refused,     *)
(* that submits a change request (ChangeRequests) or whose first statement *)
(* fails changes nothing here and is a stuttering step.  A row is read as  *)
(* it is: what the caches may serve instead is in CacheLayers.  Contract   *)
(* numbers and values are left out, dates are the numbers 1, 2, ...        *)
(***************************************************************************)
EXTENDS Catalogue

CONSTANTS ContractIds,
          StatusInputs, Dates,
          MaxEvents      \* bound on the cancellations of a contract

NoDate == 0

allowed_statuses == {"draft", "pending", "active", "retired", "expired", "cancelled"}
ContractRows ==
    [vendor : Vendors, offering : Offerings \cup {NoOffering}, status : allowed_statuses,
     start : Dates \cup {NoDate}, end : Dates \cup {NoDate}, cancelled_flag : BOOLEAN]

ASSUME ContractsAssumption ==
    Dates \subseteq Nat \ {NoDate} /\ NoRow \notin ContractRows /\ MaxEvents \in Nat

VARIABLES
    contracts,  \* core_contract
    events      \* the cancellation events of a contract in core_contract_event

contractVars == <<contracts, events>>

ContractsInit ==
    /\ contracts = [c \in ContractIds |-> NoRow]
    /\ events = [c \in ContractIds |-> 0]

ContractsTypeOK ==
    /\ contracts \in [ContractIds -> ContractRows \cup {NoRow}]
    /\ events \in [ContractIds -> 0 .. MaxEvents]

-----------------------------------------------------------------------------
(* What the handlers share.                                                *)

get_vendor_contracts(v) == {c \in Present(contracts) : contracts[c].vendor = v}

ContractsBecome(rows) == contracts' = rows /\ UNCHANGED events

-----------------------------------------------------------------------------
(* Enter and edit.                                                         *)

\* Compared only when both dates are there.
InOrder(start, end) == start # NoDate /\ end # NoDate => start <= end

create_contract(v, o, status, start, end) ==
    /\ Mappable(v, o)
    /\ status \in allowed_statuses
    /\ InOrder(start, end)
    /\ \E c \in Unused(contracts) :
         ContractsBecome([contracts EXCEPT ![c] =
             [vendor |-> v, offering |-> o, status |-> status, start |-> start,
              end |-> end, cancelled_flag |-> (status = "cancelled")]])

add_vendor_contract_submit(p, v, o, status, start, end) ==
    /\ MayWrite(p, "vendor_contract_create")
    /\ can_apply_change(p, "create_contract")
    /\ create_contract(v, o, status, start, end)

\* A date the form leaves empty is cleared, but still checked at its old value.
Checked(new, old) == IF new = NoDate THEN old ELSE new

\* The statement sets the fields that differ, and with the status the flag.
update_contract(v, c, o, status, start, end) ==
    LET old == contracts[c]
    IN /\ c \in get_vendor_contracts(v)
       /\ Mappable(v, o)
       /\ status \in allowed_statuses
       /\ InOrder(Checked(start, old.start), Checked(end, old.end))
       /\ <<o, status, start, end>> # <<old.offering, old.status, old.start, old.end>>
       /\ ContractsBecome([contracts EXCEPT ![c] =
              [vendor |-> v, offering |-> o, status |-> status, start |-> start,
               end |-> end, cancelled_flag |-> IF status = old.status
                                               THEN old.cancelled_flag
                                               ELSE status = "cancelled"]])

update_vendor_contract_submit(p, v, c, o, status, start, end) ==
    /\ MayWrite(p, "vendor_contract_update")
    /\ can_apply_change(p, "update_contract")
    /\ update_contract(v, c, o, status, start, end)

-----------------------------------------------------------------------------
(* Map to an offering, one contract or several.                            *)

MappedTo(C, o) == [c \in ContractIds |->
    IF c \in C THEN [contracts[c] EXCEPT !.offering = o] ELSE contracts[c]]

map_contract_to_offering(c, o) == ContractsBecome(MappedTo({c}, o))

map_contract_submit(p, v, c, o) ==
    /\ MayWrite(p, "vendor_contract_map")
    /\ c \in get_vendor_contracts(v)
    /\ Mappable(v, o)
    /\ can_apply_change(p, "map_contract_to_offering")
    /\ map_contract_to_offering(c, o)

\* One statement for each contract that is not there yet, until one fails.
bulk_map_contracts_to_offering(C, o) ==
    \E done \in SUBSET {c \in C : contracts[c].offering # o} :
        /\ Faults \/ \A c \in C \ done : contracts[c].offering = o
        /\ ContractsBecome(MappedTo(done, o))

map_contracts_bulk_submit(p, v, C, o) ==
    /\ MayWrite(p, "vendor_contract_map_bulk")
    /\ C # {} /\ C \subseteq get_vendor_contracts(v)
    /\ offering_belongs_to_vendor(v, o)
    /\ can_apply_change(p, "map_contract_to_offering")
    /\ bulk_map_contracts_to_offering(C, o)

-----------------------------------------------------------------------------
(* Cancel: the event first, then the contract.                             *)

BadCancellation(c) ==                       \* the flag is forgotten
    /\ events[c] < MaxEvents
    /\ events' = [events EXCEPT ![c] = @ + 1]
    /\ contracts' = [contracts EXCEPT ![c].status = "cancelled"]
record_contract_cancellation(c) ==
    /\ events[c] < MaxEvents
    /\ events' = [events EXCEPT ![c] = @ + 1]
    /\ \/ contracts' = [contracts EXCEPT ![c].status = "cancelled",
                                         ![c].cancelled_flag = TRUE]
       \/ Faults /\ UNCHANGED contracts

cancel_vendor_contract_submit(p, v, c) ==
    /\ MayWrite(p, "vendor_contract_cancel")
    /\ c \in get_vendor_contracts(v)
    /\ contracts[c].status # "cancelled"
    /\ can_apply_change(p, "record_contract_cancellation")
    /\ record_contract_cancellation(c)

-----------------------------------------------------------------------------
ContractsNext ==
    \E p \in Policies, v \in Vendors :
        \/ \E o \in Offerings \cup {NoOffering}, status \in StatusInputs,
              start, end \in Dates \cup {NoDate} :
             \/ add_vendor_contract_submit(p, v, o, status, start, end)
             \/ \E c \in ContractIds :
                  update_vendor_contract_submit(p, v, c, o, status, start, end)
        \/ \E o \in Offerings \cup {NoOffering}, c \in ContractIds :
             map_contract_submit(p, v, c, o)
        \/ \E o \in Offerings, C \in SUBSET ContractIds :
             map_contracts_bulk_submit(p, v, C, o)
        \/ \E c \in ContractIds : cancel_vendor_contract_submit(p, v, c)

ContractsSpec == ContractsInit /\ [][ContractsNext]_contractVars

-----------------------------------------------------------------------------
(* Properties.                                                             *)

(* A contract is never filed under an offering of another vendor, through  *)
(* any sequence of entering, editing, mapping and bulk mapping that may    *)
(* stop half-way.                                                          *)
OfferingOfVendor ==
    \A c \in Present(contracts) :
        contracts[c].offering # NoOffering =>
            VendorOf[contracts[c].offering] = contracts[c].vendor

(* A contract agrees with itself.  The reports select cancelled contracts  *)
(* by the flag and the pages by the status: whichever of create, update    *)
(* and cancel set them, the two say the same.  And no contract ends before *)
(* it starts, whichever of the dates was edited or cleared in whichever    *)
(* order: update_contract checks a cleared date at its old value and       *)
(* writes it as empty.                                                     *)
ContractsAgree ==
    \A c \in Present(contracts) :
        /\ contracts[c].cancelled_flag <=> contracts[c].status = "cancelled"
        /\ NoDate \notin {contracts[c].start, contracts[c].end} =>
             contracts[c].start <= contracts[c].end
=============================================================================
