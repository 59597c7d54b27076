------------------------------ MODULE Catalogue ------------------------------
(***************************************************************************)
(* What the modules of the catalogue share: the vendors and offerings      *)
(* there are, and which offering is whose.                                 *)
(***************************************************************************)
EXTENDS Handlers

CONSTANTS Vendors, Offerings,
          VendorOf     \* the vendor of an offering, which no operation changes

ASSUME VendorOfAssumption == VendorOf \in [Offerings -> Vendors]

NoOffering == "no offering"

offering_belongs_to_vendor(v, o) == VendorOf[o] = v
BadMappable(v, o) == TRUE                   \* whose offering it is is not asked
Mappable(v, o) == o # NoOffering => offering_belongs_to_vendor(v, o)
=============================================================================
