------------------------------ MODULE MCAccess ------------------------------
(* Access alone for TLC.                                                   *)
EXTENDS Access

MCPolicies == {DefaultPolicy({"vendor_admin"})}
=============================================================================
