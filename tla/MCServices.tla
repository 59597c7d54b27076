---------------------------- MODULE MCServices ----------------------------
(* The services around the catalogue for TLC.  They share no variable, so   *)
(* one of them moves in a behaviour, chosen at the start.                   *)
EXTENDS LookupOptions, UserDirectory, Access, RateLimiter, UserSettings,
        Approvals, TLC

MCPolicies == {DefaultPolicy({"vendor_admin"})}

\* LookupOptions
MCDefaults == <<<<"a", 1>>, <<"b", 2>>>>
Open == {<<2, 2>>}

\* UserDirectory: ann has a mail address, bob has none and is found by his
\* network name.
MCFoundAs == ("ann@" :> "ann") @@ ("ann" :> "ann") @@ ("bob" :> NoOne) @@ ("net" :> "bob")
MCShownAs == ("ann@" :> "ann") @@ ("ann" :> NoOne) @@ ("bob" :> "bob") @@ ("net" :> NoOne)
MCLoginOf == ("ann" :> "ann@") @@ ("bob" :> "bob")
MCOldOwners == [a \in Assignments |-> IF a = "a1" THEN "ann@" ELSE NoRow]

\* Approvals: the scout asks for every change and reviews all but the highest.
Scout == PolicyOf({"scout"}, [scout |-> Definition(9, TRUE, TRUE, FALSE)], {<<"scout", "create_doc_link">>})
MCPolicyOfUser == ("admin" :> DefaultPolicy({"vendor_admin"})) @@ ("scout" :> Scout)
MCForms == [change : {"update_vendor_profile", "add_vendor_contact"}, level : {0, 10}]

\* The components share their values, so that there are few permutations.
Symmetry == Permutations(UserIds \cup Clients \cup Items) \cup Permutations(Threads \cup Users)

VARIABLE focus

Init ==
    /\ focus \in {"options", "directory", "access", "limiter", "settings", "approvals"}
    /\ OptionsInit
    /\ DirectoryInit
    /\ AccessInit
    /\ LimiterInit
    /\ SettingsInit
    /\ ApprovalsInit
    /\ focus # "directory" => active = Employees
    /\ focus # "access" => current_terms_version = CHOOSE v \in TermsVersions : TRUE
    /\ focus # "approvals" => owner_org = [v \in Vendors |-> CHOOSE org \in Orgs : TRUE]

Next ==
    \/ /\ focus = "options" /\ OptionsNext
       /\ UNCHANGED <<focus, directoryVars, accessVars, limiterVars, settingVars, approvalVars>>
    \/ /\ focus = "directory" /\ DirectoryNext
       /\ UNCHANGED <<focus, optionVars, accessVars, limiterVars, settingVars, approvalVars>>
    \/ /\ focus = "access" /\ AccessNext
       /\ UNCHANGED <<focus, optionVars, directoryVars, limiterVars, settingVars, approvalVars>>
    \/ /\ focus = "limiter" /\ LimiterNext
       /\ UNCHANGED <<focus, optionVars, directoryVars, accessVars, settingVars, approvalVars>>
    \/ /\ focus = "settings" /\ SettingsNext
       /\ UNCHANGED <<focus, optionVars, directoryVars, accessVars, limiterVars, approvalVars>>
    \/ /\ focus = "approvals" /\ ApprovalsNext
       /\ UNCHANGED <<focus, optionVars, directoryVars, accessVars, limiterVars, settingVars>>

Spec ==
    Init /\ [][Next]_<<focus, optionVars, directoryVars, accessVars, limiterVars, settingVars,
                      approvalVars>>

ServicesTypeOK ==
    OptionsTypeOK /\ DirectoryTypeOK /\ AccessTypeOK /\ LimiterTypeOK /\ SettingsTypeOK
        /\ ApprovalsTypeOK
=============================================================================
