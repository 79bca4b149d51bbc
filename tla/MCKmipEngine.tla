---------------------------- MODULE MCKmipEngine ----------------------------
(***************************************************************************)
(* Two clients, no vCenters, and one policy, which the administrator of    *)
(* the sessions switches between two tables.                               *)
(***************************************************************************)
EXTENDS KmipEngine, TLC

CONSTANTS alice, bob, t1, t2

MCUsers == {alice, bob}
MCZones == {}
MCZoneOf == <<>>
MCGroups == {}
MCTypes == {"SymmetricKey", "PublicKey", "PrivateKey", "OpaqueData"}
MCOperations == {"Get", "GetAttributes", "Locate", "Activate", "Revoke", "Destroy"}
MCPolicyNames == {"default"}
MCThreads == {t1, t2}
MCClients == {[user |-> u, groups |-> NoGroups] : u \in MCUsers}

MCOpenGet == \* everyone may read, the owner may change
    [p \in MCPolicyNames |->
        [preset |-> [e \in MCTypes \X MCOperations |->
            IF e[2] \in {"Get", "GetAttributes", "Locate"}
            THEN "ALLOW_ALL" ELSE "ALLOW_OWNER"], groups |-> <<>>]]
MCDestroyTables == \* an object can only be destroyed: by its owner, or by everyone
    {[p \in MCPolicyNames |->
        [preset |-> [e \in MCTypes \X MCOperations |->
            IF e[2] = "Destroy" THEN rule ELSE "NoRule"], groups |-> <<>>]] :
        rule \in {"ALLOW_OWNER", "ALLOW_ALL"}}
MCStaticTable == {MCOpenGet}
=============================================================================
