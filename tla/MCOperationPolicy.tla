------------------------- MODULE MCOperationPolicy -------------------------
(***************************************************************************)
(* A small instance: two vCenters of one zone, one of another, a client    *)
(* that is no vCenter; two groups; one policy; one kind of object.         *)
(***************************************************************************)
EXTENDS OperationPolicy, TLC

CONSTANTS vcA0, vcA1, vcB0, plain, zoneA, zoneB, g1, g2

MCUsers == {vcA0, vcA1, vcB0, plain}
MCZones == {zoneA, zoneB}
MCZoneOf == vcA0 :> zoneA @@ vcA1 :> zoneA @@ vcB0 :> zoneB
MCGroups == {g1, g2}
MCTypes == {"SymmetricKey"}
MCOperations == {"Get"}
MCPolicyNames == {"example"}

\* Every section over the one entry, every bundle over three of the sections.
MCSections == {NoSection} \cup
    [MCTypes \X MCOperations -> {"ALLOW_OWNER", "ALLOW_ALL"}]
MCBundles == [preset : MCSections, groups : [MCGroups -> MCSections]]
          \cup {[preset |-> NoSection,
                 groups |-> [g \in MCGroups |->
                     [e \in MCTypes \X MCOperations |-> r]]] :
                         r \in {"DISALLOW_ALL", "NoRule"}}

\* Owners in the client's zone, in another zone, no vCenter, and no owner.
MCQueries ==
    [identity : [user : {vcA0, plain, NoUser}, groups : SUBSET MCGroups \cup {NoGroups}],
     policy : MCPolicyNames,
     owner : {vcA1, vcB0, plain, NoUser},
     type : MCTypes, op : MCOperations]
=============================================================================
