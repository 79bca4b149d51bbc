-------------------------- MODULE OperationPolicy --------------------------
(***************************************************************************)
(* One access check of the engine running beside the policy monitor.  The  *)
(* table of policies is a dictionary shared with the monitor process: the  *)
(* engine reads it once per group of the client, without any lock, so the  *)
(* monitor can replace or remove the policy between two groups.            *)
(***************************************************************************)
EXTENDS AccessRules, FiniteSets, Naturals

CONSTANTS
    PolicyFileBundles,  \* bundles an administrator may put in a policy file
    Queries,            \* the checks explored: [identity, policy, owner, type, op]
    MaxUpdates          \* bound: changes by the monitor during one check

ASSUME OperationPolicyAssumption ==
    /\ PolicyFileBundles \subseteq Bundles
    /\ Queries \subseteq [identity : Identities, policy : PolicyNames,
                          owner : Users \cup {NoUser},
                          type : ObjectTypes, op : Operations]
    /\ MaxUpdates \in Nat

VARIABLES
    policies,   \* KmipServer.policies, the dictionary shared by the processes
    query,      \* arguments of the check in progress
    todo,       \* groups the loop has not tried yet
    decision,   \* "none", "pending", "granted" or "denied"
    seen,       \* history: the bundles the policy had while the check ran
    updates     \* changes made by the monitor during the check

vars == <<policies, query, todo, decision, seen, updates>>

Init ==
    /\ policies \in [PolicyNames -> {NoPolicy} \cup PolicyFileBundles]
    /\ query \in Queries
    /\ todo = {}
    /\ decision = "none"
    /\ seen = {}
    /\ updates = 0

-----------------------------------------------------------------------------
\* Fault: the groups a former check left over are tried again.
StartCheckStale(q) ==
    /\ decision # "pending"
    /\ query' = q
    /\ todo' = todo \cup GroupsTried(q.identity)
    /\ decision' = "pending"
    /\ seen' = {policies[q.policy]}
    /\ updates' = 0
    /\ UNCHANGED policies

\* The engine enters _is_allowed_by_operation_policy.
StartCheck(q) ==
    /\ decision # "pending"
    /\ query' = q
    /\ todo' = GroupsTried(q.identity)
    /\ decision' = "pending"
    /\ seen' = {policies[q.policy]}
    /\ updates' = 0
    /\ UNCHANGED policies

\* Fault: the section for clients without groups is consulted for everyone.
TryGroupPreset(g) ==
    /\ decision = "pending"
    /\ g \in todo
    /\ todo' = todo \ {g}
    /\ decision' = IF IsAllowed(policies[query.policy], query.identity.user, NoGroup,
                                query.owner, query.type, query.op)
                   THEN "granted" ELSE "pending"
    /\ UNCHANGED <<policies, query, seen, updates>>

\* The loop looks up one more group in the shared dictionary.
TryGroup(g) ==
    /\ decision = "pending"
    /\ g \in todo
    /\ todo' = todo \ {g}
    /\ decision' = IF IsAllowed(policies[query.policy], query.identity.user, g,
                                query.owner, query.type, query.op)
                   THEN "granted" ELSE "pending"
    /\ UNCHANGED <<policies, query, seen, updates>>

\* Fault: the loop gives up before it has tried every group.
GiveUpEarly ==
    /\ decision = "pending"
    /\ decision' = "denied"
    /\ UNCHANGED <<policies, query, todo, seen, updates>>

\* The loop is over and no group was allowed.
GiveUp ==
    /\ decision = "pending"
    /\ todo = {}
    /\ decision' = "denied"
    /\ UNCHANGED <<policies, query, todo, seen, updates>>

\* The monitor process stores or removes a policy.
MonitorUpdate(p, b) ==
    /\ decision = "pending"
    /\ updates < MaxUpdates
    /\ policies' = [policies EXCEPT ![p] = b]
    /\ seen' = seen \cup {policies'[query.policy]}
    /\ updates' = updates + 1
    /\ UNCHANGED <<query, todo, decision>>

Next ==
    \/ \E q \in Queries : StartCheck(q)
    \/ \E g \in Groups \cup {NoGroup} : TryGroup(g)
    \/ GiveUp
    \/ \E p \in PolicyNames, b \in {NoPolicy} \cup PolicyFileBundles :
           MonitorUpdate(p, b)

Spec == Init /\ [][Next]_vars

-----------------------------------------------------------------------------
(* Properties *)

\* The loop only ever has groups of the client it was started for left to
\* try (_is_allowed_by_operation_policy), and the variables have their types.
TypeOK ==
    /\ policies \in [PolicyNames -> {NoPolicy} \cup Bundles]
    /\ query \in Queries
    /\ decision \in {"none", "pending", "granted", "denied"}
    /\ seen \subseteq {NoPolicy} \cup Bundles
    /\ updates \in 0..MaxUpdates
    /\ decision = "none" => todo = {}
    /\ decision # "none" => todo \subseteq GroupsTried(query.identity)

\* Access is never granted by a mixture of two versions of a policy: if
\* _is_allowed_by_operation_policy returns True, one version that was in force
\* during the check allows the request by itself.
GrantedByOneVersion ==
    decision = "granted" =>
        \E b \in seen : IsAllowedByOperationPolicy(b, query.identity, query.owner,
                                                   query.type, query.op)

\* Access is denied only if every group of the client was denied by some
\* version in force during the check; since the groups are looked up one by
\* one, it need not be the same version for all of them.
DeniedByEveryGroup ==
    decision = "denied" =>
        \A g \in GroupsTried(query.identity) :
            \E b \in seen : ~IsAllowed(b, query.identity.user, g, query.owner,
                                       query.type, query.op)

\* What docs/source/server.rst promises of a policy that does not change: the
\* most permissive rule over all groups of the client counts, the "preset"
\* rules count for a client without groups, what is not covered is disallowed.
Documented(b, identity, owner, type, op) ==
    LET RulesOf(section) ==
            IF section = NoSection THEN {} ELSE {section[<<type, op>>]}
        rules == IF b = NoPolicy THEN {}
                 ELSE IF identity.groups = NoGroups THEN RulesOf(b.preset)
                 ELSE UNION {RulesOf(b.groups[g]) : g \in identity.groups}
        most == IF "ALLOW_ALL" \in rules THEN "ALLOW_ALL"
                ELSE IF "ALLOW_OWNER" \in rules THEN "ALLOW_OWNER"
                ELSE "DISALLOW_ALL"
        sameZone == /\ {identity.user, owner} \subseteq VCenters
                    /\ ZoneOf[identity.user] = ZoneOf[owner]
    IN  \/ most = "ALLOW_ALL"
        \/ most = "ALLOW_OWNER" /\ (identity.user = owner \/ sameZone)

MostPermissiveGroupWins ==
    decision \in {"granted", "denied"} /\ updates = 0 =>
        (decision = "granted") = Documented(policies[query.policy], query.identity,
                                            query.owner, query.type, query.op)

\* All vCenters of one availability zone are interchangeable (the purpose
\* match_owner states): whatever the policy, they get the same decision.
ZoneSharesAccess ==
    \A u \in VCenters : \A v \in {w \in VCenters : ZoneOf[w] = ZoneOf[u]} :
        LET Decide(user) == IsAllowedByOperationPolicy(policies[query.policy],
                [query.identity EXCEPT !.user = user], query.owner, query.type, query.op)
        IN  Decide(u) <=> Decide(v)

\* docs/source/server.rst, "If group information is provided but only preset
\* controls are defined, the preset controls will be enforced".  The code
\* returns no section for a group when a policy has no groups: it denies.
PresetIsFallback ==
    LET b == policies[query.policy]
        onlyPreset == /\ query.identity.groups # {}
                      /\ b # NoPolicy
                      /\ b.preset # NoSection
                      /\ \A g \in Groups : b.groups[g] = NoSection
    IN  decision = "denied" /\ updates = 0 /\ onlyPreset =>
            ~IsAllowed(b, query.identity.user, NoGroup, query.owner, query.type, query.op)
=============================================================================
