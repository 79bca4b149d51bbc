----------------------- MODULE OperationPolicyProofs -----------------------
(***************************************************************************)
(* Proofs about access decisions, for every set of users, groups, policies:*)
(* what decides, what does not (other users of a zone, the preset rules    *)
(* for a client with groups), and that the monitor cannot interfere.       *)
(***************************************************************************)
EXTENDS OperationPolicy, TLAPS

-----------------------------------------------------------------------------
(* The decision as a function of its arguments. *)

\* Owners match by zone, so match_owner groups the users into classes: it is
\* reflexive, symmetric and transitive.
LEMMA MatchOwnerEquivalence ==
    ASSUME NEW u, NEW v, NEW w
    PROVE  /\ MatchOwner(u, u)
           /\ MatchOwner(u, v) => MatchOwner(v, u)
           /\ MatchOwner(u, v) /\ MatchOwner(v, w) => MatchOwner(u, w)
BY DEF MatchOwner

\* is_allowed sees a user only through match_owner.
LEMMA MatchingUsersAllowedAlike ==
    ASSUME NEW u, NEW v, MatchOwner(u, v),
           NEW b, NEW g, NEW owner, NEW type, NEW op
    PROVE  IsAllowed(b, u, g, owner, type, op) <=> IsAllowed(b, v, g, owner, type, op)
<1>1. MatchOwner(u, owner) <=> MatchOwner(v, owner)
  BY MatchOwnerEquivalence
<1>2. QED
  BY <1>1 DEF IsAllowed

\* Belonging to more groups never takes access away: the promise that a client
\* in several groups gets the most permissive of their rules.
THEOREM MoreGroupsMoreAccess ==
    ASSUME NEW b, NEW user, NEW owner, NEW type, NEW op,
           NEW small \in SUBSET Groups, NEW large \in SUBSET Groups,
           small \subseteq large,
           IsAllowedByOperationPolicy(b, [user |-> user, groups |-> small], owner, type, op)
    PROVE  IsAllowedByOperationPolicy(b, [user |-> user, groups |-> large], owner, type, op)
<1>1. small # NoGroups /\ large # NoGroups
  BY NoneIsNoValue
<1>2. QED
  BY <1>1 DEF IsAllowedByOperationPolicy, GroupsTried

\* Two policies that differ only in their "preset" section decide alike for every client
\* with group information (get_relevant_policy_section): for such a client the preset
\* rules are not a fallback, whatever the groups section lacks.
THEOREM GroupsIgnorePreset ==
    ASSUME NEW b, NEW c, b # NoPolicy, c # NoPolicy, b.groups = c.groups,
           NEW identity \in Identities, identity.groups # NoGroups,
           NEW owner, NEW type, NEW op
    PROVE  IsAllowedByOperationPolicy(b, identity, owner, type, op) <=>
           IsAllowedByOperationPolicy(c, identity, owner, type, op)
<1>1. GroupsTried(identity) \subseteq Groups /\ NoGroup \notin GroupsTried(identity)
  BY NoneIsNoValue DEF GroupsTried, Identities
<1>2. ASSUME NEW g \in GroupsTried(identity)
      PROVE  IsAllowed(b, identity.user, g, owner, type, op) <=>
             IsAllowed(c, identity.user, g, owner, type, op)
  <2>1. RelevantSection(b, g) = RelevantSection(c, g)
    BY <1>1 DEF RelevantSection
  <2> QED
    BY <2>1 DEF IsAllowed
<1> QED
  BY <1>2 DEF IsAllowedByOperationPolicy

-----------------------------------------------------------------------------
(* The check as the engine runs it beside the monitor. *)

\* The policies stored, the loop's groups and the history keep their types.
THEOREM TypeCorrect == Spec => []TypeOK
<1>1. Init => TypeOK
  BY OperationPolicyAssumption DEF Init, TypeOK
<1>2. TypeOK /\ [Next]_vars => TypeOK'
  <2> SUFFICES ASSUME TypeOK, [Next]_vars
               PROVE  TypeOK'
    OBVIOUS
  <2> USE OperationPolicyAssumption DEF TypeOK
  <2>1. CASE UNCHANGED vars
    BY <2>1 DEF vars
  <2>2. ASSUME NEW q \in Queries, StartCheck(q)
        PROVE  TypeOK'
    <3>1. policies[q.policy] \in {NoPolicy} \cup Bundles
      OBVIOUS
    <3>2. QED
      BY <2>2, <3>1 DEF StartCheck
  <2>3. ASSUME NEW g \in Groups \cup {NoGroup}, TryGroup(g)
        PROVE  TypeOK'
    BY <2>3 DEF TryGroup
  <2>4. CASE GiveUp
    BY <2>4 DEF GiveUp
  <2>5. ASSUME NEW p \in PolicyNames, NEW b \in {NoPolicy} \cup PolicyFileBundles,
               MonitorUpdate(p, b)
        PROVE  TypeOK'
    <3>1. policies' \in [PolicyNames -> {NoPolicy} \cup Bundles]
      BY <2>5 DEF MonitorUpdate
    <3>2. policies'[query.policy] \in {NoPolicy} \cup Bundles
      BY <3>1
    <3>3. QED
      BY <2>5, <3>1, <3>2 DEF MonitorUpdate
  <2>6. QED
    BY <2>1, <2>2, <2>3, <2>4, <2>5 DEF Next
<1>3. QED
  BY <1>1, <1>2, PTL DEF Spec

\* What the loop knows while it runs: the version now in force is one it has
\* seen, a granted check has a version granting it, and every group already
\* tried was denied by some version.
CheckInv ==
    /\ decision = "pending" => policies[query.policy] \in seen
    /\ decision = "pending" =>
           \A g \in GroupsTried(query.identity) \ todo :
               \E b \in seen : ~IsAllowed(b, query.identity.user, g, query.owner,
                                          query.type, query.op)
    /\ GrantedByOneVersion
    /\ DeniedByEveryGroup

\* A check is decided by versions of the policy in force while it ran.
THEOREM DecisionSound == Spec => []CheckInv
<1>1. Init => CheckInv
  BY DEF Init, CheckInv, GrantedByOneVersion, DeniedByEveryGroup
<1>2. TypeOK /\ CheckInv /\ [Next]_vars => CheckInv'
  <2> SUFFICES ASSUME TypeOK, CheckInv, [Next]_vars
               PROVE  CheckInv'
    OBVIOUS
  <2> USE DEF CheckInv, GrantedByOneVersion, DeniedByEveryGroup
  <2>1. CASE UNCHANGED vars
    BY <2>1 DEF vars
  <2>2. ASSUME NEW q \in Queries, StartCheck(q)
        PROVE  CheckInv'
    BY <2>2 DEF StartCheck
  <2>3. ASSUME NEW g \in Groups \cup {NoGroup}, TryGroup(g)
        PROVE  CheckInv'
    <3> DEFINE allowed == IsAllowed(policies[query.policy], query.identity.user, g,
                                    query.owner, query.type, query.op)
    <3>1. policies[query.policy] \in seen /\ g \in GroupsTried(query.identity)
      BY <2>3 DEF TryGroup, TypeOK
    <3>2. CASE allowed
      BY <2>3, <3>1, <3>2 DEF TryGroup, IsAllowedByOperationPolicy
    <3>3. CASE ~allowed
      BY <2>3, <3>1, <3>3 DEF TryGroup
    <3>4. QED
      BY <3>2, <3>3
  <2>4. CASE GiveUp
    BY <2>4 DEF GiveUp
  <2>5. ASSUME NEW p \in PolicyNames, NEW b \in {NoPolicy} \cup PolicyFileBundles,
               MonitorUpdate(p, b)
        PROVE  CheckInv'
    BY <2>5 DEF MonitorUpdate
  <2>6. QED
    BY <2>1, <2>2, <2>3, <2>4, <2>5 DEF Next
<1>3. QED
  BY <1>1, <1>2, TypeCorrect, PTL DEF Spec

\* is_allowed grants a client only what one version of the policy allows it.
THEOREM GrantSound == Spec => []GrantedByOneVersion
BY DecisionSound, PTL DEF CheckInv

\* A client is denied only when each of its groups was denied.
THEOREM DenialSound == Spec => []DeniedByEveryGroup
BY DecisionSound, PTL DEF CheckInv

\* The vCenters of one availability zone have the same access.
THEOREM ZonesShare == Spec => []ZoneSharesAccess
<1>1. TypeOK => ZoneSharesAccess
  <2> SUFFICES ASSUME TypeOK,
                      NEW u \in VCenters, NEW v \in VCenters, ZoneOf[v] = ZoneOf[u]
               PROVE  IsAllowedByOperationPolicy(policies[query.policy],
                          [query.identity EXCEPT !.user = u], query.owner,
                          query.type, query.op)
                      <=> IsAllowedByOperationPolicy(policies[query.policy],
                          [query.identity EXCEPT !.user = v], query.owner,
                          query.type, query.op)
    BY DEF ZoneSharesAccess
  <2>1. MatchOwner(u, v)
    BY DEF MatchOwner, ExtractZone
  <2>2. query.identity \in Identities
    BY OperationPolicyAssumption DEF TypeOK
  <2> DEFINE iu == [query.identity EXCEPT !.user = u]
             iv == [query.identity EXCEPT !.user = v]
  <2>3. iu.groups = iv.groups /\ iu.user = u /\ iv.user = v
    BY <2>2 DEF Identities
  <2>4. GroupsTried(iu) = GroupsTried(iv)
    BY <2>3 DEF GroupsTried
  <2>5. QED
    BY <2>1, <2>3, <2>4, MatchingUsersAllowedAlike DEF IsAllowedByOperationPolicy
<1>2. QED
  BY <1>1, TypeCorrect, PTL

-----------------------------------------------------------------------------
(* The decision is the documented one *)

\* A zone is no name, so match_owner compares names, or the zones of two vCenters.
LEMMA MatchOwnerDocumented ==
    ASSUME NEW user \in Users \cup {NoUser}, NEW owner \in Users \cup {NoUser}
    PROVE  MatchOwner(user, owner) <=>
               \/ user = owner
               \/ {user, owner} \subseteq VCenters /\ ZoneOf[user] = ZoneOf[owner]
<1>1. \A u \in VCenters : ZoneOf[u] \in Zones /\ ZoneOf[u] \notin Users \cup {NoUser}
  BY ZonesAreNotNames
<1>2. QED
  BY <1>1 DEF MatchOwner, ExtractZone

\* The rule of a group, if it has one.
Rule(b, g, type, op) ==
    IF RelevantSection(b, g) = NoSection THEN {} ELSE {RelevantSection(b, g)[<<type, op>>]}

\* The loop over the groups finds what the most permissive of their rules says.
LEMMA LoopFindsMostPermissive ==
    ASSUME NEW b, NEW identity \in Identities, NEW owner \in Users \cup {NoUser},
           NEW type, NEW op
    PROVE  IsAllowedByOperationPolicy(b, identity, owner, type, op) <=>
               Documented(b, identity, owner, type, op)
<1> DEFINE RulesOf(section) == IF section = NoSection THEN {} ELSE {section[<<type, op>>]}
           rules == IF b = NoPolicy THEN {}
                    ELSE IF identity.groups = NoGroups THEN RulesOf(b.preset)
                    ELSE UNION {RulesOf(b.groups[g]) : g \in identity.groups}
           tried == GroupsTried(identity)
           match == MatchOwner(identity.user, owner)
<1>1. \A x : x \in rules <=> \E g \in tried : x \in Rule(b, g, type, op)
  <2>1. CASE b = NoPolicy
    BY <2>1 DEF Rule, RelevantSection
  <2>2. CASE b # NoPolicy /\ identity.groups = NoGroups
    BY <2>2 DEF Rule, RelevantSection, GroupsTried
  <2>3. CASE b # NoPolicy /\ identity.groups # NoGroups
    <3>1. tried = identity.groups /\ NoGroup \notin tried
      BY <2>3, NoneIsNoValue DEF GroupsTried, Identities
    <3>2. \A g \in tried : RulesOf(b.groups[g]) = Rule(b, g, type, op)
      BY <2>3, <3>1 DEF Rule, RelevantSection
    <3>3. rules = UNION {RulesOf(b.groups[g]) : g \in tried}
      BY <2>3, <3>1
    <3>4. QED
      BY <3>2, <3>3
  <2>4. QED
    BY <2>1, <2>2, <2>3
<1>2. \A g : IsAllowed(b, identity.user, g, owner, type, op) <=>
                 \/ "ALLOW_ALL" \in Rule(b, g, type, op)
                 \/ "ALLOW_OWNER" \in Rule(b, g, type, op) /\ match
  BY DEF IsAllowed, Rule
<1>3. IsAllowedByOperationPolicy(b, identity, owner, type, op) <=>
          "ALLOW_ALL" \in rules \/ ("ALLOW_OWNER" \in rules /\ match)
  BY <1>1, <1>2 DEF IsAllowedByOperationPolicy
<1>4. match <=> \/ identity.user = owner
                \/ /\ {identity.user, owner} \subseteq VCenters
                   /\ ZoneOf[identity.user] = ZoneOf[owner]
  BY MatchOwnerDocumented DEF Identities
<1> HIDE DEF match
<1>5. Documented(b, identity, owner, type, op) <=>
          "ALLOW_ALL" \in rules \/ ("ALLOW_OWNER" \in rules /\ match)
  <2> HIDE DEF rules
  <2>1. Documented(b, identity, owner, type, op) <=>
            LET most == IF "ALLOW_ALL" \in rules THEN "ALLOW_ALL"
                        ELSE IF "ALLOW_OWNER" \in rules THEN "ALLOW_OWNER"
                        ELSE "DISALLOW_ALL"
            IN  \/ most = "ALLOW_ALL"
                \/ most = "ALLOW_OWNER" /\ match
    BY <1>4 DEF Documented, rules
  <2>2. QED
    BY <2>1
<1>6. QED
  BY <1>3, <1>5

\* A client with group information that was let in was let in by the section of one of its
\* groups, in a version of the policy in force during the check.
GrantedByOwnGroup ==
    decision = "granted" /\ query.identity.groups # NoGroups =>
        \E b \in seen \ {NoPolicy} : \E g \in query.identity.groups : b.groups[g] # NoSection

\* The preset rules never let such a client in, whatever the monitor stores meanwhile.
THEOREM PresetNotForGroups == Spec => []GrantedByOwnGroup
<1>1. TypeOK /\ GrantedByOneVersion => GrantedByOwnGroup
  <2> SUFFICES ASSUME TypeOK, GrantedByOneVersion,
                      decision = "granted", query.identity.groups # NoGroups
               PROVE  \E b \in seen \ {NoPolicy} :
                          \E g \in query.identity.groups : b.groups[g] # NoSection
    BY DEF GrantedByOwnGroup
  <2>1. query.identity \in Identities
    BY OperationPolicyAssumption DEF TypeOK
  <2>2. PICK b \in seen : IsAllowedByOperationPolicy(b, query.identity, query.owner,
                                                     query.type, query.op)
    BY DEF GrantedByOneVersion
  <2>3. PICK g \in query.identity.groups :
            IsAllowed(b, query.identity.user, g, query.owner, query.type, query.op)
    BY <2>2 DEF IsAllowedByOperationPolicy, GroupsTried
  <2>4. g # NoGroup
    BY <2>1, NoneIsNoValue DEF Identities
  <2>5. b # NoPolicy /\ b.groups[g] # NoSection
    BY <2>3, <2>4 DEF IsAllowed, RelevantSection
  <2> QED
    BY <2>5
<1> QED
  BY <1>1, TypeCorrect, GrantSound, PTL

\* While the monitor leaves the policy alone, the check has seen one version of it.
OneVersion ==
    updates = 0 => /\ decision = "none" => seen = {}
                   /\ decision # "none" => seen = {policies[query.policy]}

\* A check during which the policy does not change decides what server.rst promises: the
\* most permissive rule of the client's groups counts.
THEOREM MostPermissiveWins == Spec => []MostPermissiveGroupWins
<1>1. Init => OneVersion
  BY DEF Init, OneVersion
<1>2. TypeOK /\ OneVersion /\ [Next]_vars => OneVersion'
  <2> SUFFICES ASSUME TypeOK, OneVersion, [Next]_vars
               PROVE  OneVersion'
    OBVIOUS
  <2>1. CASE UNCHANGED vars
    BY <2>1 DEF vars, OneVersion
  <2>2. CASE \E q \in Queries : StartCheck(q)
    BY <2>2 DEF StartCheck, OneVersion
  <2>3. CASE (\E g \in Groups \cup {NoGroup} : TryGroup(g)) \/ GiveUp
    BY <2>3 DEF TryGroup, GiveUp, OneVersion
  <2>4. CASE \E p \in PolicyNames, b \in {NoPolicy} \cup PolicyFileBundles : MonitorUpdate(p, b)
    <3>1. updates' # 0
      BY <2>4, OperationPolicyAssumption DEF MonitorUpdate, TypeOK
    <3>2. QED
      BY <3>1 DEF OneVersion
  <2>5. QED
    BY <2>1, <2>2, <2>3, <2>4 DEF Next
<1>3. TypeOK /\ OneVersion /\ CheckInv => MostPermissiveGroupWins
  <2> SUFFICES ASSUME TypeOK, OneVersion, CheckInv,
                      decision \in {"granted", "denied"}, updates = 0
               PROVE  (decision = "granted") =
                          Documented(policies[query.policy], query.identity,
                                     query.owner, query.type, query.op)
    BY DEF MostPermissiveGroupWins
  <2> DEFINE b == policies[query.policy]
             allowed == IsAllowedByOperationPolicy(b, query.identity, query.owner,
                                                   query.type, query.op)
             documented == Documented(b, query.identity, query.owner, query.type, query.op)
  <2>1. seen = {b}
    BY DEF OneVersion
  <2>2. decision = "granted" => allowed
    BY <2>1 DEF CheckInv, GrantedByOneVersion
  <2>3. decision = "denied" => ~allowed
    BY <2>1 DEF CheckInv, DeniedByEveryGroup, IsAllowedByOperationPolicy
  <2>4. query.identity \in Identities /\ query.owner \in Users \cup {NoUser}
    BY OperationPolicyAssumption DEF TypeOK
  <2>5. allowed <=> documented
    BY <2>4, LoopFindsMostPermissive
  <2>6. (decision = "granted") <=> documented
    BY <2>2, <2>3, <2>5
  <2>7. documented \in BOOLEAN
    BY Zenon DEF Documented
  <2>8. QED
    BY <2>6, <2>7, Zenon
<1>4. QED
  BY <1>1, <1>2, <1>3, TypeCorrect, DecisionSound, PTL DEF Spec
=============================================================================
