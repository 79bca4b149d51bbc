---------------------------- MODULE AccessRules ----------------------------
(***************************************************************************)
(* The access decision of the PyKMIP server: which client identity may     *)
(* apply which operation to which managed object, given the table of       *)
(* operation policies.  Translated from KmipEngine.is_allowed and its two  *)
(* companions and from kmip.core.utils.match_owner.                        *)
(*                                                                         *)
(* A section of a policy is a partial table <<object type, operation>> ->  *)
(* permission; the value NoRule stands for an entry that is not there.     *)
(***************************************************************************)

CONSTANTS
    Users,        \* client identities: the common names of certificates
    Zones,        \* <<availability zone, region>> pairs named by vCenter hosts
    ZoneOf,       \* [vCenter host names -> Zones]
    Groups,       \* the groups an authentication plugin can report
    ObjectTypes,  \* KMIP object types
    Operations,   \* KMIP operations subject to access control
    PolicyNames,  \* names of operation policies
    NoUser,       \* Python None as a user or as an owner
    NoGroup,      \* Python None as a group
    NoGroups,     \* Python None as a list of groups
    NoSection,    \* a policy section that is not defined
    NoPolicy      \* a policy that is not defined

VCenters == DOMAIN ZoneOf

\* A zone is a pair of captured regexp groups and a user a host name, so no
\* value is both; None is neither of them.
ASSUME ZonesAreNotNames ==
    /\ VCenters \subseteq Users
    /\ ZoneOf \in [VCenters -> Zones]
    /\ Zones \cap (Users \cup {NoUser}) = {}
    /\ NoUser \notin Users

ASSUME NoneIsNoValue ==
    /\ NoGroup \notin Groups
    /\ \A G \in SUBSET Groups : G # NoGroups

Permissions == {"ALLOW_ALL", "ALLOW_OWNER", "DISALLOW_ALL"}

Rules == Permissions \cup {"NoRule"}

Sections == [ObjectTypes \X Operations -> Rules]

\* "preset" is used for a client without groups, "groups" for one with.
Bundles == [preset : {NoSection} \cup Sections,
            groups : [Groups -> {NoSection} \cup Sections]]

\* A client identity is what authentication left in KmipEngine._client_identity.
Identities == [user : Users \cup {NoUser},
               groups : {NoGroups} \cup SUBSET Groups]

-----------------------------------------------------------------------------
\* The zone of a vCenter host name; any other name stands for itself.
ExtractZone(name) == IF name \in VCenters THEN ZoneOf[name] ELSE name

\* Fault: owners compared as plain strings.
MatchOwnerExact(user, owner) == user = owner

MatchOwner(user, owner) == ExtractZone(user) = ExtractZone(owner)

\* The section of bundle b that governs a client of the given group.  (The code asks for
\* "if group": a group whose name is the empty string would count as no group.  Groups
\* here have names.)
RelevantSection(b, group) ==
    IF b = NoPolicy THEN NoSection
    ELSE IF group = NoGroup THEN b.preset ELSE b.groups[group]

\* Fault: any rule but DISALLOW_ALL grants, whoever owns the object.
IsAllowedAnyOwner(b, user, group, owner, type, op) ==
    LET section == RelevantSection(b, group)
    IN  section # NoSection /\ section[<<type, op>>] \in {"ALLOW_ALL", "ALLOW_OWNER"}

\* The decision for one group.  A missing bundle, section or entry denies.
IsAllowed(b, user, group, owner, type, op) ==
    LET section == RelevantSection(b, group)
    IN  /\ section # NoSection
        /\ \/ section[<<type, op>>] = "ALLOW_ALL"
           \/ /\ section[<<type, op>>] = "ALLOW_OWNER"
              /\ MatchOwner(user, owner)

\* A client without group information is checked once, as group None; a
\* client with an empty list of groups is checked never.
GroupsTried(identity) ==
    IF identity.groups = NoGroups THEN {NoGroup} ELSE identity.groups

IsAllowedByOperationPolicy(b, identity, owner, type, op) ==
    \E g \in GroupsTried(identity) :
        IsAllowed(b, identity.user, g, owner, type, op)
=============================================================================
