\* A client with groups meets a policy that defines preset controls only.
CONSTANTS
    vcA0 = vcA0
    vcA1 = vcA1
    vcB0 = vcB0
    plain = plain
    zoneA = zoneA
    zoneB = zoneB
    g1 = g1
    g2 = g2
    NoUser = NoUser
    NoGroup = NoGroup
    NoGroups = NoGroups
    NoSection = NoSection
    NoPolicy = NoPolicy
    Users <- MCUsers
    Zones <- MCZones
    ZoneOf <- MCZoneOf
    Groups <- MCGroups
    ObjectTypes <- MCTypes
    Operations <- MCOperations
    PolicyNames <- MCPolicyNames
    PolicyFileBundles <- MCBundles
    Queries <- MCQueries
    MaxUpdates = 1
SPECIFICATION Spec
INVARIANT PresetIsFallback
