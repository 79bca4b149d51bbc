\* Two sessions racing for the engine with batches of two items, policies changing, keys
\* in the database.
CONSTANTS
    alice = alice
    bob = bob
    t1 = t1
    t2 = t2
    NoUser = NoUser
    NoGroup = NoGroup
    NoGroups = NoGroups
    NoSection = NoSection
    NoPolicy = NoPolicy
    Nobody = Nobody
    NoObject = NoObject
    Users <- MCUsers
    Zones <- MCZones
    ZoneOf <- MCZoneOf
    Groups <- MCGroups
    ObjectTypes <- MCTypes
    Operations <- MCOperations
    PolicyNames <- MCPolicyNames
    PolicyTables <- MCDestroyTables
    Threads <- MCThreads
    Clients <- MCClients
    RegisterTypes = {}
    MaskChoices = {{}}
    Barbican = FALSE
    MaxUid = 1
    MaxSecrets = 0
    MaxBatch = 2
SPECIFICATION FairSpec
INVARIANT ServesLockHolder
INVARIANT CreatorOwns
INVARIANT AckedDurable
PROPERTY LockReleased
