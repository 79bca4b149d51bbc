\* A symmetric key is registered while Barbican is enabled.
CONSTANTS
    alice = alice
    bob = bob
    t1 = t1
    t2 = t2
    NoUser = NoUser
    NoGroup = NoGroup
    NoGroups = NoGroups
    NoSection = NoSection
    NoPolicy = NoPolicy
    Nobody = Nobody
    NoObject = NoObject
    Users <- MCUsers
    Zones <- MCZones
    ZoneOf <- MCZoneOf
    Groups <- MCGroups
    ObjectTypes <- MCTypes
    Operations <- MCOperations
    PolicyNames <- MCPolicyNames
    PolicyTables <- MCStaticTable
    Threads = {t1}
    Clients <- MCClients
    RegisterTypes = {"SymmetricKey"}
    MaskChoices = {{"ENCRYPT", "DERIVE_KEY", "WRAP_KEY"}}
    Barbican = TRUE
    MaxUid = 2
    MaxSecrets = 1
    MaxBatch = 2
SPECIFICATION Spec
INVARIANT StoredKeysRetrievable
