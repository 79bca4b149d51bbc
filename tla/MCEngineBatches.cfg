\* Batches of two items over two objects, any client after any other.
CONSTANTS
    alice = alice
    bob = bob
    t1 = t1
    t2 = t2
    NoUser = NoUser
    NoGroup = NoGroup
    NoGroups = NoGroups
    NoSection = NoSection
    NoPolicy = NoPolicy
    Nobody = Nobody
    NoObject = NoObject
    Users <- MCUsers
    Zones <- MCZones
    ZoneOf <- MCZoneOf
    Groups <- MCGroups
    ObjectTypes <- MCTypes
    Operations <- MCOperations
    PolicyNames <- MCPolicyNames
    PolicyTables <- MCStaticTable
    Threads = {t1}
    Clients <- MCClients
    RegisterTypes = {"OpaqueData"}
    MaskChoices = {{"ENCRYPT", "DERIVE_KEY", "WRAP_KEY"}}
    Barbican = TRUE
    MaxUid = 2
    MaxSecrets = 1
    MaxBatch = 2
SPECIFICATION Spec
INVARIANT TypeOK
INVARIANT SecretsResolve
INVARIANT AnswerComplete
PROPERTY RevokedNeverUsed
PROPERTY ChangesAuthorised
PROPERTY ObjectsFixed
PROPERTY ImplementsLifecycle
