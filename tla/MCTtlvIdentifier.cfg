\* Activate and Revoke requests as the client may build them, between two ends of this code.
CONSTANTS
    Table <- MCTable
    Contents <- MCContents
    Offers <- ClientOffers
    Peers = {}
    Convertible <- Encodable
    ToWire <- Encode
    Creatable <- Readable
    FromWire <- Decode
    Kept <- Delivered
    Rephrasings <- Rephrased
    MaxOptions = 1
    ListSizes = {1, 2}
SPECIFICATION Spec
INVARIANT IdentifierIsOptional
CHECK_DEADLOCK FALSE
