\* Every structure but the ones whose methods differ: between two ends of this code,
\* and read from other implementations, one difference each.
CONSTANTS
    Table <- MCTable
    Contents <- MCContents
    Offers <- MCOffers
    Peers = {"omits", "repeats", "reorders", "extends", "rephrases"}
    Convertible <- Encodable
    ToWire <- Encode
    Creatable <- Readable
    FromWire <- Decode
    Kept <- Delivered
    Rephrasings <- Rephrased
    MaxOptions = 1
    ListSizes = {1, 2}
SPECIFICATION Spec
INVARIANT TypeOK
INVARIANT RoundTrip
INVARIANT SentAgrees
INVARIANT WrittenIsReadable
INVARIANT OneReading
CHECK_DEADLOCK FALSE
