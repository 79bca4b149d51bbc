------------------------------- MODULE MCTtlv -------------------------------
(***************************************************************************)
(* The structures of kmip/core as TLC exchanges them: the tables by name,  *)
(* and for each the objects a writer may hold.                             *)
(***************************************************************************)
EXTENDS TtlvStructure, PayloadTables, ObjectTables, AttributeStyles, TLC

CONSTANTS MaxOptions,  \* how many optional fields are set, or how many are not
          ListSizes    \* how many items a list has

-----------------------------------------------------------------------------
(* Tables.  A structure that depends on a value in it has an entry for it.  *)

Requests == [
    ArchiveRequestPayload |-> ArchiveRequestPayload,
    CancelRequestPayload |-> CancelRequestPayload, CheckRequestPayload |-> CheckRequestPayload,
    CreateRequestPayload |-> CreateRequestPayload,
    CreateKeyPairRequestPayload |-> CreateKeyPairRequestPayload,
    DecryptRequestPayload |-> DecryptRequestPayload,
    DeleteAttributeRequestPayload |-> DeleteAttributeRequestPayload,
    DeriveKeyRequestPayload |-> DeriveKeyRequestPayload,
    DestroyRequestPayload |-> DestroyRequestPayload,
    DiscoverVersionsRequestPayload |-> DiscoverVersionsRequestPayload,
    EncryptRequestPayload |-> EncryptRequestPayload, GetRequestPayload |-> GetRequestPayload,
    GetAttributeListRequestPayload |-> GetAttributeListRequestPayload,
    GetAttributesRequestPayload |-> GetAttributesRequestPayload,
    GetUsageAllocationRequestPayload |-> GetUsageAllocationRequestPayload,
    MACRequestPayload |-> MACRequestPayload,
    ModifyAttributeRequestPayload |-> ModifyAttributeRequestPayload,
    ObtainLeaseRequestPayload |-> ObtainLeaseRequestPayload,
    PollRequestPayload |-> PollRequestPayload, QueryRequestPayload |-> QueryRequestPayload,
    RecoverRequestPayload |-> RecoverRequestPayload,
    RegisterRequestPayload |-> RegisterRequestPayload("PrivateKey", "PrivateKey"),
    RekeyRequestPayload |-> RekeyRequestPayload,
    RekeyKeyPairRequestPayload |-> RekeyKeyPairRequestPayload,
    SetAttributeRequestPayload |-> SetAttributeRequestPayload,
    SignatureVerifyRequestPayload |-> SignatureVerifyRequestPayload]

Answers == [
    ActivateResponsePayload |-> ActivateResponsePayload,
    ArchiveResponsePayload |-> ArchiveResponsePayload,
    CancelResponsePayload |-> CancelResponsePayload,
    CheckResponsePayload |-> CheckResponsePayload,
    CreateResponsePayload |-> CreateResponsePayload,
    DecryptResponsePayload |-> DecryptResponsePayload,
    DeleteAttributeResponsePayload |-> DeleteAttributeResponsePayload,
    DeriveKeyResponsePayload |-> DeriveKeyResponsePayload,
    DestroyResponsePayload |-> DestroyResponsePayload,
    DiscoverVersionsResponsePayload |-> DiscoverVersionsResponsePayload,
    EncryptResponsePayload |-> EncryptResponsePayload,
    GetResponsePayload |-> GetResponsePayload("SymmetricKey", "SymmetricKey"),
    GetAttributeListResponsePayload |-> GetAttributeListResponsePayload,
    GetAttributesResponsePayload |-> GetAttributesResponsePayload,
    GetUsageAllocationResponsePayload |-> GetUsageAllocationResponsePayload,
    LocateResponsePayload |-> LocateResponsePayload, MACResponsePayload |-> MACResponsePayload,
    ModifyAttributeResponsePayload |-> ModifyAttributeResponsePayload,
    ObtainLeaseResponsePayload |-> ObtainLeaseResponsePayload,
    QueryResponsePayload |-> QueryResponsePayload,
    RecoverResponsePayload |-> RecoverResponsePayload,
    RegisterResponsePayload |-> RegisterResponsePayload,
    RekeyResponsePayload |-> RekeyResponsePayload,
    RevokeResponsePayload |-> RevokeResponsePayload,
    SetAttributeResponsePayload |-> SetAttributeResponsePayload,
    SignatureVerifyResponsePayload |-> SignatureVerifyResponsePayload]

Objects == [
    Attribute |-> Attribute("TextString", "TextString"), CurrentAttribute |-> CurrentAttribute,
    NewAttribute |-> NewAttribute, AttributeReference |-> AttributeReference,
    Attributes |-> Attributes, Nonce |-> Nonce,
    UsernamePasswordCredential |-> UsernamePasswordCredential,
    DeviceCredential |-> DeviceCredential, AttestationCredential |-> AttestationCredential,
    Credential |-> Credential("DeviceCredential", "DeviceCredential"), KeyBlock |-> KeyBlock,
    KeyValue |-> KeyValue("KeyMaterialStruct"),
    EncryptionKeyInformation |-> EncryptionKeyInformation,
    MACSignatureKeyInformation |-> MACSignatureKeyInformation,
    KeyWrappingData |-> KeyWrappingData, KeyWrappingSpecification |-> KeyWrappingSpecification,
    TemplateAttribute |-> TemplateAttribute, ExtensionInformation |-> ExtensionInformation,
    RevocationReason |-> RevocationReason, ObjectDefaults |-> ObjectDefaults,
    DefaultsInformation |-> DefaultsInformation, RNGParameters |-> RNGParameters,
    ProfileInformation |-> ProfileInformation, ValidationInformation |-> ValidationInformation,
    ProtectionStorageMasks |-> ProtectionStorageMasks, Name |-> Name,
    CryptographicParameters |-> CryptographicParameters, Digest |-> Digest,
    ApplicationSpecificInformation |-> ApplicationSpecificInformation,
    DerivationParameters |-> DerivationParameters, Certificate |-> Certificate,
    KeyBlockKey |-> KeyBlockKey, SplitKey |-> SplitKey("POLYNOMIAL_SHARING_PRIME_FIELD"),
    SplitKey2 |-> SplitKey("XOR"), SecretData |-> SecretData, OpaqueObject |-> OpaqueObject,
    RequestHeader |-> RequestHeader, ResponseHeader |-> ResponseHeader,
    RequestBatchItem |-> RequestBatchItem("GetRequestPayload", "GetRequestPayload"),
    ResponseBatchItem |-> ResponseBatchItem(TRUE), ProtocolVersion |-> ProtocolVersion,
    Authentication |-> Authentication]

\* Structures whose read methods do not end with is_oversized.
OpenEnded == [
    LocateRequestPayload |-> LocateRequestPayload, SignRequestPayload |-> SignRequestPayload,
    SignResponsePayload |-> SignResponsePayload]

\* Messages of one batch item and of two.
Messages == [
    RequestMessage |-> RequestMessage(1), RequestMessage2 |-> RequestMessage(2),
    ResponseMessage |-> ResponseMessage(1), ResponseMessage2 |-> ResponseMessage(2)]

\* Requests that the client builds without an identifier and the server does not read so.
Identified == [
    ActivateRequestPayload |-> ActivateRequestPayload,
    RevokeRequestPayload |-> RevokeRequestPayload]

\* Structures whose two methods do not agree on a field.
Unlike == [
    CreateKeyPairResponsePayload |-> CreateKeyPairResponsePayload,
    CapabilityInformation |-> CapabilityInformation, Template |-> Template,
    MessageExtension |-> MessageExtension]

MCTable == Requests @@ Answers @@ Objects @@ OpenEnded @@ Messages @@ Identified @@ Unlike

-----------------------------------------------------------------------------
(* Objects to write.                                                        *)

Ends(t) == {t.fields[i].write : i \in DOMAIN t.fields}

VersionsOf(t) == {10} \cup ChangePoints(t)

\* Nearly nothing is set beyond what the writer asks for, or nearly everything.
FewOf(slots) == {{}} \cup UNION {{{a, b} : b \in IF MaxOptions = 1 THEN {a} ELSE slots} : a \in slots}

FilledSlots(t) ==
    LET slots == Slots(t)
        needed == {e.slot : e \in {f \in Ends(t) : f.min > 0}}
        few == FewOf(slots)
    IN {needed \cup q : q \in few} \cup {slots \ q : q \in few}

\* What the methods do with a slot in version v, or in others if they pass over it.
EndsOf(t, v, slot) ==
    LET ends == {e \in Ends(t) : e.slot = slot}
        now == {e \in ends : In(v, e)}
    IN IF now = {} THEN ends ELSE now

IsList(t, v, slot) == \E e \in EndsOf(t, v, slot) : e.max > 1

\* Structures that hold one attribute or its name; the others that hold attributes have two.
OneAttribute == {"Attribute", "AttributeValue", "NewAttribute", "CurrentAttribute", "TextString"}

\* The k-th content of a slot with attribute a in it.  A field that is converted holds what
\* it does before the conversion.
ContentOf(t, v, slot, k, a) ==
    LET ends == EndsOf(t, v, slot)
        forms == {e.form : e \in ends}
        attributes == IF \E e \in ends : e.type \in OneAttribute THEN <<a>> ELSE <<"State", a>>
    IN CASE forms = {"plain"} -> [value |-> <<slot, k>>, attributes |-> << >>, beside |-> {}]
         [] forms = {"tagged"} ->
                [value |-> <<slot, k>>, attributes |-> Tagged(attributes), beside |-> {}]
         [] "reference" \in forms ->
                [value |-> <<slot, k>>, attributes |-> attributes, beside |-> {}]
         [] OTHER ->
                [value |-> <<slot, k>>, attributes |-> attributes,
                 beside |-> IF Len(attributes) = 1 THEN {"index"} ELSE {"index", "names"}]

\* The attributes to look at, where there is one.
AttributesFor(t) ==
    LET forms == {e.form : e \in Ends(t)}
    IN IF forms = {"plain"} THEN {"State"}
       ELSE IF "tagged" \in forms THEN DOMAIN attribute_name_tag_table ELSE AttributeNames

OffersOf(t) ==
    LET slots == Slots(t)
        Holding(v, filled, size, a) ==
            [slot \in slots |->
                IF slot \notin filled THEN << >>
                ELSE [k \in 1..(IF IsList(t, v, slot) THEN size ELSE 1) |->
                         ContentOf(t, v, slot, k, a)]]
        held(v) == {Holding(v, filled, size, "State") : filled \in FilledSlots(t), size \in ListSizes}
                       \cup {Holding(v, slots, size, a) : size \in ListSizes, a \in AttributesFor(t)}
    IN UNION {{[version |-> v, value |-> h] : h \in held(v)} : v \in VersionsOf(t) \ {Never}}

OffersTo(names) == [n \in names |-> OffersOf(MCTable[n])]

\* The header of a message counts its items.
OffersOfMessages ==
    [n \in DOMAIN Messages |->
        {o \in OffersOf(MCTable[n]) : Len(o.value["BATCH_ITEM"]) = MCTable[n].fields[2].read.max}]

\* Activate and Revoke name the object.
OffersIdentified ==
    [n \in DOMAIN Identified |-> {o \in OffersOf(MCTable[n]) : o.value["UNIQUE_IDENTIFIER"] # << >>}]

MCOffers ==
    OffersOfMessages @@ OffersIdentified
        @@ OffersTo(DOMAIN Requests \cup DOMAIN Answers \cup DOMAIN Objects \cup DOMAIN OpenEnded)

\* Activate and Revoke as the client offers them, with and without an identifier.
ClientOffers == OffersTo(DOMAIN Identified)

AttributeLabels == AttributeNames \cup {attribute_name_tag_table[n] : n \in DOMAIN attribute_name_tag_table}

MCContents ==
    [value : STRING \X ListSizes, attributes : Seq(AttributeLabels),
     beside : SUBSET {"names", "index"}]

\* The identifier of the object to activate or revoke is optional (docs/source/client.rst:
\* "uid ... Optional, defaults to None"): a request without one is not refused for it.
IdentifierIsOptional ==
    stage = "refused" /\ ~altered => given["UNIQUE_IDENTIFIER"] # << >>

=============================================================================
