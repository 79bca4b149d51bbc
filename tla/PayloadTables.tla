---------------------------- MODULE PayloadTables ----------------------------
(***************************************************************************)
(* The request and response payloads of kmip/core/messages/payloads: one   *)
(* table for each class, translated from its property setters (the tag and *)
(* the type a field is given) and from its read and write methods (order,  *)
(* version guards, what is required).  RekeyKeyPairResponsePayload inherits*)
(* both methods from CreateKeyPairResponsePayload.                         *)
(***************************************************************************)
EXTENDS TtlvRows

\* The tag of the secret that SecretFactory.create makes for an object type.
SecretTag == [Certificate |-> "CERTIFICATE", SymmetricKey |-> "SYMMETRIC_KEY",
              PublicKey |-> "PUBLIC_KEY", PrivateKey |-> "PRIVATE_KEY", SplitKey |-> "SPLIT_KEY",
              Template |-> "TEMPLATE", SecretData |-> "SECRET_DATA", OpaqueObject |-> "OPAQUE_OBJECT"]

Secret(secret, expected) ==
    Differ(As("SECRET", Required(SecretTag[secret], secret)),
           As("SECRET", Required(SecretTag[expected], expected)))

-----------------------------------------------------------------------------
(* messages/payloads/activate.py *)

ActivateRequestPayload == Structure(<<
    Differ(Optional("UNIQUE_IDENTIFIER", "TextString"),
           Required("UNIQUE_IDENTIFIER", "TextString")) >>)

ActivateResponsePayload == Structure(<< Required("UNIQUE_IDENTIFIER", "TextString") >>)

-----------------------------------------------------------------------------
(* messages/payloads/archive.py *)

ArchiveRequestPayload == Structure(<< Optional("UNIQUE_IDENTIFIER", "TextString") >>)

ArchiveResponsePayload == Structure(<< Optional("UNIQUE_IDENTIFIER", "TextString") >>)

-----------------------------------------------------------------------------
(* messages/payloads/cancel.py *)

CancelRequestPayload == Structure(<< Optional("ASYNCHRONOUS_CORRELATION_VALUE", "ByteString") >>)

CancelResponsePayload == Structure(<<
    Optional("ASYNCHRONOUS_CORRELATION_VALUE", "ByteString"),
    Optional("CANCELLATION_RESULT", "Enumeration") >>)

-----------------------------------------------------------------------------
(* messages/payloads/check.py *)

CheckRequestPayload == Structure(<<
    Optional("UNIQUE_IDENTIFIER", "TextString"),
    Optional("USAGE_LIMITS_COUNT", "LongInteger"),
    Optional("CRYPTOGRAPHIC_USAGE_MASK", "Integer"),
    Optional("LEASE_TIME", "Interval") >>)

CheckResponsePayload == Structure(<<
    Optional("UNIQUE_IDENTIFIER", "TextString"),
    Optional("USAGE_LIMITS_COUNT", "LongInteger"),
    Optional("CRYPTOGRAPHIC_USAGE_MASK", "Integer"),
    Optional("LEASE_TIME", "Interval") >>)

-----------------------------------------------------------------------------
(* messages/payloads/create.py *)

CreateRequestPayload == Structure(<<
    Required("OBJECT_TYPE", "Enumeration"),
    Before(20, Required("TEMPLATE_ATTRIBUTE", "TemplateAttribute")),
    AsAttributes("TEMPLATE_ATTRIBUTE", Required("ATTRIBUTES", "Attributes")),
    From(20, Optional("PROTECTION_STORAGE_MASKS", "ProtectionStorageMasks")) >>)

CreateResponsePayload == Structure(<<
    Required("OBJECT_TYPE", "Enumeration"),
    Required("UNIQUE_IDENTIFIER", "TextString"),
    Before(20, Optional("TEMPLATE_ATTRIBUTE", "TemplateAttribute")) >>)

-----------------------------------------------------------------------------
(* messages/payloads/create_key_pair.py *)

CreateKeyPairRequestPayload == Structure(<<
    Before(20, Optional("COMMON_TEMPLATE_ATTRIBUTE", "TemplateAttribute")),
    AsAttributes("COMMON_TEMPLATE_ATTRIBUTE", Optional("COMMON_ATTRIBUTES", "Attributes")),
    Before(20, Optional("PRIVATE_KEY_TEMPLATE_ATTRIBUTE", "TemplateAttribute")),
    AsAttributes("PRIVATE_KEY_TEMPLATE_ATTRIBUTE", Optional("PRIVATE_KEY_ATTRIBUTES", "Attributes")),
    Before(20, Optional("PUBLIC_KEY_TEMPLATE_ATTRIBUTE", "TemplateAttribute")),
    AsAttributes("PUBLIC_KEY_TEMPLATE_ATTRIBUTE", Optional("PUBLIC_KEY_ATTRIBUTES", "Attributes")),
    From(20, Optional("COMMON_PROTECTION_STORAGE_MASKS", "ProtectionStorageMasks")),
    From(20, Optional("PRIVATE_PROTECTION_STORAGE_MASKS", "ProtectionStorageMasks")),
    From(20, Optional("PUBLIC_PROTECTION_STORAGE_MASKS", "ProtectionStorageMasks")) >>)

CreateKeyPairResponsePayload == Structure(<<
    Required("PRIVATE_KEY_UNIQUE_IDENTIFIER", "TextString"),
    Required("PUBLIC_KEY_UNIQUE_IDENTIFIER", "TextString"),
    Differ(Optional("PRIVATE_KEY_TEMPLATE_ATTRIBUTE", "TemplateAttribute"),
           Before(20, Optional("PRIVATE_KEY_TEMPLATE_ATTRIBUTE", "TemplateAttribute"))),
    Differ(Optional("PUBLIC_KEY_TEMPLATE_ATTRIBUTE", "TemplateAttribute"),
           Before(20, Optional("PUBLIC_KEY_TEMPLATE_ATTRIBUTE", "TemplateAttribute"))) >>)

-----------------------------------------------------------------------------
(* messages/payloads/decrypt.py *)

\* Fault: write has no version guard around the fields of authenticated encryption.
DecryptRequestPayloadUnguarded == Structure(<<
    Optional("UNIQUE_IDENTIFIER", "TextString"),
    Optional("CRYPTOGRAPHIC_PARAMETERS", "CryptographicParameters"),
    Required("DATA", "ByteString"),
    Optional("IV_COUNTER_NONCE", "ByteString"),
    Differ(Optional("AUTHENTICATED_ENCRYPTION_ADDITIONAL_DATA", "ByteString"),
           From(14, Optional("AUTHENTICATED_ENCRYPTION_ADDITIONAL_DATA", "ByteString"))),
    Differ(Optional("AUTHENTICATED_ENCRYPTION_TAG", "ByteString"),
           From(14, Optional("AUTHENTICATED_ENCRYPTION_TAG", "ByteString"))) >>)

DecryptRequestPayload == Structure(<<
    Optional("UNIQUE_IDENTIFIER", "TextString"),
    Optional("CRYPTOGRAPHIC_PARAMETERS", "CryptographicParameters"),
    Required("DATA", "ByteString"),
    Optional("IV_COUNTER_NONCE", "ByteString"),
    From(14, Optional("AUTHENTICATED_ENCRYPTION_ADDITIONAL_DATA", "ByteString")),
    From(14, Optional("AUTHENTICATED_ENCRYPTION_TAG", "ByteString")) >>)

DecryptResponsePayload == Structure(<<
    Required("UNIQUE_IDENTIFIER", "TextString"),
    Required("DATA", "ByteString") >>)

-----------------------------------------------------------------------------
(* messages/payloads/delete_attribute.py *)

DeleteAttributeRequestPayload ==
    OneOf({"CURRENT_ATTRIBUTE", "ATTRIBUTE_REFERENCE"}, Structure(<<
        Optional("UNIQUE_IDENTIFIER", "TextString"),
        Before(20, Required("ATTRIBUTE_NAME", "TextString")),
        Before(20, Optional("ATTRIBUTE_INDEX", "Integer")),
        From(20, Optional("CURRENT_ATTRIBUTE", "CurrentAttribute")),
        From(20, Optional("ATTRIBUTE_REFERENCE", "AttributeReference")) >>))

DeleteAttributeResponsePayload == Structure(<<
    Required("UNIQUE_IDENTIFIER", "TextString"),
    Before(20, Required("ATTRIBUTE", "Attribute")) >>)

-----------------------------------------------------------------------------
(* messages/payloads/derive_key.py *)

DeriveKeyRequestPayload == Structure(<<
    Required("OBJECT_TYPE", "Enumeration"),
    AtLeastOne("UNIQUE_IDENTIFIER", "TextString"),
    Required("DERIVATION_METHOD", "Enumeration"),
    Required("DERIVATION_PARAMETERS", "DerivationParameters"),
    Before(20, Required("TEMPLATE_ATTRIBUTE", "TemplateAttribute")),
    AsAttributes("TEMPLATE_ATTRIBUTE", Required("ATTRIBUTES", "Attributes")) >>)

DeriveKeyResponsePayload == Structure(<<
    Required("UNIQUE_IDENTIFIER", "TextString"),
    Before(20, Optional("TEMPLATE_ATTRIBUTE", "TemplateAttribute")) >>)

-----------------------------------------------------------------------------
(* messages/payloads/destroy.py *)

DestroyRequestPayload == Structure(<< Optional("UNIQUE_IDENTIFIER", "TextString") >>)

DestroyResponsePayload == Structure(<< Required("UNIQUE_IDENTIFIER", "TextString") >>)

-----------------------------------------------------------------------------
(* messages/payloads/discover_versions.py *)

DiscoverVersionsRequestPayload == Structure(<< Repeated("PROTOCOL_VERSION", "ProtocolVersion") >>)

DiscoverVersionsResponsePayload == Structure(<< Repeated("PROTOCOL_VERSION", "ProtocolVersion") >>)

-----------------------------------------------------------------------------
(* messages/payloads/encrypt.py *)

EncryptRequestPayload == Structure(<<
    Optional("UNIQUE_IDENTIFIER", "TextString"),
    Optional("CRYPTOGRAPHIC_PARAMETERS", "CryptographicParameters"),
    Required("DATA", "ByteString"),
    Optional("IV_COUNTER_NONCE", "ByteString"),
    From(14, Optional("AUTHENTICATED_ENCRYPTION_ADDITIONAL_DATA", "ByteString")) >>)

EncryptResponsePayload == Structure(<<
    Required("UNIQUE_IDENTIFIER", "TextString"),
    Required("DATA", "ByteString"),
    Optional("IV_COUNTER_NONCE", "ByteString"),
    From(14, Optional("AUTHENTICATED_ENCRYPTION_TAG", "ByteString")) >>)

-----------------------------------------------------------------------------
(* messages/payloads/get.py *)

GetRequestPayload == Structure(<<
    Optional("UNIQUE_IDENTIFIER", "TextString"),
    Optional("KEY_FORMAT_TYPE", "Enumeration"),
    Optional("KEY_COMPRESSION_TYPE", "Enumeration"),
    Optional("KEY_WRAPPING_SPECIFICATION", "KeyWrappingSpecification") >>)

\* write takes any secret; read makes the class that the object type names.
GetResponsePayload(secret, expected) == Structure(<<
    Required("OBJECT_TYPE", "Enumeration"),
    Required("UNIQUE_IDENTIFIER", "TextString"),
    Secret(secret, expected) >>)

-----------------------------------------------------------------------------
(* messages/payloads/get_attribute_list.py *)

GetAttributeListRequestPayload == Structure(<< Optional("UNIQUE_IDENTIFIER", "TextString") >>)

\* Under KMIP 2.0 a name is written as the number of its tag; read also takes a reference
\* with a vendor, and keeps the name alone.
AsReferences(field) ==
    As("ATTRIBUTE_NAME", From(20, Converted("reference",
        Reads({"Enumeration", "AttributeReference"}, field))))

\* Under KMIP 2.0 read does not look whether any name came.
GetAttributeListResponsePayload == Structure(<<
    Required("UNIQUE_IDENTIFIER", "TextString"),
    Before(20, AtLeastOne("ATTRIBUTE_NAME", "TextString")),
    AsReferences(Differ(AtLeastOne("ATTRIBUTE_REFERENCE", "Enumeration"),
                        Repeated("ATTRIBUTE_REFERENCE", "Enumeration"))) >>)

-----------------------------------------------------------------------------
(* messages/payloads/get_attributes.py *)

GetAttributesRequestPayload == Structure(<<
    Optional("UNIQUE_IDENTIFIER", "TextString"),
    Before(20, Repeated("ATTRIBUTE_NAME", "TextString")),
    AsReferences(Repeated("ATTRIBUTE_REFERENCE", "Enumeration")) >>)

\* From KMIP 2.0 on the list of attributes is one structure, and one content of the slot.
GetAttributesResponsePayload == Structure(<<
    Required("UNIQUE_IDENTIFIER", "TextString"),
    Before(20, Repeated("ATTRIBUTE", "Attribute")),
    AsAttributes("ATTRIBUTE", Required("ATTRIBUTES", "Attributes")) >>)

-----------------------------------------------------------------------------
(* messages/payloads/get_usage_allocation.py *)

GetUsageAllocationRequestPayload == Structure(<<
    Optional("UNIQUE_IDENTIFIER", "TextString"),
    Optional("USAGE_LIMITS_COUNT", "LongInteger") >>)

GetUsageAllocationResponsePayload == Structure(<< Optional("UNIQUE_IDENTIFIER", "TextString") >>)

-----------------------------------------------------------------------------
(* messages/payloads/locate.py *)

\* From KMIP 2.0 on the list of attributes is one structure, and one content of the slot.
LocateRequestPayload == Open(Structure(<<
    Optional("MAXIMUM_ITEMS", "Integer"),
    Optional("OFFSET_ITEMS", "Integer"),
    Optional("STORAGE_STATUS_MASK", "Integer"),
    Optional("OBJECT_GROUP_MEMBER", "Enumeration"),
    Before(20, Repeated("ATTRIBUTE", "Attribute")),
    AsAttributes("ATTRIBUTE", Optional("ATTRIBUTES", "Attributes")) >>))

LocateResponsePayload == Structure(<<
    Optional("LOCATED_ITEMS", "Integer"),
    Repeated("UNIQUE_IDENTIFIER", "TextString") >>)

-----------------------------------------------------------------------------
(* messages/payloads/mac.py *)

MACRequestPayload == Structure(<<
    Optional("UNIQUE_IDENTIFIER", "TextString"),
    Optional("CRYPTOGRAPHIC_PARAMETERS", "CryptographicParameters"),
    Required("DATA", "ByteString") >>)

MACResponsePayload == Structure(<<
    Required("UNIQUE_IDENTIFIER", "TextString"),
    Required("MAC_DATA", "ByteString") >>)

-----------------------------------------------------------------------------
(* messages/payloads/modify_attribute.py *)

ModifyAttributeRequestPayload == Structure(<<
    Optional("UNIQUE_IDENTIFIER", "TextString"),
    Before(20, Required("ATTRIBUTE", "Attribute")),
    From(20, Optional("CURRENT_ATTRIBUTE", "CurrentAttribute")),
    From(20, Required("NEW_ATTRIBUTE", "NewAttribute")) >>)

ModifyAttributeResponsePayload == Structure(<<
    Required("UNIQUE_IDENTIFIER", "TextString"),
    Before(20, Required("ATTRIBUTE", "Attribute")) >>)

-----------------------------------------------------------------------------
(* messages/payloads/obtain_lease.py *)

ObtainLeaseRequestPayload == Structure(<< Optional("UNIQUE_IDENTIFIER", "TextString") >>)

ObtainLeaseResponsePayload == Structure(<<
    Optional("UNIQUE_IDENTIFIER", "TextString"),
    Optional("LEASE_TIME", "Interval"),
    Optional("LAST_CHANGE_DATE", "DateTime") >>)

-----------------------------------------------------------------------------
(* messages/payloads/poll.py *)

PollRequestPayload == Structure(<< Optional("ASYNCHRONOUS_CORRELATION_VALUE", "ByteString") >>)

-----------------------------------------------------------------------------
(* messages/payloads/query.py *)

QueryRequestPayload == Structure(<< AtLeastOne("QUERY_FUNCTION", "Enumeration") >>)

QueryResponsePayload == Structure(<<
    Repeated("OPERATION", "Enumeration"),
    Repeated("OBJECT_TYPE", "Enumeration"),
    Optional("VENDOR_IDENTIFICATION", "TextString"),
    Optional("SERVER_INFORMATION", "ServerInformation"),
    Repeated("APPLICATION_NAMESPACE", "TextString"),
    From(11, Repeated("EXTENSION_INFORMATION", "ExtensionInformation")),
    From(12, Repeated("ATTESTATION_TYPE", "Enumeration")),
    From(13, Repeated("RNG_PARAMETERS", "RNGParameters")),
    From(13, Repeated("PROFILE_INFORMATION", "ProfileInformation")),
    From(13, Repeated("VALIDATION_INFORMATION", "ValidationInformation")),
    From(13, Repeated("CAPABILITY_INFORMATION", "CapabilityInformation")),
    From(13, Repeated("CLIENT_REGISTRATION_METHOD", "Enumeration")),
    From(20, Optional("DEFAULTS_INFORMATION", "DefaultsInformation")),
    From(20, Repeated("PROTECTION_STORAGE_MASK", "Integer")) >>)

-----------------------------------------------------------------------------
(* messages/payloads/recover.py *)

RecoverRequestPayload == Structure(<< Optional("UNIQUE_IDENTIFIER", "TextString") >>)

RecoverResponsePayload == Structure(<< Optional("UNIQUE_IDENTIFIER", "TextString") >>)

-----------------------------------------------------------------------------
(* messages/payloads/register.py *)

\* write takes any managed object; read makes the class that the object type names.
RegisterRequestPayload(secret, expected) == Structure(<<
    Required("OBJECT_TYPE", "Enumeration"),
    Before(20, Required("TEMPLATE_ATTRIBUTE", "TemplateAttribute")),
    AsAttributes("TEMPLATE_ATTRIBUTE", Required("ATTRIBUTES", "Attributes")),
    Secret(secret, expected),
    From(20, Optional("PROTECTION_STORAGE_MASKS", "ProtectionStorageMasks")) >>)

\* Fault: read asks for the template attribute that write leaves out.
RegisterResponsePayloadTemplate == Structure(<<
    Required("UNIQUE_IDENTIFIER", "TextString"),
    Before(20, Differ(Optional("TEMPLATE_ATTRIBUTE", "TemplateAttribute"),
                      Required("TEMPLATE_ATTRIBUTE", "TemplateAttribute"))) >>)

RegisterResponsePayload == Structure(<<
    Required("UNIQUE_IDENTIFIER", "TextString"),
    Before(20, Optional("TEMPLATE_ATTRIBUTE", "TemplateAttribute")) >>)

-----------------------------------------------------------------------------
(* messages/payloads/rekey.py *)

RekeyRequestPayload == Structure(<<
    Optional("UNIQUE_IDENTIFIER", "TextString"),
    Optional("OFFSET", "Interval"),
    Optional("TEMPLATE_ATTRIBUTE", "TemplateAttribute") >>)

RekeyResponsePayload == Structure(<<
    Required("UNIQUE_IDENTIFIER", "TextString"),
    Optional("TEMPLATE_ATTRIBUTE", "TemplateAttribute") >>)

-----------------------------------------------------------------------------
(* messages/payloads/rekey_key_pair.py *)

RekeyKeyPairRequestPayload == Structure(<<
    Optional("PRIVATE_KEY_UNIQUE_IDENTIFIER", "TextString"),
    Optional("OFFSET", "Interval"),
    Optional("COMMON_TEMPLATE_ATTRIBUTE", "CommonTemplateAttribute"),
    Optional("PRIVATE_KEY_TEMPLATE_ATTRIBUTE", "PrivateKeyTemplateAttribute"),
    Optional("PUBLIC_KEY_TEMPLATE_ATTRIBUTE", "PublicKeyTemplateAttribute") >>)

-----------------------------------------------------------------------------
(* messages/payloads/revoke.py *)

RevokeRequestPayload == Structure(<<
    Differ(Optional("UNIQUE_IDENTIFIER", "TextString"),
           Required("UNIQUE_IDENTIFIER", "TextString")),
    Required("REVOCATION_REASON", "RevocationReason"),
    Optional("COMPROMISE_OCCURRENCE_DATE", "DateTime") >>)

RevokeResponsePayload == Structure(<< Required("UNIQUE_IDENTIFIER", "TextString") >>)

-----------------------------------------------------------------------------
(* messages/payloads/set_attribute.py *)

SetAttributeRequestPayload == Since(20, Structure(<<
    Optional("UNIQUE_IDENTIFIER", "TextString"),
    Required("NEW_ATTRIBUTE", "NewAttribute") >>))

SetAttributeResponsePayload ==
    Since(20, Structure(<< Required("UNIQUE_IDENTIFIER", "TextString") >>))

-----------------------------------------------------------------------------
(* messages/payloads/sign.py *)

SignRequestPayload == Open(Structure(<<
    Optional("UNIQUE_IDENTIFIER", "TextString"),
    Optional("CRYPTOGRAPHIC_PARAMETERS", "CryptographicParameters"),
    Required("DATA", "ByteString") >>))

SignResponsePayload == Open(Structure(<<
    Required("UNIQUE_IDENTIFIER", "TextString"),
    Required("SIGNATURE_DATA", "ByteString") >>))

-----------------------------------------------------------------------------
(* messages/payloads/signature_verify.py *)

SignatureVerifyRequestPayload == Structure(<<
    Optional("UNIQUE_IDENTIFIER", "TextString"),
    Optional("CRYPTOGRAPHIC_PARAMETERS", "CryptographicParameters"),
    Optional("DATA", "ByteString"),
    Optional("DIGESTED_DATA", "ByteString"),
    Optional("SIGNATURE_DATA", "ByteString"),
    Optional("CORRELATION_VALUE", "ByteString"),
    Optional("INIT_INDICATOR", "Boolean"),
    Optional("FINAL_INDICATOR", "Boolean") >>)

SignatureVerifyResponsePayload == Structure(<<
    Required("UNIQUE_IDENTIFIER", "TextString"),
    Required("VALIDITY_INDICATOR", "Enumeration"),
    Optional("DATA", "ByteString"),
    Optional("CORRELATION_VALUE", "ByteString") >>)

=============================================================================
