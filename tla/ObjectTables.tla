---------------------------- MODULE ObjectTables -----------------------------
(***************************************************************************)
(* The structures that payloads are made of and the messages they travel   *)
(* in: kmip/core/objects.py, attributes.py, secrets.py and                 *)
(* messages/messages.py, contents.py, one table for each class, from its   *)
(* setters and its read and write methods.                                 *)
(***************************************************************************)
EXTENDS TtlvRows

\* Any tag for which enums.is_attribute holds under the version.
AnyAttribute == "ATTRIBUTE_TAG"

-----------------------------------------------------------------------------
(* objects.py *)

\* write takes any value; read makes the class that the attribute name stands for.
Attribute(value, expected) == Structure(<<
    Required("ATTRIBUTE_NAME", "TextString"),
    Optional("ATTRIBUTE_INDEX", "Integer"),
    Converted("named", Reads({expected}, Required("ATTRIBUTE_VALUE", value))) >>)

CurrentAttribute == Since(20, Structure(<< Required(AnyAttribute, "AttributeValue") >>))

NewAttribute == Since(20, Structure(<< Required(AnyAttribute, "AttributeValue") >>))

AttributeReference == Since(20, Structure(<<
    Required("VENDOR_IDENTIFICATION", "TextString"),
    Required("ATTRIBUTE_NAME", "TextString") >>))

Attributes == Since(20, Structure(<< Repeated(AnyAttribute, "AttributeValue") >>))

Nonce == Structure(<<
    Required("NONCE_ID", "ByteString"),
    Required("NONCE_VALUE", "ByteString") >>)

UsernamePasswordCredential == Structure(<<
    Required("USERNAME", "TextString"),
    Optional("PASSWORD", "TextString") >>)

DeviceCredential == Structure(<<
    Optional("DEVICE_SERIAL_NUMBER", "TextString"),
    Optional("PASSWORD", "TextString"),
    Optional("DEVICE_IDENTIFIER", "TextString"),
    Optional("NETWORK_IDENTIFIER", "TextString"),
    Optional("MACHINE_IDENTIFIER", "TextString"),
    Optional("MEDIA_IDENTIFIER", "TextString") >>)

AttestationCredential == OneOf({"ATTESTATION_MEASUREMENT", "ATTESTATION_ASSERTION"}, Structure(<<
    Required("NONCE", "Nonce"),
    Required("ATTESTATION_TYPE", "Enumeration"),
    Optional("ATTESTATION_MEASUREMENT", "ByteString"),
    Optional("ATTESTATION_ASSERTION", "ByteString") >>))

\* write takes any credential value; read makes the class that the type names.
Credential(value, expected) == Structure(<<
    Required("CREDENTIAL_TYPE", "Enumeration"),
    Reads({expected}, Required("CREDENTIAL_VALUE", value)) >>)

KeyBlock == Structure(<<
    Required("KEY_FORMAT_TYPE", "Enumeration"),
    Optional("KEY_COMPRESSION_TYPE", "Enumeration"),
    Required("KEY_VALUE", "KeyValue"),
    Optional("CRYPTOGRAPHIC_ALGORITHM", "Enumeration"),
    Optional("CRYPTOGRAPHIC_LENGTH", "Integer"),
    Optional("KEY_WRAPPING_DATA", "KeyWrappingData") >>)

\* read looks at the type of the item to tell raw key material from a structure.
KeyValue(material) == Structure(<<
    Reads({"ByteString", "KeyMaterialStruct"}, Required("KEY_MATERIAL", material)),
    Repeated("ATTRIBUTE", "Attribute") >>)

EncryptionKeyInformation == Structure(<<
    Required("UNIQUE_IDENTIFIER", "TextString"),
    Optional("CRYPTOGRAPHIC_PARAMETERS", "CryptographicParameters") >>)

MACSignatureKeyInformation == Structure(<<
    Required("UNIQUE_IDENTIFIER", "TextString"),
    Optional("CRYPTOGRAPHIC_PARAMETERS", "CryptographicParameters") >>)

KeyWrappingData == Structure(<<
    Required("WRAPPING_METHOD", "Enumeration"),
    Optional("ENCRYPTION_KEY_INFORMATION", "EncryptionKeyInformation"),
    Optional("MAC_SIGNATURE_KEY_INFORMATION", "MACSignatureKeyInformation"),
    Optional("MAC_SIGNATURE", "ByteString"),
    Optional("IV_COUNTER_NONCE", "ByteString"),
    Optional("ENCODING_OPTION", "Enumeration") >>)

KeyWrappingSpecification == Structure(<<
    Required("WRAPPING_METHOD", "Enumeration"),
    Optional("ENCRYPTION_KEY_INFORMATION", "EncryptionKeyInformation"),
    Optional("MAC_SIGNATURE_KEY_INFORMATION", "MACSignatureKeyInformation"),
    Repeated("ATTRIBUTE_NAME", "TextString"),
    Optional("ENCODING_OPTION", "Enumeration") >>)

TemplateAttribute == Structure(<<
    Repeated("NAME", "Name"),
    Repeated("ATTRIBUTE", "Attribute") >>)

ExtensionInformation == Structure(<<
    Required("EXTENSION_NAME", "TextString"),
    Optional("EXTENSION_TAG", "Integer"),
    Optional("EXTENSION_TYPE", "Integer") >>)

RevocationReason == Structure(<<
    Required("REVOCATION_REASON_CODE", "Enumeration"),
    Optional("REVOCATION_MESSAGE", "TextString") >>)

ObjectDefaults == Since(20, Structure(<<
    Required("OBJECT_TYPE", "Enumeration"),
    Required("ATTRIBUTES", "Attributes") >>))

DefaultsInformation == Since(20, Structure(<< AtLeastOne("OBJECT_DEFAULTS", "ObjectDefaults") >>))

RNGParameters == Since(13, Structure(<<
    Required("RNG_ALGORITHM", "Enumeration"),
    Optional("CRYPTOGRAPHIC_ALGORITHM", "Enumeration"),
    Optional("CRYPTOGRAPHIC_LENGTH", "Integer"),
    Optional("HASHING_ALGORITHM", "Enumeration"),
    Optional("DRBG_ALGORITHM", "Enumeration"),
    Optional("RECOMMENDED_CURVE", "Enumeration"),
    Optional("FIPS186_VARIATION", "Enumeration"),
    Optional("PREDICTION_RESISTANCE", "Boolean") >>))

ProfileInformation == Since(13, Structure(<<
    Required("PROFILE_NAME", "Enumeration"),
    Optional("SERVER_URI", "TextString"),
    Optional("SERVER_PORT", "Integer") >>))

ValidationInformation == Since(13, Structure(<<
    Required("VALIDATION_AUTHORITY_TYPE", "Enumeration"),
    Optional("VALIDATION_AUTHORITY_COUNTRY", "TextString"),
    Optional("VALIDATION_AUTHORITY_URI", "TextString"),
    Required("VALIDATION_VERSION_MAJOR", "Integer"),
    Optional("VALIDATION_VERSION_MINOR", "Integer"),
    Required("VALIDATION_TYPE", "Enumeration"),
    Required("VALIDATION_LEVEL", "Integer"),
    Optional("VALIDATION_CERTIFICATE_IDENTIFIER", "TextString"),
    Optional("VALIDATION_CERTIFICATE_URI", "TextString"),
    Optional("VALIDATION_VENDOR_URI", "TextString"),
    Repeated("VALIDATION_PROFILE", "TextString") >>))

CapabilityInformation == Since(13, Structure(<<
    Optional("STREAMING_CAPABILITY", "Boolean"),
    Optional("ASYNCHRONOUS_CAPABILITY", "Boolean"),
    Optional("ATTESTATION_CAPABILITY", "Boolean"),
    Differ(From(14, Optional("BATCH_UNDO_CAPABILITY", "Boolean")),
           As("BATCH_CONTINUE_CAPABILITY", From(14, Optional("BATCH_UNDO_CAPABILITY", "Boolean")))),
    From(14, Optional("BATCH_CONTINUE_CAPABILITY", "Boolean")),
    Optional("UNWRAP_MODE", "Enumeration"),
    Optional("DESTROY_ACTION", "Enumeration"),
    Optional("SHREDDING_ALGORITHM", "Enumeration"),
    Optional("RNG_MODE", "Enumeration") >>))

ProtectionStorageMasks == Since(20, Structure(<< Repeated("PROTECTION_STORAGE_MASK", "Integer") >>))

-----------------------------------------------------------------------------
(* attributes.py *)

Name == Structure(<<
    Required("NAME_VALUE", "TextString"),
    Required("NAME_TYPE", "Enumeration") >>)

CryptographicParameters == Structure(<<
    Optional("BLOCK_CIPHER_MODE", "Enumeration"),
    Optional("PADDING_METHOD", "Enumeration"),
    Optional("HASHING_ALGORITHM", "Enumeration"),
    Optional("KEY_ROLE_TYPE", "Enumeration"),
    Optional("DIGITAL_SIGNATURE_ALGORITHM", "Enumeration"),
    Optional("CRYPTOGRAPHIC_ALGORITHM", "Enumeration"),
    Optional("RANDOM_IV", "Boolean"),
    Optional("IV_LENGTH", "Integer"),
    Optional("TAG_LENGTH", "Integer"),
    Optional("FIXED_FIELD_LENGTH", "Integer"),
    Optional("INVOCATION_FIELD_LENGTH", "Integer"),
    Optional("COUNTER_LENGTH", "Integer"),
    Optional("INITIAL_COUNTER_VALUE", "Integer") >>)

Digest == Structure(<<
    Required("HASHING_ALGORITHM", "Enumeration"),
    Required("DIGEST_VALUE", "ByteString"),
    Required("KEY_FORMAT_TYPE", "Enumeration") >>)

ApplicationSpecificInformation == Structure(<<
    Required("APPLICATION_NAMESPACE", "TextString"),
    Required("APPLICATION_DATA", "TextString") >>)

DerivationParameters == Structure(<<
    Optional("CRYPTOGRAPHIC_PARAMETERS", "CryptographicParameters"),
    Optional("INITIALIZATION_VECTOR", "ByteString"),
    Optional("DERIVATION_DATA", "ByteString"),
    Optional("SALT", "ByteString"),
    Optional("ITERATION_COUNT", "Integer") >>)

-----------------------------------------------------------------------------
(* secrets.py *)

Certificate == Structure(<<
    Required("CERTIFICATE_TYPE", "Enumeration"),
    Required("CERTIFICATE_VALUE", "ByteString") >>)

KeyBlockKey == Structure(<< Required("KEY_BLOCK", "KeyBlock") >>)

\* The prime field size is required by one of the split key methods.
SplitKey(method) == Structure(<<
    Required("SPLIT_KEY_PARTS", "Integer"),
    Required("KEY_PART_IDENTIFIER", "Integer"),
    Required("SPLIT_KEY_THRESHOLD", "Integer"),
    Required("SPLIT_KEY_METHOD", "Enumeration"),
    IF method = "POLYNOMIAL_SHARING_PRIME_FIELD"
    THEN Required("PRIME_FIELD_SIZE", "BigInteger") ELSE Optional("PRIME_FIELD_SIZE", "BigInteger"),
    Required("KEY_BLOCK", "KeyBlock") >>)

\* read takes a first attribute without looking for its tag; write accepts an empty list.
Template == Structure(<<
    Differ(Repeated("ATTRIBUTE", "Attribute"), AtLeastOne("ATTRIBUTE", "Attribute")) >>)

SecretData == Structure(<<
    Required("SECRET_DATA_TYPE", "Enumeration"),
    Required("KEY_BLOCK", "KeyBlock") >>)

OpaqueObject == Structure(<<
    Required("OPAQUE_DATA_TYPE", "Enumeration"),
    Required("OPAQUE_DATA_VALUE", "ByteString") >>)

-----------------------------------------------------------------------------
(* messages/messages.py *)

RequestHeader == Structure(<<
    Required("PROTOCOL_VERSION", "ProtocolVersion"),
    Optional("MAXIMUM_RESPONSE_SIZE", "Integer"),
    Optional("ASYNCHRONOUS_INDICATOR", "Boolean"),
    Optional("AUTHENTICATION", "Authentication"),
    Optional("BATCH_ERROR_CONTINUATION_OPTION", "Enumeration"),
    Optional("BATCH_ORDER_OPTION", "Boolean"),
    Optional("TIME_STAMP", "DateTime"),
    Required("BATCH_COUNT", "Integer") >>)

\* The server correlation value is read and never written.
ResponseHeader == Structure(<<
    Required("PROTOCOL_VERSION", "ProtocolVersion"),
    Required("TIME_STAMP", "DateTime"),
    From(20, Optional("SERVER_HASHED_PASSWORD", "ByteString")),
    ReadOnly(Optional("SERVER_CORRELATION_VALUE", "TextString")),
    Required("BATCH_COUNT", "Integer") >>)

\* write takes any payload; read makes the class that the operation names.
RequestBatchItem(payload, expected) == Structure(<<
    Required("OPERATION", "Enumeration"),
    From(20, Optional("EPHEMERAL", "Boolean")),
    Optional("UNIQUE_BATCH_ITEM_ID", "ByteString"),
    Reads({expected}, Required("REQUEST_PAYLOAD", payload)),
    Optional("MESSAGE_EXTENSION", "MessageExtension") >>)

\* read looks for a payload only when the item names its operation.
ResponseBatchItem(named) == Structure(<<
    IF named THEN Required("OPERATION", "Enumeration") ELSE Absent("OPERATION", "Enumeration"),
    Optional("UNIQUE_BATCH_ITEM_ID", "ByteString"),
    Required("RESULT_STATUS", "Enumeration"),
    Optional("RESULT_REASON", "Enumeration"),
    Optional("RESULT_MESSAGE", "TextString"),
    Optional("ASYNCHRONOUS_CORRELATION_VALUE", "ByteString"),
    Differ(Optional("RESPONSE_PAYLOAD", "ResponsePayload"),
           IF named THEN Optional("RESPONSE_PAYLOAD", "ResponsePayload")
                    ELSE Absent("RESPONSE_PAYLOAD", "ResponsePayload")),
    Optional("MESSAGE_EXTENSION", "MessageExtension") >>)

\* read takes as many batch items as the header says and looks no further.
RequestMessage(batchCount) == Open(Structure(<<
    Required("REQUEST_HEADER", "RequestHeader"),
    Differ(Repeated("BATCH_ITEM", "RequestBatchItem"),
           Times(batchCount, "BATCH_ITEM", "RequestBatchItem")) >>))

\* read takes as many batch items as the header says and looks no further.
ResponseMessage(batchCount) == Open(Structure(<<
    Required("RESPONSE_HEADER", "ResponseHeader"),
    Differ(Repeated("BATCH_ITEM", "ResponseBatchItem"),
           Times(batchCount, "BATCH_ITEM", "ResponseBatchItem")) >>))

-----------------------------------------------------------------------------
(* messages/contents.py *)

ProtocolVersion == Structure(<<
    Required("PROTOCOL_VERSION_MAJOR", "Integer"),
    Required("PROTOCOL_VERSION_MINOR", "Integer") >>)

Authentication == Structure(<< AtLeastOne("CREDENTIAL", "Credential") >>)

\* The class has no read or write of its own: read leaves the contents in the
\* buffer and write raises, as the length is never set.
MessageExtension == Since(Never, Structure(<< >>))

=============================================================================
