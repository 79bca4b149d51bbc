--------------------------- MODULE AttributePolicy ---------------------------
(***************************************************************************)
(* The rules of AttributePolicy: for every attribute the types of object it*)
(* applies to, the KMIP versions that have it, and what a client may do to *)
(* it.  Versions are numbered 10, 11, ... 20.  Who may set an attribute    *)
(* first, and which operations set it, is written down in the code and     *)
(* never looked at; it is left out.                                        *)
(***************************************************************************)
EXTENDS Naturals, TLC

Never == 99

Keys == {"SymmetricKey", "PublicKey", "PrivateKey", "SplitKey"}
EveryType == Keys \cup {"Certificate", "Template", "SecretData", "OpaqueData"}

Rule(types, added, deprecated, flags) ==
    [types |-> types, added |-> added, deprecated |-> deprecated, flags |-> flags]

IdentityRules ==
    "Unique Identifier" :> Rule(EveryType, 10, Never, {}) @@
    "Name" :> Rule(EveryType, 10, Never, {"modifiable", "deletable", "multivalued"}) @@
    "Object Type" :> Rule(EveryType, 10, Never, {}) @@
    "Cryptographic Algorithm" :> Rule(EveryType \ {"OpaqueData", "SecretData"}, 10, Never, {}) @@
    "Cryptographic Length" :> Rule(EveryType \ {"OpaqueData", "SecretData"}, 10, Never, {})

CertificateRules ==
    "Cryptographic Parameters" :> Rule(EveryType \ {"OpaqueData", "SecretData"}, 10, Never, {"modifiable", "deletable", "multivalued"}) @@
    "Cryptographic Domain Parameters" :> Rule({"PublicKey", "PrivateKey", "Template"}, 10, Never, {}) @@
    "Certificate Type" :> Rule({"Certificate"}, 10, Never, {}) @@
    "Certificate Length" :> Rule({"Certificate"}, 11, Never, {}) @@
    "X.509 Certificate Identifier" :> Rule({"Certificate"}, 11, Never, {}) @@
    "X.509 Certificate Subject" :> Rule({"Certificate"}, 11, Never, {}) @@
    "X.509 Certificate Issuer" :> Rule({"Certificate"}, 11, Never, {})

IssuanceRules ==
    "Certificate Identifier" :> Rule({"Certificate"}, 10, 11, {}) @@
    "Certificate Subject" :> Rule({"Certificate"}, 10, 11, {}) @@
    "Certificate Issuer" :> Rule({"Certificate"}, 10, 11, {}) @@
    "Digital Signature Algorithm" :> Rule({"Certificate"}, 11, Never, {}) @@
    "Digest" :> Rule(EveryType \ {"Template"}, 10, Never, {"multivalued"}) @@
    "Operation Policy Name" :> Rule(EveryType, 10, 20, {})

UsageRules ==
    "Cryptographic Usage Mask" :> Rule(EveryType \ {"OpaqueData"}, 10, Never, {}) @@
    "Lease Time" :> Rule(EveryType \ {"OpaqueData", "Template"}, 10, Never, {}) @@
    "Usage Limits" :> Rule(Keys \cup {"Template"}, 10, Never, {"modifiable", "deletable"}) @@
    "State" :> Rule(EveryType \ {"OpaqueData", "Template"}, 10, Never, {})

DateRules ==
    "Initial Date" :> Rule(EveryType, 10, Never, {}) @@
    "Activation Date" :> Rule(EveryType \ {"OpaqueData"}, 10, Never, {"modifiable"}) @@
    "Process Start Date" :> Rule({"SymmetricKey", "SplitKey", "Template"}, 10, Never, {"modifiable"}) @@
    "Protect Stop Date" :> Rule({"SymmetricKey", "SplitKey", "Template"}, 10, Never, {"modifiable"}) @@
    "Deactivation Date" :> Rule(EveryType \ {"OpaqueData"}, 10, Never, {"modifiable"})

EndRules ==
    "Destroy Date" :> Rule(EveryType \ {"Template"}, 10, Never, {}) @@
    "Compromise Occurrence Date" :> Rule(EveryType \ {"Template"}, 10, Never, {}) @@
    "Compromise Date" :> Rule(EveryType \ {"Template"}, 10, Never, {}) @@
    "Revocation Reason" :> Rule(EveryType \ {"Template"}, 10, Never, {}) @@
    "Archive Date" :> Rule(EveryType, 10, Never, {})

GroupRules ==
    "Object Group" :> Rule(EveryType, 10, Never, {"modifiable", "deletable", "multivalued"}) @@
    "Fresh" :> Rule(EveryType, 11, Never, {}) @@
    "Link" :> Rule(EveryType, 10, Never, {"modifiable", "deletable", "multivalued"}) @@
    "Application Specific Information" :> Rule(EveryType, 10, Never, {"modifiable", "deletable", "multivalued"}) @@
    "Contact Information" :> Rule(EveryType, 10, Never, {"modifiable", "deletable"})

OtherRules ==
    "Last Change Date" :> Rule(EveryType, 10, Never, {}) @@
    "Custom Attribute" :> Rule(EveryType, 10, Never, {"modifiable", "deletable", "multivalued"}) @@
    "Sensitive" :> Rule(EveryType, 14, Never, {"modifiable"})

Rules == IdentityRules @@ CertificateRules @@ IssuanceRules @@ UsageRules
            @@ DateRules @@ EndRules @@ GroupRules @@ OtherRules

AttributeNames == DOMAIN Rules

Supported(attribute, version) == version >= Rules[attribute].added
Deprecated(attribute, version) == version >= Rules[attribute].deprecated
Applicable(attribute, type) == type \in Rules[attribute].types

ModifiableByClient == {a \in AttributeNames : "modifiable" \in Rules[a].flags}
DeletableByClient == {a \in AttributeNames : "deletable" \in Rules[a].flags}
Multivalued == {a \in AttributeNames : "multivalued" \in Rules[a].flags}
=============================================================================
