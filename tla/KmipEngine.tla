----------------------------- MODULE KmipEngine -----------------------------
(***************************************************************************)
(* The KmipEngine of the PyKMIP server and the sessions that call it.      *)
(* Every session thread parses one request at a time and hands it to       *)
(* process_request, which runs under the engine's lock: it stores the      *)
(* identity of the client in an attribute of the engine, opens a database  *)
(* session and executes the items of the batch one by one.  Each operation *)
(* commits by itself.  Create first writes the key to Barbican if that     *)
(* backend is enabled.  The server can die between any two steps.          *)
(*                                                                         *)
(* The content of a request is what a client chooses, so an item of a      *)
(* batch is chosen when it is executed.                                    *)
(***************************************************************************)
EXTENDS AccessRules, Naturals, Sequences, FiniteSets

CONSTANTS
    Threads,       \* session threads, one per connection
    Clients,       \* identities that connect
    Barbican,      \* whether OS_REGION_NAME is set
    RegisterTypes, \* object types clients register
    MaskChoices,   \* cryptographic usage masks clients ask for
    PolicyTables,  \* contents the shared policy dictionary can have
    MaxUid,        \* bound: rows ever inserted in the database
    MaxSecrets,    \* bound: secrets ever written to Barbican
    MaxBatch,      \* bound: items in a batch
    Nobody,        \* no thread
    NoObject       \* no row

CryptoUses ==
    [Encrypt         |-> [types |-> {"SymmetricKey"}, mask |-> "ENCRYPT"],
     Decrypt         |-> [types |-> {"SymmetricKey"}, mask |-> "DECRYPT"],
     SignatureVerify |-> [types |-> {"PublicKey"},    mask |-> "VERIFY"],
     Sign            |-> [types |-> {"PrivateKey"},   mask |-> "SIGN"],
     MAC             |-> [types |-> ObjectTypes \ {"OpaqueData"},
                          mask  |-> "MAC_GENERATE"]]

Masks == {CryptoUses[op].mask : op \in DOMAIN CryptoUses}
            \cup {"DERIVE_KEY", "WRAP_KEY"}

ASSUME EngineAssumption ==
    /\ Clients \subseteq Identities
    /\ Barbican \in BOOLEAN
    /\ {"SymmetricKey", "PublicKey", "PrivateKey"} \subseteq ObjectTypes
    /\ RegisterTypes \subseteq ObjectTypes
    /\ MaskChoices \subseteq SUBSET Masks
    /\ PolicyTables \subseteq [PolicyNames -> {NoPolicy} \cup Bundles]
    /\ {"Get", "GetAttributes", "Locate", "Activate", "Revoke", "Destroy"} \subseteq Operations
    /\ MaxUid \in Nat /\ MaxSecrets \in Nat /\ MaxBatch \in Nat \ {0}
    /\ Nobody \notin Threads

Uids == 1..MaxUid
NoUid == 0      \* Python None as a unique identifier
InRow == 0      \* the value column holds the key itself, not a secret's URL

States == {"PRE_ACTIVE", "ACTIVE", "DEACTIVATED", "COMPROMISED"}

\* Objects of this type have no state attribute.
Stateless == "STATELESS"

Objects == [type : ObjectTypes, state : States \cup {Stateless},
            owner : Users \cup {NoUser}, policy : PolicyNames,
            masks : SUBSET Masks, value : 0..MaxSecrets]

Creating == {"Create", "CreateKeyPair", "Register", "DeriveKey"}

Nameless == [user |-> NoUser, groups |-> NoGroups]

VARIABLES
    db,             \* committed rows of the managed_objects table, by uid
    nextUid,        \* the table's AUTOINCREMENT counter
    secrets,        \* number of secrets in Barbican; their URLs are 1..secrets
    policies,       \* KmipServer.policies, shared with the monitor process
    lock,           \* the engine's RLock: the thread that holds it
    clientIdentity, \* KmipEngine._client_identity
    idPlaceholder,  \* KmipEngine._id_placeholder
    session,        \* KmipEngine._data_session: "closed", "open" or "broken"
    pc,             \* per thread: where its request is
    request,        \* per thread: identity, error option, number of items
    results,        \* per thread: results of the items done
    staged,         \* value of the key being created
    acked,          \* history: uids a client was told were created
    revoked,        \* history: uids whose revocation was committed
    destroyed       \* history: uids whose destruction was committed

persistent == <<db, nextUid, secrets>>
engine     == <<lock, clientIdentity, idPlaceholder, session, staged>>
threads    == <<pc, request, results>>
history    == <<acked, revoked, destroyed>>
vars == <<persistent, policies, engine, threads, history>>

\* A row that is not there is no object.
ASSUME NoObjectIsNone == NoObject \notin Objects

Requests == [identity : Clients, stop : BOOLEAN, items : 1..MaxBatch]

NoRequest == [identity |-> Nameless, stop |-> TRUE, items |-> 1]

Init ==
    /\ db = [u \in Uids |-> NoObject]
    /\ nextUid = 1
    /\ secrets = 0
    /\ policies \in PolicyTables
    /\ lock = Nobody
    /\ clientIdentity = Nameless
    /\ idPlaceholder = NoUid
    /\ session = "closed"
    /\ pc = [t \in Threads |-> "idle"]
    /\ request = [t \in Threads |-> NoRequest]
    /\ results = [t \in Threads |-> <<>>]
    /\ staged = InRow
    /\ acked = {}
    /\ revoked = {}
    /\ destroyed = {}

-----------------------------------------------------------------------------
(* Results of a batch *)

\* A result has the operation and the uids it is about; of a failed item the
\* properties need no more than that it failed.
Result(op, uids, ok) == [op |-> op, uids |-> uids, ok |-> ok]

\* build_error_response: one failed item instead of the results.
ErrorResponse == <<Result("Error", {}, FALSE)>>

Report(t, op, uids, ok) ==
    results' = [results EXCEPT ![t] = Append(@, Result(op, uids, ok))]

Failed(rs) == \E i \in DOMAIN rs : ~rs[i].ok

\* Fault: any failure ends the batch, whatever the error continuation option.
BatchOverOnFailure(t) ==
    \/ Len(results[t]) = request[t].items
    \/ Failed(results[t])

\* The loop of _process_batch ends with the last item, or, under the STOP
\* option, with the first that failed.
BatchOver(t) ==
    \/ Len(results[t]) = request[t].items
    \/ request[t].stop /\ Failed(results[t])

InBatch(t) == pc[t] = "batch" /\ ~BatchOver(t)

\* The operation raises before it writes to the database.
Refuse(t) ==
    /\ Report(t, "Failed", {}, FALSE)
    /\ pc' = [pc EXCEPT ![t] = "batch"]
    /\ staged' = InRow
    /\ UNCHANGED <<persistent, policies, lock, clientIdentity, idPlaceholder,
                   session, request, history>>

\* Fault: the failure of the commit goes unnoticed.
CommitFailsSilently(t) ==
    /\ session = "open"
    /\ Report(t, "Create", {nextUid}, TRUE)
    /\ pc' = [pc EXCEPT ![t] = "batch"]
    /\ staged' = InRow
    /\ UNCHANGED <<persistent, policies, lock, clientIdentity, idPlaceholder,
                   session, request, history>>

\* The commit raises.  The session stays unusable: nothing rolls it back
\* before the batch ends.
CommitFails(t) ==
    /\ session = "open"
    /\ session' = "broken"
    /\ Report(t, "Failed", {}, FALSE)
    /\ pc' = [pc EXCEPT ![t] = "batch"]
    /\ staged' = InRow
    /\ UNCHANGED <<persistent, policies, lock, clientIdentity, idPlaceholder,
                   request, history>>

\* The operation only reads.
Answer(t, op, uids) ==
    /\ Report(t, op, uids, TRUE)
    /\ UNCHANGED <<persistent, policies, engine, pc, request, history>>

-----------------------------------------------------------------------------
(* Finding an object: _get_object_with_access_controls *)

\* An operation without a unique identifier works on the ID placeholder.
Target(u) == IF u = NoUid THEN idPlaceholder ELSE u

Stored(u) == session = "open" /\ u \in Uids /\ db[u] # NoObject

\* Get, and all that goes by its rule, reads the key: with Barbican enabled the
\* value of a symmetric key is taken for the URL of a secret, whatever it is.
Retrievable(u) ==
    Barbican /\ db[u].type = "SymmetricKey" => db[u].value \in 1..secrets

Allowed(identity, u, op) ==
    IsAllowedByOperationPolicy(policies[db[u].policy], identity, db[u].owner,
                               db[u].type, op)

\* Fault: what the engine itself put in the ID placeholder is not checked.
AccessibleIfNamed(u, op) ==
    /\ Stored(u)
    /\ op = "Get" => Retrievable(u)
    /\ u = idPlaceholder \/ Allowed(clientIdentity, u, op)

Accessible(u, op) ==
    /\ Stored(u)
    /\ op = "Get" => Retrievable(u)
    /\ Allowed(clientIdentity, u, op)

-----------------------------------------------------------------------------
(* Operations that create objects *)

NewObject(type, policy, masks, value) ==
    [type   |-> type,
     state  |-> IF type = "OpaqueData" THEN Stateless ELSE "PRE_ACTIVE",
     owner  |-> clientIdentity.user,
     policy |-> policy, masks |-> masks, value |-> value]

\* Fault: the ID placeholder is one beyond the new object.
InsertOffByOne(t, op, objs, k) ==
    LET new == nextUid .. nextUid + Len(objs) - 1
    IN  /\ session = "open"
        /\ new \subseteq Uids
        /\ db' = [u \in Uids |-> IF u \in new THEN objs[u - nextUid + 1] ELSE db[u]]
        /\ nextUid' = nextUid + Len(objs)
        /\ idPlaceholder' = nextUid + k
        /\ Report(t, op, new, TRUE)
        /\ pc' = [pc EXCEPT ![t] = "batch"]
        /\ staged' = InRow
        /\ UNCHANGED <<secrets, policies, lock, clientIdentity, session, request, history>>

\* Insert and commit objs, numbered from nextUid on; the ID placeholder becomes
\* the uid of the k-th.
Insert(t, op, objs, k) ==
    LET new == nextUid .. nextUid + Len(objs) - 1
    IN  /\ session = "open"
        /\ new \subseteq Uids
        /\ db' = [u \in Uids |-> IF u \in new THEN objs[u - nextUid + 1] ELSE db[u]]
        /\ nextUid' = nextUid + Len(objs)
        /\ idPlaceholder' = nextUid + k - 1
        /\ Report(t, op, new, TRUE)
        /\ pc' = [pc EXCEPT ![t] = "batch"]
        /\ staged' = InRow
        /\ UNCHANGED <<secrets, policies, lock, clientIdentity, session, request, history>>

\* Fault: Create goes on although Barbican did not store the key.
StoreKeyLost(t) ==
    /\ InBatch(t)
    /\ staged' = IF Barbican THEN secrets + 1 ELSE InRow
    /\ staged' <= MaxSecrets
    /\ pc' = [pc EXCEPT ![t] = "creating"]
    /\ UNCHANGED <<persistent, policies, lock, clientIdentity, idPlaceholder,
                   session, request, results, history>>

\* Create, first half: generate the key and, with Barbican, store it there.
StoreKey(t) ==
    /\ InBatch(t)
    /\ IF Barbican
       THEN secrets < MaxSecrets /\ secrets' = secrets + 1 /\ staged' = secrets'
       ELSE staged' = InRow /\ UNCHANGED secrets
    /\ pc' = [pc EXCEPT ![t] = "creating"]
    /\ UNCHANGED <<db, nextUid, policies, lock, clientIdentity, idPlaceholder,
                   session, request, results, history>>

\* Create, second half: set the attributes and insert the row.
CreateRow(t) ==
    /\ pc[t] = "creating"
    /\ \/ \E p \in PolicyNames, m \in MaskChoices :
              Insert(t, "Create", <<NewObject("SymmetricKey", p, m, staged)>>, 1)
       \/ CommitFails(t)
       \/ Refuse(t)

\* Create gives up before its key is stored: bad attributes, Barbican is down.
CreateRefused(t) == InBatch(t) /\ Refuse(t)

CreateKeyPair(t) ==
    /\ InBatch(t)
    /\ \/ \E p \in [1..2 -> PolicyNames], m \in [1..2 -> MaskChoices], private \in 1..2 :
              LET Half(i) == NewObject(IF i = private THEN "PrivateKey" ELSE "PublicKey",
                                       p[i], m[i], InRow)
              IN  Insert(t, "CreateKeyPair", <<Half(1), Half(2)>>, private)
       \/ CommitFails(t)
       \/ Refuse(t)

\* Register keeps the client's key in the row, with or without Barbican.
Register(t) ==
    /\ InBatch(t)
    /\ \/ \E type \in RegisterTypes, p \in PolicyNames, m \in MaskChoices :
              Insert(t, "Register", <<NewObject(type, p, m, InRow)>>, 1)
       \/ CommitFails(t)
       \/ Refuse(t)

\* Objects a key may be derived from: of the right kind, whatever their state.
CanDeriveFrom(u) ==
    /\ Accessible(u, "Get")
    /\ db[u].type \in {"SymmetricKey", "PublicKey", "PrivateKey", "SecretData"}
    /\ "DERIVE_KEY" \in db[u].masks

DeriveKey(t) ==
    /\ InBatch(t)
    /\ \/ \E from \in SUBSET Uids \ {{}} :
              /\ \A u \in from : CanDeriveFrom(u)
              /\ \/ \E type \in ObjectTypes \cap {"SymmetricKey", "SecretData"},
                       p \in PolicyNames, m \in MaskChoices :
                        Insert(t, "DeriveKey", <<NewObject(type, p, m, InRow)>>, 1)
                 \/ CommitFails(t)
       \/ Refuse(t)

-----------------------------------------------------------------------------
(* Operations that change or destroy an object *)

\* Fault: the table hands out the number of its last row again once that row is
\* deleted (no AUTOINCREMENT).
UpdateReusing(t, op, u, row) ==
    /\ db' = [db EXCEPT ![u] = row]
    /\ nextUid' = IF row = NoObject /\ u + 1 = nextUid THEN u ELSE nextUid
    /\ Report(t, op, {u}, TRUE)
    /\ UNCHANGED <<secrets, policies, engine, pc, request, history>>

\* Row u becomes row, or goes; the change is committed and answered.
Update(t, op, u, row) ==
    /\ db' = [db EXCEPT ![u] = row]
    /\ Report(t, op, {u}, TRUE)
    /\ revoked' = IF op = "Revoke" THEN revoked \cup {u} ELSE revoked
    /\ destroyed' = IF op = "Destroy" THEN destroyed \cup {u} ELSE destroyed
    /\ UNCHANGED <<nextUid, secrets, policies, engine, pc, request, acked>>

\* Fault: any object that has a state can be activated.
ActivatableFromAnyState(u) == db[u].state \in States

Activatable(u) == db[u].state = "PRE_ACTIVE"

Activate(t, named) ==
    /\ InBatch(t)
    /\ LET u   == Target(named)
           can == Accessible(u, "Activate") /\ Activatable(u)
       IN  \/ can /\ Update(t, "Activate", u, [db[u] EXCEPT !.state = "ACTIVE"])
           \/ can /\ CommitFails(t)
           \/ ~can /\ Refuse(t)

\* The state an object is revoked to; a destroyed object has no row, so the
\* code's branch from DESTROYED to DESTROYED_COMPROMISED is never taken.
RevokedState(compromise) == IF compromise THEN "COMPROMISED" ELSE "DEACTIVATED"

Revocable(u, compromise) ==
    db[u].state \in IF compromise THEN States ELSE {"ACTIVE"}

Revoke(t, named, compromise) ==
    /\ InBatch(t)
    /\ LET u   == Target(named)
           can == Accessible(u, "Revoke") /\ Revocable(u, compromise)
       IN  \/ can /\ Update(t, "Revoke", u,
                            [db[u] EXCEPT !.state = RevokedState(compromise)])
           \/ can /\ CommitFails(t)
           \/ Refuse(t)     \* at least: no revocation reason

Destroyable(u) == db[u].state # "ACTIVE"

\* The row is deleted; its secret in Barbican, if any, stays.
Destroy(t, named) ==
    /\ InBatch(t)
    /\ LET u   == Target(named)
           can == Accessible(u, "Destroy") /\ Destroyable(u)
       IN  \/ can /\ Update(t, "Destroy", u, NoObject)
           \/ can /\ CommitFails(t)
           \/ ~can /\ Refuse(t)

-----------------------------------------------------------------------------
(* Operations that read *)

\* Fault: the retrieved key is put into the stored object, not into a copy.
GetInPlace(t, named, wrap) ==
    /\ InBatch(t)
    /\ LET u == Target(named)
       IN  /\ Accessible(u, "Get")
           /\ db' = [db EXCEPT ![u].value = InRow]
           /\ Report(t, "Get", {u}, TRUE)
    /\ UNCHANGED <<nextUid, secrets, policies, engine, pc, request, history>>

\* A key that may wrap another one.
CanWrap(w) ==
    /\ Accessible(w, "Get")
    /\ db[w].type = "SymmetricKey"
    /\ db[w].state = "ACTIVE"
    /\ "WRAP_KEY" \in db[w].masks

\* Get, plain or wrapped; the result of a wrapped Get is kept as a use of the
\* key that wraps.
Get(t, named, wrap) ==
    /\ InBatch(t)
    /\ LET u == Target(named)
       IN  \/ /\ Accessible(u, "Get")
              /\ \/ wrap = NoUid /\ Answer(t, "Get", {u})
                 \/ wrap # NoUid /\ CanWrap(wrap) /\ Answer(t, "Wrap", {wrap})
           \/ Refuse(t)

\* GetAttributes and GetAttributeList.
GetAttributes(t, named) ==
    /\ InBatch(t)
    /\ LET u == Target(named)
       IN  \/ Accessible(u, "GetAttributes") /\ Answer(t, "GetAttributes", {u})
           \/ Refuse(t)

\* Locate answers with those of the accessible objects that match the filter.
Locate(t) ==
    /\ InBatch(t)
    /\ \/ /\ session = "open"
          /\ \E found \in SUBSET {u \in Uids : Accessible(u, "Locate")} :
                 Answer(t, "Locate", found)
       \/ Refuse(t)

Usable(u, op) ==
    /\ Accessible(u, "Get")
    /\ db[u].type \in CryptoUses[op].types
    /\ db[u].state = "ACTIVE"
    /\ CryptoUses[op].mask \in db[u].masks

\* Encrypt, Decrypt, SignatureVerify, Sign and MAC.
UseKey(t, named, op) ==
    /\ InBatch(t)
    /\ LET u == Target(named)
       IN  \/ Usable(u, op) /\ Answer(t, op, {u})
           \/ Refuse(t)

-----------------------------------------------------------------------------
(* The request as a whole: process_request and its caller, the session *)

\* A client's request is read and parsed.
Submit(t, r) ==
    /\ pc[t] = "idle"
    /\ pc' = [pc EXCEPT ![t] = "waiting"]
    /\ request' = [request EXCEPT ![t] = r]
    /\ results' = [results EXCEPT ![t] = <<>>]
    /\ UNCHANGED <<persistent, policies, engine, history>>

\* Fault: process_request is not synchronized.
StartUnlocked(t) ==
    /\ pc[t] = "waiting"
    /\ lock' = t
    /\ clientIdentity' = request[t].identity
    /\ session' = "open"
    /\ pc' = [pc EXCEPT ![t] = "batch"]
    /\ UNCHANGED <<persistent, policies, idPlaceholder, staged, request, results, history>>

\* Fault: the identity of the last client is kept.
StartKeepingIdentity(t) ==
    /\ pc[t] = "waiting"
    /\ lock = Nobody
    /\ lock' = t
    /\ session' = "open"
    /\ pc' = [pc EXCEPT ![t] = "batch"]
    /\ UNCHANGED <<persistent, policies, clientIdentity, idPlaceholder, staged,
                   request, results, history>>

\* process_request takes the lock, accepts the header and opens a session.
Start(t) ==
    /\ pc[t] = "waiting"
    /\ lock = Nobody
    /\ lock' = t
    /\ clientIdentity' = request[t].identity
    /\ session' = "open"
    /\ pc' = [pc EXCEPT ![t] = "batch"]
    /\ UNCHANGED <<persistent, policies, idPlaceholder, staged, request, results, history>>

\* The header is refused: version, time stamp, asynchronous or UNDO option.
RejectHeader(t) ==
    /\ pc[t] = "waiting"
    /\ lock = Nobody
    /\ clientIdentity' \in {Nameless, request[t].identity}
    /\ pc' = [pc EXCEPT ![t] = "answered"]
    /\ results' = [results EXCEPT ![t] = ErrorResponse]
    /\ UNCHANGED <<persistent, policies, lock, idPlaceholder, session, staged,
                   request, history>>

\* The session is closed, which drops a broken transaction; the lock is free.
Leave(t) ==
    /\ pc' = [pc EXCEPT ![t] = "answered"]
    /\ lock' = Nobody
    /\ session' = "closed"
    /\ UNCHANGED <<persistent, policies, clientIdentity, idPlaceholder, staged,
                   request, history>>

\* Fault: the exception leaves process_request with the lock taken.
MissingBatchItemIdLocked(t) ==
    /\ InBatch(t)
    /\ request[t].items > 1
    /\ results' = [results EXCEPT ![t] = ErrorResponse]
    /\ pc' = [pc EXCEPT ![t] = "answered"]
    /\ session' = "closed"
    /\ UNCHANGED <<persistent, policies, lock, clientIdentity, idPlaceholder, staged,
                   request, history>>

\* An item of a longer batch has no ID: the whole request fails, though the
\* items before it are committed.
MissingBatchItemId(t) ==
    /\ InBatch(t)
    /\ request[t].items > 1
    /\ results' = [results EXCEPT ![t] = ErrorResponse]
    /\ Leave(t)

Finish(t) ==
    /\ pc[t] = "batch"
    /\ BatchOver(t)
    /\ UNCHANGED results
    /\ Leave(t)

CreatedIn(rs) ==
    UNION {rs[i].uids : i \in {j \in DOMAIN rs : rs[j].ok /\ rs[j].op \in Creating}}

\* The session writes the response.  The client learns of the results unless
\* they exceed the size it accepts or the connection breaks.
Deliver(t) ==
    /\ pc[t] = "answered"
    /\ pc' = [pc EXCEPT ![t] = "idle"]
    /\ results' = [results EXCEPT ![t] = <<>>]
    /\ request' = [request EXCEPT ![t] = NoRequest]
    /\ acked' \in {acked, acked \cup CreatedIn(results[t])}
    /\ UNCHANGED <<persistent, policies, engine, revoked, destroyed>>

\* The monitor process changes the shared policies, whoever holds the lock.
ChangePolicies ==
    /\ policies' \in PolicyTables \ {policies}
    /\ UNCHANGED <<persistent, engine, threads, history>>

\* The process dies; what is left is the database and Barbican.
Crash ==
    /\ lock' = Nobody
    /\ clientIdentity' = Nameless
    /\ idPlaceholder' = NoUid
    /\ session' = "closed"
    /\ staged' = InRow
    /\ pc' = [t \in Threads |-> "idle"]
    /\ request' = [t \in Threads |-> NoRequest]
    /\ results' = [t \in Threads |-> <<>>]
    /\ UNCHANGED <<persistent, policies, history>>

-----------------------------------------------------------------------------
NamedUids == Uids \cup {NoUid}

Item(t) ==
    \/ CreateRefused(t)
    \/ StoreKey(t)
    \/ CreateRow(t)
    \/ CreateKeyPair(t)
    \/ Register(t)
    \/ DeriveKey(t)
    \/ \E u \in NamedUids : Activate(t, u)
    \/ \E u \in NamedUids, c \in BOOLEAN : Revoke(t, u, c)
    \/ \E u \in NamedUids : Destroy(t, u)
    \/ \E u, w \in NamedUids : Get(t, u, w)
    \/ \E u \in NamedUids : GetAttributes(t, u)
    \/ Locate(t)
    \/ \E u \in NamedUids, op \in DOMAIN CryptoUses : UseKey(t, u, op)

\* The steps the thread takes by itself once it has a request.
Work(t) ==
    \/ Start(t) \/ RejectHeader(t)
    \/ Item(t) \/ MissingBatchItemId(t) \/ Finish(t)
    \/ Deliver(t)

Next ==
    \/ \E t \in Threads : Work(t)
    \/ \E t \in Threads, r \in Requests : Submit(t, r)
    \/ ChangePolicies
    \/ Crash

Spec == Init /\ [][Next]_vars

\* A thread that holds the lock goes on: database and Barbican calls return.
FairSpec == Spec /\ \A t \in Threads : WF_vars(Work(t))

-----------------------------------------------------------------------------
(* The objects as ObjectLifecycle sees them *)

life == [u \in Uids |-> IF u >= nextUid THEN "unborn"
                       ELSE IF db[u] = NoObject THEN "gone" ELSE db[u].state]

Lifecycle == INSTANCE ObjectLifecycle WITH MaxUid <- MaxUid, life <- life

-----------------------------------------------------------------------------
(* Properties *)

\* The store of managed objects behaves as ObjectLifecycle says: identifiers
\* are never used twice, an active object is never destroyed, a revoked one
\* never active again - over any number of sessions, batches and crashes.
ImplementsLifecycle == Lifecycle!Spec

\* The engine's and the threads' state has its type: no row, and no result,
\* beyond the uids handed out; the engine is at rest when the lock is free.
TypeOK ==
    /\ db \in [Uids -> Objects \cup {NoObject}]
    /\ nextUid \in 1..MaxUid + 1
    /\ \A u \in Uids : u >= nextUid => db[u] = NoObject
    /\ secrets \in 0..MaxSecrets
    /\ policies \in PolicyTables
    /\ lock \in Threads \cup {Nobody}
    /\ clientIdentity \in Clients \cup {Nameless}
    /\ idPlaceholder \in 0..nextUid - 1
    /\ session \in {"closed", "open", "broken"}
    /\ session = "closed" <=> lock = Nobody
    /\ pc \in [Threads -> {"idle", "waiting", "batch", "creating", "answered"}]
    /\ request \in [Threads -> Requests \cup {NoRequest}]
    /\ \A t \in Threads : \A i \in DOMAIN results[t] :
           results[t][i].uids \subseteq 1..nextUid - 1
    /\ staged \in 0..MaxSecrets
    /\ acked \cup revoked \cup destroyed \subseteq 1..nextUid - 1

\* A batch runs only while its thread holds the lock, and the identity stored
\* in the engine is that of the batch's client (the attributes of KmipEngine
\* that process_request sets are shared by all sessions).
ServesLockHolder ==
    \A t \in Threads : pc[t] \in {"batch", "creating"} =>
        lock = t /\ clientIdentity = request[t].identity

\* The object a client is told it created belongs to that client, until it is
\* destroyed (managed_object._owner comes from the shared identity).
CreatorOwns ==
    \A t \in Threads : \A u \in CreatedIn(results[t]) :
        db[u] = NoObject \/ db[u].owner = request[t].identity.user

\* What a client was told it created is stored, whatever crashed since, unless
\* its destruction was committed.
AckedDurable == \A u \in acked : db[u] # NoObject \/ u \in destroyed

\* A row never refers to a secret Barbican does not have, and no two rows share
\* a secret.
SecretsResolve ==
    /\ \A u \in Uids : db[u] # NoObject => db[u].value \in 0..secrets
    /\ \A u, v \in Uids : /\ u # v
                          /\ db[u] # NoObject /\ db[v] # NoObject
                          /\ db[u].value # InRow
                          => db[u].value # db[v].value

\* An answered batch is complete: it has a result for every item, or, under the STOP
\* option and only under it, ends with the first failure, or it is one error.
AnswerComplete ==
    \A t \in Threads : pc[t] = "answered" /\ results[t] # ErrorResponse =>
        LET n == Len(results[t])
        IN  /\ n = request[t].items \/ (request[t].stop /\ ~results[t][n].ok)
            /\ request[t].stop => \A i \in 1..n - 1 : results[t][i].ok

\* An object revoked once is never again used by an operation that asks for an active key
\* - Encrypt, Decrypt, Sign, SignatureVerify, MAC and the wrapping of Get - whichever
\* session asks and whatever happened in between.  (DeriveKey asks for no state and does
\* derive from revoked objects.)
RevokedNeverUsed ==
    [][\A t \in Threads, u \in revoked, op \in DOMAIN CryptoUses \cup {"Wrap"} :
           results'[t] # Append(results[t], Result(op, {u}, TRUE))]_vars

\* Only a client whom the object's policy allows it changes or destroys an
\* object, however it named the object.
ChangesAuthorised ==
    [][\A u \in Uids : db[u] # NoObject /\ db'[u] # db[u] =>
           \E t \in Threads, op \in {"Activate", "Revoke", "Destroy"} :
               /\ pc[t] = "batch"
               /\ results'[t] = Append(results[t], Result(op, {u}, TRUE))
               /\ Allowed(request[t].identity, u, op)]_vars

\* The identity of an object - its type, owner, policy and usage masks - and
\* the value of its row never change, so a key kept in Barbican never gets into
\* the database (_get_object_with_access_controls works on a deep copy).
ObjectsFixed ==
    [][\A u \in Uids : db[u] # NoObject /\ db'[u] # NoObject =>
           db'[u] = [db[u] EXCEPT !.state = db'[u].state]]_vars

\* The engine never keeps its lock: every request it works on ends.
LockReleased == \A t \in Threads : lock = t ~> lock # t

\* What the integration test test_symmetric_key_register_get_destroy expects of
\* any symmetric key in the store: Get can return its value.  With Barbican
\* enabled the code takes a registered key for the URL of a secret.
StoredKeysRetrievable == \A u \in Uids : db[u] # NoObject => Retrievable(u)
=============================================================================
