# TLA+ models of the PyKMIP server

PyKMIP's server keeps cryptographic objects for clients that speak the KMIP protocol
over TLS. This directory holds TLA+ models of its core, TLC configurations that
check them on small instances, and TLAPS proofs of the properties that matter most.
`PROJECT.json` lists the components, the runs, the source lines every definition
stands for, the hazards and the theorems.

This fork (sapcc) differs from upstream PyKMIP in three ways that matter here: key
material of `Create` may be kept in OpenStack Barbican, objects are shared by all
vCenters of one availability zone, and the engine finds an object's secret again on
every read.

## 1. The system

### 1.1 Components, their state and operations

| Component | State | Operations |
|---|---|---|
| `KmipServer` (`server.py`) | listening socket, live session threads, policy process, multiprocessing manager with the shared dictionary `policies` | start, accept, stop, health check |
| `KmipSession` (`session.py`), one thread per connection | socket with a 10 s timeout | read a message by its length header, authenticate, hand to the engine, write the answer |
| Authentication plugins (`auth/`) | none | SLUGS look-up of user and groups; fallback to the certificate's common name |
| `KmipEngine` (`engine.py`), one object for all sessions | RLock, `_client_identity`, `_protocol_version`, `_id_placeholder`, `_data_session`; the database | `process_request` and one `_process_*` per KMIP operation |
| Managed objects (`pie/objects.py`) in a SQLAlchemy database | table `managed_objects` and one per subclass; `sqlite_autoincrement` | insert, update, delete, each with its own commit |
| Barbican client (`barbican.py`) | secrets in an external service | store, fetch |
| `PolicyDirectoryMonitor` (`monitor.py`), one process | `policy_files`, `policy_map`, `policy_cache`, `file_timestamps`; the shared `policy_store` | scan once a second, override, drop, restore, delete |
| Policy file parser (`core/policy.py`) | none | text to dictionary |
| Attribute policy (`policy.py`) | rule table | is an attribute supported, deprecated, modifiable, multivalued |
| Cryptography engine (`crypto/engine.py`) | none | generate, encrypt, sign, derive, wrap |
| TTLV primitives, messages, payloads, core objects | none | read and write |
| Clients (`kmip_client.py`, `pie/client.py`) | socket, configuration | one call per operation |
| REST API (`pykmip-restapi/`) | none | HTTP wrapper around a client |

### 1.2 How they interact

A client's request is a byte string on a TLS connection. The session thread that
owns the connection reads it, authenticates the peer and calls
`KmipEngine.process_request`, which is synchronized on the engine's RLock: at any
time at most one thread is inside. It stores the identity of the client in the
engine, opens a database session and executes the items of the batch in order. Each
operation commits by itself. Operations that name no object work on the *ID
placeholder*, which the last item that created an object has set. Access is decided
by the operation policy of the object, which the engine reads - without a lock -
from a dictionary shared with the monitor process.

### 1.3 What is hard

* **One engine for all sessions.** Everything `process_request` keeps between two
  calls of its helpers is an attribute of the shared engine. Only the lock stands
  between two clients' identities. `_id_placeholder` is not even reset between two
  requests.
* **Partial batches.** Items are committed one by one. A later failure - a commit
  that raises and leaves the session unusable, a missing batch item ID that fails
  the whole request, a response that exceeds the client's maximum - does not undo
  what is already there.
* **Two stores.** `Create` writes to Barbican, then to the database. Any failure or
  crash between them leaves a secret no row refers to; `Destroy` never removes a
  secret.
* **Unlocked policies.** A check by a client with several groups looks the policy up
  once per group while the monitor may replace or delete it.
* **A directory that changes while it is scanned.** Listing, `getmtime` and `open`
  are separate steps, and several files can define one policy.
* **Timeouts.** The session's socket timeout can end a read in the middle of a
  message; the client's can end a read whose answer arrives later.
* **Encodings.** Optional fields by protocol version, listed twice in every class;
  from KMIP 2.0 on, attributes in another style, converted on the way.

### 1.4 What makes each component correct

* *Access control*: a grant follows from one version of the policy; the most
  permissive group counts; hosts of one zone get the same answers; nothing that is
  not covered is allowed.
* *Engine*: a batch runs for the client who sent it; an object belongs to its
  creator; only the authorised change it; what a client was told exists is stored;
  the life cycle of an object is that of KMIP, over crashes, and identifiers are
  never reused; a revoked key is not used again where an active one is asked for; the
  lock is always released.
* *Monitor*: a defined policy is never lost, a reserved one never changed, the
  monitor catches up with the directory.
* *Session and client*: an answer belongs to the call that takes it; a request is
  processed once, for whom the certificate and the plugins vouch; a refusal means
  that nothing was done; calls and sessions end.
* *Attributes*: an operation changes what it answers for and nothing else, also
  after an operation before it failed; what is set once stays; a client that pages
  through the objects misses none.
* *Codec*: what one end writes the other reads, in every version, as it was but for
  what the conversion between the styles of attributes has no place for; no encoding
  has two readings.

## 2. Modules

| Module | Models |
|---|---|
| `AccessRules` | the pure decision: zones, sections of a policy, rules, groups |
| `OperationPolicy` | one check as the loop over groups, beside the monitor |
| `ObjectLifecycle` | abstract specification of the store of managed objects |
| `KmipEngine` | sessions, lock, batches, operations, database, Barbican, crashes |
| `AttributePolicy` | the rules of all attributes |
| `AttributeTable` | abstract specification of the attributes of stored objects |
| `AttributeStore` | the attribute operations, the database session, `Locate` and its pages |
| `KmipSession` | one connection: client, both byte streams, the session's thread |
| `PolicyMonitor` | the scans of the monitor beside an administrator |
| `AttributeStyles` | attributes by name and by tag, and the conversions between them |
| `TtlvRows` | the vocabulary of the field tables |
| `PayloadTables`, `ObjectTables` | the fields of every payload, object and message |
| `TtlvStructure` | the program that all `read` and `write` methods are, over a table |
| `OperationPolicyProofs`, `KmipEngineProofs`, `KmipStorageProofs`, `KmipAnswerProofs`, `AttributeStoreProofs`, `KmipSessionProofs`, `PolicyMonitorProofs`, `TtlvProofs` | theorems |
| `MCOperationPolicy`, `MCKmipEngine`, `MCAttributeStore`, `MCKmipSession`, `MCPolicyMonitor`, `MCTtlv` | instances for TLC |

How they fit together: a connection (`KmipSession`) carries messages
(`TtlvStructure` over the tables) to the engine (`KmipEngine`), which decides by
`AccessRules` on policies that the monitor (`PolicyMonitor`, `OperationPolicy`)
changes, and whose attribute operations `AttributeStore` has in detail. Two modules
say what a part promises to its users - `ObjectLifecycle` and `AttributeTable` - and
the detailed ones implement them under a refinement mapping, model-checked and
proved.

Definitions whose comment begins with "Fault:" are used by no specification: each is
a variant of the definition it precedes, as a plausible mistake in the code would
have it. `PROJECT.json` ("mutants") pairs each with the property that it violates,
so every property is known to be able to fail.

### 2.1 AccessRules and OperationPolicy

`ExtractZone` and `MatchOwner` translate `match_owner` (`core/utils.py`),
`RelevantSection` is `get_relevant_policy_section`, `IsAllowed` is `is_allowed`;
`GroupsTried` are the iterations of `_is_allowed_by_operation_policy`, a single one
without a group for clients that have no group information. In `OperationPolicy` an
iteration is one `TryGroup` step, and `MonitorUpdate` changes the shared dictionary
between two of them. `seen` records the versions in force during the check, which
the properties quantify over.

The order in which the loop tries the groups is left open: the code iterates a list
that comes from SLUGS. A group is taken for one by `if group` (`engine.py:1113`);
the model has no group whose name is empty, which would fall to the preset section.

### 2.2 ObjectLifecycle and KmipEngine

`KmipEngine` has one action per operation of the engine and one per step of a
request outside of them:

| Action | Code |
|---|---|
| `Submit`, `Deliver` | `KmipSession._handle_message_loop`: a request has been read; the response is written or lost |
| `Start`, `RejectHeader` | `process_request` up to the batch; it raises for the version, the time stamp, the asynchronous indicator, the UNDO option |
| `Finish`, `MissingBatchItemId` | the end of `_process_batch`; the exception that leaves it |
| `CreateRefused`, `StoreKey`, `CreateRow` | `_process_create`, cut where a crash makes a difference: between Barbican and the database |
| `CreateKeyPair`, `Register`, `DeriveKey` | `_process_create_key_pair`, `_process_register`, `_process_derive_key` |
| `Activate`, `Revoke`, `Destroy` | the methods of these names |
| `Get`, `GetAttributes`, `Locate`, `UseKey` | `_process_get` (with wrapping), `_process_get_attributes`, `_process_get_attribute_list`, `_process_locate`, and `_process_encrypt`, `_decrypt`, `_sign`, `_signature_verify`, `_mac` |
| `ChangePolicies` | the monitor process |
| `Crash` | the death of the process; database and Barbican stay |

Every operation has up to three outcomes: it succeeds; it refuses before it writes
(`Refuse`, the exceptions `_process_batch` turns into a failed item); its commit
raises (`CommitFails`). After the latter the database session is `"broken"`: nothing
rolls it back, so all further items of the batch fail - they do find the guard
`Stored` false.

The content of a request is nondeterministic: an item is chosen when it is executed.
A message that says more than the properties tell apart (key lengths, names,
templates) is left out: a value of an object is `InRow`, the key itself in the row,
or the number of a secret in Barbican. Values kept in the row are not told apart.

The variables `acked`, `revoked` and `destroyed` are history: no action reads them.

`ObjectLifecycle` is the promise: an identifier is unborn, stored in one of the
phases of KMIP, or gone, and moves only forward. The refinement mapping `life` reads
the phase of an identifier off `nextUid` and `db`. Note what it does not promise: a
pre-active object may be compromised, and an object compromised may be compromised
again, as the code has it. `RevokedNeverUsed` is about the operations that ask for
an active key: encryption, decryption, signatures, MACs and wrapping. `DeriveKey`
asks for no state (`engine.py:2096-2121`) and derives from revoked keys; the
repository's documents (`server.rst:988-1015`) require nothing else.

### 2.3 PolicyMonitor

The monitor's dictionaries are functions over the names of policies; a file is a
number (scans go by sorted names), a text is a table of policies, text the parser
rejects, or JSON that is no table. `scan_policies` is cut into `BeginScan` (list the
directory), `ForgetFile` (a tracked file is gone), `RestoreOrDelete`, `Stat` and
`Load` (`getmtime`, `read_policy_from_file`), `EndScan`. `WriteFile` and
`DeleteFile` happen between any two of them. `status = "dead"` is the process ended
by an exception nobody handles.

A cached version is a record with the content, the file and the order of its
addition; the code keeps a list of tuples with a time and takes the latest. Every
write gets a modification time later than all before it. `Load` takes all policies of
a file over in one step, where the code goes policy by policy (`monitor.py:129-130`):
an access check looks at one policy, so the state in between shows it nothing that
the state before or after does not, and nothing in this process comes between.

### 2.4 KmipSession

The two streams `up` and `down` are sequences of units; a message is `HeaderLength`
units and as many more as the header announces. Both readers take what has arrived
in pieces of any size, as `recv` returns it.

| Action | Code |
|---|---|
| `Call`, `CallCutOff` | `KMIPProxy._send_and_receive_message`, `KMIPProtocol.write`; `sendall` times out after a part |
| `ClientReceive`, `ClientHeader`, `Return`, `ClientParseError`, `ClientTimeout`, `ClientEndOfStream` | `KMIPProtocol.read` and what the call makes of it |
| `Close` | the application closes the connection |
| `SessionReceive`, `SessionHeader`, `SessionRequest` | `_receive_request`, `_receive_bytes` |
| `SessionTimeout`, `SessionEndOfStream` | `run`: an exception is logged and the loop goes on; the end of the stream ends the thread |
| `CheckCertificate`, `ParseError`, `Parse` | `_handle_message_loop` up to `authenticate` |
| `SkipPlugin`, `PluginSucceeds`, `PluginFails`, `IdentifyByCertificate`, `NotAuthenticated` | `authenticate` |
| `Process`, `ProcessRaises` | the engine, and the comparison with the maximum response size after it has committed |
| `Send`, `SendCutOff`, `SendRaises` | `_send_response` |
| `Stop`, `Exit` | the signal; the end of the process, which takes its daemon threads with it wherever they are |

A reader that is not at the beginning of a message takes whatever lies there for a
length (`Announced`). That is how a timeout in the middle of a message goes on: the
loop begins again and the rest of the message is the next header. `disturbed`
remembers that a timeout happened. The promise `AnswersInTurn` holds only while it
did not: a client that uses its connection again after a timeout takes the late
answer to its earlier call for the answer to the new one, since nothing compares the
two. The others hold over timeouts, too. An answer of kind `failed` says nothing of
the request: it may be committed in part. One that is `tooLarge` was committed.
`Parse` succeeds only on one whole request: that the decoder raises on a mixture of
two (`session.py:168`) is what `codec` is about, not this module.

### 2.5 AttributePolicy, AttributeTable and AttributeStore

`AttributePolicy` is the table of `AttributePolicy.__init__`. `AttributeStore` has
the committed rows (`table`) and what the database session has made of them
(`view`). An operation changes `view` and leaves its answer in `pending`; `Commit`
or `CommitFails` comes next, and a session whose commit failed is unusable until the
batch ends. `pending` has besides the answer (`reported`) what the request asked for
(`asked`: a value, a new object, or nothing, when an instance is deleted whatever its
value is). `OnlyWhatIsAnswered` compares the two with what `Commit` writes: nothing
changes on any object but the one of the answer, on that one only the named
attribute - column or list, so a change that a failed operation left in either is
found out - and there it is the value asked for (`AsAsked`).
Every operation has the conditions of its method:
`_process_set_attribute`, `_process_modify_attribute` and
`_process_delete_attribute` in their forms for KMIP 1.x (by index) and 2.0 (by
current value or by reference), `_process_locate` with its comparison of values and
dates, its sort and its slice. Lists - names, object groups, application-specific
information - are rows of other tables that the bulk deletion of `Destroy` leaves
there; what keeps them from the next object is only that no number is used again.

A client that pages (`StartPaging`, `NextPage`) asks for one page after another
while batches change the table between them. The result begins with the newest
object, so creation moves the others to later pages: an object may be seen twice and
is not missed. A destruction would pull one across the boundary of a page, and
`Commit` drops the pager then: nothing is promised.

What the model shows beside its properties, and what a user should know:
`ModifyAttribute` can give an object the same name twice, which creation refuses;
`DeleteAttribute` of KMIP 2.0 never deletes a name by its value, since the
comparison raises; `Locate` by `Sensitive` finds nothing, since the attribute is
compared without being taken out of its TTLV object; neither `SetAttribute` nor
`ModifyAttribute` changes a value that is set, so `Sensitive` - the only attribute
with one value that a client may modify and the server keeps - is set once. A
negative offset counts from the end, as Python's slices do.

### 2.6 The codec: TtlvRows, PayloadTables, ObjectTables, AttributeStyles, TtlvStructure

The `read` and `write` methods of the structures of `kmip/core` are one program over
different fields. `TtlvStructure` is that program, item by item, and the tables are
the fields: tag, type, required, optional, repeated or counted, the versions that
have it, and what the two methods do differently. `name` picks a structure, `given`
is what the writing object holds, `got` what the reading one holds; between the two
another implementation may leave an item out, repeat, exchange or add one (`Alter`).
A nested structure is one item of its type; its own table says what is in it.

What a field holds is a record: a value of no concern to this module, the attributes
in it, and what goes beside them (the names of a template, the index of an attribute,
the vendor of a reference). The *form* of a field says what the two methods make of
the attributes (`AttributeStyles`):

| Form | Fields | Written | Read |
|---|---|---|---|
| `plain` | all others | as it is | as it is |
| `named` | `Attribute` and what contains it: templates, key values and objects with them | by name | if a class for the name exists |
| `tagged` | `Attributes`, `NewAttribute`, `CurrentAttribute` and what contains them | by tag, if it is one of KMIP 2.0's | if a class for the tag exists: `create_attribute_value_by_enum` knows fewer tags than the writers accept (`attribute_values.py:127-212`) |
| `attributes` | the template or attribute list of `Create`, `CreateKeyPair`, `Register`, `DeriveKey`, `Locate` and the response of `GetAttributes`, from KMIP 2.0 on | converted to an `Attributes` structure; raises for a name without a tag and as `tagged` | as `tagged`, then converted back, without the names of the template and the indexes (`objects.py:3569-3621`) |
| `reference` | the names in `GetAttributes` and `GetAttributeList`, from 2.0 on | as the number of a tag | as that, or as vendor and name, of which the vendor is dropped (`get_attribute_list.py:302-310`) |

So `RoundTrip` does not say that everything comes back, but what `Delivered` leaves of
it: all but the names and indexes in an `Attributes` structure. And
`WrittenIsReadable` exempts the objects that hold an attribute for which the reading
factory has no class (`Uncreatable`): a client can build a `SetAttribute` of a link or
of usage limits, and the server raises on it. The list in `GetAttributes` and `Locate`
is several fields below KMIP 2.0 and one structure from 2.0 on; an empty one is refused
by the writer of the response and left out by that of `Locate`. Another implementation
may refer to an attribute by vendor and name (`Rephrased`). A nested structure counts
as decodable when its own table, which is exchanged by itself, says so. Not modelled is
that the conversion also sets the tags of the written object's own values
(`objects.py:3583-3587`), which only an object written twice could notice.

The tables are long because the code is: more than ten thousand lines of fields.
They were compared with the behaviour of the classes they stand for, structure by
structure, version by version and choice of optional fields by choice. Where the two
methods of a class do not agree the table says so (`Differ`). The run `codec` offers
every structure but those on which what is written may be refused or read as
something else:

* `ActivateRequestPayload`, `RevokeRequestPayload` without a unique identifier: the
  writer takes it for optional, as `client.rst:191` does, the reader reads it
  unconditionally. The run `codec_identifier` has that as a finding; with an
  identifier, `codec` offers them;
* `CreateKeyPairResponsePayload` (and `RekeyKeyPairResponsePayload`, which inherits
  its methods): the template attributes are read below KMIP 2.0 only, and written
  always;
* `CapabilityInformation`: the undo capability is read into the attribute of the
  continue capability; `Template`: an empty one is written and not read;
  `MessageExtension`: not implemented;
* an attribute, a credential, a secret or a key value whose content is not of the
  class its name or type announces.

`LocateRequestPayload`, `SignRequestPayload`, `SignResponsePayload` and both
messages end without `is_oversized` (`Open`): what follows their last field is
passed over, so `OneReading` excludes them. Other differences that agree with each
other and may surprise: authenticated data and tag of Encrypt and Decrypt are left
out below KMIP 1.4; `server_correlation_value` of a response header is never
written; a response to GetAttributeList may be read empty from KMIP 2.0 on.

## 3. Runs

All on MC modules; the bounds are in the `.cfg` files.

| Run | Question | Result |
|---|---|---|
| `access_check` | Can a check whose policy changes underneath it decide what no version of the policy says? | No: a grant always comes from one version; a denial from versions that each refused one group. With a policy that does not change, the decision is what the documentation says, except in the case of the next run. |
| `preset_fallback` | Are the preset controls a fallback for clients with groups? (`server.rst:467`) | No: they are denied. |
| `engine_sessions` | Can two sessions get each other's identity or objects, lose an object they were told of, or wait for ever for the lock? | No; every request gives the lock back, if calls return. |
| `engine_batches` | Do batches of all operations keep life cycle, authorisation and storage right? | Yes, and the engine refines `ObjectLifecycle`. |
| `registered_key_in_barbican` | Can any stored symmetric key be retrieved? | No: with Barbican, a registered one cannot. |
| `policy_monitor` | Do the monitor's tables stay consistent, and no policy get lost, when files change during scans? Does it catch up with the directory? | They do, none is lost, and it does unless it has ended. |
| `monitor_stale` | Is what is served what the file it comes from says? (`server.rst:358`) | No: a version its file dropped while it was overridden is restored. |
| `monitor_survives` | Can files be removed without downtime? (`server.rst:360`) | No: removal between listing and `getmtime`, or before `open`, ends the monitor. |
| `codec` | Does every structure come back from its encoding as it was, and is another implementation's encoding ever misread? | It does, but for what the conversions have no place for and the attributes the reader has no class for; none is. |
| `codec_identifier` | Is the identifier in Activate and Revoke optional for a client? (`client.rst:191`) | No: the server's reader refuses a request without it, which never gets to the ID placeholder. |
| `session` | Over one connection with timeouts: does every call get its own answer, every request get processed once and by whom it should, do calls and sessions end? | Yes; its own answer only as long as nothing times out. |
| `attributes` | Do the attribute operations change exactly what they answer for and only as the rules permit, over failed commits and crashes? Does a client that pages miss an object? | They do, and implement `AttributeTable`; it does not. |

The five runs that find a violation show where the code and what the repository says
of it disagree; "findings" in `PROJECT.json` quotes both.

### 3.1 Bounds, and why they are enough

* *Access*: two vCenters of one zone, one of another and a plain user; two groups;
  every combination of absent, owner-only and open sections, plus explicit
  disallowance and missing rules; one policy change per check. Object types and
  operations enter a decision only as the key of one look-up, so one of each
  suffices. Two groups are the least for which a change between two look-ups
  matters; a second change cannot bring in what a first did not, and the theorems
  hold for any number.
* *Engine*: two clients, neither of them a vCenter (zones are the subject of the
  access run). `engine_sessions` has two threads with batches of two items, so that
  identities can be mixed up, over one object with its key in the database, and two
  policies that the administrator exchanges: destruction by the owner, or by
  everyone. `engine_batches` has batches of two items over two objects, where one
  item's effect on the next (placeholder, broken session, error option) and the
  interplay of two objects (derivation, wrapping, key pairs) and of the two stores
  occur. A thread more adds nothing to that run: the lock holder runs alone, and the
  requests of two threads are also two requests of one.
  `MaxUid` bounds the rows ever inserted, `MaxSecrets` the secrets ever stored,
  `MaxBatch` the items; steps beyond the bounds are disabled, creation is still
  refused and the system does not stop.
* *Monitor*: three files for one policy, so that one version can be in force and two
  cached; four writes, which is enough to write every file and change one. A second,
  reserved policy may appear in the files. `MaxFiles` and `MaxTime` are bounds.
  Deadlock is not checked for the monitor: it may be stopped or dead, and the
  administrator has only `MaxTime` writes.
* *Session*: two calls (`MaxCalls`), the least for a late answer or a rest of a
  request to meet another one; a header of two units, so that it can be cut; a body
  of one, an answer shorter and one longer than an error, the longer one above
  `MaxResponse`. Certificates and chains of plugins as in `MCKmipSession`: every
  reason to refuse, and chains with no, one and two enabled plugins. It may stop
  when all calls are made, so deadlock is not checked.
* *Attributes*: two objects (`MaxUid`), lists of at most two instances
  (`MaxLength`), two dates (`MaxDate`); one list of names and one of groups, one
  column, and an attribute for each reason to refuse. Versions 1.0, 1.4 (the first
  with Sensitive) and 2.0. `PageSize` is 1, so that every object is a boundary. When
  all numbers are used and the batch is over there may be nothing to do: deadlock is
  not checked.
* *Codec*: structures do not interact, so the run goes through them one by one. With
  all versions at which one of its two methods, or a structure in it, changes
  (`ChangePoints`, which by `ChangesSettleVersions` stand for all versions), each
  optional field alone set and alone missing, lists of one and of two items. Pairs of
  optional fields (`MaxOptions = 2`) say nothing new: a method treats each field by
  itself, but for the few that ask for one of several. Five attributes stand for all,
  one for each thing the code does with them: with a class by name and by tag, by
  name only, none, no longer in KMIP 2.0, and without a tag. A list of attributes has
  two, one of them State. A foreign peer makes one change. An exchange ends, so
  deadlock is not checked.

### 3.2 Fairness

* `KmipEngine!FairSpec` has weak fairness of `Work(t)` for every thread: the
  operating system schedules the threads, and the calls a request makes return. This
  is an assumption on Barbican: the code calls it without a timeout, while the lock
  is held. Nothing is assumed of `Submit`, `ChangePolicies` and `Crash`. The
  property `LockReleased` asks only that a thread lets go of the lock; no fairness
  between threads that wait for it is assumed, since an RLock gives none.
* `PolicyMonitor!FairSpec` has weak fairness of `Scan`: the loop of `run` scans
  until it is stopped. The administrator writes at most `MaxTime` times, so the
  directory is at rest in the end; without that a monitor can never be said to have
  caught up.
* `KmipSession!FairSpec` has weak fairness of `ClientRead` and of `SessionStep`:
  both sockets have a timeout (30 s by default at the client, 10 s at the server),
  so a read or write that does not go on raises, and each of the two threads goes
  on. Nothing is assumed of the application: it need not call again nor close the
  connection, and `SessionEnds` is about a client that is gone.
* `AttributeStore` and `TtlvStructure` state no fairness: their questions are about
  safety.

## 4. Proofs

Checked by TLAPS, for every value of the constants that satisfies the assumptions
stated in the modules: any number of threads, clients, policies, files, objects,
attributes, calls, units of a message, plugins and structures. The assumptions say
what kind of value each constant has; `EngineAssumption` also that the three types
of keys and the operations the engine checks are among the types and operations of
the policies, `StoreAssumption` that the attributes of the model are some of those
in `AttributePolicy`.

**OperationPolicyProofs**
* `GrantSound`, `DenialSound`: `GrantedByOneVersion` and `DeniedByEveryGroup`.
  Neither is inductive: the invariant `CheckInv` adds that, while a check is
  pending, `seen` contains the policy as it is now and every group no longer to be
  tried was refused by a version in `seen`.
* `ZonesShare`: `ZoneSharesAccess`, from the lemma that `MatchOwner` does not tell
  hosts of a zone apart.
* `MostPermissiveWins`: `MostPermissiveGroupWins`. The invariant `OneVersion` says
  that while the policy has not changed only one version was seen; then a grant and
  a denial are those of that version, and `LoopFindsMostPermissive` says that the
  rule the documentation describes is the one at which the loop stops, whatever the
  order of the groups.
* `MoreGroupsMoreAccess`: the decision is monotone in the groups of the client.
* `GroupsIgnorePreset`: two policies that differ only in their preset rules decide
  alike for every client with group information. `PresetNotForGroups` says it of a
  check beside the monitor: such a client gets in only by the section of one of its
  groups. What `preset_fallback` shows for one policy is so for all.
* `TypeCorrect`.

**KmipEngineProofs**. The invariant `IInv` is `TypeOK`, the typing of the results
and `ServesLockHolder`. One lemma per action shows `Safe`: from `IInv`, the action
preserves `IInv` and is a step of `ObjectLifecycle` or a stutter. The two belong
together: that an inserted row maps to `Create` needs the part of `TypeOK` which
says that no row is at or beyond `nextUid` - the AUTOINCREMENT of the table - and
that a changed row maps to one identifier's move needs that the row is there, which
the guards give. From the lemmas:
* `TypeCorrect`: `Spec => []TypeOK`;
* `LockHolderServed`: `Spec => []ServesLockHolder`;
* `LifecycleImplemented`: `Spec => Lifecycle!Spec`, for any number of threads,
  clients, rows and batch items;
* `LifeNeverGoesBack`: what the life cycle means for one identifier, step by step: a
  gone object stays gone, a revoked one is never active again, an active one is
  revoked before it goes, and an identifier is used once.

**KmipStorageProofs** builds on these. Its central lemma, `NextChangesByUpdate`,
says that a stored object changes only by an item that found it accessible and
updates or deletes that row; each action has a lemma for it. With `ServesLockHolder`
it gives `OnlyAuthorisedChanges` (`ChangesAuthorised`), with the typing of rows
`StoredObjectsFixed` (`ObjectsFixed`). `AcknowledgedIsDurable` (`AckedDurable`)
follows from the invariant `RowsKept`: every identifier handed out has a row or is
in `destroyed`. That a step keeps it uses the refinement: an identifier that has no
row afterwards is "gone", and by `ObjectLifecycle` it was stored or gone before, so
the central lemma applies.

**KmipAnswerProofs** has what an answer is worth. Its invariant `AInv` adds to that
of `KmipEngineProofs`: `Answering` (the results a thread has collected fit the
request and how far it is), `CreatorOwns`, `StagedIsNew` (a key that `Create` has
put into Barbican is not yet referred to), `SecretsResolve`, and `Retired` (a
revoked object is deactivated, compromised or gone). Rather than every item with
every conjunct, every item is shown to have one of four shapes - it stores a key,
changes nothing that is stored, inserts rows, or changes one row - and each shape
keeps each conjunct. From it: `AnswersComplete` (a batch is cut short if a failed
item and the option STOP say so, and only then), `CreationIsOwned`,
`SecretsAreThere`, and `RevokedStaysUnused`, since `Retired` excludes the state that
encryption, decryption, signatures, MACs and wrapping ask for; of `DeriveKey`, which
asks for none, it says nothing.

Two more results are about steps. `CreatedKeysRetrievable`: Get can return a key
that `Create` stored, from the insertion of its row on and as long as the object
exists; what Get cannot return with Barbican enabled (`StoredKeysRetrievable`) was
registered or derived. It needs that a key being created was put into Barbican
(`StagedIsKey`), that secrets are only added, and that of a stored object only the
state changes. `HolderNearsItsEnd` is the safety half of `LockReleased`: the lock is
held only for a batch (`HeldForBatch`), each step of its holder gives it back or
lowers `StepsLeft`, which is at most twice the number of items and one, and no other
session, change of the policies or crash raises it. A crash, too, gives the lock
back.

**AttributeStoreProofs**. `OnlyWhatIsAnswered` needs to know what the database
session holds when it commits. `IInv` is
* `TypeInv`: the tables have their types, and (`Fresh`) a number that was not handed
  out has no rows in any table - without it a created object could come with the
  names of a destroyed one;
* `InStep`: when nothing is pending and the session is not broken, the session shows
  the committed tables;
* `OneAhead`: when an answer is pending, the session is ahead of the tables by what
  was asked for and is answered for (`AsAsked`), and by that only.

Each operation is shown to make one such change, and each change to be a step of
`AttributeTable`. From it: `CommitsWhatIsAnswered`, `DeletionIsShown`
(`DeletesWhatItShows`), `Implementation` (`ImplementsAttributeTable`),
`TypeCorrect`.

`PagesAreComplete` (`PagesMissNothing`) is about positions: an object's is the
number of matching objects that Locate puts before it. A page shows the objects
whose position is from its offset on and below its offset and size (`PageShows`);
since positions are all different and there are as many as objects, an empty page
means that none is at or beyond the offset (`PositionsFill`). `PagesInv` says that
what the client expects and has not seen still matches and is at or beyond the next
offset. That a commit keeps this needs `DatesKept`, that no operation changes the
date of an object: then an order among two objects stays, so if nothing that matched
is gone, what was before an object still is, and positions only grow
(`PositionsGrow`).

**KmipSessionProofs**. None of the properties of a connection is inductive: what a
reader takes for a message depends on what is left of earlier ones in the stream.
`IInv` describes the streams:
* `Typed`; `Framed`: what the session has read and what is still in the stream are
  units of requests, in the order in which they were sent, with gaps where a timeout
  threw some away;
* `Processed`: the numbers of the requests processed grow, and each comes before
  every request of which the session has a unit in hand or in the stream;
* `Told`: so does the request of each answer, and each answer is true of it;
* `Vouched`: nobody gets past the certificate unverified, and `IdentityVouched`;
* `Turns`: while nothing timed out, at most one message is under way, partly read
  and partly in the stream (`Split`): a waiting client's request, or the answer to
  it, or neither when the answer could not be sent; and otherwise both streams are
  empty.

Steps are put into shapes here, too: one end sends, reads, drops what it read,
decides what to answer, or keeps everything. From it: `RequestsProcessedOnce`,
`AnswersAreTrue`, `OnlyVouchedServed`, `AnswersFollowCalls`, `TypeCorrect`.

`EndsComeNearer` is the safety half of `CallsEnd` and `SessionEnds`. Each read of a
waiting client ends its call, passes from the header to the body, or has more of the
units it asked for, and nobody else touches the call. Once the client is gone, each
step of the session's thread leaves less on the stream, drops what it read
(`InHand`: beyond the header there is something to drop), or is at a later stage or
plugin; nothing else undoes that. So neither loops for ever on an end of stream, a
half message or a refusal.

**TtlvProofs** is about the program, whatever the tables: for a structure whose two
methods `Agree` on the fields of a version and on their conversions, what is read is
what the conversions leave of what was written (`AgreeingRoundTrip`), and it is
refused only for an attribute that the reader has no class for (`AgreeingReadable`).
Nothing is assumed of the conversions but that, for what the object holds, reading
leaves of the written what it should. The invariant says how far the reader has come
in the writer's items: it is at the field of the next item or at one before it, and
holds what it passed.

Whether the tables agree is a finite question, since the two methods only change
their course at the versions in their guards and those of the structures in them.
`ChangesSettleVersions`: at every version from 1.0 on, a structure's object can be
written, and its two ends agree over it, if and only if that is so at the last
change before it. `ChangesAgree` asks whether they agree at those versions over
every object offered that can be written there. From it follow, in any version,
`WhatIsSentAgrees` (`SentAgrees`) and `ChangesSettleExchanges` (`RoundTrip`,
`WrittenIsReadable` and `OneReading` without the premise `Agree`). The invariant for
the writer, `WriteInv`, says that the fields before its own have what write asks
for; an encoding that is sent is therefore `Writable`. `ChangesAgree` is not true of
all that the package could write: section 2.6 names the structures whose ends
disagree. That it is true of the others is what the run `codec` decides: it offers
them at all those versions and checks `SentAgrees`.

`AgreeingOneReading` is about an encoding that anybody may have made: nothing is
known of it but that it is a sequence of items, so the invariant, `ReadInv`, is about
the reader alone. What it holds has as many items as it has passed, and the item at
the place of each is the one that encodes it; one more item taken is one more entry,
after all others (`OneMoreHeld`). The premises are `Agree`, and `~Unwritten`: an item
that a reader takes and no writer of its version makes has no place among the
entries. `TypeCorrect` holds without either.

**PolicyMonitorProofs**. `DefinedPolicyServed` speaks of a monitor at rest; what
makes it true has to hold in the middle of a scan, too. `IInv` therefore adds to the
checked invariants:
* `DefinersKept`: a file that was read as it is now, and defines a policy, either is
  the one the policy is taken from or has a version in the cache; and a policy that
  waits to be restored or deleted is not taken from such a file - so that, if any
  other file defines it, there is a version to restore;
* `TimesInv`: no time stamp is later than the clock, so a file written now is newer
  than when it was seen, even one that was removed and came back between a listing
  and the forgetting of it;
* `ScanInv`: a file is read only when nothing waits to be forgotten or restored, and
  only if it was listed; reserved policies have neither file nor versions.

From `Inductive`, the invariance of all that: `NoPolicyLost`
(`DefinedPolicyServed`), `NoTraceOfRemovedFiles` (`SourcesTracked`),
`ReservedPoliciesFixed`, `DictionariesAgree` (`MapStoreAgree`), `TypeCorrect`. They
rest on `MonitorAssumption` and on the model's clock: equal modification times would
break `TimesInv`.

`ScansCatchUp` is the safety half of `CatchesUp`. While nobody touches the
directory, a scan stays `OnTrack`: it has listed the files that are there, and has
seen those it has looked at as they are. Each of its steps brings its end nearer
(`Nearer`: fewer files to forget, to look at or to read, or fewer policies to
restore), and its end finds the directory seen (`Settled`). An undisturbed scan dies
only of a file that is valid JSON but no table. That a file written again is noticed
needs `NotFromTheFuture`: no file is older than the monitor has seen it, also one
that was removed and came back.

**Only model-checked**: that the steps these three results count are taken, which
makes `LockReleased`, `CatchesUp`, `CallsEnd` and `SessionEnds` true under the
fairness of section 3.2 - TLAPS reasons neither about fairness nor about `ENABLED` -
and `ChangesAgree`, which is about the actual tables. The strengthened invariants and
these action properties were checked with TLC on small instances before they were
proved.

## 5. What is not modelled, and why

* *The encodings of single values* (`primitives.py`): lengths, padding, signs.
  Sequential functions of one value, with unit tests at their limits; the codec
  modules take an item as a whole.
* *Cryptography* (`crypto/engine.py`): the results are data to every property; the
  choice of algorithm, mode and padding is a sequential table over a library. In
  `KmipEngine` each operation succeeds or is refused.
* *Values of protocol versions and time stamps* in request headers: one
  nondeterministic refusal in `KmipEngine`. `Query` and `DiscoverVersions`: they
  neither read nor change state.
* *Barbican's authentication and HTTP errors*: one refusal of `Create` or `Get`.
  *SLUGS*: groups, or a failure.
* *Validation of pie objects and conversion between them, core objects and rows*:
  sequential, field by field.
* *The server's configuration, accept loop and health check*: validation of values,
  and a loop that only starts sessions. `stop` is in `KmipSession` as far as it
  concerns a session.
* *Equal or older modification times of policy files*: every write in
  `PolicyMonitor` gets a later time. A file moved into place with an older time is,
  by `monitor.py:96`, not read until it is written again.
* *The REST API and the demos*: stateless wrappers.
* *Two connections at once* are not composed with the engine on the level of
  streams: `KmipEngine` has the threads, `KmipSession` has the streams of one. They
  share only the engine, whose lock `ServesLockHolder` is about.

## 6. Possible extensions

* Encodings of single values as functions on widths (`% 2^w`), decoded again.
* The choice of algorithms and modes against the tables of the KMIP specification.
* Other clients that page, with several pages at once, and a bound on how often an
  object can be seen twice.

## 7. Running

    tlc -workers 2 -config MCEngineBatches.cfg MCKmipEngine
    tlc -workers 2 -config MCKmipSession.cfg MCKmipSession
    tlc -workers 2 -config MCTtlv.cfg MCTtlv
    tlapm KmipEngineProofs.tla
    tlapm KmipSessionProofs.tla

and likewise for the other MC and proof modules. The longest runs are
`codec` and `policy_monitor` (about 140 s each with two workers), `engine_sessions`
(about 125 s), `attributes` and `engine_batches` (about 100 s each); each proof
module takes about a minute.
