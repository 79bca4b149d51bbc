-------------------------- MODULE KmipEngineProofs --------------------------
(***************************************************************************)
(* Proofs about the engine, for any number of threads, clients, policies,  *)
(* identifiers and batch items: its state has its type, only the holder of *)
(* the lock is served, and the objects go through the life cycle that      *)
(* ObjectLifecycle promises, forwards.                                     *)
(***************************************************************************)
EXTENDS KmipEngine, TLAPS

OpNames == Creating \cup DOMAIN CryptoUses \cup
    {"Activate", "Revoke", "Destroy", "Get", "Wrap", "GetAttributes", "Locate", "Failed", "Error"}

ResultRecords == [op : OpNames, uids : SUBSET Uids, ok : BOOLEAN]

\* The results of a batch, which TypeOK bounds only by the uids they name.
ResultsOK == results \in [Threads -> Seq(ResultRecords)]

\* The inductive invariant: that a thread in its batch holds the lock is what
\* makes "the session is closed when the lock is free" inductive.
IInv == TypeOK /\ ResultsOK /\ ServesLockHolder

InEngine(t) == pc[t] \in {"batch", "creating"}

-----------------------------------------------------------------------------
(* What the stored objects are *)

\* An object that is found has been inserted.
LEMMA StoredIsBorn ==
    ASSUME IInv, NEW u, Stored(u)
    PROVE  u \in Uids /\ u \in 1..nextUid - 1 /\ db[u] \in Objects
BY EngineAssumption DEF IInv, TypeOK, Stored, Uids

\* What the creating operations insert is an object, and a new one.
LEMMA NewObjectType ==
    ASSUME IInv, NEW type \in ObjectTypes, NEW p \in PolicyNames,
           NEW m \in MaskChoices, NEW v \in 0..MaxSecrets
    PROVE  /\ NewObject(type, p, m, v) \in Objects
           /\ NewObject(type, p, m, v).state = IF type = "OpaqueData" THEN Stateless ELSE "PRE_ACTIVE"
<1>1. clientIdentity.user \in Users \cup {NoUser}
  BY EngineAssumption DEF IInv, TypeOK, Identities, Nameless
<1>2. m \in SUBSET Masks
  BY EngineAssumption
<1>3. QED
  BY <1>1, <1>2 DEF NewObject, Objects, States, Stateless

\* Uids handed out stay handed out.
LEMMA IntervalGrows ==
    ASSUME NEW a \in Nat, NEW b \in Nat, a <= b
    PROVE  1..a - 1 \subseteq 1..b - 1
OBVIOUS

\* Results name uids handed out.
ResultsBorn == \A t \in Threads : \A i \in DOMAIN results[t] :
                   results[t][i].uids \subseteq 1..nextUid - 1

\* One more result that names uids handed out keeps the results' type.
LEMMA ReportKeeps ==
    ASSUME IInv, NEW t \in Threads, NEW op \in OpNames, NEW uids \in SUBSET Uids,
           NEW ok \in BOOLEAN, Report(t, op, uids, ok),
           NEW next \in Nat, next = nextUid', nextUid <= next, uids \subseteq 1..next - 1
    PROVE  ResultsOK' /\ ResultsBorn'
<1> DEFINE r == Result(op, uids, ok)
<1>1. r \in ResultRecords /\ r.uids = uids
  BY DEF Result, ResultRecords
<1>2. results' = [results EXCEPT ![t] = Append(results[t], r)]
  BY DEF Report
<1>3. results \in [Threads -> Seq(ResultRecords)]
  BY DEF IInv, ResultsOK
<1> HIDE DEF r
<1>4. Append(results[t], r) \in Seq(ResultRecords)
  BY <1>1, <1>3
<1>5. ResultsOK'
  BY <1>2, <1>3, <1>4 DEF ResultsOK
<1>6. ASSUME NEW s \in Threads, NEW i \in DOMAIN results'[s]
      PROVE  results'[s][i].uids \subseteq 1..next - 1
  <2>1. \A j \in DOMAIN results[s] : results[s][j].uids \subseteq 1..next - 1
    <3>1. nextUid \in Nat
      BY EngineAssumption DEF IInv, TypeOK
    <3>2. 1..nextUid - 1 \subseteq 1..next - 1
      BY <3>1, IntervalGrows
    <3>3. \A j \in DOMAIN results[s] : results[s][j].uids \subseteq 1..nextUid - 1
      BY DEF IInv, TypeOK
    <3>4. QED
      BY <3>2, <3>3
  <2>2. CASE s # t
    BY <2>1, <2>2, <1>2, <1>3, <1>6
  <2>3. CASE s = t
    <3>1. results'[s] = Append(results[s], r)
      BY <1>2, <1>3, <2>3
    <3>2. CASE i \in DOMAIN results[s]
      BY <3>1, <3>2, <2>1, <1>3, <1>1
    <3>3. CASE i \notin DOMAIN results[s]
      <4>1. results[s] \in Seq(ResultRecords)
        BY <1>3
      <4>2. i = Len(results[s]) + 1
        BY <3>1, <3>3, <4>1, <1>1, <1>6
      <4>3. results'[s][i] = r
        BY <3>1, <4>1, <4>2, <1>1
      <4>4. QED
        BY <4>3, <1>1, <1>6
    <3>4. QED
      BY <3>2, <3>3
  <2>4. QED
    BY <2>2, <2>3
<1>7. QED
  BY <1>5, <1>6 DEF ResultsBorn

-----------------------------------------------------------------------------
(* What the ends of an operation preserve *)

Still == UNCHANGED <<db, nextUid>>

\* Every step must preserve the invariant and be a step of the life cycle, or
\* leave it alone.
Safe == IInv' /\ [Lifecycle!Next]_life

\* An item that fails before it writes keeps the invariant and the objects.
LEMMA RefuseKeeps ==
    ASSUME IInv, NEW t \in Threads, InEngine(t), Refuse(t)
    PROVE  IInv' /\ Still
<1>1. Report(t, "Failed", {}, FALSE) /\ UNCHANGED nextUid
  BY DEF Refuse, persistent
<1>2. nextUid \in Nat
  BY EngineAssumption DEF IInv, TypeOK
<1>3. ResultsOK' /\ ResultsBorn'
  <2>1. {} \in SUBSET Uids /\ {} \subseteq 1..nextUid - 1 /\ nextUid <= nextUid
    BY <1>2
  <2>2. "Failed" \in OpNames
    BY DEF OpNames
  <2>3. QED
    BY <1>1, <1>2, <2>1, <2>2, ReportKeeps
<1>4. UNCHANGED <<db, nextUid, lock, secrets, clientIdentity, request, policies, idPlaceholder>>
  BY DEF Refuse, persistent
<1>5. TypeOK'
  BY <1>3, <1>4, EngineAssumption DEF IInv, TypeOK, Refuse, history, InRow, InEngine, ServesLockHolder, ResultsBorn
<1>6. ServesLockHolder'
  BY DEF IInv, ServesLockHolder, InEngine, Refuse, TypeOK
<1>7. QED
  BY <1>3, <1>4, <1>5, <1>6 DEF IInv, Still

\* So does one whose commit fails; the database session stays open, or broken.
LEMMA CommitFailsKeeps ==
    ASSUME IInv, NEW t \in Threads, InEngine(t), CommitFails(t)
    PROVE  IInv' /\ Still
<1>1. Report(t, "Failed", {}, FALSE) /\ UNCHANGED nextUid
  BY DEF CommitFails, persistent
<1>2. nextUid \in Nat
  BY EngineAssumption DEF IInv, TypeOK
<1>3. ResultsOK' /\ ResultsBorn'
  <2>1. {} \in SUBSET Uids /\ {} \subseteq 1..nextUid - 1 /\ nextUid <= nextUid
    BY <1>2
  <2>2. "Failed" \in OpNames
    BY DEF OpNames
  <2>3. QED
    BY <1>1, <1>2, <2>1, <2>2, ReportKeeps
<1>4. UNCHANGED <<db, nextUid, lock, secrets, clientIdentity, request, policies, idPlaceholder>>
  BY DEF CommitFails, persistent
<1>5. TypeOK'
  BY <1>3, <1>4, EngineAssumption DEF IInv, TypeOK, CommitFails, history, InRow, InEngine, ServesLockHolder, ResultsBorn
<1>6. ServesLockHolder'
  BY DEF IInv, ServesLockHolder, InEngine, CommitFails, TypeOK
<1>7. QED
  BY <1>3, <1>4, <1>5, <1>6 DEF IInv, Still

\* So does one that only reads and answers about uids handed out.
LEMMA AnswerKeeps ==
    ASSUME IInv, NEW t \in Threads, NEW op \in OpNames,
           NEW uids \in SUBSET (1..nextUid - 1), Answer(t, op, uids)
    PROVE  IInv' /\ Still
<1>1. Report(t, op, uids, TRUE) /\ UNCHANGED nextUid
  BY DEF Answer, persistent
<1>2. nextUid \in Nat /\ uids \in SUBSET Uids
  <2>1. nextUid \in 1..MaxUid + 1 /\ MaxUid \in Nat
    BY EngineAssumption DEF IInv, TypeOK
  <2>2. QED
    BY <2>1 DEF Uids
<1>3. ResultsOK' /\ ResultsBorn'
  <2>1. nextUid <= nextUid /\ uids \subseteq 1..nextUid - 1
    BY <1>2
  <2>2. QED
    BY <1>1, <1>2, <2>1, ReportKeeps
<1>4. QED
  <2>1. UNCHANGED <<db, nextUid, secrets, policies, lock, clientIdentity, idPlaceholder,
                    session, staged, pc, request, acked, revoked, destroyed>>
    BY DEF Answer, persistent, engine, history
  <2>2. TypeOK'
    BY <1>3, <2>1 DEF IInv, TypeOK, ResultsBorn
  <2>3. ServesLockHolder'
    BY <2>1 DEF IInv, ServesLockHolder
  <2>4. QED
    BY <1>3, <2>1, <2>2, <2>3 DEF IInv, Still

\* Objects of one state are inserted: they appear at once, all in that phase.
LEMMA InsertIsSafe ==
    ASSUME IInv, NEW t \in Threads, InEngine(t), NEW op \in OpNames,
           NEW objs \in Seq(Objects), NEW k \in 1..Len(objs),
           NEW phase \in {"PRE_ACTIVE", "STATELESS"},
           \A i \in 1..Len(objs) : objs[i].state = phase,
           Insert(t, op, objs, k)
    PROVE  Safe
<1> DEFINE new == nextUid .. nextUid + Len(objs) - 1
<1>1. /\ nextUid \in Nat /\ Len(objs) \in Nat /\ MaxUid \in Nat
      /\ nextUid' = nextUid + Len(objs)
      /\ new \subseteq Uids
      /\ nextUid \in 1..MaxUid
      /\ nextUid' \in 1..MaxUid + 1
      /\ db' = [u \in Uids |-> IF u \in new THEN objs[u - nextUid + 1] ELSE db[u]]
  <2>1. nextUid \in Nat /\ nextUid >= 1 /\ MaxUid \in Nat /\ Len(objs) \in Nat
    BY EngineAssumption DEF IInv, TypeOK
  <2>2. /\ nextUid' = nextUid + Len(objs)
        /\ new \subseteq Uids
        /\ db' = [u \in Uids |-> IF u \in new THEN objs[u - nextUid + 1] ELSE db[u]]
    BY DEF Insert
  <2>3. nextUid \in new /\ nextUid + Len(objs) - 1 \in new
    BY <2>1
  <2> HIDE DEF new
  <2>4. nextUid <= MaxUid /\ nextUid + Len(objs) - 1 <= MaxUid
    <3>1. nextUid \in Uids /\ nextUid + Len(objs) - 1 \in Uids
      BY <2>2, <2>3
    <3>2. QED
      BY <3>1, <2>1 DEF Uids
  <2>5. QED
    BY <2>1, <2>2, <2>4
<1>2. \A u \in new : u - nextUid + 1 \in 1..Len(objs)
  BY <1>1
<1>3. \A u \in new : objs[u - nextUid + 1] \in Objects /\ objs[u - nextUid + 1].state = phase
  BY <1>2
<1>4. ResultsOK' /\ ResultsBorn'
  <2>1. Report(t, op, new, TRUE)
    BY DEF Insert
  <2>2. /\ new \subseteq 1..(nextUid + Len(objs)) - 1
        /\ nextUid <= nextUid + Len(objs) /\ nextUid + Len(objs) \in Nat
    BY <1>1
  <2>3. QED
    BY <1>1, <2>1, <2>2, ReportKeeps
<1>5. db' \in [Uids -> Objects \cup {NoObject}]
  BY <1>1, <1>3 DEF IInv, TypeOK
<1>6. \A u \in Uids : u >= nextUid' => db'[u] = NoObject
  BY <1>1 DEF IInv, TypeOK, Uids
<1>7. IInv'
  <2>1. /\ pc' = [pc EXCEPT ![t] = "batch"] /\ staged' = 0
        /\ idPlaceholder' = nextUid + k - 1
        /\ UNCHANGED <<secrets, policies, lock, clientIdentity, session, request, history>>
    BY DEF Insert, InRow
  <2>2. idPlaceholder' \in 0..nextUid' - 1
    BY <1>1, <2>1
  <2>3. 1..nextUid - 1 \subseteq 1..nextUid' - 1
    BY <1>1
  <2>4. acked' \cup revoked' \cup destroyed' \subseteq 1..nextUid' - 1
    BY <2>1, <2>3 DEF IInv, TypeOK, history
  <2>5. staged' \in 0..MaxSecrets
    BY <2>1, EngineAssumption
  <2>6. pc' \in [Threads -> {"idle", "waiting", "batch", "creating", "answered"}]
    BY <2>1 DEF IInv, TypeOK
  <2>7. TypeOK'
    BY <1>1, <1>4, <1>5, <1>6, <2>1, <2>2, <2>4, <2>5, <2>6 DEF IInv, TypeOK, ResultsBorn
  <2>8. ServesLockHolder'
    BY <2>1 DEF IInv, TypeOK, ServesLockHolder, InEngine
  <2>9. QED
    BY <1>4, <2>7, <2>8 DEF IInv
<1>8. \A u \in new : life[u] = "unborn"
  BY <1>1 DEF life
<1>9. life' = [u \in Uids |-> IF u \in new THEN phase ELSE life[u]]
  <2>1. ASSUME NEW u \in Uids
        PROVE  life'[u] = IF u \in new THEN phase ELSE life[u]
    <3>1. u \in Nat
      BY DEF Uids
    <3>2. CASE u \in new
      <4>1. db'[u] \in Objects /\ db'[u].state = phase /\ ~(u >= nextUid')
        BY <3>1, <3>2, <1>1, <1>3
      <4>2. QED
        BY <4>1, <3>2, NoObjectIsNone DEF life
    <3>3. CASE u \notin new
      <4>1. db'[u] = db[u] /\ (u >= nextUid <=> u >= nextUid')
        BY <3>1, <3>3, <1>1
      <4>2. QED
        BY <4>1, <3>3 DEF life
    <3>4. QED
      BY <3>2, <3>3
  <2>2. life' = [u \in Uids |-> life'[u]]
    BY DEF life
  <2> HIDE DEF new
  <2>3. QED
    BY <2>1, <2>2
<1>10. Lifecycle!Create(new)
  <2>1. new \subseteq Uids
    BY <1>1
  <2> HIDE DEF new
  <2>2. QED
    BY <2>1, <1>8, <1>9 DEF Lifecycle!Create, Lifecycle!Uids, Uids
<1>11. Lifecycle!Next
  BY <1>1, <1>10 DEF Lifecycle!Next, Lifecycle!Uids, Uids
<1>12. QED
  BY <1>7, <1>11 DEF Safe

\* The phase of a stored uid after its row is changed or deleted.
LEMMA UpdateKeeps ==
    ASSUME IInv, NEW t \in Threads, NEW op \in {"Activate", "Revoke", "Destroy"},
           NEW u, Stored(u), NEW row \in Objects \cup {NoObject}, Update(t, op, u, row)
    PROVE  IInv' /\ life' = [life EXCEPT ![u] = IF row = NoObject THEN "gone" ELSE row.state]
<1>1. /\ u \in Uids /\ u \in 1..nextUid - 1 /\ nextUid \in Nat
      /\ {u} \in SUBSET Uids /\ op \in OpNames
      /\ nextUid <= nextUid /\ {u} \subseteq 1..nextUid - 1
  BY StoredIsBorn, EngineAssumption DEF OpNames, IInv, TypeOK
<1>2. UNCHANGED <<nextUid, secrets, policies, lock, clientIdentity, idPlaceholder,
                  session, staged, pc, request, acked>>
  BY DEF Update, engine
<1>3. db' = [db EXCEPT ![u] = row]
  BY DEF Update
<1>4. ResultsOK' /\ ResultsBorn'
  <2>1. Report(t, op, {u}, TRUE)
    BY DEF Update
  <2>2. QED
    BY <1>1, <1>2, <2>1, ReportKeeps
<1>5. TypeOK'
  <2>1. db' \in [Uids -> Objects \cup {NoObject}]
    BY <1>3 DEF IInv, TypeOK
  <2>2. ~(u >= nextUid)
    BY <1>1
  <2>3. \A v \in Uids : v >= nextUid => db'[v] = NoObject
    BY <1>3, <2>2 DEF IInv, TypeOK
  <2>4. revoked' \subseteq 1..nextUid - 1 /\ destroyed' \subseteq 1..nextUid - 1
    BY <1>1 DEF IInv, TypeOK, Update
  <2>5. QED
    BY <1>2, <1>4, <2>1, <2>3, <2>4 DEF IInv, TypeOK, ResultsBorn
<1>6. ServesLockHolder'
  BY <1>2 DEF IInv, ServesLockHolder
<1>7. life' = [life EXCEPT ![u] = IF row = NoObject THEN "gone" ELSE row.state]
  <2>1. ~(u >= nextUid)
    BY <1>1
  <2>2. QED
    BY <1>2, <1>3, <2>1, <1>1 DEF life, IInv, TypeOK
<1>8. QED
  BY <1>4, <1>5, <1>6, <1>7 DEF IInv

-----------------------------------------------------------------------------
(* The steps of an operation are safe *)

\* A step that leaves the objects alone does nothing to their life cycle.
LEMMA StillIsSafe ==
    ASSUME IInv', Still
    PROVE  Safe
BY DEF Still, Safe, life

\* One object at a time.
LEMMA InsertOneIsSafe ==
    ASSUME IInv, NEW t \in Threads, InEngine(t), NEW op \in Creating,
           NEW type \in ObjectTypes, NEW p \in PolicyNames, NEW m \in MaskChoices,
           NEW v \in 0..MaxSecrets, Insert(t, op, <<NewObject(type, p, m, v)>>, 1)
    PROVE  Safe
<1> DEFINE new == NewObject(type, p, m, v)
<1>1. new \in Objects /\ new.state \in {"PRE_ACTIVE", "STATELESS"}
  BY NewObjectType DEF Stateless
<1>2. Insert(t, op, <<new>>, 1) /\ op \in OpNames
  BY DEF OpNames
<1> HIDE DEF new
<1>3. /\ <<new>> \in Seq(Objects) /\ 1 \in 1..Len(<<new>>)
      /\ \A i \in 1..Len(<<new>>) : <<new>>[i].state = new.state
  BY <1>1
<1>4. QED
  BY <1>1, <1>2, <1>3, InsertIsSafe

\* A thread works on its batch only while it is in the engine.
LEMMA InBatchInEngine ==
    ASSUME NEW t, InBatch(t)
    PROVE  InEngine(t)
BY DEF InBatch, InEngine

\* The three ends of an operation above, as safe steps.
LEMMA RefuseIsSafe ==
    ASSUME IInv, NEW t \in Threads, InEngine(t), Refuse(t)
    PROVE  Safe
BY RefuseKeeps, StillIsSafe

\* A failed commit is safe.
LEMMA CommitFailsIsSafe ==
    ASSUME IInv, NEW t \in Threads, InEngine(t), CommitFails(t)
    PROVE  Safe
BY CommitFailsKeeps, StillIsSafe

\* A read-only answer is safe.
LEMMA AnswerIsSafe ==
    ASSUME IInv, NEW t \in Threads, NEW op \in OpNames,
           NEW uids \in SUBSET (1..nextUid - 1), Answer(t, op, uids)
    PROVE  Safe
BY AnswerKeeps, StillIsSafe

\* An answer about one object that is stored.
LEMMA AnswerOneIsSafe ==
    ASSUME IInv, NEW t \in Threads, NEW op \in OpNames, NEW u, NEW about,
           Accessible(u, about), Answer(t, op, {u})
    PROVE  Safe
<1>1. {u} \in SUBSET (1..nextUid - 1)
  BY StoredIsBorn DEF Accessible
<1>2. QED
  BY <1>1, AnswerIsSafe

-----------------------------------------------------------------------------
(* The operations that create *)

\* Create, first half: only Barbican and the key being created change.
LEMMA StoreKeyIsSafe ==
    ASSUME IInv, NEW t \in Threads, StoreKey(t)
    PROVE  Safe
<1>1. Still /\ UNCHANGED <<policies, lock, clientIdentity, idPlaceholder, session, request,
                           results, acked, revoked, destroyed>>
  BY DEF StoreKey, Still, history
<1>2. secrets' \in 0..MaxSecrets /\ staged' \in 0..MaxSecrets /\ secrets <= secrets'
  <2>1. CASE Barbican
    BY <2>1, EngineAssumption DEF StoreKey, IInv, TypeOK
  <2>2. CASE ~Barbican
    BY <2>2, EngineAssumption DEF StoreKey, IInv, TypeOK, InRow
  <2>3. QED
    BY <2>1, <2>2
<1>3. pc' = [pc EXCEPT ![t] = "creating"] /\ pc[t] = "batch"
  BY DEF StoreKey, InBatch
<1>4. TypeOK'
  BY <1>1, <1>2, <1>3 DEF IInv, TypeOK, Still
<1>5. ServesLockHolder'
  BY <1>1, <1>3 DEF IInv, TypeOK, ServesLockHolder
<1>6. ResultsOK'
  BY <1>1 DEF IInv, ResultsOK
<1>7. QED
  BY <1>1, <1>4, <1>5, <1>6, StillIsSafe DEF IInv

\* Create, second half: the row gets the key stored before.
LEMMA CreateRowIsSafe ==
    ASSUME IInv, NEW t \in Threads, CreateRow(t)
    PROVE  Safe
<1>1. InEngine(t)
  BY DEF CreateRow, InEngine
<1>2. CASE \E p \in PolicyNames, m \in MaskChoices :
              Insert(t, "Create", <<NewObject("SymmetricKey", p, m, staged)>>, 1)
  <2>1. "SymmetricKey" \in ObjectTypes /\ staged \in 0..MaxSecrets /\ "Create" \in Creating
    BY EngineAssumption DEF IInv, TypeOK, Creating
  <2>2. QED
    BY <1>1, <1>2, <2>1, InsertOneIsSafe
<1>3. QED
  BY <1>1, <1>2, CommitFailsIsSafe, RefuseIsSafe DEF CreateRow

\* The halves of a key pair are inserted together, in either order.
LEMMA CreateKeyPairIsSafe ==
    ASSUME IInv, NEW t \in Threads, CreateKeyPair(t)
    PROVE  Safe
<1>1. InEngine(t)
  BY InBatchInEngine DEF CreateKeyPair
<1>2. ASSUME NEW p \in [1..2 -> PolicyNames], NEW m \in [1..2 -> MaskChoices],
             NEW private \in 1..2, NEW first, NEW second,
             first = NewObject(IF 1 = private THEN "PrivateKey" ELSE "PublicKey", p[1], m[1], InRow),
             second = NewObject(IF 2 = private THEN "PrivateKey" ELSE "PublicKey", p[2], m[2], InRow),
             Insert(t, "CreateKeyPair", <<first, second>>, private)
      PROVE  Safe
  <2>1. ASSUME NEW type \in {"PrivateKey", "PublicKey"}, NEW i \in 1..2
        PROVE  /\ NewObject(type, p[i], m[i], InRow) \in Objects
               /\ NewObject(type, p[i], m[i], InRow).state = "PRE_ACTIVE"
    <3>1. type \in ObjectTypes /\ InRow \in 0..MaxSecrets /\ type # "OpaqueData"
      BY <2>1, EngineAssumption DEF InRow
    <3>2. p[i] \in PolicyNames /\ m[i] \in MaskChoices
      BY <1>2, <2>1
    <3>3. QED
      BY <3>1, <3>2, NewObjectType
  <2>2. first \in Objects /\ first.state = "PRE_ACTIVE"
    BY <1>2, <2>1
  <2>3. second \in Objects /\ second.state = "PRE_ACTIVE"
    BY <1>2, <2>1
  <2>4. /\ <<first, second>> \in Seq(Objects) /\ private \in 1..Len(<<first, second>>)
        /\ \A i \in 1..Len(<<first, second>>) : <<first, second>>[i].state = "PRE_ACTIVE"
    BY <2>2, <2>3
  <2>5. "CreateKeyPair" \in OpNames
    BY DEF OpNames, Creating
  <2>6. QED
    BY <1>1, <1>2, <2>4, <2>5, InsertIsSafe
<1>3. QED
  BY <1>1, <1>2, CommitFailsIsSafe, RefuseIsSafe DEF CreateKeyPair

\* Register inserts one object of any type.
LEMMA RegisterIsSafe ==
    ASSUME IInv, NEW t \in Threads, Register(t)
    PROVE  Safe
<1>1. InEngine(t)
  BY InBatchInEngine DEF Register
<1>2. CASE \E type \in RegisterTypes, p \in PolicyNames, m \in MaskChoices :
              Insert(t, "Register", <<NewObject(type, p, m, InRow)>>, 1)
  <2>1. RegisterTypes \subseteq ObjectTypes /\ InRow \in 0..MaxSecrets /\ "Register" \in Creating
    BY EngineAssumption DEF InRow, Creating
  <2>2. QED
    BY <1>1, <1>2, <2>1, InsertOneIsSafe
<1>3. QED
  BY <1>1, <1>2, CommitFailsIsSafe, RefuseIsSafe DEF Register

\* DeriveKey inserts one key or secret.
LEMMA DeriveKeyIsSafe ==
    ASSUME IInv, NEW t \in Threads, DeriveKey(t)
    PROVE  Safe
<1>1. InEngine(t)
  BY InBatchInEngine DEF DeriveKey
<1>2. CASE \E type \in ObjectTypes \cap {"SymmetricKey", "SecretData"},
               p \in PolicyNames, m \in MaskChoices :
              Insert(t, "DeriveKey", <<NewObject(type, p, m, InRow)>>, 1)
  <2>1. InRow \in 0..MaxSecrets /\ "DeriveKey" \in Creating
    BY EngineAssumption DEF InRow, Creating
  <2>2. QED
    BY <1>1, <1>2, <2>1, InsertOneIsSafe
<1>3. QED
  BY <1>1, <1>2, CommitFailsIsSafe, RefuseIsSafe DEF DeriveKey

-----------------------------------------------------------------------------
(* The operations that change or destroy an object *)

\* The phase of a stored object is its state.
LEMMA StoredPhase ==
    ASSUME IInv, NEW u, Stored(u)
    PROVE  /\ u \in Uids /\ db[u] \in Objects /\ life[u] = db[u].state
           /\ db[u].state \in {"PRE_ACTIVE", "ACTIVE", "DEACTIVATED", "COMPROMISED", "STATELESS"}
<1>1. u \in Uids /\ u \in 1..nextUid - 1 /\ db[u] \in Objects
  BY StoredIsBorn
<1>2. ~(u >= nextUid)
  BY <1>1, EngineAssumption DEF IInv, TypeOK
<1>3. QED
  BY <1>1, <1>2, NoObjectIsNone DEF life, Objects, States, Stateless

\* A change of state, seen as a step of the life cycle.
LEMMA MoveIsSafe ==
    ASSUME IInv, NEW t \in Threads, NEW op \in {"Activate", "Revoke", "Destroy"},
           NEW u, Stored(u), NEW row \in Objects \cup {NoObject}, Update(t, op, u, row),
           NEW from, NEW to, db[u].state \in from,
           to = IF row = NoObject THEN "gone" ELSE row.state
    PROVE  IInv' /\ u \in Lifecycle!Uids /\ Lifecycle!Move(u, from, to)
BY UpdateKeeps, StoredPhase DEF Lifecycle!Move, Lifecycle!Uids, Uids

\* Activate takes a PRE_ACTIVE object to ACTIVE.
LEMMA ActivateIsSafe ==
    ASSUME IInv, NEW t \in Threads, NEW named, Activate(t, named)
    PROVE  Safe
<1> DEFINE u == Target(named)
<1>1. InEngine(t)
  BY InBatchInEngine DEF Activate
<1>2. CASE /\ Accessible(u, "Activate") /\ Activatable(u)
           /\ Update(t, "Activate", u, [db[u] EXCEPT !.state = "ACTIVE"])
  <2> DEFINE row == [db[u] EXCEPT !.state = "ACTIVE"]
  <2>1. Stored(u) /\ db[u].state = "PRE_ACTIVE"
    BY <1>2 DEF Accessible, Activatable
  <2> HIDE DEF u
  <2>2. row \in Objects /\ row.state = "ACTIVE"
    BY <2>1, StoredPhase DEF Objects, States
  <2>3. Update(t, "Activate", u, row)
    BY <1>2
  <2> HIDE DEF row
  <2>4. IInv' /\ u \in Lifecycle!Uids /\ Lifecycle!Move(u, {"PRE_ACTIVE"}, "ACTIVE")
    BY <2>1, <2>2, <2>3, NoObjectIsNone, MoveIsSafe
  <2>5. QED
    BY <2>4 DEF Safe, Lifecycle!Next, Lifecycle!Activate
<1>3. QED
  BY <1>1, <1>2, CommitFailsIsSafe, RefuseIsSafe DEF Activate

\* Revoke takes an ACTIVE object to DEACTIVATED, or any to COMPROMISED.
LEMMA RevokeIsSafe ==
    ASSUME IInv, NEW t \in Threads, NEW named, NEW c \in BOOLEAN, Revoke(t, named, c)
    PROVE  Safe
<1> DEFINE u == Target(named)
<1>1. InEngine(t)
  BY InBatchInEngine DEF Revoke
<1>2. CASE /\ Accessible(u, "Revoke") /\ Revocable(u, c)
           /\ Update(t, "Revoke", u, [db[u] EXCEPT !.state = RevokedState(c)])
  <2> DEFINE row == [db[u] EXCEPT !.state = RevokedState(c)]
  <2>1. Stored(u) /\ db[u].state \in IF c THEN States ELSE {"ACTIVE"}
    BY <1>2 DEF Accessible, Revocable
  <2> HIDE DEF u
  <2>2. row \in Objects /\ row.state = RevokedState(c)
    BY <2>1, StoredPhase DEF Objects, States, RevokedState
  <2>3. Update(t, "Revoke", u, row)
    BY <1>2
  <2> HIDE DEF row
  <2>4. CASE c
    <3>1. IInv' /\ u \in Lifecycle!Uids /\ Lifecycle!Move(u, States, "COMPROMISED")
      BY <2>1, <2>2, <2>3, <2>4, NoObjectIsNone, MoveIsSafe DEF RevokedState
    <3>2. QED
      BY <3>1 DEF Safe, Lifecycle!Next, Lifecycle!Compromise, States
  <2>5. CASE ~c
    <3>1. IInv' /\ u \in Lifecycle!Uids /\ Lifecycle!Move(u, {"ACTIVE"}, "DEACTIVATED")
      BY <2>1, <2>2, <2>3, <2>5, NoObjectIsNone, MoveIsSafe DEF RevokedState
    <3>2. QED
      BY <3>1 DEF Safe, Lifecycle!Next, Lifecycle!Deactivate
  <2>6. QED
    BY <2>4, <2>5
<1>3. QED
  BY <1>1, <1>2, CommitFailsIsSafe, RefuseIsSafe DEF Revoke

\* Destroy deletes an object that is not ACTIVE.
LEMMA DestroyIsSafe ==
    ASSUME IInv, NEW t \in Threads, NEW named, Destroy(t, named)
    PROVE  Safe
<1> DEFINE u == Target(named)
<1>1. InEngine(t)
  BY InBatchInEngine DEF Destroy
<1>2. CASE /\ Accessible(u, "Destroy") /\ Destroyable(u)
           /\ Update(t, "Destroy", u, NoObject)
  <2> DEFINE from == {"PRE_ACTIVE", "DEACTIVATED", "COMPROMISED", "STATELESS"}
  <2>1. Stored(u) /\ db[u].state # "ACTIVE"
    BY <1>2 DEF Accessible, Destroyable
  <2>2. Update(t, "Destroy", u, NoObject)
    BY <1>2
  <2> HIDE DEF u
  <2>3. db[u].state \in from
    BY <2>1, StoredPhase
  <2>4. IInv' /\ u \in Lifecycle!Uids /\ Lifecycle!Move(u, from, "gone")
    BY <2>1, <2>2, <2>3, MoveIsSafe
  <2>5. QED
    BY <2>4 DEF Safe, Lifecycle!Next, Lifecycle!Destroy
<1>3. QED
  BY <1>1, <1>2, CommitFailsIsSafe, RefuseIsSafe DEF Destroy

-----------------------------------------------------------------------------
(* The operations that read *)

\* Get answers about a stored object, or about the key that wraps it.
LEMMA GetIsSafe ==
    ASSUME IInv, NEW t \in Threads, NEW named, NEW wrap, Get(t, named, wrap)
    PROVE  Safe
<1>1. InEngine(t) /\ "Get" \in OpNames /\ "Wrap" \in OpNames
  BY InBatchInEngine DEF Get, OpNames
<1>2. CASE Accessible(Target(named), "Get") /\ Answer(t, "Get", {Target(named)})
  BY <1>1, <1>2, AnswerOneIsSafe
<1>3. CASE CanWrap(wrap) /\ Answer(t, "Wrap", {wrap})
  BY <1>1, <1>3, AnswerOneIsSafe DEF CanWrap
<1>4. QED
  BY <1>1, <1>2, <1>3, RefuseIsSafe DEF Get

\* GetAttributes and GetAttributeList answer about a stored object.
LEMMA GetAttributesIsSafe ==
    ASSUME IInv, NEW t \in Threads, NEW named, GetAttributes(t, named)
    PROVE  Safe
<1>1. InEngine(t) /\ "GetAttributes" \in OpNames
  BY InBatchInEngine DEF GetAttributes, OpNames
<1>2. QED
  BY <1>1, AnswerOneIsSafe, RefuseIsSafe DEF GetAttributes

\* Locate answers with stored objects.
LEMMA LocateIsSafe ==
    ASSUME IInv, NEW t \in Threads, Locate(t)
    PROVE  Safe
<1>1. InEngine(t) /\ "Locate" \in OpNames
  BY InBatchInEngine DEF Locate, OpNames
<1>2. {u \in Uids : Accessible(u, "Locate")} \subseteq 1..nextUid - 1
  BY StoredIsBorn DEF Accessible
<1>3. QED
  BY <1>1, <1>2, AnswerIsSafe, RefuseIsSafe DEF Locate

\* The cryptographic operations answer about the key they use.
LEMMA UseKeyIsSafe ==
    ASSUME IInv, NEW t \in Threads, NEW named, NEW op \in DOMAIN CryptoUses,
           UseKey(t, named, op)
    PROVE  Safe
<1>1. InEngine(t) /\ op \in OpNames
  BY InBatchInEngine DEF UseKey, OpNames
<1>2. QED
  BY <1>1, AnswerOneIsSafe, RefuseIsSafe DEF UseKey, Usable

-----------------------------------------------------------------------------
(* The request as a whole *)

\* Nobody is served while the lock is free.
LEMMA FreeLockServesNobody ==
    ASSUME IInv, lock = Nobody, NEW t \in Threads
    PROVE  ~InEngine(t)
BY EngineAssumption DEF IInv, ServesLockHolder, InEngine

\* The response to a request that fails as a whole is one result.
LEMMA ErrorResponseType == ErrorResponse \in Seq(ResultRecords) /\ ErrorResponse[1].uids = {}
                           /\ DOMAIN ErrorResponse = {1}
<1> DEFINE r == Result("Error", {}, FALSE)
<1>1. r \in ResultRecords /\ r.uids = {}
  BY DEF Result, ResultRecords, OpNames
<1>2. ErrorResponse = <<r>>
  BY DEF ErrorResponse
<1> HIDE DEF r
<1>3. QED
  BY <1>1, <1>2

\* The results of one thread are replaced by an error, or dropped.
LEMMA ReplaceResults ==
    ASSUME IInv, NEW t \in Threads, NEW rs \in {ErrorResponse, <<>>},
           results' = [results EXCEPT ![t] = rs], UNCHANGED nextUid
    PROVE  ResultsOK' /\ ResultsBorn'
<1>1. rs \in Seq(ResultRecords) /\ \A i \in DOMAIN rs : rs[i].uids = {}
  <2>1. CASE rs = ErrorResponse
    BY <2>1, ErrorResponseType
  <2>2. CASE rs = <<>>
    BY <2>2
  <2>3. QED
    BY <2>1, <2>2
<1>2. QED
  BY <1>1 DEF IInv, TypeOK, ResultsOK, ResultsBorn

\* A request is read: the thread is not in the engine yet.
LEMMA SubmitIsSafe ==
    ASSUME IInv, NEW t \in Threads, NEW r \in Requests, Submit(t, r)
    PROVE  Safe
<1>1. UNCHANGED <<persistent, policies, engine, history>>
  BY DEF Submit
<1>2. ResultsOK' /\ ResultsBorn'
  BY <1>1, ReplaceResults DEF Submit, persistent
<1>3. TypeOK'
  BY <1>1, <1>2 DEF IInv, TypeOK, Submit, persistent, engine, history, ResultsBorn
<1>4. ServesLockHolder'
  BY <1>1 DEF IInv, TypeOK, ServesLockHolder, Submit, engine
<1>5. QED
  BY <1>1, <1>2, <1>3, <1>4, StillIsSafe DEF IInv, Still, persistent

\* The lock is taken, and the identity is the client's from then on.
LEMMA StartIsSafe ==
    ASSUME IInv, NEW t \in Threads, Start(t)
    PROVE  Safe
<1>1. UNCHANGED <<persistent, policies, idPlaceholder, staged, request, results, history>>
  BY DEF Start
<1>2. \A s \in Threads : ~InEngine(s)
  BY FreeLockServesNobody DEF Start
<1>3. t # Nobody /\ request[t].identity \in Clients \cup {Nameless}
  BY EngineAssumption DEF IInv, TypeOK, Requests, NoRequest
<1>4. TypeOK'
  BY <1>1, <1>3 DEF IInv, TypeOK, Start, persistent, history
<1>5. ServesLockHolder'
  BY <1>1, <1>2 DEF IInv, TypeOK, ServesLockHolder, InEngine, Start
<1>6. QED
  BY <1>1, <1>4, <1>5, StillIsSafe DEF IInv, ResultsOK, Still, persistent

\* The identity may change under a free lock: nobody relies on it.
LEMMA RejectHeaderIsSafe ==
    ASSUME IInv, NEW t \in Threads, RejectHeader(t)
    PROVE  Safe
<1>1. UNCHANGED <<persistent, policies, lock, idPlaceholder, session, staged, request, history>>
  BY DEF RejectHeader
<1>2. ResultsOK' /\ ResultsBorn'
  BY <1>1, ReplaceResults DEF RejectHeader, persistent
<1>3. clientIdentity' \in Clients \cup {Nameless}
  BY DEF RejectHeader, IInv, TypeOK, Requests, NoRequest
<1>4. TypeOK'
  BY <1>1, <1>2, <1>3 DEF IInv, TypeOK, RejectHeader, persistent, history, ResultsBorn
<1>5. ServesLockHolder'
  <2>1. \A s \in Threads : ~InEngine(s)
    BY FreeLockServesNobody DEF RejectHeader
  <2>2. QED
    BY <2>1 DEF IInv, TypeOK, ServesLockHolder, InEngine, RejectHeader
<1>6. QED
  BY <1>1, <1>2, <1>4, <1>5, StillIsSafe DEF IInv, Still, persistent

\* The thread that leaves held the lock, so no other is in its batch.
LEMMA LeaveIsSafe ==
    ASSUME IInv, NEW t \in Threads, InEngine(t), Leave(t), ResultsOK', ResultsBorn'
    PROVE  Safe
<1>1. UNCHANGED <<persistent, policies, clientIdentity, idPlaceholder, staged, request, history>>
  BY DEF Leave
<1>2. TypeOK'
  BY <1>1 DEF IInv, TypeOK, Leave, persistent, history, ResultsBorn
<1>3. ServesLockHolder'
  BY DEF IInv, TypeOK, ServesLockHolder, InEngine, Leave
<1>4. QED
  BY <1>1, <1>2, <1>3, StillIsSafe DEF IInv, Still, persistent

\* A batch item without its ID ends the batch with an error.
LEMMA MissingBatchItemIdIsSafe ==
    ASSUME IInv, NEW t \in Threads, MissingBatchItemId(t)
    PROVE  Safe
<1>1. InEngine(t) /\ Leave(t) /\ UNCHANGED nextUid
  BY InBatchInEngine DEF MissingBatchItemId, Leave, persistent
<1>2. ResultsOK' /\ ResultsBorn'
  BY <1>1, ReplaceResults DEF MissingBatchItemId
<1>3. QED
  BY <1>1, <1>2, LeaveIsSafe

\* A batch that is over ends with the results it has.
LEMMA FinishIsSafe ==
    ASSUME IInv, NEW t \in Threads, Finish(t)
    PROVE  Safe
<1>1. InEngine(t) /\ Leave(t) /\ UNCHANGED <<nextUid, results>>
  BY DEF Finish, InEngine, Leave, persistent
<1>2. ResultsOK' /\ ResultsBorn'
  BY <1>1 DEF IInv, TypeOK, ResultsOK, ResultsBorn
<1>3. QED
  BY <1>1, <1>2, LeaveIsSafe

\* The response is sent, and what the client learns is remembered.
LEMMA DeliverIsSafe ==
    ASSUME IInv, NEW t \in Threads, Deliver(t)
    PROVE  Safe
<1>1. UNCHANGED <<persistent, policies, engine, revoked, destroyed>>
  BY DEF Deliver
<1>2. ResultsOK' /\ ResultsBorn'
  BY <1>1, ReplaceResults DEF Deliver, persistent
<1>3. CreatedIn(results[t]) \subseteq 1..nextUid - 1
  BY DEF IInv, TypeOK, CreatedIn
<1>4. TypeOK'
  BY <1>1, <1>2, <1>3 DEF IInv, TypeOK, Deliver, persistent, engine, ResultsBorn
<1>5. ServesLockHolder'
  BY <1>1 DEF IInv, TypeOK, ServesLockHolder, Deliver, engine
<1>6. QED
  BY <1>1, <1>2, <1>4, <1>5, StillIsSafe DEF IInv, Still, persistent

\* The monitor only changes the policies.
LEMMA ChangePoliciesIsSafe ==
    ASSUME IInv, ChangePolicies
    PROVE  Safe
<1>1. UNCHANGED <<persistent, engine, threads, history>> /\ policies' \in PolicyTables
  BY DEF ChangePolicies
<1>2. IInv'
  BY <1>1 DEF IInv, TypeOK, ResultsOK, ServesLockHolder, persistent, engine, threads, history
<1>3. QED
  BY <1>1, <1>2, StillIsSafe DEF Still, persistent

\* After a crash nobody is in the engine and its attributes are as new.
LEMMA CrashIsSafe ==
    ASSUME IInv, Crash
    PROVE  Safe
<1>1. UNCHANGED <<persistent, policies, history>>
  BY DEF Crash
<1>2. 0 \in 0..nextUid - 1 /\ InRow \in 0..MaxSecrets
  BY EngineAssumption DEF IInv, TypeOK, InRow
<1>3. TypeOK'
  BY <1>1, <1>2 DEF IInv, TypeOK, Crash, persistent, history, NoUid
<1>4. ServesLockHolder' /\ ResultsOK'
  BY DEF ServesLockHolder, ResultsOK, Crash
<1>5. QED
  BY <1>1, <1>3, <1>4, StillIsSafe DEF IInv, Still, persistent

-----------------------------------------------------------------------------
(* The theorems *)

\* A new server satisfies the invariant and has no objects.
LEMMA InitIsSafe ==
    ASSUME Init
    PROVE  IInv /\ Lifecycle!Init
<1>1. nextUid = 1 /\ 1 \in 1..MaxUid + 1 /\ 0 \in 0..nextUid - 1 /\ 0 \in 0..MaxSecrets
  BY EngineAssumption DEF Init
<1>2. TypeOK
  BY <1>1, EngineAssumption DEF Init, TypeOK, NoUid, InRow
<1>3. ResultsOK /\ ServesLockHolder
  BY DEF Init, ResultsOK, ServesLockHolder
<1>4. \A u \in Uids : u >= nextUid
  BY <1>1, EngineAssumption DEF Uids
<1>5. life = [u \in Uids |-> "unborn"]
  BY <1>4 DEF life
<1>6. QED
  BY <1>2, <1>3, <1>5 DEF IInv, Lifecycle!Init, Lifecycle!Uids, Uids

\* Every item of a batch is a safe step.
LEMMA ItemIsSafe ==
    ASSUME IInv, NEW t \in Threads, Item(t)
    PROVE  Safe
<1>1. CASE CreateRefused(t)
  BY <1>1, InBatchInEngine, RefuseIsSafe DEF CreateRefused
<1>2. CASE StoreKey(t)
  BY <1>2, StoreKeyIsSafe
<1>3. CASE CreateRow(t)
  BY <1>3, CreateRowIsSafe
<1>4. CASE CreateKeyPair(t)
  BY <1>4, CreateKeyPairIsSafe
<1>5. CASE Register(t)
  BY <1>5, RegisterIsSafe
<1>6. CASE DeriveKey(t)
  BY <1>6, DeriveKeyIsSafe
<1>7. CASE \E u \in NamedUids : Activate(t, u)
  BY <1>7, ActivateIsSafe
<1>8. CASE \E u \in NamedUids, c \in BOOLEAN : Revoke(t, u, c)
  BY <1>8, RevokeIsSafe
<1>9. CASE \E u \in NamedUids : Destroy(t, u)
  BY <1>9, DestroyIsSafe
<1>10. CASE \E u, w \in NamedUids : Get(t, u, w)
  BY <1>10, GetIsSafe
<1>11. CASE \E u \in NamedUids : GetAttributes(t, u)
  BY <1>11, GetAttributesIsSafe
<1>12. CASE Locate(t)
  BY <1>12, LocateIsSafe
<1>13. CASE \E u \in NamedUids, op \in DOMAIN CryptoUses : UseKey(t, u, op)
  BY <1>13, UseKeyIsSafe
<1>14. QED
  BY <1>1, <1>2, <1>3, <1>4, <1>5, <1>6, <1>7, <1>8, <1>9, <1>10, <1>11, <1>12, <1>13
     DEF Item

\* Every step of the system is safe.
LEMMA NextIsSafe ==
    ASSUME IInv, [Next]_vars
    PROVE  Safe
<1>1. ASSUME NEW t \in Threads, Work(t)
      PROVE  Safe
  BY <1>1, StartIsSafe, RejectHeaderIsSafe, ItemIsSafe, MissingBatchItemIdIsSafe,
     FinishIsSafe, DeliverIsSafe DEF Work
<1>2. CASE UNCHANGED vars
  <2>1. IInv'
    BY <1>2 DEF IInv, TypeOK, ResultsOK, ServesLockHolder, vars, persistent, engine,
                threads, history
  <2>2. QED
    BY <1>2, <2>1, StillIsSafe DEF Still, vars, persistent
<1>3. QED
  BY <1>1, <1>2, SubmitIsSafe, ChangePoliciesIsSafe, CrashIsSafe DEF Next

\* The inductive invariant.
THEOREM Inductive == Spec => []IInv
<1>1. Init => IInv
  BY InitIsSafe
<1>2. IInv /\ [Next]_vars => IInv'
  BY NextIsSafe DEF Safe
<1>3. QED
  BY <1>1, <1>2, PTL DEF Spec

\* The state of the engine has its type, in any number of sessions: the ID
\* placeholder and every result name uids the table has handed out, and the
\* database session is closed exactly when the lock is free.
THEOREM TypeCorrect == Spec => []TypeOK
BY Inductive, PTL DEF IInv

\* process_request is synchronized, so what it keeps in attributes of the shared
\* engine is that of the request being served, however many sessions there are.
THEOREM LockHolderServed == Spec => []ServesLockHolder
BY Inductive, PTL DEF IInv

\* The engine implements the life cycle of objects: no unique identifier is used
\* twice, no active object destroyed, no revoked one active again, over any
\* number of clients, batches, policies and crashes.
THEOREM LifecycleImplemented == Spec => ImplementsLifecycle
<1>1. Init => Lifecycle!Init
  BY InitIsSafe
<1>2. IInv /\ [Next]_vars => [Lifecycle!Next]_life
  BY NextIsSafe DEF Safe
<1>3. QED
  BY <1>1, <1>2, Inductive, PTL DEF Spec, ImplementsLifecycle, Lifecycle!Spec

\* What the life cycle means for one identifier: an object that is gone stays gone, a
\* revoked one is never active again, an active one is revoked before it goes, and none
\* loses its identifier to another one.
LivesForward ==
    \A u \in Uids :
        /\ life[u] = "gone" => life'[u] = "gone"
        /\ life[u] = "COMPROMISED" => life'[u] \in {"COMPROMISED", "gone"}
        /\ life[u] = "DEACTIVATED" => life'[u] \in {"DEACTIVATED", "COMPROMISED", "gone"}
        /\ life[u] = "ACTIVE" => life'[u] \in {"ACTIVE", "DEACTIVATED", "COMPROMISED"}
        /\ life[u] = "PRE_ACTIVE" => life'[u] \in {"PRE_ACTIVE", "ACTIVE", "COMPROMISED", "gone"}
        /\ life[u] = "STATELESS" => life'[u] \in {"STATELESS", "gone"}
        /\ life[u] = "unborn" => life'[u] \in {"unborn", "PRE_ACTIVE", "STATELESS"}

\* No request, and no number of them from any clients, brings an identifier back to an
\* earlier stage of its life (_process_activate, _process_revoke, _process_destroy).
THEOREM LifeNeverGoesBack == Spec => [][LivesForward]_vars
<1>1. IInv /\ [Next]_vars => [LivesForward]_vars
  <2> SUFFICES ASSUME IInv, [Next]_vars PROVE LivesForward
    OBVIOUS
  <2>1. [Lifecycle!Next]_life
    BY NextIsSafe DEF Safe
  <2>2. life = [u \in Uids |-> life[u]] /\ Lifecycle!Uids = Uids
    BY DEF life, Lifecycle!Uids, Uids
  <2>3. CASE UNCHANGED life
    BY <2>3 DEF LivesForward
  <2>4. ASSUME NEW new \in SUBSET Uids, Lifecycle!Create(new) PROVE LivesForward
    BY <2>2, <2>4 DEF Lifecycle!Create, LivesForward
  <2>5. ASSUME NEW u \in Uids, Lifecycle!Activate(u) PROVE LivesForward
    BY <2>2, <2>5 DEF Lifecycle!Activate, Lifecycle!Move, LivesForward
  <2>6. ASSUME NEW u \in Uids, Lifecycle!Deactivate(u) PROVE LivesForward
    BY <2>2, <2>6 DEF Lifecycle!Deactivate, Lifecycle!Move, LivesForward
  <2>7. ASSUME NEW u \in Uids, Lifecycle!Compromise(u) PROVE LivesForward
    BY <2>2, <2>7 DEF Lifecycle!Compromise, Lifecycle!Move, LivesForward
  <2>8. ASSUME NEW u \in Uids, Lifecycle!Destroy(u) PROVE LivesForward
    BY <2>2, <2>8 DEF Lifecycle!Destroy, Lifecycle!Move, LivesForward
  <2> QED
    BY <2>1, <2>2, <2>3, <2>4, <2>5, <2>6, <2>7, <2>8 DEF Lifecycle!Next
<1> QED
  BY <1>1, Inductive, PTL DEF Spec
=============================================================================
