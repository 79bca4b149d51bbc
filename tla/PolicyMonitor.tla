--------------------------- MODULE PolicyMonitor ---------------------------
(***************************************************************************)
(* The policy directory monitor: a process that scans a directory of JSON  *)
(* policy files once a second and keeps the dictionary of operation        *)
(* policies it shares with the engine up to date, while an administrator   *)
(* writes and removes files.  A policy defined by several files is taken   *)
(* from the one loaded last; the others are kept in a cache.               *)
(*                                                                         *)
(* Files are numbered in the order of their names, in which a scan loads   *)
(* them.  A scan is not atomic: listing the directory, looking at the time *)
(* stamp of a file and reading it are separate steps.                      *)
(***************************************************************************)
EXTENDS Naturals

CONSTANTS
    Policies,   \* names of policies
    Reserved,   \* "default" and "public", built into the server
    Contents,   \* what a policy can say
    Builtin,    \* what the reserved policies say
    Texts,      \* texts of policy files: tables, Malformed or NotATable
    Malformed,  \* a text the parser rejects with a ValueError
    NotATable,  \* JSON that is no table: reading it raises something else
    NoPolicy,   \* the policy is not defined
    MaxFiles,   \* bound: names of files
    MaxTime     \* bound: modification times

Files == 1..MaxFiles
NoFile == 0

Tables == [Policies -> Contents \cup {NoPolicy}]

ASSUME MonitorAssumption ==
    /\ Reserved \subseteq Policies
    /\ Builtin \in [Reserved -> Contents]
    /\ Texts \subseteq {Malformed, NotATable} \cup Tables
    /\ NoPolicy \notin Contents
    /\ Malformed \notin Tables /\ NotATable \notin Tables
    /\ MaxFiles \in Nat /\ MaxTime \in Nat

VARIABLES
    dir,       \* per file: its modification time, 0 if there is no such file
    text,      \* per file: its text
    clock,     \* the latest modification time
    store,     \* policy_store, the dictionary shared with the engine
    map,       \* policy_map: the file each policy in the store came from
    cache,     \* policy_cache: overridden versions of each policy, as records
               \* of their content and file; "at" tells which was added last
    stamps,    \* file_timestamps of the tracked files
    tracked,   \* policy_files: the files of the last listing
    removed,   \* files found removed, still to be forgotten
    orphans,   \* policies to be restored from the cache or deleted
    todo,      \* files this scan has still to look at
    loading,   \* the file to be read next, NoFile if none
    status     \* "idle", "scanning", "stopped" or "dead"

disk  == <<dir, text, clock>>
scan  == <<tracked, removed, orphans, todo, loading, status>>
vars  == <<disk, store, map, cache, stamps, scan>>

Init ==
    /\ dir = [f \in Files |-> 0]
    /\ text = [f \in Files |-> Malformed]
    /\ clock = 0
    /\ store = [p \in Policies |-> IF p \in Reserved THEN Builtin[p] ELSE NoPolicy]
    /\ map = [p \in Policies |-> NoFile]
    /\ cache = [p \in Policies |-> {}]
    /\ stamps = [f \in Files |-> 0]
    /\ tracked = {}
    /\ removed = {}
    /\ orphans = {}
    /\ todo = {}
    /\ loading = NoFile
    /\ status = "idle"

-----------------------------------------------------------------------------
(* The administrator *)

Present(f) == dir[f] # 0

WriteFile(f, new) ==
    /\ clock < MaxTime
    /\ clock' = clock + 1
    /\ dir' = [dir EXCEPT ![f] = clock']
    /\ text' = [text EXCEPT ![f] = new]
    /\ UNCHANGED <<store, map, cache, stamps, scan>>

DeleteFile(f) ==
    /\ Present(f)
    /\ dir' = [dir EXCEPT ![f] = 0]
    /\ text' = [text EXCEPT ![f] = Malformed]
    /\ UNCHANGED <<clock, store, map, cache, stamps, scan>>

-----------------------------------------------------------------------------
(* scan_policies *)

\* Fault: a file's old versions stay in the cache when it is gone.
ForgetFileKeepingVersions(f) ==
    /\ status = "scanning" /\ orphans = {}
    /\ f \in removed
    /\ removed' = removed \ {f}
    /\ orphans' = {p \in Policies : map[p] = f}
    /\ UNCHANGED <<disk, store, map, cache, stamps, tracked, todo, loading, status>>

\* The directory is listed; new files have time stamp 0.
BeginScan ==
    /\ status = "idle"
    /\ status' = "scanning"
    /\ tracked' = {f \in Files : Present(f)}
    /\ removed' = tracked \ tracked'
    /\ stamps' = [f \in Files |-> IF f \in tracked THEN stamps[f] ELSE 0]
    /\ todo' = tracked'
    /\ UNCHANGED <<disk, store, map, cache, orphans, loading>>

\* disassociate_policy_and_file
Disassociate(versions, f) == {e \in versions : e.file # f}

\* A file is gone: so are its versions in the cache, and the policies now taken
\* from it must be replaced.
ForgetFile(f) ==
    /\ status = "scanning" /\ orphans = {}
    /\ f \in removed
    /\ removed' = removed \ {f}
    /\ cache' = [p \in Policies |-> Disassociate(cache[p], f)]
    /\ orphans' = {p \in Policies : map[p] = f}
    /\ UNCHANGED <<disk, store, map, stamps, tracked, todo, loading, status>>

Latest(versions) == {e \in versions : \A x \in versions : x.at <= e.at}

\* Fault: a deleted policy stays in the map.
RestoreOrDeleteKeepingMap(p) ==
    /\ status = "scanning"
    /\ p \in orphans
    /\ orphans' = orphans \ {p}
    /\ \/ /\ cache[p] = {}
          /\ store' = [store EXCEPT ![p] = NoPolicy]
          /\ UNCHANGED <<map, cache>>
       \/ \E e \in Latest(cache[p]) :
              /\ store' = [store EXCEPT ![p] = e.content]
              /\ map' = [map EXCEPT ![p] = e.file]
              /\ cache' = [cache EXCEPT ![p] = @ \ {e}]
    /\ UNCHANGED <<disk, stamps, tracked, removed, todo, loading, status>>

\* restore_or_delete_policy
RestoreOrDelete(p) ==
    /\ status = "scanning"
    /\ p \in orphans
    /\ orphans' = orphans \ {p}
    /\ \/ /\ cache[p] = {}
          /\ store' = [store EXCEPT ![p] = NoPolicy]
          /\ map' = [map EXCEPT ![p] = NoFile]
          /\ UNCHANGED cache
       \/ \E e \in Latest(cache[p]) :
              /\ store' = [store EXCEPT ![p] = e.content]
              /\ map' = [map EXCEPT ![p] = e.file]
              /\ cache' = [cache EXCEPT ![p] = @ \ {e}]
    /\ UNCHANGED <<disk, stamps, tracked, removed, todo, loading, status>>

\* The scan may turn to the next file.
Ready == status = "scanning" /\ removed = {} /\ orphans = {} /\ loading = NoFile

\* The process dies of an exception nobody catches.
Die ==
    /\ status' = "dead"
    /\ UNCHANGED <<disk, store, map, cache, stamps, tracked, removed, orphans, todo, loading>>

\* Fault: the time of the file is compared, but not recorded.
StatUnrecorded(f) ==
    /\ Ready
    /\ f \in todo /\ \A g \in todo : f <= g
    /\ Present(f)
    /\ todo' = todo \ {f}
    /\ loading' = IF dir[f] > stamps[f] THEN f ELSE NoFile
    /\ UNCHANGED <<disk, store, map, cache, stamps, tracked, removed, orphans, status>>

\* getmtime: the next file is to be loaded if it is newer than when last seen.
Stat(f) ==
    /\ Ready
    /\ f \in todo /\ \A g \in todo : f <= g
    /\ \/ ~Present(f) /\ Die
       \/ /\ Present(f)
          /\ todo' = todo \ {f}
          /\ IF dir[f] > stamps[f]
             THEN loading' = f /\ stamps' = [stamps EXCEPT ![f] = dir[f]]
             ELSE UNCHANGED <<loading, stamps>>
          /\ UNCHANGED <<disk, store, map, cache, tracked, removed, orphans, status>>

-----------------------------------------------------------------------------
(* Loading a file *)

\* Fault: the check for reserved names is missing.
DefinedOrReserved(f) == {p \in Policies : text[f][p] # NoPolicy}

\* What the file says of policies that are not reserved.
Defined(f) == {p \in Policies \ Reserved : text[f][p] # NoPolicy}

\* The policies taken from the file that its new text no longer defines.
Dropped(f) == {p \in Policies : map[p] = f /\ text[f][p] = NoPolicy}

\* The version of p in the store, as an entry after all others.
Overridden(p) ==
    [at |-> IF cache[p] = {} THEN 0 ELSE 1 + (CHOOSE e \in Latest(cache[p]) : TRUE).at,
     file |-> map[p], content |-> store[p]]

\* Fault: the first version of a policy is cached, too.
CacheAfterAlways(p, f) ==
    cache[p] \cup (IF map[p] # f THEN {Overridden(p)} ELSE {})

\* Fault: a version overridden is forgotten.
CacheAfterForgetting(p, f) ==
    IF store[p] = NoPolicy THEN {} ELSE cache[p]

\* The cache of p after f has defined it.
CacheAfter(p, f) ==
    IF store[p] = NoPolicy THEN {}
    ELSE cache[p] \cup (IF map[p] # f THEN {Overridden(p)} ELSE {})

\* read_policy_from_file, and what scan_policies does with the result.  A file
\* that cannot be opened, or that is JSON but no table, ends the process; one
\* the parser rejects leaves everything as it was.  The tables are updated policy by
\* policy, and only policy_store is seen outside: its readers look up one policy at a
\* time, and no property here relates two policies.
Load(f) ==
    /\ status = "scanning"
    /\ loading = f
    /\ loading' = NoFile
    /\ \/ /\ ~Present(f) \/ text[f] = NotATable
          /\ status' = "dead"
          /\ UNCHANGED <<store, map, cache, orphans>>
       \/ /\ Present(f) /\ text[f] = Malformed
          /\ UNCHANGED <<store, map, cache, orphans, status>>
       \/ /\ Present(f) /\ text[f] \in Tables
          /\ cache' = [p \in Policies |->
                CASE p \in Defined(f) -> CacheAfter(p, f)
                  [] p \in Dropped(f) -> Disassociate(cache[p], f)
                  [] OTHER -> cache[p]]
          /\ store' = [p \in Policies |-> IF p \in Defined(f) THEN text[f][p] ELSE store[p]]
          /\ map' = [p \in Policies |-> IF p \in Defined(f) THEN f ELSE map[p]]
          /\ orphans' = Dropped(f)
          /\ UNCHANGED status
    /\ UNCHANGED <<disk, stamps, tracked, removed, todo>>

EndScan ==
    /\ Ready /\ todo = {}
    /\ status' = "idle"
    /\ UNCHANGED <<disk, store, map, cache, stamps, tracked, removed, orphans, todo, loading>>

\* The server stops the process, or it runs with live_monitoring off.
Stop ==
    /\ status = "idle"
    /\ status' = "stopped"
    /\ UNCHANGED <<disk, store, map, cache, stamps, tracked, removed, orphans, todo, loading>>

Scan ==
    \/ BeginScan
    \/ \E f \in Files : ForgetFile(f)
    \/ \E p \in Policies : RestoreOrDelete(p)
    \/ \E f \in Files : Stat(f)
    \/ \E f \in Files : Load(f)
    \/ EndScan

Next ==
    \/ \E f \in Files, new \in Texts : WriteFile(f, new)
    \/ \E f \in Files : DeleteFile(f)
    \/ Scan
    \/ Stop

Spec == Init /\ [][Next]_vars

\* The loop of "run" keeps scanning until it is stopped.
FairSpec == Spec /\ WF_vars(Scan)

-----------------------------------------------------------------------------
(* Properties *)

\* Every version kept has a file and a content, and only policies that are not
\* reserved are ever tracked.
TypeOK ==
    /\ dir \in [Files -> Nat]
    /\ text \in [Files -> {Malformed, NotATable} \cup Tables]
    /\ clock \in Nat
    /\ store \in [Policies -> Contents \cup {NoPolicy}]
    /\ map \in [Policies -> Files \cup {NoFile}]
    /\ \A p \in Policies : \A e \in cache[p] : e.file \in Files /\ e.content \in Contents
    /\ stamps \in [Files -> Nat]
    /\ tracked \subseteq Files /\ removed \subseteq Files /\ todo \subseteq Files
    /\ orphans \subseteq Policies \ Reserved
    /\ loading \in Files \cup {NoFile}
    /\ status \in {"idle", "scanning", "stopped", "dead"}

\* No file, whatever it says and however it is replaced, changes a reserved
\* policy: scan_policies throws such definitions out, and no restoring or
\* deleting reaches them.
ReservedFixed == \A p \in Reserved : store[p] = Builtin[p]

\* The three dictionaries agree: a policy served to the engine has a file in
\* policy_map and a deleted one has none, and only policies that are served have
\* older versions (scan_policies appends to the cache of every policy it finds in
\* the store, and would fail if there were none).
MapStoreAgree ==
    \A p \in Policies \ Reserved :
        /\ (map[p] = NoFile) <=> (store[p] = NoPolicy)
        /\ cache[p] # {} => store[p] # NoPolicy

\* When a file is gone, so is all that came from it: each version in the store
\* or in the cache is of a file of the last listing, or one that the scan is just
\* forgetting.
SourcesTracked ==
    \A p \in Policies :
        /\ map[p] # NoFile => map[p] \in tracked \cup removed \/ p \in orphans
        /\ \A e \in cache[p] : e.file \in tracked \cup removed

\* The monitor has seen the directory as it is.
Settled ==
    /\ status = "idle"
    /\ tracked = {f \in Files : Present(f)}
    /\ \A f \in tracked : stamps[f] = dir[f]

\* Once the directory is seen, a policy that some file defines is served:
\* overriding, dropping and removing of other files, in any order and during the
\* scans, never lose it.
DefinedPolicyServed ==
    Settled => \A f \in tracked : text[f] \in Tables =>
        \A p \in Defined(f) : store[p] # NoPolicy

\* The monitor always catches up with the directory, unless it has ended.
CatchesUp == []<>(status \in {"dead", "stopped"} \/ Settled)

\* The documentation of policy files has modifications "of policy files and/or
\* policies within those files" tracked: what is served is what the file it came
\* from says.  An older version kept in the cache is not removed when its file
\* drops the policy, and is restored later.
StoreMatchesFiles ==
    Settled => \A p \in Policies \ Reserved :
        map[p] # NoFile /\ text[map[p]] \in Tables => store[p] = text[map[p]][p]

\* The documentation has policy files removed "while the server is running,
\* without any downtime".  A file removed while a scan is under way ends the
\* monitor: getmtime and open raise an exception nobody handles.
MonitorSurvives == status # "dead"
=============================================================================
