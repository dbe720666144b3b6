--------------------------- MODULE CatalogRefresh ---------------------------
(***************************************************************************)
(* The report-field catalog on disk: five files that a refresh replaces one *)
(* after the other, catalog_meta.json last, and that server processes read  *)
(* lazily, once, after checking the hashes that file lists. A refresh may   *)
(* be killed anywhere and be run again, also from older sources. The content *)
(* of a file is the version of the sources it was made from.                *)
(***************************************************************************)
EXTENDS Integers, Sequences

CONSTANTS CatalogVersions, NoVersion,
          Servers         \* processes that load the catalog

ASSUME CatalogAssumption == NoVersion \notin CatalogVersions

CommitOrder == <<"dimensions", "metrics", "dimension_label_index", "index", "catalog_meta">>
CatalogFiles == {CommitOrder[i] : i \in DOMAIN CommitOrder}
Hashed == {"dimensions", "metrics", "dimension_label_index"}
Contents == CatalogVersions \cup {NoVersion}

VARIABLES
    disk,       \* file -> the version it is of
    manifest,   \* catalog_meta's output_files_sha256: hashed file -> version
    orphans,    \* files with a .tmp beside them
    target,     \* the version the running refresh makes, or NoVersion
    fileNo,     \* the file of CommitOrder it is at
    loaded,     \* server -> file -> what it has in memory
    settled     \* history: server -> no refresh has run since it checked the hashes

catalogVars == <<disk, manifest, orphans, target, fileNo, loaded, settled>>

\* Types.
CatalogTypeOK ==
    /\ disk \in [CatalogFiles -> Contents] /\ manifest \in [Hashed -> Contents]
    /\ orphans \subseteq CatalogFiles
    /\ target \in Contents /\ fileNo \in 1..Len(CommitOrder)
    /\ loaded \in [Servers -> [CatalogFiles -> Contents]]
    /\ settled \in [Servers -> BOOLEAN]

CatalogInit ==
    /\ disk = [f \in CatalogFiles |-> NoVersion]
    /\ manifest = [f \in Hashed |-> NoVersion]
    /\ orphans = {} /\ target = NoVersion /\ fileNo = 1
    /\ loaded = [s \in Servers |-> [f \in CatalogFiles |-> NoVersion]]
    /\ settled = [s \in Servers |-> FALSE]

-----------------------------------------------------------------------------
(* refresh().                                                              *)

\* _sweep_orphaned_tmp.
Swept == {}

\* Sources that are read, validated, whole, free of cycles and large enough. One refresh
\* at a time: the code has no lock, and another would write the same .tmp files.
BeginRefresh(v) ==
    /\ target = NoVersion
    /\ orphans' = Swept
    /\ target' = v /\ fileNo' = 1
    /\ settled' = [s \in Servers |-> FALSE]
    /\ UNCHANGED <<disk, manifest, loaded>>

\* Sources that are not: the files are as they were, without the .tmp files.
RejectSources ==
    /\ target = NoVersion /\ orphans # {}
    /\ orphans' = Swept
    /\ UNCHANGED <<disk, manifest, target, fileNo, loaded, settled>>

\* Fault: catalog_meta.json is written first.
FileAtMetaFirst == IF fileNo = 1 THEN "catalog_meta" ELSE CommitOrder[fileNo - 1]

FileAt == CommitOrder[fileNo]

\* save_json_atomic: the content goes to a .tmp file,
WriteTmp ==
    /\ target # NoVersion /\ FileAt \notin orphans
    /\ orphans' = orphans \cup {FileAt}
    /\ UNCHANGED <<disk, manifest, target, fileNo, loaded, settled>>

\* which takes the file's place. The hashes are those of the files on disk.
ReplaceFile ==
    /\ target # NoVersion /\ FileAt \in orphans
    /\ disk' = [disk EXCEPT ![FileAt] = target]
    /\ orphans' = orphans \ {FileAt}
    /\ manifest' = IF FileAt = "catalog_meta" THEN [f \in Hashed |-> disk[f]] ELSE manifest
    /\ IF fileNo = Len(CommitOrder)
       THEN target' = NoVersion /\ fileNo' = 1
       ELSE target' = target /\ fileNo' = fileNo + 1
    /\ UNCHANGED <<loaded, settled>>

\* Writing or replacing fails: the .tmp file is removed and the refresh ends.
FailRefresh ==
    /\ target # NoVersion
    /\ orphans' = orphans \ {FileAt}
    /\ target' = NoVersion /\ fileNo' = 1
    /\ UNCHANGED <<disk, manifest, loaded, settled>>

\* The refresh is killed.
KillRefresh ==
    /\ target # NoVersion
    /\ target' = NoVersion /\ fileNo' = 1
    /\ UNCHANGED <<disk, manifest, orphans, loaded, settled>>

-----------------------------------------------------------------------------
(* The loader of a server process.                                         *)

\* catalog_meta is there, and the files it lists are as it says.
HashesMatch ==
    /\ disk["catalog_meta"] # NoVersion
    /\ \A f \in Hashed : disk[f] # NoVersion /\ disk[f] = manifest[f]

\* _load_meta, which every other function calls first. What does not match is an
\* error and leaves nothing in memory.
LoadMeta(s) ==
    /\ loaded[s]["catalog_meta"] = NoVersion /\ HashesMatch
    /\ loaded' = [loaded EXCEPT ![s]["catalog_meta"] = disk["catalog_meta"]]
    /\ settled' = [settled EXCEPT ![s] = target = NoVersion]
    /\ UNCHANGED <<disk, manifest, orphans, target, fileNo>>

\* The other files, each when it is first needed, and for good.
LoadFile(s, f) ==
    /\ loaded[s]["catalog_meta"] # NoVersion /\ loaded[s][f] = NoVersion
    /\ disk[f] # NoVersion
    /\ loaded' = [loaded EXCEPT ![s][f] = disk[f]]
    /\ UNCHANGED <<disk, manifest, orphans, target, fileNo, settled>>

RestartServer(s) ==
    /\ loaded' = [loaded EXCEPT ![s] = [f \in CatalogFiles |-> NoVersion]]
    /\ settled' = [settled EXCEPT ![s] = FALSE]
    /\ UNCHANGED <<disk, manifest, orphans, target, fileNo>>

CatalogNext ==
    \/ \E v \in CatalogVersions : BeginRefresh(v)
    \/ RejectSources \/ WriteTmp \/ ReplaceFile \/ FailRefresh \/ KillRefresh
    \/ \E s \in Servers :
        \/ LoadMeta(s) \/ RestartServer(s)
        \/ \E f \in CatalogFiles \ {"catalog_meta"} : LoadFile(s, f)

CatalogSpec == CatalogInit /\ [][CatalogNext]_catalogVars

-----------------------------------------------------------------------------
(* refresh_v1_catalog --check.                                             *)

\* Fault: the routing map is not compared.
InSyncUnindexed(v) ==
    /\ \A f \in Hashed \cup {"catalog_meta"} : disk[f] = v
    /\ manifest = [f \in Hashed |-> v]

\* check_drift: every file, and the hashes in catalog_meta, as a refresh would have them.
InSync(v) ==
    /\ \A f \in CatalogFiles : disk[f] = v
    /\ manifest = [f \in Hashed |-> v]

-----------------------------------------------------------------------------
\* However a refresh ends, a process that checked the hashes while none was running,
\* and read the rest before the next, has dimensions, metrics and labels of the
\* version catalog_meta tells. ("an interrupted refresh fails closed rather than
\* serving mixed data".)
ServedIsOneCommit == \A s \in Servers : settled[s] =>
    \A f \in Hashed : loaded[s][f] \in {NoVersion, loaded[s]["catalog_meta"]}

\* If --check is content with what is on disk, then a process that starts reads one
\* version of all files, the routing map included, whose hash nobody checks.
CheckedIsServed == \A s \in Servers : \A v \in CatalogVersions :
    InSync(v) /\ settled[s] /\ loaded[s]["catalog_meta"] = v =>
        \A f \in CatalogFiles : loaded[s][f] \in {NoVersion, v}

\* What a reader that checks the hashes can get from the data files changes as a
\* whole, when catalog_meta does.
Atomic == INSTANCE AtomicCatalog WITH
    committed <- disk["catalog_meta"],
    readable <- IF HashesMatch THEN disk["dimensions"] ELSE NoVersion

CommitsAtomically == Atomic!AtomicSpec

\* A process serves one version of the catalog, or none.
OneVersionServed == ServedIsOneCommit /\ CheckedIsServed
=============================================================================
