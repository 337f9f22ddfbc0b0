------------------------------ MODULE BlobStore -----------------------------
(***************************************************************************)
(* The block store of a node and the sizes it keeps in memory              *)
(* (tinycloud-node-server/src/storage, tinycloud-core/src/storage).        *)
(*                                                                         *)
(* A blob is named by the hash its staging buffer computed.  The blocks    *)
(* are files or S3 objects, and a body is staged in memory or in a         *)
(* temporary file, as the configuration says.  An S3 put and the renaming  *)
(* of a temporary file store a blob at once; a body staged in memory is    *)
(* written to its file in place, so that the file is first empty and then  *)
(* filled.  The sizes per space are counted when the store is opened and   *)
(* adjusted by every write.                                                *)
(***************************************************************************)
EXTENDS Integers, FiniteSetsExt

CONSTANTS
    Spaces,
    Contents,   \* the bodies clients write
    Size,       \* Size[c]: bytes of a body
    Chunks,     \* Chunks[c]: how many reads copy it to its stage
    None        \* no value

ASSUME StoreAssumption ==
    /\ Size \in [Contents -> Nat]
    /\ Chunks \in [Contents -> Nat \ {0}]

VARIABLES
    backend,    \* the configuration: [store, stage]; it never changes
    disk,       \* disk[s][id]: "absent", "torn" or "whole"
    dirs,       \* the spaces that have a directory
    sizes       \* SpaceSizes: bytes of each space that has an entry

blobVars == <<backend, disk, dirs, sizes>>

-----------------------------------------------------------------------------
\* An id is the hash of a body, or of a body with a chunk hashed twice.
Ids == Contents \X {0, 1}
Digest(c) == <<c, 0>>
Length(id) == Size[id[1]]

\* HashBuffer::poll_write hashes the buffer before it hands it on.  A file
\* that is still writing the previous chunk is not ready, and the chunk comes
\* again; memory is always ready.
StagedIds(c) ==
    IF backend.stage = "file" /\ Chunks[c] > 1 THEN {c} \X {0, 1} ELSE {Digest(c)}

HasBlob(s, id) == disk[s][id] # "absent"

\* What is stored of a space.
Bytes(s) == MapThenSumSet(Length, {id \in Ids : disk[s][id] = "whole"})

\* Whether a missing blob is written in place, and not stored at once.
InPlace == backend.store = "file" /\ backend.stage = "memory"

\* File::create truncates what is there.
Truncate(s, id) == disk' = [disk EXCEPT ![s][id] = "torn"]

\* The end of the writing, the renaming or the put.
Store(s, id) == disk' = [disk EXCEPT ![s][id] = "whole"]

Uncounted(s, n) == UNCHANGED sizes

\* increment_size leaves a space without an entry alone.
Increment(s, n) ==
    sizes' = [sizes EXCEPT ![s] = IF @ = None THEN None ELSE @ + n]

\* StorageSetup::create, of a space that is new or not.
Create(s) ==
    /\ dirs' = IF backend.store = "file" THEN dirs \union {s} ELSE dirs
    /\ sizes' = [sizes EXCEPT ![s] = 0]

\* The store is opened: every directory is added up (store_sizes), or every
\* object that is not empty (S3BlockStore::new_).
Recount ==
    [s \in Spaces |->
        IF backend.store = "file" THEN IF s \in dirs THEN Bytes(s) ELSE None
        ELSE IF Bytes(s) > 0 THEN Bytes(s) ELSE None]

BlobInit ==
    /\ disk = [s \in Spaces |-> [id \in Ids |-> "absent"]]
    /\ dirs = {}
    /\ sizes = [s \in Spaces |-> None]

BlobTypeOK ==
    /\ disk \in [Spaces -> [Ids -> {"absent", "torn", "whole"}]]
    /\ dirs \subseteq Spaces
    /\ \A s \in Spaces : sizes[s] = None \/ sizes[s] \in Nat
=============================================================================
