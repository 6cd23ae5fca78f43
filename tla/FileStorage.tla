----------------------------- MODULE FileStorage ----------------------------
(***************************************************************************)
(* FileStorage (raftust-core-storage-file/src/lib.rs) of one node: save    *)
(* writes node-<id>.json.tmp, syncs it and renames it to node-<id>.json;   *)
(* load reads the latter.  Every call to the file system is a step, and    *)
(* between any two the call may fail, the process may be killed, or the    *)
(* power may fail; the reading of load may fail as well.                   *)
(*                                                                         *)
(* The file system is external.  A file's content survives a power failure *)
(* for certain only if it was synced; otherwise any beginning of it may be *)
(* left.  A rename is atomic, and reaches the medium some time later: the  *)
(* code does not sync the directory.  A JSON text parses if and only if it *)
(* is complete, so of the text only the number of chunks written counts.   *)
(***************************************************************************)
EXTENDS Naturals

CONSTANTS Image,    \* the images the runner saves
          None,     \* Option::None
          Missing,  \* there is no such file
          Chunks    \* the number of writes a whole image takes

ASSUME StorageAssumption == None \notin Image /\ Chunks \in Nat \ {0}

File == [image : Image, chunks : 0 .. Chunks, synced : BOOLEAN]

ASSUME FileAssumption == Missing \notin File

VARIABLES
    step,     \* the call save_snapshot_file comes to next; "idle" between
              \* saves, "down" while there is no process
    image,    \* the image being saved, or saved last
    tmp,      \* node-<id>.json.tmp
    final,    \* node-<id>.json
    flushed,  \* the file the directory on the medium has as node-<id>.json
    loaded,   \* what the last load answered
    unread    \* history: the last load could not read the file

vars == <<step, image, tmp, final, flushed, loaded, unread>>

Steps == {"create", "write", "sync", "rename"}

Init ==
    /\ step = "down"
    /\ image = None
    /\ tmp = Missing
    /\ final = Missing
    /\ flushed = Missing
    /\ loaded = None
    /\ unread = FALSE

Whole(f) == f # Missing /\ f.chunks = Chunks

\* load_snapshot_file of a file that can be read: None if it is missing or
\* does not parse.
Load(f) == IF Whole(f) THEN f.image ELSE None

-----------------------------------------------------------------------------
(* The process.                                                            *)

\* Runner::run loads once, at the start.  An error of read_to_string is None
\* as well, like a file that is not there.
Start ==
    /\ step = "down"
    /\ step' = "idle"
    /\ \E readable \in BOOLEAN :
          /\ loaded' = IF readable THEN Load(final) ELSE None
          /\ unread' = ~readable
    /\ UNCHANGED <<image, tmp, final, flushed>>

Save(v) ==
    /\ step = "idle"
    /\ image' = v
    /\ step' = "create"
    /\ UNCHANGED <<tmp, final, flushed, loaded, unread>>

\* Mutant: the image is written over the saved one.
CreateInPlace ==
    /\ step = "create"
    /\ tmp' = [image |-> image, chunks |-> 0, synced |-> FALSE]
    /\ final' = tmp'
    /\ step' = "write"
    /\ UNCHANGED <<image, flushed, loaded, unread>>

\* File::create empties what an earlier save may have left.
CreateTemp ==
    /\ step = "create"
    /\ tmp' = [image |-> image, chunks |-> 0, synced |-> FALSE]
    /\ step' = "write"
    /\ UNCHANGED <<image, final, flushed, loaded, unread>>

\* write_all
Write ==
    /\ step = "write"
    /\ tmp' = [tmp EXCEPT !.chunks = @ + 1]
    /\ step' = IF tmp'.chunks = Chunks THEN "sync" ELSE "write"
    /\ UNCHANGED <<image, final, flushed, loaded, unread>>

\* Mutant: the content is only handed to the operating system.
SyncNothing ==
    /\ step = "sync"
    /\ step' = "rename"
    /\ UNCHANGED <<image, tmp, final, flushed, loaded, unread>>

SyncAll ==
    /\ step = "sync"
    /\ tmp' = [tmp EXCEPT !.synced = TRUE]
    /\ step' = "rename"
    /\ UNCHANGED <<image, final, flushed, loaded, unread>>

Rename ==
    /\ step = "rename"
    /\ final' = tmp
    /\ tmp' = Missing
    /\ step' = "idle"
    /\ UNCHANGED <<image, flushed, loaded, unread>>

\* Mutant: a failed save puts what it has in place.
FailAndRename ==
    /\ step \in {"write", "sync"}
    /\ final' = tmp
    /\ step' = "idle"
    /\ UNCHANGED <<image, tmp, flushed, loaded, unread>>

\* A call fails: save logs it and returns.
Fail ==
    /\ step \in Steps
    /\ step' = "idle"
    /\ UNCHANGED <<image, tmp, final, flushed, loaded, unread>>

-----------------------------------------------------------------------------
(* The environment.                                                        *)

Kill ==
    /\ step # "down"
    /\ step' = "down"
    /\ UNCHANGED <<image, tmp, final, flushed, loaded, unread>>

\* The operating system writes the directory to the medium.
Flush ==
    /\ flushed' = final
    /\ UNCHANGED <<step, image, tmp, final, loaded, unread>>

\* What may be left of a file.
Remains(f) ==
    IF f = Missing \/ f.synced
    THEN {f}
    ELSE {[f EXCEPT !.chunks = n] : n \in 0 .. f.chunks}

PowerFailure ==
    /\ \E f \in Remains(flushed) : final' = f /\ flushed' = f
    /\ tmp' \in {Missing} \cup Remains(tmp)
    /\ step' = "down"
    /\ UNCHANGED <<image, loaded, unread>>

Next ==
    \/ Start
    \/ \E v \in Image : Save(v)
    \/ CreateTemp
    \/ Write
    \/ SyncAll
    \/ Rename
    \/ Fail
    \/ Kill
    \/ Flush
    \/ PowerFailure

Spec == Init /\ [][Next]_vars

-----------------------------------------------------------------------------
(* Properties.                                                             *)

TypeOK ==
    /\ step \in Steps \cup {"idle", "down"}
    /\ image \in Image \cup {None}
    /\ tmp \in File \cup {Missing}
    /\ final \in File \cup {Missing}
    /\ flushed \in File \cup {Missing}
    /\ loaded \in Image \cup {None}
    /\ unread \in BOOLEAN

\* The temporary file follows the save: it has the image, and at the rename
\* all of it, synced.
SaveInProgress ==
    /\ step \in Steps => image \in Image
    /\ step \in {"write", "sync", "rename"} => tmp # Missing /\ tmp.image = image
    /\ step = "write" => tmp.chunks < Chunks
    /\ step \in {"sync", "rename"} => tmp.chunks = Chunks
    /\ step = "rename" => tmp.synced

Safe(f) == f # Missing => f.chunks = Chunks /\ f.synced

\* The saved file is complete and synced whenever it exists, before and after
\* any crash: save_snapshot_file renames only what it has written and synced.
\* Nothing removes it, so it exists if it once reached the medium.
FileInv ==
    /\ TypeOK
    /\ SaveInProgress
    /\ Safe(final)
    /\ Safe(flushed)
    /\ flushed # Missing => final # Missing

\* Once an image is on the medium, no crash leaves a file that loads as
\* None: a restart begins with term 0 and no vote only if the read itself
\* failed.  load_snapshot_file takes that error for a missing file, and the
\* node then forgets what it promised.
NoAmnesia ==
    [][(step = "down" /\ step' = "idle" /\ flushed # Missing) =>
           loaded' # None \/ unread']_vars

Store == INSTANCE ImageStore
         WITH stored  <- Load(final),
              durable <- Load(flushed),
              pending <- IF step \in Steps THEN image ELSE None

\* FileStorage implements the register of whole images: a save takes effect
\* at the rename, a failed or interrupted one has no effect, and a power
\* failure brings back an image that was saved before.
ImplementsStore == Store!Spec
=============================================================================
