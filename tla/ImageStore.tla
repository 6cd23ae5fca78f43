----------------------------- MODULE ImageStore -----------------------------
(***************************************************************************)
(* What a StorageStrategy with files promises its runner: a register that  *)
(* holds one whole image.  A save replaces the image at one instant, or    *)
(* not at all when it fails or the process ends first.  A new image        *)
(* reaches the medium some time after that instant, and a power failure    *)
(* brings back the image on the medium.                                    *)
(***************************************************************************)
CONSTANTS Image,  \* what may be saved
          None    \* nothing saved yet; no save under way

VARIABLES
    stored,   \* what load would answer
    durable,  \* what it would answer after a power failure
    pending   \* the image being saved

vars == <<stored, durable, pending>>

Init == stored = None /\ durable = None /\ pending = None

Begin(v) == pending = None /\ pending' = v /\ UNCHANGED <<stored, durable>>

Commit ==
    /\ pending # None
    /\ stored' = pending
    /\ pending' = None
    /\ UNCHANGED durable

Abort == pending # None /\ pending' = None /\ UNCHANGED <<stored, durable>>

Flush == durable' = stored /\ UNCHANGED <<stored, pending>>

PowerFailure == stored' = durable /\ pending' = None /\ UNCHANGED durable

Next ==
    \/ \E v \in Image : Begin(v)
    \/ Commit
    \/ Abort
    \/ Flush
    \/ PowerFailure

Spec == Init /\ [][Next]_vars
=============================================================================
