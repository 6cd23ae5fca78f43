-------------------------- MODULE FileStorageProofs -------------------------
(***************************************************************************)
(* FileStorage implements ImageStore, for every set of images and every    *)
(* number of writes.                                                       *)
(***************************************************************************)
EXTENDS FileStorage, TLAPS

\* The saved file loads as its image.
LEMMA SafeLoads ==
    ASSUME NEW f \in File \cup {Missing}, Safe(f)
    PROVE  Load(f) = (IF f = Missing THEN None ELSE f.image)
BY FileAssumption DEF Safe, Load, Whole, File

\* A power failure leaves a synced file as it is.
LEMMA SafeRemains ==
    ASSUME NEW f \in File \cup {Missing}, Safe(f)
    PROVE  Remains(f) = {f}
BY FileAssumption DEF Safe, Remains

\* What it leaves of any other file is a file.
LEMMA RemainsType ==
    ASSUME NEW f \in File \cup {Missing}
    PROVE  Remains(f) \subseteq File \cup {Missing}
<1>1. CASE f = Missing \/ f.synced
  BY <1>1 DEF Remains
<1>2. CASE ~(f = Missing \/ f.synced)
  <2>1. f \in File
    BY <1>2
  <2>2. ASSUME NEW n \in 0 .. f.chunks
        PROVE  [f EXCEPT !.chunks = n] \in File
    BY <2>1, <2>2, StorageAssumption DEF File
  <2>3. QED BY <1>2, <2>2 DEF Remains
<1>3. QED BY <1>1, <1>2

LEMMA FileInit == Init => FileInv
BY FileAssumption DEF Init, FileInv, TypeOK, SaveInProgress, Safe, Steps

\* Every call, failure and crash keeps the saved file whole.
LEMMA FileNext == FileInv /\ [Next]_vars => FileInv'
<1> SUFFICES ASSUME FileInv, [Next]_vars PROVE FileInv'
  OBVIOUS
<1> USE StorageAssumption, FileAssumption DEF FileInv
<1>1. CASE Start
  BY <1>1, SafeLoads DEF Start, TypeOK, SaveInProgress, Safe, Steps, File
<1>2. ASSUME NEW v \in Image, Save(v) PROVE FileInv'
  BY <1>2 DEF Save, TypeOK, SaveInProgress, Safe, Steps
<1>3. CASE CreateTemp
  <2>1. tmp' \in File
    BY <1>3 DEF CreateTemp, TypeOK, SaveInProgress, Steps, File
  <2>2. tmp'.image = image /\ tmp'.chunks = 0 /\ tmp' # Missing
    BY <1>3, <2>1 DEF CreateTemp
  <2>3. QED
    BY <1>3, <2>1, <2>2 DEF CreateTemp, TypeOK, SaveInProgress, Safe, Steps
<1>4. CASE Write
  <2>1. tmp \in File /\ tmp.chunks \in Nat /\ tmp.chunks < Chunks
    BY <1>4 DEF Write, TypeOK, SaveInProgress, Steps, File
  <2>2. tmp' = [tmp EXCEPT !.chunks = tmp.chunks + 1]
    BY <1>4 DEF Write
  <2>3. tmp' \in File /\ tmp'.image = tmp.image /\ tmp'.chunks = tmp.chunks + 1
    BY <2>1, <2>2 DEF File
  <2>4. QED BY <1>4, <2>1, <2>3 DEF Write, TypeOK, SaveInProgress, Safe, Steps
<1>5. CASE SyncAll
  <2>1. tmp \in File
    BY <1>5 DEF SyncAll, TypeOK, SaveInProgress, Steps
  <2>2. /\ tmp' \in File /\ tmp'.image = tmp.image /\ tmp'.chunks = tmp.chunks
        /\ tmp'.synced
    BY <1>5, <2>1 DEF SyncAll, File
  <2>3. QED BY <1>5, <2>1, <2>2 DEF SyncAll, TypeOK, SaveInProgress, Safe, Steps
<1>6. CASE Rename
  BY <1>6 DEF Rename, TypeOK, SaveInProgress, Safe, Steps
<1>7. CASE Fail
  BY <1>7 DEF Fail, TypeOK, SaveInProgress, Safe, Steps
<1>8. CASE Kill
  BY <1>8 DEF Kill, TypeOK, SaveInProgress, Safe, Steps
<1>9. CASE Flush
  BY <1>9 DEF Flush, TypeOK, SaveInProgress, Safe, Steps
<1>10. CASE PowerFailure
  <2>1. final' = flushed /\ flushed' = flushed
    BY <1>10, SafeRemains DEF PowerFailure, TypeOK
  <2>2. tmp' \in File \cup {Missing}
    BY <1>10, RemainsType DEF PowerFailure, TypeOK
  <2>3. QED BY <1>10, <2>1, <2>2 DEF PowerFailure, TypeOK, SaveInProgress, Safe, Steps
<1>11. CASE UNCHANGED vars
  BY <1>11 DEF vars, TypeOK, SaveInProgress, Safe, Steps
<1>12. QED
  BY <1>1, <1>2, <1>3, <1>4, <1>5, <1>6, <1>7, <1>8, <1>9, <1>10, <1>11 DEF Next

\* FileStorage::save never leaves a file under the final name that is not
\* complete and synced, wherever the process or the power fails.
THEOREM SavedFileIsWhole == Spec => []FileInv
BY FileInit, FileNext, PTL DEF Spec

\* Once an image is on the medium, a restart that can read the file finds an
\* image in it (load_snapshot_file).
THEOREM RestartRemembers == Spec => NoAmnesia
<1> DEFINE Remembers == (step = "down" /\ step' = "idle" /\ flushed # Missing) =>
                            loaded' # None \/ unread'
<1>1. FileInv /\ [Next]_vars => [Remembers]_vars
  <2> SUFFICES ASSUME FileInv, Next, step = "down", step' = "idle",
                      flushed # Missing
               PROVE  loaded' # None \/ unread'
    BY DEF vars
  <2>1. PICK readable \in BOOLEAN :
           /\ loaded' = IF readable THEN Load(final) ELSE None
           /\ unread' = ~readable
    BY DEF Next, Start, Save, CreateTemp, Write, SyncAll, Rename, Fail, Kill,
           Flush, PowerFailure, Steps
  <2>2. final \in File /\ Load(final) = final.image
    BY SafeLoads DEF FileInv, TypeOK
  <2>3. QED BY <2>1, <2>2, StorageAssumption DEF File
<1>2. QED BY <1>1, SavedFileIsWhole, PTL DEF Spec, NoAmnesia

\* save and load of FileStorage are those of a register of whole images.
THEOREM FilesImplementStore == Spec => ImplementsStore
<1>1. Init => Store!Init
  BY DEF Init, Store!Init, Load, Whole, Steps
<1>2. FileInv /\ FileInv' /\ [Next]_vars => [Store!Next]_(Store!vars)
  <2> SUFFICES ASSUME FileInv, FileInv', [Next]_vars
               PROVE  Store!Next \/ UNCHANGED Store!vars
    OBVIOUS
  <2> USE DEF Store!Next, Store!vars
  <2>1. CASE Start
    BY <2>1 DEF Start, Steps
  <2>2. ASSUME NEW v \in Image, Save(v) PROVE Store!Begin(v)
    BY <2>2 DEF Save, Steps, Store!Begin
  <2>3. CASE CreateTemp \/ Write \/ SyncAll
    BY <2>3 DEF CreateTemp, Write, SyncAll, Steps
  <2>4. CASE Rename
    <3>1. Load(final') = image /\ image \in Image
      BY <2>4 DEF Rename, FileInv, SaveInProgress, Steps, Load, Whole
    <3>2. QED BY <2>4, <3>1, StorageAssumption DEF Rename, Steps, Store!Commit
  <2>5. CASE Fail
    BY <2>5, StorageAssumption
       DEF Fail, Steps, FileInv, SaveInProgress, Store!Abort
  <2>6. CASE Kill
    BY <2>6, StorageAssumption
       DEF Kill, Steps, FileInv, SaveInProgress, Store!Abort
  <2>7. CASE Flush
    BY <2>7 DEF Flush, Steps, Store!Flush
  <2>8. CASE PowerFailure
    <3>1. final' = flushed /\ flushed' = flushed
      BY <2>8, SafeRemains DEF PowerFailure, FileInv, TypeOK
    <3>2. QED BY <2>8, <3>1 DEF PowerFailure, Steps, Store!PowerFailure
  <2>9. CASE UNCHANGED vars
    BY <2>9 DEF vars
  <2>10. QED
    BY <2>1, <2>2, <2>3, <2>4, <2>5, <2>6, <2>7, <2>8, <2>9 DEF Next
<1>3. QED
  BY <1>1, <1>2, SavedFileIsWhole, PTL DEF Spec, ImplementsStore, Store!Spec
=============================================================================
