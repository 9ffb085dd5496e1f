---------------------------- MODULE MarkerFileProofs ---------------------------
(***************************************************************************)
(* Proofs about MarkerFile, for any markers: the path is never torn, and   *)
(* the save protocol implements AtomicFile.                                *)
(***************************************************************************)
EXTENDS MarkerFile, TLAPS

\* A file that a power loss brings back as it was.
Durable(file) == file.synced /\ file.content # Torn

\* What the order of the steps guarantees: whatever the path names, or may name
\* after a power loss, is durable, since only a written and synced file is renamed.
MInv ==
  /\ TypeOK
  /\ Durable(dir.final)
  /\ \A file \in dir.kept : Durable(file)
  /\ pc # "ready" => new \in Markers
  /\ pc \in {"sync", "rename"} => dir.tmp.content = new
  /\ pc = "rename" => dir.tmp.synced

\* The operations on the file system keep its types.
LEMMA DirTypes ==
  ASSUME NEW d \in Dir, NEW content \in Markers
  PROVE  /\ {Created(d), Written(d, content), Synced(d), Renamed(d), DirSynced(d)} \subseteq Dir
         /\ EmptyDir \in Dir
<1>1. /\ NoFile \in File
      /\ \A c \in Markers \cup {None, Torn}, s \in BOOLEAN : [content |-> c, synced |-> s] \in File
  BY DEF File, NoFile
<1>2. d.tmp.content \in Markers \cup {None, Torn}
  BY DEF Dir, File
<1>3. Created(d) \in Dir /\ Written(d, content) \in Dir /\ Synced(d) \in Dir
  BY <1>1, <1>2 DEF Dir, Created, Written, Synced
<1>4. Renamed(d) \in Dir /\ DirSynced(d) \in Dir /\ EmptyDir \in Dir
  BY <1>1 DEF Dir, Renamed, DirSynced, EmptyDir
<1> QED BY <1>3, <1>4

\* A power loss leaves the path one of the files it may name, if these are durable.
LEMMA PowerLossFacts ==
  ASSUME NEW d \in Dir, \A file \in d.kept : Durable(file), NEW e \in AfterPowerLoss(d)
  PROVE  /\ e \in Dir
         /\ e.final \in d.kept
         /\ e.kept = {e.final}
<1>1. PICK t \in {NoFile, [content |-> Torn, synced |-> TRUE]},
           f \in UNION {Survivors(file) : file \in d.kept} :
        e = [tmp |-> t, final |-> f, kept |-> {f}]
  BY DEF AfterPowerLoss
<1>2. PICK file \in d.kept : f \in Survivors(file)
  OBVIOUS
<1>3. f = file
  BY <1>2 DEF Survivors, Durable
<1>4. t \in File /\ f \in File
  <2>1. f \in File
    BY <1>3 DEF Dir
  <2>2. NoFile \in File /\ [content |-> Torn, synced |-> TRUE] \in File
    BY DEF File, NoFile
  <2>3. t \in File
    BY <2>2
  <2> QED BY <2>1, <2>3
<1> QED BY <1>1, <1>3, <1>4 DEF Dir

\* Before the first save there is no file.
LEMMA InitMInv == Init => MInv
BY DEF Init, MInv, TypeOK, Durable, Dir, File, EmptyDir, NoFile, None, Torn

\* Every step of a save, its failures and both kinds of crash keep it.
LEMMA NextMInv == MInv /\ [Next]_vars => MInv'
<1> SUFFICES ASSUME MInv, [Next]_vars PROVE MInv'
  OBVIOUS
<1> USE DEF MInv, TypeOK
<1>1. CASE \E marker \in Markers : Save(marker)
  BY <1>1 DEF Save
<1>2. CASE Create
  BY <1>2, DirTypes DEF Create, Created
<1>3. CASE Write
  <2>1. dir' \in Dir
    BY <1>3, DirTypes DEF Write
  <2>2. dir'.tmp.content = new /\ dir'.final = dir.final /\ dir'.kept = dir.kept
    BY <1>3 DEF Write, Written, Dir
  <2> QED BY <1>3, <2>1, <2>2 DEF Write
<1>4. CASE Sync
  <2>1. dir' \in Dir
    BY <1>4, DirTypes DEF Sync
  <2>2. /\ dir'.tmp.content = dir.tmp.content /\ dir'.tmp.synced
        /\ dir'.final = dir.final /\ dir'.kept = dir.kept
    BY <1>4 DEF Sync, Synced, Dir
  <2> QED BY <1>4, <2>1, <2>2 DEF Sync
<1>5. CASE Rename
  <2>1. dir' \in Dir
    BY <1>5, DirTypes DEF Rename
  <2>2. dir'.final = dir.tmp /\ dir'.kept = dir.kept \cup {dir.tmp}
    BY <1>5 DEF Rename, Renamed
  <2>3. Durable(dir.tmp)
    BY <1>5, MarkersAssumption DEF Rename, Durable
  <2> QED BY <1>5, <2>1, <2>2, <2>3 DEF Rename
<1>6. CASE SyncDir
  <2>1. dir' \in Dir
    BY <1>6, DirTypes DEF SyncDir
  <2>2. dir'.final = dir.final /\ dir'.kept \in {dir.kept, {dir.final}}
    BY <1>6 DEF SyncDir, DirSynced, Dir
  <2> QED BY <1>6, <2>1, <2>2 DEF SyncDir
<1>7. CASE SaveFails
  BY <1>7 DEF SaveFails
<1>8. CASE Kill
  BY <1>8 DEF Kill, Gone
<1>9. CASE PowerLoss
  BY <1>9, PowerLossFacts DEF PowerLoss, Gone
<1>10. CASE UNCHANGED vars
  BY <1>10 DEF vars
<1> QED
  BY <1>1, <1>2, <1>3, <1>4, <1>5, <1>6, <1>7, <1>8, <1>9, <1>10 DEF Next

\* No interleaving of saves, failures, kills and power losses tears the marker.
THEOREM MarkerNeverTorn == Spec => []NeverTorn
<1>1. Spec => []MInv
  BY InitMInv, NextMInv, PTL DEF Spec
<1>2. MInv => NeverTorn
  BY DEF MInv, NeverTorn, Durable
<1> QED BY <1>1, <1>2, PTL

\* The first state of the protocol is the first one of AtomicFile.
LEMMA AtomicInit == Init => Marked!Init
BY DEF Init, Marked!Init, EmptyDir, NoFile

\* Rename replaces, the sync of the directory settles, a power loss is one, and
\* every other step leaves what a reader finds alone.
LEMMA AtomicNext == MInv /\ [Next]_vars => [Marked!Next]_(Marked!vars)
<1> SUFFICES ASSUME MInv, [Next]_vars PROVE [Marked!Next]_(Marked!vars)
  OBVIOUS
<1>1. CASE /\ dir'.final = dir.final
           /\ dir'.kept = dir.kept
  BY <1>1 DEF Marked!vars
<1>2. CASE Rename
  <2>1. /\ dir'.final = dir.tmp /\ dir'.kept = dir.kept \cup {dir.tmp}
        /\ dir.tmp.content \in Markers
    BY <1>2 DEF Rename, Renamed, MInv
  <2>2. {file.content : file \in dir'.kept} = {file.content : file \in dir.kept} \cup {dir'.final.content}
    BY <2>1
  <2> QED BY <2>1, <2>2 DEF Marked!Next, Marked!Replace
<1>3. CASE SyncDir
  <2>1. CASE dir' = dir
    BY <1>1, <2>1
  <2>2. CASE dir' = DirSynced(dir)
    <3>1. dir'.final = dir.final /\ dir'.kept = {dir.final}
      BY <2>2 DEF DirSynced, MInv, TypeOK, Dir
    <3> QED BY <3>1 DEF Marked!Next, Marked!Settle
  <2> QED BY <1>3, <2>1, <2>2 DEF SyncDir
<1>4. CASE PowerLoss
  <2>1. dir'.final \in dir.kept /\ dir'.kept = {dir'.final}
    BY <1>4, PowerLossFacts DEF PowerLoss, MInv, TypeOK
  <2> QED BY <2>1 DEF Marked!Next, Marked!PowerLoss
<1>5. CASE \/ UNCHANGED vars \/ (\E marker \in Markers : Save(marker)) \/ SaveFails \/ Kill
  BY <1>1, <1>5 DEF vars, Save, SaveFails, Kill
<1>6. CASE Create \/ Write \/ Sync
  BY <1>1, <1>6
     DEF MInv, TypeOK, Dir, Create, Write, Sync, Created, Written, Synced
<1> QED BY <1>2, <1>3, <1>4, <1>5, <1>6 DEF Next

\* What readers of the marker see, over all saves, failures and crashes, is a
\* behaviour of AtomicFile.
THEOREM SaveImplementsAtomicFile == Spec => SaveIsAtomic
<1>1. Spec => []MInv
  BY InitMInv, NextMInv, PTL DEF Spec
<1> QED BY <1>1, AtomicInit, AtomicNext, PTL DEF Spec, SaveIsAtomic, Marked!Spec
================================================================================
