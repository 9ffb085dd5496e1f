---------------------------- MODULE DownloaderProofs ---------------------------
(***************************************************************************)
(* Proofs about Downloader, for any number of entities and of attempts.    *)
(***************************************************************************)
EXTENDS Downloader, TLAPS

\* What a final path may name: nothing, or the verified entity, synced.
Trusted == {NoFile, [content |-> "whole", synced |-> TRUE]}

\* The steps of an attempt.
Attempting == {"get", "open", "write", "sync", "verify", "rename", "syncDir"}

\* Final paths, and what they may name after a power loss, are trusted.
DirsTrusted == \A e \in Entities : dirs[e].final \in Trusted /\ dirs[e].kept \subseteq Trusted

\* What the attempt under way has done so far to its .tmp.
AttemptSoFar ==
  /\ pc \in Attempting => entity \in Entities
  /\ pc \in {"sync", "verify"} =>
       dirs[entity].tmp.content = IF body = "genuine" THEN "whole" ELSE "bad"
  /\ pc \in {"verify", "rename"} => dirs[entity].tmp.synced
  /\ pc = "rename" => dirs[entity].tmp.content = "whole"
  /\ pc = "syncDir" => IsComplete(entity)

\* What the run has done so far to the version, and what the last one has claimed.
RunSoFar ==
  /\ pc # "idle" => result = "none"
  /\ pc \notin {"idle", "index", "sums"} => \A e \in 1 .. entity - 1 : IsComplete(e)
  /\ result \in {"current", "downloaded"} => \A e \in Entities : IsComplete(e)

DInv == TypeOK /\ DirsTrusted /\ AttemptSoFar /\ RunSoFar

\* The operations on the file system keep its types.
LEMMA DirTypes ==
  ASSUME NEW d \in Dir, NEW content \in {"whole", "bad"}
  PROVE  /\ {Created(d), Written(d, content), Synced(d), Renamed(d)} \subseteq Dir
         /\ {Removed(d), DirSynced(d), EmptyDir} \subseteq Dir
<1>1. /\ NoFile \in File
      /\ \A c \in {"whole", "bad"} \cup {None, Torn}, s \in BOOLEAN :
           [content |-> c, synced |-> s] \in File
  BY DEF File, NoFile
<1>2. d.tmp.content \in {"whole", "bad"} \cup {None, Torn}
  BY DEF Dir, File
<1>3. Created(d) \in Dir /\ Written(d, content) \in Dir /\ Synced(d) \in Dir
  BY <1>1, <1>2 DEF Dir, Created, Written, Synced
<1>4. Renamed(d) \in Dir /\ DirSynced(d) \in Dir /\ Removed(d) \in Dir /\ EmptyDir \in Dir
  BY <1>1 DEF Dir, Renamed, DirSynced, Removed, EmptyDir
<1> QED BY <1>3, <1>4

\* The operations on the .tmp leave alone what the path names.
LEMMA TmpOnly ==
  ASSUME NEW d \in Dir, NEW content \in {"whole", "bad"},
         NEW e \in {Created(d), Written(d, content), Synced(d), Removed(d)}
  PROVE  e.final = d.final /\ e.kept = d.kept
BY DEF Dir, Created, Written, Synced, Removed

\* A power loss leaves a path that was trusted with a file that is.
LEMMA PowerLossFacts ==
  ASSUME NEW d \in Dir, d.kept \subseteq Trusted, NEW e \in AfterPowerLoss(d)
  PROVE  /\ e \in Dir
         /\ e.final \in d.kept
         /\ e.kept = {e.final}
<1>1. PICK t \in {NoFile, [content |-> Torn, synced |-> TRUE]},
           f \in UNION {Survivors(file) : file \in d.kept} :
        e = [tmp |-> t, final |-> f, kept |-> {f}]
  BY DEF AfterPowerLoss
<1>2. PICK file \in d.kept : f \in Survivors(file)
  OBVIOUS
<1>3. f = file
  <2>1. file \in Trusted
    OBVIOUS
  <2>2. file.synced
    BY <2>1 DEF Trusted, NoFile
  <2> QED BY <1>2, <2>2 DEF Survivors
<1>4. NoFile \in File /\ [content |-> Torn, synced |-> TRUE] \in File
  BY DEF File, NoFile
<1>5. t \in File /\ f \in File
  BY <1>3, <1>4 DEF Dir
<1> QED BY <1>1, <1>3, <1>5 DEF Dir

\* The first state of the downloader: no file, no run.
LEMMA InitDInv == Init => DInv
<1> SUFFICES ASSUME Init PROVE DInv
  OBVIOUS
<1>1. \A e \in Entities : dirs[e] = EmptyDir
  BY DEF Init
<1>2. EmptyDir \in Dir
  BY DEF EmptyDir, Dir, File, NoFile
<1>3. TypeOK
  BY <1>2, DownloaderAssumption DEF Init, TypeOK, Entities
<1>4. DirsTrusted
  BY <1>1 DEF DirsTrusted, EmptyDir, Trusted
<1> QED BY <1>3, <1>4 DEF Init, DInv, AttemptSoFar, RunSoFar, Attempting

\* The end of a run leaves the invariant to what the run claims.
LEMMA ReturnKeeps ==
  ASSUME DInv, NEW value \in {"none", "current", "downloaded", "error", "exhausted"},
         Return(value), removals' \in BOOLEAN,
         dirs' \in [Entities -> Dir], DirsTrusted',
         value \in {"current", "downloaded"} => \A e \in Entities : IsComplete(e)'
  PROVE  DInv'
<1>1. TypeOK'
  BY DownloaderAssumption DEF Return, DInv, TypeOK, Entities
<1>2. AttemptSoFar' /\ RunSoFar'
  BY DEF Return, AttemptSoFar, RunSoFar, Attempting
<1> QED BY <1>1, <1>2 DEF DInv

\* A step on the .tmp of the entity under way leaves all final paths alone.
LEMMA TmpStep ==
  ASSUME DInv, entity \in Entities, NEW content \in {"whole", "bad"},
         NEW d \in {Created(dirs[entity]), Written(dirs[entity], content),
                    Synced(dirs[entity]), Removed(dirs[entity])},
         SetDir(d)
  PROVE  /\ dirs' \in [Entities -> Dir] /\ DirsTrusted'
         /\ dirs'[entity] = d
         /\ \A e \in Entities : dirs'[e].final = dirs[e].final /\ dirs'[e].kept = dirs[e].kept
<1>1. dirs \in [Entities -> Dir] /\ dirs[entity] \in Dir
  BY DEF DInv, TypeOK
<1>2. d \in Dir /\ d.final = dirs[entity].final /\ d.kept = dirs[entity].kept
  BY <1>1, DirTypes, TmpOnly
<1>3. /\ dirs' \in [Entities -> Dir] /\ dirs'[entity] = d
      /\ \A e \in Entities : e # entity => dirs'[e] = dirs[e]
  BY <1>1, <1>2 DEF SetDir
<1>4. \A e \in Entities : dirs'[e].final = dirs[e].final /\ dirs'[e].kept = dirs[e].kept
  BY <1>2, <1>3
<1> QED BY <1>3, <1>4 DEF DInv, DirsTrusted

\* So does its removal, whether it works or not.
LEMMA RemoveStep ==
  ASSUME DInv, entity \in Entities, RemoveTmp
  PROVE  /\ dirs' \in [Entities -> Dir] /\ DirsTrusted' /\ removals' \in BOOLEAN
         /\ \A e \in Entities : IsComplete(e)' <=> IsComplete(e)
<1>1. CASE SetDir(Removed(dirs[entity])) /\ UNCHANGED removals
  <2>1. "bad" \in {"whole", "bad"}
    OBVIOUS
  <2>2. PICK d \in {Removed(dirs[entity])} : SetDir(d)
    BY <1>1
  <2>3. /\ dirs' \in [Entities -> Dir] /\ DirsTrusted'
        /\ \A e \in Entities : dirs'[e].final = dirs[e].final
    BY <2>1, <2>2, TmpStep
  <2> QED BY <1>1, <2>3 DEF DInv, TypeOK, IsComplete
<1>2. CASE removals' = FALSE /\ UNCHANGED dirs
  BY <1>2 DEF DInv, TypeOK, DirsTrusted, IsComplete
<1> QED BY <1>1, <1>2 DEF RemoveTmp

\* What an attempt that failed leads to keeps the invariant, whatever became of
\* its .tmp.
LEMMA NextAttemptKeeps ==
  ASSUME DInv, entity \in Entities, pc \in Attempting, NextAttempt, removals' \in BOOLEAN,
         dirs' \in [Entities -> Dir], DirsTrusted',
         \A e \in Entities : IsComplete(e)' <=> IsComplete(e)
  PROVE  DInv'
<1>1. CASE attempt < MaxAttempts
  <2>1. /\ pc' = "get" /\ attempt' = attempt + 1 /\ body' = "none"
        /\ UNCHANGED <<listed, entity, result>>
    BY <1>1 DEF NextAttempt
  <2>2. attempt' \in 1 .. MaxAttempts
    BY <1>1, <2>1, DownloaderAssumption DEF DInv, TypeOK
  <2>3. TypeOK'
    BY <2>1, <2>2 DEF DInv, TypeOK
  <2>4. 1 .. entity - 1 \subseteq Entities
    BY DownloaderAssumption DEF DInv, TypeOK, Entities
  <2>5. RunSoFar'
    BY <2>1, <2>4 DEF DInv, RunSoFar, Attempting
  <2> QED BY <2>1, <2>3, <2>5 DEF DInv, AttemptSoFar
<1>2. CASE ~(attempt < MaxAttempts)
  BY <1>2, ReturnKeeps DEF NextAttempt
<1> QED BY <1>1, <1>2

\* Every step of a run, its failures and both kinds of crash keep it.
LEMMA NextDInv == DInv /\ [Next]_vars => DInv'
<1> SUFFICES ASSUME DInv, [Next]_vars PROVE DInv'
  OBVIOUS
<1>t. /\ TypeOK /\ DirsTrusted /\ removals \in BOOLEAN /\ dirs \in [Entities -> Dir]
      /\ EntityCount \in Nat /\ MaxAttempts \in Nat \ {0} /\ entity \in Nat
  BY DownloaderAssumption DEF DInv, TypeOK
<1>u. 1 .. entity - 1 \subseteq Entities /\ (pc \in Attempting => entity \in Entities)
  BY <1>t DEF DInv, TypeOK, Entities, AttemptSoFar
<1>1. CASE Start
  <2>1. pc' = "index" /\ result' = "none" /\ removals' = TRUE /\ UNCHANGED <<progress, dirs>>
    BY <1>1 DEF Start
  <2> QED BY <2>1 DEF DInv, TypeOK, DirsTrusted, AttemptSoFar, RunSoFar, Attempting, progress
<1>2. CASE FetchIndex
  <2>1. CASE \A e \in Entities : IsComplete(e)
    BY <1>2, <1>t, <2>1, ReturnKeeps DEF FetchIndex, DirsTrusted, IsComplete
  <2>2. CASE ~\A e \in Entities : IsComplete(e)
    <3>1. pc = "index" /\ pc' = "sums" /\ UNCHANGED <<progress, result, dirs, removals>>
      BY <1>2, <2>2 DEF FetchIndex
    <3> QED BY <3>1 DEF DInv, TypeOK, DirsTrusted, AttemptSoFar, RunSoFar, Attempting, progress
  <2> QED BY <2>1, <2>2
<1>3. CASE FetchSums
  <2>1. /\ pc = "sums" /\ pc' = "entity" /\ listed' \in SUBSET Entities /\ entity' = 1
        /\ UNCHANGED <<attempt, body, dirs, removals, result>>
    BY <1>3 DEF FetchSums
  <2>2. 1 \in 1 .. EntityCount + 1 /\ 1 .. 1 - 1 = {}
    BY <1>t
  <2> QED BY <2>1, <2>2 DEF DInv, TypeOK, DirsTrusted, AttemptSoFar, RunSoFar, Attempting
<1>4. CASE PreludeFails \/ TaskPanics \/ Kill
  <2>1. dirs' = dirs /\ removals' \in BOOLEAN
    BY <1>4, <1>t DEF PreludeFails, TaskPanics, Kill, Gone
  <2>2. \E value \in {"none", "error"} : Return(value)
    BY <1>4 DEF PreludeFails, TaskPanics, Kill, Gone
  <2> QED BY <1>t, <2>1, <2>2, ReturnKeeps DEF DirsTrusted
<1>5. CASE SkipComplete
  <2>1. /\ pc = "entity" /\ entity \in Entities /\ IsComplete(entity) /\ entity' = entity + 1
        /\ UNCHANGED <<pc, listed, attempt, body, dirs, removals, result>>
    BY <1>5 DEF SkipComplete
  <2>2. /\ entity' \in 1 .. EntityCount + 1
        /\ 1 .. entity' - 1 = (1 .. entity - 1) \cup {entity}
    BY <1>t, <2>1 DEF Entities
  <2>3. \A e \in 1 .. entity' - 1 : IsComplete(e)'
    BY <2>1, <2>2 DEF DInv, RunSoFar, IsComplete
  <2> QED
    BY <2>1, <2>2, <2>3
       DEF DInv, TypeOK, DirsTrusted, AttemptSoFar, RunSoFar, Attempting, IsComplete
<1>6. CASE BeginEntity
  <2>1. CASE entity \in listed
    <3>1. /\ pc = "entity" /\ entity \in Entities /\ pc' = "get" /\ attempt' = 1
          /\ UNCHANGED <<listed, entity, body, dirs, removals, result>>
      BY <1>6, <2>1 DEF BeginEntity
    <3>2. 1 \in 1 .. MaxAttempts
      BY <1>t
    <3> QED
      BY <3>1, <3>2
         DEF DInv, TypeOK, DirsTrusted, AttemptSoFar, RunSoFar, Attempting, IsComplete
  <2>2. CASE entity \notin listed
    BY <1>6, <1>t, <2>2, ReturnKeeps DEF BeginEntity, DirsTrusted
  <2> QED BY <2>1, <2>2
<1>7. CASE AllDone
  <2>1. pc = "entity" /\ entity \notin Entities /\ Return("downloaded")
        /\ UNCHANGED <<dirs, removals>>
    BY <1>7 DEF AllDone
  <2>2. Entities \subseteq 1 .. entity - 1
    BY <1>t, <2>1 DEF TypeOK, Entities
  <2>3. \A e \in Entities : IsComplete(e)'
    BY <2>1, <2>2 DEF DInv, RunSoFar, IsComplete
  <2> QED BY <1>t, <2>1, <2>3, ReturnKeeps DEF DirsTrusted
<1>8. CASE Get
  <2>1. /\ pc = "get" /\ pc' = "open" /\ body' \in {"genuine", "corrupt"}
        /\ UNCHANGED <<listed, entity, attempt, result>>
        /\ RemoveTmp \/ UNCHANGED <<dirs, removals>>
    BY <1>8 DEF Get, CleanBefore
  <2>2. /\ dirs' \in [Entities -> Dir] /\ DirsTrusted' /\ removals' \in BOOLEAN
        /\ \A e \in Entities : IsComplete(e)' <=> IsComplete(e)
    BY <1>t, <1>u, <2>1, RemoveStep DEF Attempting, DirsTrusted, IsComplete
  <2> QED
    BY <1>u, <2>1, <2>2 DEF DInv, TypeOK, AttemptSoFar, RunSoFar, Attempting
<1>9. CASE GetFails \/ AttemptFails
  <2>1. /\ pc \in Attempting /\ NextAttempt
        /\ RemoveTmp \/ UNCHANGED <<dirs, removals>>
    BY <1>9 DEF GetFails, AttemptFails, CleanBefore, Attempting
  <2>2. /\ dirs' \in [Entities -> Dir] /\ DirsTrusted' /\ removals' \in BOOLEAN
        /\ \A e \in Entities : IsComplete(e)' <=> IsComplete(e)
    BY <1>t, <1>u, <2>1, RemoveStep DEF DirsTrusted, IsComplete
  <2> QED BY <1>u, <2>1, <2>2, NextAttemptKeeps
<1>10. CASE OpenTmp \/ WriteTmp \/ SyncTmp
  <2> DEFINE content == IF body = "genuine" THEN "whole" ELSE "bad"
  <2>0. content \in {"whole", "bad"}
    OBVIOUS
  <2>1. PICK d \in {Created(dirs[entity]), Written(dirs[entity], content), Synced(dirs[entity])} :
          /\ SetDir(d)
          /\ \/ pc = "open" /\ pc' = "write"
             \/ pc = "write" /\ pc' = "sync" /\ d = Written(dirs[entity], content)
             \/ pc = "sync" /\ pc' = "verify" /\ d = Synced(dirs[entity])
    BY <1>10 DEF OpenTmp, WriteTmp, SyncTmp, Step
  <2>2. UNCHANGED <<progress, removals, result>>
    BY <1>10 DEF OpenTmp, WriteTmp, SyncTmp, Step
  <2>3. entity \in Entities /\ dirs[entity] \in Dir
    BY <1>t, <1>u, <2>1 DEF Attempting
  <2>4. /\ dirs' \in [Entities -> Dir] /\ DirsTrusted' /\ dirs'[entity] = d
        /\ \A e \in Entities : dirs'[e].final = dirs[e].final
    BY <2>0, <2>1, <2>3, TmpStep
  <2>5. /\ pc = "write" => d.tmp.content = content
        /\ pc = "sync" => d.tmp.content = dirs[entity].tmp.content /\ d.tmp.synced
    BY <2>1, <2>3 DEF Dir, Written, Synced
  <2>6. TypeOK'
    BY <2>1, <2>2, <2>4 DEF DInv, TypeOK, progress
  <2>7. AttemptSoFar'
    BY <2>1, <2>2, <2>3, <2>4, <2>5 DEF DInv, AttemptSoFar, Attempting, progress
  <2>8. RunSoFar'
    BY <1>u, <2>1, <2>2, <2>4 DEF DInv, RunSoFar, IsComplete, progress
  <2> QED BY <2>4, <2>6, <2>7, <2>8 DEF DInv
<1>11. CASE Verify
  <2>1. pc = "verify" /\ pc' = "rename" /\ body = "genuine"
        /\ UNCHANGED <<progress, removals, result, dirs>>
    BY <1>11 DEF Verify, Step
  <2> QED
    BY <2>1 DEF DInv, TypeOK, DirsTrusted, AttemptSoFar, RunSoFar, Attempting, IsComplete, progress
<1>12. CASE Publish
  <2>1. /\ pc = "rename" /\ pc' = "syncDir" /\ UNCHANGED <<progress, removals, result>>
        /\ dirs' = [dirs EXCEPT ![entity] = Renamed(dirs[entity])]
    BY <1>12 DEF Publish, Step, SetDir
  <2>2. /\ entity \in Entities /\ dirs[entity] \in Dir
        /\ dirs[entity].tmp.synced /\ dirs[entity].tmp.content = "whole"
    BY <1>t, <1>u, <2>1 DEF DInv, AttemptSoFar, Attempting
  <2>3. dirs[entity].tmp = [content |-> "whole", synced |-> TRUE]
    BY <2>2 DEF Dir, File
  <2>4. /\ dirs' \in [Entities -> Dir]
        /\ dirs'[entity].final = dirs[entity].tmp
        /\ dirs'[entity].kept = dirs[entity].kept \cup {dirs[entity].tmp}
        /\ \A e \in Entities : e # entity => dirs'[e] = dirs[e]
    BY <1>t, <2>1, <2>2, DirTypes DEF Renamed
  <2>5. DirsTrusted'
    BY <1>t, <2>3, <2>4 DEF DirsTrusted, Trusted
  <2>6. \A e \in Entities : IsComplete(e)' <=> IsComplete(e) \/ e = entity
    BY <2>3, <2>4 DEF IsComplete, NoFile, None
  <2>7. TypeOK'
    BY <2>1, <2>4 DEF DInv, TypeOK, progress
  <2>8. AttemptSoFar' /\ RunSoFar'
    BY <1>u, <2>1, <2>2, <2>6 DEF DInv, AttemptSoFar, RunSoFar, Attempting, progress
  <2> QED BY <2>5, <2>7, <2>8 DEF DInv
<1>13. CASE SyncDir
  <2>1. /\ pc = "syncDir" /\ pc' = "entity" /\ entity' = entity + 1
        /\ UNCHANGED <<listed, attempt, body, removals, result>>
        /\ dirs' \in {dirs, [dirs EXCEPT ![entity] = DirSynced(@)]}
    BY <1>13 DEF SyncDir
  <2>2. entity \in Entities /\ dirs[entity] \in Dir
    BY <1>t, <1>u, <2>1 DEF Attempting
  <2>3. DirSynced(dirs[entity]).final = dirs[entity].final
        /\ DirSynced(dirs[entity]).kept = {dirs[entity].final}
    BY <2>2 DEF DirSynced, Dir
  <2>4. /\ dirs' \in [Entities -> Dir]
        /\ \A e \in Entities : /\ dirs'[e].final = dirs[e].final
                               /\ dirs'[e].kept \in {dirs[e].kept, {dirs[e].final}}
    <3>1. CASE dirs' = dirs
      BY <1>t, <3>1
    <3>2. CASE dirs' = [dirs EXCEPT ![entity] = DirSynced(dirs[entity])]
      <4>1. "bad" \in {"whole", "bad"} /\ DirSynced(dirs[entity]) \in Dir
        BY <2>2, DirTypes
      <4> QED BY <1>t, <2>2, <2>3, <3>2, <4>1
    <3> QED BY <2>1, <3>1, <3>2
  <2>5. DirsTrusted'
    BY <1>t, <2>4 DEF DirsTrusted
  <2>6. /\ entity' \in 1 .. EntityCount + 1
        /\ 1 .. entity' - 1 = (1 .. entity - 1) \cup {entity}
    BY <1>t, <2>1, <2>2 DEF Entities
  <2>7. TypeOK'
    BY <2>1, <2>4, <2>6 DEF DInv, TypeOK
  <2>8. \A e \in Entities : IsComplete(e)' <=> IsComplete(e)
    BY <2>4 DEF IsComplete
  <2>9. AttemptSoFar' /\ RunSoFar'
    BY <1>u, <2>1, <2>2, <2>6, <2>8 DEF DInv, AttemptSoFar, RunSoFar, Attempting
  <2> QED BY <2>5, <2>7, <2>9 DEF DInv
<1>14. CASE PowerLoss
  <2>1. /\ Return("none") /\ removals' = TRUE
        /\ dirs' \in [Entities -> UNION {AfterPowerLoss(dirs[e]) : e \in Entities}]
        /\ \A e \in Entities : dirs'[e] \in AfterPowerLoss(dirs[e])
    BY <1>14 DEF PowerLoss, Gone
  <2>2. \A e \in Entities : /\ dirs'[e] \in Dir
                            /\ dirs'[e].final \in dirs[e].kept
                            /\ dirs'[e].kept = {dirs'[e].final}
    BY <1>t, <2>1, PowerLossFacts DEF DirsTrusted
  <2>3. dirs' \in [Entities -> Dir]
    BY <2>1, <2>2
  <2>4. DirsTrusted'
    BY <1>t, <2>2 DEF DirsTrusted
  <2> QED BY <2>1, <2>3, <2>4, ReturnKeeps
<1>15. CASE UNCHANGED vars
  BY <1>15
     DEF vars, progress, DInv, TypeOK, DirsTrusted, AttemptSoFar, RunSoFar, Attempting, IsComplete
<1> QED
  BY <1>1, <1>2, <1>3, <1>4, <1>5, <1>6, <1>7, <1>8, <1>9, <1>10, <1>11, <1>12, <1>13, <1>14,
     <1>15 DEF Next, RunStep

\* The invariant holds in every reachable state.
THEOREM DownloaderInvariance == Spec => []DInv
BY InitDInv, NextDInv, PTL DEF Spec

\* However runs, failures, kills and power losses alternate, only a verified and
\* whole file is ever found at a final path.
THEOREM FinalVerified == Spec => []FinalIsVerified
<1>1. DInv => FinalIsVerified
  BY DEF DInv, DirsTrusted, Trusted, NoFile, FinalIsVerified
<1> QED BY <1>1, DownloaderInvariance, PTL

\* A run that claims the version has all of its entities in place.
THEOREM VersionWhole == Spec => []VersionIsWhole
<1>1. DInv => VersionIsWhole
  BY DEF DInv, DirsTrusted, Trusted, RunSoFar, IsComplete, VersionIsWhole
<1> QED BY <1>1, DownloaderInvariance, PTL

\* A run that gives up leaves no .tmp of the entity if every removal has worked:
\* each attempt that failed removes its own, and a second one what a killed run has
\* left.  With a single attempt, whose GET fails, that one would stay.
THEOREM NoPartialEverLeft ==
  ASSUME MaxAttempts > 1
  PROVE  Spec => NoPartialLeft
<1>1. DInv /\ [Next]_vars
        => [result' = "exhausted" /\ removals' => dirs'[entity].tmp = NoFile]_vars
  <2> SUFFICES ASSUME DInv, Next, result' = "exhausted", removals'
               PROVE  dirs'[entity].tmp = NoFile
    OBVIOUS
  <2>1. /\ GetFails \/ AttemptFails
        /\ ~(attempt < MaxAttempts)
    <3>1. pc # "idle" => result # "exhausted"
      BY DEF DInv, RunSoFar
    <3>2. GetFails \/ AttemptFails
      BY <3>1
         DEF Next, RunStep, Start, FetchIndex, FetchSums, PreludeFails, SkipComplete,
             BeginEntity, AllDone, Get, OpenTmp, WriteTmp, SyncTmp, Verify, Publish, SyncDir,
             TaskPanics, Kill, PowerLoss, Gone, Return, Step
    <3>3. pc # "idle"
      BY <3>2 DEF GetFails, AttemptFails
    <3> QED BY <3>1, <3>2, <3>3 DEF GetFails, AttemptFails, NextAttempt
  <2>2. RemoveTmp /\ entity \in Entities
    <3>1. attempt > 1
      BY <2>1, DownloaderAssumption DEF DInv, TypeOK
    <3> QED BY <2>1, <3>1 DEF GetFails, AttemptFails, CleanBefore, DInv, AttemptSoFar, Attempting
  <2>3. SetDir(Removed(dirs[entity]))
    BY <2>2 DEF RemoveTmp
  <2>4. dirs \in [Entities -> Dir] /\ dirs[entity] \in Dir
    BY <2>2 DEF DInv, TypeOK
  <2> QED BY <2>2, <2>3, <2>4 DEF SetDir, Removed, Dir
<1> QED BY <1>1, DownloaderInvariance, PTL DEF Spec, NoPartialLeft

\* Before the first run no entity is there.
LEMMA PublishedInit == Init => \A e \in Entities : Published(e)!Init
BY DEF Init, Published!Init, EmptyDir, NoFile

\* A step that changes neither what a path names nor what it may name is none.
LEMMA PathKept ==
  ASSUME NEW e \in Entities, dirs'[e].final = dirs[e].final, dirs'[e].kept = dirs[e].kept
  PROVE  UNCHANGED Published(e)!vars
BY DEF Published!vars

\* Publish replaces one entity, the sync of the directory settles it, a power loss
\* is one of each entity, and every other step leaves the paths alone.
LEMMA PublishedNext ==
  DInv /\ [Next]_vars => \A e \in Entities : [Published(e)!Next]_(Published(e)!vars)
<1> SUFFICES ASSUME DInv, [Next]_vars, NEW e \in Entities
             PROVE  [Published(e)!Next]_(Published(e)!vars)
  OBVIOUS
<1>t. /\ DirsTrusted /\ dirs \in [Entities -> Dir] /\ dirs[e] \in Dir
      /\ (pc \in Attempting => entity \in Entities)
  BY DEF DInv, TypeOK, AttemptSoFar
<1>1. CASE UNCHANGED dirs
  BY <1>1, PathKept
<1>2. CASE entity \in Entities /\ e # entity /\ \E d : SetDir(d)
  BY <1>t, <1>2, PathKept DEF SetDir
<1>3. CASE pc \in Attempting /\ RemoveTmp
  <2>1. CASE SetDir(Removed(dirs[entity]))
    <3>1. PICK d \in {Removed(dirs[entity])} : SetDir(d)
      BY <2>1
    <3>2. "bad" \in {"whole", "bad"}
      OBVIOUS
    <3> QED BY <1>t, <1>3, <3>1, <3>2, TmpStep, PathKept
  <2> QED BY <1>1, <1>3, <2>1 DEF RemoveTmp
<1>4. CASE OpenTmp \/ WriteTmp \/ SyncTmp
  <2> DEFINE content == IF body = "genuine" THEN "whole" ELSE "bad"
  <2>1. content \in {"whole", "bad"} /\ pc \in Attempting
    BY <1>4 DEF OpenTmp, WriteTmp, SyncTmp, Attempting
  <2>2. PICK d \in {Created(dirs[entity]), Written(dirs[entity], content), Synced(dirs[entity])} :
          SetDir(d)
    BY <1>4 DEF OpenTmp, WriteTmp, SyncTmp
  <2> QED BY <1>t, <2>1, <2>2, TmpStep, PathKept
<1>5. CASE Publish
  <2>1. pc = "rename" /\ SetDir(Renamed(dirs[entity]))
    BY <1>5 DEF Publish
  <2>2. entity \in Entities
    BY <1>t, <2>1 DEF Attempting
  <2>3. CASE e = entity
    <3>1. /\ dirs'[e].final = dirs[e].tmp
          /\ dirs'[e].kept = dirs[e].kept \cup {dirs[e].tmp}
          /\ dirs[e].tmp.content = "whole"
      BY <1>t, <2>1, <2>3 DEF SetDir, Renamed, DInv, AttemptSoFar
    <3>2. {file.content : file \in dirs'[e].kept} =
            {file.content : file \in dirs[e].kept} \cup {dirs'[e].final.content}
      BY <3>1
    <3> QED BY <3>1, <3>2 DEF Published!Next, Published!Replace
  <2> QED BY <1>2, <2>1, <2>2, <2>3
<1>6. CASE SyncDir
  <2>1. /\ pc = "syncDir"
        /\ dirs' = dirs \/ SetDir(DirSynced(dirs[entity]))
    BY <1>6 DEF SyncDir, SetDir
  <2>2. entity \in Entities
    BY <1>t, <2>1 DEF Attempting
  <2>3. CASE e = entity /\ SetDir(DirSynced(dirs[entity]))
    <3>1. dirs'[e].final = dirs[e].final /\ dirs'[e].kept = {dirs[e].final}
      BY <1>t, <2>3 DEF SetDir, DirSynced, Dir
    <3> QED BY <3>1 DEF Published!Next, Published!Settle
  <2> QED BY <1>1, <1>2, <2>1, <2>2, <2>3
<1>7. CASE PowerLoss
  <2>1. dirs'[e].final \in dirs[e].kept /\ dirs'[e].kept = {dirs'[e].final}
    BY <1>t, <1>7, PowerLossFacts DEF PowerLoss, DirsTrusted
  <2> QED BY <2>1 DEF Published!Next, Published!PowerLoss
<1>8. CASE Get \/ GetFails \/ AttemptFails
  <2>1. pc \in Attempting /\ (RemoveTmp \/ UNCHANGED dirs)
    BY <1>8 DEF Get, GetFails, AttemptFails, CleanBefore, Attempting
  <2> QED BY <1>1, <1>3, <2>1
<1> QED
  <2>1. \/ UNCHANGED dirs \/ OpenTmp \/ WriteTmp \/ SyncTmp \/ Publish \/ SyncDir
        \/ Get \/ GetFails \/ AttemptFails \/ PowerLoss
    BY DEF Next, RunStep, vars, Start, FetchIndex, FetchSums, PreludeFails, SkipComplete,
           BeginEntity, AllDone, Verify, TaskPanics, Kill
  <2> QED BY <1>1, <1>4, <1>5, <1>6, <1>7, <1>8, <2>1

\* Each entity's final path behaves as an AtomicFile over all runs and crashes.
THEOREM EntitiesAtomic == Spec => EntityIsAtomic
<1>1. Spec => []DInv
  BY DownloaderInvariance
<1> QED BY <1>1, PublishedInit, PublishedNext, PTL DEF Spec, EntityIsAtomic
================================================================================
