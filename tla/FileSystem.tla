------------------------------- MODULE FileSystem ------------------------------
(***************************************************************************)
(* The file system below StateMarker::save and the downloader, external to *)
(* the repository: one path, its temporary sibling, and what a power loss  *)
(* leaves of them.                                                         *)
(*                                                                         *)
(* A file that was not synced may come back truncated, and the path with   *)
(* any of the files it has named since its directory was synced.  A kill   *)
(* of the process takes nothing back.                                      *)
(***************************************************************************)
CONSTANT Contents      \* what a file may hold when it was written to its end

None == "none"         \* where there is no file
Torn == "torn"         \* a file that is cut short, or still being written

File == [content : Contents \cup {None, Torn}, synced : BOOLEAN]

NoFile == [content |-> None, synced |-> TRUE]

\* The files of the two names, and those that the path may name after a power loss.
Dir == [tmp : File, final : File, kept : SUBSET File]

EmptyDir == [tmp |-> NoFile, final |-> NoFile, kept |-> {NoFile}]

Created(d)          == [d EXCEPT !.tmp = [content |-> Torn, synced |-> FALSE]]
Written(d, content) == [d EXCEPT !.tmp = [content |-> content, synced |-> FALSE]]
Synced(d)           == [d EXCEPT !.tmp = [content |-> d.tmp.content, synced |-> TRUE]]
Removed(d)          == [d EXCEPT !.tmp = NoFile]
Renamed(d)          == [tmp |-> NoFile, final |-> d.tmp, kept |-> d.kept \cup {d.tmp}]
DirSynced(d)        == [d EXCEPT !.kept = {d.final}]

\* A file after a power loss: whole if it was synced, and otherwise perhaps.
Survivors(file) ==
  IF file.synced THEN {file} ELSE [content : {file.content, Torn}, synced : {TRUE}]

\* The temporary file has gone or comes back cut short: no code reads it.
AfterPowerLoss(d) ==
  {[tmp |-> t, final |-> f, kept |-> {f}] :
     t \in {NoFile, [content |-> Torn, synced |-> TRUE]},
     f \in UNION {Survivors(file) : file \in d.kept}}
================================================================================
