------------------------------- MODULE DataMap -------------------------------
(***************************************************************************)
(* The metadata file datamap.json (src/fs/dis_operations/datamap.go): one  *)
(* FileInfo per uploaded file, and one DistributedFile per shard of it.    *)
(* Every operator below is one read-modify-write of that file, as a        *)
(* function from the old map to the new one; the operations of the code    *)
(* that fail when the name is unknown are used under Exists(dm, f).        *)
(*                                                                         *)
(* Data is abstracted to what the properties tell apart.  The names of a   *)
(* file's shards are the members of Shards (the code derives them from the *)
(* file's name and an index, so two files never share one, and stores them *)
(* remotely under a collision-free hash).  A checksum, a size and a padding *)
(* are all functions of the encoding the shards were cut from, which is    *)
(* the number Enc.                                                         *)
(***************************************************************************)
EXTENDS Naturals

CONSTANTS
    Files,      \* base names of the files a user may upload
    Shards,     \* indices of the data and parity shards of one file
    Remotes,    \* the remotes of the rclone configuration
    NoRemote    \* Remote{"", ""}, printed "|": not distributed yet

ASSUME NoRemoteAssumption == NoRemote \notin Remotes

States == {"absent", "upload", "download", "rm"}

(***************************************************************************)
(* FileInfo.  Remote and Check are the two changing fields of the map      *)
(* DistributedFileInfos.  A name that is not a key of the Go map is an     *)
(* entry whose State is "absent".                                          *)
(***************************************************************************)
FileInfo == [Flag   : BOOLEAN,
             State  : States,
             Enc    : Nat,
             Remote : [Shards -> Remotes \cup {NoRemote}],
             Check  : [Shards -> BOOLEAN]]

DataMaps == [Files -> FileInfo]

NoFileInfo == [Flag   |-> FALSE,
               State  |-> "absent",
               Enc    |-> 0,
               Remote |-> [s \in Shards |-> NoRemote],
               Check  |-> [s \in Shards |-> FALSE]]

(* readJsonFile of a file that does not exist, or is empty: no keys.       *)
EmptyMap == [f \in Files |-> NoFileInfo]

(* DoesFileStructExist, and the test GetFileInfoStruct fails on.           *)
Exists(dm, f) == dm[f].State # "absent"

(* Mutant: only unfinished uploads are noticed.                            *)
Flagged_Uploads(dm) == {f \in Files : dm[f].Flag /\ dm[f].State = "upload"}

(* CheckFlagAndState returns one of these, in Go's random map order.       *)
Flagged(dm) == {f \in Files : dm[f].Flag}

-----------------------------------------------------------------------------

(* MakeDataMap: the name's entry is replaced by one that no goroutine has  *)
(* filled in yet, flagged as an unfinished upload.                         *)
MakeDataMap(dm, f, enc) ==
    [dm EXCEPT ![f] = [Flag   |-> TRUE,
                       State  |-> "upload",
                       Enc    |-> enc,
                       Remote |-> [s \in Shards |-> NoRemote],
                       Check  |-> [s \in Shards |-> FALSE]]]

(* Mutant: the word of checkSameCommand, "remove", in place of "rm".       *)
UpdateFileFlag_Word(dm, f, state) ==
    [dm EXCEPT ![f].Flag = TRUE,
               ![f].State = IF state = "rm" THEN "remove" ELSE state]

(* UpdateFileFlag leaves the shards' Check fields as they are.             *)
UpdateFileFlag(dm, f, state) ==
    [dm EXCEPT ![f].Flag = TRUE, ![f].State = state]

(* The shard is treated: every caller passes the new Check as true.        *)
UpdateDistributedFile_CheckFlag(dm, f, s) ==
    [dm EXCEPT ![f].Check[s] = TRUE]

(* Mutant: the remote is forgotten.                                        *)
CheckFlagAndRemote_NoRemote(dm, f, s, remote) ==
    [dm EXCEPT ![f].Check[s] = TRUE]

UpdateDistributedFile_CheckFlagAndRemote(dm, f, s, remote) ==
    [dm EXCEPT ![f].Check[s] = TRUE, ![f].Remote[s] = remote]

(* ResetCheckFlag clears the flags of the file and of its shards and       *)
(* keeps State.                                                            *)
ResetCheckFlag(dm, f) ==
    [dm EXCEPT ![f].Flag = FALSE, ![f].Check = [s \in Shards |-> FALSE]]

RemoveFileFromMetadata(dm, f) == [dm EXCEPT ![f] = NoFileInfo]

(* GetUncompletedFileInfo: the shards a resumed command still has to treat.*)
GetUncompletedFileInfo(dm, f) ==
    {s \in Shards : ~dm[f].Check[s] /\ dm[f].Remote[s] # NoRemote}

=============================================================================
