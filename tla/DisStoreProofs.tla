--------------------------- MODULE DisStoreProofs ---------------------------
(***************************************************************************)
(* Theorems about DisStore, for every number of files, shards, remotes,    *)
(* encodings and faults.                                                   *)
(***************************************************************************)
EXTENDS DisStore, DataMapProofs, FiniteSetTheorems

(***************************************************************************)
(* Types.  TypeOK is proved in three parts: the process, what it reads and *)
(* writes, and the counters of the environment.                            *)
(***************************************************************************)
Dir == [Files -> [Shards -> Contents]]

ProcType ==
    /\ pc     \in Pcs
    /\ cmd    \in Commands
    /\ target \in Files
    /\ ret    \in {"done", "main", "encode"}
    /\ phase  \in [Shards -> Phases]
    /\ dst    \in [Shards -> Remotes \cup {NoRemote}]
    /\ errs   \in BOOLEAN
    /\ report \in Reports

DataType ==
    /\ datamap \in DataMaps
    /\ store   \in [Remotes -> Dir]
    /\ hashed  \in Dir
    /\ plain   \in Dir
    /\ out     \in [Files -> Nat]
    /\ sealed  \in DataMaps

EnvType ==
    /\ src     \in [Files -> BOOLEAN]
    /\ destDir \in BOOLEAN
    /\ encNext \in Nat
    /\ keyOf   \in [1..MaxEncodings -> Nat]
    /\ window  \in {"open", "closing", "closed"}
    /\ faults  \in [FaultKinds -> Nat]
    /\ doomed  \in [Files -> BOOLEAN]

(* TypeOK is the conjunction of the three parts.                           *)
LEMMA TypeParts == TypeOK <=> ProcType /\ DataType /\ EnvType
BY DEF TypeOK, ProcType, DataType, EnvType, Dir

(* The contents a model of the directories may hold.                       *)
LEMMA ContentsType == /\ Absent \in Contents /\ Damaged \in Contents
                      /\ \A n \in Nat : n \in Contents
BY DEF Absent, Damaged, Contents

(* Write changes the one file of a shard directory it names.               *)
LEMMA WriteEffect ==
    ASSUME NEW dir \in Dir, NEW f \in Files, NEW s \in Shards,
           NEW c \in Contents
    PROVE  /\ Write(dir, f, s, c) \in Dir
           /\ Write(dir, f, s, c)[f][s] = c
           /\ \A g \in Files, t \in Shards :
                 g # f \/ t # s => Write(dir, f, s, c)[g][t] = dir[g][t]
BY DEF Dir, Write

(* Put changes the one object it names.                                    *)
LEMMA PutEffect ==
    ASSUME NEW st \in [Remotes -> Dir], NEW r \in Remotes, NEW f \in Files,
           NEW s \in Shards, NEW c \in Contents
    PROVE  /\ Put(st, r, f, s, c) \in [Remotes -> Dir]
           /\ Put(st, r, f, s, c)[r][f][s] = c
           /\ \A q \in Remotes, g \in Files, t \in Shards :
                 q # r \/ g # f \/ t # s =>
                     Put(st, r, f, s, c)[q][g][t] = st[q][g][t]
BY DEF Dir, Put

(* Put keeps the type of the remotes even for a remote that is none.       *)
LEMMA PutType ==
    ASSUME NEW st \in [Remotes -> Dir], NEW r, NEW f \in Files,
           NEW s \in Shards, NEW c \in Contents
    PROVE  Put(st, r, f, s, c) \in [Remotes -> Dir]
BY DEF Dir, Put

(* The ways the process moves on.                                          *)
LEMMA GotoType ==
    ASSUME ProcType, NEW label \in Pcs, Goto(label) PROVE ProcType'
BY DEF ProcType, Goto

(* A goroutine goes on to its next phase.                                  *)
LEMMA StepType ==
    ASSUME ProcType, NEW s \in Shards, NEW next \in Phases, Step(s, next)
    PROVE  ProcType'
BY DEF ProcType, Step

(* A goroutine fails and is done with its shard.                           *)
LEMMA StepErrorType ==
    ASSUME ProcType, NEW s \in Shards, StepError(s) PROVE ProcType'
BY DEF ProcType, StepError, Phases

(* The process ends with a result.                                         *)
LEMMA FinishType ==
    ASSUME ProcType, NEW r \in Reports, Finish(r) PROVE ProcType'
BY DEF ProcType, Finish, StartPool, AllShards, Phases, Pcs

(* A fault of one kind is counted.                                         *)
LEMMA FaultType ==
    ASSUME faults \in [FaultKinds -> Nat], NEW k \in FaultKinds, Fault(k)
    PROVE  faults' \in [FaultKinds -> Nat]
BY DEF Fault

(* An early return ends the command in an error; but for the flag that is  *)
(* set before the shards are listed, it leaves everything as it was.       *)
LEMMA EarlyReturnEnds ==
    ASSUME EarlyReturn
    PROVE  /\ Finish("error") /\ pc # "idle"
           /\ UNCHANGED <<hashed, plain, store, world>>
           /\ UNCHANGED faults \/ Fault("file")
           /\ \/ UNCHANGED <<datamap, doomed>>
              \/ Dis_Download_Unlisted \/ RmNew_Unlisted
BY DEF EarlyReturn, CheckState_Fails, Dis_Upload_Fails, Dis_Download_Fails,
   Dis_rm_Fails, Dis_Download_Unlisted, RmNew_Unlisted, ReturnError, NoEntry,
   disk

(* Every step keeps the process' own variables in their types.             *)
LEMMA ProcStep == TypeOK /\ [Next]_vars => ProcType'
<1> SUFFICES ASSUME ProcType, DataType, [Next]_vars PROVE ProcType'
  BY TypeParts
<1> USE DEF Pcs, Phases, Reports
<1>1. CASE UNCHANGED vars
  BY <1>1 DEF vars, proc, ProcType
<1>2. CASE CheckState
  <2>1. CASE CheckState_Clean
    BY <2>1, GotoType DEF CheckState_Clean
  <2>2. CASE DumpReset
    BY <2>2 DEF DumpReset, ProcType, Commands
  <2>3. ASSUME NEW f \in Files, DumpUploadState(f) PROVE ProcType'
    BY <2>3 DEF DumpUploadState, ProcType
  <2>4. ASSUME NEW f \in Files, DumpDownloadState(f) PROVE ProcType'
    BY <2>4 DEF DumpDownloadState, ProcType
  <2>5. ASSUME NEW f \in Files, DumpRmState(f) PROVE ProcType'
    BY <2>5 DEF DumpRmState, ProcType
  <2>6. QED
    BY <1>2, <2>1, <2>2, <2>3, <2>4, <2>5 DEF CheckState
<1>3. CASE UploadStep
  <2>1. CASE Dis_Upload
    <3>1. CASE Finish("error")
      BY <3>1, FinishType
    <3>2. CASE Goto("encode")
      BY <3>2, GotoType
    <3>3. CASE /\ pc' = "rmNew" /\ ret' = "encode"
               /\ UNCHANGED <<cmd, target, phase, dst, errs, report>>
      BY <3>3 DEF ProcType
    <3>4. QED
      BY <2>1, <3>1, <3>2, <3>3 DEF Dis_Upload
  <2>2. CASE DoEncode
    <3>1. CASE Finish("died")
      BY <3>1, FinishType
    <3>2. CASE /\ pc' = "hash"
               /\ StartPool(AllShards("hash"), AllShards(NoRemote))
               /\ UNCHANGED <<cmd, target, ret, report>>
      BY <3>2 DEF ProcType, StartPool, AllShards
    <3>3. QED
      BY <2>2, <3>1, <3>2 DEF DoEncode
  <2>3. CASE createHashNames_End
    BY <2>3, FinishType, GotoType DEF createHashNames_End
  <2>4. CASE StartUpload
    <3>1. CASE Finish("error")
      BY <3>1, FinishType
    <3>2. CASE /\ pc' = "upload"
               /\ StartPool(AllShards("alloc"), AllShards(NoRemote))
               /\ UNCHANGED <<cmd, target, ret, report>>
      BY <3>2 DEF ProcType, StartPool, AllShards
    <3>3. QED
      BY <2>4, <3>1, <3>2 DEF StartUpload
  <2>5. CASE UploadWait
    BY <2>5, FinishType, GotoType DEF UploadWait
  <2>6. CASE UploadFinish
    BY <2>6, FinishType DEF UploadFinish
  <2>7. ASSUME NEW s \in Shards, ConvertFileNameForUP(s) PROVE ProcType'
    BY <2>7, StepType, StepErrorType DEF ConvertFileNameForUP
  <2>8. ASSUME NEW s \in Shards, AllocateRemote(s) PROVE ProcType'
    BY <2>8 DEF AllocateRemote, ProcType
  <2>9. ASSUME NEW s \in Shards, uploadFile(s) PROVE ProcType'
    BY <2>9, StepType, StepErrorType DEF uploadFile
  <2>10. ASSUME NEW s \in Shards, updateRemoteInfo_Up(s) PROVE ProcType'
    BY <2>10, StepType, StepErrorType DEF updateRemoteInfo_Up
  <2>11. ASSUME NEW s \in Shards, EraseTempShard(s) PROVE ProcType'
    BY <2>11, StepType DEF EraseTempShard
  <2>12. QED
    BY <1>3, <2>1, <2>2, <2>3, <2>4, <2>5, <2>6, <2>7, <2>8, <2>9, <2>10,
       <2>11 DEF UploadStep
<1>4. CASE DownloadStep
  <2>1. CASE Dis_Download
    <3>1. CASE Finish("error")
      BY <3>1, FinishType
    <3>2. CASE /\ pc' = "download"
               /\ StartPool(AllShards("fetch"), datamap[cmd.file].Remote)
               /\ UNCHANGED <<cmd, target, ret, report>>
      <4>1. datamap[cmd.file].Remote \in [Shards -> Remotes \cup {NoRemote}]
        BY EntryType DEF ProcType, DataType, Commands
      <4>2. QED
        BY <3>2, <4>1 DEF ProcType, StartPool, AllShards
    <3>3. QED
      BY <2>1, <3>1, <3>2 DEF Dis_Download
  <2>2. CASE DownloadWait
    BY <2>2, GotoType DEF DownloadWait
  <2>3. CASE DoDecode
    BY <2>3, GotoType DEF DoDecode, DoDecode_NoDestination,
       DoDecode_TooFewShards, DoDecode_Restored, DoDecode_WrongPassword,
       DoDecode_Mixed
  <2>4. CASE AskRemove
    BY <2>4, FinishType, GotoType DEF AskRemove
  <2>5. CASE DownloadReset
    <3>1. CASE Finish("error")
      BY <3>1, FinishType
    <3>2. CASE /\ pc' = "clean" /\ report' = "downloaded"
               /\ UNCHANGED <<cmd, target, ret, phase, dst, errs>>
      BY <3>2 DEF ProcType
    <3>3. QED
      BY <2>5, <3>1, <3>2 DEF DownloadReset
  <2>6. CASE DownloadClean
    BY <2>6, FinishType DEF DownloadClean, ProcType
  <2>7. ASSUME NEW s \in Shards, downloadFile(s) PROVE ProcType'
    BY <2>7, StepType, FinishType DEF downloadFile, FetchedNothing
  <2>8. ASSUME NEW s \in Shards, ConvertFileNameForDo(s) PROVE ProcType'
    BY <2>8, StepType DEF ConvertFileNameForDo
  <2>9. ASSUME NEW s \in Shards, updateRemoteInfo_Down(s) PROVE ProcType'
    BY <2>9, StepType DEF updateRemoteInfo_Down
  <2>10. QED
    BY <1>4, <2>1, <2>2, <2>3, <2>4, <2>5, <2>6, <2>7, <2>8, <2>9
    DEF DownloadStep
<1>5. CASE RmStep
  <2>0. datamap[target].Remote \in [Shards -> Remotes \cup {NoRemote}]
    BY EntryType DEF ProcType, DataType
  <2>1. CASE Dis_rm
    BY <2>1, FinishType, GotoType DEF Dis_rm
  <2>2. CASE RmNew
    BY <2>2, <2>0 DEF RmNew, StartPool, ProcType
  <2>3. CASE RmResume
    BY <2>3, <2>0 DEF RmResume, StartPool, ProcType
  <2>4. CASE RmWait
    BY <2>4, GotoType DEF RmWait
  <2>5. CASE RmDrop
    <3>1. CASE Finish("removed")
      BY <3>1, FinishType
    <3>2. CASE /\ ret # "done" /\ pc' = ret /\ target' = cmd.file
               /\ ret' = "done" /\ UNCHANGED <<cmd, phase, dst, errs, report>>
      BY <3>2 DEF ProcType, Commands
    <3>3. QED
      BY <2>5, <3>1, <3>2 DEF RmDrop
  <2>6. ASSUME NEW s \in Shards, remoteCallDeleteFile(s) PROVE ProcType'
    BY <2>6, StepType DEF remoteCallDeleteFile
  <2>7. ASSUME NEW s \in Shards, MarkRemoved(s) PROVE ProcType'
    BY <2>7, StepType, StepErrorType DEF MarkRemoved
  <2>8. QED
    BY <1>5, <2>1, <2>2, <2>3, <2>4, <2>5, <2>6, <2>7 DEF RmStep
<1>r. CASE EarlyReturn
  BY <1>r, EarlyReturnEnds, FinishType
<1>b. CASE Blind
  <2>1. CASE CheckState_Unread
    BY <2>1, GotoType DEF CheckState_Unread
  <2>2. CASE UNCHANGED proc
    BY <2>2 DEF proc, ProcType
  <2>3. QED
    BY <1>b, <2>1, <2>2 DEF Blind, encryptFilesOnExit, RemoveOriginals,
       DecryptAllFilesInPath
<1>6. CASE Environment
  <2>1. ASSUME NEW c \in Commands, Start(c) PROVE ProcType'
    BY <2>1 DEF Start, ProcType, Commands
  <2>2. CASE Crash
    BY <2>2, FinishType DEF Crash
  <2>3. CASE UNCHANGED proc
    BY <2>3 DEF proc, ProcType
  <2>4. QED
    BY <1>6, <2>1, <2>2, <2>3 DEF Environment, cleanShardFolderOnExit,
       MoveSource, LoseObject, DamageObject
<1>7. QED
  BY <1>1, <1>2, <1>3, <1>4, <1>5, <1>6, <1>r, <1>b
  DEF Next, Seeing, Process

(* Every step keeps what the process reads and writes in its type.         *)
LEMMA DataStep == TypeOK /\ [Next]_vars => DataType'
<1> SUFFICES ASSUME ProcType, DataType, EnvType, [Next]_vars PROVE DataType'
  BY TypeParts
<1> USE ContentsType
<1> USE DEF disk, world
<1>0. "upload" \in States /\ "download" \in States /\ "rm" \in States
  BY DEF States
<1>1. CASE UNCHANGED <<disk, store, out, sealed>>
  BY <1>1 DEF DataType
<1>r. CASE EarlyReturn
  <2>1. CASE UNCHANGED datamap
    BY <1>r, <2>1, EarlyReturnEnds DEF DataType
  <2>2. CASE Dis_Download_Unlisted
    BY <2>2, <1>0, UpdateFileFlagEffect
    DEF Dis_Download_Unlisted, DataType, ProcType, Commands
  <2>3. CASE RmNew_Unlisted
    BY <2>3, <1>0, UpdateFileFlagEffect DEF RmNew_Unlisted, DataType, ProcType
  <2>4. QED
    BY <1>r, <2>1, <2>2, <2>3, EarlyReturnEnds
<1>b. CASE Blind
  <2>1. CASE CheckState_Unread
    BY <1>1, <2>1 DEF CheckState_Unread
  <2>2. CASE encryptFilesOnExit
    BY <2>2 DEF encryptFilesOnExit, DataType
  <2>3. CASE RemoveOriginals
    BY <2>3, EmptyMapType DEF RemoveOriginals, AllShards, DataType, Dir
  <2>4. CASE DecryptAllFilesInPath
    BY <2>4, EmptyMapType DEF DecryptAllFilesInPath, DataType
  <2>5. QED
    BY <1>b, <2>1, <2>2, <2>3, <2>4 DEF Blind
<1>2. CASE CheckState
  <2>1. CASE DumpReset
    BY <2>1, ResetCheckFlagEffect DEF DumpReset, DataType, ProcType
  <2>2. ASSUME NEW f \in Files, DumpUploadState(f) PROVE DataType'
    BY <2>2 DEF DumpUploadState, DataType, Dir
  <2>3. ASSUME NEW f \in Files, DumpDownloadState(f) PROVE DataType'
    BY <2>3 DEF DumpDownloadState, DataType, Dir
  <2>4. QED
    BY <1>1, <1>2, <2>1, <2>2, <2>3
    DEF CheckState, CheckState_Clean, DumpRmState
<1>3. CASE UploadStep
  <2>1. CASE DoEncode
    <3>1. CASE plain' = [plain EXCEPT ![target] = AllShards(encNext + 1)]
      <4>1. encNext + 1 \in Contents
        BY DEF EnvType
      <4>2. plain' \in Dir
        BY <3>1, <4>1 DEF AllShards, DataType, Dir
      <4>3. QED
        BY <2>1, <4>2 DEF DoEncode, DataType
    <3>2. QED
      BY <2>1, <1>1, <3>1 DEF DoEncode
  <2>2. CASE StartUpload
    <3>1. CASE datamap' = MakeDataMap(datamap, target, encNext)
      <4>1. datamap' \in DataMaps
        BY <3>1, MakeDataMapEffect DEF DataType, EnvType, ProcType
      <4>2. QED
        BY <2>2, <4>1 DEF StartUpload, DataType
    <3>2. QED
      BY <2>2, <1>1, <3>1 DEF StartUpload
  <2>3. CASE UploadFinish
    <3>1. CASE datamap' = ResetCheckFlag(datamap, target)
      <4>1. datamap' \in DataMaps
        BY <3>1, ResetCheckFlagEffect DEF DataType, ProcType
      <4>2. QED
        BY <2>3, <4>1 DEF UploadFinish, DataType
    <3>2. QED
      BY <2>3, <1>1, <3>1 DEF UploadFinish
  <2>4. ASSUME NEW s \in Shards, ConvertFileNameForUP(s) PROVE DataType'
    <3>1. plain[target][s] \in Contents
      BY DEF DataType, ProcType, Dir
    <3>2. QED
      BY <2>4, <3>1, WriteEffect DEF ConvertFileNameForUP, DataType, ProcType
  <2>5. ASSUME NEW s \in Shards, uploadFile(s) PROVE DataType'
    <3>1. hashed[target][s] \in Contents
      BY DEF DataType, ProcType, Dir
    <3>2. CASE store' = Put(store, dst[s], target, s, hashed[target][s])
      <4>1. store' \in [Remotes -> Dir]
        BY <3>1, <3>2, PutType DEF DataType, ProcType
      <4>2. QED
        BY <2>5, <4>1 DEF uploadFile, DataType
    <3>3. QED
      BY <2>5, <1>1, <3>2 DEF uploadFile
  <2>6. ASSUME NEW s \in Shards, updateRemoteInfo_Up(s) PROVE DataType'
    <3>1. dst[s] \in Remotes \cup {NoRemote}
      BY DEF ProcType
    <3>2. UpdateDistributedFile_CheckFlagAndRemote(
              datamap, target, s, dst[s]) \in DataMaps
      <4>1. datamap \in DataMaps /\ target \in Files
        BY DEF DataType, ProcType
      <4>2. QED
        BY <3>1, <4>1, CheckFlagAndRemoteEffect
    <3>3. datamap' \in DataMaps
      BY <2>6, <3>2 DEF updateRemoteInfo_Up, DataType
    <3>4. QED
      BY <2>6, <3>3 DEF updateRemoteInfo_Up, DataType
  <2>7. ASSUME NEW s \in Shards, EraseTempShard(s) PROVE DataType'
    BY <2>7, WriteEffect DEF EraseTempShard, DataType, ProcType
  <2>8. QED
    BY <1>1, <1>3, <2>1, <2>2, <2>3, <2>4, <2>5, <2>6, <2>7
    DEF UploadStep, Dis_Upload, createHashNames_End, UploadWait, AllocateRemote
<1>4. CASE DownloadStep
  <2>1. CASE Dis_Download
    <3>1. cmd.file \in Files
      BY DEF ProcType, Commands
    <3>2. CASE datamap' = UpdateFileFlag(datamap, cmd.file, "download")
      <4>1. datamap' \in DataMaps
        BY <1>0, <3>1, <3>2, UpdateFileFlagEffect DEF DataType
      <4>2. QED
        BY <2>1, <4>1 DEF Dis_Download, DataType
    <3>3. QED
      BY <2>1, <1>1, <3>2 DEF Dis_Download
  <2>2. CASE DoDecode
    <3>1. plain' \in Dir
      <4>1. ASSUME NEW x \in Contents, Reconstruct(target, x)
            PROVE  plain' \in Dir
        BY <4>1 DEF Reconstruct, DataType, Dir
      <4>2. \A s \in Shards : plain[target][s] \in Contents
        BY DEF DataType, ProcType, Dir
      <4>3. CASE DoDecode_NoDestination \/ DoDecode_TooFewShards
        BY <4>3 DEF DoDecode_NoDestination, DoDecode_TooFewShards, DataType
      <4>4. CASE DoDecode_Restored
        BY <4>1, <4>2, <4>4 DEF DoDecode_Restored, Present
      <4>5. CASE DoDecode_Mixed
        BY <4>1, <4>5 DEF DoDecode_Mixed
      <4>6. CASE DoDecode_WrongPassword
        BY <4>1, <4>2, <4>6 DEF DoDecode_WrongPassword, Present
      <4>7. QED
        BY <2>2, <4>3, <4>4, <4>5, <4>6 DEF DoDecode
    <3>2. out' \in [Files -> Nat]
      BY <2>2 DEF DoDecode, DoDecode_NoDestination, DoDecode_TooFewShards,
         DoDecode_Restored, DoDecode_WrongPassword, DoDecode_Mixed, Uniform,
         DataType
    <3>3. QED
      BY <2>2, <3>1, <3>2 DEF DoDecode, DataType
  <2>3. CASE DownloadReset
    BY <2>3, ResetCheckFlagEffect DEF DownloadReset, DataType, ProcType
  <2>4. CASE DownloadClean
    BY <2>4 DEF DownloadClean, AllShards, DataType, Dir
  <2>5. ASSUME NEW s \in Shards, downloadFile(s) PROVE DataType'
    <3>1. dst[s] # NoRemote => store[dst[s]][target][s] \in Contents
      BY DEF DataType, ProcType, Dir
    <3>2. QED
      BY <2>5, <3>1, WriteEffect DEF downloadFile, DataType, ProcType
  <2>6. ASSUME NEW s \in Shards, ConvertFileNameForDo(s) PROVE DataType'
    <3>1. hashed[target][s] \in Contents
      BY DEF DataType, ProcType, Dir
    <3>2. QED
      BY <2>6, <3>1, WriteEffect DEF ConvertFileNameForDo, DataType, ProcType
  <2>7. ASSUME NEW s \in Shards, updateRemoteInfo_Down(s) PROVE DataType'
    BY <2>7, CheckFlagEffect DEF updateRemoteInfo_Down, DataType, ProcType
  <2>8. QED
    BY <1>1, <1>4, <2>1, <2>2, <2>3, <2>4, <2>5, <2>6, <2>7
    DEF DownloadStep, DownloadWait, AskRemove
<1>5. CASE RmStep
  <2>1. CASE RmNew
    BY <2>1, <1>0, UpdateFileFlagEffect DEF RmNew, DataType, ProcType
  <2>2. CASE RmWait
    BY <2>2, ResetCheckFlagEffect DEF RmWait, DataType, ProcType
  <2>3. CASE RmDrop
    BY <2>3, RemoveEffect DEF RmDrop, DataType, ProcType
  <2>4. ASSUME NEW s \in Shards, remoteCallDeleteFile(s) PROVE DataType'
    <3>1. CASE store' = Put(store, dst[s], target, s, Absent)
      <4>1. store' \in [Remotes -> Dir]
        BY <3>1, PutType DEF DataType, ProcType
      <4>2. QED
        BY <2>4, <4>1 DEF remoteCallDeleteFile, DataType
    <3>2. QED
      BY <2>4, <1>1, <3>1 DEF remoteCallDeleteFile
  <2>5. ASSUME NEW s \in Shards, MarkRemoved(s) PROVE DataType'
    BY <2>5, CheckFlagEffect DEF MarkRemoved, DataType, ProcType
  <2>6. QED
    BY <1>1, <1>5, <2>1, <2>2, <2>3, <2>4, <2>5 DEF RmStep, Dis_rm, RmResume
<1>6. CASE Environment
  <2>1. ASSUME NEW r \in Remotes, NEW f \in Files, NEW s \in Shards,
               LoseObject(r, f, s) \/ DamageObject(r, f, s)
        PROVE  DataType'
    BY <2>1, PutType DEF LoseObject, DamageObject, DataType
  <2>2. CASE cleanShardFolderOnExit
    BY <2>2 DEF cleanShardFolderOnExit, AllShards, DataType, Dir
  <2>3. QED
    BY <1>1, <1>6, <2>1, <2>2 DEF Environment, Start, Crash, MoveSource
<1>7. QED
  BY <1>1, <1>2, <1>3, <1>4, <1>5, <1>6, <1>r, <1>b
  DEF Next, Seeing, Process, vars

(* Every step keeps the counters and the user's files in their types.      *)
LEMMA EnvStep == TypeOK /\ [Next]_vars => EnvType'
<1> SUFFICES ASSUME ProcType, EnvType, [Next]_vars PROVE EnvType'
  BY TypeParts
<1> USE DEF EnvType, world
<1>0. ASSUME NEW k \in FaultKinds, Fault(k),
             UNCHANGED <<src, destDir, encNext, keyOf, window, doomed>>
      PROVE  EnvType'
  BY <1>0, FaultType
<1>a. {"crash", "silent", "alloc", "loss", "damage", "clean", "move", "file",
       "unread", "midway"} \subseteq FaultKinds
  BY DEF FaultKinds
<1>1. CASE UNCHANGED <<src, destDir, encNext, keyOf, window, faults, doomed>>
  BY <1>1
<1>r. CASE EarlyReturn
  <2>1. doomed' \in [Files -> BOOLEAN]
    <3>1. CASE UNCHANGED doomed
      BY <3>1
    <3>2. CASE RmNew_Unlisted
      BY <3>2 DEF RmNew_Unlisted
    <3>3. QED
      BY <1>r, <3>1, <3>2, EarlyReturnEnds DEF Dis_Download_Unlisted
  <2>2. faults' \in [FaultKinds -> Nat]
    BY <1>r, <1>a, EarlyReturnEnds, FaultType
  <2>3. QED
    BY <1>r, <2>1, <2>2, EarlyReturnEnds
<1>b. CASE Blind
  <2>1. CASE CheckState_Unread
    BY <2>1, <1>0, <1>a DEF CheckState_Unread
  <2>2. CASE encryptFilesOnExit
    BY <2>2, <1>a, FaultType DEF encryptFilesOnExit
  <2>3. CASE RemoveOriginals \/ DecryptAllFilesInPath
    BY <2>3 DEF RemoveOriginals, DecryptAllFilesInPath
  <2>4. QED
    BY <1>b, <2>1, <2>2, <2>3 DEF Blind
<1>2. CASE CheckState
  BY <1>1, <1>2 DEF CheckState, CheckState_Clean, DumpReset, DumpUploadState,
     DumpDownloadState, DumpRmState
<1>3. CASE UploadStep
  <2>1. CASE DoEncode
    <3>1. Password \in Nat
      BY <1>a DEF Password
    <3>2. keyOf' \in [1..MaxEncodings -> Nat]
      BY <2>1, <3>1 DEF DoEncode
    <3>3. QED
      BY <2>1, <3>2 DEF DoEncode
  <2>2. CASE StartUpload
    BY <2>2 DEF StartUpload
  <2>3. ASSUME NEW s \in Shards,
               AllocateRemote(s) \/ uploadFile(s) \/ updateRemoteInfo_Up(s)
        PROVE  EnvType'
    BY <2>3, <1>0, <1>1, <1>a
    DEF AllocateRemote, uploadFile, updateRemoteInfo_Up, NoEntry
  <2>4. QED
    BY <1>1, <1>3, <2>1, <2>2, <2>3 DEF UploadStep, Dis_Upload,
       createHashNames_End, UploadWait, UploadFinish, ConvertFileNameForUP,
       EraseTempShard
<1>4. CASE DownloadStep
  <2>1. CASE DoDecode
    BY <2>1 DEF DoDecode, DoDecode_NoDestination, DoDecode_TooFewShards,
       DoDecode_Restored, DoDecode_WrongPassword, DoDecode_Mixed
  <2>2. ASSUME NEW s \in Shards, downloadFile(s) \/ updateRemoteInfo_Down(s)
        PROVE  EnvType'
    BY <2>2, <1>0, <1>1, <1>a
    DEF downloadFile, updateRemoteInfo_Down, NoEntry
  <2>3. QED
    BY <1>1, <1>4, <2>1, <2>2 DEF DownloadStep, Dis_Download, DownloadWait,
       AskRemove, DownloadReset, DownloadClean, ConvertFileNameForDo
<1>5. CASE RmStep
  <2>1. CASE RmNew
    BY <2>1 DEF RmNew
  <2>2. ASSUME NEW s \in Shards, remoteCallDeleteFile(s) \/ MarkRemoved(s)
        PROVE  EnvType'
    BY <2>2, <1>0, <1>1, <1>a DEF remoteCallDeleteFile, MarkRemoved, NoEntry
  <2>3. QED
    BY <1>1, <1>5, <2>1, <2>2 DEF RmStep, Dis_rm, RmResume, RmWait, RmDrop
<1>6. CASE Environment
  <2>1. ASSUME NEW c \in Commands, Start(c) PROVE EnvType'
    BY <2>1, <1>1 DEF Start
  <2>2. CASE Crash \/ cleanShardFolderOnExit
    BY <2>2, <1>0, <1>a DEF Crash, cleanShardFolderOnExit
  <2>3. ASSUME NEW f \in Files, MoveSource(f) PROVE EnvType'
    BY <2>3, <1>a, FaultType DEF MoveSource
  <2>4. ASSUME NEW r \in Remotes, NEW f \in Files, NEW s \in Shards,
               LoseObject(r, f, s) \/ DamageObject(r, f, s)
        PROVE  EnvType'
    BY <2>4, <1>0, <1>a DEF LoseObject, DamageObject
  <2>5. QED
    BY <1>6, <2>1, <2>2, <2>3, <2>4 DEF Environment
<1>7. QED
  BY <1>1, <1>2, <1>3, <1>4, <1>5, <1>6, <1>r, <1>b
  DEF Next, Seeing, Process, vars

(* Type correctness of the whole store: every reachable state of every     *)
(* instance has the types the code's structs and the modelled files have.  *)
THEOREM TypeCorrect == Spec => []TypeOK
<1>1. Init => TypeOK
  <2> SUFFICES ASSUME Init PROVE TypeOK
    OBVIOUS
  <2>1. ProcType
    BY DEF Init, ProcType, Commands, AllShards, Pcs, Phases, Reports
  <2>2. DataType
    BY EmptyMapType, ContentsType DEF Init, DataType, AllShards, Dir, Absent
  <2>3. EnvType
    BY BoundsAssumption DEF Init, EnvType
  <2>4. QED
    BY <2>1, <2>2, <2>3, TypeParts
<1>2. TypeOK /\ [Next]_vars => TypeOK'
  <2> SUFFICES ASSUME TypeOK, [Next]_vars PROVE TypeOK'
    OBVIOUS
  <2>1. ProcType' /\ DataType' /\ EnvType'
    BY ProcStep, DataStep, EnvStep
  <2>2. QED
    BY <2>1 DEF TypeOK, ProcType, DataType, EnvType, Dir
<1>3. QED
  BY <1>1, <1>2, PTL DEF Spec


(***************************************************************************)
(* At most one entry of datamap.json is flagged.  It takes more than that  *)
(* to be inductive: Dis_Download, MakeDataMap and Dis_rm flag the file     *)
(* they work on without looking at the others, which is right because      *)
(* CheckState lets a command run only when nothing is flagged, because     *)
(* the file a dump leaves flagged is the one Dis_rm then takes, and        *)
(* because whatever the process flags after that is its own file again.    *)
(***************************************************************************)
Working == {"dumpReset", "upload", "stat", "download", "decode", "ask",
            "reset", "rmNew", "rmResume", "rm"}

OnlyTarget ==
    \A f \in Files : datamap[f].Flag => pc \in Working /\ f = target

OneFlag == \A f, g \in Files : datamap[f].Flag /\ datamap[g].Flag => f = g

FlagInv ==
    /\ OneFlag
    /\ pc \in {"check", "main"} => target = cmd.file
    /\ pc \notin {"idle", "check"} => OnlyTarget

SameFlags == \A f \in Files : datamap'[f].Flag <=> datamap[f].Flag

(* A step that changes no flag, not the file worked on, and stays within   *)
(* Working or out of it, keeps the invariant.                              *)
LEMMA FlagsKept ==
    ASSUME FlagInv, SameFlags, UNCHANGED <<target, cmd>>,
           pc \notin {"idle", "check"}, pc' \notin {"check", "main"},
           pc \in Working => pc' \in Working
    PROVE  FlagInv'
BY DEF FlagInv, OneFlag, OnlyTarget, SameFlags

(* A process that ends leaves at most the flag it had.                     *)
LEMMA FlagsAtEnd ==
    ASSUME FlagInv, SameFlags, UNCHANGED <<target, cmd>>, pc' = "idle"
    PROVE  FlagInv'
BY DEF FlagInv, OneFlag, OnlyTarget, SameFlags

(* Once the flag of the file worked on is cleared, none is left.           *)
LEMMA FlagsCleared ==
    ASSUME TypeOK, FlagInv, pc \notin {"idle", "check"},
           datamap' = ResetCheckFlag(datamap, target)
               \/ datamap' = RemoveFileFromMetadata(datamap, target),
           pc' \in {"check", "main"} => target' = cmd'.file
    PROVE  FlagInv'
<1>1. datamap \in DataMaps /\ target \in Files
  BY DEF TypeOK
<1>2. \A g \in Files : g # target => datamap'[g] = datamap[g]
  <2>1. CASE datamap' = ResetCheckFlag(datamap, target)
    BY <1>1, <2>1, ResetCheckFlagEffect
  <2>2. CASE datamap' = RemoveFileFromMetadata(datamap, target)
    BY <1>1, <2>2, RemoveEffect
  <2>3. QED
    BY <2>1, <2>2
<1>3. ~datamap'[target].Flag
  BY <1>1, ResetCheckFlagEffect, RemoveEffect
<1>4. \A f \in Files : ~datamap'[f].Flag
  BY <1>2, <1>3 DEF FlagInv, OnlyTarget
<1>5. QED
  BY <1>4 DEF FlagInv, OneFlag, OnlyTarget

(* Flagging the file worked on while no other is flagged.                  *)
LEMMA FlagsSet ==
    ASSUME TypeOK, FlagInv, pc \notin {"idle", "check"},
           NEW f \in Files, f = target, target' = target,
           \A g \in Files : g # f => datamap'[g] = datamap[g],
           pc' \in Working
    PROVE  FlagInv'
<1>1. \A g \in Files : datamap'[g].Flag => g = target'
  BY DEF FlagInv, OnlyTarget
<1>2. pc' \notin {"check", "main"}
  BY DEF Working
<1>3. QED
  BY <1>1, <1>2 DEF FlagInv, OneFlag, OnlyTarget

(* CheckState and the dumps.                                               *)
LEMMA FlagCheckState == TypeOK /\ FlagInv /\ CheckState => FlagInv'
<1> SUFFICES ASSUME TypeOK, FlagInv, CheckState PROVE FlagInv'
  OBVIOUS
<1> USE DEF disk
<1>1. CASE CheckState_Clean
  BY <1>1 DEF CheckState_Clean, Goto, Flagged, FlagInv, OneFlag,
     OnlyTarget
<1>2. CASE DumpReset
  BY <1>2, FlagsCleared DEF DumpReset
<1>3. ASSUME NEW f \in Files,
             DumpUploadState(f) \/ DumpDownloadState(f) \/ DumpRmState(f)
      PROVE  FlagInv'
  <2>1. datamap[f].Flag /\ UNCHANGED datamap /\ target' = f
    BY <1>3 DEF DumpUploadState, DumpDownloadState, DumpRmState, Flagged
  <2>2. pc' \in {"rmNew", "dumpReset", "rmResume"}
    BY <1>3 DEF DumpUploadState, DumpDownloadState, DumpRmState
  <2>3. QED
    BY <2>1, <2>2 DEF FlagInv, OneFlag, OnlyTarget, Working
<1>4. QED
  BY <1>1, <1>2, <1>3 DEF CheckState

(* Dis_Upload.                                                             *)
LEMMA FlagUpload == TypeOK /\ FlagInv /\ UploadStep => FlagInv'
<1> SUFFICES ASSUME TypeOK, FlagInv, UploadStep PROVE FlagInv'
  OBVIOUS
<1> USE DEF disk, Working
<1>0. datamap \in DataMaps /\ target \in Files /\ encNext \in Nat
      /\ dst \in [Shards -> Remotes \cup {NoRemote}]
  BY DEF TypeOK
<1>1. UNCHANGED datamap => SameFlags
  BY DEF SameFlags
<1>2. CASE Dis_Upload
  <2>1. UNCHANGED <<datamap, target, cmd>> /\ pc = "main"
    BY <1>2 DEF Dis_Upload, Finish, Goto
  <2>2. pc' \in {"idle", "encode", "rmNew"}
    BY <1>2 DEF Dis_Upload, Finish, Goto
  <2>3. QED
    BY <2>1, <2>2, <1>1, FlagsKept, FlagsAtEnd
<1>3. CASE DoEncode \/ createHashNames_End \/ UploadWait
  <2>1. UNCHANGED <<datamap, target, cmd>>
    BY <1>3 DEF DoEncode, createHashNames_End, UploadWait, Finish, Goto
  <2>2. /\ pc \in {"encode", "hash", "upload"}
        /\ \/ pc' = "idle"
           \/ pc' \in {"hash", "makemap"} /\ pc # "upload"
           \/ pc' = "stat"
    BY <1>3 DEF DoEncode, createHashNames_End, UploadWait, Finish, Goto
  <2>3. QED
    BY <2>1, <2>2, <1>1, FlagsKept, FlagsAtEnd
<1>4. CASE StartUpload
  <2>1. CASE datamap' = MakeDataMap(datamap, target, encNext) /\ pc' = "upload"
    <3>1. \A g \in Files : g # target => datamap'[g] = datamap[g]
      BY <1>0, <2>1, MakeDataMapEffect
    <3>2. pc = "makemap" /\ target' = target
      BY <1>4 DEF StartUpload, Finish
    <3>3. QED
      BY <1>0, <2>1, <3>1, <3>2, FlagsSet
  <2>2. CASE UNCHANGED datamap /\ Finish("error")
    BY <2>2, <1>1, FlagsAtEnd DEF Finish
  <2>3. QED
    BY <1>4, <2>1, <2>2 DEF StartUpload
<1>5. CASE UploadFinish
  <2>1. pc = "stat" /\ pc' = "idle" /\ UNCHANGED <<target, cmd>>
    BY <1>5 DEF UploadFinish, Finish
  <2>2. datamap' = datamap \/ datamap' = ResetCheckFlag(datamap, target)
    BY <1>5 DEF UploadFinish
  <2>3. QED
    BY <2>1, <2>2, <1>1, FlagsAtEnd, FlagsCleared
<1>6. ASSUME NEW s \in Shards, updateRemoteInfo_Up(s) PROVE FlagInv'
  <2>1. dst[s] \in Remotes \cup {NoRemote}
    BY <1>0
  <2>2. SameFlags
    <3>1. /\ \A g \in Files : g # target => datamap'[g] = datamap[g]
          /\ datamap'[target].Flag <=> datamap[target].Flag
      BY <1>0, <1>6, <2>1, CheckFlagAndRemoteEffect DEF updateRemoteInfo_Up
    <3>2. QED
      BY <3>1 DEF SameFlags
  <2>3. UNCHANGED <<pc, target, cmd>> /\ pc = "upload"
    BY <1>6 DEF updateRemoteInfo_Up, Step, StepError
  <2>4. QED
    BY <2>2, <2>3, FlagsKept
<1>7. ASSUME NEW s \in Shards,
             \/ ConvertFileNameForUP(s) \/ AllocateRemote(s)
             \/ uploadFile(s) \/ EraseTempShard(s)
      PROVE  FlagInv'
  <2>1. UNCHANGED <<datamap, pc, target, cmd>> /\ pc \in {"hash", "upload"}
    BY <1>7 DEF ConvertFileNameForUP, AllocateRemote, uploadFile,
       EraseTempShard, Step, StepError
  <2>2. QED
    BY <2>1, <1>1, FlagsKept
<1>8. QED
  BY <1>2, <1>3, <1>4, <1>5, <1>6, <1>7 DEF UploadStep

(* Dis_Download.                                                           *)
LEMMA FlagDownload == TypeOK /\ FlagInv /\ DownloadStep => FlagInv'
<1> SUFFICES ASSUME TypeOK, FlagInv, DownloadStep PROVE FlagInv'
  OBVIOUS
<1> USE DEF disk, Working
<1>0. datamap \in DataMaps /\ target \in Files
  BY DEF TypeOK
<1>s. "download" \in States
  BY DEF States
<1>1. UNCHANGED datamap => SameFlags
  BY DEF SameFlags
<1>2. CASE Dis_Download
  <2>1. pc = "main" /\ target = cmd.file
    BY <1>2 DEF Dis_Download, FlagInv
  <2>2. CASE datamap' = UpdateFileFlag(datamap, cmd.file, "download")
             /\ pc' = "download"
    <3>1. \A g \in Files : g # target => datamap'[g] = datamap[g]
      BY <1>0, <1>s, <2>1, <2>2, UpdateFileFlagEffect
    <3>2. target' = target
      BY <1>2 DEF Dis_Download, Finish
    <3>3. QED
      BY <1>0, <2>1, <2>2, <3>1, <3>2, FlagsSet
  <2>3. CASE UNCHANGED datamap /\ Finish("error")
    BY <2>3, <1>1, FlagsAtEnd DEF Finish
  <2>4. QED
    BY <1>2, <2>2, <2>3 DEF Dis_Download
<1>3. CASE DownloadWait \/ DoDecode \/ AskRemove
  <2>1. UNCHANGED <<datamap, target, cmd>>
    BY <1>3 DEF DownloadWait, DoDecode, DoDecode_NoDestination,
       DoDecode_TooFewShards, DoDecode_Restored, DoDecode_WrongPassword,
       DoDecode_Mixed, AskRemove,
       Finish, Goto
  <2>2. /\ pc \in {"download", "decode", "ask"}
        /\ pc' \in {"idle", "decode", "ask", "reset", "rmNew"}
    BY <1>3 DEF DownloadWait, DoDecode, DoDecode_NoDestination,
       DoDecode_TooFewShards, DoDecode_Restored, DoDecode_WrongPassword,
       DoDecode_Mixed, AskRemove,
       Finish, Goto
  <2>3. QED
    BY <2>1, <2>2, <1>1, FlagsKept, FlagsAtEnd
<1>4. CASE DownloadReset
  <2>1. CASE Finish("error") /\ UNCHANGED datamap
    BY <2>1, <1>1, FlagsAtEnd DEF Finish
  <2>2. CASE datamap' = ResetCheckFlag(datamap, target) /\ pc' = "clean"
    <3>1. pc = "reset"
      BY <1>4 DEF DownloadReset
    <3>2. QED
      BY <2>2, <3>1, FlagsCleared
  <2>3. QED
    BY <1>4, <2>1, <2>2 DEF DownloadReset
<1>5. CASE DownloadClean
  BY <1>5, <1>1, FlagsAtEnd DEF DownloadClean, Finish
<1>6. ASSUME NEW s \in Shards, downloadFile(s) \/ ConvertFileNameForDo(s)
      PROVE  FlagInv'
  <2>1. /\ UNCHANGED <<datamap, target, cmd>>
        /\ pc = "download" /\ pc' \in {"download", "idle"}
    BY <1>6 DEF downloadFile, ConvertFileNameForDo, FetchedNothing, Step,
       Finish
  <2>2. QED
    BY <2>1, <1>1, FlagsKept, FlagsAtEnd
<1>7. ASSUME NEW s \in Shards, updateRemoteInfo_Down(s) PROVE FlagInv'
  <2>1. SameFlags
    <3>1. /\ \A g \in Files : g # target => datamap'[g] = datamap[g]
          /\ datamap'[target].Flag <=> datamap[target].Flag
      BY <1>0, <1>7, CheckFlagEffect DEF updateRemoteInfo_Down
    <3>2. QED
      BY <3>1 DEF SameFlags
  <2>2. UNCHANGED <<pc, target, cmd>> /\ pc = "download"
    BY <1>7 DEF updateRemoteInfo_Down, Step
  <2>3. QED
    BY <2>1, <2>2, FlagsKept
<1>8. QED
  BY <1>2, <1>3, <1>4, <1>5, <1>6, <1>7 DEF DownloadStep

(* Dis_rm.                                                                 *)
LEMMA FlagRm == TypeOK /\ FlagInv /\ RmStep => FlagInv'
<1> SUFFICES ASSUME TypeOK, FlagInv, RmStep PROVE FlagInv'
  OBVIOUS
<1> USE DEF disk, Working
<1>0. datamap \in DataMaps /\ target \in Files
      /\ ret \in {"done", "main", "encode"}
  BY DEF TypeOK
<1>s. "rm" \in States
  BY DEF States
<1>1. UNCHANGED datamap => SameFlags
  BY DEF SameFlags
<1>2. CASE Dis_rm
  <2>1. UNCHANGED <<datamap, target, cmd>> /\ pc = "main"
    BY <1>2 DEF Dis_rm, Finish, Goto
  <2>2. pc' \in {"idle", "rmNew"}
    BY <1>2 DEF Dis_rm, Finish, Goto
  <2>3. QED
    BY <2>1, <2>2, <1>1, FlagsKept, FlagsAtEnd
<1>3. CASE RmNew
  <2>1. \A g \in Files : g # target => datamap'[g] = datamap[g]
    BY <1>0, <1>s, <1>3, UpdateFileFlagEffect DEF RmNew
  <2>2. pc = "rmNew" /\ pc' = "rm" /\ target' = target
    BY <1>3 DEF RmNew
  <2>3. QED
    BY <1>0, <2>1, <2>2, FlagsSet
<1>4. CASE RmResume
  BY <1>4, <1>1, FlagsKept DEF RmResume
<1>5. CASE RmWait
  BY <1>5, FlagsCleared DEF RmWait, Goto
<1>6. CASE RmDrop
  <2>1. /\ pc = "drop"
        /\ datamap' = RemoveFileFromMetadata(datamap, target)
        /\ pc' = "idle" \/ target' = cmd'.file
    BY <1>6 DEF RmDrop, Finish
  <2>2. QED
    BY <2>1, FlagsCleared
<1>7. ASSUME NEW s \in Shards, remoteCallDeleteFile(s) PROVE FlagInv'
  <2>1. UNCHANGED <<datamap, pc, target, cmd>> /\ pc = "rm"
    BY <1>7 DEF remoteCallDeleteFile, Step
  <2>2. QED
    BY <2>1, <1>1, FlagsKept
<1>8. ASSUME NEW s \in Shards, MarkRemoved(s) PROVE FlagInv'
  <2>1. SameFlags
    <3>1. /\ \A g \in Files : g # target => datamap'[g] = datamap[g]
          /\ datamap'[target].Flag <=> datamap[target].Flag
      BY <1>0, <1>8, CheckFlagEffect DEF MarkRemoved
    <3>2. QED
      BY <3>1 DEF SameFlags
  <2>2. UNCHANGED <<pc, target, cmd>> /\ pc = "rm"
    BY <1>8 DEF MarkRemoved, Step, StepError
  <2>3. QED
    BY <2>1, <2>2, FlagsKept
<1>9. QED
  BY <1>2, <1>3, <1>4, <1>5, <1>6, <1>7, <1>8 DEF RmStep

(* Crashes, the user, the remotes and the GUI.                             *)
LEMMA FlagEnvironment == FlagInv /\ Environment => FlagInv'
<1> SUFFICES ASSUME FlagInv, Environment PROVE FlagInv'
  OBVIOUS
<1> USE DEF disk, proc
<1>1. ASSUME NEW c \in Commands, Start(c) PROVE FlagInv'
  BY <1>1 DEF Start, FlagInv, OneFlag, OnlyTarget
<1>2. CASE Crash
  <2>1. UNCHANGED <<datamap, target, cmd>> /\ pc' = "idle"
    BY <1>2 DEF Crash, Finish
  <2>2. QED
    BY <2>1, FlagsAtEnd DEF SameFlags
<1>3. CASE UNCHANGED <<datamap, pc, target, cmd>>
  BY <1>3 DEF FlagInv, OneFlag, OnlyTarget
<1>4. QED
  BY <1>1, <1>2, <1>3 DEF Environment, cleanShardFolderOnExit, MoveSource,
     LoseObject, DamageObject

(* The early returns leave the flags, or flag the file worked on.          *)
LEMMA FlagEarly == TypeOK /\ FlagInv /\ EarlyReturn => FlagInv'
<1> SUFFICES ASSUME TypeOK, FlagInv, EarlyReturn PROVE FlagInv'
  OBVIOUS
<1>0. datamap \in DataMaps /\ target \in Files
  BY DEF TypeOK
<1>1. pc' = "idle" /\ UNCHANGED <<target, cmd>>
  BY EarlyReturnEnds DEF Finish
<1>2. CASE UNCHANGED datamap
  BY <1>1, <1>2, FlagsAtEnd DEF SameFlags
<1>3. CASE Dis_Download_Unlisted \/ RmNew_Unlisted
  <2>1. "download" \in States /\ "rm" \in States
    BY DEF States
  <2>2. pc \in {"main", "rmNew"} /\ (pc = "main" => target = cmd.file)
    BY <1>3 DEF Dis_Download_Unlisted, RmNew_Unlisted, FlagInv
  <2>3. \A g \in Files : g # target => datamap'[g] = datamap[g]
    BY <1>0, <1>3, <2>1, <2>2, UpdateFileFlagEffect
    DEF Dis_Download_Unlisted, RmNew_Unlisted
  <2>4. \A g \in Files : datamap'[g].Flag => g = target
    BY <2>2, <2>3 DEF FlagInv, OnlyTarget
  <2>5. QED
    BY <1>1, <2>4 DEF FlagInv, OneFlag
<1>4. QED
  BY <1>2, <1>3, EarlyReturnEnds

(* Every step that does not hide datamap.json keeps the invariant.         *)
LEMMA FlagStep == TypeOK /\ FlagInv /\ [Seeing]_vars => FlagInv'
<1> SUFFICES ASSUME TypeOK, FlagInv, [Seeing]_vars PROVE FlagInv'
  OBVIOUS
<1>1. CASE UNCHANGED vars
  BY <1>1 DEF vars, disk, proc, FlagInv, OneFlag, OnlyTarget
<1>2. CASE Seeing
  BY <1>2, FlagCheckState, FlagUpload, FlagDownload, FlagRm, FlagEarly,
     FlagEnvironment DEF Seeing, Process
<1>3. QED
  BY <1>1, <1>2

(***************************************************************************)
(* The steps that hide datamap.json from CheckState are counted as faults  *)
(* of the kinds in Blinding.  What holds as long as there was none of them *)
(* has to be shown for the other steps only.                               *)
(***************************************************************************)
Sighted == Never(Blinding)

WindowInv == window # "open" => faults["midway"] > 0

(* A fault of one kind is counted, and no count is lost by it.             *)
LEMMA FaultCounted ==
    ASSUME faults \in [FaultKinds -> Nat], NEW k \in FaultKinds, Fault(k)
    PROVE  \A j \in FaultKinds : faults'[j] = 0 => faults[j] = 0 /\ j # k
BY DEF Fault

(* Faults are never forgotten: a kind that has not been met after a step   *)
(* had not been met before it.                                             *)
LEMMA FaultsStay ==
    ASSUME TypeOK, [Next]_vars
    PROVE  \A j \in FaultKinds : faults'[j] = 0 => faults[j] = 0
<1>0. faults \in [FaultKinds -> Nat]
  BY DEF TypeOK
<1>a. /\ "crash" \in FaultKinds /\ "silent" \in FaultKinds
      /\ "alloc" \in FaultKinds /\ "loss" \in FaultKinds
      /\ "damage" \in FaultKinds /\ "clean" \in FaultKinds
      /\ "move" \in FaultKinds /\ "file" \in FaultKinds
      /\ "unread" \in FaultKinds /\ "midway" \in FaultKinds
  BY DEF FaultKinds
<1>1. CASE UNCHANGED faults
  BY <1>1
<1>2. CASE \E k \in FaultKinds : Fault(k)
  BY <1>0, <1>2, FaultCounted
<1>3. CASE UNCHANGED vars
  BY <1>1, <1>3 DEF vars
<1>4. CASE CheckState
  BY <1>1, <1>4 DEF CheckState, CheckState_Clean, DumpReset,
     DumpUploadState, DumpDownloadState, DumpRmState
<1>5. CASE UploadStep
  BY <1>1, <1>2, <1>5, <1>a DEF UploadStep, Dis_Upload, DoEncode,
     createHashNames_End, StartUpload, UploadWait, UploadFinish,
     ConvertFileNameForUP, AllocateRemote, uploadFile, updateRemoteInfo_Up,
     EraseTempShard, NoEntry
<1>6. CASE DownloadStep
  BY <1>1, <1>2, <1>6, <1>a DEF DownloadStep, Dis_Download, DownloadWait,
     DoDecode, AskRemove, DownloadReset, DownloadClean, downloadFile,
     ConvertFileNameForDo, updateRemoteInfo_Down, NoEntry
<1>7. CASE RmStep
  BY <1>1, <1>2, <1>7, <1>a DEF RmStep, Dis_rm, RmNew, RmResume, RmWait,
     RmDrop, remoteCallDeleteFile, MarkRemoved, NoEntry
<1>8. CASE Environment
  BY <1>1, <1>2, <1>8, <1>a DEF Environment, Start, Crash,
     cleanShardFolderOnExit, MoveSource, LoseObject, DamageObject
<1>r. CASE EarlyReturn
  BY <1>1, <1>2, <1>r, <1>a, EarlyReturnEnds
<1>b. CASE Blind
  BY <1>1, <1>2, <1>b, <1>a DEF Blind, CheckState_Unread, encryptFilesOnExit,
     RemoveOriginals, DecryptAllFilesInPath
<1>9. QED
  BY <1>3, <1>4, <1>5, <1>6, <1>7, <1>8, <1>r, <1>b
  DEF Next, Seeing, Process

(* A step after which datamap.json was never hidden does not hide it.      *)
LEMMA SightedStep ==
    ASSUME TypeOK, WindowInv, [Next]_vars, Sighted'
    PROVE  Sighted /\ [Seeing]_vars
<1>0. /\ faults \in [FaultKinds -> Nat]
      /\ "unread" \in FaultKinds /\ "midway" \in FaultKinds
  BY DEF TypeOK, FaultKinds
<1>1. faults'["unread"] = 0 /\ faults'["midway"] = 0
  BY DEF Sighted, Never, Blinding
<1>2. faults["unread"] = 0 /\ faults["midway"] = 0
  BY <1>0, <1>1, FaultsStay
<1>3. ~CheckState_Unread /\ ~encryptFilesOnExit
  BY <1>0, <1>1, FaultCounted DEF CheckState_Unread, encryptFilesOnExit
<1>4. ~RemoveOriginals /\ ~DecryptAllFilesInPath
  BY <1>2 DEF RemoveOriginals, DecryptAllFilesInPath, WindowInv
<1>5. QED
  BY <1>2, <1>3, <1>4 DEF Next, Blind, Sighted, Never, Blinding

(* The window is closing or closed only after it was closed midway.        *)
LEMMA WindowHolds == Spec => []WindowInv
<1>1. Init => WindowInv
  BY DEF Init, WindowInv
<1>2. TypeOK /\ WindowInv /\ [Next]_vars => WindowInv'
  <2> SUFFICES ASSUME TypeOK, WindowInv, [Next]_vars PROVE WindowInv'
    OBVIOUS
  <2>0. /\ faults \in [FaultKinds -> Nat] /\ "midway" \in FaultKinds
        /\ faults' \in [FaultKinds -> Nat]
    BY EnvStep DEF TypeOK, EnvType, FaultKinds
  <2>1. faults["midway"] > 0 => faults'["midway"] > 0
    BY <2>0, FaultsStay
  <2>2. CASE encryptFilesOnExit
    BY <2>0, <2>2, FaultCounted DEF encryptFilesOnExit, WindowInv
  <2>3. CASE UNCHANGED window
    BY <2>1, <2>3 DEF WindowInv
  <2>4. CASE RemoveOriginals \/ DecryptAllFilesInPath
    BY <2>1, <2>4 DEF RemoveOriginals, DecryptAllFilesInPath, WindowInv
  <2>5. window' = window \/ Blind
    <3> USE DEF world
    <3>1. CASE Process
      BY <3>1, EarlyReturnEnds DEF Process, CheckState, CheckState_Clean,
         DumpReset, DumpUploadState, DumpDownloadState, DumpRmState,
         UploadStep, Dis_Upload, DoEncode, createHashNames_End, StartUpload,
         UploadWait, UploadFinish, ConvertFileNameForUP, AllocateRemote,
         uploadFile, updateRemoteInfo_Up, EraseTempShard, DownloadStep,
         Dis_Download, DownloadWait, DoDecode, AskRemove, DownloadReset,
         DownloadClean, downloadFile, ConvertFileNameForDo,
         updateRemoteInfo_Down, RmStep, Dis_rm, RmNew, RmResume, RmWait,
         RmDrop, remoteCallDeleteFile, MarkRemoved
    <3>2. CASE Environment
      BY <3>2 DEF Environment, Start, Crash, cleanShardFolderOnExit,
         MoveSource, LoseObject, DamageObject
    <3>3. QED
      BY <3>1, <3>2 DEF Next, Seeing, vars
  <2>6. QED
    BY <2>2, <2>3, <2>4, <2>5 DEF Blind, CheckState_Unread, world
<1>3. QED
  BY <1>1, <1>2, TypeCorrect, PTL DEF Spec

(* FlagInv holds throughout, as long as datamap.json was never hidden.     *)
LEMMA FlagHolds == Spec => [](Sighted => FlagInv)
<1>1. Init => FlagInv
  <2> SUFFICES ASSUME Init PROVE FlagInv
    OBVIOUS
  <2>0. datamap = EmptyMap
    BY DEF Init
  <2>1. \A f \in Files : ~datamap[f].Flag
    BY <2>0, EmptyMapBlank, Zenon
  <2>2. QED
    BY <2>1 DEF Init, FlagInv, OneFlag, OnlyTarget
<1>2. /\ TypeOK /\ WindowInv /\ [Next]_vars
      /\ Sighted => FlagInv
      => (Sighted => FlagInv)'
  BY SightedStep, FlagStep
<1>3. QED
  BY <1>1, <1>2, TypeCorrect, WindowHolds, PTL DEF Spec

(* However many commands died, failed or were killed, and wherever, at     *)
(* most one entry of datamap.json is flagged, so that the one repair       *)
(* CheckState makes before a command is all the repair there is to make -  *)
(* as long as no read of CheckState failed and the window was not closed   *)
(* under a command.                                                        *)
THEOREM AtMostOneUnfinished == Spec => []OneUnfinished
<1>1. (Sighted => FlagInv) => OneUnfinished
  BY DEF Sighted, FlagInv, OneFlag, OneUnfinished
<1>2. QED
  BY <1>1, FlagHolds, PTL

(***************************************************************************)
(* An uploaded file stays whole on the remotes until its removal begins    *)
(* (StoredWhole).                                                          *)
(*                                                                         *)
(* The argument.  A step touches the entry and the objects of one file,    *)
(* the one the process works on (OthersUntouched).  Of that file, objects  *)
(* are deleted only once its removal is noted (ModeInv), and it becomes a  *)
(* kept file only in UploadFinish, which UploadSafe, followed shard by     *)
(* shard from DoEncode on, finds with every shard stored and recorded.     *)
(***************************************************************************)

(* No remote lost or damaged an object, or swallowed an error, so far, and *)
(* datamap.json was never hidden.                                          *)
Quiet == Never({"loss", "damage", "silent"} \cup Blinding)

(* A removal that is recorded, or under way, has been noted in doomed.     *)
RemovalDoomed ==
    /\ \A f \in Files :
          datamap[f].Flag /\ datamap[f].State = "rm" => doomed[f]
    /\ pc \in {"rmResume", "rm", "drop"} => doomed[target]

(* While a download or an upload is under way, the entry says so.          *)
StateFits ==
    /\ pc \in {"dumpReset", "download", "decode", "ask", "reset"} =>
          datamap[target].State = "download"
    /\ pc \in {"upload", "stat"} =>
          datamap[target].State = "upload" /\ datamap[target].Flag

ModeInv == RemovalDoomed /\ StateFits

(* The shard is on the remote that the entry names, as last encoded.       *)
ShardStored(s) ==
    /\ datamap[target].Remote[s] # NoRemote
    /\ store[datamap[target].Remote[s]][target][s] = datamap[target].Enc

(* What the shards of an upload have reached, phase by phase: shards that  *)
(* are renamed, copied and recorded are those of the newest encoding.      *)
HashSafe ==
    pc = "hash" => \A s \in Shards :
        /\ phase[s] = "hash" => plain[target][s] \in {Absent, encNext}
        /\ phase[s] # "hash" /\ ~errs =>
              hashed[target][s] \in {Absent, encNext}

MapSafe ==
    pc = "makemap" => \A s \in Shards : hashed[target][s] \in {Absent, encNext}

CopyShard(s) ==
    /\ hashed[target][s] \in {Absent, datamap[target].Enc}
    /\ phase[s] \in {"copy", "record"} => dst[s] \in Remotes
    /\ phase[s] = "record" =>
          store[dst[s]][target][s] = datamap[target].Enc
    /\ phase[s] = "erase" => ShardStored(s)
    /\ phase[s] = "done" /\ ~errs => ShardStored(s)

CopySafe == pc = "upload" => \A s \in Shards : CopyShard(s)

StatSafe == pc = "stat" => \A s \in Shards : ShardStored(s)

UploadSafe == HashSafe /\ MapSafe /\ CopySafe /\ StatSafe

(* StoredWhole without its premise, and the inductive invariant.           *)
KeptWhole == \A f \in Files : Kept(f) => Whole(f)

StoredInv == Quiet => UploadSafe /\ KeptWhole

(* The entry and the objects of a file that a step leaves alone.           *)
Untouched(g) ==
    /\ datamap'[g] = datamap[g]
    /\ doomed'[g] <=> doomed[g]
    /\ \A r \in Remotes, s \in Shards : store'[r][g][s] = store[r][g][s]

-----------------------------------------------------------------------------

(* A step of a process touches the entry and the objects of one file only, *)
(* the one it works on: no command harms another file.                     *)
LEMMA OthersUntouched ==
    ASSUME TypeOK, FlagInv, Process, NEW g \in Files, g # target
    PROVE  Untouched(g)
<1> USE DEF disk, Untouched
<1>0. /\ datamap \in DataMaps /\ target \in Files /\ encNext \in Nat
      /\ dst \in [Shards -> Remotes \cup {NoRemote}]
      /\ store \in [Remotes -> [Files -> [Shards -> Contents]]]
      /\ doomed \in [Files -> BOOLEAN]
  BY DEF TypeOK
<1>1. CASE UNCHANGED <<datamap, store, doomed>>
  BY <1>1
<1>2. ASSUME UNCHANGED <<store, doomed>>,
             \/ datamap' = ResetCheckFlag(datamap, target)
             \/ datamap' = RemoveFileFromMetadata(datamap, target)
             \/ \E s \in Shards :
                   datamap' = UpdateDistributedFile_CheckFlag(
                                  datamap, target, s)
      PROVE  Untouched(g)
  <2>1. CASE datamap' = ResetCheckFlag(datamap, target)
    BY <1>0, <1>2, <2>1, ResetCheckFlagEffect
  <2>2. CASE datamap' = RemoveFileFromMetadata(datamap, target)
    BY <1>0, <1>2, <2>2, RemoveEffect
  <2>3. ASSUME NEW s \in Shards,
               datamap' = UpdateDistributedFile_CheckFlag(datamap, target, s)
        PROVE  Untouched(g)
    BY <1>0, <1>2, <2>3, CheckFlagEffect
  <2>4. QED
    BY <1>2, <2>1, <2>2, <2>3
<1>3. CASE CheckState
  BY <1>1, <1>2, <1>3 DEF CheckState, CheckState_Clean, DumpReset,
     DumpUploadState, DumpDownloadState, DumpRmState
<1>4. CASE UploadStep
  <2>1. CASE StartUpload
    <3>1. CASE /\ datamap' = MakeDataMap(datamap, target, encNext)
               /\ doomed'  = [doomed EXCEPT ![target] = FALSE]
      <4>1. datamap'[g] = datamap[g]
        BY <1>0, <3>1, MakeDataMapEffect
      <4>2. doomed'[g] <=> doomed[g]
        BY <1>0, <3>1
      <4>3. UNCHANGED store
        BY <2>1 DEF StartUpload
      <4>4. QED
        BY <4>1, <4>2, <4>3
    <3>2. QED
      BY <1>1, <2>1, <3>1 DEF StartUpload
  <2>2. CASE UploadFinish
    BY <1>1, <1>2, <2>2 DEF UploadFinish
  <2>3. ASSUME NEW s \in Shards, updateRemoteInfo_Up(s) PROVE Untouched(g)
    <3>1. dst[s] \in Remotes \cup {NoRemote}
      BY <1>0
    <3>2. datamap'[g] = datamap[g]
      BY <1>0, <2>3, <3>1, CheckFlagAndRemoteEffect DEF updateRemoteInfo_Up
    <3>3. QED
      BY <2>3, <3>2 DEF updateRemoteInfo_Up
  <2>4. ASSUME NEW s \in Shards, uploadFile(s) PROVE Untouched(g)
    <3>1. CASE store' = Put(store, dst[s], target, s, hashed[target][s])
      <4>1. \A r \in Remotes, t \in Shards : store'[r][g][t] = store[r][g][t]
        BY <1>0, <3>1 DEF Put
      <4>2. QED
        BY <2>4, <4>1 DEF uploadFile
    <3>2. QED
      BY <1>1, <2>4, <3>1 DEF uploadFile
  <2>5. QED
    BY <1>1, <1>4, <2>1, <2>2, <2>3, <2>4 DEF UploadStep, Dis_Upload, DoEncode,
       createHashNames_End, UploadWait, ConvertFileNameForUP, AllocateRemote,
       EraseTempShard
<1>5. CASE DownloadStep
  <2>1. CASE Dis_Download
    <3>1. target = cmd.file
      BY <2>1 DEF Dis_Download, FlagInv
    <3>2. CASE datamap' = UpdateFileFlag(datamap, cmd.file, "download")
      <4>1. "download" \in States
        BY DEF States
      <4>2. datamap'[g] = datamap[g]
        BY <1>0, <3>1, <3>2, <4>1, UpdateFileFlagEffect
      <4>3. QED
        BY <2>1, <4>2 DEF Dis_Download
    <3>3. QED
      BY <1>1, <2>1, <3>2 DEF Dis_Download
  <2>2. CASE DownloadReset
    BY <1>1, <1>2, <2>2 DEF DownloadReset
  <2>3. ASSUME NEW s \in Shards, updateRemoteInfo_Down(s) PROVE Untouched(g)
    BY <1>1, <1>2, <2>3 DEF updateRemoteInfo_Down
  <2>4. QED
    BY <1>1, <1>5, <2>1, <2>2, <2>3 DEF DownloadStep, DownloadWait, DoDecode,
       AskRemove, DownloadClean, downloadFile, ConvertFileNameForDo
<1>6. CASE RmStep
  <2>1. CASE RmNew
    <3>1. "rm" \in States
      BY DEF States
    <3>2. datamap'[g] = datamap[g]
      BY <1>0, <2>1, <3>1, UpdateFileFlagEffect DEF RmNew
    <3>3. doomed'[g] <=> doomed[g]
      BY <1>0, <2>1 DEF RmNew
    <3>4. QED
      BY <2>1, <3>2, <3>3 DEF RmNew
  <2>2. CASE RmWait \/ RmDrop
    BY <1>2, <2>2 DEF RmWait, RmDrop
  <2>3. ASSUME NEW s \in Shards, remoteCallDeleteFile(s) PROVE Untouched(g)
    <3>1. CASE store' = Put(store, dst[s], target, s, Absent)
      <4>1. \A r \in Remotes, t \in Shards : store'[r][g][t] = store[r][g][t]
        BY <1>0, <3>1 DEF Put
      <4>2. QED
        BY <2>3, <4>1 DEF remoteCallDeleteFile
    <3>2. QED
      BY <1>1, <2>3, <3>1 DEF remoteCallDeleteFile
  <2>4. ASSUME NEW s \in Shards, MarkRemoved(s) PROVE Untouched(g)
    BY <1>1, <1>2, <2>4 DEF MarkRemoved
  <2>5. QED
    BY <1>1, <1>6, <2>1, <2>2, <2>3, <2>4 DEF RmStep, Dis_rm, RmResume
<1>7. CASE EarlyReturn
  <2>0. "download" \in States /\ "rm" \in States
    BY DEF States
  <2>1. CASE Dis_Download_Unlisted
    <3>1. target = cmd.file
      BY <2>1 DEF Dis_Download_Unlisted, FlagInv
    <3>2. datamap'[g] = datamap[g]
      BY <1>0, <2>0, <2>1, <3>1, UpdateFileFlagEffect DEF Dis_Download_Unlisted
    <3>3. QED
      BY <2>1, <3>2 DEF Dis_Download_Unlisted
  <2>2. CASE RmNew_Unlisted
    <3>1. datamap'[g] = datamap[g]
      BY <1>0, <2>0, <2>2, UpdateFileFlagEffect DEF RmNew_Unlisted
    <3>2. doomed'[g] <=> doomed[g]
      BY <1>0, <2>2 DEF RmNew_Unlisted
    <3>3. QED
      BY <2>2, <3>1, <3>2 DEF RmNew_Unlisted
  <2>3. QED
    BY <1>1, <1>7, <2>1, <2>2, EarlyReturnEnds
<1>8. QED
  BY <1>3, <1>4, <1>5, <1>6, <1>7 DEF Process

(* While nothing is lost, damaged or swallowed after a fault, it was not   *)
(* one of those kinds.                                                     *)
LEMMA FaultsGrow ==
    ASSUME faults \in [FaultKinds -> Nat], NEW k \in FaultKinds, Fault(k)
    PROVE  k \in {"loss", "damage", "silent"} => ~Quiet'
BY FaultCounted DEF Quiet, Never

(* A step after which no remote has failed follows none that failed.       *)
LEMMA QuietBefore ==
    ASSUME TypeOK, [Next]_vars, Quiet'
    PROVE  Quiet
<1>1. {"loss", "damage", "silent"} \cup Blinding \subseteq FaultKinds
  BY DEF FaultKinds, Blinding
<1>2. QED
  BY <1>1, FaultsStay DEF Quiet, Never

(* Environment steps change no entry and no history, and no object unless  *)
(* a remote fails.                                                         *)
LEMMA EnvironmentQuiet ==
    ASSUME TypeOK, Environment
    PROVE  /\ UNCHANGED <<datamap, doomed, encNext>>
           /\ Quiet' => UNCHANGED store
<1> USE DEF disk, world
<1>0. faults \in [FaultKinds -> Nat]
  BY DEF TypeOK
<1>a. "loss" \in FaultKinds /\ "damage" \in FaultKinds
  BY DEF FaultKinds
<1>1. ASSUME NEW r \in Remotes, NEW f \in Files, NEW s \in Shards,
             LoseObject(r, f, s) \/ DamageObject(r, f, s)
      PROVE  UNCHANGED <<datamap, doomed, encNext>> /\ ~Quiet'
  <2>1. UNCHANGED <<datamap, doomed, encNext>>
    BY <1>1 DEF LoseObject, DamageObject
  <2>2. Fault("loss") \/ Fault("damage")
    BY <1>1 DEF LoseObject, DamageObject
  <2>3. QED
    BY <1>0, <1>a, <2>1, <2>2, FaultsGrow
<1>2. CASE UNCHANGED <<datamap, doomed, encNext, store>>
  BY <1>2
<1>3. QED
  BY <1>1, <1>2 DEF Environment, Start, Crash, cleanShardFolderOnExit,
     MoveSource

(* Steps that leave the map and the history alone keep ModeInv when they   *)
(* stay with the file and move within the phases ModeInv speaks of.        *)
LEMMA ModeKept ==
    ASSUME ModeInv, UNCHANGED <<datamap, doomed, target>>,
           \/ pc' = pc
           \/ pc' \in {"idle", "main", "encode", "hash", "makemap", "rmNew"}
           \/ pc = "upload" /\ pc' = "stat"
           \/ pc = "rmResume" /\ pc' = "rm"
           \/ /\ pc \in {"download", "decode"}
              /\ pc' \in {"decode", "ask", "reset"}
    PROVE  ModeInv'
BY DEF ModeInv, RemovalDoomed, StateFits

(* CheckState and the dumps keep ModeInv.                                  *)
LEMMA ModeCheckState == TypeOK /\ FlagInv /\ ModeInv /\ CheckState => ModeInv'
<1> SUFFICES ASSUME TypeOK, FlagInv, ModeInv, CheckState PROVE ModeInv'
  OBVIOUS
<1> USE DEF disk
<1>0. datamap \in DataMaps /\ target \in Files
  BY DEF TypeOK
<1>1. CASE CheckState_Clean
  BY <1>1, ModeKept DEF CheckState_Clean, Goto
<1>2. CASE DumpReset
  <2>1. /\ \A g \in Files : g # target => datamap'[g] = datamap[g]
        /\ ~datamap'[target].Flag
    BY <1>0, <1>2, ResetCheckFlagEffect DEF DumpReset
  <2>2. pc' = "main" /\ UNCHANGED doomed
    BY <1>2 DEF DumpReset
  <2>3. QED
    BY <2>1, <2>2 DEF ModeInv, RemovalDoomed, StateFits
<1>3. ASSUME NEW f \in Files,
             DumpUploadState(f) \/ DumpDownloadState(f) \/ DumpRmState(f)
      PROVE  ModeInv'
  <2>1. datamap[f].Flag /\ UNCHANGED <<datamap, doomed>> /\ target' = f
    BY <1>3 DEF DumpUploadState, DumpDownloadState, DumpRmState, Flagged
  <2>2. \/ pc' = "rmNew"
        \/ pc' = "dumpReset" /\ datamap[f].State = "download"
        \/ pc' = "rmResume" /\ datamap[f].State = "rm"
    BY <1>3 DEF DumpUploadState, DumpDownloadState, DumpRmState
  <2>3. QED
    BY <2>1, <2>2 DEF ModeInv, RemovalDoomed, StateFits
<1>4. QED
  BY <1>1, <1>2, <1>3 DEF CheckState

(* Dis_Upload keeps ModeInv.                                               *)
LEMMA ModeUpload == TypeOK /\ FlagInv /\ ModeInv /\ UploadStep => ModeInv'
<1> SUFFICES ASSUME TypeOK, FlagInv, ModeInv, UploadStep PROVE ModeInv'
  OBVIOUS
<1> USE DEF disk
<1>0. /\ datamap \in DataMaps /\ target \in Files /\ encNext \in Nat
      /\ dst \in [Shards -> Remotes \cup {NoRemote}]
      /\ doomed \in [Files -> BOOLEAN]
  BY DEF TypeOK
<1>1. CASE StartUpload
  <2>1. CASE Finish("error") /\ UNCHANGED <<datamap, doomed>>
    BY <2>1, ModeKept DEF Finish
  <2>2. CASE /\ datamap' = MakeDataMap(datamap, target, encNext)
             /\ doomed'  = [doomed EXCEPT ![target] = FALSE]
             /\ pc' = "upload" /\ UNCHANGED target
    <3>1. /\ \A g \in Files : g # target => datamap'[g] = datamap[g]
          /\ datamap'[target].Flag /\ datamap'[target].State = "upload"
      BY <1>0, <2>2, MakeDataMapEffect
    <3>2. \A g \in Files : g # target => (doomed'[g] <=> doomed[g])
      BY <1>0, <2>2
    <3>3. QED
      BY <1>0, <2>2, <3>1, <3>2 DEF ModeInv, RemovalDoomed, StateFits
  <2>3. QED
    BY <1>1, <2>1, <2>2 DEF StartUpload
<1>2. CASE UploadFinish
  <2>1. CASE UNCHANGED datamap
    BY <1>2, <2>1, ModeKept DEF UploadFinish, Finish
  <2>2. CASE datamap' = ResetCheckFlag(datamap, target)
    <3>1. /\ \A g \in Files : g # target => datamap'[g] = datamap[g]
          /\ ~datamap'[target].Flag
      BY <1>0, <2>2, ResetCheckFlagEffect
    <3>2. pc' = "idle" /\ UNCHANGED doomed
      BY <1>2 DEF UploadFinish, Finish
    <3>3. QED
      BY <3>1, <3>2 DEF ModeInv, RemovalDoomed, StateFits
  <2>3. QED
    BY <1>2, <2>1, <2>2 DEF UploadFinish
<1>3. ASSUME NEW s \in Shards, updateRemoteInfo_Up(s) PROVE ModeInv'
  <2>1. dst[s] \in Remotes \cup {NoRemote}
    BY <1>0
  <2>2. /\ \A g \in Files : g # target => datamap'[g] = datamap[g]
        /\ datamap'[target].Flag <=> datamap[target].Flag
        /\ datamap'[target].State = datamap[target].State
    BY <1>0, <1>3, <2>1, CheckFlagAndRemoteEffect DEF updateRemoteInfo_Up
  <2>3. UNCHANGED <<pc, target, doomed>>
    BY <1>3 DEF updateRemoteInfo_Up, Step, StepError
  <2>4. QED
    BY <1>0, <2>2, <2>3 DEF ModeInv, RemovalDoomed, StateFits
<1>4. CASE /\ UNCHANGED <<datamap, doomed, target>>
           /\ \/ pc' \in {pc, "idle", "encode", "hash", "makemap", "rmNew"}
              \/ pc = "upload" /\ pc' = "stat"
  BY <1>4, ModeKept
<1>5. CASE Dis_Upload \/ DoEncode \/ createHashNames_End \/ UploadWait
  BY <1>4, <1>5 DEF Dis_Upload, DoEncode, createHashNames_End, UploadWait,
     Finish, Goto
<1>6. ASSUME NEW s \in Shards,
             \/ ConvertFileNameForUP(s) \/ AllocateRemote(s)
             \/ uploadFile(s) \/ EraseTempShard(s)
      PROVE  ModeInv'
  BY <1>4, <1>6 DEF ConvertFileNameForUP, AllocateRemote, uploadFile,
     EraseTempShard, Step, StepError
<1>7. QED
  BY <1>1, <1>2, <1>3, <1>5, <1>6 DEF UploadStep

(* Dis_Download keeps ModeInv.                                             *)
LEMMA ModeDownload == TypeOK /\ FlagInv /\ ModeInv /\ DownloadStep => ModeInv'
<1> SUFFICES ASSUME TypeOK, FlagInv, ModeInv, DownloadStep PROVE ModeInv'
  OBVIOUS
<1> USE DEF disk
<1>0. datamap \in DataMaps /\ target \in Files
  BY DEF TypeOK
<1>s. "download" \in States
  BY DEF States
<1>1. CASE Dis_Download
  <2>1. CASE Finish("error") /\ UNCHANGED datamap
    BY <1>1, <2>1, ModeKept DEF Dis_Download, Finish
  <2>2. CASE /\ datamap' = UpdateFileFlag(datamap, cmd.file, "download")
             /\ pc' = "download" /\ UNCHANGED target
    <3>1. target = cmd.file
      BY <1>1 DEF Dis_Download, FlagInv
    <3>2. /\ \A g \in Files : g # target => datamap'[g] = datamap[g]
          /\ datamap'[target].State = "download"
      BY <1>0, <1>s, <2>2, <3>1, UpdateFileFlagEffect
    <3>3. UNCHANGED doomed
      BY <1>1 DEF Dis_Download
    <3>4. QED
      BY <2>2, <3>2, <3>3 DEF ModeInv, RemovalDoomed, StateFits
  <2>3. QED
    BY <1>1, <2>1, <2>2 DEF Dis_Download
<1>2. CASE DownloadReset
  <2>1. CASE Finish("error") /\ UNCHANGED datamap
    BY <1>2, <2>1, ModeKept DEF DownloadReset, Finish
  <2>2. CASE datamap' = ResetCheckFlag(datamap, target) /\ pc' = "clean"
    <3>1. /\ \A g \in Files : g # target => datamap'[g] = datamap[g]
          /\ ~datamap'[target].Flag
      BY <1>0, <2>2, ResetCheckFlagEffect
    <3>2. UNCHANGED doomed
      BY <1>2 DEF DownloadReset
    <3>3. QED
      BY <2>2, <3>1, <3>2 DEF ModeInv, RemovalDoomed, StateFits
  <2>3. QED
    BY <1>2, <2>1, <2>2 DEF DownloadReset
<1>3. ASSUME NEW s \in Shards, updateRemoteInfo_Down(s) PROVE ModeInv'
  <2>1. /\ \A g \in Files : g # target => datamap'[g] = datamap[g]
        /\ datamap'[target].Flag <=> datamap[target].Flag
        /\ datamap'[target].State = datamap[target].State
    BY <1>0, <1>3, CheckFlagEffect DEF updateRemoteInfo_Down
  <2>2. UNCHANGED <<pc, target, doomed>>
    BY <1>3 DEF updateRemoteInfo_Down, Step
  <2>3. QED
    BY <1>0, <2>1, <2>2 DEF ModeInv, RemovalDoomed, StateFits
<1>4. CASE /\ UNCHANGED <<datamap, doomed, target>>
           /\ \/ pc' \in {pc, "idle", "rmNew"}
              \/ /\ pc \in {"download", "decode"}
                 /\ pc' \in {"decode", "ask", "reset"}
  BY <1>4, ModeKept
<1>5. CASE DownloadWait \/ DoDecode \/ AskRemove \/ DownloadClean
  BY <1>4, <1>5 DEF DownloadWait, DoDecode, DoDecode_NoDestination,
     DoDecode_TooFewShards, DoDecode_Restored, DoDecode_WrongPassword,
       DoDecode_Mixed, AskRemove,
     DownloadClean, Finish, Goto
<1>6. ASSUME NEW s \in Shards, downloadFile(s) \/ ConvertFileNameForDo(s)
      PROVE  ModeInv'
  BY <1>4, <1>6 DEF downloadFile, ConvertFileNameForDo, FetchedNothing, Step,
     Finish
<1>7. QED
  BY <1>1, <1>2, <1>3, <1>5, <1>6 DEF DownloadStep

(* Dis_rm keeps ModeInv.                                                   *)
LEMMA ModeRm == TypeOK /\ FlagInv /\ ModeInv /\ RmStep => ModeInv'
<1> SUFFICES ASSUME TypeOK, FlagInv, ModeInv, RmStep PROVE ModeInv'
  OBVIOUS
<1> USE DEF disk
<1>0. /\ datamap \in DataMaps /\ target \in Files
      /\ ret \in {"done", "main", "encode"}
      /\ doomed \in [Files -> BOOLEAN]
  BY DEF TypeOK
<1>1. CASE RmNew
  <2>1. "rm" \in States
    BY DEF States
  <2>2. \A g \in Files : g # target => datamap'[g] = datamap[g]
    BY <1>0, <1>1, <2>1, UpdateFileFlagEffect DEF RmNew
  <2>3. /\ \A g \in Files : g # target => (doomed'[g] <=> doomed[g])
        /\ doomed'[target]
    BY <1>0, <1>1 DEF RmNew
  <2>4. pc' = "rm" /\ UNCHANGED target
    BY <1>1 DEF RmNew
  <2>5. QED
    BY <1>0, <2>2, <2>3, <2>4 DEF ModeInv, RemovalDoomed, StateFits
<1>2. CASE RmWait
  <2>1. /\ \A g \in Files : g # target => datamap'[g] = datamap[g]
        /\ ~datamap'[target].Flag
    BY <1>0, <1>2, ResetCheckFlagEffect DEF RmWait
  <2>2. pc = "rm" /\ pc' = "drop" /\ UNCHANGED <<target, doomed>>
    BY <1>2 DEF RmWait, Goto
  <2>3. QED
    BY <2>1, <2>2 DEF ModeInv, RemovalDoomed, StateFits
<1>3. CASE RmDrop
  <2>1. /\ \A g \in Files : g # target => datamap'[g] = datamap[g]
        /\ ~datamap'[target].Flag
    BY <1>0, <1>3, RemoveEffect DEF RmDrop
  <2>2. pc' \in {"idle", "main", "encode"} /\ UNCHANGED doomed
    BY <1>0, <1>3 DEF RmDrop, Finish
  <2>3. QED
    BY <2>1, <2>2 DEF ModeInv, RemovalDoomed, StateFits
<1>4. ASSUME NEW s \in Shards, MarkRemoved(s) PROVE ModeInv'
  <2>1. /\ \A g \in Files : g # target => datamap'[g] = datamap[g]
        /\ datamap'[target].Flag <=> datamap[target].Flag
        /\ datamap'[target].State = datamap[target].State
    BY <1>0, <1>4, CheckFlagEffect DEF MarkRemoved
  <2>2. UNCHANGED <<pc, target, doomed>>
    BY <1>4 DEF MarkRemoved, Step, StepError
  <2>3. QED
    BY <1>0, <2>1, <2>2 DEF ModeInv, RemovalDoomed, StateFits
<1>5. CASE Dis_rm \/ RmResume
  BY <1>5, ModeKept DEF Dis_rm, RmResume, Finish, Goto
<1>6. ASSUME NEW s \in Shards, remoteCallDeleteFile(s) PROVE ModeInv'
  BY <1>6, ModeKept DEF remoteCallDeleteFile, Step
<1>7. QED
  BY <1>1, <1>2, <1>3, <1>4, <1>5, <1>6 DEF RmStep

(* The early returns keep ModeInv.                                         *)
LEMMA ModeEarly == TypeOK /\ FlagInv /\ ModeInv /\ EarlyReturn => ModeInv'
<1> SUFFICES ASSUME TypeOK, FlagInv, ModeInv, EarlyReturn PROVE ModeInv'
  OBVIOUS
<1>0. /\ datamap \in DataMaps /\ target \in Files
      /\ doomed \in [Files -> BOOLEAN]
      /\ "download" \in States /\ "rm" \in States
  BY DEF TypeOK, States
<1>1. pc' = "idle" /\ UNCHANGED target
  BY EarlyReturnEnds DEF Finish
<1>2. CASE UNCHANGED <<datamap, doomed>>
  BY <1>1, <1>2, ModeKept
<1>3. CASE Dis_Download_Unlisted
  <2>1. target = cmd.file
    BY <1>3 DEF Dis_Download_Unlisted, FlagInv
  <2>2. /\ \A g \in Files : g # target => datamap'[g] = datamap[g]
        /\ datamap'[target].State = "download"
    BY <1>0, <1>3, <2>1, UpdateFileFlagEffect DEF Dis_Download_Unlisted
  <2>3. UNCHANGED doomed
    BY <1>3 DEF Dis_Download_Unlisted
  <2>4. QED
    BY <1>1, <2>2, <2>3 DEF ModeInv, RemovalDoomed, StateFits
<1>4. CASE RmNew_Unlisted
  <2>1. \A g \in Files : g # target => datamap'[g] = datamap[g]
    BY <1>0, <1>4, UpdateFileFlagEffect DEF RmNew_Unlisted
  <2>2. /\ \A g \in Files : g # target => (doomed'[g] <=> doomed[g])
        /\ doomed'[target]
    BY <1>0, <1>4 DEF RmNew_Unlisted
  <2>3. QED
    BY <1>0, <1>1, <2>1, <2>2 DEF ModeInv, RemovalDoomed, StateFits
<1>5. QED
  BY <1>2, <1>3, <1>4, EarlyReturnEnds

(* Every step that does not hide datamap.json keeps ModeInv.               *)
LEMMA ModeStep == TypeOK /\ FlagInv /\ ModeInv /\ [Seeing]_vars => ModeInv'
<1> SUFFICES ASSUME TypeOK, FlagInv, ModeInv, [Seeing]_vars PROVE ModeInv'
  OBVIOUS
<1> USE DEF disk, proc
<1>1. CASE UNCHANGED vars
  BY <1>1, ModeKept DEF vars
<1>2. CASE Environment
  <2>1. UNCHANGED <<datamap, doomed>>
    BY <1>2, EnvironmentQuiet
  <2>2. ASSUME NEW c \in Commands, Start(c) PROVE ModeInv'
    BY <2>1, <2>2 DEF Start, ModeInv, RemovalDoomed, StateFits
  <2>3. CASE Crash
    BY <2>1, <2>3, ModeKept DEF Crash, Finish
  <2>4. CASE UNCHANGED proc
    BY <2>1, <2>4, ModeKept
  <2>5. QED
    BY <1>2, <2>2, <2>3, <2>4 DEF Environment, cleanShardFolderOnExit,
       MoveSource, LoseObject, DamageObject
<1>3. QED
  BY <1>1, <1>2, ModeCheckState, ModeUpload, ModeDownload, ModeRm, ModeEarly
  DEF Seeing, Process

-----------------------------------------------------------------------------

(* A file stays whole when neither its objects nor where they are changes. *)
LEMMA WholeStays ==
    ASSUME TypeOK, NEW f \in Files, Whole(f),
           datamap'[f].Remote = datamap[f].Remote,
           datamap'[f].Enc = datamap[f].Enc,
           \A r \in Remotes, s \in Shards : store'[r][f][s] = store[r][f][s]
    PROVE  Whole(f)'
<1>1. \A s \in Shards : datamap[f].Remote[s] \in Remotes
  BY EntryType DEF TypeOK, Whole
<1>2. QED
  BY <1>1 DEF Whole

(* The file the process works on: if it counts as kept after a step, its   *)
(* upload has just ended with every shard in its place, or it was kept     *)
(* before and the step touched no object of it.                            *)
LEMMA TargetKept ==
    ASSUME TypeOK, FlagInv, ModeInv, UploadSafe, KeptWhole, Process,
           NEW f \in Files, f = target, Kept(f)'
    PROVE  Whole(f)'
<1> USE DEF disk
<1>0. /\ datamap \in DataMaps /\ encNext \in Nat
      /\ dst \in [Shards -> Remotes \cup {NoRemote}]
      /\ doomed \in [Files -> BOOLEAN]
  BY DEF TypeOK
<1>k. /\ datamap'[f].State # "absent" /\ ~doomed'[f]
      /\ datamap'[f].Flag => datamap'[f].State = "download"
  BY DEF Kept, Exists
<1>1. CASE /\ Kept(f) /\ UNCHANGED store
           /\ datamap'[f].Remote = datamap[f].Remote
           /\ datamap'[f].Enc = datamap[f].Enc
  BY <1>1, WholeStays DEF KeptWhole
<1>2. CASE UNCHANGED <<datamap, store, doomed>>
  <2>1. Kept(f)
    BY <1>2 DEF Kept, Exists
  <2>2. QED
    BY <1>1, <1>2, <2>1
<1>3. ASSUME ~datamap[f].Flag \/ datamap[f].State = "download",
             datamap[f].State # "absent", UNCHANGED <<store, doomed>>,
             datamap'[f].Remote = datamap[f].Remote,
             datamap'[f].Enc = datamap[f].Enc
      PROVE  Whole(f)'
  <2>1. Kept(f)
    BY <1>3, <1>k DEF Kept, Exists
  <2>2. QED
    BY <1>1, <1>3, <2>1
<1>4. CASE CheckState
  <2>1. CASE DumpReset
    <3>1. /\ datamap'[f].Remote = datamap[f].Remote
          /\ datamap'[f].Enc = datamap[f].Enc
      BY <1>0, <2>1, ResetCheckFlagEffect DEF DumpReset
    <3>2. datamap[f].State = "download"
      BY <2>1 DEF DumpReset, ModeInv, StateFits
    <3>3. QED
      BY <1>3, <2>1, <3>1, <3>2 DEF DumpReset
  <2>2. QED
    BY <1>2, <1>4, <2>1 DEF CheckState, CheckState_Clean, DumpUploadState,
       DumpDownloadState, DumpRmState
<1>5. CASE UploadStep
  <2>1. CASE StartUpload
    <3>1. CASE datamap' = MakeDataMap(datamap, target, encNext)
      BY <1>0, <1>k, <3>1, MakeDataMapEffect
    <3>2. QED
      BY <1>2, <2>1, <3>1 DEF StartUpload
  <2>2. CASE UploadFinish
    <3>1. CASE datamap' = ResetCheckFlag(datamap, target)
      <4>1. Whole(f)
        BY <2>2 DEF UploadFinish, UploadSafe, StatSafe, ShardStored, Whole
      <4>2. /\ datamap'[f].Remote = datamap[f].Remote
            /\ datamap'[f].Enc = datamap[f].Enc
        BY <1>0, <3>1, ResetCheckFlagEffect
      <4>3. UNCHANGED store
        BY <2>2 DEF UploadFinish
      <4>4. QED
        BY <4>1, <4>2, <4>3, WholeStays
    <3>2. QED
      BY <1>2, <2>2, <3>1 DEF UploadFinish
  <2>3. ASSUME NEW s \in Shards, updateRemoteInfo_Up(s) PROVE Whole(f)'
    <3>1. dst[s] \in Remotes \cup {NoRemote}
      BY <1>0
    <3>2. /\ datamap'[f].Flag <=> datamap[f].Flag
          /\ datamap'[f].State = datamap[f].State
      BY <1>0, <2>3, <3>1, CheckFlagAndRemoteEffect DEF updateRemoteInfo_Up
    <3>3. datamap[f].Flag /\ datamap[f].State = "upload"
      BY <2>3 DEF updateRemoteInfo_Up, ModeInv, StateFits
    <3>4. QED
      BY <1>k, <3>2, <3>3
  <2>4. ASSUME NEW s \in Shards, uploadFile(s) PROVE Whole(f)'
    <3>1. datamap[f].Flag /\ datamap[f].State = "upload"
      BY <2>4 DEF uploadFile, ModeInv, StateFits
    <3>2. QED
      BY <1>k, <2>4, <3>1 DEF uploadFile
  <2>5. QED
    BY <1>2, <1>5, <2>1, <2>2, <2>3, <2>4 DEF UploadStep, Dis_Upload,
       DoEncode, createHashNames_End, UploadWait, ConvertFileNameForUP,
       AllocateRemote, EraseTempShard
<1>6. CASE DownloadStep
  <2>1. CASE Dis_Download
    <3>1. CASE /\ datamap' = UpdateFileFlag(datamap, cmd.file, "download")
               /\ Exists(datamap, cmd.file)
      <4>1. f = cmd.file /\ ~datamap[f].Flag
        BY <2>1 DEF Dis_Download, FlagInv, OnlyTarget, Working
      <4>2. "download" \in States
        BY DEF States
      <4>3. /\ datamap'[f].Remote = datamap[f].Remote
            /\ datamap'[f].Enc = datamap[f].Enc
        BY <1>0, <3>1, <4>1, <4>2, UpdateFileFlagEffect
      <4>4. UNCHANGED <<store, doomed>>
        BY <2>1 DEF Dis_Download
      <4>5. QED
        BY <1>3, <3>1, <4>1, <4>3, <4>4 DEF Exists
    <3>2. QED
      BY <1>2, <2>1, <3>1 DEF Dis_Download
  <2>2. CASE DownloadReset
    <3>1. CASE datamap' = ResetCheckFlag(datamap, target)
      <4>1. /\ datamap'[f].Remote = datamap[f].Remote
            /\ datamap'[f].Enc = datamap[f].Enc
        BY <1>0, <3>1, ResetCheckFlagEffect
      <4>2. datamap[f].State = "download"
        BY <2>2 DEF DownloadReset, ModeInv, StateFits
      <4>3. QED
        BY <1>3, <2>2, <4>1, <4>2 DEF DownloadReset
    <3>2. QED
      BY <1>2, <2>2, <3>1 DEF DownloadReset
  <2>3. ASSUME NEW s \in Shards, updateRemoteInfo_Down(s) PROVE Whole(f)'
    <3>1. /\ datamap'[f].Remote = datamap[f].Remote
          /\ datamap'[f].Enc = datamap[f].Enc
      BY <1>0, <2>3, CheckFlagEffect DEF updateRemoteInfo_Down
    <3>2. datamap[f].State = "download"
      BY <2>3 DEF updateRemoteInfo_Down, ModeInv, StateFits
    <3>3. QED
      BY <1>3, <2>3, <3>1, <3>2 DEF updateRemoteInfo_Down
  <2>4. QED
    BY <1>2, <1>6, <2>1, <2>2, <2>3 DEF DownloadStep, DownloadWait, DoDecode,
       AskRemove, DownloadClean, downloadFile, ConvertFileNameForDo
<1>7. CASE RmStep
  <2>1. CASE RmNew
    BY <1>0, <1>k, <2>1 DEF RmNew
  <2>2. CASE RmDrop
    BY <1>0, <1>k, <2>2, RemoveEffect DEF RmDrop
  <2>3. CASE RmWait
    BY <1>k, <2>3 DEF RmWait, ModeInv, RemovalDoomed
  <2>4. ASSUME NEW s \in Shards, remoteCallDeleteFile(s) \/ MarkRemoved(s)
        PROVE  Whole(f)'
    BY <1>k, <2>4 DEF remoteCallDeleteFile, MarkRemoved, ModeInv,
       RemovalDoomed
  <2>5. QED
    BY <1>2, <1>7, <2>1, <2>2, <2>3, <2>4 DEF RmStep, Dis_rm, RmResume
<1>8. CASE EarlyReturn
  <2>1. CASE RmNew_Unlisted
    BY <1>0, <1>k, <2>1 DEF RmNew_Unlisted
  <2>2. CASE Dis_Download_Unlisted
    <3>1. f = cmd.file /\ ~datamap[f].Flag
      BY <2>2 DEF Dis_Download_Unlisted, FlagInv, OnlyTarget, Working
    <3>2. "download" \in States
      BY DEF States
    <3>3. /\ datamap'[f].Remote = datamap[f].Remote
          /\ datamap'[f].Enc = datamap[f].Enc
      BY <1>0, <2>2, <3>1, <3>2, UpdateFileFlagEffect DEF Dis_Download_Unlisted
    <3>4. QED
      BY <1>3, <2>2, <3>1, <3>3 DEF Dis_Download_Unlisted, Exists
  <2>3. QED
    BY <1>2, <1>8, <2>1, <2>2, EarlyReturnEnds
<1>9. QED
  BY <1>4, <1>5, <1>6, <1>7, <1>8 DEF Process

(* Every step without a fault of a remote keeps the kept files whole.      *)
LEMMA KeptStep ==
    ASSUME TypeOK, FlagInv, ModeInv, UploadSafe, KeptWhole, [Seeing]_vars,
           Quiet'
    PROVE  KeptWhole'
<1> SUFFICES ASSUME NEW f \in Files, Kept(f)' PROVE Whole(f)'
  BY DEF KeptWhole
<1>1. CASE UNCHANGED <<datamap, doomed, store>>
  <2>1. Kept(f)
    BY <1>1 DEF Kept, Exists
  <2>2. QED
    BY <1>1, <2>1, WholeStays DEF KeptWhole
<1>2. CASE UNCHANGED vars
  BY <1>1, <1>2 DEF vars, disk
<1>3. CASE Environment
  BY <1>1, <1>3, EnvironmentQuiet
<1>4. CASE Process
  <2>1. CASE f = target
    BY <1>4, <2>1, TargetKept
  <2>2. CASE f # target
    <3>1. Untouched(f)
      BY <1>4, <2>2, OthersUntouched
    <3>2. Kept(f)
      BY <3>1 DEF Kept, Exists, Untouched
    <3>3. QED
      BY <3>1, <3>2, WholeStays DEF KeptWhole, Untouched
  <2>3. QED
    BY <2>1, <2>2
<1>5. QED
  BY <1>2, <1>3, <1>4 DEF Seeing

-----------------------------------------------------------------------------

(* What UploadSafe says holds of every process that is not uploading.      *)
LEMMA NotUploading ==
    ASSUME pc' \notin {"hash", "makemap", "upload", "stat"}
    PROVE  UploadSafe'
BY DEF UploadSafe, HashSafe, MapSafe, CopySafe, StatSafe

(* createHashNames: DoEncode to MakeDataMap.                               *)
LEMMA EncodeSafe ==
    ASSUME TypeOK, UploadSafe,
           \/ DoEncode \/ createHashNames_End
           \/ \E s \in Shards : ConvertFileNameForUP(s)
    PROVE  UploadSafe'
<1> USE DEF disk, world
<1>0. /\ target \in Files /\ encNext \in Nat /\ errs \in BOOLEAN
      /\ hashed \in Dir /\ plain \in Dir /\ phase \in [Shards -> Phases]
  BY DEF TypeOK, Dir
<1>1. CASE DoEncode
  <2>1. CASE pc' = "idle"
    BY <2>1, NotUploading
  <2>2. CASE /\ encNext' = encNext + 1
             /\ plain' = [plain EXCEPT ![target] = AllShards(encNext + 1)]
             /\ pc' = "hash" /\ UNCHANGED target
             /\ phase' = AllShards("hash")
    <3>1. \A s \in Shards : plain'[target][s] = encNext'
      BY <1>0, <2>2 DEF AllShards, Dir
    <3>2. \A s \in Shards : phase'[s] = "hash"
      BY <2>2 DEF AllShards
    <3>3. QED
      BY <2>2, <3>1, <3>2 DEF UploadSafe, HashSafe, MapSafe, CopySafe, StatSafe
  <2>3. QED
    BY <1>1, <2>1, <2>2 DEF DoEncode, Finish, StartPool
<1>2. CASE createHashNames_End
  <2>1. CASE pc' = "idle"
    BY <2>1, NotUploading
  <2>2. CASE ~errs /\ pc' = "makemap"
             /\ UNCHANGED <<target, hashed, encNext>>
    <3>1. \A s \in Shards : hashed[target][s] \in {Absent, encNext}
      BY <1>2, <2>2 DEF createHashNames_End, PoolDone, UploadSafe, HashSafe
    <3>2. QED
      BY <2>2, <3>1 DEF UploadSafe, HashSafe, MapSafe, CopySafe, StatSafe
  <2>3. QED
    BY <1>2, <2>1, <2>2 DEF createHashNames_End, Finish, Goto
<1>3. ASSUME NEW s \in Shards, ConvertFileNameForUP(s) PROVE UploadSafe'
  <2>1. pc = "hash" /\ phase[s] = "hash" /\ UNCHANGED <<pc, target, encNext>>
    BY <1>3 DEF ConvertFileNameForUP, Step, StepError
  <2>2. plain[target][s] \in {Absent, encNext} /\ plain[target][s] \in Contents
    BY <1>0, <2>1 DEF UploadSafe, HashSafe, Dir
  <2>3. CASE /\ hashed' = Write(hashed, target, s, plain[target][s])
             /\ plain'  = Write(plain, target, s, Absent)
             /\ Step(s, "done")
    <3>1. /\ hashed'[target][s] \in {Absent, encNext}
          /\ \A t \in Shards : t # s =>
                /\ hashed'[target][t] = hashed[target][t]
                /\ plain'[target][t] = plain[target][t]
      <4>1. /\ hashed'[target][s] = plain[target][s]
            /\ \A t \in Shards : t # s =>
                  hashed'[target][t] = hashed[target][t]
        BY <1>0, <2>2, <2>3, WriteEffect
      <4>2. \A t \in Shards : t # s => plain'[target][t] = plain[target][t]
        BY <1>0, <2>3, WriteEffect, ContentsType
      <4>3. QED
        BY <2>2, <4>1, <4>2
    <3>2. /\ phase'[s] = "done" /\ (errs' <=> errs)
          /\ \A t \in Shards : t # s => phase'[t] = phase[t]
      BY <1>0, <2>3 DEF Step
    <3>3. HashSafe'
      BY <2>1, <3>1, <3>2 DEF UploadSafe, HashSafe
    <3>4. QED
      BY <2>1, <3>3 DEF UploadSafe, MapSafe, CopySafe, StatSafe
  <2>4. CASE StepError(s) /\ UNCHANGED <<hashed, plain>>
    <3>1. /\ phase'[s] = "done" /\ errs'
          /\ \A t \in Shards : t # s => phase'[t] = phase[t]
      BY <1>0, <2>4 DEF StepError
    <3>2. HashSafe'
      BY <2>1, <2>4, <3>1 DEF UploadSafe, HashSafe
    <3>3. QED
      BY <2>1, <3>2 DEF UploadSafe, MapSafe, CopySafe, StatSafe
  <2>5. QED
    BY <1>3, <2>3, <2>4 DEF ConvertFileNameForUP
<1>4. QED
  BY <1>1, <1>2, <1>3

(* A goroutine leaves what its siblings have done.                         *)
LEMMA SiblingSafe ==
    ASSUME TypeOK, NEW t \in Shards, CopyShard(t),
           UNCHANGED <<target, pc>>,
           phase'[t] = phase[t], dst'[t] = dst[t],
           errs => errs',
           hashed'[target][t] = hashed[target][t],
           \A r \in Remotes : store'[r][target][t] = store[r][target][t],
           datamap'[target].Enc = datamap[target].Enc,
           datamap'[target].Remote[t] = datamap[target].Remote[t]
    PROVE  CopyShard(t)'
<1>1. /\ target \in Files /\ dst[t] \in Remotes \cup {NoRemote}
      /\ datamap \in DataMaps /\ errs \in BOOLEAN
  BY DEF TypeOK
<1>2. datamap[target].Remote[t] \in Remotes \cup {NoRemote}
  BY <1>1, EntryType
<1>3. ShardStored(t) => ShardStored(t)'
  BY <1>1, <1>2 DEF ShardStored
<1>4. QED
  BY <1>1, <1>3 DEF CopyShard

(* The upload goroutines: each brings its shard to the remote it was       *)
(* given, records that remote, and only then counts as done.               *)
LEMMA GoroutineSafe ==
    ASSUME TypeOK, UploadSafe, Quiet', NEW s \in Shards,
           \/ AllocateRemote(s) \/ uploadFile(s)
           \/ updateRemoteInfo_Up(s) \/ EraseTempShard(s)
    PROVE  UploadSafe'
<1> USE DEF disk, world
<1>0. /\ target \in Files /\ datamap \in DataMaps /\ errs \in BOOLEAN
      /\ hashed \in Dir /\ store \in [Remotes -> Dir]
      /\ phase \in [Shards -> Phases]
      /\ dst \in [Shards -> Remotes \cup {NoRemote}]
      /\ faults \in [FaultKinds -> Nat]
  BY DEF TypeOK, Dir
<1>1. pc = "upload" /\ UNCHANGED <<pc, target>>
  BY DEF AllocateRemote, uploadFile, updateRemoteInfo_Up, EraseTempShard,
     Step, StepError
<1>2. \A t \in Shards : CopyShard(t)
  BY <1>1 DEF UploadSafe, CopySafe
<1>3. SUFFICES ASSUME NEW t \in Shards PROVE CopyShard(t)'
  BY <1>1 DEF UploadSafe, HashSafe, MapSafe, CopySafe, StatSafe
<1>4. CASE AllocateRemote(s)
  <2>1. UNCHANGED <<datamap, store, hashed>>
    BY <1>4 DEF AllocateRemote
  <2>2. CASE t # s
    <3>1. phase'[t] = phase[t] /\ dst'[t] = dst[t] /\ (errs => errs')
      BY <1>0, <1>4, <2>2 DEF AllocateRemote
    <3>2. QED
      BY <1>1, <1>2, <2>1, <3>1, SiblingSafe
  <2>3. CASE t = s
    <3>1. \/ phase'[s] = "copy" /\ dst'[s] \in Remotes
          \/ phase'[s] = "stuck"
      BY <1>0, <1>4 DEF AllocateRemote
    <3>2. QED
      BY <1>1, <1>2, <2>1, <2>3, <3>1 DEF CopyShard
  <2>4. QED
    BY <2>2, <2>3
<1>5. CASE uploadFile(s)
  <2>0. phase[s] = "copy" /\ dst[s] \in Remotes /\ UNCHANGED <<datamap, hashed>>
    BY <1>2, <1>5 DEF uploadFile, CopyShard
  <2>1. CASE StepError(s) /\ UNCHANGED store
    <3>1. CASE t # s
      <4>1. phase'[t] = phase[t] /\ dst'[t] = dst[t] /\ errs'
        BY <1>0, <2>1, <3>1 DEF StepError
      <4>2. QED
        BY <1>1, <1>2, <2>0, <2>1, <4>1, SiblingSafe
    <3>2. CASE t = s
      <4>1. phase'[s] = "done" /\ errs'
        BY <1>0, <2>1 DEF StepError
      <4>2. QED
        BY <1>1, <1>2, <2>0, <3>2, <4>1 DEF CopyShard
    <3>3. QED
      BY <3>1, <3>2
  <2>2. CASE /\ store' = Put(store, dst[s], target, s, hashed[target][s])
             /\ hashed[target][s] # Absent
             /\ Step(s, "record")
    <3>1. hashed[target][s] \in Contents
      BY <1>0 DEF Dir
    <3>2. /\ store'[dst[s]][target][s] = hashed[target][s]
          /\ \A q \in Remotes, u \in Shards :
                u # s => store'[q][target][u] = store[q][target][u]
      BY <1>0, <2>0, <2>2, <3>1, PutEffect
    <3>3. /\ phase'[s] = "record" /\ UNCHANGED dst /\ (errs' <=> errs)
          /\ \A u \in Shards : u # s => phase'[u] = phase[u]
      BY <1>0, <2>2 DEF Step
    <3>4. CASE t # s
      BY <1>1, <1>2, <2>0, <3>2, <3>3, <3>4, SiblingSafe
    <3>5. CASE t = s
      BY <1>1, <1>2, <2>0, <2>2, <3>2, <3>3, <3>5 DEF CopyShard
    <3>6. QED
      BY <3>4, <3>5
  <2>3. CASE Fault("silent")
    <3>1. "silent" \in FaultKinds
      BY DEF FaultKinds
    <3>2. QED
      BY <1>0, <2>3, <3>1, FaultsGrow
  <2>4. QED
    BY <1>5, <2>1, <2>2, <2>3 DEF uploadFile
<1>6. CASE /\ updateRemoteInfo_Up(s)
           /\ datamap' = UpdateDistributedFile_CheckFlagAndRemote(
                             datamap, target, s, dst[s])
  <2>1. phase[s] = "record" /\ UNCHANGED <<store, hashed>>
    BY <1>6 DEF updateRemoteInfo_Up
  <2>2. /\ dst[s] \in Remotes
        /\ store[dst[s]][target][s] = datamap[target].Enc
    BY <1>2, <2>1 DEF CopyShard
  <2>3. /\ datamap'[target].Enc = datamap[target].Enc
        /\ datamap'[target].Remote[s] = dst[s]
        /\ \A u \in Shards : u # s =>
              datamap'[target].Remote[u] = datamap[target].Remote[u]
    BY <1>0, <1>6, <2>2, CheckFlagAndRemoteEffect
  <2>4. /\ phase'[s] \in {"erase", "done"} /\ UNCHANGED dst
        /\ errs => errs'
        /\ \A u \in Shards : u # s => phase'[u] = phase[u]
    BY <1>0, <1>6 DEF updateRemoteInfo_Up, Step, StepError
  <2>5. CASE t # s
    BY <1>1, <1>2, <2>1, <2>3, <2>4, <2>5, SiblingSafe
  <2>6. CASE t = s
    <3>1. ShardStored(s)'
      BY <1>1, <2>1, <2>2, <2>3, NoRemoteAssumption DEF ShardStored
    <3>2. QED
      BY <1>1, <1>2, <2>1, <2>3, <2>4, <2>6, <3>1 DEF CopyShard
  <2>7. QED
    BY <2>5, <2>6
<1>f. CASE updateRemoteInfo_Up(s) /\ UNCHANGED datamap
  <2>0. phase[s] = "record" /\ UNCHANGED <<store, hashed>>
    BY <1>f DEF updateRemoteInfo_Up
  <2>1. CASE t # s
    <3>1. phase'[t] = phase[t] /\ dst'[t] = dst[t] /\ (errs => errs')
      BY <1>0, <1>f, <2>1 DEF updateRemoteInfo_Up, Step, StepError
    <3>2. QED
      BY <1>1, <1>2, <1>f, <2>0, <3>1, SiblingSafe
  <2>2. CASE t = s /\ StepError(s)
    <3>1. phase'[s] = "done" /\ errs'
      BY <1>0, <2>2 DEF StepError
    <3>2. QED
      BY <1>1, <1>2, <1>f, <2>0, <2>2, <3>1 DEF CopyShard
  <2>3. CASE t = s /\ datamap' = UpdateDistributedFile_CheckFlagAndRemote(
                                     datamap, target, s, dst[s])
    BY <1>6, <1>f, <2>3
  <2>4. QED
    BY <1>f, <2>1, <2>2, <2>3 DEF updateRemoteInfo_Up
<1>7. CASE EraseTempShard(s)
  <2>1. /\ phase[s] = "erase" /\ UNCHANGED <<datamap, store>>
        /\ hashed' = Write(hashed, target, s, Absent)
        /\ Step(s, "done")
    BY <1>7 DEF EraseTempShard
  <2>2. /\ hashed'[target][s] = Absent
        /\ \A u \in Shards : u # s => hashed'[target][u] = hashed[target][u]
    BY <1>0, <2>1, WriteEffect, ContentsType
  <2>3. /\ phase'[s] = "done" /\ UNCHANGED dst /\ (errs' <=> errs)
        /\ \A u \in Shards : u # s => phase'[u] = phase[u]
    BY <1>0, <2>1 DEF Step
  <2>4. CASE t # s
    BY <1>1, <1>2, <2>1, <2>2, <2>3, <2>4, SiblingSafe
  <2>5. CASE t = s
    <3>1. ShardStored(s)'
      BY <1>1, <1>2, <2>1 DEF CopyShard, ShardStored
    <3>2. QED
      BY <1>1, <2>2, <2>3, <2>5, <3>1 DEF CopyShard
  <2>6. QED
    BY <2>4, <2>5
<1>8. QED
  BY <1>4, <1>5, <1>6, <1>f, <1>7 DEF updateRemoteInfo_Up

(* Every step without a fault of a remote keeps UploadSafe.                *)
LEMMA UploadSafeStep ==
    ASSUME TypeOK, FlagInv, UploadSafe, [Seeing]_vars, Quiet'
    PROVE  UploadSafe'
<1> USE DEF disk, world
<1>0. /\ target \in Files /\ encNext \in Nat /\ datamap \in DataMaps
      /\ ret \in {"done", "main", "encode"}
  BY DEF TypeOK
<1>1. CASE UNCHANGED <<datamap, store, hashed, plain, encNext, proc>>
  BY <1>1 DEF proc, UploadSafe, HashSafe, MapSafe, CopySafe, CopyShard,
     StatSafe, ShardStored
<1>2. CASE UNCHANGED vars
  BY <1>1, <1>2 DEF vars
<1>3. CASE CheckState
  <2>1. pc' \in {"main", "rmNew", "dumpReset", "rmResume"}
    BY <1>3 DEF CheckState, CheckState_Clean, DumpReset, DumpUploadState,
       DumpDownloadState, DumpRmState, Goto
  <2>2. QED
    BY <2>1, NotUploading
<1>4. CASE UploadStep
  <2>1. CASE Dis_Upload \/ UploadFinish
    <3>1. pc' \in {"idle", "encode", "rmNew"}
      BY <2>1 DEF Dis_Upload, UploadFinish, Finish, Goto
    <3>2. QED
      BY <3>1, NotUploading
  <2>2. CASE StartUpload
    <3>1. CASE pc' = "idle"
      BY <3>1, NotUploading
    <3>2. CASE /\ datamap' = MakeDataMap(datamap, target, encNext)
               /\ pc' = "upload" /\ phase' = AllShards("alloc")
               /\ UNCHANGED <<target, hashed>>
      <4>1. datamap'[target].Enc = encNext
        BY <1>0, <3>2, MakeDataMapEffect
      <4>2. \A s \in Shards : phase'[s] = "alloc"
        BY <3>2 DEF AllShards
      <4>3. \A s \in Shards : hashed[target][s] \in {Absent, encNext}
        BY <2>2 DEF StartUpload, UploadSafe, MapSafe
      <4>4. \A s \in Shards : CopyShard(s)'
        BY <3>2, <4>1, <4>2, <4>3 DEF CopyShard
      <4>5. QED
        BY <3>2, <4>4 DEF UploadSafe, HashSafe, MapSafe, CopySafe, StatSafe
    <3>3. QED
      BY <2>2, <3>1, <3>2 DEF StartUpload, StartPool, Finish
  <2>3. CASE UploadWait
    <3>1. CASE pc' = "idle"
      BY <3>1, NotUploading
    <3>2. CASE ~errs /\ pc' = "stat" /\ UNCHANGED <<target, datamap, store>>
      <4>1. \A s \in Shards : ShardStored(s)
        BY <2>3, <3>2 DEF UploadWait, PoolDone, UploadSafe, CopySafe, CopyShard
      <4>2. QED
        BY <3>2, <4>1 DEF UploadSafe, HashSafe, MapSafe, CopySafe, StatSafe,
           ShardStored
    <3>3. QED
      BY <2>3, <3>1, <3>2 DEF UploadWait, Finish, Goto
  <2>4. QED
    BY <1>4, <2>1, <2>2, <2>3, EncodeSafe, GoroutineSafe DEF UploadStep
<1>5. CASE DownloadStep
  <2>1. pc' \in {"idle", "download", "decode", "ask", "reset", "clean",
                 "rmNew"}
    BY <1>5 DEF DownloadStep, Dis_Download, DownloadWait, DoDecode,
       DoDecode_NoDestination, DoDecode_TooFewShards, DoDecode_Restored,
       DoDecode_WrongPassword, DoDecode_Mixed, AskRemove, DownloadReset,
       DownloadClean, downloadFile, FetchedNothing, ConvertFileNameForDo,
       updateRemoteInfo_Down, Finish, Goto, Step
  <2>2. QED
    BY <2>1, NotUploading
<1>6. CASE RmStep
  <2>1. pc' \in {"idle", "main", "encode", "rmNew", "rm", "drop"}
    BY <1>0, <1>6 DEF RmStep, Dis_rm, RmNew, RmResume, RmWait, RmDrop,
       remoteCallDeleteFile, MarkRemoved, Finish, Goto, Step, StepError
  <2>2. QED
    BY <2>1, NotUploading
<1>7. CASE Environment
  <2>1. UNCHANGED <<datamap, encNext, store>>
    BY <1>7, EnvironmentQuiet
  <2>2. CASE pc' \in {"check", "idle"}
    BY <2>2, NotUploading
  <2>3. CASE cleanShardFolderOnExit
    <3>1. /\ \A s \in Shards : hashed'[target][s] = Absent
          /\ \A s \in Shards : plain'[target][s] = Absent
          /\ UNCHANGED proc
      BY <1>0, <2>3 DEF cleanShardFolderOnExit, AllShards
    <3>2. HashSafe' /\ MapSafe'
      BY <3>1 DEF proc, UploadSafe, HashSafe, MapSafe
    <3>3. CopySafe' /\ StatSafe'
      BY <2>1, <3>1 DEF proc, UploadSafe, CopySafe, CopyShard, StatSafe,
         ShardStored
    <3>4. QED
      BY <3>2, <3>3 DEF UploadSafe
  <2>4. CASE UNCHANGED <<hashed, plain, proc>>
    BY <1>1, <2>1, <2>4
  <2>5. QED
    BY <1>7, <2>2, <2>3, <2>4 DEF Environment, Start, Crash, Finish,
       MoveSource, LoseObject, DamageObject
<1>8. CASE EarlyReturn
  BY <1>8, EarlyReturnEnds, NotUploading DEF Finish
<1>9. QED
  BY <1>2, <1>3, <1>4, <1>5, <1>6, <1>7, <1>8 DEF Seeing, Process

(* ModeInv holds throughout, as long as datamap.json was never hidden.     *)
LEMMA ModeHolds == Spec => [](Sighted => ModeInv)
<1>1. Init => ModeInv
  <2> SUFFICES ASSUME Init PROVE ModeInv
    OBVIOUS
  <2>0. datamap = EmptyMap
    BY DEF Init
  <2>1. \A f \in Files : ~datamap[f].Flag
    BY <2>0, EmptyMapBlank, Zenon
  <2>2. QED
    BY <2>1 DEF Init, ModeInv, RemovalDoomed, StateFits
<1>2. /\ TypeOK /\ WindowInv /\ [Next]_vars
      /\ Sighted => FlagInv
      /\ Sighted => ModeInv
      => (Sighted => ModeInv)'
  BY SightedStep, ModeStep
<1>3. QED
  BY <1>1, <1>2, TypeCorrect, WindowHolds, FlagHolds, PTL DEF Spec

(* For every number of files, shards, remotes, encodings and faults: while *)
(* the remotes keep what they acknowledged, CheckState can read the map    *)
(* and the window is not closed under a command, every shard of an uploaded*)
(* file is on the remote that datamap.json names, with the content of that *)
(* upload, until the removal of that very file begins.                     *)
THEOREM StoredStaysWhole == Spec => []StoredWhole
<1>1. Init => StoredInv
  <2> SUFFICES ASSUME Init PROVE StoredInv
    OBVIOUS
  <2>0. datamap = EmptyMap
    BY DEF Init
  <2>1. \A f \in Files : ~Exists(datamap, f)
    BY <2>0, EmptyMapBlank, Zenon
  <2>2. pc = "idle"
    BY DEF Init
  <2>3. UploadSafe
    BY <2>2 DEF UploadSafe, HashSafe, MapSafe, CopySafe, StatSafe
  <2>4. KeptWhole
    BY <2>1 DEF KeptWhole, Kept
  <2>5. QED
    BY <2>3, <2>4 DEF StoredInv
<1>2. /\ TypeOK /\ WindowInv /\ StoredInv /\ [Next]_vars
      /\ Sighted => FlagInv
      /\ Sighted => ModeInv
      => StoredInv'
  <2> SUFFICES ASSUME TypeOK, WindowInv, Sighted => FlagInv,
                      Sighted => ModeInv, StoredInv, [Next]_vars, Quiet'
               PROVE  UploadSafe' /\ KeptWhole'
    BY DEF StoredInv
  <2>1. UploadSafe /\ KeptWhole
    BY QuietBefore DEF StoredInv
  <2>2. Sighted'
    BY DEF Quiet, Sighted, Never
  <2>3. QED
    BY <2>1, <2>2, SightedStep, UploadSafeStep, KeptStep
<1>3. StoredInv => StoredWhole
  BY DEF StoredInv, KeptWhole, StoredWhole, Quiet
<1>4. QED
  BY <1>1, <1>2, <1>3, TypeCorrect, WindowHolds, FlagHolds, ModeHolds, PTL
  DEF Spec

=============================================================================
