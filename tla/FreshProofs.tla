---------------------------- MODULE FreshProofs ----------------------------
(***************************************************************************)
(* The proofs that no shard of an earlier upload is ever used              *)
(* (LocalFresh), that a download which reports success has restored the    *)
(* file (DownloadSound), that every object on a remote is known to the     *)
(* datamap (NoOrphan), and that the store implements the Shelf (OnShelf),  *)
(* for every instance of DisStore.                                         *)
(*                                                                         *)
(* The argument.  What the shard directory and the remotes hold of a file  *)
(* in the datamap is nothing or its newest encoding (AllFresh).  A new     *)
(* entry is made only after DoEncode and createHashNames have replaced     *)
(* every file that an earlier upload left (CutFresh), while the name has   *)
(* no entry (PathInv); a remote is recorded only after this upload's shard *)
(* was copied there (SentFresh); and a download copies from the remotes of *)
(* the entry.  So DoDecode never sees a mixture, and what it restores is   *)
(* the encoding of the entry (RestoredOut).                                *)
(*                                                                         *)
(* For the Shelf, what is delivered must be the upload that counts.  The   *)
(* entries have encodings of their own, no two alike (Numbered), and those *)
(* of uploads that count have all their remotes recorded (RemotesKnown).   *)
(* The entry of a removal that a death interrupted may stay and be         *)
(* downloaded, although it no longer counts: its objects are gone, and what *)
(* the shard directory holds of it is too little for DoDecode or of the    *)
(* upload that was delivered before (GhostsOnly).  That it was so of every *)
(* entry when the process died needs LocalHarmless, and Emptied for what   *)
(* renaming and erasing leave.  As long as the window is not closed under  *)
(* a command, password.txt stays the same (KeysHold), so that a decoding   *)
(* of enough shards does deliver.                                          *)
(*                                                                         *)
(* NoOrphan and OnShelf need the calls on datamap.json to succeed: without *)
(* a failing one no command returns early and every record is made         *)
(* (NoFailure, from the entries that RmEntry keeps for the removals).      *)
(***************************************************************************)
EXTENDS DisStoreProofs

(* No object was damaged, no inner command failed silently and datamap.json*)
(* was never hidden so far.                                                *)
Calm == Never({"damage", "silent"} \cup Blinding)

(* Where the process is, and what it has made sure of on the way there.    *)
PathInv ==
    /\ ret = "encode" => pc \in {"rmNew", "rm", "drop"} /\ target = cmd.file
    /\ pc \in {"encode", "hash", "makemap"} => ~Exists(datamap, target)
    /\ pc = "rmNew" => Exists(datamap, target)
    /\ pc = "download" => dst = datamap[target].Remote
    /\ pc \in {"download", "decode", "ask", "reset", "clean"} =>
          target = cmd.file
    /\ report = "downloaded" => pc \in {"clean", "idle"}
    /\ DestReady => destDir

(* No local file and no recorded object of f is of an earlier upload.      *)
FreshShard(f, s) ==
    /\ hashed[f][s] \in {Absent, datamap[f].Enc}
    /\ plain[f][s]  \in {Absent, datamap[f].Enc}
    /\ datamap[f].Remote[s] # NoRemote =>
          store[datamap[f].Remote[s]][f][s] \in {Absent, datamap[f].Enc}

AllFresh ==
    \A f \in Files, s \in Shards : Exists(datamap, f) => FreshShard(f, s)

(* DoEncode to MakeDataMap: what was there before gives way, shard by      *)
(* shard, to the newest encoding.                                          *)
CutShard(s) ==
    /\ plain[target][s] \in {Absent, encNext}
    /\ pc = "hash" /\ phase[s] # "hash" /\ ~errs =>
          hashed[target][s] \in {Absent, encNext}
    /\ pc = "makemap" => hashed[target][s] \in {Absent, encNext}

CutFresh == pc \in {"hash", "makemap"} => \A s \in Shards : CutShard(s)

(* A goroutine of an upload records a remote it has copied its shard to.   *)
SentShard(s) ==
    /\ phase[s] \in {"copy", "record"} => dst[s] \in Remotes
    /\ phase[s] = "record" =>
          store[dst[s]][target][s] \in {Absent, datamap[target].Enc}

SentFresh == pc = "upload" => \A s \in Shards : SentShard(s)

(* A decoding that is not reported as a failure has restored the entry's   *)
(* encoding.                                                               *)
RestoredOut ==
    DestReady =>
        /\ pc = "reset" => out[target] = datamap[target].Enc
        /\ report = "downloaded" => out[cmd.file] = datamap[cmd.file].Enc

FreshInv ==
    /\ Sighted => PathInv
    /\ Calm => AllFresh /\ CutFresh /\ SentFresh /\ RestoredOut

-----------------------------------------------------------------------------
(* The process' path.                                                      *)

(* A step that does not hide datamap.json is a step.                       *)
LEMMA SeeingNext == [Seeing]_vars => [Next]_vars
BY DEF Next

(* Where early returns happen.                                             *)
LEMMA EarlyFrom ==
    ASSUME EarlyReturn
    PROVE  pc \in {"check", "dumpReset", "main", "makemap", "stat", "download",
                   "reset", "rmNew", "rmResume", "rm", "drop"}
BY DEF EarlyReturn, CheckState_Fails, Dis_Upload_Fails, Dis_Download_Fails,
   Dis_rm_Fails, Dis_Download_Unlisted, RmNew_Unlisted

(* An early return keeps every entry, but for its flag and state.          *)
LEMMA EarlyMap ==
    ASSUME TypeOK, EarlyReturn, NEW f \in Files
    PROVE  /\ Exists(datamap', f) <=> Exists(datamap, f)
           /\ datamap'[f].Enc = datamap[f].Enc
           /\ datamap'[f].Remote = datamap[f].Remote
<1>0. /\ datamap \in DataMaps /\ target \in Files /\ cmd.file \in Files
      /\ "download" \in States /\ "rm" \in States
      /\ "absent" # "download" /\ "absent" # "rm"
  BY DEF TypeOK, States, Commands
<1>1. CASE UNCHANGED datamap
  BY <1>1 DEF Exists
<1>2. CASE Dis_Download_Unlisted
  <2>1. CASE f = cmd.file
    BY <1>0, <1>2, <2>1, UpdateFileFlagEffect
    DEF Dis_Download_Unlisted, Exists
  <2>2. CASE f # cmd.file
    BY <1>0, <1>2, <2>2, UpdateFileFlagEffect
    DEF Dis_Download_Unlisted, Exists
  <2>3. QED
    BY <2>1, <2>2
<1>3. CASE RmNew_Unlisted
  <2>1. CASE f = target
    BY <1>0, <1>3, <2>1, UpdateFileFlagEffect DEF RmNew_Unlisted, Exists
  <2>2. CASE f # target
    BY <1>0, <1>3, <2>2, UpdateFileFlagEffect DEF RmNew_Unlisted, Exists
  <2>3. QED
    BY <2>1, <2>2
<1>4. QED
  BY <1>1, <1>2, <1>3, EarlyReturnEnds

(* CheckState keeps PathInv.                                               *)
LEMMA PathCheckState ==
    TypeOK /\ FlagInv /\ PathInv /\ CheckState => PathInv'
<1> SUFFICES ASSUME TypeOK, FlagInv, PathInv, CheckState PROVE PathInv'
  OBVIOUS
<1> USE DEF disk, world
<1>1. CASE CheckState_Clean \/ DumpReset
  BY <1>1 DEF CheckState_Clean, DumpReset, Goto, PathInv
<1>2. ASSUME NEW f \in Files, DumpUploadState(f) PROVE PathInv'
  BY <1>2 DEF DumpUploadState, PathInv, Exists
<1>3. ASSUME NEW f \in Files, DumpDownloadState(f) \/ DumpRmState(f)
      PROVE  PathInv'
  BY <1>3 DEF DumpDownloadState, DumpRmState, PathInv
<1>4. QED
  BY <1>1, <1>2, <1>3 DEF CheckState

(* Dis_Upload keeps PathInv.                                               *)
LEMMA PathUpload == TypeOK /\ FlagInv /\ PathInv /\ UploadStep => PathInv'
<1> SUFFICES ASSUME TypeOK, FlagInv, PathInv, UploadStep PROVE PathInv'
  OBVIOUS
<1> USE DEF disk, world
<1>1. CASE Dis_Upload
  BY <1>1 DEF Dis_Upload, Finish, Goto, PathInv, FlagInv, Exists
<1>2. CASE DoEncode
  BY <1>2 DEF DoEncode, Finish, StartPool, PathInv, Exists
<1>3. CASE createHashNames_End \/ UploadWait
  BY <1>3 DEF createHashNames_End, UploadWait, Finish, Goto, PathInv, Exists
<1>4. CASE StartUpload \/ UploadFinish
  BY <1>4 DEF StartUpload, UploadFinish, Finish, StartPool, PathInv
<1>5. ASSUME NEW s \in Shards,
             \/ ConvertFileNameForUP(s) \/ AllocateRemote(s) \/ uploadFile(s)
             \/ EraseTempShard(s)
      PROVE  PathInv'
  <2>1. /\ UNCHANGED <<pc, cmd, target, ret, report, destDir, datamap>>
        /\ pc \in {"hash", "upload"}
    BY <1>5 DEF ConvertFileNameForUP, AllocateRemote, uploadFile,
       EraseTempShard, Step, StepError
  <2>2. QED
    BY <2>1 DEF PathInv, Exists
<1>6. ASSUME NEW s \in Shards, updateRemoteInfo_Up(s) PROVE PathInv'
  BY <1>6 DEF updateRemoteInfo_Up, Step, StepError, PathInv
<1>7. QED
  BY <1>1, <1>2, <1>3, <1>4, <1>5, <1>6 DEF UploadStep

(* Dis_Download keeps PathInv.                                             *)
LEMMA PathDownload ==
    TypeOK /\ FlagInv /\ ModeInv /\ PathInv /\ DownloadStep => PathInv'
<1> SUFFICES ASSUME TypeOK, FlagInv, ModeInv, PathInv, DownloadStep
             PROVE  PathInv'
  OBVIOUS
<1> USE DEF disk, world
<1>0. datamap \in DataMaps /\ target \in Files
  BY DEF TypeOK
<1>1. CASE Dis_Download
  <2>1. pc = "main" /\ target = cmd.file
    BY <1>1 DEF Dis_Download, FlagInv
  <2>2. CASE Finish("error") /\ UNCHANGED <<datamap, destDir>>
    BY <2>2 DEF Finish, PathInv
  <2>3. CASE /\ datamap' = UpdateFileFlag(datamap, cmd.file, "download")
             /\ pc' = "download" /\ dst' = datamap[cmd.file].Remote
             /\ UNCHANGED <<cmd, target, ret, report, destDir>>
    <3>1. "download" \in States
      BY DEF States
    <3>2. datamap'[target].Remote = datamap[target].Remote
      BY <1>0, <2>1, <2>3, <3>1, UpdateFileFlagEffect
    <3>3. QED
      BY <2>1, <2>3, <3>2 DEF PathInv
  <2>4. QED
    BY <1>1, <2>2, <2>3 DEF Dis_Download, StartPool
<1>2. CASE DownloadWait
  BY <1>2 DEF DownloadWait, Goto, PathInv
<1>3. CASE DoDecode
  <2>1. /\ pc = "decode" /\ pc' \in {"reset", "ask"}
        /\ UNCHANGED <<cmd, target, ret, report, datamap>>
        /\ destDir => destDir'
    BY <1>3 DEF DoDecode, DoDecode_NoDestination, DoDecode_TooFewShards,
       DoDecode_Restored, DoDecode_WrongPassword, DoDecode_Mixed, Goto
  <2>2. QED
    BY <2>1 DEF PathInv
<1>4. CASE AskRemove
  <2>1. Exists(datamap, target)
    BY <1>4 DEF AskRemove, ModeInv, StateFits, Exists
  <2>2. QED
    BY <1>4, <2>1 DEF AskRemove, Goto, Finish, PathInv, Exists
<1>5. CASE DownloadReset \/ DownloadClean
  BY <1>5 DEF DownloadReset, DownloadClean, Finish, PathInv
<1>6. ASSUME NEW s \in Shards, downloadFile(s) \/ ConvertFileNameForDo(s)
      PROVE  PathInv'
  <2>1. UNCHANGED <<datamap, destDir>>
    BY <1>6 DEF downloadFile, ConvertFileNameForDo
  <2>2. \/ UNCHANGED <<pc, cmd, target, ret, report, dst>>
        \/ Finish("died")
    BY <1>6 DEF downloadFile, ConvertFileNameForDo, FetchedNothing, Step
  <2>3. QED
    BY <2>1, <2>2 DEF Finish, PathInv, Exists
<1>7. ASSUME NEW s \in Shards, updateRemoteInfo_Down(s) PROVE PathInv'
  <2>1. datamap'[target].Remote = datamap[target].Remote
    <3>1. CASE UNCHANGED datamap
      BY <3>1
    <3>2. CASE datamap' = UpdateDistributedFile_CheckFlag(datamap, target, s)
      BY <1>0, <3>2, CheckFlagEffect
    <3>3. QED
      BY <1>7, <3>1, <3>2 DEF updateRemoteInfo_Down
  <2>2. /\ pc = "download"
        /\ UNCHANGED <<pc, cmd, target, ret, report, dst, destDir>>
    BY <1>7 DEF updateRemoteInfo_Down, Step
  <2>3. QED
    BY <2>1, <2>2 DEF PathInv
<1>8. QED
  BY <1>1, <1>2, <1>3, <1>4, <1>5, <1>6, <1>7 DEF DownloadStep

(* Dis_rm keeps PathInv.                                                   *)
LEMMA PathRm == TypeOK /\ FlagInv /\ PathInv /\ RmStep => PathInv'
<1> SUFFICES ASSUME TypeOK, FlagInv, PathInv, RmStep PROVE PathInv'
  OBVIOUS
<1> USE DEF disk, world
<1>0. /\ datamap \in DataMaps /\ target \in Files
      /\ ret \in {"done", "main", "encode"}
  BY DEF TypeOK
<1>1. CASE Dis_rm
  BY <1>1 DEF Dis_rm, Finish, Goto, PathInv, FlagInv, Exists
<1>2. CASE RmNew \/ RmResume
  BY <1>2 DEF RmNew, RmResume, StartPool, PathInv
<1>3. CASE RmWait
  BY <1>3 DEF RmWait, Goto, PathInv
<1>4. CASE RmDrop
  <2>1. CASE Finish("removed")
    BY <1>4, <2>1 DEF RmDrop, Finish, PathInv
  <2>2. CASE /\ pc' = ret /\ ret # "done" /\ target' = cmd.file /\ ret' = "done"
             /\ UNCHANGED <<cmd, report, destDir>>
    <3>1. ret = "encode" => ~Exists(datamap', target')
      <4>1. ret = "encode" => target' = target
        BY <2>2 DEF PathInv
      <4>2. datamap'[target].State = "absent"
        BY <1>0, <1>4, RemoveEffect DEF RmDrop
      <4>3. QED
        BY <4>1, <4>2 DEF Exists
    <3>2. pc = "drop"
      BY <1>4 DEF RmDrop
    <3>3. QED
      BY <1>0, <2>2, <3>1, <3>2 DEF PathInv, Exists
  <2>3. QED
    BY <1>4, <2>1, <2>2 DEF RmDrop
<1>5. ASSUME NEW s \in Shards, remoteCallDeleteFile(s) \/ MarkRemoved(s)
      PROVE  PathInv'
  BY <1>5 DEF remoteCallDeleteFile, MarkRemoved, Step, StepError, PathInv
<1>6. QED
  BY <1>1, <1>2, <1>3, <1>4, <1>5 DEF RmStep

(* Every step keeps PathInv.                                               *)
LEMMA PathStep ==
    TypeOK /\ FlagInv /\ ModeInv /\ PathInv /\ [Seeing]_vars => PathInv'
<1> SUFFICES ASSUME TypeOK, FlagInv, ModeInv, PathInv, [Seeing]_vars
             PROVE  PathInv'
  OBVIOUS
<1> USE DEF disk, world, proc
<1>1. CASE UNCHANGED <<datamap, destDir, proc>>
  BY <1>1 DEF PathInv, Exists
<1>2. CASE Environment
  <2>1. ASSUME NEW c \in Commands, Start(c) PROVE PathInv'
    BY <2>1 DEF Start, PathInv
  <2>2. CASE Crash
    BY <2>2 DEF Crash, Finish, PathInv
  <2>3. QED
    BY <1>1, <1>2, <2>1, <2>2 DEF Environment, cleanShardFolderOnExit,
       MoveSource, LoseObject, DamageObject
<1>3. CASE UNCHANGED vars
  BY <1>1, <1>3 DEF vars
<1>4. CASE EarlyReturn
  BY <1>4, EarlyReturnEnds DEF Finish, PathInv
<1>5. QED
  BY <1>2, <1>3, <1>4, PathCheckState, PathUpload, PathDownload, PathRm
  DEF Seeing, Process

-----------------------------------------------------------------------------
(* What a step leaves in the shard directory and on the remotes.           *)

(* A calm step follows calm ones, and is no silent failure and no damage.  *)
LEMMA CalmBefore ==
    ASSUME TypeOK, [Seeing]_vars, Calm'
    PROVE  Calm /\ ~Fault("silent") /\ ~Fault("damage")
<1>1. /\ "silent" \in FaultKinds /\ "damage" \in FaultKinds
      /\ {"damage", "silent"} \cup Blinding \subseteq FaultKinds
  BY DEF FaultKinds, Blinding
<1>2. faults \in [FaultKinds -> Nat]
  BY DEF TypeOK
<1>3. faults'["silent"] = 0 /\ faults'["damage"] = 0
  BY DEF Calm, Never
<1>4. Calm
  BY <1>1, FaultsStay, SeeingNext DEF Calm, Never
<1>5. QED
  BY <1>1, <1>2, <1>3, <1>4, FaultCounted

(* A shard directory holds what was written, or what it held.              *)
LEMMA WriteValue ==
    ASSUME NEW dir \in Dir, NEW f \in Files, NEW s \in Shards, NEW c,
           NEW g \in Files, NEW t \in Shards
    PROVE  Write(dir, f, s, c)[g][t] \in {c, dir[g][t]}
BY DEF Write, Dir

(* A remote holds what was put there, or what it held.                     *)
LEMMA PutValue ==
    ASSUME NEW st \in [Remotes -> Dir], NEW r, NEW f \in Files,
           NEW s \in Shards, NEW c,
           NEW q \in Remotes, NEW g \in Files, NEW t \in Shards
    PROVE  Put(st, r, f, s, c)[q][g][t] \in {c, st[q][g][t]}
<1>1. CASE q = r
  BY <1>1 DEF Put, Dir
<1>2. CASE q # r
  BY <1>2 DEF Put, Dir
<1>3. QED
  BY <1>1, <1>2

(* A shard whose copies are kept or deleted stays fresh.                   *)
LEMMA FreshStays ==
    ASSUME TypeOK, NEW f \in Files, NEW s \in Shards, FreshShard(f, s),
           datamap'[f].Enc = datamap[f].Enc,
           datamap'[f].Remote[s] = datamap[f].Remote[s],
           hashed'[f][s] \in {Absent, hashed[f][s]},
           plain'[f][s] \in {Absent, plain[f][s]},
           \A r \in Remotes : store'[r][f][s] \in {Absent, store[r][f][s]}
    PROVE  FreshShard(f, s)'
<1>1. datamap[f].Remote[s] \in Remotes \cup {NoRemote}
  BY EntryType DEF TypeOK
<1>2. QED
  BY <1>1 DEF FreshShard

(* A process writes no shard file of a file it does not work on; what a    *)
(* dump does to the file it turns to is to delete.                         *)
LEMMA LocalOthers ==
    ASSUME TypeOK, Process, NEW g \in Files, g # target, NEW t \in Shards
    PROVE  /\ hashed'[g][t] \in {Absent, hashed[g][t]}
           /\ plain'[g][t] \in {Absent, plain[g][t]}
<1> USE DEF disk
<1>0. /\ target \in Files /\ hashed \in Dir /\ plain \in Dir
      /\ encNext \in Nat /\ store \in [Remotes -> Dir]
      /\ dst \in [Shards -> Remotes \cup {NoRemote}]
  BY DEF TypeOK, Dir
<1>1. CASE UNCHANGED <<hashed, plain>>
  BY <1>1
<1>2. CASE CheckState
  <2>1. ASSUME NEW f \in Files, DumpUploadState(f)
        PROVE  hashed'[g][t] \in {Absent, hashed[g][t]} /\ UNCHANGED plain
    BY <1>0, <2>1 DEF DumpUploadState, Dir
  <2>2. ASSUME NEW f \in Files, DumpDownloadState(f)
        PROVE  plain'[g][t] \in {Absent, plain[g][t]} /\ UNCHANGED hashed
    BY <1>0, <2>2 DEF DumpDownloadState, Dir
  <2>3. QED
    BY <1>1, <1>2, <2>1, <2>2 DEF CheckState, CheckState_Clean, DumpReset,
       DumpRmState
<1>3. CASE UploadStep
  <2>1. CASE DoEncode
    BY <1>0, <2>1 DEF DoEncode, Dir
  <2>2. ASSUME NEW s \in Shards, ConvertFileNameForUP(s)
        PROVE  hashed'[g][t] = hashed[g][t] /\ plain'[g][t] = plain[g][t]
    BY <1>0, <2>2 DEF ConvertFileNameForUP, Write, Dir
  <2>3. ASSUME NEW s \in Shards, EraseTempShard(s)
        PROVE  hashed'[g][t] = hashed[g][t] /\ UNCHANGED plain
    BY <1>0, <2>3 DEF EraseTempShard, Write, Dir
  <2>4. QED
    BY <1>1, <1>3, <2>1, <2>2, <2>3 DEF UploadStep, Dis_Upload,
       createHashNames_End, StartUpload, UploadWait, UploadFinish,
       AllocateRemote, uploadFile, updateRemoteInfo_Up
<1>4. CASE DownloadStep
  <2>1. CASE DoDecode
    <3>1. UNCHANGED hashed
      BY <2>1 DEF DoDecode
    <3>2. plain'[g] = plain[g]
      BY <1>0, <2>1 DEF DoDecode, DoDecode_NoDestination,
         DoDecode_TooFewShards, DoDecode_Restored, DoDecode_WrongPassword,
         DoDecode_Mixed, Reconstruct, Dir
    <3>3. QED
      BY <3>1, <3>2
  <2>2. CASE DownloadClean
    BY <1>0, <2>2 DEF DownloadClean, Dir
  <2>3. ASSUME NEW s \in Shards, downloadFile(s)
        PROVE  hashed'[g][t] = hashed[g][t] /\ UNCHANGED plain
    BY <1>0, <2>3 DEF downloadFile, Write, Dir
  <2>4. ASSUME NEW s \in Shards, ConvertFileNameForDo(s)
        PROVE  hashed'[g][t] = hashed[g][t] /\ plain'[g][t] = plain[g][t]
    BY <1>0, <2>4 DEF ConvertFileNameForDo, Write, Dir
  <2>5. QED
    BY <1>1, <1>4, <2>1, <2>2, <2>3, <2>4 DEF DownloadStep, Dis_Download,
       DownloadWait, AskRemove, DownloadReset, updateRemoteInfo_Down
<1>5. CASE RmStep
  BY <1>1, <1>5 DEF RmStep, Dis_rm, RmNew, RmResume, RmWait, RmDrop,
     remoteCallDeleteFile, MarkRemoved
<1>6. QED
  BY <1>1, <1>2, <1>3, <1>4, <1>5, EarlyReturnEnds DEF Process

(* While nothing is damaged, the environment only deletes.                 *)
LEMMA EnvironmentDeletes ==
    ASSUME TypeOK, Environment, ~Fault("damage"), NEW g \in Files,
           NEW t \in Shards
    PROVE  /\ hashed'[g][t] \in {Absent, hashed[g][t]}
           /\ plain'[g][t] \in {Absent, plain[g][t]}
           /\ \A r \in Remotes : store'[r][g][t] \in {Absent, store[r][g][t]}
<1> USE DEF disk
<1>0. store \in [Remotes -> Dir]
  BY DEF TypeOK, Dir
<1>1. CASE UNCHANGED <<hashed, plain, store>>
  BY <1>1
<1>2. CASE cleanShardFolderOnExit
  BY <1>2 DEF cleanShardFolderOnExit, AllShards
<1>3. ASSUME NEW r \in Remotes, NEW f \in Files, NEW s \in Shards,
             LoseObject(r, f, s)
      PROVE  /\ UNCHANGED <<hashed, plain>>
             /\ \A q \in Remotes :
                   store'[q][g][t] \in {Absent, store[q][g][t]}
  BY <1>0, <1>3, PutEffect, ContentsType DEF LoseObject
<1>4. QED
  BY <1>1, <1>2, <1>3 DEF Environment, Start, Crash, MoveSource, DamageObject

-----------------------------------------------------------------------------
(* The file the process works on.                                          *)

(* Shards of one upload only: a decoding finds no mixture.                 *)
LEMMA NoMixture ==
    ASSUME TypeOK, ModeInv, AllFresh, pc = "decode"
    PROVE  ~DoDecode_Mixed
<1> SUFFICES ASSUME DoDecode_Mixed PROVE FALSE
  OBVIOUS
<1>0. target \in Files /\ datamap \in DataMaps
  BY DEF TypeOK
<1>1. Exists(datamap, target) /\ datamap[target].Enc \in Nat
  BY <1>0, EntryType DEF ModeInv, StateFits, Exists
<1>2. \A s \in Present(target) : /\ plain[target][s] = datamap[target].Enc
                                 /\ datamap[target].Enc # Absent
  BY <1>0, <1>1 DEF Present, AllFresh, FreshShard
<1>3. \A s \in Present(target) : Uniform(target, plain[target][s])
  BY <1>1, <1>2 DEF Uniform
<1>4. Present(target) = {}
  BY <1>3 DEF DoDecode_Mixed
<1>5. Cardinality(Present(target)) = 0
  BY <1>4, FS_EmptySet
<1>6. QED
  BY <1>5, NeedAssumption DEF DoDecode_Mixed

(* The decoding: its shards are all of the entry's encoding, so it finds   *)
(* no mixture, and what it writes is that encoding.                        *)
LEMMA DecodeFresh ==
    ASSUME TypeOK, ModeInv, AllFresh, DoDecode
    PROVE  /\ Exists(datamap, target)
           /\ \A s \in Shards :
                 plain'[target][s] \in {Absent, datamap[target].Enc}
           /\ destDir /\ pc' = "reset" => out'[target] = datamap[target].Enc
<1>0. /\ target \in Files /\ plain \in Dir /\ datamap \in DataMaps
      /\ out \in [Files -> Nat]
  BY DEF TypeOK, Dir
<1>1. Exists(datamap, target)
  BY DEF DoDecode, ModeInv, StateFits, Exists
<1>2. \A s \in Shards : plain[target][s] \in {Absent, datamap[target].Enc}
  BY <1>0, <1>1 DEF AllFresh, FreshShard
<1>3. \A s \in Present(target) : /\ s \in Shards
                                 /\ plain[target][s] = datamap[target].Enc
                                 /\ datamap[target].Enc # Absent
  BY <1>2 DEF Present
<1>4. CASE DoDecode_NoDestination \/ DoDecode_TooFewShards
  BY <1>1, <1>2, <1>4 DEF DoDecode_NoDestination, DoDecode_TooFewShards, Goto
<1>5. CASE DoDecode_Restored
  <2>1. PICK s \in Present(target) :
           /\ out' = [out EXCEPT ![target] = plain[target][s]]
           /\ Reconstruct(target, plain[target][s])
    BY <1>5 DEF DoDecode_Restored
  <2>2. plain[target][s] = datamap[target].Enc
    BY <1>3
  <2>3. out'[target] = datamap[target].Enc
    BY <1>0, <2>1, <2>2
  <2>4. \A t \in Shards : plain'[target][t] \in {plain[target][t],
                                                  plain[target][s]}
    BY <1>0, <2>1 DEF Reconstruct, Dir
  <2>5. QED
    BY <1>1, <1>2, <2>2, <2>3, <2>4
<1>6. CASE DoDecode_WrongPassword
  <2>1. PICK s \in Present(target) : Reconstruct(target, plain[target][s])
    BY <1>6 DEF DoDecode_WrongPassword
  <2>2. plain[target][s] = datamap[target].Enc
    BY <1>3
  <2>3. \A t \in Shards : plain'[target][t] \in {plain[target][t],
                                                  plain[target][s]}
    BY <1>0, <2>1 DEF Reconstruct, Dir
  <2>4. pc' = "ask"
    BY <1>6 DEF DoDecode_WrongPassword, Goto
  <2>5. QED
    BY <1>1, <1>2, <2>2, <2>3, <2>4
<1>7. ~DoDecode_Mixed
  BY NoMixture DEF DoDecode
<1>8. QED
  BY <1>4, <1>5, <1>6, <1>7 DEF DoDecode

(* A calm step of the process leaves nothing of an earlier upload behind   *)
(* of the file it works on, if that file has an entry after the step.      *)
LEMMA TargetFresh ==
    ASSUME TypeOK, FlagInv, ModeInv, PathInv, AllFresh, CutFresh, SentFresh,
           Process, ~Fault("silent"), NEW f \in Files, f = target,
           Exists(datamap', f), NEW t \in Shards
    PROVE  FreshShard(f, t)'
<1> USE DEF disk
<1>0. /\ datamap \in DataMaps /\ encNext \in Nat
      /\ hashed \in Dir /\ plain \in Dir /\ store \in [Remotes -> Dir]
      /\ dst \in [Shards -> Remotes \cup {NoRemote}]
  BY DEF TypeOK, Dir
<1>f. Exists(datamap, f) => FreshShard(f, t)
  BY DEF AllFresh
<1>r. datamap[f].Remote[t] \in Remotes \cup {NoRemote}
  BY <1>0, EntryType
<1>1. ASSUME Exists(datamap, f),
             datamap'[f].Enc = datamap[f].Enc,
             datamap'[f].Remote = datamap[f].Remote,
             hashed'[f][t] \in {Absent, hashed[f][t]},
             plain'[f][t] \in {Absent, plain[f][t]},
             \A r \in Remotes : store'[r][f][t] \in {Absent, store[r][f][t]}
      PROVE  FreshShard(f, t)'
  BY <1>1, <1>f, FreshStays
<1>2. CASE UNCHANGED <<datamap, hashed, plain, store>>
  BY <1>1, <1>2
<1>3. ASSUME UNCHANGED <<hashed, plain, store>>,
             \/ datamap' = ResetCheckFlag(datamap, f)
             \/ \E s \in Shards :
                   datamap' = UpdateDistributedFile_CheckFlag(datamap, f, s)
      PROVE  FreshShard(f, t)'
  <2>1. /\ datamap'[f].State = datamap[f].State
        /\ datamap'[f].Enc = datamap[f].Enc
        /\ datamap'[f].Remote = datamap[f].Remote
    BY <1>0, <1>3, ResetCheckFlagEffect, CheckFlagEffect
  <2>2. Exists(datamap, f)
    BY <2>1 DEF Exists
  <2>3. QED
    BY <1>1, <1>3, <2>1, <2>2
<1>4. ASSUME UNCHANGED <<hashed, plain, store>>, Exists(datamap, f),
             NEW state \in States,
             datamap' = UpdateFileFlag(datamap, f, state)
      PROVE  FreshShard(f, t)'
  BY <1>0, <1>1, <1>4, UpdateFileFlagEffect
<1>5. CASE CheckState
  <2>1. ASSUME NEW g \in Files, DumpUploadState(g)
        PROVE  FreshShard(f, t)'
    <3>1. hashed'[f][t] \in {Absent, hashed[f][t]}
      BY <1>0, <2>1 DEF DumpUploadState, Dir
    <3>2. QED
      BY <1>1, <2>1, <3>1 DEF DumpUploadState
  <2>2. ASSUME NEW g \in Files, DumpDownloadState(g)
        PROVE  FreshShard(f, t)'
    <3>1. plain'[f][t] \in {Absent, plain[f][t]}
      BY <1>0, <2>2 DEF DumpDownloadState, Dir
    <3>2. QED
      BY <1>1, <2>2, <3>1 DEF DumpDownloadState
  <2>3. QED
    BY <1>2, <1>3, <1>5, <2>1, <2>2 DEF CheckState, CheckState_Clean,
       DumpReset, DumpRmState
<1>6. CASE UploadStep
  <2>1. CASE DoEncode \/ \E s \in Shards : ConvertFileNameForUP(s)
    <3>1. pc \in {"encode", "hash"} /\ UNCHANGED datamap
      BY <2>1 DEF DoEncode, ConvertFileNameForUP
    <3>2. QED
      BY <3>1 DEF PathInv
  <2>2. CASE StartUpload
    <3>1. CASE datamap' = MakeDataMap(datamap, target, encNext)
      <4>1. datamap'[f].Enc = encNext /\ datamap'[f].Remote[t] = NoRemote
        BY <1>0, <3>1, MakeDataMapEffect
      <4>2. CutShard(t) /\ pc = "makemap" /\ UNCHANGED <<hashed, plain>>
        BY <2>2 DEF StartUpload, CutFresh
      <4>3. QED
        BY <4>1, <4>2 DEF CutShard, FreshShard
    <3>2. QED
      BY <1>2, <2>2, <3>1 DEF StartUpload
  <2>3. CASE UploadFinish
    BY <1>2, <1>3, <2>3 DEF UploadFinish
  <2>4. ASSUME NEW s \in Shards, uploadFile(s) PROVE FreshShard(f, t)'
    <3>1. CASE store' = Put(store, dst[s], target, s, hashed[target][s])
      <4>1. dst[s] \in Remotes /\ pc = "upload" /\ phase[s] = "copy"
        BY <2>4 DEF uploadFile, SentFresh, SentShard
      <4>2. UNCHANGED <<datamap, hashed, plain>> /\ Exists(datamap, f)
        BY <2>4 DEF uploadFile
      <4>3. hashed[f][s] \in {Absent, datamap[f].Enc}
        BY <4>2 DEF AllFresh, FreshShard
      <4>4. \A r \in Remotes : store'[r][f][t] \in
                                  {store[r][f][t], hashed[f][s]}
        BY <1>0, <3>1, PutValue
      <4>5. QED
        BY <1>f, <1>r, <4>2, <4>3, <4>4 DEF FreshShard
    <3>2. QED
      BY <1>2, <2>4, <3>1 DEF uploadFile
  <2>5. ASSUME NEW s \in Shards, updateRemoteInfo_Up(s),
               datamap' = UpdateDistributedFile_CheckFlagAndRemote(
                              datamap, target, s, dst[s])
        PROVE  FreshShard(f, t)'
    <3>1. /\ dst[s] \in Remotes
          /\ store[dst[s]][target][s] \in {Absent, datamap[target].Enc}
      BY <2>5 DEF updateRemoteInfo_Up, SentFresh, SentShard
    <3>2. /\ datamap'[f].State = datamap[f].State
          /\ datamap'[f].Enc = datamap[f].Enc
          /\ datamap'[f].Remote[s] = dst[s]
          /\ t # s => datamap'[f].Remote[t] = datamap[f].Remote[t]
      BY <1>0, <2>5, <3>1, CheckFlagAndRemoteEffect DEF updateRemoteInfo_Up
    <3>3. FreshShard(f, t) /\ UNCHANGED <<hashed, plain, store>>
      BY <1>f, <2>5, <3>2 DEF Exists, updateRemoteInfo_Up
    <3>4. QED
      BY <3>1, <3>2, <3>3 DEF FreshShard
  <2>6. ASSUME NEW s \in Shards, EraseTempShard(s) PROVE FreshShard(f, t)'
    <3>1. hashed'[f][t] \in {Absent, hashed[f][t]}
      BY <1>0, <2>6, WriteEffect, ContentsType DEF EraseTempShard
    <3>2. QED
      BY <1>1, <2>6, <3>1 DEF EraseTempShard
  <2>7. QED
    BY <1>2, <1>6, <2>1, <2>2, <2>3, <2>4, <2>5, <2>6 DEF UploadStep,
       Dis_Upload, createHashNames_End, UploadWait, AllocateRemote,
       updateRemoteInfo_Up
<1>7. CASE DownloadStep
  <2>1. CASE Dis_Download
    <3>1. f = cmd.file
      BY <2>1 DEF Dis_Download, FlagInv
    <3>2. QED
      BY <1>2, <1>4, <2>1, <3>1 DEF Dis_Download, States
  <2>2. CASE DoDecode
    <3>1. plain'[f][t] \in {Absent, datamap[f].Enc}
      BY <2>2, DecodeFresh
    <3>2. UNCHANGED <<datamap, hashed, store>> /\ FreshShard(f, t)
      BY <1>f, <2>2 DEF DoDecode
    <3>3. QED
      BY <3>1, <3>2 DEF FreshShard
  <2>3. CASE DownloadReset
    BY <1>2, <1>3, <2>3 DEF DownloadReset
  <2>4. CASE DownloadClean
    <3>1. plain'[f][t] = Absent
      BY <1>0, <2>4 DEF DownloadClean, AllShards, Dir
    <3>2. QED
      BY <1>1, <2>4, <3>1 DEF DownloadClean
  <2>5. ASSUME NEW s \in Shards, downloadFile(s) PROVE FreshShard(f, t)'
    <3>1. CASE /\ hashed' = Write(hashed, target, s, store[dst[s]][target][s])
               /\ dst[s] # NoRemote
      <4>1. UNCHANGED <<datamap, plain, store>> /\ Exists(datamap, f)
        BY <2>5 DEF downloadFile
      <4>2. dst[s] = datamap[f].Remote[s] /\ dst[s] \in Remotes
        BY <1>0, <2>5, <3>1 DEF downloadFile, PathInv
      <4>3. FreshShard(f, s)
        BY <4>1 DEF AllFresh
      <4>4. store[dst[s]][f][s] \in {Absent, datamap[f].Enc}
        BY <3>1, <4>2, <4>3 DEF FreshShard
      <4>5. hashed'[f][t] \in {hashed[f][t], store[dst[s]][f][s]}
        BY <1>0, <3>1, WriteValue
      <4>6. QED
        BY <1>f, <4>1, <4>4, <4>5 DEF FreshShard
    <3>2. QED
      BY <1>2, <2>5, <3>1 DEF downloadFile
  <2>6. ASSUME NEW s \in Shards, ConvertFileNameForDo(s)
        PROVE  FreshShard(f, t)'
    <3>1. CASE /\ plain'  = Write(plain, target, s, hashed[target][s])
               /\ hashed' = Write(hashed, target, s, Absent)
      <4>1. UNCHANGED <<datamap, store>> /\ Exists(datamap, f)
        BY <2>6 DEF ConvertFileNameForDo
      <4>2. hashed[f][s] \in {Absent, datamap[f].Enc} /\ hashed[f][s] \in Contents
        BY <1>0, <4>1 DEF AllFresh, FreshShard, Dir
      <4>3. /\ plain'[f][t] \in {plain[f][t], hashed[f][s]}
            /\ hashed'[f][t] \in {Absent, hashed[f][t]}
        BY <1>0, <3>1, <4>2, WriteEffect, ContentsType
      <4>4. QED
        BY <1>f, <4>1, <4>2, <4>3 DEF FreshShard
    <3>2. QED
      BY <1>2, <2>6, <3>1 DEF ConvertFileNameForDo
  <2>7. ASSUME NEW s \in Shards, updateRemoteInfo_Down(s)
        PROVE  FreshShard(f, t)'
    BY <1>2, <1>3, <2>7 DEF updateRemoteInfo_Down
  <2>8. QED
    BY <1>2, <1>7, <2>1, <2>2, <2>3, <2>4, <2>5, <2>6, <2>7 DEF DownloadStep,
       DownloadWait, AskRemove
<1>8. CASE RmStep
  <2>1. CASE RmNew
    BY <1>4, <2>1 DEF RmNew, PathInv, States
  <2>2. CASE RmWait
    BY <1>3, <2>2 DEF RmWait
  <2>3. CASE RmDrop
    BY <1>0, <2>3, RemoveEffect DEF RmDrop, Exists
  <2>4. ASSUME NEW s \in Shards, remoteCallDeleteFile(s)
        PROVE  FreshShard(f, t)'
    <3>1. \A r \in Remotes : store'[r][f][t] \in {Absent, store[r][f][t]}
      BY <1>0, <2>4, PutValue DEF remoteCallDeleteFile
    <3>2. QED
      BY <1>1, <2>4, <3>1 DEF remoteCallDeleteFile
  <2>5. ASSUME NEW s \in Shards, MarkRemoved(s) PROVE FreshShard(f, t)'
    BY <1>2, <1>3, <2>5 DEF MarkRemoved
  <2>6. QED
    BY <1>2, <1>8, <2>1, <2>2, <2>3, <2>4, <2>5 DEF RmStep, Dis_rm, RmResume
<1>9. CASE EarlyReturn
  BY <1>1, <1>9, EarlyMap, EarlyReturnEnds
<1>10. QED
  BY <1>5, <1>6, <1>7, <1>8, <1>9 DEF Process

(* Every calm step keeps AllFresh.                                         *)
LEMMA AllFreshStep ==
    ASSUME TypeOK, FlagInv, ModeInv, PathInv, AllFresh, CutFresh, SentFresh,
           [Seeing]_vars, Calm'
    PROVE  AllFresh'
<1> SUFFICES ASSUME NEW f \in Files, NEW t \in Shards, Exists(datamap', f)
             PROVE  FreshShard(f, t)'
  BY DEF AllFresh, Exists
<1>1. CASE UNCHANGED vars
  BY <1>1 DEF vars, disk, AllFresh, FreshShard, Exists
<1>2. CASE Environment
  <2>1. UNCHANGED datamap /\ FreshShard(f, t)
    BY <1>2, EnvironmentQuiet DEF AllFresh
  <2>2. QED
    BY <1>2, <2>1, CalmBefore, EnvironmentDeletes, FreshStays
<1>3. CASE Process
  <2>1. CASE f = target
    BY <1>3, <2>1, CalmBefore, TargetFresh
  <2>2. CASE f # target
    <3>1. Untouched(f)
      BY <1>3, <2>2, OthersUntouched
    <3>2. FreshShard(f, t)
      BY <3>1 DEF AllFresh, Exists, Untouched
    <3>3. QED
      BY <1>3, <2>2, <3>1, <3>2, LocalOthers, FreshStays DEF Untouched
  <2>3. QED
    BY <2>1, <2>2
<1>4. QED
  BY <1>1, <1>2, <1>3 DEF Seeing

-----------------------------------------------------------------------------
(* The upload under way.                                                   *)

(* The steps that take the process to a place, or that it takes there.     *)
LEMMA ArrivesByUpload ==
    ASSUME TypeOK, Process, pc' \in {"hash", "makemap", "upload"}
    PROVE  UploadStep
<1>1. CASE CheckState
  <2>1. pc' \in {"main", "rmNew", "dumpReset", "rmResume"}
    BY <1>1 DEF CheckState, CheckState_Clean, DumpReset, DumpUploadState,
       DumpDownloadState, DumpRmState, Goto
  <2>2. QED
    BY <2>1
<1>2. CASE DownloadStep
  <2>1. pc' \in {"idle", "download", "decode", "ask", "reset", "clean",
                 "rmNew"}
    BY <1>2 DEF DownloadStep, Dis_Download, DownloadWait, DoDecode,
       DoDecode_NoDestination, DoDecode_TooFewShards, DoDecode_Restored,
       DoDecode_WrongPassword, DoDecode_Mixed, AskRemove, DownloadReset,
       DownloadClean, downloadFile,
       FetchedNothing, ConvertFileNameForDo, updateRemoteInfo_Down, Finish,
       Goto, Step
  <2>2. QED
    BY <2>1
<1>3. CASE RmStep
  <2>1. ret \in {"done", "main", "encode"}
    BY DEF TypeOK
  <2>2. pc' \in {"idle", "main", "encode", "rmNew", "rm", "drop"}
    BY <1>3, <2>1 DEF RmStep, Dis_rm, RmNew, RmResume, RmWait, RmDrop,
       remoteCallDeleteFile, MarkRemoved, Finish, Goto, Step, StepError
  <2>3. QED
    BY <2>2
<1>4. QED
  BY <1>1, <1>2, <1>3, EarlyReturnEnds DEF Process, Finish

(* Where the process is after a step of the environment that leaves it     *)
(* neither idle nor checking, it was before.                               *)
LEMMA EnvironmentStays ==
    ASSUME Environment, pc' \notin {"idle", "check"}
    PROVE  UNCHANGED proc
BY DEF Environment, Start, Crash, Finish, cleanShardFolderOnExit, MoveSource,
   LoseObject, DamageObject

(* Every calm step keeps CutFresh.                                         *)
LEMMA CutStep ==
    ASSUME TypeOK, CutFresh, [Seeing]_vars, Calm'
    PROVE  CutFresh'
<1> SUFFICES ASSUME pc' \in {"hash", "makemap"}, NEW t \in Shards
             PROVE  CutShard(t)'
  BY DEF CutFresh
<1> USE DEF disk, world
<1>0. /\ target \in Files /\ encNext \in Nat /\ errs \in BOOLEAN
      /\ hashed \in Dir /\ plain \in Dir /\ phase \in [Shards -> Phases]
  BY DEF TypeOK, Dir
<1>1. CASE UNCHANGED vars
  BY <1>1 DEF vars, proc, CutFresh, CutShard
<1>2. CASE Environment
  <2>1. UNCHANGED proc /\ UNCHANGED encNext
    BY <1>2, EnvironmentStays, EnvironmentQuiet
  <2>2. /\ hashed'[target][t] \in {Absent, hashed[target][t]}
        /\ plain'[target][t] \in {Absent, plain[target][t]}
    BY <1>0, <1>2, CalmBefore, EnvironmentDeletes
  <2>3. QED
    BY <2>1, <2>2 DEF proc, CutFresh, CutShard
<1>3. CASE UploadStep
  <2>1. CASE DoEncode
    <3>1. /\ plain' = [plain EXCEPT ![target] = AllShards(encNext + 1)]
          /\ encNext' = encNext + 1 /\ target' = target
          /\ phase' = AllShards("hash") /\ pc' = "hash"
      BY <2>1 DEF DoEncode, Finish, StartPool
    <3>2. plain'[target'][t] = encNext' /\ phase'[t] = "hash"
      BY <1>0, <3>1 DEF AllShards, Dir
    <3>3. QED
      BY <3>1, <3>2 DEF CutShard
  <2>2. CASE createHashNames_End
    <3>1. /\ pc = "hash" /\ phase[t] = "done" /\ ~errs /\ pc' = "makemap"
          /\ UNCHANGED <<target, hashed, plain, encNext>>
      BY <2>2 DEF createHashNames_End, PoolDone, Finish, Goto
    <3>2. QED
      BY <3>1 DEF CutFresh, CutShard
  <2>3. ASSUME NEW s \in Shards, ConvertFileNameForUP(s) PROVE CutShard(t)'
    <3>0. /\ pc = "hash" /\ phase[s] = "hash"
          /\ UNCHANGED <<pc, target, encNext>>
      BY <2>3 DEF ConvertFileNameForUP, Step, StepError
    <3>1. CutShard(s) /\ CutShard(t)
      BY <3>0 DEF CutFresh
    <3>2. CASE /\ hashed' = Write(hashed, target, s, plain[target][s])
               /\ plain'  = Write(plain, target, s, Absent)
               /\ Step(s, "done")
      <4>1. plain[target][s] \in Contents
        BY <1>0 DEF Dir
      <4>2. /\ hashed'[target][s] = plain[target][s]
            /\ plain'[target][s] = Absent
            /\ t # s => /\ hashed'[target][t] = hashed[target][t]
                        /\ plain'[target][t] = plain[target][t]
        BY <1>0, <3>2, <4>1, WriteEffect, ContentsType
      <4>3. /\ t # s => phase'[t] = phase[t]
            /\ errs' <=> errs
        BY <1>0, <3>2 DEF Step
      <4>4. QED
        BY <3>0, <3>1, <4>2, <4>3 DEF CutShard
    <3>3. CASE StepError(s) /\ UNCHANGED <<hashed, plain>>
      BY <3>0, <3>1, <3>3 DEF StepError, CutShard
    <3>4. QED
      BY <2>3, <3>2, <3>3 DEF ConvertFileNameForUP
  <2>4. CASE Dis_Upload \/ StartUpload \/ UploadWait \/ UploadFinish
    <3>1. pc' \notin {"hash", "makemap"}
      BY <2>4 DEF Dis_Upload, StartUpload, UploadWait, UploadFinish, Finish,
         Goto
    <3>2. QED
      BY <3>1
  <2>5. ASSUME NEW s \in Shards,
               \/ AllocateRemote(s) \/ uploadFile(s)
               \/ updateRemoteInfo_Up(s) \/ EraseTempShard(s)
        PROVE  FALSE
    <3>1. pc' = "upload"
      BY <2>5 DEF AllocateRemote, uploadFile, updateRemoteInfo_Up,
         EraseTempShard, Step, StepError
    <3>2. QED
      BY <3>1
  <2>6. QED
    BY <1>3, <2>1, <2>2, <2>3, <2>4, <2>5 DEF UploadStep
<1>4. QED
  BY <1>1, <1>2, <1>3, ArrivesByUpload DEF Seeing

(* Every calm step keeps SentFresh.                                        *)
LEMMA SentStep ==
    ASSUME TypeOK, ModeInv, AllFresh, SentFresh, [Seeing]_vars, Calm'
    PROVE  SentFresh'
<1> SUFFICES ASSUME pc' = "upload", NEW t \in Shards PROVE SentShard(t)'
  BY DEF SentFresh
<1> USE DEF disk
<1>0. /\ target \in Files /\ datamap \in DataMaps /\ hashed \in Dir
      /\ store \in [Remotes -> Dir] /\ phase \in [Shards -> Phases]
      /\ dst \in [Shards -> Remotes \cup {NoRemote}]
  BY DEF TypeOK, Dir
<1>1. ASSUME pc = "upload", UNCHANGED target,
             phase'[t] = phase[t] \/ phase'[t] \notin {"copy", "record"},
             dst'[t] = dst[t],
             datamap'[target].Enc = datamap[target].Enc,
             \A r \in Remotes :
                store'[r][target][t] \in {Absent, store[r][target][t]}
      PROVE  SentShard(t)'
  BY <1>1 DEF SentFresh, SentShard
<1>2. CASE UNCHANGED vars
  BY <1>1, <1>2 DEF vars, proc
<1>3. CASE Environment
  <2>1. UNCHANGED proc /\ UNCHANGED datamap
    BY <1>3, EnvironmentStays, EnvironmentQuiet
  <2>2. \A r \in Remotes :
           store'[r][target][t] \in {Absent, store[r][target][t]}
    BY <1>0, <1>3, CalmBefore, EnvironmentDeletes
  <2>3. QED
    BY <1>1, <2>1, <2>2 DEF proc
<1>4. CASE UploadStep
  <2>1. CASE StartUpload
    <3>1. phase' = AllShards("alloc")
      BY <2>1 DEF StartUpload, StartPool, Finish
    <3>2. QED
      BY <3>1 DEF AllShards, SentShard
  <2>2. ASSUME NEW s \in Shards, AllocateRemote(s) PROVE SentShard(t)'
    <3>1. /\ pc = "upload" /\ UNCHANGED <<target, datamap, store>>
      BY <2>2 DEF AllocateRemote
    <3>2. CASE t # s
      <4>1. phase'[t] = phase[t] /\ dst'[t] = dst[t]
        BY <1>0, <2>2, <3>2 DEF AllocateRemote
      <4>2. QED
        BY <1>1, <3>1, <4>1
    <3>3. CASE t = s
      <4>1. \/ phase'[t] = "copy" /\ dst'[t] \in Remotes
            \/ phase'[t] = "stuck"
        BY <1>0, <2>2, <3>3 DEF AllocateRemote
      <4>2. QED
        BY <4>1 DEF SentShard
    <3>4. QED
      BY <3>2, <3>3
  <2>3. ASSUME NEW s \in Shards, uploadFile(s) PROVE SentShard(t)'
    <3>1. /\ pc = "upload" /\ phase[s] = "copy" /\ dst[s] \in Remotes
          /\ UNCHANGED <<target, datamap>> /\ UNCHANGED dst
      BY <2>3 DEF uploadFile, Step, StepError, SentFresh, SentShard
    <3>2. hashed[target][s] \in {Absent, datamap[target].Enc}
      BY <1>0, <3>1 DEF ModeInv, StateFits, AllFresh, FreshShard, Exists
    <3>3. CASE StepError(s) /\ UNCHANGED store
      <4>1. phase'[t] = phase[t] \/ phase'[t] = "done"
        BY <1>0, <3>3 DEF StepError
      <4>2. QED
        BY <1>1, <3>1, <3>3, <4>1
    <3>4. CASE /\ store' = Put(store, dst[s], target, s, hashed[target][s])
               /\ Step(s, "record")
      <4>1. hashed[target][s] \in Contents
        BY <1>0 DEF Dir
      <4>2. /\ store'[dst[s]][target][s] = hashed[target][s]
            /\ \A r \in Remotes : t # s =>
                  store'[r][target][t] = store[r][target][t]
        BY <1>0, <3>1, <3>4, <4>1, PutEffect
      <4>3. t # s => phase'[t] = phase[t]
        BY <1>0, <3>4 DEF Step
      <4>4. CASE t # s
        BY <1>1, <3>1, <4>2, <4>3, <4>4
      <4>5. CASE t = s
        BY <3>1, <3>2, <4>2, <4>5 DEF SentShard
      <4>6. QED
        BY <4>4, <4>5
    <3>5. QED
      BY <2>3, <3>3, <3>4, CalmBefore DEF uploadFile
  <2>4. ASSUME NEW s \in Shards, updateRemoteInfo_Up(s) \/ EraseTempShard(s)
        PROVE  SentShard(t)'
    <3>1. /\ pc = "upload" /\ UNCHANGED <<target, store, dst>>
          /\ phase'[t] = phase[t] \/ phase'[t] \in {"erase", "done"}
      BY <1>0, <2>4 DEF updateRemoteInfo_Up, EraseTempShard, Step, StepError
    <3>2. dst[s] \in Remotes \cup {NoRemote}
      BY <1>0
    <3>3. datamap'[target].Enc = datamap[target].Enc
      <4>1. CASE UNCHANGED datamap
        BY <4>1
      <4>2. CASE datamap' = UpdateDistributedFile_CheckFlagAndRemote(
                                datamap, target, s, dst[s])
        BY <1>0, <3>2, <4>2, CheckFlagAndRemoteEffect
      <4>3. QED
        BY <2>4, <4>1, <4>2 DEF updateRemoteInfo_Up, EraseTempShard
    <3>4. QED
      BY <1>1, <3>1, <3>3
  <2>5. CASE \/ Dis_Upload \/ DoEncode \/ createHashNames_End \/ UploadWait
             \/ UploadFinish \/ \E s \in Shards : ConvertFileNameForUP(s)
    <3>1. pc' # "upload"
      BY <2>5 DEF Dis_Upload, DoEncode, createHashNames_End, UploadWait,
         UploadFinish, ConvertFileNameForUP, Step, StepError, Finish, Goto
    <3>2. QED
      BY <3>1
  <2>6. QED
    BY <1>4, <2>1, <2>2, <2>3, <2>4, <2>5 DEF UploadStep
<1>5. QED
  BY <1>2, <1>3, <1>4, ArrivesByUpload DEF Seeing

-----------------------------------------------------------------------------
(* The download that reports success.                                      *)

(* Only DownloadReset reports a download; afterwards the report stands     *)
(* while nothing changes the file or its entry.                            *)
LEMMA ReportedDownload ==
    ASSUME PathInv, Process, report' = "downloaded"
    PROVE  DownloadReset \/ DownloadClean
<1>1. report = "downloaded" => pc \in {"clean", "idle"}
  BY DEF PathInv
<1>2. CASE CheckState
  BY <1>1, <1>2 DEF CheckState, CheckState_Clean, DumpReset, DumpUploadState,
     DumpDownloadState, DumpRmState, Goto
<1>3. CASE UploadStep
  BY <1>1, <1>3 DEF UploadStep, Dis_Upload, DoEncode, createHashNames_End,
     StartUpload, UploadWait, UploadFinish, ConvertFileNameForUP,
     AllocateRemote, uploadFile, updateRemoteInfo_Up, EraseTempShard, Finish,
     Goto, Step, StepError
<1>4. CASE DownloadStep
  BY <1>1, <1>4 DEF DownloadStep, Dis_Download, DownloadWait, DoDecode,
     DoDecode_NoDestination, DoDecode_TooFewShards, DoDecode_Restored,
     DoDecode_WrongPassword, DoDecode_Mixed, AskRemove, downloadFile,
     FetchedNothing, ConvertFileNameForDo, updateRemoteInfo_Down, Finish,
     Goto, Step
<1>5. CASE RmStep
  BY <1>1, <1>5 DEF RmStep, Dis_rm, RmNew, RmResume, RmWait, RmDrop,
     remoteCallDeleteFile, MarkRemoved, Finish, Goto, Step, StepError
<1>6. QED
  BY <1>2, <1>3, <1>4, <1>5, EarlyReturnEnds DEF Process, Finish

(* Only DoDecode leads to the end of a download.                           *)
LEMMA ArrivesByDecode ==
    ASSUME TypeOK, Process, pc' = "reset"
    PROVE  DoDecode
<1>1. CASE CheckState
  BY <1>1 DEF CheckState, CheckState_Clean, DumpReset, DumpUploadState,
     DumpDownloadState, DumpRmState, Goto
<1>2. CASE UploadStep
  BY <1>2 DEF UploadStep, Dis_Upload, DoEncode, createHashNames_End,
     StartUpload, UploadWait, UploadFinish, ConvertFileNameForUP,
     AllocateRemote, uploadFile, updateRemoteInfo_Up, EraseTempShard, Finish,
     Goto, Step, StepError
<1>3. CASE DownloadStep
  BY <1>3 DEF DownloadStep, Dis_Download, DownloadWait, AskRemove,
     DownloadReset, DownloadClean, downloadFile, FetchedNothing,
     ConvertFileNameForDo, updateRemoteInfo_Down, Finish, Goto, Step
<1>4. CASE RmStep
  <2>1. ret \in {"done", "main", "encode"}
    BY DEF TypeOK
  <2>2. QED
    BY <1>4, <2>1 DEF RmStep, Dis_rm, RmNew, RmResume, RmWait, RmDrop,
       remoteCallDeleteFile, MarkRemoved, Finish, Goto, Step, StepError
<1>5. QED
  BY <1>1, <1>2, <1>3, <1>4, EarlyReturnEnds DEF Process, Finish

(* Every calm step keeps RestoredOut.                                      *)
LEMMA RestoredStep ==
    ASSUME TypeOK, FlagInv, ModeInv, PathInv, AllFresh, RestoredOut,
           [Seeing]_vars, Calm', DestReady
    PROVE  RestoredOut'
<1> USE DEF disk, world
<1>0. datamap \in DataMaps /\ target \in Files
  BY DEF TypeOK
<1>1. ASSUME pc' = "reset" PROVE out'[target'] = datamap'[target'].Enc
  <2>1. CASE UNCHANGED <<pc, target, out, datamap>>
    BY <1>1, <2>1 DEF RestoredOut
  <2>2. CASE UNCHANGED vars
    BY <2>1, <2>2 DEF vars, proc
  <2>3. CASE Environment
    BY <1>1, <2>1, <2>3, EnvironmentStays DEF proc, Environment, Start, Crash,
       cleanShardFolderOnExit, MoveSource, LoseObject, DamageObject
  <2>4. CASE DoDecode
    <3>1. UNCHANGED <<target, datamap>>
      BY <2>4 DEF DoDecode, DoDecode_NoDestination, DoDecode_TooFewShards,
         DoDecode_Restored, DoDecode_WrongPassword, DoDecode_Mixed, Goto
    <3>2. QED
      BY <1>1, <2>4, <3>1, DecodeFresh DEF PathInv
  <2>5. QED
    BY <1>1, <2>2, <2>3, <2>4, ArrivesByDecode DEF Seeing
<1>2. ASSUME report' = "downloaded"
      PROVE  out'[cmd'.file] = datamap'[cmd'.file].Enc
  <2>1. CASE UNCHANGED <<report, cmd, out, datamap>>
    BY <1>2, <2>1 DEF RestoredOut
  <2>2. CASE UNCHANGED vars
    BY <2>1, <2>2 DEF vars, proc
  <2>3. CASE Environment
    BY <1>2, <2>1, <2>3 DEF proc, Environment, Start, Crash, Finish,
       cleanShardFolderOnExit, MoveSource, LoseObject, DamageObject
  <2>4. CASE DownloadClean
    BY <2>1, <2>4 DEF DownloadClean, Finish
  <2>5. CASE DownloadReset
    <3>1. /\ pc = "reset" /\ UNCHANGED <<cmd, out>>
          /\ datamap' = ResetCheckFlag(datamap, target)
      BY <1>2, <2>5 DEF DownloadReset, Finish
    <3>2. datamap'[target].Enc = datamap[target].Enc
      BY <1>0, <3>1, ResetCheckFlagEffect
    <3>3. QED
      BY <3>1, <3>2 DEF RestoredOut, PathInv
  <2>6. QED
    BY <1>2, <2>2, <2>3, <2>4, <2>5, ReportedDownload DEF Seeing
<1>3. QED
  BY <1>1, <1>2 DEF RestoredOut

(* The invariant of both theorems.                                         *)
LEMMA FreshHolds == Spec => []FreshInv
<1>1. Init => FreshInv
  <2> SUFFICES ASSUME Init PROVE FreshInv
    OBVIOUS
  <2>0. datamap = EmptyMap
    BY DEF Init
  <2>1. \A f \in Files : ~Exists(datamap, f)
    BY <2>0, EmptyMapBlank, Zenon
  <2>2. pc = "idle" /\ ret = "done" /\ report = "none" /\ destDir = DestReady
    BY DEF Init
  <2>3. PathInv
    BY <2>2 DEF PathInv
  <2>4. AllFresh /\ CutFresh /\ SentFresh /\ RestoredOut
    BY <2>1, <2>2 DEF AllFresh, CutFresh, SentFresh, RestoredOut
  <2>5. QED
    BY <2>3, <2>4 DEF FreshInv
<1>2. /\ TypeOK /\ WindowInv /\ FreshInv /\ [Next]_vars
      /\ Sighted => FlagInv
      /\ Sighted => ModeInv
      => FreshInv'
  <2> SUFFICES ASSUME TypeOK, WindowInv, FreshInv, [Next]_vars,
                      Sighted => FlagInv, Sighted => ModeInv, Sighted'
               PROVE  FreshInv'
    BY DEF FreshInv, Calm, Sighted, Never
  <2>0. Sighted /\ [Seeing]_vars /\ FlagInv /\ ModeInv
    BY SightedStep
  <2>1. PathInv'
    BY <2>0, PathStep DEF FreshInv
  <2>2. ASSUME Calm' PROVE (AllFresh /\ CutFresh /\ SentFresh /\ RestoredOut)'
    <3>1. PathInv /\ AllFresh /\ CutFresh /\ SentFresh /\ RestoredOut
      BY <2>0, <2>2, CalmBefore DEF FreshInv
    <3>2. RestoredOut'
      BY <2>0, <2>2, <3>1, RestoredStep DEF RestoredOut
    <3>3. QED
      BY <2>0, <2>2, <3>1, <3>2, AllFreshStep, CutStep, SentStep
  <2>3. QED
    BY <2>1, <2>2 DEF FreshInv
<1>3. QED
  BY <1>1, <1>2, TypeCorrect, WindowHolds, FlagHolds, ModeHolds, PTL DEF Spec

(* For every number of files, shards, remotes, encodings, crashes, losses  *)
(* and clean-ups: what the shard directory holds of a file is nothing or   *)
(* shards of the upload that datamap.json describes, never of an earlier   *)
(* one of the same name, although commands use what dead ones left there.  *)
THEOREM NoStaleShard == Spec => []LocalFresh
<1>1. FreshInv => LocalFresh
  BY DEF FreshInv, AllFresh, FreshShard, LocalFresh, Calm
<1>2. QED
  BY <1>1, FreshHolds, PTL

(* A download that reports success has restored the upload that            *)
(* datamap.json describes, whatever was lost, crashed or cleaned up before *)
(* it, as long as nothing is damaged and no inner command fails silently.  *)
THEOREM DownloadRestores == Spec => []DownloadSound
<1>1. FreshInv => DownloadSound
  BY DEF FreshInv, RestoredOut, DownloadSound, Calm
<1>2. QED
  BY <1>1, FreshHolds, PTL

(***************************************************************************)
(* While no call on datamap.json fails.  The entry a command works on is   *)
(* there when it is needed, so no early return is taken and every record   *)
(* of a goroutine is made.  For a removal this takes RmEntry.              *)
(***************************************************************************)

(* No call on datamap.json failed, and it was never hidden.                *)
Readable == Never({"file"} \cup Blinding)

RmEntry ==
    /\ pc \in {"rmResume", "rm"} => Exists(datamap, target)
    /\ pc = "rm" => ~errs

(* What the goroutines' records do when their calls succeed.               *)
Recording ==
    \A s \in Shards :
        /\ updateRemoteInfo_Up(s) =>
              /\ datamap' = UpdateDistributedFile_CheckFlagAndRemote(
                                datamap, target, s, dst[s])
              /\ Step(s, "erase")
        /\ updateRemoteInfo_Down(s) =>
              datamap' = UpdateDistributedFile_CheckFlag(datamap, target, s)
        /\ MarkRemoved(s) =>
              /\ datamap' = UpdateDistributedFile_CheckFlag(datamap, target, s)
              /\ Step(s, "done")

(* A command finds the entry it works on: only a failing call stops it.    *)
LEMMA NoFailure ==
    ASSUME ModeInv, PathInv, RmEntry, ~Fault("file")
    PROVE  ~EarlyReturn /\ Recording
<1>1. pc \in {"dumpReset", "upload", "stat", "download", "reset", "rmNew",
              "rmResume", "rm"} => Exists(datamap, target)
  BY DEF ModeInv, StateFits, PathInv, RmEntry, Exists
<1>2. pc = "rm" => ~errs
  BY DEF RmEntry
<1>3. ~CheckState_Fails /\ ~Dis_Upload_Fails /\ ~Dis_Download_Fails
  BY <1>1 DEF CheckState_Fails, Dis_Upload_Fails, Dis_Download_Fails, NoEntry
<1>4. ~Dis_rm_Fails /\ ~Dis_Download_Unlisted /\ ~RmNew_Unlisted
  BY <1>1, <1>2 DEF Dis_rm_Fails, Dis_Download_Unlisted, RmNew_Unlisted,
     NoEntry
<1>5. Recording
  BY <1>1 DEF Recording, updateRemoteInfo_Up, updateRemoteInfo_Down,
     MarkRemoved, NoEntry
<1>6. QED
  BY <1>3, <1>4, <1>5 DEF EarlyReturn

(* Only DumpRmState resumes a removal.                                     *)
LEMMA ArrivesAtResume ==
    ASSUME TypeOK, Process, pc' = "rmResume"
    PROVE  \E f \in Files : DumpRmState(f)
<1>1. CASE CheckState
  BY <1>1 DEF CheckState, CheckState_Clean, DumpReset, DumpUploadState,
     DumpDownloadState, Goto
<1>2. CASE UploadStep
  BY <1>2 DEF UploadStep, Dis_Upload, DoEncode, createHashNames_End,
     StartUpload, UploadWait, UploadFinish, ConvertFileNameForUP,
     AllocateRemote, uploadFile, updateRemoteInfo_Up, EraseTempShard, Finish,
     Goto, Step, StepError
<1>3. CASE DownloadStep
  <2>1. pc' \in {"idle", "download", "decode", "ask", "reset", "clean",
                 "rmNew"}
    BY <1>3 DEF DownloadStep, Dis_Download, DownloadWait, DoDecode,
       DoDecode_NoDestination, DoDecode_TooFewShards, DoDecode_Restored,
       DoDecode_WrongPassword, DoDecode_Mixed, AskRemove, DownloadReset,
       DownloadClean, downloadFile,
       FetchedNothing, ConvertFileNameForDo, updateRemoteInfo_Down, Finish,
       Goto, Step
  <2>2. QED
    BY <2>1
<1>4. CASE RmStep
  <2>1. ret \in {"done", "main", "encode"}
    BY DEF TypeOK
  <2>2. QED
    BY <1>4, <2>1 DEF RmStep, Dis_rm, RmNew, RmResume, RmWait, RmDrop,
       remoteCallDeleteFile, MarkRemoved, Finish, Goto, Step, StepError
<1>5. QED
  BY <1>1, <1>2, <1>3, <1>4, EarlyReturnEnds DEF Process, Finish

(* Only the steps of Dis_rm lead to the deletions and on to the drop.      *)
LEMMA ArrivesByRm ==
    ASSUME TypeOK, Process, pc' \in {"rm", "drop"}
    PROVE  RmStep
<1>1. CASE CheckState
  BY <1>1 DEF CheckState, CheckState_Clean, DumpReset, DumpUploadState,
     DumpDownloadState, DumpRmState, Goto
<1>2. CASE UploadStep
  BY <1>2 DEF UploadStep, Dis_Upload, DoEncode, createHashNames_End,
     StartUpload, UploadWait, UploadFinish, ConvertFileNameForUP,
     AllocateRemote, uploadFile, updateRemoteInfo_Up, EraseTempShard, Finish,
     Goto, Step, StepError
<1>3. CASE DownloadStep
  <2>1. pc' \in {"idle", "download", "decode", "ask", "reset", "clean",
                 "rmNew"}
    BY <1>3 DEF DownloadStep, Dis_Download, DownloadWait, DoDecode,
       DoDecode_NoDestination, DoDecode_TooFewShards, DoDecode_Restored,
       DoDecode_WrongPassword, DoDecode_Mixed, AskRemove, DownloadReset,
       DownloadClean, downloadFile,
       FetchedNothing, ConvertFileNameForDo, updateRemoteInfo_Down, Finish,
       Goto, Step
  <2>2. QED
    BY <2>1
<1>4. QED
  BY <1>1, <1>2, <1>3, EarlyReturnEnds DEF Process, Finish

(* Every step in which no call on datamap.json fails keeps RmEntry.        *)
LEMMA RmEntryStep ==
    ASSUME TypeOK, ModeInv, PathInv, RmEntry, [Seeing]_vars, ~Fault("file")
    PROVE  RmEntry'
<1>0. /\ datamap \in DataMaps /\ target \in Files
      /\ ret \in {"done", "main", "encode"}
  BY DEF TypeOK
<1>1. CASE UNCHANGED <<datamap, proc>>
  BY <1>1 DEF proc, RmEntry, Exists
<1>2. CASE pc' \notin {"rmResume", "rm"}
  BY <1>2 DEF RmEntry
<1>3. CASE Environment
  BY <1>1, <1>2, <1>3, EnvironmentStays, EnvironmentQuiet
<1>4. CASE Process /\ pc' = "rmResume"
  <2>1. PICK f \in Files : DumpRmState(f)
    BY <1>4, ArrivesAtResume
  <2>2. QED
    BY <1>4, <2>1 DEF DumpRmState, RmEntry, Exists, disk
<1>5. CASE Process /\ pc' = "rm"
  <2>1. RmStep
    BY <1>5, ArrivesByRm
  <2>2. CASE RmNew
    <3>1. "rm" \in States /\ "rm" # "absent"
      BY DEF States
    <3>2. QED
      BY <1>0, <2>2, <3>1, UpdateFileFlagEffect
      DEF RmNew, StartPool, RmEntry, Exists
  <2>3. CASE RmResume
    BY <2>3 DEF RmResume, StartPool, RmEntry, Exists, disk
  <2>4. ASSUME NEW s \in Shards, remoteCallDeleteFile(s) PROVE RmEntry'
    BY <2>4 DEF remoteCallDeleteFile, Step, RmEntry, Exists, disk
  <2>5. ASSUME NEW s \in Shards, MarkRemoved(s) PROVE RmEntry'
    <3>1. /\ datamap' = UpdateDistributedFile_CheckFlag(datamap, target, s)
          /\ Step(s, "done") /\ pc = "rm"
      BY <2>5, NoFailure DEF Recording, MarkRemoved
    <3>2. datamap'[target].State = datamap[target].State
      BY <1>0, <3>1, CheckFlagEffect
    <3>3. QED
      BY <3>1, <3>2 DEF Step, RmEntry, Exists
  <2>6. QED
    BY <1>0, <1>5, <2>1, <2>2, <2>3, <2>4, <2>5 DEF RmStep, Dis_rm, RmWait,
       RmDrop, Goto, Finish
<1>6. QED
  BY <1>1, <1>2, <1>3, <1>4, <1>5 DEF Seeing, vars, disk

(* It holds as long as no call on datamap.json has failed.                 *)
LEMMA RmEntryHolds == Spec => [](Readable => RmEntry)
<1>1. Init => RmEntry
  BY DEF Init, RmEntry
<1>2. /\ TypeOK /\ WindowInv /\ FreshInv /\ [Next]_vars
      /\ Sighted => ModeInv
      /\ Readable => RmEntry
      => (Readable => RmEntry)'
  <2> SUFFICES ASSUME TypeOK, WindowInv, FreshInv, [Next]_vars,
                      Sighted => ModeInv, Readable => RmEntry, Readable'
               PROVE  RmEntry'
    OBVIOUS
  <2>1. Sighted /\ [Seeing]_vars
    BY SightedStep DEF Readable, Sighted, Never
  <2>2. {"file"} \cup Blinding \subseteq FaultKinds /\ "file" \in FaultKinds
    BY DEF FaultKinds, Blinding
  <2>3. Readable
    BY <2>2, FaultsStay DEF Readable, Never
  <2>4. faults \in [FaultKinds -> Nat] /\ faults'["file"] = 0
    BY DEF TypeOK, Readable, Never
  <2>5. ~Fault("file")
    BY <2>2, <2>4, FaultCounted
  <2>6. QED
    BY <2>1, <2>3, <2>5, RmEntryStep DEF FreshInv
<1>3. QED
  BY <1>1, <1>2, TypeCorrect, WindowHolds, ModeHolds, FreshHolds, PTL DEF Spec

(***************************************************************************)
(* No object is forgotten while no process dies.  An object is recorded by *)
(* the goroutine that copied it, which finds no remote recorded for its    *)
(* shard yet (SendOnce); a name gets a new entry only when it has none,    *)
(* and then no object of it is left (AllKnown); and the entry is dropped   *)
(* only after every object of the file is deleted (RmTakesAll), which a    *)
(* removal that is never resumed sees to (NoResume).                       *)
(***************************************************************************)

(* No process was killed, no inner command failed silently, no call on     *)
(* datamap.json failed and it was never hidden so far.                     *)
Orderly == Never({"crash", "silent", "file"} \cup Blinding)

Recorded(r, f, s) == Exists(datamap, f) /\ datamap[f].Remote[s] = r

Pending(r, f, s) ==
    /\ pc = "upload" /\ f = target
    /\ phase[s] = "record" /\ dst[s] = r

AllKnown ==
    \A r \in Remotes, f \in Files, s \in Shards :
        store[r][f][s] # Absent => Recorded(r, f, s) \/ Pending(r, f, s)

NoneLeft(s) == \A r \in Remotes : store[r][target][s] = Absent

SendShard(s) ==
    /\ phase[s] \in {"alloc", "copy", "record"} =>
          datamap[target].Remote[s] = NoRemote
    /\ phase[s] \in {"copy", "record"} => dst[s] \in Remotes

SendOnce == pc = "upload" => \A s \in Shards : SendShard(s)

RmShard(s) ==
    /\ phase[s] = "delete" =>
          dst[s] = datamap[target].Remote[s] /\ dst[s] \in Remotes
    /\ phase[s] \in {"mark", "done"} => NoneLeft(s)

RmTakesAll ==
    /\ pc = "rm" => \A s \in Shards : RmShard(s)
    /\ pc = "drop" => \A s \in Shards : NoneLeft(s)

NoResume ==
    /\ \A f \in Files : datamap[f].Flag /\ datamap[f].State = "rm" => pc = "rm"
    /\ pc # "rmResume"

KnownInv == Orderly => AllKnown /\ SendOnce /\ RmTakesAll /\ NoResume

(* An orderly step follows orderly ones, and is no death and no silent     *)
(* failure.                                                                *)
LEMMA OrderlyBefore ==
    ASSUME TypeOK, [Seeing]_vars, Orderly'
    PROVE  Orderly /\ ~Fault("silent") /\ ~Fault("crash") /\ ~Fault("file")
<1>1. /\ "silent" \in FaultKinds /\ "crash" \in FaultKinds
      /\ "file" \in FaultKinds
      /\ {"crash", "silent", "file"} \cup Blinding \subseteq FaultKinds
  BY DEF FaultKinds, Blinding
<1>2. faults \in [FaultKinds -> Nat]
  BY DEF TypeOK
<1>3. faults'["silent"] = 0 /\ faults'["crash"] = 0 /\ faults'["file"] = 0
  BY DEF Orderly, Never
<1>4. Orderly
  BY <1>1, FaultsStay, SeeingNext DEF Orderly, Never
<1>5. QED
  BY <1>1, <1>2, <1>3, <1>4, FaultCounted

(* What the environment does without a crash: it starts a command, or it   *)
(* leaves the process alone; it creates no object.                         *)
LEMMA OrderlyEnvironment ==
    ASSUME TypeOK, Environment, ~Fault("crash")
    PROVE  /\ UNCHANGED datamap
           /\ UNCHANGED proc \/ (pc = "idle" /\ pc' = "check")
           /\ \A r \in Remotes, f \in Files, s \in Shards :
                 store'[r][f][s] # Absent => store[r][f][s] # Absent
<1> USE DEF disk
<1>0. store \in [Remotes -> Dir]
  BY DEF TypeOK, Dir
<1>1. UNCHANGED datamap /\ (UNCHANGED proc \/ (pc = "idle" /\ pc' = "check"))
  BY DEF Environment, Start, Crash, cleanShardFolderOnExit, MoveSource,
     LoseObject, DamageObject
<1>2. ASSUME NEW q \in Remotes, NEW g \in Files, NEW t \in Shards,
             LoseObject(q, g, t) \/ DamageObject(q, g, t)
      PROVE  \A r \in Remotes, f \in Files, s \in Shards :
                store'[r][f][s] # Absent => store[r][f][s] # Absent
  <2> SUFFICES ASSUME NEW r \in Remotes, NEW f \in Files, NEW s \in Shards,
                      store'[r][f][s] # Absent
               PROVE  store[r][f][s] # Absent
    OBVIOUS
  <2>1. CASE r = q /\ f = g /\ s = t
    BY <1>2, <2>1 DEF LoseObject, DamageObject
  <2>2. CASE r # q \/ f # g \/ s # t
    <3>1. store'[r][f][s] = store[r][f][s]
      BY <1>0, <1>2, <2>2, PutEffect, ContentsType DEF LoseObject,
         DamageObject
    <3>2. QED
      BY <3>1
  <2>3. QED
    BY <2>1, <2>2
<1>3. CASE UNCHANGED store
  BY <1>1, <1>3
<1>4. QED
  BY <1>1, <1>2, <1>3 DEF Environment, Start, Crash, cleanShardFolderOnExit,
     MoveSource

(* Without a crash, an entry says "rm" only while its shards are deleted,  *)
(* so there is no removal to resume.                                       *)
LEMMA NoResumeStep ==
    ASSUME TypeOK, FlagInv, ModeInv, PathInv, RmEntry, NoResume,
           [Seeing]_vars, ~Fault("crash"), ~Fault("file")
    PROVE  NoResume'
<1> USE DEF disk
<1>0. /\ datamap \in DataMaps /\ target \in Files /\ encNext \in Nat
      /\ dst \in [Shards -> Remotes \cup {NoRemote}]
      /\ ret \in {"done", "main", "encode"}
  BY DEF TypeOK
<1>1. CASE UNCHANGED vars
  BY <1>1 DEF vars, proc, NoResume, Exists
<1>2. CASE Environment
  BY <1>2, OrderlyEnvironment DEF proc, NoResume, Exists
<1>3. CASE Process
  <2>1. pc' # "rmResume"
    BY <1>3, ArrivesAtResume DEF DumpRmState, Flagged, NoResume
  <2>2. ASSUME NEW f \in Files, f # target, datamap'[f].Flag,
               datamap'[f].State = "rm"
        PROVE  FALSE
    <3>1. datamap[f].Flag /\ datamap[f].State = "rm"
      BY <1>3, <2>2, OthersUntouched DEF Untouched
    <3>2. pc = "rm"
      BY <3>1 DEF NoResume
    <3>3. QED
      BY <2>2, <3>1, <3>2 DEF FlagInv, OnlyTarget
  <2>3. ASSUME datamap'[target].Flag, datamap'[target].State = "rm"
        PROVE  pc' = "rm"
    <3>1. CASE /\ datamap'[target].Flag <=> datamap[target].Flag
               /\ datamap'[target].State = datamap[target].State
               /\ pc = "rm" => pc' = "rm"
      BY <1>0, <2>3, <3>1 DEF NoResume
    <3>2. CASE datamap' = ResetCheckFlag(datamap, target)
      BY <1>0, <2>3, <3>2, ResetCheckFlagEffect
    <3>3. ASSUME NEW s \in Shards, pc = "rm" => pc' = "rm",
                 datamap' = UpdateDistributedFile_CheckFlag(datamap, target, s)
          PROVE  pc' = "rm"
      BY <1>0, <3>1, <3>3, CheckFlagEffect
    <3>4. CASE CheckState
      BY <3>1, <3>2, <3>4 DEF CheckState, CheckState_Clean, DumpReset,
         DumpUploadState, DumpDownloadState, DumpRmState
    <3>5. CASE UploadStep
      <4>1. CASE StartUpload
        BY <1>0, <2>3, <3>1, <4>1, MakeDataMapEffect DEF StartUpload
      <4>2. CASE UploadFinish
        BY <3>1, <3>2, <4>2 DEF UploadFinish
      <4>3. ASSUME NEW s \in Shards, updateRemoteInfo_Up(s) PROVE pc' = "rm"
        <5>1. dst[s] \in Remotes \cup {NoRemote}
          BY <1>0
        <5>2. /\ datamap'[target].Flag <=> datamap[target].Flag
              /\ datamap'[target].State = datamap[target].State
          <6>1. CASE UNCHANGED datamap
            BY <6>1
          <6>2. CASE datamap' = UpdateDistributedFile_CheckFlagAndRemote(
                                    datamap, target, s, dst[s])
            BY <1>0, <5>1, <6>2, CheckFlagAndRemoteEffect
          <6>3. QED
            BY <4>3, <6>1, <6>2 DEF updateRemoteInfo_Up
        <5>3. QED
          BY <3>1, <4>3, <5>2 DEF updateRemoteInfo_Up
      <4>4. QED
        BY <3>1, <3>5, <4>1, <4>2, <4>3 DEF UploadStep, Dis_Upload, DoEncode,
           createHashNames_End, UploadWait, ConvertFileNameForUP,
           AllocateRemote, uploadFile, EraseTempShard
    <3>6. CASE DownloadStep
      <4>1. CASE Dis_Download
        <5>1. target = cmd.file /\ pc = "main"
          BY <4>1 DEF Dis_Download, FlagInv
        <5>2. "download" \in States
          BY DEF States
        <5>3. QED
          BY <1>0, <2>3, <3>1, <4>1, <5>1, <5>2, UpdateFileFlagEffect
          DEF Dis_Download
      <4>2. CASE DownloadReset
        BY <3>1, <3>2, <4>2 DEF DownloadReset
      <4>3. ASSUME NEW s \in Shards, updateRemoteInfo_Down(s) PROVE pc' = "rm"
        BY <3>1, <3>3, <4>3 DEF updateRemoteInfo_Down
      <4>4. QED
        BY <3>1, <3>6, <4>1, <4>2, <4>3 DEF DownloadStep, DownloadWait,
           DoDecode, AskRemove, DownloadClean, downloadFile,
           ConvertFileNameForDo
    <3>7. CASE RmStep
      <4>1. CASE RmDrop
        BY <1>0, <2>3, <4>1, RemoveEffect DEF RmDrop
      <4>2. ASSUME NEW s \in Shards, MarkRemoved(s) PROVE pc' = "rm"
        BY <3>1, <3>3, <4>2 DEF MarkRemoved, Step, StepError
      <4>3. QED
        BY <3>1, <3>2, <3>7, <4>1, <4>2 DEF RmStep, Dis_rm, RmNew, RmResume,
           RmWait, remoteCallDeleteFile, Step
    <3>8. QED
      BY <1>3, <3>4, <3>5, <3>6, <3>7, NoFailure DEF Process
  <2>4. QED
    BY <2>1, <2>2, <2>3 DEF NoResume
<1>4. QED
  BY <1>1, <1>2, <1>3 DEF Seeing

(* The upload goroutines record each shard's remote once.                  *)
LEMMA SendStep ==
    ASSUME TypeOK, SendOnce, [Seeing]_vars, ~Fault("crash")
    PROVE  SendOnce'
<1> SUFFICES ASSUME pc' = "upload", NEW t \in Shards PROVE SendShard(t)'
  BY DEF SendOnce
<1> USE DEF disk
<1>0. /\ target \in Files /\ datamap \in DataMaps /\ encNext \in Nat
      /\ phase \in [Shards -> Phases]
      /\ dst \in [Shards -> Remotes \cup {NoRemote}]
  BY DEF TypeOK
<1>1. ASSUME pc = "upload", UNCHANGED target, dst'[t] = dst[t],
             datamap'[target].Remote[t] = datamap[target].Remote[t],
             \/ phase'[t] = phase[t]
             \/ phase'[t] \notin {"alloc", "copy", "record"}
             \/ phase[t] = "copy" /\ phase'[t] = "record"
      PROVE  SendShard(t)'
  BY <1>1 DEF SendOnce, SendShard
<1>2. CASE UNCHANGED vars
  BY <1>1, <1>2 DEF vars, proc
<1>3. CASE Environment
  BY <1>1, <1>3, OrderlyEnvironment DEF proc
<1>4. CASE UploadStep
  <2>1. CASE StartUpload
    <3>1. /\ datamap' = MakeDataMap(datamap, target, encNext)
          /\ phase' = AllShards("alloc") /\ UNCHANGED target
      BY <2>1 DEF StartUpload, StartPool, Finish
    <3>2. datamap'[target].Remote[t] = NoRemote
      BY <1>0, <3>1, MakeDataMapEffect
    <3>3. phase'[t] = "alloc"
      BY <3>1 DEF AllShards
    <3>4. QED
      BY <3>1, <3>2, <3>3 DEF SendShard
  <2>2. ASSUME NEW s \in Shards, AllocateRemote(s) PROVE SendShard(t)'
    <3>1. pc = "upload" /\ phase[s] = "alloc" /\ UNCHANGED <<target, datamap>>
      BY <2>2 DEF AllocateRemote
    <3>2. CASE t # s
      <4>1. phase'[t] = phase[t] /\ dst'[t] = dst[t]
        BY <1>0, <2>2, <3>2 DEF AllocateRemote
      <4>2. QED
        BY <1>1, <3>1, <4>1
    <3>3. CASE t = s
      <4>1. \/ phase'[t] = "copy" /\ dst'[t] \in Remotes
            \/ phase'[t] = "stuck"
        BY <1>0, <2>2, <3>3 DEF AllocateRemote
      <4>2. QED
        BY <3>1, <3>3, <4>1 DEF SendOnce, SendShard
    <3>4. QED
      BY <3>2, <3>3
  <2>3. ASSUME NEW s \in Shards, uploadFile(s) \/ EraseTempShard(s)
        PROVE  SendShard(t)'
    <3>1. pc = "upload" /\ UNCHANGED <<target, datamap, dst>>
      BY <2>3 DEF uploadFile, EraseTempShard, Step, StepError
    <3>2. \/ phase'[t] = phase[t]
          \/ phase'[t] = "done"
          \/ phase[t] = "copy" /\ phase'[t] = "record"
      BY <1>0, <2>3 DEF uploadFile, EraseTempShard, Step, StepError
    <3>3. QED
      BY <1>1, <3>1, <3>2
  <2>4. ASSUME NEW s \in Shards, updateRemoteInfo_Up(s) PROVE SendShard(t)'
    <3>1. /\ pc = "upload" /\ UNCHANGED <<target, dst>>
          /\ \/ t # s /\ phase'[t] = phase[t]
             \/ t = s /\ phase'[t] \in {"erase", "done"}
      BY <1>0, <2>4 DEF updateRemoteInfo_Up, Step, StepError
    <3>2. dst[s] \in Remotes \cup {NoRemote}
      BY <1>0
    <3>3. t # s => datamap'[target].Remote[t] = datamap[target].Remote[t]
      <4>1. CASE UNCHANGED datamap
        BY <4>1
      <4>2. CASE datamap' = UpdateDistributedFile_CheckFlagAndRemote(
                                datamap, target, s, dst[s])
        BY <1>0, <3>2, <4>2, CheckFlagAndRemoteEffect
      <4>3. QED
        BY <2>4, <4>1, <4>2 DEF updateRemoteInfo_Up
    <3>4. CASE t # s
      BY <1>1, <3>1, <3>3, <3>4
    <3>5. CASE t = s
      BY <3>1, <3>5 DEF SendShard
    <3>6. QED
      BY <3>4, <3>5
  <2>5. CASE \/ Dis_Upload \/ DoEncode \/ createHashNames_End \/ UploadWait
             \/ UploadFinish \/ \E s \in Shards : ConvertFileNameForUP(s)
    <3>1. pc' # "upload"
      BY <2>5 DEF Dis_Upload, DoEncode, createHashNames_End, UploadWait,
         UploadFinish, ConvertFileNameForUP, Step, StepError, Finish, Goto
    <3>2. QED
      BY <3>1
  <2>6. QED
    BY <1>4, <2>1, <2>2, <2>3, <2>4, <2>5 DEF UploadStep
<1>5. QED
  BY <1>2, <1>3, <1>4, ArrivesByUpload DEF Seeing

(* A first removal takes every object of the file before it drops the      *)
(* entry: what the entry does not record is not there.                     *)
LEMMA RmTakesStep ==
    ASSUME TypeOK, AllKnown, RmTakesAll, NoResume, [Seeing]_vars,
           ~Fault("crash"), ~Fault("silent")
    PROVE  RmTakesAll'
<1> USE DEF disk
<1>0. /\ target \in Files /\ datamap \in DataMaps
      /\ store \in [Remotes -> Dir] /\ phase \in [Shards -> Phases]
      /\ dst \in [Shards -> Remotes \cup {NoRemote}]
      /\ ret \in {"done", "main", "encode"}
  BY DEF TypeOK, Dir
<1>1. CASE UNCHANGED vars
  BY <1>1 DEF vars, proc, RmTakesAll, RmShard, NoneLeft
<1>2. CASE Environment
  <2>1. CASE pc' = "check"
    BY <2>1 DEF RmTakesAll
  <2>2. CASE UNCHANGED proc
    <3>1. UNCHANGED datamap
      BY <1>2, OrderlyEnvironment
    <3>2. \A s \in Shards : NoneLeft(s) => NoneLeft(s)'
      BY <1>0, <1>2, <2>2, OrderlyEnvironment DEF proc, NoneLeft
    <3>3. QED
      BY <2>2, <3>1, <3>2 DEF proc, RmTakesAll, RmShard
  <2>3. QED
    BY <1>2, <2>1, <2>2, OrderlyEnvironment
<1>3. CASE pc' \notin {"rm", "drop"}
  BY <1>3 DEF RmTakesAll
<1>4. CASE RmStep
  <2>1. CASE RmNew
    <3>1. "rm" \in States
      BY DEF States
    <3>2. datamap'[target].Remote = datamap[target].Remote
      BY <1>0, <2>1, <3>1, UpdateFileFlagEffect DEF RmNew
    <3>3. /\ pc = "rmNew" /\ pc' = "rm" /\ UNCHANGED <<target, store>>
          /\ dst' = datamap[target].Remote
          /\ phase' = [s \in Shards |->
                          IF datamap[target].Remote[s] = NoRemote
                            THEN "mark" ELSE "delete"]
      BY <2>1 DEF RmNew, StartPool
    <3>4. ASSUME NEW s \in Shards PROVE RmShard(s)'
      <4>1. datamap[target].Remote[s] \in Remotes \cup {NoRemote}
        BY <1>0, EntryType
      <4>2. CASE datamap[target].Remote[s] = NoRemote
        <5>1. NoneLeft(s)
          BY <1>0, <3>3, <4>2, NoRemoteAssumption DEF AllKnown, Recorded,
             Pending, NoneLeft
        <5>2. QED
          BY <3>3, <4>2, <5>1 DEF RmShard, NoneLeft
      <4>3. CASE datamap[target].Remote[s] # NoRemote
        BY <3>2, <3>3, <4>1, <4>3 DEF RmShard
      <4>4. QED
        BY <4>2, <4>3
    <3>5. QED
      BY <3>3, <3>4 DEF RmTakesAll
  <2>2. CASE RmWait
    <3>1. /\ pc = "rm" /\ pc' = "drop" /\ UNCHANGED <<target, store>>
          /\ \A s \in Shards : phase[s] = "done"
      BY <2>2 DEF RmWait, PoolDone, Goto
    <3>2. \A s \in Shards : NoneLeft(s)
      BY <3>1 DEF RmTakesAll, RmShard
    <3>3. QED
      BY <3>1, <3>2 DEF RmTakesAll, NoneLeft
  <2>3. ASSUME NEW s \in Shards, remoteCallDeleteFile(s) PROVE RmTakesAll'
    <3>1. /\ pc = "rm" /\ phase[s] = "delete"
          /\ UNCHANGED <<pc, target, dst, datamap>>
          /\ store' = Put(store, dst[s], target, s, Absent)
          /\ phase' = [phase EXCEPT ![s] = "mark"]
      BY <2>3 DEF remoteCallDeleteFile, Step
    <3>2. dst[s] \in Remotes /\ dst[s] = datamap[target].Remote[s]
      BY <3>1 DEF RmTakesAll, RmShard
    <3>3. /\ store'[dst[s]][target][s] = Absent
          /\ \A r \in Remotes, t \in Shards : r # dst[s] \/ t # s =>
                store'[r][target][t] = store[r][target][t]
      BY <1>0, <3>1, <3>2, PutEffect, ContentsType
    <3>4. \A r \in Remotes : r # dst[s] => store[r][target][s] = Absent
      BY <1>0, <3>1, <3>2 DEF AllKnown, Recorded, Pending
    <3>5. NoneLeft(s)'
      BY <3>1, <3>3, <3>4 DEF NoneLeft
    <3>6. ASSUME NEW t \in Shards PROVE RmShard(t)'
      <4>1. CASE t = s
        BY <1>0, <3>1, <3>5, <4>1 DEF RmShard
      <4>2. CASE t # s
        <5>1. NoneLeft(t) => NoneLeft(t)'
          BY <3>1, <3>3, <4>2 DEF NoneLeft
        <5>2. RmShard(t) /\ phase'[t] = phase[t]
          BY <1>0, <3>1, <4>2 DEF RmTakesAll
        <5>3. QED
          BY <3>1, <5>1, <5>2 DEF RmShard
      <4>3. QED
        BY <4>1, <4>2
    <3>7. QED
      BY <3>1, <3>6 DEF RmTakesAll
  <2>4. ASSUME NEW s \in Shards, MarkRemoved(s) PROVE RmTakesAll'
    <3>1. /\ pc = "rm" /\ phase[s] = "mark"
          /\ UNCHANGED <<pc, target, dst, store>>
          /\ phase' = [phase EXCEPT ![s] = "done"]
      BY <2>4 DEF MarkRemoved, Step, StepError
    <3>2. datamap'[target].Remote = datamap[target].Remote
      <4>1. CASE UNCHANGED datamap
        BY <4>1
      <4>2. CASE datamap' = UpdateDistributedFile_CheckFlag(datamap, target, s)
        BY <1>0, <4>2, CheckFlagEffect
      <4>3. QED
        BY <2>4, <4>1, <4>2 DEF MarkRemoved
    <3>3. ASSUME NEW t \in Shards PROVE RmShard(t)'
      <4>1. RmShard(t) /\ RmShard(s)
        BY <3>1 DEF RmTakesAll
      <4>2. NoneLeft(t) => NoneLeft(t)'
        BY <3>1 DEF NoneLeft
      <4>3. phase'[t] = IF t = s THEN "done" ELSE phase[t]
        BY <1>0, <3>1
      <4>4. QED
        BY <3>1, <3>2, <4>1, <4>2, <4>3 DEF RmShard
    <3>4. QED
      BY <3>1, <3>3 DEF RmTakesAll
  <2>5. CASE Dis_rm \/ RmResume \/ RmDrop
    <3>1. pc' \notin {"rm", "drop"}
      BY <1>0, <2>5 DEF Dis_rm, RmResume, RmDrop, NoResume, Finish, Goto
    <3>2. QED
      BY <1>3, <3>1
  <2>6. QED
    BY <1>4, <2>1, <2>2, <2>3, <2>4, <2>5 DEF RmStep
<1>5. QED
  BY <1>1, <1>2, <1>3, <1>4, ArrivesByRm DEF Seeing

(* Of the file the process works on, every object left by an orderly step  *)
(* is recorded, or about to be.                                            *)
LEMMA TargetKnown ==
    ASSUME TypeOK, FlagInv, ModeInv, PathInv, AllKnown, SendOnce, RmTakesAll,
           Process, ~Fault("silent"), ~Fault("file"),
           NEW r \in Remotes, NEW f \in Files, f = target, NEW t \in Shards,
           store'[r][f][t] # Absent
    PROVE  Recorded(r, f, t)' \/ Pending(r, f, t)'
<1> USE DEF disk
<1>0. /\ datamap \in DataMaps /\ encNext \in Nat
      /\ store \in [Remotes -> Dir] /\ phase \in [Shards -> Phases]
      /\ dst \in [Shards -> Remotes \cup {NoRemote}] /\ hashed \in Dir
  BY DEF TypeOK, Dir
<1>k. store[r][f][t] # Absent => Recorded(r, f, t) \/ Pending(r, f, t)
  BY DEF AllKnown
<1>1. ASSUME pc # "upload" \/ phase[t] # "record",
             store[r][f][t] # Absent,
             datamap[f].State # "absent" => datamap'[f].State # "absent",
             datamap'[f].Remote[t] = datamap[f].Remote[t]
      PROVE  Recorded(r, f, t)'
  BY <1>1, <1>k DEF Recorded, Pending, Exists
<1>2. ASSUME UNCHANGED <<datamap, store>>,
             pc # "upload" \/ phase[t] # "record"
      PROVE  Recorded(r, f, t)'
  BY <1>1, <1>2
<1>3. ASSUME UNCHANGED store, pc # "upload",
             \/ datamap' = ResetCheckFlag(datamap, f)
             \/ \E s \in Shards :
                   datamap' = UpdateDistributedFile_CheckFlag(datamap, f, s)
      PROVE  Recorded(r, f, t)'
  <2>1. /\ datamap'[f].State = datamap[f].State
        /\ datamap'[f].Remote = datamap[f].Remote
    BY <1>0, <1>3, ResetCheckFlagEffect, CheckFlagEffect
  <2>2. QED
    BY <1>1, <1>3, <2>1
<1>4. ASSUME UNCHANGED store, pc # "upload",
             NEW state \in States, state # "absent",
             datamap' = UpdateFileFlag(datamap, f, state)
      PROVE  Recorded(r, f, t)'
  BY <1>0, <1>1, <1>4, UpdateFileFlagEffect
<1>5. CASE CheckState
  BY <1>2, <1>3, <1>5 DEF CheckState, CheckState_Clean, DumpReset,
     DumpUploadState, DumpDownloadState, DumpRmState
<1>6. CASE UploadStep
  <2>1. CASE StartUpload
    <3>1. ~Exists(datamap, f) /\ pc = "makemap" /\ UNCHANGED store
      BY <2>1 DEF StartUpload, PathInv
    <3>2. QED
      BY <1>k, <3>1 DEF Recorded, Pending
  <2>2. CASE UploadFinish
    BY <1>2, <1>3, <2>2 DEF UploadFinish
  <2>3. CASE UploadWait
    BY <1>2, <2>3 DEF UploadWait, PoolDone
  <2>4. CASE \/ Dis_Upload \/ DoEncode \/ createHashNames_End
             \/ \E s \in Shards : ConvertFileNameForUP(s)
    BY <1>2, <2>4 DEF Dis_Upload, DoEncode, createHashNames_End,
       ConvertFileNameForUP
  <2>5. ASSUME NEW s \in Shards, AllocateRemote(s) \/ EraseTempShard(s)
        PROVE  Recorded(r, f, t)' \/ Pending(r, f, t)'
    <3>1. /\ pc = "upload" /\ phase[s] # "record"
          /\ UNCHANGED <<pc, target, datamap, store>>
      BY <2>5 DEF AllocateRemote, EraseTempShard, Step
    <3>2. CASE t = s
      BY <1>2, <3>1, <3>2
    <3>3. CASE t # s
      <4>1. phase'[t] = phase[t] /\ dst'[t] = dst[t]
        BY <1>0, <2>5, <3>3 DEF AllocateRemote, EraseTempShard, Step
      <4>2. QED
        BY <1>k, <3>1, <4>1 DEF Recorded, Pending, Exists
    <3>4. QED
      BY <3>2, <3>3
  <2>6. ASSUME NEW s \in Shards, uploadFile(s)
        PROVE  Recorded(r, f, t)' \/ Pending(r, f, t)'
    <3>1. /\ pc = "upload" /\ phase[s] = "copy"
          /\ UNCHANGED <<pc, target, datamap, dst>>
          /\ \A u \in Shards : u # s => phase'[u] = phase[u]
      BY <1>0, <2>6 DEF uploadFile, Step, StepError
    <3>2. dst[s] \in Remotes /\ datamap[f].Remote[s] = NoRemote
      BY <3>1 DEF SendOnce, SendShard
    <3>3. CASE UNCHANGED store
      <4>1. CASE t = s
        BY <1>2, <3>1, <3>3, <4>1
      <4>2. CASE t # s
        BY <1>k, <3>1, <3>3, <4>2 DEF Recorded, Pending, Exists
      <4>3. QED
        BY <4>1, <4>2
    <3>4. CASE /\ store' = Put(store, dst[s], target, s, hashed[target][s])
               /\ Step(s, "record")
      <4>1. hashed[target][s] \in Contents
        BY <1>0 DEF Dir
      <4>2. r # dst[s] \/ t # s => store'[r][f][t] = store[r][f][t]
        BY <1>0, <3>2, <3>4, <4>1, PutEffect
      <4>3. CASE t # s
        BY <1>k, <3>1, <4>2, <4>3 DEF Recorded, Pending, Exists
      <4>4. CASE t = s /\ r = dst[s]
        BY <1>0, <3>1, <3>4, <4>4 DEF Step, Pending
      <4>5. CASE t = s /\ r # dst[s]
        BY <1>k, <3>1, <3>2, <4>2, <4>5, NoRemoteAssumption DEF Recorded,
           Pending
      <4>6. QED
        BY <4>3, <4>4, <4>5
    <3>5. QED
      BY <2>6, <3>3, <3>4 DEF uploadFile
  <2>7. ASSUME NEW s \in Shards, updateRemoteInfo_Up(s)
        PROVE  Recorded(r, f, t)' \/ Pending(r, f, t)'
    <3>1. /\ pc = "upload" /\ phase[s] = "record"
          /\ UNCHANGED <<pc, target, dst, store>>
          /\ \A u \in Shards : u # s => phase'[u] = phase[u]
      BY <1>0, <2>7 DEF updateRemoteInfo_Up, Step, StepError
    <3>2. dst[s] \in Remotes /\ datamap[f].Remote[s] = NoRemote
      BY <3>1 DEF SendOnce, SendShard
    <3>3. /\ datamap'[f].State = datamap[f].State
          /\ datamap'[f].Remote[s] = dst[s]
          /\ t # s => datamap'[f].Remote[t] = datamap[f].Remote[t]
      <4>1. Exists(datamap, target)
        BY <3>1 DEF ModeInv, StateFits, Exists
      <4>2. datamap' = UpdateDistributedFile_CheckFlagAndRemote(
                           datamap, target, s, dst[s])
        BY <2>7, <4>1 DEF updateRemoteInfo_Up, NoEntry
      <4>3. QED
        BY <1>0, <3>2, <4>2, CheckFlagAndRemoteEffect
    <3>4. datamap[f].State = "upload"
      BY <3>1 DEF ModeInv, StateFits
    <3>5. CASE t # s
      BY <1>k, <3>1, <3>3, <3>5 DEF Recorded, Pending, Exists
    <3>6. CASE t = s
      <4>1. r = dst[s]
        BY <1>k, <3>1, <3>2, <3>6, NoRemoteAssumption DEF Recorded, Pending
      <4>2. QED
        BY <3>3, <3>4, <3>6, <4>1 DEF Recorded, Exists
    <3>7. QED
      BY <3>5, <3>6
  <2>8. QED
    BY <1>6, <2>1, <2>2, <2>3, <2>4, <2>5, <2>6, <2>7 DEF UploadStep
<1>7. CASE DownloadStep
  <2>1. CASE Dis_Download
    <3>1. f = cmd.file
      BY <2>1 DEF Dis_Download, FlagInv
    <3>2. QED
      BY <1>2, <1>4, <2>1, <3>1 DEF Dis_Download, States
  <2>2. CASE DownloadReset
    BY <1>2, <1>3, <2>2 DEF DownloadReset
  <2>3. ASSUME NEW s \in Shards, updateRemoteInfo_Down(s)
        PROVE  Recorded(r, f, t)'
    BY <1>2, <1>3, <2>3 DEF updateRemoteInfo_Down
  <2>4. QED
    BY <1>2, <1>7, <2>1, <2>2, <2>3 DEF DownloadStep, DownloadWait, DoDecode,
       AskRemove, DownloadClean, downloadFile, ConvertFileNameForDo
<1>8. CASE RmStep
  <2>1. CASE RmNew
    BY <1>4, <2>1 DEF RmNew, States
  <2>2. CASE RmWait
    BY <1>3, <2>2 DEF RmWait
  <2>3. CASE RmDrop
    BY <2>3 DEF RmDrop, RmTakesAll, NoneLeft
  <2>4. ASSUME NEW s \in Shards, remoteCallDeleteFile(s)
        PROVE  Recorded(r, f, t)'
    <3>1. store'[r][f][t] \in {Absent, store[r][f][t]}
      BY <1>0, <2>4, PutValue DEF remoteCallDeleteFile
    <3>2. QED
      BY <1>1, <2>4, <3>1 DEF remoteCallDeleteFile
  <2>5. ASSUME NEW s \in Shards, MarkRemoved(s) PROVE Recorded(r, f, t)'
    BY <1>2, <1>3, <2>5 DEF MarkRemoved
  <2>6. QED
    BY <1>2, <1>8, <2>1, <2>2, <2>3, <2>4, <2>5 DEF RmStep, Dis_rm, RmResume
<1>9. CASE EarlyReturn
  <2>1. pc # "upload" /\ UNCHANGED store
    BY <1>9, EarlyFrom, EarlyReturnEnds
  <2>2. QED
    BY <1>1, <1>9, <2>1, EarlyMap DEF Exists
<1>10. QED
  BY <1>5, <1>6, <1>7, <1>8, <1>9 DEF Process

(* Every orderly step keeps AllKnown.                                      *)
LEMMA AllKnownStep ==
    ASSUME TypeOK, FlagInv, ModeInv, PathInv, AllKnown, SendOnce, RmTakesAll,
           [Seeing]_vars, ~Fault("silent"), ~Fault("crash"), ~Fault("file")
    PROVE  AllKnown'
<1> SUFFICES ASSUME NEW r \in Remotes, NEW f \in Files, NEW t \in Shards,
                    store'[r][f][t] # Absent
             PROVE  Recorded(r, f, t)' \/ Pending(r, f, t)'
  BY DEF AllKnown
<1>k. store[r][f][t] # Absent => Recorded(r, f, t) \/ Pending(r, f, t)
  BY DEF AllKnown
<1>1. CASE UNCHANGED vars
  BY <1>1, <1>k DEF vars, disk, proc, Recorded, Pending, Exists
<1>2. CASE Environment
  BY <1>2, <1>k, OrderlyEnvironment DEF proc, Recorded, Pending, Exists
<1>3. CASE Process
  <2>1. CASE f = target
    BY <1>3, <2>1, TargetKnown
  <2>2. CASE f # target
    <3>1. Untouched(f)
      BY <1>3, <2>2, OthersUntouched
    <3>2. QED
      BY <1>k, <2>2, <3>1 DEF Untouched, Recorded, Pending, Exists
  <2>3. QED
    BY <2>1, <2>2
<1>4. QED
  BY <1>1, <1>2, <1>3 DEF Seeing

(* So it is in every reachable state.                                      *)
LEMMA KnownHolds == Spec => []KnownInv
<1>1. Init => KnownInv
  <2> SUFFICES ASSUME Init PROVE KnownInv
    OBVIOUS
  <2>0. datamap = EmptyMap
    BY DEF Init
  <2>1. \A r \in Remotes, f \in Files, s \in Shards : store[r][f][s] = Absent
    BY DEF Init, AllShards
  <2>2. \A f \in Files : ~datamap[f].Flag
    BY <2>0, EmptyMapBlank, Zenon
  <2>3. pc = "idle"
    BY DEF Init
  <2>4. QED
    BY <2>1, <2>2, <2>3 DEF KnownInv, AllKnown, SendOnce, RmTakesAll, NoResume
<1>2. /\ TypeOK /\ WindowInv /\ FreshInv /\ KnownInv /\ [Next]_vars
      /\ Sighted => FlagInv
      /\ Sighted => ModeInv
      /\ Readable => RmEntry
      => KnownInv'
  <2> SUFFICES ASSUME TypeOK, WindowInv, FreshInv, KnownInv, [Next]_vars,
                      Sighted => FlagInv, Sighted => ModeInv,
                      Readable => RmEntry, Orderly'
               PROVE  (AllKnown /\ SendOnce /\ RmTakesAll /\ NoResume)'
    BY DEF KnownInv
  <2>0. Sighted /\ [Seeing]_vars /\ FlagInv /\ ModeInv
    BY SightedStep DEF Orderly, Sighted, Never
  <2>1. /\ AllKnown /\ SendOnce /\ RmTakesAll /\ NoResume /\ PathInv
        /\ RmEntry
    BY <2>0, OrderlyBefore DEF KnownInv, FreshInv, Orderly, Readable, Never
  <2>2. ~Fault("silent") /\ ~Fault("crash") /\ ~Fault("file")
    BY <2>0, OrderlyBefore
  <2>3. QED
    BY <2>0, <2>1, <2>2, AllKnownStep, SendStep, RmTakesStep, NoResumeStep
<1>3. QED
  BY <1>1, <1>2, TypeCorrect, WindowHolds, FlagHolds, ModeHolds, FreshHolds,
     RmEntryHolds, PTL DEF Spec

(* For every number of files, shards, remotes, encodings, losses, damages, *)
(* failed allocations, clean-ups and moves, as long as no process dies, no *)
(* inner command fails silently, no call on datamap.json fails and the     *)
(* window is not closed under a command: every object on a remote is       *)
(* recorded in datamap.json, or its goroutine is about to record it, so a  *)
(* removal finds it.  (A death, a swallowed or a failed record do leave    *)
(* objects that nothing names.)                                            *)
THEOREM NothingForgotten == Spec => []NoOrphan
<1>1. KnownInv => NoOrphan
  BY DEF KnownInv, AllKnown, Recorded, Pending, NoOrphan, Orderly
<1>2. QED
  BY <1>1, KnownHolds, PTL

-----------------------------------------------------------------------------
(* Which steps write datamap.json, and which the other pieces of state.    *)
LEMMA MapWriters ==
    ASSUME Process, ~EarlyReturn
    PROVE  \/ UNCHANGED datamap
           \/ StartUpload \/ Dis_Download \/ RmNew \/ RmDrop
           \/ DumpReset \/ UploadFinish \/ DownloadReset \/ RmWait
           \/ \E s \in Shards : \/ updateRemoteInfo_Up(s)
                                \/ updateRemoteInfo_Down(s)
                                \/ MarkRemoved(s)
<1> USE DEF disk
<1>1. CASE CheckState
  BY <1>1 DEF CheckState, CheckState_Clean, DumpUploadState,
     DumpDownloadState, DumpRmState
<1>2. CASE UploadStep
  BY <1>2 DEF UploadStep, Dis_Upload, DoEncode, createHashNames_End,
     UploadWait, ConvertFileNameForUP, AllocateRemote, uploadFile,
     EraseTempShard
<1>3. CASE DownloadStep
  BY <1>3 DEF DownloadStep, DownloadWait, DoDecode, AskRemove, DownloadClean,
     downloadFile, ConvertFileNameForDo
<1>4. CASE RmStep
  BY <1>4 DEF RmStep, Dis_rm, RmResume, remoteCallDeleteFile
<1>5. QED
  BY <1>1, <1>2, <1>3, <1>4 DEF Process

(* Which steps of the process write what lies outside of datamap.json.     *)
LEMMA WorldWriters ==
    ASSUME Process
    PROVE  /\ UNCHANGED out \/ DoDecode
           /\ UNCHANGED encNext \/ DoEncode
           /\ UNCHANGED keyOf \/ DoEncode
           /\ UNCHANGED doomed \/ StartUpload \/ RmNew \/ EarlyReturn
           /\ UNCHANGED cmd
<1> USE DEF world
<1>1. CASE CheckState
  BY <1>1 DEF CheckState, CheckState_Clean, DumpReset, DumpUploadState,
     DumpDownloadState, DumpRmState, Goto
<1>2. CASE UploadStep
  BY <1>2 DEF UploadStep, Dis_Upload, DoEncode, createHashNames_End,
     StartUpload, UploadWait, UploadFinish, ConvertFileNameForUP,
     AllocateRemote, uploadFile, updateRemoteInfo_Up, EraseTempShard, Goto,
     Finish, Step, StepError
<1>3. CASE DownloadStep
  <2>1. CASE DoDecode
    BY <2>1 DEF DoDecode, DoDecode_NoDestination, DoDecode_TooFewShards,
       DoDecode_Restored, DoDecode_WrongPassword, DoDecode_Mixed, Goto
  <2>2. QED
    BY <1>3, <2>1 DEF DownloadStep, Dis_Download, DownloadWait, AskRemove,
       DownloadReset, DownloadClean, downloadFile, FetchedNothing,
       ConvertFileNameForDo, updateRemoteInfo_Down, Goto, Finish, Step
<1>4. CASE RmStep
  BY <1>4 DEF RmStep, Dis_rm, RmNew, RmResume, RmWait, RmDrop,
     remoteCallDeleteFile, MarkRemoved, Goto, Finish, Step,
     StepError
<1>5. CASE EarlyReturn
  BY <1>5, EarlyReturnEnds DEF Finish
<1>6. QED
  BY <1>1, <1>2, <1>3, <1>4, <1>5 DEF Process

(* The environment delivers nothing, encodes nothing and removes nothing.  *)
LEMMA EnvironmentIdle ==
    ASSUME TypeOK, Environment
    PROVE  UNCHANGED <<datamap, doomed, encNext, keyOf, out>>
BY EnvironmentQuiet DEF Environment, Start, Crash, cleanShardFolderOnExit,
   MoveSource, LoseObject, DamageObject, world

(* Only MakeDataMap makes an entry or renumbers one, and only the upload's *)
(* goroutines change the remotes of one.                                   *)
LEMMA EntryKept ==
    ASSUME TypeOK, FlagInv, PathInv, [Seeing]_vars, NEW f \in Files,
           ~EarlyReturn, Exists(datamap', f), pc # "makemap" \/ f # target
    PROVE  /\ Exists(datamap, f)
           /\ datamap'[f].Enc = datamap[f].Enc
           /\ pc # "upload" \/ f # target =>
                 datamap'[f].Remote = datamap[f].Remote
<1>0. datamap \in DataMaps /\ target \in Files
  BY DEF TypeOK
<1>1. CASE UNCHANGED datamap
  BY <1>1 DEF Exists
<1>2. CASE Environment
  BY <1>1, <1>2, EnvironmentIdle
<1>3. CASE UNCHANGED vars
  BY <1>1, <1>3 DEF vars, disk
<1>4. CASE Process /\ f # target
  <2>1. Untouched(f)
    BY <1>4, OthersUntouched
  <2>2. QED
    BY <2>1 DEF Untouched, Exists
<1>5. CASE Process /\ f = target
  <2>1. CASE StartUpload
    BY <1>5, <2>1 DEF StartUpload
  <2>2. CASE Dis_Download
    <3>1. f = cmd.file
      BY <1>5, <2>2 DEF Dis_Download, FlagInv
    <3>2. CASE UNCHANGED datamap
      BY <1>1, <3>2
    <3>3. CASE /\ Exists(datamap, cmd.file)
               /\ datamap' = UpdateFileFlag(datamap, cmd.file, "download")
      <4>1. "download" \in States
        BY DEF States
      <4>2. QED
        BY <1>0, <3>1, <3>3, <4>1, UpdateFileFlagEffect
    <3>4. QED
      BY <2>2, <3>2, <3>3 DEF Dis_Download
  <2>3. CASE RmNew
    <3>1. "rm" \in States
      BY DEF States
    <3>2. datamap' = UpdateFileFlag(datamap, target, "rm") /\ pc = "rmNew"
      BY <2>3 DEF RmNew
    <3>3. Exists(datamap, f)
      BY <1>5, <3>2 DEF PathInv
    <3>4. QED
      BY <1>0, <1>5, <3>1, <3>2, <3>3, UpdateFileFlagEffect
  <2>4. CASE RmDrop
    BY <1>0, <1>5, <2>4, RemoveEffect DEF RmDrop, Exists
  <2>5. CASE DumpReset \/ UploadFinish \/ DownloadReset \/ RmWait
    <3>1. UNCHANGED datamap \/ datamap' = ResetCheckFlag(datamap, target)
      BY <2>5 DEF DumpReset, UploadFinish, DownloadReset, RmWait
    <3>2. QED
      BY <1>0, <1>1, <1>5, <3>1, ResetCheckFlagEffect DEF Exists
  <2>6. ASSUME NEW s \in Shards, updateRemoteInfo_Up(s),
               datamap' # datamap
        PROVE  /\ Exists(datamap, f) /\ datamap'[f].Enc = datamap[f].Enc
               /\ pc = "upload"
    <3>1. dst[s] \in Remotes \cup {NoRemote}
      BY DEF TypeOK
    <3>2. QED
      BY <1>0, <1>5, <2>6, <3>1, CheckFlagAndRemoteEffect
      DEF updateRemoteInfo_Up, Exists
  <2>7. ASSUME NEW s \in Shards, updateRemoteInfo_Down(s) \/ MarkRemoved(s),
               datamap' # datamap
        PROVE  /\ Exists(datamap, f) /\ datamap'[f].Enc = datamap[f].Enc
               /\ datamap'[f].Remote = datamap[f].Remote
    BY <1>0, <1>5, <2>7, CheckFlagEffect DEF updateRemoteInfo_Down,
       MarkRemoved, Exists
  <2>8. QED
    BY <1>1, <1>5, <2>1, <2>2, <2>3, <2>4, <2>5, <2>6, <2>7, MapWriters
<1>6. QED
  BY <1>2, <1>3, <1>4, <1>5 DEF Seeing

-----------------------------------------------------------------------------
(* Encodings are numbered, and none is given out twice.                    *)

(* An upload that has been let in finds a number left.                     *)
EncBound ==
    /\ encNext <= MaxEncodings
    /\ pc = "encode" \/ ret = "encode" => cmd.op = "upload"
    /\ cmd.op = "upload" /\ pc \notin {"idle", "hash", "makemap", "upload",
                                       "stat"} => encNext < MaxEncodings

(* Every entry has an encoding of its own, and nothing was delivered that  *)
(* is not one made so far.                                                 *)
Numbered ==
    /\ \A f \in Files : out[f] <= encNext
    /\ \A f \in Files :
          Exists(datamap, f) => /\ 1 <= datamap[f].Enc
                                /\ datamap[f].Enc <= encNext
    /\ \A f, g \in Files : Exists(datamap, f) /\ f # g =>
          /\ out[g] # datamap[f].Enc
          /\ Exists(datamap, g) => datamap[g].Enc # datamap[f].Enc
    /\ pc \in {"hash", "makemap"} => \A f \in Files :
          /\ out[f] < encNext
          /\ Exists(datamap, f) => datamap[f].Enc < encNext
    /\ pc \in {"upload", "stat"} => out[target] # datamap[target].Enc

(* Every step keeps EncBound.                                              *)
LEMMA EncBoundStep ==
    ASSUME TypeOK, PathInv, EncBound, [Seeing]_vars, ~EarlyReturn
    PROVE  EncBound'
<1> USE DEF world
<1>0. /\ encNext \in Nat /\ MaxEncodings \in Nat
      /\ ret \in {"done", "main", "encode"}
  BY BoundsAssumption DEF TypeOK
<1>1. CASE UNCHANGED <<encNext, pc, ret, cmd>>
  BY <1>1 DEF EncBound
<1>2. CASE Environment
  <2>1. UNCHANGED encNext
    BY <1>2, EnvironmentIdle
  <2>2. ASSUME NEW c \in Commands, Start(c) PROVE EncBound'
    BY <1>0, <2>1, <2>2 DEF Start, EncBound, PathInv
  <2>3. CASE Crash
    BY <2>1, <2>3 DEF Crash, Finish, EncBound
  <2>4. QED
    BY <1>1, <1>2, <2>1, <2>2, <2>3 DEF Environment, cleanShardFolderOnExit,
       MoveSource, LoseObject, DamageObject, proc
<1>3. CASE UNCHANGED vars
  BY <1>1, <1>3 DEF vars, proc
<1>4. CASE DoEncode
  <2>1. CASE Finish("died") /\ UNCHANGED encNext
    BY <2>1 DEF Finish, EncBound
  <2>2. CASE /\ encNext' = encNext + 1 /\ pc' = "hash" /\ pc = "encode"
             /\ UNCHANGED <<cmd, ret>>
    <3>1. encNext < MaxEncodings
      BY <2>2 DEF EncBound
    <3>2. encNext + 1 <= MaxEncodings
      BY <1>0, <3>1
    <3>3. QED
      BY <2>2, <3>2 DEF EncBound
  <2>3. QED
    BY <1>4, <2>1, <2>2 DEF DoEncode
<1>5. CASE Process /\ ~DoEncode
  <2>1. UNCHANGED <<encNext, cmd>>
    BY <1>5, WorldWriters
  <2>2. /\ pc \in {"idle", "hash", "makemap", "upload", "stat"} =>
              pc' \in {"idle", "hash", "makemap", "upload", "stat"}
        /\ pc' = "encode" \/ ret' = "encode" =>
              pc = "encode" \/ ret = "encode" \/ cmd.op = "upload"
    <3>1. CASE CheckState
      BY <3>1 DEF CheckState, CheckState_Clean, DumpReset, DumpUploadState,
         DumpDownloadState, DumpRmState, Goto
    <3>2. CASE UploadStep
      BY <1>5, <3>2 DEF UploadStep, Dis_Upload, createHashNames_End,
         StartUpload, UploadWait, UploadFinish, ConvertFileNameForUP,
         AllocateRemote, uploadFile, updateRemoteInfo_Up, EraseTempShard,
         Goto, Finish, Step, StepError
    <3>3. CASE DownloadStep
      <4>1. CASE DoDecode
        BY <4>1 DEF DoDecode, DoDecode_NoDestination, DoDecode_TooFewShards,
           DoDecode_Restored, DoDecode_WrongPassword, DoDecode_Mixed, Goto
      <4>2. QED
        BY <3>3, <4>1 DEF DownloadStep, Dis_Download, DownloadWait, AskRemove,
           DownloadReset, DownloadClean, downloadFile, FetchedNothing,
           ConvertFileNameForDo, updateRemoteInfo_Down, Goto, Finish, Step
    <3>4. CASE RmStep
      BY <1>0, <3>4 DEF RmStep, Dis_rm, RmNew, RmResume, RmWait, RmDrop,
         remoteCallDeleteFile, MarkRemoved, Goto, Finish, Step,
         StepError
    <3>5. QED
      BY <1>5, <3>1, <3>2, <3>3, <3>4 DEF Process
  <2>3. QED
    BY <2>1, <2>2 DEF EncBound
<1>6. QED
  BY <1>2, <1>3, <1>4, <1>5 DEF Seeing

(* A delivery is of the entry's own encoding.                              *)
LEMMA OutGrows ==
    ASSUME TypeOK, ModeInv, AllFresh, [Seeing]_vars, NEW f \in Files
    PROVE  \/ out'[f] = out[f]
           \/ DoDecode /\ f = target /\ out'[f] = datamap[f].Enc
                /\ Exists(datamap, f)
<1>0. out \in [Files -> Nat] /\ plain \in Dir /\ target \in Files
  BY DEF TypeOK, Dir
<1>1. CASE UNCHANGED out
  BY <1>1
<1>2. CASE DoDecode
  <2>1. Exists(datamap, target)
    BY <1>2, DecodeFresh
  <2>2. CASE DoDecode_Restored
    <3>1. PICK s \in Present(target) :
             out' = [out EXCEPT ![target] = plain[target][s]]
      BY <2>2 DEF DoDecode_Restored
    <3>2. plain[target][s] = datamap[target].Enc
      BY <1>0, <2>1 DEF Present, AllFresh, FreshShard
    <3>3. QED
      BY <1>0, <1>2, <2>1, <3>1, <3>2
  <2>3. QED
    BY <1>1, <1>2, <2>2 DEF DoDecode, DoDecode_NoDestination,
       DoDecode_TooFewShards, DoDecode_WrongPassword, DoDecode_Mixed
<1>3. QED
  BY <1>1, <1>2, WorldWriters, EnvironmentIdle DEF Seeing, vars, world

(* Where an upload under way comes from.                                   *)
LEMMA ArrivesAtStat ==
    ASSUME TypeOK, Process, pc' \in {"hash", "makemap", "upload", "stat"}
    PROVE  /\ UploadStep /\ UNCHANGED target
           /\ pc' = "hash" => pc = "hash" \/ DoEncode
           /\ pc' = "makemap" => pc = "hash"
           /\ pc' = "upload" => pc = "upload" \/ StartUpload
           /\ pc' = "stat" => pc = "upload"
<1>1. CASE CheckState
  <2>1. pc' \in {"main", "rmNew", "dumpReset", "rmResume"}
    BY <1>1 DEF CheckState, CheckState_Clean, DumpReset, DumpUploadState,
       DumpDownloadState, DumpRmState, Goto
  <2>2. QED
    BY <2>1
<1>2. CASE DownloadStep
  <2>1. pc' \in {"idle", "download", "decode", "ask", "reset", "clean",
                 "rmNew"}
    BY <1>2 DEF DownloadStep, Dis_Download, DownloadWait, DoDecode,
       DoDecode_NoDestination, DoDecode_TooFewShards, DoDecode_Restored,
       DoDecode_WrongPassword, DoDecode_Mixed, AskRemove, DownloadReset,
       DownloadClean, downloadFile,
       FetchedNothing, ConvertFileNameForDo, updateRemoteInfo_Down, Finish,
       Goto, Step
  <2>2. QED
    BY <2>1
<1>3. CASE RmStep
  <2>1. ret \in {"done", "main", "encode"}
    BY DEF TypeOK
  <2>2. pc' \in {"idle", "main", "encode", "rmNew", "rm", "drop"}
    BY <1>3, <2>1 DEF RmStep, Dis_rm, RmNew, RmResume, RmWait, RmDrop,
       remoteCallDeleteFile, MarkRemoved, Finish, Goto, Step, StepError
  <2>3. QED
    BY <2>2
<1>4. CASE UploadStep
  BY <1>4 DEF UploadStep, Dis_Upload, DoEncode, createHashNames_End,
     StartUpload, UploadWait, UploadFinish, ConvertFileNameForUP,
     AllocateRemote, uploadFile, updateRemoteInfo_Up, EraseTempShard,
     Goto, Finish, Step, StepError
<1>5. QED
  BY <1>1, <1>2, <1>3, <1>4, EarlyReturnEnds DEF Process, Finish

(* The step that makes an entry gives it the newest number.                *)
LEMMA NumberedMade ==
    ASSUME TypeOK, FlagInv, PathInv, Numbered, StartUpload
    PROVE  Numbered'
<1> USE DEF world
<1>0. /\ datamap \in DataMaps /\ encNext \in Nat /\ out \in [Files -> Nat]
      /\ target \in Files
  BY DEF TypeOK
<1>1. pc = "makemap" /\ UNCHANGED <<out, encNext, target>>
  BY DEF StartUpload, Finish
<1>2. CASE UNCHANGED datamap /\ pc' = "idle"
  BY <1>1, <1>2 DEF Numbered, Exists
<1>3. CASE datamap' = MakeDataMap(datamap, target, encNext) /\ pc' = "upload"
  <2>e. datamap'[target].Enc = encNext
    BY <1>0, <1>3, MakeDataMapEffect
  <2>g. \A g \in Files : g # target => datamap'[g] = datamap[g]
    BY OthersUntouched DEF Process, UploadStep, Untouched
  <2>1. /\ datamap'[target].Enc = encNext
        /\ \A g \in Files : g # target => datamap'[g] = datamap[g]
    BY <2>e, <2>g
  <2>2. \A g \in Files : /\ g # target => datamap'[g].Enc = datamap[g].Enc
                         /\ g # target /\ Exists(datamap', g) =>
                               Exists(datamap, g)
    BY <2>1 DEF Exists
  <2>3. \A g \in Files : /\ out[g] \in Nat /\ out[g] < encNext
                         /\ datamap[g].Enc \in Nat
                         /\ Exists(datamap, g) => datamap[g].Enc < encNext
    BY <1>0, <1>1, EntryType DEF Numbered
  <2>4. /\ \A f \in Files : out[f] <= encNext
        /\ 1 <= encNext
    BY <1>0, <2>3
  <2>5. \A f \in Files :
           Exists(datamap', f) => 1 <= datamap'[f].Enc
                                  /\ datamap'[f].Enc <= encNext
    <3> SUFFICES ASSUME NEW f \in Files, Exists(datamap', f)
                 PROVE  1 <= datamap'[f].Enc /\ datamap'[f].Enc <= encNext
      OBVIOUS
    <3>1. CASE f = target
      BY <1>0, <2>1, <2>4, <3>1
    <3>2. CASE f # target
      BY <2>2, <3>2 DEF Numbered
    <3>3. QED
      BY <3>1, <3>2
  <2>6. \A f, g \in Files : Exists(datamap', f) /\ f # g =>
           /\ out[g] # datamap'[f].Enc
           /\ Exists(datamap', g) => datamap'[g].Enc # datamap'[f].Enc
    <3> SUFFICES ASSUME NEW f \in Files, NEW g \in Files, f # g,
                        Exists(datamap', f)
                 PROVE  /\ out[g] # datamap'[f].Enc
                        /\ Exists(datamap', g) =>
                              datamap'[g].Enc # datamap'[f].Enc
      OBVIOUS
    <3>1. CASE f = target
      <4>1. /\ out[g] \in Nat /\ out[g] < encNext
            /\ Exists(datamap', g) => datamap'[g].Enc \in Nat
                                      /\ datamap'[g].Enc < encNext
        BY <2>2, <2>3, <3>1
      <4>2. QED
        BY <1>0, <2>1, <3>1, <4>1
    <3>2. CASE g = target
      <4>1. /\ Exists(datamap, f) /\ datamap'[f].Enc = datamap[f].Enc
            /\ datamap[f].Enc \in Nat /\ datamap[f].Enc < encNext
        BY <2>2, <2>3, <3>2
      <4>2. out[g] # datamap[f].Enc
        BY <4>1 DEF Numbered
      <4>3. QED
        BY <1>0, <2>1, <3>2, <4>1, <4>2
    <3>3. CASE f # target /\ g # target
      BY <2>2, <3>3 DEF Numbered
    <3>4. QED
      BY <3>1, <3>2, <3>3
  <2>7. out[target] # datamap'[target].Enc
    BY <1>0, <2>1, <2>3
  <2>8. QED
    BY <1>1, <1>3, <2>4, <2>5, <2>6, <2>7 DEF Numbered
<1>4. QED
  BY <1>2, <1>3 DEF StartUpload, Finish

(* A step that makes no entry and no encoding leaves the numbers in order. *)
LEMMA NumberedKept ==
    ASSUME TypeOK, FlagInv, ModeInv, PathInv, AllFresh, Numbered, [Seeing]_vars,
           ~EarlyReturn, ~DoEncode, ~StartUpload
    PROVE  Numbered'
<1>0. /\ datamap \in DataMaps /\ encNext \in Nat /\ out \in [Files -> Nat]
      /\ target \in Files
  BY DEF TypeOK
<1>1. UNCHANGED encNext
  BY WorldWriters, EnvironmentIdle DEF Seeing, vars, world
<1>2. ASSUME NEW f \in Files, Exists(datamap', f)
      PROVE  Exists(datamap, f) /\ datamap'[f].Enc = datamap[f].Enc
  <2>1. CASE pc = "makemap" /\ f = target
    <3>1. UNCHANGED datamap
      <4>1. CASE Process
        BY <2>1, <4>1, MapWriters DEF Dis_Download, RmNew, RmDrop, DumpReset,
           UploadFinish, DownloadReset, RmWait, updateRemoteInfo_Up,
           updateRemoteInfo_Down, MarkRemoved
      <4>2. QED
        BY <4>1, EnvironmentIdle DEF Seeing, vars, disk
    <3>2. QED
      BY <1>2, <3>1
  <2>2. QED
    BY <1>2, <2>1, EntryKept
<1>3. ASSUME NEW f \in Files
      PROVE  \/ out'[f] = out[f]
             \/ /\ Exists(datamap, f) /\ out'[f] = datamap[f].Enc
                /\ pc = "decode" /\ pc' \in {"ask", "reset"}
  <2>1. DoDecode => pc = "decode" /\ pc' \in {"ask", "reset"}
    BY DEF DoDecode, DoDecode_NoDestination, DoDecode_TooFewShards,
       DoDecode_Restored, DoDecode_WrongPassword, DoDecode_Mixed, Goto
  <2>2. QED
    BY <2>1, OutGrows
<1>4. \A f \in Files : out'[f] <= encNext
  BY <1>3 DEF Numbered
<1>5. \A f \in Files : Exists(datamap', f) => /\ 1 <= datamap'[f].Enc
                                              /\ datamap'[f].Enc <= encNext
  BY <1>2 DEF Numbered
<1>6. \A f, g \in Files : Exists(datamap', f) /\ f # g =>
         /\ out'[g] # datamap'[f].Enc
         /\ Exists(datamap', g) => datamap'[g].Enc # datamap'[f].Enc
  BY <1>2, <1>3 DEF Numbered
<1>7. ASSUME pc' \in {"hash", "makemap", "upload", "stat"}
      PROVE  /\ UNCHANGED target
             /\ pc' \in {"hash", "makemap"} => pc \in {"hash", "makemap"}
             /\ pc' \in {"upload", "stat"} => pc \in {"upload", "stat"}
             /\ \A f \in Files : out'[f] = out[f]
  <2>1. CASE Process
    BY <1>3, <1>7, <2>1, ArrivesAtStat
  <2>2. CASE Environment \/ UNCHANGED vars
    BY <1>3, <1>7, <2>2, EnvironmentStays DEF vars, proc
  <2>3. QED
    BY <2>1, <2>2 DEF Seeing
<1>8. pc' \in {"hash", "makemap"} => \A f \in Files :
         /\ out'[f] < encNext
         /\ Exists(datamap', f) => datamap'[f].Enc < encNext
  BY <1>2, <1>7 DEF Numbered
<1>9. pc' \in {"upload", "stat"} => out'[target'] # datamap'[target'].Enc
  <2> SUFFICES ASSUME pc' \in {"upload", "stat"}
               PROVE  out'[target'] # datamap'[target'].Enc
    OBVIOUS
  <2>1. /\ pc \in {"upload", "stat"} /\ target' = target
        /\ out'[target] = out[target]
    BY <1>0, <1>7
  <2>2. Exists(datamap', target)
    <3>1. ModeInv'
      BY ModeStep
    <3>2. QED
      BY <2>1, <3>1 DEF ModeInv, StateFits, Exists
  <2>3. QED
    BY <1>0, <1>2, <2>1, <2>2 DEF Numbered
<1>10. QED
  BY <1>1, <1>4, <1>5, <1>6, <1>8, <1>9 DEF Numbered

(* Every calm step keeps the numbers in order.                             *)
LEMMA NumberedStep ==
    ASSUME TypeOK, FlagInv, ModeInv, PathInv, AllFresh, Numbered, [Seeing]_vars,
           ~EarlyReturn
    PROVE  Numbered'
<1>1. CASE DoEncode
  <2>0. /\ encNext \in Nat /\ out \in [Files -> Nat] /\ datamap \in DataMaps
    BY DEF TypeOK
  <2>1. UNCHANGED <<datamap, out>> /\ pc' \in {"hash", "idle"}
    BY <1>1 DEF DoEncode, Finish
  <2>2. CASE UNCHANGED encNext /\ pc' = "idle"
    BY <2>1, <2>2 DEF Numbered, Exists
  <2>3. CASE encNext' = encNext + 1
    <3>1. \A f \in Files : /\ out[f] \in Nat /\ out[f] <= encNext
                           /\ datamap[f].Enc \in Nat
                           /\ Exists(datamap, f) => datamap[f].Enc <= encNext
      BY <2>0, EntryType DEF Numbered
    <3>2. \A f \in Files : /\ out[f] <= encNext + 1 /\ out[f] < encNext + 1
                           /\ Exists(datamap, f) =>
                                 /\ datamap[f].Enc <= encNext + 1
                                 /\ datamap[f].Enc < encNext + 1
      BY <2>0, <3>1
    <3>3. QED
      BY <2>1, <2>3, <3>2 DEF Numbered, Exists
  <2>4. QED
    BY <1>1, <2>1, <2>2, <2>3 DEF DoEncode, Finish
<1>2. QED
  BY <1>1, NumberedMade, NumberedKept

-----------------------------------------------------------------------------
(* What a file that counts is sure of.                                     *)

(* The process touches only the file it works on, and a file begins to     *)
(* count at the last write of its upload.                                  *)
LEMMA KeptComes ==
    ASSUME TypeOK, FlagInv, ModeInv, PathInv, [Seeing]_vars, NEW f \in Files,
           ~EarlyReturn, Kept(f)'
    PROVE  \/ Kept(f)
           \/ UploadFinish /\ f = target
<1> USE DEF disk
<1>0. datamap \in DataMaps /\ target \in Files
  BY DEF TypeOK
<1>1. CASE UNCHANGED <<datamap, doomed>>
  BY <1>1 DEF Kept, Exists
<1>2. CASE f # target /\ Process
  <2>1. Untouched(f)
    BY <1>2, OthersUntouched
  <2>2. QED
    BY <2>1 DEF Untouched, Kept, Exists
<1>3. CASE f = target /\ Process
  <2>1. CASE StartUpload
    <3>1. CASE datamap' = MakeDataMap(datamap, target, encNext)
      <4>1. encNext \in Nat
        BY DEF TypeOK
      <4>2. datamap'[f].Flag /\ datamap'[f].State = "upload"
        BY <1>0, <1>3, <3>1, <4>1, MakeDataMapEffect
      <4>3. QED
        BY <4>2 DEF Kept
    <3>2. QED
      BY <1>1, <2>1, <3>1 DEF StartUpload
  <2>2. CASE RmNew
    <3>1. doomed'[f]
      BY <1>3, <2>2 DEF RmNew, TypeOK
    <3>2. QED
      BY <3>1 DEF Kept
  <2>3. CASE /\ UNCHANGED doomed /\ Exists(datamap, f)
             /\ datamap[f].Flag => datamap[f].State = "download"
    BY <2>3 DEF Kept
  <2>4. CASE Dis_Download /\ UNCHANGED doomed
    <3>1. f = cmd.file /\ ~datamap[f].Flag
      BY <1>3, <2>4 DEF Dis_Download, FlagInv, OnlyTarget, Working
    <3>2. QED
      BY <1>1, <2>3, <2>4, <3>1 DEF Dis_Download
  <2>5. CASE RmDrop
    BY <1>0, <1>3, <2>5, RemoveEffect DEF RmDrop, Kept, Exists
  <2>6. CASE (DumpReset \/ DownloadReset) /\ UNCHANGED doomed
    <3>1. datamap[f].State = "download"
      BY <1>3, <2>6 DEF DumpReset, DownloadReset, ModeInv, StateFits
    <3>2. QED
      BY <2>3, <2>6, <3>1 DEF Exists
  <2>7. CASE UploadFinish
    BY <1>3, <2>7
  <2>8. CASE RmWait /\ UNCHANGED doomed
    <3>1. doomed[f]
      BY <1>3, <2>8 DEF RmWait, ModeInv, RemovalDoomed
    <3>2. QED
      BY <2>8, <3>1 DEF Kept
  <2>9. ASSUME NEW s \in Shards, UNCHANGED doomed, datamap' # datamap,
               \/ updateRemoteInfo_Up(s) \/ updateRemoteInfo_Down(s)
               \/ MarkRemoved(s)
        PROVE  Kept(f)
    <3>1. dst[s] \in Remotes \cup {NoRemote}
      BY DEF TypeOK
    <3>2. /\ datamap'[f].Flag <=> datamap[f].Flag
          /\ datamap'[f].State = datamap[f].State
      BY <1>0, <1>3, <2>9, <3>1, CheckFlagEffect, CheckFlagAndRemoteEffect
      DEF updateRemoteInfo_Up, updateRemoteInfo_Down, MarkRemoved
    <3>3. QED
      BY <2>9, <3>2 DEF Kept, Exists
  <2>10. QED
    BY <1>1, <1>3, <2>1, <2>2, <2>4, <2>5, <2>6, <2>7, <2>8, <2>9,
       MapWriters, WorldWriters
<1>4. QED
  BY <1>1, <1>2, <1>3, EnvironmentIdle DEF Seeing, vars

(* A file that counts, and a shard that an upload has recorded, has a      *)
(* remote.                                                                 *)
RemotesKnown ==
    /\ \A f \in Files : Kept(f) =>
          \A s \in Shards : datamap[f].Remote[s] # NoRemote
    /\ pc = "upload" => \A s \in Shards :
          phase[s] = "erase" \/ (phase[s] = "done" /\ ~errs) =>
              datamap[target].Remote[s] # NoRemote
    /\ pc = "stat" => \A s \in Shards : datamap[target].Remote[s] # NoRemote

(* Every calm step keeps RemotesKnown.                                     *)
LEMMA RemotesStep ==
    ASSUME TypeOK, FlagInv, ModeInv, PathInv, SentFresh, RemotesKnown,
           [Seeing]_vars, ~EarlyReturn, Recording
    PROVE  RemotesKnown'
<1> USE DEF disk
<1>0. /\ datamap \in DataMaps /\ target \in Files
      /\ phase \in [Shards -> Phases] /\ errs \in BOOLEAN
      /\ dst \in [Shards -> Remotes \cup {NoRemote}] /\ encNext \in Nat
  BY DEF TypeOK
<1>1. ASSUME NEW f \in Files, Kept(f)', NEW s \in Shards
      PROVE  datamap'[f].Remote[s] # NoRemote
  <2>1. Exists(datamap', f)
    BY <1>1 DEF Kept
  <2>2. CASE Kept(f)
    <3>1. pc \notin {"makemap", "upload"} \/ f # target
      BY <2>2 DEF Kept, PathInv, ModeInv, StateFits
    <3>2. QED
      BY <1>1, <2>1, <2>2, <3>1, EntryKept DEF RemotesKnown
  <2>3. CASE UploadFinish /\ f = target
    <3>1. pc = "stat"
      BY <2>3 DEF UploadFinish
    <3>2. QED
      BY <1>1, <2>1, <2>3, <3>1, EntryKept DEF RemotesKnown
  <2>4. QED
    BY <1>1, <2>2, <2>3, KeptComes
<1>2. ASSUME pc' = "upload", NEW t \in Shards,
             phase'[t] = "erase" \/ (phase'[t] = "done" /\ ~errs')
      PROVE  datamap'[target'].Remote[t] # NoRemote
  <2>1. CASE UNCHANGED <<proc, datamap>>
    BY <1>2, <2>1 DEF proc, RemotesKnown
  <2>2. CASE Environment \/ UNCHANGED vars
    BY <1>2, <2>1, <2>2, EnvironmentStays, EnvironmentIdle DEF vars
  <2>3. CASE Process
    <3>1. UploadStep
      BY <1>2, <2>3, ArrivesByUpload
    <3>2. CASE StartUpload
      BY <1>2, <3>2 DEF StartUpload, Finish, StartPool, AllShards
    <3>3. ASSUME NEW s \in Shards, AllocateRemote(s) \/ uploadFile(s)
          PROVE  datamap'[target'].Remote[t] # NoRemote
      <4>1. /\ pc = "upload" /\ UNCHANGED <<target, datamap>>
            /\ phase'[t] = phase[t] \/ (t = s /\ phase'[t] \notin {"erase"})
            /\ ~errs' => ~errs /\ (t = s => phase'[t] \in {"copy", "record"})
        BY <1>0, <3>3 DEF AllocateRemote, uploadFile, Step, StepError
      <4>2. QED
        BY <1>2, <4>1 DEF RemotesKnown
    <3>4. ASSUME NEW s \in Shards, updateRemoteInfo_Up(s)
          PROVE  datamap'[target'].Remote[t] # NoRemote
      <4>1. /\ pc = "upload" /\ UNCHANGED <<target, errs>>
            /\ phase[s] = "record" /\ dst[s] \in Remotes
            /\ t # s => phase'[t] = phase[t]
        BY <1>0, <3>4 DEF updateRemoteInfo_Up, Recording, Step, SentFresh,
           SentShard
      <4>2. /\ datamap'[target].Remote[s] = dst[s]
            /\ t # s => datamap'[target].Remote[t] = datamap[target].Remote[t]
        BY <1>0, <3>4, <4>1, CheckFlagAndRemoteEffect
        DEF updateRemoteInfo_Up, Recording
      <4>3. QED
        BY <1>2, <4>1, <4>2, NoRemoteAssumption DEF RemotesKnown
    <3>5. ASSUME NEW s \in Shards, EraseTempShard(s)
          PROVE  datamap'[target'].Remote[t] # NoRemote
      <4>1. /\ pc = "upload" /\ UNCHANGED <<target, errs, datamap>>
            /\ phase[s] = "erase" /\ (t # s => phase'[t] = phase[t])
        BY <1>0, <3>5 DEF EraseTempShard, Step
      <4>2. QED
        BY <1>2, <4>1 DEF RemotesKnown
    <3>6. QED
      BY <1>2, <3>1, <3>2, <3>3, <3>4, <3>5 DEF UploadStep, Dis_Upload,
         DoEncode, createHashNames_End, UploadWait, UploadFinish,
         ConvertFileNameForUP, Goto, Finish, Step, StepError
  <2>4. QED
    BY <2>2, <2>3 DEF Seeing
<1>3. ASSUME pc' = "stat", NEW t \in Shards
      PROVE  datamap'[target'].Remote[t] # NoRemote
  <2>1. CASE UNCHANGED <<proc, datamap>>
    BY <1>3, <2>1 DEF proc, RemotesKnown
  <2>2. CASE Environment \/ UNCHANGED vars
    BY <1>3, <2>1, <2>2, EnvironmentStays, EnvironmentIdle DEF vars
  <2>3. CASE Process
    <3>1. UploadStep /\ pc = "upload"
      BY <1>3, <2>3, ArrivesAtStat
    <3>2. UploadWait
      BY <1>3, <3>1 DEF UploadStep, Dis_Upload, DoEncode, createHashNames_End,
         StartUpload, UploadFinish, ConvertFileNameForUP, AllocateRemote,
         uploadFile, updateRemoteInfo_Up, EraseTempShard, Finish, Step,
         StepError
    <3>3. /\ phase[t] = "done" /\ ~errs /\ UNCHANGED <<target, datamap>>
      BY <1>3, <3>2 DEF UploadWait, PoolDone, Finish, Goto
    <3>4. QED
      BY <3>1, <3>3 DEF RemotesKnown
  <2>4. QED
    BY <2>2, <2>3 DEF Seeing
<1>4. QED
  BY <1>1, <1>2, <1>3 DEF RemotesKnown

-----------------------------------------------------------------------------
(* What is left of a file in the shard directory.                          *)

(* Renaming and erasing leave nothing under the name that was there.       *)
Emptied ==
    /\ pc = "hash" => \A s \in Shards :
          phase[s] = "done" => plain[target][s] = Absent
    /\ pc \in {"makemap", "upload"} => \A s \in Shards :
          plain[target][s] = Absent
    /\ pc = "upload" => \A s \in Shards :
          phase[s] = "done" => hashed[target][s] = Absent
    /\ pc = "download" => \A s \in Shards :
          phase[s] \in {"check", "done"} => hashed[target][s] = Absent
    /\ pc = "decode" => \A s \in Shards : hashed[target][s] = Absent

(* Where a download under way comes from.                                  *)
LEMMA ArrivesByDownload ==
    ASSUME TypeOK, Process, pc' \in {"download", "decode"}
    PROVE  DownloadStep
<1>1. CASE CheckState
  <2>1. pc' \in {"main", "rmNew", "dumpReset", "rmResume"}
    BY <1>1 DEF CheckState, CheckState_Clean, DumpReset, DumpUploadState,
       DumpDownloadState, DumpRmState, Goto
  <2>2. QED
    BY <2>1
<1>2. CASE UploadStep
  <2>1. pc' \in {"idle", "encode", "rmNew", "hash", "makemap", "upload",
                 "stat"}
    BY <1>2 DEF UploadStep, Dis_Upload, DoEncode, createHashNames_End,
       StartUpload, UploadWait, UploadFinish, ConvertFileNameForUP,
       AllocateRemote, uploadFile, updateRemoteInfo_Up, EraseTempShard,
       Goto, Finish, Step, StepError
  <2>2. QED
    BY <2>1
<1>3. CASE RmStep
  <2>1. ret \in {"done", "main", "encode"}
    BY DEF TypeOK
  <2>2. pc' \in {"idle", "main", "encode", "rmNew", "rm", "drop"}
    BY <1>3, <2>1 DEF RmStep, Dis_rm, RmNew, RmResume, RmWait, RmDrop,
       remoteCallDeleteFile, MarkRemoved, Finish, Goto, Step, StepError
  <2>3. QED
    BY <2>2
<1>4. QED
  BY <1>1, <1>2, <1>3, EarlyReturnEnds DEF Process, Finish

(* The steps of an upload keep Emptied.                                    *)
LEMMA EmptiedUpload ==
    ASSUME TypeOK, Emptied, UploadStep, Recording
    PROVE  Emptied'
<1> USE DEF disk
<1>0. /\ target \in Files /\ hashed \in Dir /\ plain \in Dir
      /\ phase \in [Shards -> Phases]
  BY DEF TypeOK, Dir
<1>1. CASE Dis_Upload \/ UploadWait \/ UploadFinish
  <2>1. pc' \notin {"hash", "makemap", "upload", "download", "decode"}
    BY <1>1 DEF Dis_Upload, UploadWait, UploadFinish, Finish, Goto
  <2>2. QED
    BY <2>1 DEF Emptied
<1>2. CASE DoEncode
  <2>1. pc' = "idle" \/ (pc' = "hash" /\ phase' = AllShards("hash"))
    BY <1>2 DEF DoEncode, Finish, StartPool
  <2>2. QED
    BY <2>1 DEF Emptied, AllShards
<1>3. CASE createHashNames_End
  <2>1. /\ pc = "hash" /\ UNCHANGED <<target, plain>>
        /\ \A s \in Shards : phase[s] = "done"
        /\ pc' \in {"idle", "makemap"}
    BY <1>3 DEF createHashNames_End, PoolDone, Finish, Goto
  <2>2. QED
    BY <2>1 DEF Emptied
<1>4. CASE StartUpload
  <2>1. /\ pc = "makemap" /\ UNCHANGED <<target, plain>>
        /\ pc' = "idle" \/ (pc' = "upload" /\ phase' = AllShards("alloc"))
    BY <1>4 DEF StartUpload, Finish, StartPool
  <2>2. QED
    BY <2>1 DEF Emptied, AllShards
<1>5. ASSUME NEW s \in Shards, ConvertFileNameForUP(s) PROVE Emptied'
  <2>1. /\ pc = "hash" /\ UNCHANGED <<pc, target>>
        /\ \A t \in Shards : t # s => phase'[t] = phase[t]
    BY <1>0, <1>5 DEF ConvertFileNameForUP, Step, StepError
  <2>2. /\ plain'[target][s] = Absent
        /\ \A t \in Shards : t # s => plain'[target][t] = plain[target][t]
    BY <1>0, <1>5, WriteEffect, ContentsType DEF ConvertFileNameForUP
  <2>3. QED
    BY <2>1, <2>2 DEF Emptied
<1>6. ASSUME NEW s \in Shards,
             AllocateRemote(s) \/ uploadFile(s) \/ updateRemoteInfo_Up(s)
      PROVE  Emptied'
  <2>1. /\ pc = "upload" /\ UNCHANGED <<pc, target, hashed, plain>>
        /\ \A t \in Shards : t # s => phase'[t] = phase[t]
        /\ phase'[s] = "done" => hashed[target][s] = Absent
    BY <1>0, <1>6 DEF AllocateRemote, uploadFile, updateRemoteInfo_Up,
       Recording, Step, StepError
  <2>2. QED
    BY <2>1 DEF Emptied
<1>7. ASSUME NEW s \in Shards, EraseTempShard(s) PROVE Emptied'
  <2>1. /\ pc = "upload" /\ UNCHANGED <<pc, target, plain>>
        /\ \A t \in Shards : t # s => phase'[t] = phase[t]
    BY <1>0, <1>7 DEF EraseTempShard, Step
  <2>2. /\ hashed'[target][s] = Absent
        /\ \A t \in Shards : t # s => hashed'[target][t] = hashed[target][t]
    BY <1>0, <1>7, WriteEffect, ContentsType DEF EraseTempShard
  <2>3. QED
    BY <2>1, <2>2 DEF Emptied
<1>8. QED
  BY <1>1, <1>2, <1>3, <1>4, <1>5, <1>6, <1>7 DEF UploadStep

(* The steps of a download keep Emptied.                                   *)
LEMMA EmptiedDownload ==
    ASSUME TypeOK, Emptied, DownloadStep
    PROVE  Emptied'
<1> USE DEF disk
<1>0. /\ target \in Files /\ hashed \in Dir /\ plain \in Dir
      /\ phase \in [Shards -> Phases]
  BY DEF TypeOK, Dir
<1>1. CASE DoDecode \/ AskRemove \/ DownloadReset \/ DownloadClean
  <2>1. pc' \notin {"hash", "makemap", "upload", "download", "decode"}
    BY <1>1 DEF DoDecode, DoDecode_NoDestination, DoDecode_TooFewShards,
       DoDecode_Restored, DoDecode_WrongPassword, DoDecode_Mixed, AskRemove,
       DownloadReset, DownloadClean, Finish, Goto
  <2>2. QED
    BY <2>1 DEF Emptied
<1>2. CASE Dis_Download
  <2>1. pc' = "idle" \/ (pc' = "download" /\ phase' = AllShards("fetch"))
    BY <1>2 DEF Dis_Download, Finish, StartPool
  <2>2. QED
    BY <2>1 DEF Emptied, AllShards
<1>3. CASE DownloadWait
  <2>1. /\ pc = "download" /\ pc' = "decode" /\ UNCHANGED <<target, hashed>>
        /\ \A s \in Shards : phase[s] = "done"
    BY <1>3 DEF DownloadWait, PoolDone, Goto
  <2>2. QED
    BY <2>1 DEF Emptied
<1>4. ASSUME NEW s \in Shards, downloadFile(s) PROVE Emptied'
  <2>0. pc = "download"
    BY <1>4 DEF downloadFile
  <2>1. CASE Finish("died")
    BY <2>1 DEF Finish, Emptied
  <2>2. CASE FetchedNothing(s) /\ UNCHANGED hashed
    <3>1. /\ UNCHANGED <<pc, target, hashed>>
          /\ \A t \in Shards : t # s => phase'[t] = phase[t]
          /\ phase'[s] \in {"check", "done"} => hashed[target][s] = Absent
      BY <1>0, <2>2 DEF FetchedNothing, Step
    <3>2. QED
      BY <2>0, <3>1 DEF Emptied
  <2>3. CASE /\ hashed' = Write(hashed, target, s, store[dst[s]][target][s])
             /\ Step(s, "rename")
    <3>1. /\ UNCHANGED <<pc, target>> /\ phase'[s] = "rename"
          /\ \A t \in Shards : t # s => phase'[t] = phase[t]
      BY <1>0, <2>3 DEF Step
    <3>2. \A t \in Shards : t # s => hashed'[target][t] = hashed[target][t]
      BY <1>0, <2>3 DEF Write, Dir
    <3>3. QED
      BY <2>0, <3>1, <3>2 DEF Emptied
  <2>4. QED
    BY <1>4, <2>1, <2>2, <2>3 DEF downloadFile
<1>5. ASSUME NEW s \in Shards, ConvertFileNameForDo(s) PROVE Emptied'
  <2>1. /\ pc = "download" /\ UNCHANGED <<pc, target>>
        /\ \A t \in Shards : t # s => phase'[t] = phase[t]
    BY <1>0, <1>5 DEF ConvertFileNameForDo, Step
  <2>2. /\ hashed'[target][s] = Absent
        /\ \A t \in Shards : t # s => hashed'[target][t] = hashed[target][t]
    BY <1>0, <1>5, WriteEffect, ContentsType DEF ConvertFileNameForDo
  <2>3. QED
    BY <2>1, <2>2 DEF Emptied
<1>6. ASSUME NEW s \in Shards, updateRemoteInfo_Down(s) PROVE Emptied'
  <2>1. /\ pc = "download" /\ UNCHANGED <<pc, target, hashed>>
        /\ phase[s] = "check"
        /\ \A t \in Shards : t # s => phase'[t] = phase[t]
    BY <1>0, <1>6 DEF updateRemoteInfo_Down, Step
  <2>2. QED
    BY <2>1 DEF Emptied
<1>7. QED
  BY <1>1, <1>2, <1>3, <1>4, <1>5, <1>6 DEF DownloadStep

(* Every step keeps Emptied.                                               *)
LEMMA EmptiedStep ==
    ASSUME TypeOK, Emptied, [Seeing]_vars, ~Fault("damage"), Recording
    PROVE  Emptied'
<1>0. target \in Files
  BY DEF TypeOK
<1>1. CASE pc' \notin {"hash", "makemap", "upload", "download", "decode"}
  BY <1>1 DEF Emptied
<1>2. CASE /\ UNCHANGED proc
           /\ \A s \in Shards : /\ hashed'[target][s] \in
                                       {Absent, hashed[target][s]}
                                /\ plain'[target][s] \in
                                       {Absent, plain[target][s]}
  BY <1>2 DEF proc, Emptied
<1>3. CASE Environment
  BY <1>0, <1>1, <1>2, <1>3, EnvironmentStays, EnvironmentDeletes
<1>4. CASE UNCHANGED vars
  BY <1>2, <1>4 DEF vars, disk
<1>5. QED
  BY <1>1, <1>3, <1>4, ArrivesByUpload, ArrivesByDownload, EmptiedUpload,
     EmptiedDownload DEF Seeing

-----------------------------------------------------------------------------
(* The record of a file whose removal has begun.                           *)

(* The shards that the shard directory has of f, under either name.        *)
Local(f) == {s \in Shards : hashed[f][s] # Absent \/ plain[f][s] # Absent}

(* A decoding of what is there of f would not change what was delivered.   *)
Harmless(f) ==
    \/ Cardinality(Local(f)) < Need
    \/ out[f] = datamap[f].Enc

(* So it is of every entry that no transfer is about.                      *)
LocalHarmless ==
    \A f \in Files : Exists(datamap, f) =>
        Harmless(f) \/ (f = target /\ pc \in {"upload", "download", "decode"})

(* No remote has an object of f.                                           *)
Gone(f) == \A r \in Remotes, s \in Shards : store[r][f][s] = Absent

(* The removal of f is under way, or will be taken up by CheckState.       *)
Removing(f) ==
    \/ datamap[f].Flag /\ datamap[f].State = "rm"
    \/ pc = "drop" /\ f = target

Deaths == faults["crash"]

(* What OnShelf allows to happen: see there.                               *)
Smooth == Never({"damage", "silent", "file"} \cup Blinding)

Mild == Smooth /\ Deaths <= IF DestReady THEN 1 ELSE 0

(* An entry whose removal has begun is being removed, or it is what a      *)
(* death before the last write of its removal has left.                    *)
GhostsOnly ==
    \A f \in Files : Exists(datamap, f) /\ doomed[f] =>
        Removing(f) \/ (Deaths = 1 /\ Harmless(f) /\ Gone(f))

NewNotDoomed == pc \in {"upload", "stat"} => ~doomed[target]

(* The sets of shards are finite, and a subset has no more of them.        *)
LEMMA LocalSize ==
    ASSUME NEW f
    PROVE  /\ IsFiniteSet(Local(f)) /\ Cardinality(Local(f)) \in Nat
           /\ Cardinality(Present(f)) \in Nat
           /\ Cardinality(Present(f)) <= Cardinality(Local(f))
<1>1. IsFiniteSet(Shards)
  BY NeedAssumption
<1>2. Local(f) \subseteq Shards /\ Present(f) \subseteq Local(f)
  BY DEF Local, Present
<1>3. IsFiniteSet(Local(f))
  BY <1>1, <1>2, FS_Subset
<1>4. IsFiniteSet(Present(f)) /\ Cardinality(Present(f)) <= Cardinality(Local(f))
  BY <1>2, <1>3, FS_Subset
<1>5. QED
  BY <1>3, <1>4, FS_CardinalityType

(* Shards that are only kept, moved or deleted stay harmless.              *)
LEMMA HarmlessStays ==
    ASSUME NEW f \in Files, Harmless(f), Local(f)' \subseteq Local(f),
           datamap'[f].Enc = datamap[f].Enc, out'[f] = out[f]
    PROVE  Harmless(f)'
<1>1. IsFiniteSet(Local(f)) /\ Cardinality(Local(f)) \in Nat
  BY LocalSize
<1>2. /\ IsFiniteSet(Local(f)')
      /\ Cardinality(Local(f)') <= Cardinality(Local(f))
  BY <1>1, FS_Subset
<1>3. Cardinality(Local(f)') \in Nat
  BY <1>2, FS_CardinalityType
<1>4. Cardinality(Local(f)) < Need => Cardinality(Local(f)') < Need
  BY <1>1, <1>2, <1>3, NeedAssumption
<1>5. QED
  BY <1>4 DEF Harmless

(* Nothing is harmless.                                                    *)
LEMMA HarmlessNone ==
    ASSUME NEW f \in Files,
           \A s \in Shards : hashed'[f][s] = Absent /\ plain'[f][s] = Absent
    PROVE  Harmless(f)'
<1>1. Local(f)' = {}
  BY DEF Local
<1>2. Cardinality(Local(f)') = 0
  BY <1>1, FS_EmptySet
<1>3. QED
  BY <1>2, NeedAssumption DEF Harmless

(* A decoding of harmless shards is harmless.                              *)
LEMMA DecodeHarmless ==
    ASSUME TypeOK, ModeInv, AllFresh, DoDecode, NEW f \in Files, f = target,
           Harmless(f)
    PROVE  Harmless(f)' /\ out'[f] = out[f]
<1>0. UNCHANGED <<datamap, hashed>> /\ out \in [Files -> Nat]
  BY DEF DoDecode, TypeOK
<1>1. CASE UNCHANGED <<plain, out>>
  BY <1>0, <1>1, HarmlessStays DEF Local
<1>2. CASE Cardinality(Present(target)) >= Need
  <2>1. out[f] = datamap[f].Enc
    <3>1. ~(Cardinality(Local(f)) < Need)
      BY <1>2, LocalSize, NeedAssumption
    <3>2. QED
      BY <3>1 DEF Harmless
  <2>2. out'[f] = out[f]
    BY <2>1, OutGrows DEF Seeing, Process, DownloadStep
  <2>3. QED
    BY <1>0, <2>1, <2>2 DEF Harmless
<1>3. QED
  BY <1>1, <1>2 DEF DoDecode, DoDecode_NoDestination, DoDecode_TooFewShards,
     DoDecode_Restored, DoDecode_WrongPassword, DoDecode_Mixed

(* What adds to the local shards of a file that has an entry: a download   *)
(* and a decoding.                                                         *)
LEMMA LocalGrows ==
    ASSUME TypeOK, FlagInv, PathInv, Process, NEW f \in Files, f = target,
           Exists(datamap, f)
    PROVE  \/ Local(f)' \subseteq Local(f)
           \/ DoDecode
           \/ \E s \in Shards : /\ downloadFile(s) /\ dst[s] \in Remotes
                                /\ store[dst[s]][target][s] # Absent
<1> USE DEF disk
<1>0. /\ hashed \in Dir /\ plain \in Dir
      /\ dst \in [Shards -> Remotes \cup {NoRemote}]
  BY DEF TypeOK, Dir
<1>1. CASE \A t \in Shards : /\ hashed'[f][t] \in {Absent, hashed[f][t]}
                             /\ plain'[f][t] \in {Absent, plain[f][t]}
  BY <1>1 DEF Local
<1>2. CASE UNCHANGED <<hashed, plain>>
  BY <1>2 DEF Local
<1>3. CASE CheckState
  <2>1. ASSUME NEW g \in Files, DumpUploadState(g)
        PROVE  \A t \in Shards : hashed'[f][t] \in {Absent, hashed[f][t]}
    BY <1>0, <2>1 DEF DumpUploadState, Dir
  <2>2. ASSUME NEW g \in Files, DumpDownloadState(g)
        PROVE  \A t \in Shards : plain'[f][t] \in {Absent, plain[f][t]}
    BY <1>0, <2>2 DEF DumpDownloadState, Dir
  <2>3. QED
    BY <1>1, <1>2, <1>3, <2>1, <2>2 DEF CheckState, CheckState_Clean,
       DumpReset, DumpRmState, DumpUploadState, DumpDownloadState
<1>4. CASE UploadStep
  <2>1. CASE DoEncode \/ \E s \in Shards : ConvertFileNameForUP(s)
    BY <2>1 DEF DoEncode, ConvertFileNameForUP, PathInv
  <2>2. ASSUME NEW s \in Shards, EraseTempShard(s)
        PROVE  /\ \A t \in Shards : hashed'[f][t] \in {Absent, hashed[f][t]}
               /\ UNCHANGED plain
    BY <1>0, <2>2, WriteEffect, ContentsType DEF EraseTempShard
  <2>3. QED
    BY <1>1, <1>2, <1>4, <2>1, <2>2 DEF UploadStep, Dis_Upload,
       createHashNames_End, StartUpload, UploadWait, UploadFinish,
       AllocateRemote, uploadFile, updateRemoteInfo_Up
<1>5. CASE DownloadStep
  <2>1. CASE DownloadClean
    <3>1. \A t \in Shards : plain'[f][t] = Absent
      BY <1>0, <2>1 DEF DownloadClean, AllShards, Dir
    <3>2. QED
      BY <1>1, <2>1, <3>1 DEF DownloadClean
  <2>2. ASSUME NEW s \in Shards, downloadFile(s), hashed' # hashed
        PROVE  dst[s] \in Remotes /\ store[dst[s]][target][s] # Absent
    BY <1>0, <2>2 DEF downloadFile
  <2>3. ASSUME NEW s \in Shards, ConvertFileNameForDo(s)
        PROVE  Local(f)' \subseteq Local(f)
    <3>1. CASE UNCHANGED <<hashed, plain>>
      BY <3>1 DEF Local
    <3>2. CASE /\ plain'  = Write(plain, target, s, hashed[target][s])
               /\ hashed' = Write(hashed, target, s, Absent)
               /\ hashed[target][s] # Absent
      <4>1. hashed[target][s] \in Contents
        BY <1>0 DEF Dir
      <4>2. \A t \in Shards : /\ hashed'[f][t] \in {Absent, hashed[f][t]}
                              /\ t # s => plain'[f][t] = plain[f][t]
        BY <1>0, <3>2, <4>1, WriteEffect, ContentsType
      <4>3. QED
        BY <3>2, <4>2 DEF Local
    <3>3. QED
      BY <2>3, <3>1, <3>2 DEF ConvertFileNameForDo
  <2>4. ASSUME NEW s \in Shards, downloadFile(s) PROVE UNCHANGED plain
    BY <2>4 DEF downloadFile
  <2>5. QED
    BY <1>2, <1>5, <2>1, <2>2, <2>3, <2>4 DEF DownloadStep, Dis_Download,
       DownloadWait, AskRemove, DownloadReset, updateRemoteInfo_Down
<1>6. CASE RmStep
  BY <1>2, <1>6 DEF RmStep, Dis_rm, RmNew, RmResume, RmWait, RmDrop,
     remoteCallDeleteFile, MarkRemoved
<1>7. CASE EarlyReturn
  BY <1>2, <1>7, EarlyReturnEnds
<1>8. QED
  BY <1>3, <1>4, <1>5, <1>6, <1>7 DEF Process

(* Where the process goes from an upload or a download under way.          *)
LEMMA LeavesTransfer ==
    ASSUME Process, ~EarlyReturn
    PROVE  /\ pc = "makemap" => StartUpload
           /\ pc = "upload" =>
                 UploadWait \/ (pc' = "upload" /\ UNCHANGED target)
           /\ pc = "download" =>
                 \/ pc' \in {"download", "decode"} /\ UNCHANGED target
                 \/ \E s \in Shards : dst[s] = NoRemote
           /\ pc = "decode" => DoDecode
           /\ pc = "drop" => RmDrop
<1>1. CASE CheckState
  BY <1>1 DEF CheckState, CheckState_Clean, DumpReset, DumpUploadState,
     DumpDownloadState, DumpRmState
<1>2. CASE UploadStep
  <2>1. StartUpload => pc = "makemap"
    BY DEF StartUpload
  <2>2. UploadWait => pc = "upload"
    BY DEF UploadWait
  <2>3. Dis_Upload \/ DoEncode \/ createHashNames_End \/ UploadFinish =>
           pc \in {"main", "encode", "hash", "stat"}
    BY DEF Dis_Upload, DoEncode, createHashNames_End, UploadFinish
  <2>4. ASSUME NEW s \in Shards, ConvertFileNameForUP(s) PROVE pc = "hash"
    BY <2>4 DEF ConvertFileNameForUP
  <2>5. ASSUME NEW s \in Shards, \/ AllocateRemote(s) \/ uploadFile(s)
                                \/ updateRemoteInfo_Up(s) \/ EraseTempShard(s)
        PROVE  pc = "upload" /\ pc' = "upload" /\ UNCHANGED target
    BY <2>5 DEF AllocateRemote, uploadFile, updateRemoteInfo_Up,
       EraseTempShard, Step, StepError
  <2>6. QED
    BY <1>2, <2>1, <2>2, <2>3, <2>4, <2>5 DEF UploadStep
<1>3. CASE DownloadStep
  <2>1. DoDecode => pc = "decode"
    BY DEF DoDecode
  <2>2. Dis_Download \/ AskRemove \/ DownloadReset \/ DownloadClean =>
           pc \in {"main", "ask", "reset", "clean"}
    BY DEF Dis_Download, AskRemove, DownloadReset, DownloadClean
  <2>3. DownloadWait => pc = "download" /\ pc' = "decode" /\ UNCHANGED target
    BY DEF DownloadWait, Goto
  <2>4. ASSUME NEW s \in Shards, \/ downloadFile(s) \/ ConvertFileNameForDo(s)
                                \/ updateRemoteInfo_Down(s)
        PROVE  /\ pc = "download"
               /\ \/ pc' = "download" /\ UNCHANGED target
                  \/ dst[s] = NoRemote
    BY <2>4 DEF downloadFile, FetchedNothing, ConvertFileNameForDo,
       updateRemoteInfo_Down, Step
  <2>5. QED
    BY <1>3, <2>1, <2>2, <2>3, <2>4 DEF DownloadStep
<1>4. CASE RmStep
  <2>1. RmDrop => pc = "drop"
    BY DEF RmDrop
  <2>2. RmDrop \/ pc \in {"main", "rmNew", "rmResume", "rm"}
    BY <1>4 DEF RmStep, Dis_rm, RmNew, RmResume, RmWait,
       remoteCallDeleteFile, MarkRemoved
  <2>3. QED
    BY <2>1, <2>2
<1>5. QED
  BY <1>1, <1>2, <1>3, <1>4 DEF Process

(* Of a file the process does not work on, nothing comes back.             *)
LEMMA HarmlessElsewhere ==
    ASSUME TypeOK, FlagInv, ModeInv, AllFresh, [Seeing]_vars, ~Fault("damage"),
           NEW f \in Files, f # target \/ ~Process
    PROVE  /\ datamap'[f] = datamap[f] /\ (doomed'[f] <=> doomed[f])
           /\ Harmless(f) => Harmless(f)'
           /\ Gone(f) => Gone(f)'
<1>0. ~DoDecode \/ f # target
  BY DEF Process, DownloadStep
<1>1. out'[f] = out[f]
  BY <1>0, OutGrows
<1>2. CASE UNCHANGED vars
  BY <1>2 DEF vars, disk, world, Harmless, Local, Gone
<1>3. CASE Environment
  <2>1. Local(f)' \subseteq Local(f) /\ (Gone(f) => Gone(f)')
    BY <1>3, EnvironmentDeletes DEF Local, Gone
  <2>2. UNCHANGED <<datamap, doomed>>
    BY <1>3, EnvironmentIdle
  <2>3. QED
    BY <1>1, <2>1, <2>2, HarmlessStays
<1>4. CASE Process
  <2>1. f # target
    BY <1>4
  <2>2. Untouched(f)
    BY <1>4, <2>1, OthersUntouched
  <2>3. Local(f)' \subseteq Local(f)
    BY <1>4, <2>1, LocalOthers DEF Local
  <2>4. QED
    BY <1>1, <2>2, <2>3, HarmlessStays DEF Untouched, Gone
<1>5. QED
  BY <1>2, <1>3, <1>4 DEF Seeing

(* As long as the window is not closed under a command, password.txt never *)
(* changes, and every encoding can be decrypted.                           *)
KeysRight == \A e \in 1 .. MaxEncodings : keyOf[e] = 0

LEMMA KeysHold == Spec => [](Sighted => window = "open" /\ KeysRight)
<1>1. Init => window = "open" /\ KeysRight
  BY DEF Init, KeysRight
<1>2. /\ TypeOK /\ WindowInv /\ WindowInv' /\ [Next]_vars
      /\ (Sighted => window = "open" /\ KeysRight)
      => (Sighted => window = "open" /\ KeysRight)'
  <2> SUFFICES ASSUME TypeOK, WindowInv, WindowInv', [Next]_vars, Sighted',
                      Sighted => window = "open" /\ KeysRight
               PROVE  (window = "open" /\ KeysRight)'
    OBVIOUS
  <2>1. [Seeing]_vars /\ window = "open" /\ KeysRight
    BY SightedStep
  <2>2. window' = "open"
    BY DEF WindowInv, Sighted, Never, Blinding
  <2>3. CASE UNCHANGED keyOf
    BY <2>1, <2>2, <2>3 DEF KeysRight
  <2>4. CASE DoEncode
    <3>1. keyOf \in [1 .. MaxEncodings -> Nat]
      BY DEF TypeOK
    <3>2. CASE keyOf' = [keyOf EXCEPT ![encNext + 1] = 0]
      BY <2>1, <2>2, <3>1, <3>2 DEF KeysRight
    <3>3. QED
      BY <2>1, <2>3, <2>4, <3>2 DEF DoEncode, Password
  <2>5. QED
    BY <2>1, <2>2, <2>3, <2>4, WorldWriters, EnvironmentIdle
    DEF Seeing, vars, world
<1>3. QED
  BY <1>1, <1>2, TypeCorrect, WindowHolds, PTL DEF Spec

(* So no decoding meets a file of another password.                        *)
LEMMA RightPassword ==
    ASSUME TypeOK, ModeInv, AllFresh, Numbered, EncBound, window = "open",
           KeysRight, DoDecode
    PROVE  ~DoDecode_WrongPassword
<1>0. /\ plain \in Dir /\ target \in Files /\ datamap \in DataMaps
      /\ encNext \in Nat /\ MaxEncodings \in Nat
  BY BoundsAssumption DEF TypeOK, Dir
<1>1. SUFFICES ASSUME NEW s \in Present(target),
                      keyOf[plain[target][s]] # Password
               PROVE  FALSE
  BY DEF DoDecode_WrongPassword
<1>2. Exists(datamap, target)
  BY DEF DoDecode, ModeInv, StateFits, Exists
<1>3. plain[target][s] = datamap[target].Enc
  BY <1>0, <1>2 DEF Present, AllFresh, FreshShard
<1>4. /\ datamap[target].Enc \in Nat /\ 1 <= datamap[target].Enc
      /\ datamap[target].Enc <= encNext /\ encNext <= MaxEncodings
  BY <1>0, <1>2, EntryType DEF Numbered, EncBound
<1>5. datamap[target].Enc \in 1 .. MaxEncodings
  BY <1>0, <1>4
<1>6. QED
  BY <1>1, <1>3, <1>5 DEF KeysRight, Password

(* As long as no process dies, every step keeps LocalHarmless.             *)
LEMMA LocalHarmlessStep ==
    ASSUME TypeOK, FlagInv, ModeInv, PathInv, AllFresh, RemotesKnown, Emptied,
           GhostsOnly, LocalHarmless, [Seeing]_vars, ~EarlyReturn,
           DoDecode => ~DoDecode_WrongPassword, ~Fault("damage"),
           ~Fault("crash"), DestReady, Deaths = 0
    PROVE  LocalHarmless'
<1> SUFFICES ASSUME NEW f \in Files, Exists(datamap', f)
             PROVE  \/ Harmless(f)'
                    \/ f = target' /\ pc' \in {"upload", "download", "decode"}
  BY DEF LocalHarmless, Exists
<1>1. CASE f # target \/ ~Process
  <2>1. Exists(datamap, f)
    BY <1>1, HarmlessElsewhere DEF Exists
  <2>2. CASE Harmless(f)
    BY <1>1, <2>2, HarmlessElsewhere
  <2>3. CASE f = target /\ pc \in {"upload", "download", "decode"}
    <3>1. UNCHANGED proc
      BY <1>1, <2>3, OrderlyEnvironment DEF Seeing, vars
    <3>2. QED
      BY <2>3, <3>1 DEF proc
  <2>4. QED
    BY <2>1, <2>2, <2>3 DEF LocalHarmless
<1>2. CASE f = target /\ Process /\ pc = "makemap"
  <2>1. StartUpload
    BY <1>2, LeavesTransfer
  <2>2. UNCHANGED datamap \/ (pc' = "upload" /\ target' = target)
    BY <2>1 DEF StartUpload
  <2>3. QED
    BY <1>2, <2>2 DEF PathInv
<1>3. CASE f = target /\ Process /\ pc = "upload"
  <2>1. CASE UploadWait
    <3>1. \A s \in Shards : hashed'[f][s] = Absent /\ plain'[f][s] = Absent
      BY <1>3, <2>1 DEF UploadWait, PoolDone, Emptied, disk
    <3>2. QED
      BY <3>1, HarmlessNone
  <2>2. QED
    BY <1>3, <2>1, LeavesTransfer
<1>4. CASE f = target /\ Process /\ pc = "download"
  <2>1. ~Removing(f) /\ datamap[f].State = "download"
    BY <1>4 DEF Removing, ModeInv, StateFits
  <2>2. Kept(f)
    BY <2>1 DEF GhostsOnly, Kept, Exists
  <2>3. \A s \in Shards : dst[s] # NoRemote
    BY <1>4, <2>2 DEF PathInv, RemotesKnown
  <2>4. QED
    BY <1>4, <2>3, LeavesTransfer
<1>5. CASE f = target /\ Process /\ pc = "decode"
  <2>1. DoDecode /\ ~DoDecode_Mixed /\ destDir
    BY <1>5, LeavesTransfer, NoMixture DEF PathInv
  <2>2. UNCHANGED <<datamap, hashed>>
    BY <2>1 DEF DoDecode
  <2>3. CASE pc' = "reset"
    <3>1. out'[f] = datamap'[f].Enc
      BY <1>5, <2>1, <2>2, <2>3, DecodeFresh
    <3>2. QED
      BY <3>1 DEF Harmless
  <2>4. CASE DoDecode_TooFewShards
    <3>1. Local(f) = Present(f)
      BY <1>5 DEF Local, Present, Emptied
    <3>2. Harmless(f)
      BY <1>5, <2>4, <3>1 DEF DoDecode_TooFewShards, Harmless
    <3>3. QED
      BY <1>5, <2>1, <3>2, DecodeHarmless
  <2>5. QED
    BY <2>1, <2>3, <2>4 DEF DoDecode, DoDecode_NoDestination,
       DoDecode_Restored, Goto
<1>6. CASE /\ f = target /\ Process
           /\ pc \notin {"makemap", "upload", "download", "decode"}
  <2>1. Exists(datamap, f) /\ datamap'[f].Enc = datamap[f].Enc
    BY <1>6, EntryKept DEF Seeing
  <2>2. Harmless(f)
    BY <1>6, <2>1 DEF LocalHarmless
  <2>3. ~DoDecode /\ \A s \in Shards : ~downloadFile(s)
    BY <1>6 DEF DoDecode, downloadFile
  <2>4. out'[f] = out[f]
    BY <2>3, OutGrows
  <2>5. QED
    BY <1>6, <2>1, <2>2, <2>3, <2>4, LocalGrows, HarmlessStays
<1>7. QED
  BY <1>1, <1>2, <1>3, <1>4, <1>5, <1>6

(* The faults that a step of the process may meet.                         *)
LEMMA FaultMakers ==
    ASSUME Process
    PROVE  \/ UNCHANGED faults
           \/ Fault("silent") \/ Fault("alloc") \/ Fault("file")
<1>1. CASE CheckState
  BY <1>1 DEF CheckState, CheckState_Clean, DumpReset, DumpUploadState,
     DumpDownloadState, DumpRmState
<1>2. CASE UploadStep
  BY <1>2 DEF UploadStep, Dis_Upload, DoEncode, createHashNames_End,
     StartUpload, UploadWait, UploadFinish, ConvertFileNameForUP,
     AllocateRemote, uploadFile, updateRemoteInfo_Up, EraseTempShard, NoEntry
<1>3. CASE DownloadStep
  BY <1>3 DEF DownloadStep, Dis_Download, DownloadWait, DoDecode, AskRemove,
     DownloadReset, DownloadClean, downloadFile, ConvertFileNameForDo,
     updateRemoteInfo_Down, NoEntry
<1>4. CASE RmStep
  BY <1>4 DEF RmStep, Dis_rm, RmNew, RmResume, RmWait, RmDrop,
     remoteCallDeleteFile, MarkRemoved, NoEntry
<1>5. CASE EarlyReturn
  BY <1>5 DEF EarlyReturn, CheckState_Fails, Dis_Upload_Fails,
     Dis_Download_Fails, Dis_rm_Fails, Dis_Download_Unlisted, RmNew_Unlisted,
     NoEntry
<1>6. QED
  BY <1>1, <1>2, <1>3, <1>4, <1>5 DEF Process

(* Only a crash counts as a death.                                         *)
LEMMA DeathsCounted ==
    ASSUME TypeOK, [Seeing]_vars
    PROVE  /\ Deaths \in Nat
           /\ \/ Deaths' = Deaths /\ ~Fault("crash")
              \/ Deaths' = Deaths + 1 /\ Crash
<1>0. faults \in [FaultKinds -> Nat] /\ "crash" \in FaultKinds
  BY DEF TypeOK, FaultKinds
<1>1. Deaths \in Nat
  BY <1>0 DEF Deaths
<1>2. CASE Fault("crash")
  <2>1. Deaths' = Deaths + 1
    BY <1>0, <1>2 DEF Fault, Deaths
  <2>2. Crash
    <3>1. ASSUME NEW k \in FaultKinds, k # "crash" PROVE ~Fault(k)
      <4>1. Fault(k) => faults'["crash"] = faults["crash"]
        BY <1>0, <3>1 DEF Fault
      <4>2. QED
        BY <1>1, <2>1, <4>1 DEF Deaths
    <3>2. /\ ~Fault("silent") /\ ~Fault("alloc") /\ ~Fault("loss")
          /\ ~Fault("damage") /\ ~Fault("clean") /\ ~Fault("move")
          /\ ~Fault("file")
      BY <3>1 DEF FaultKinds
    <3>3. faults' # faults
      BY <1>1, <2>1 DEF Deaths
    <3>4. ~Process
      BY <3>2, <3>3, FaultMakers
    <3>5. QED
      BY <3>2, <3>3, <3>4 DEF Seeing, Environment, Start, LoseObject,
         DamageObject, cleanShardFolderOnExit, MoveSource, vars
  <2>3. QED
    BY <1>1, <2>1, <2>2
<1>3. CASE ~Fault("crash")
  <2>1. Deaths' = Deaths
    BY <1>0, <1>3, FaultMakers DEF Seeing, Environment, Start, Crash,
       LoseObject, DamageObject, cleanShardFolderOnExit, MoveSource, vars,
       Fault, Deaths
  <2>2. QED
    BY <1>1, <1>3, <2>1
<1>4. QED
  BY <1>2, <1>3

(* A new upload is not being removed.                                      *)
LEMMA NewNotDoomedStep ==
    ASSUME TypeOK, NewNotDoomed, [Seeing]_vars, ~EarlyReturn
    PROVE  NewNotDoomed'
<1> SUFFICES ASSUME pc' \in {"upload", "stat"} PROVE ~doomed'[target']
  BY DEF NewNotDoomed
<1>1. CASE Process
  <2>1. /\ UNCHANGED target
        /\ StartUpload \/ pc = "upload"
    BY <1>1, ArrivesAtStat
  <2>2. CASE StartUpload
    BY <2>1, <2>2 DEF StartUpload, Finish, TypeOK
  <2>3. CASE pc = "upload"
    <3>1. UNCHANGED doomed
      BY <1>1, <2>3, WorldWriters DEF StartUpload, RmNew
    <3>2. QED
      BY <2>1, <2>3, <3>1 DEF NewNotDoomed
  <2>4. QED
    BY <2>1, <2>2, <2>3
<1>2. CASE Environment \/ UNCHANGED vars
  BY <1>2, EnvironmentStays, EnvironmentIdle DEF vars, proc, NewNotDoomed
<1>3. QED
  BY <1>1, <1>2 DEF Seeing

(* A removal that is recorded stays recorded until it is done.             *)
LEMMA RemovalGoesOn ==
    ASSUME TypeOK, FlagInv, ModeInv, PathInv, Process, ~EarlyReturn,
           NEW f \in Files, f = target, Removing(f), Exists(datamap', f),
           ~StartUpload
    PROVE  Removing(f)'
<1>0. datamap \in DataMaps /\ target \in Files
  BY DEF TypeOK
<1>1. CASE pc = "drop"
  <2>1. RmDrop
    BY <1>1, LeavesTransfer
  <2>2. QED
    BY <1>0, <2>1, RemoveEffect DEF RmDrop, Exists
<1>2. CASE pc # "drop" /\ datamap[f].Flag /\ datamap[f].State = "rm"
  <2>1. CASE UNCHANGED datamap
    BY <1>2, <2>1 DEF Removing
  <2>2. CASE RmNew
    <3>1. "rm" \in States
      BY DEF States
    <3>2. QED
      BY <1>0, <2>2, <3>1, UpdateFileFlagEffect DEF RmNew, Removing
  <2>3. CASE RmWait
    BY <2>3 DEF RmWait, Goto, Removing
  <2>4. CASE Dis_Download
    BY <1>2, <2>4 DEF Dis_Download, FlagInv, OnlyTarget, Working
  <2>5. CASE DumpReset \/ UploadFinish \/ DownloadReset
    BY <1>2, <2>5 DEF DumpReset, UploadFinish, DownloadReset, ModeInv,
       StateFits
  <2>6. CASE RmDrop
    BY <1>2, <2>6 DEF RmDrop
  <2>7. ASSUME NEW s \in Shards, datamap' # datamap,
             \/ updateRemoteInfo_Up(s)
             \/ updateRemoteInfo_Down(s) \/ MarkRemoved(s)
        PROVE  Removing(f)'
    <3>1. dst[s] \in Remotes \cup {NoRemote}
      BY DEF TypeOK
    <3>2. /\ datamap'[f].Flag <=> datamap[f].Flag
          /\ datamap'[f].State = datamap[f].State
      BY <1>0, <2>7, <3>1, CheckFlagEffect, CheckFlagAndRemoteEffect
      DEF updateRemoteInfo_Up, updateRemoteInfo_Down, MarkRemoved
    <3>3. QED
      BY <1>2, <3>2 DEF Removing
  <2>8. QED
    BY <2>1, <2>2, <2>3, <2>4, <2>5, <2>6, <2>7, MapWriters
<1>3. QED
  BY <1>1, <1>2 DEF Removing

(* Nothing is put on a remote but by an upload.                            *)
LEMMA GoneStays ==
    ASSUME TypeOK, Process, NEW f \in Files, f = target, Gone(f),
           pc # "upload"
    PROVE  Gone(f)'
<1>0. store \in [Remotes -> Dir]
  BY DEF TypeOK, Dir
<1>1. CASE UNCHANGED store
  BY <1>1 DEF Gone
<1>2. ASSUME NEW s \in Shards, remoteCallDeleteFile(s) PROVE Gone(f)'
  <2>1. CASE store' = Put(store, dst[s], target, s, Absent)
    BY <1>0, <2>1, PutValue DEF Gone
  <2>2. QED
    BY <1>1, <1>2, <2>1 DEF remoteCallDeleteFile
<1>3. CASE CheckState
  BY <1>1, <1>3 DEF CheckState, CheckState_Clean, DumpReset, DumpUploadState,
     DumpDownloadState, DumpRmState
<1>4. CASE UploadStep
  <2>1. \A s \in Shards : ~uploadFile(s)
    BY DEF uploadFile
  <2>2. QED
    BY <1>1, <1>4, <2>1 DEF UploadStep, Dis_Upload, DoEncode,
       createHashNames_End, StartUpload, UploadWait, UploadFinish,
       ConvertFileNameForUP, AllocateRemote, updateRemoteInfo_Up,
       EraseTempShard
<1>5. CASE DownloadStep
  BY <1>1, <1>5 DEF DownloadStep, Dis_Download, DownloadWait, DoDecode,
     AskRemove, DownloadReset, DownloadClean, downloadFile,
     ConvertFileNameForDo, updateRemoteInfo_Down
<1>6. CASE RmStep
  BY <1>1, <1>2, <1>6 DEF RmStep, Dis_rm, RmNew, RmResume, RmWait, RmDrop,
     MarkRemoved
<1>7. CASE EarlyReturn
  BY <1>1, <1>7, EarlyReturnEnds
<1>8. QED
  BY <1>3, <1>4, <1>5, <1>6, <1>7 DEF Process

(* A smooth step follows smooth ones.                                      *)
LEMMA SmoothBefore ==
    ASSUME TypeOK, [Seeing]_vars, Smooth'
    PROVE  /\ Smooth /\ Calm /\ Calm' /\ Sighted /\ Readable
           /\ ~Fault("silent") /\ ~Fault("damage") /\ ~Fault("file")
<1>1. Smooth => Calm /\ Sighted /\ Readable
  BY DEF Smooth, Calm, Sighted, Readable, Never
<1>2. Calm'
  BY DEF Smooth, Calm, Never
<1>3. Calm /\ ~Fault("silent") /\ ~Fault("damage")
  BY <1>2, CalmBefore
<1>4. "file" \in FaultKinds /\ faults \in [FaultKinds -> Nat]
  BY DEF FaultKinds, TypeOK
<1>5. faults["file"] = 0
  BY <1>4, SeeingNext, FaultsStay DEF Smooth, Never
<1>6. ~Fault("file")
  BY <1>4, FaultCounted DEF Smooth, Never
<1>7. Smooth
  BY <1>3, <1>5 DEF Smooth, Calm, Never
<1>8. QED
  BY <1>1, <1>2, <1>3, <1>6, <1>7

(* A process that dies does nothing else.                                  *)
LEMMA CrashNoProcess ==
    ASSUME TypeOK, Process, Smooth'
    PROVE  ~Crash
<1>0. faults \in [FaultKinds -> Nat]
  BY DEF TypeOK
<1>1. ~Fault("silent") /\ ~Fault("file")
  BY SmoothBefore DEF Seeing
<1>2. Crash => faults'["crash"] = faults["crash"] + 1
  BY <1>0 DEF Crash, Fault, FaultKinds
<1>3. faults'["crash"] = faults["crash"]
  BY <1>0, <1>1, FaultMakers DEF Fault, FaultKinds
<1>4. faults["crash"] \in Nat
  BY <1>0 DEF FaultKinds
<1>5. QED
  BY <1>2, <1>3, <1>4

(* Every calm step, with one death at most, keeps GhostsOnly.              *)
LEMMA GhostsStep ==
    ASSUME TypeOK, FlagInv, ModeInv, PathInv, AllFresh, KnownInv, GhostsOnly,
           NewNotDoomed, DestReady /\ Deaths = 0 => LocalHarmless,
           [Seeing]_vars, ~EarlyReturn, Mild'
    PROVE  GhostsOnly'
<1>0. /\ ~Fault("damage") /\ Smooth /\ Smooth'
      /\ Deaths' <= IF DestReady THEN 1 ELSE 0
  BY SmoothBefore DEF Mild
<1>1. SUFFICES ASSUME NEW f \in Files, Exists(datamap', f), doomed'[f]
               PROVE  Removing(f)' \/ (Deaths' = 1 /\ (Harmless(f) /\ Gone(f))')
  BY DEF GhostsOnly, Exists
<1>2. CASE StartUpload /\ f = target
  <2>1. UNCHANGED datamap \/ ~doomed'[f]
    BY <1>2 DEF StartUpload, TypeOK
  <2>2. QED
    BY <1>1, <1>2, <2>1 DEF PathInv, StartUpload
<1>3. CASE RmNew /\ f = target
  <2>1. "rm" \in States /\ datamap \in DataMaps
    BY DEF States, TypeOK
  <2>2. QED
    BY <1>3, <2>1, UpdateFileFlagEffect DEF RmNew, Removing
<1>4. CASE Process /\ f = target /\ ~StartUpload /\ ~RmNew
  <2>1. doomed[f] /\ pc \notin {"makemap", "upload", "stat"}
    BY <1>1, <1>4, WorldWriters, LeavesTransfer DEF NewNotDoomed
  <2>2. Exists(datamap, f) /\ datamap'[f].Enc = datamap[f].Enc
    BY <1>1, <2>1, EntryKept
  <2>3. CASE Removing(f)
    BY <1>1, <1>4, <2>3, RemovalGoesOn
  <2>4. CASE Deaths = 1 /\ Harmless(f) /\ Gone(f)
    <3>1. Gone(f)'
      BY <1>4, <2>1, <2>4, GoneStays
    <3>2. Deaths' = 1
      BY <1>0, <1>4, <2>4, DeathsCounted, CrashNoProcess
    <3>3. CASE DoDecode
      BY <1>4, <2>4, <3>1, <3>2, <3>3, DecodeHarmless
    <3>4. CASE ~DoDecode
      <4>1. out'[f] = out[f]
        BY <3>4, OutGrows
      <4>2. Local(f)' \subseteq Local(f)
        BY <1>4, <2>2, <2>4, <3>4, LocalGrows DEF Gone
      <4>3. QED
        BY <2>2, <2>4, <3>1, <3>2, <4>1, <4>2, HarmlessStays
    <3>5. QED
      BY <3>3, <3>4
  <2>5. QED
    BY <2>1, <2>2, <2>3, <2>4 DEF GhostsOnly
<1>5. CASE f # target \/ ~Process
  <2>1. /\ datamap'[f] = datamap[f] /\ doomed[f] /\ Exists(datamap, f)
        /\ Harmless(f) => Harmless(f)'
        /\ Gone(f) => Gone(f)'
    BY <1>0, <1>1, <1>5, HarmlessElsewhere DEF Exists
  <2>2. CASE datamap[f].Flag /\ datamap[f].State = "rm"
    BY <2>1, <2>2 DEF Removing
  <2>3. CASE Deaths' = Deaths /\ ~Fault("crash")
    <3>1. CASE pc = "drop" /\ f = target
      BY <1>5, <3>1, <2>3, OrderlyEnvironment DEF Seeing, vars, proc, Removing
    <3>2. QED
      BY <2>1, <2>2, <2>3, <3>1 DEF GhostsOnly, Removing
  <2>4. CASE Deaths' = Deaths + 1 /\ Crash
    <3>1. Deaths = 0 /\ DestReady
      BY <1>0, <2>4, DeathsCounted
    <3>2. Deaths' = 1
      BY <2>4, <3>1
    <3>3. CASE pc = "drop" /\ f = target
      <4>1. Harmless(f)
        BY <2>1, <3>1, <3>3 DEF LocalHarmless
      <4>2. Orderly
        BY <1>0, <3>1 DEF Smooth, Orderly, Never, Deaths
      <4>3. Gone(f)
        BY <3>3, <4>2 DEF KnownInv, RmTakesAll, NoneLeft, Gone
      <4>4. QED
        BY <2>1, <3>2, <4>1, <4>3
    <3>4. QED
      BY <2>1, <2>2, <3>1, <3>3 DEF GhostsOnly, Removing
  <2>5. QED
    BY <2>3, <2>4, DeathsCounted
<1>6. QED
  BY <1>2, <1>3, <1>4, <1>5

-----------------------------------------------------------------------------
(* The refinement.                                                         *)

ShelfInv ==
    /\ Smooth => /\ EncBound /\ NewNotDoomed
                 /\ Numbered /\ RemotesKnown /\ Emptied
    /\ Mild => GhostsOnly
    /\ Smooth /\ DestReady /\ Deaths = 0 => LocalHarmless

(* What the other invariants say while nothing disturbs the store.         *)
Settled ==
    /\ TypeOK /\ WindowInv
    /\ Sighted => /\ FlagInv /\ ModeInv
                  /\ window = "open" /\ KeysRight
    /\ Readable => RmEntry
    /\ FreshInv /\ KnownInv /\ ShelfInv

(* A mild step follows mild ones.                                          *)
LEMMA MildBefore ==
    ASSUME TypeOK, [Seeing]_vars, Mild'
    PROVE  Mild
<1>1. Smooth /\ Deaths' <= IF DestReady THEN 1 ELSE 0
  BY SmoothBefore DEF Mild
<1>2. Deaths \in Nat /\ (Deaths' = Deaths \/ Deaths' = Deaths + 1)
  BY DeathsCounted
<1>3. QED
  BY <1>1, <1>2 DEF Mild

(* The invariant that the refinement needs.                                *)
LEMMA ShelfHolds == Spec => []ShelfInv
<1>1. Init => ShelfInv
  <2> SUFFICES ASSUME Init PROVE ShelfInv
    OBVIOUS
  <2>0. \A f \in Files : ~Exists(datamap, f)
    BY EmptyMapBlank, Zenon DEF Init, Exists
  <2>1. /\ pc = "idle" /\ ret = "done" /\ encNext = 0
        /\ \A f \in Files : out[f] = 0
    BY DEF Init, Absent
  <2>2. EncBound /\ NewNotDoomed
    BY <2>1, BoundsAssumption DEF EncBound, NewNotDoomed
  <2>3. Numbered /\ RemotesKnown /\ Emptied
    BY <2>0, <2>1 DEF Numbered, RemotesKnown, Emptied, Kept
  <2>4. GhostsOnly /\ LocalHarmless
    BY <2>0 DEF GhostsOnly, LocalHarmless
  <2>5. QED
    BY <2>2, <2>3, <2>4 DEF ShelfInv
<1>2. Settled /\ [Next]_vars => ShelfInv'
  <2> SUFFICES ASSUME Settled, [Next]_vars, Smooth'
               PROVE  ShelfInv'
    BY DEF ShelfInv, Mild
  <2>1. /\ TypeOK /\ WindowInv /\ FreshInv /\ KnownInv /\ ShelfInv
        /\ [Seeing]_vars
    <3>1. TypeOK /\ WindowInv /\ FreshInv /\ KnownInv /\ ShelfInv
      BY DEF Settled
    <3>2. Sighted'
      BY DEF Smooth, Sighted, Never
    <3>3. QED
      BY <3>1, <3>2, SightedStep
  <2>2. /\ Smooth /\ Calm /\ Calm' /\ Sighted /\ Readable
        /\ ~Fault("damage") /\ ~Fault("file")
    BY <2>1, SmoothBefore
  <2>3. /\ FlagInv /\ ModeInv /\ RmEntry /\ window = "open" /\ KeysRight
        /\ PathInv /\ AllFresh /\ SentFresh
        /\ EncBound /\ NewNotDoomed /\ Numbered /\ RemotesKnown /\ Emptied
    BY <2>2 DEF Settled, FreshInv, ShelfInv
  <2>4. ~EarlyReturn /\ Recording
    BY <2>2, <2>3, NoFailure
  <2>5. EncBound' /\ NewNotDoomed'
    BY <2>1, <2>3, <2>4, EncBoundStep, NewNotDoomedStep
  <2>6. (Numbered /\ RemotesKnown /\ Emptied)'
    BY <2>1, <2>2, <2>3, <2>4, NumberedStep, RemotesStep, EmptiedStep
  <2>7. ASSUME Mild' PROVE GhostsOnly'
    <3>1. Mild
      BY <2>1, <2>7, MildBefore
    <3>2. GhostsOnly /\ (DestReady /\ Deaths = 0 => LocalHarmless)
      BY <2>1, <2>2, <3>1 DEF ShelfInv
    <3>3. QED
      BY <2>1, <2>3, <2>4, <2>7, <3>2, GhostsStep
  <2>8. ASSUME DestReady, Deaths' = 0 PROVE LocalHarmless'
    <3>1. Deaths = 0 /\ ~Fault("crash")
      BY <2>1, <2>8, DeathsCounted
    <3>2. Mild
      BY <2>2, <2>8, <3>1 DEF Mild
    <3>3. GhostsOnly /\ LocalHarmless
      BY <2>1, <2>2, <2>8, <3>1, <3>2 DEF ShelfInv
    <3>4. DoDecode => ~DoDecode_WrongPassword
      BY <2>1, <2>3, RightPassword
    <3>5. QED
      BY <2>1, <2>2, <2>3, <2>4, <2>8, <3>1, <3>3, <3>4, LocalHarmlessStep
  <2>9. QED
    BY <2>5, <2>6, <2>7, <2>8 DEF ShelfInv
<1>3. QED
  BY <1>1, <1>2, TypeCorrect, WindowHolds, FlagHolds, ModeHolds, KeysHold,
     RmEntryHolds, FreshHolds, KnownHolds, PTL DEF Spec, Settled

(* What counts of a file, and of a file that a step leaves alone.          *)
LEMMA CountingSame ==
    ASSUME NEW f \in Files, Kept(f)' <=> Kept(f),
           Kept(f) => datamap'[f].Enc = datamap[f].Enc
    PROVE  Counting'[f] = Counting[f]
BY DEF Counting

(* A step that delivers something delivers what counts.                    *)
LEMMA ShelfDeliver ==
    ASSUME TypeOK, ModeInv, AllFresh, Numbered, GhostsOnly, DoDecode,
           out' # out
    PROVE  Library!Deliver(target)
<1>0. /\ out \in [Files -> Nat] /\ target \in Files
      /\ datamap \in DataMaps /\ plain \in Dir
  BY DEF TypeOK, Dir
<1>1. UNCHANGED <<datamap, doomed>> /\ pc = "decode"
  BY DEF DoDecode
<1>2. Exists(datamap, target) /\ datamap[target].State = "download"
  BY <1>1 DEF ModeInv, StateFits, Exists
<1>3. DoDecode_Restored
  BY DEF DoDecode, DoDecode_NoDestination, DoDecode_TooFewShards,
     DoDecode_WrongPassword, DoDecode_Mixed
<1>4. PICK s \in Present(target) :
         out' = [out EXCEPT ![target] = plain[target][s]]
  BY <1>3 DEF DoDecode_Restored
<1>5. plain[target][s] = datamap[target].Enc
  BY <1>0, <1>2 DEF Present, AllFresh, FreshShard
<1>6. ~Harmless(target)
  <2>1. Harmless(target) => out'[target] = out[target]
    BY <1>0, DecodeHarmless
  <2>2. out'[target] = out[target] => out' = out
    BY <1>0, <1>4
  <2>3. QED
    BY <2>1, <2>2
<1>7. Kept(target)
  BY <1>0, <1>1, <1>2, <1>6 DEF GhostsOnly, Removing, Kept
<1>8. Counting[target] = datamap[target].Enc /\ Counting[target] # 0
  BY <1>0, <1>2, <1>7 DEF Counting, Numbered
<1>9. Counting' = Counting
  BY <1>1 DEF Counting, Kept, Exists
<1>10. QED
  BY <1>4, <1>5, <1>8, <1>9 DEF Library!Deliver

(* Every mild step is a step of the Shelf, or none.                        *)
LEMMA ShelfStep ==
    ASSUME TypeOK, FlagInv, ModeInv, PathInv, AllFresh, EncBound, Numbered,
           GhostsOnly, [Seeing]_vars, ~EarlyReturn
    PROVE  [Library!Next]_<<Counting, out>>
<1>0. /\ out \in [Files -> Nat] /\ target \in Files
      /\ datamap \in DataMaps /\ encNext \in Nat /\ MaxEncodings \in Nat
  BY BoundsAssumption DEF TypeOK
<1>1. CASE Environment \/ UNCHANGED vars
  <2>1. UNCHANGED <<datamap, doomed, out>>
    BY <1>1, EnvironmentIdle DEF vars, disk, world
  <2>2. Counting' = Counting
    BY <2>1 DEF Counting, Kept, Exists
  <2>3. QED
    BY <2>1, <2>2
<1>2. CASE Process /\ out' # out
  BY <1>0, <1>2, ShelfDeliver, WorldWriters DEF Library!Next
<1>3. CASE Process /\ out' = out
  <2>1. ASSUME NEW f \in Files, f # target PROVE Counting'[f] = Counting[f]
    <3>1. Untouched(f)
      BY <1>3, <2>1, OthersUntouched
    <3>2. QED
      BY <3>1, CountingSame DEF Untouched, Kept, Exists
  <2>2. PICK f \in Files : f = target
    BY <1>0
  <2>3. Counting' = [Counting EXCEPT ![f] = Counting'[f]]
    <3>1. /\ Counting = [g \in Files |-> Counting[g]]
          /\ Counting' = [g \in Files |-> Counting'[g]]
      BY DEF Counting
    <3>2. QED
      BY <2>1, <2>2, <3>1
  <2>4. /\ Counting[f] = IF Kept(f) THEN datamap[f].Enc ELSE 0
        /\ Counting'[f] = IF Kept(f)' THEN datamap'[f].Enc ELSE 0
    BY DEF Counting, Absent
  <2>5. CASE Counting'[f] = Counting[f]
    <3>1. Counting' = Counting
      BY <2>3, <2>5 DEF Counting
    <3>2. QED
      BY <1>3, <3>1
  <2>6. CASE Kept(f) /\ Kept(f)'
    <3>1. pc # "makemap" /\ Exists(datamap', f)
      BY <2>2, <2>6 DEF Kept, PathInv
    <3>2. datamap'[f].Enc = datamap[f].Enc
      BY <3>1, EntryKept
    <3>3. QED
      BY <2>4, <2>5, <2>6, <3>2
  <2>7. CASE Kept(f) /\ ~(Kept(f)')
    <3>1. Counting[f] # 0 /\ Counting'[f] = 0
      BY <2>4, <2>7 DEF Kept, Numbered
    <3>2. Library!TakeOff(f)
      BY <1>3, <2>3, <3>1 DEF Library!TakeOff
    <3>3. QED
      BY <3>2 DEF Library!Next
  <2>8. CASE ~Kept(f) /\ Kept(f)'
    <3>1. UploadFinish /\ pc = "stat"
      BY <2>8, KeptComes DEF UploadFinish
    <3>2. Exists(datamap, f) /\ datamap'[f].Enc = datamap[f].Enc
      BY <2>8, <3>1, EntryKept DEF Kept
    <3>3. Counting[f] = 0 /\ Counting'[f] = datamap[f].Enc
      BY <2>4, <2>8, <3>2
    <3>4. datamap[f].Enc \in 1 .. MaxEncodings
      <4>1. /\ datamap[f].Enc \in Nat /\ 1 <= datamap[f].Enc
            /\ datamap[f].Enc <= encNext /\ encNext <= MaxEncodings
        BY <1>0, <3>2, EntryType DEF Numbered, EncBound
      <4>2. QED
        BY <1>0, <4>1
    <3>5. ASSUME NEW g \in Files
          PROVE  datamap[f].Enc \notin {Counting[g], out[g]}
      <4>1. datamap[f].Enc # 0
        BY <3>4
      <4>2. datamap[f].Enc # out[g]
        BY <2>2, <3>1, <3>2 DEF Numbered
      <4>3. CASE g = f
        BY <3>3, <4>1, <4>2, <4>3
      <4>4. CASE g # f
        <5>1. Counting[g] = IF Kept(g) THEN datamap[g].Enc ELSE 0
          BY DEF Counting, Absent
        <5>2. Kept(g) => datamap[g].Enc # datamap[f].Enc
          BY <3>2, <4>4 DEF Numbered, Kept
        <5>3. QED
          BY <4>1, <4>2, <5>1, <5>2
      <4>5. QED
        BY <4>3, <4>4
    <3>6. Library!PutOn(f)
      BY <1>3, <2>3, <3>3, <3>4, <3>5 DEF Library!PutOn
    <3>7. QED
      BY <3>6 DEF Library!Next
  <2>9. QED
    BY <2>4, <2>5, <2>6, <2>7, <2>8
<1>4. QED
  BY <1>1, <1>2, <1>3 DEF Seeing

(* For every number of files, shards, remotes, encodings, losses, failed   *)
(* allocations, moves of sources and emptied shard directories, under the  *)
(* conditions of OnShelf (nothing is damaged or fails silently, no call on *)
(* datamap.json or loadbalancer.json fails, the window is not closed under *)
(* a command, and at most one process dies; none where the download        *)
(* directory does not exist at first): dis_upload, dis_download and dis_rm *)
(* take effect in one step each, or not at all.  An upload counts from its *)
(* last write of datamap.json on, a removal from its first, and a download *)
(* delivers the upload that counts or nothing.                             *)
THEOREM StoreIsShelf == Spec /\ []Mild => OnShelf
<1>1. Init => Library!Init
  <2> SUFFICES ASSUME Init PROVE Library!Init
    OBVIOUS
  <2>0. \A f \in Files : ~Exists(datamap, f)
    BY EmptyMapBlank, Zenon DEF Init, Exists
  <2>1. \A f \in Files : ~Kept(f)
    BY <2>0, Zenon DEF Kept
  <2>2. Counting = [f \in Files |-> 0]
    BY <2>1 DEF Counting, Absent
  <2>3. out = [f \in Files |-> 0]
    BY DEF Init, Absent
  <2>4. QED
    BY <2>2, <2>3 DEF Library!Init
<1>2. Settled /\ Mild /\ Mild' /\ [Next]_vars
      => [Library!Next]_<<Counting, out>>
  <2> SUFFICES ASSUME Settled, Mild, Mild', [Next]_vars
               PROVE  [Library!Next]_<<Counting, out>>
    OBVIOUS
  <2>0. Smooth /\ Smooth' /\ Sighted'
    BY DEF Mild, Smooth, Sighted, Never
  <2>1. /\ TypeOK /\ WindowInv /\ FreshInv /\ ShelfInv /\ [Seeing]_vars
    BY <2>0, SightedStep DEF Settled
  <2>2. /\ FlagInv /\ ModeInv /\ RmEntry /\ PathInv /\ AllFresh
        /\ EncBound /\ Numbered /\ GhostsOnly
    BY <2>0, <2>1, SmoothBefore DEF Settled, FreshInv, ShelfInv
  <2>3. ~EarlyReturn
    BY <2>0, <2>1, <2>2, SmoothBefore, NoFailure
  <2>4. QED
    BY <2>1, <2>2, <2>3, ShelfStep
<1>3. QED
  BY <1>1, <1>2, TypeCorrect, WindowHolds, FlagHolds, ModeHolds, KeysHold,
     RmEntryHolds, FreshHolds, KnownHolds, ShelfHolds, PTL
  DEF Spec, OnShelf, Library!Spec, Settled

=============================================================================
