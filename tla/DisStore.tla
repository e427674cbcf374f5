------------------------------ MODULE DisStore ------------------------------
(***************************************************************************)
(* The distributed store: the commands dis_upload, dis_download and dis_rm *)
(* over datamap.json, the objects in the remotes' Distribution directories *)
(* and the local shard directory.  One rclone process runs at a time; its  *)
(* goroutines, one per shard, interleave.  The process may die between any *)
(* two steps, and what it leaves behind is what the next one finds.        *)
(***************************************************************************)
EXTENDS DataMap, Integers, FiniteSets

CONSTANTS
    Need,          \* number of data shards: how many shards restore a file
    MaxEncodings,  \* bound: how often a file is encoded in a behaviour
    MaxFaults,     \* bounds: how often each kind of fault happens; the
                   \* faults of a behaviour keep to one of them
    DestReady      \* whether the download directory exists at the start

(***************************************************************************)
(* crash   the process dies: killed, or os.Exit by an inner rclone command *)
(*         that met an error it has an exit code for, or by checkErr       *)
(* silent  an inner rclone command fails with an error it has no exit code *)
(*         for: it returns nil to its caller (resolveExitCode)             *)
(* alloc   AllocateRemote fails (no remotes, unreadable loadbalancer.json) *)
(* loss    a remote loses an object      damage  bits of an object flip    *)
(* clean   the GUI is closed and empties the local shard directory         *)
(* move    the user moves the source file away, or back                    *)
(* file    a call on datamap.json, or on loadbalancer.json when a copy is  *)
(*         recorded, can not read or write the file, which stays as it was *)
(* unread  CheckFlagAndState can not read datamap.json                     *)
(* midway  the GUI is closed, and encrypts datamap.json, under a command   *)
(***************************************************************************)
FaultKinds == {"crash", "silent", "alloc", "loss", "damage", "clean", "move",
               "file", "unread", "midway"}

(* The kinds after which CheckState does not see what other commands left. *)
Blinding == {"unread", "midway"}

ASSUME NeedAssumption ==
    /\ IsFiniteSet(Shards)
    /\ Need \in Nat \ {0}
    /\ Need < Cardinality(Shards)

ASSUME BoundsAssumption ==
    /\ MaxEncodings \in Nat
    /\ MaxFaults \subseteq [FaultKinds -> Nat]
    /\ DestReady \in BOOLEAN

(* The content of a shard file or object: the number of the encoding it    *)
(* was cut from, or nothing, or bytes of the right length that belong to   *)
(* no encoding.  Each run of DoEncode encrypts anew, so no two of them     *)
(* produce the same shards.                                                *)
Absent   == 0
Damaged  == -1
Contents == Nat \cup {Damaged}

Commands == [op : {"upload", "download", "rm"}, file : Files, path : BOOLEAN]

VARIABLES
    datamap,   \* datamap.json
    store,     \* store[r][f][s]: object of shard s of file f on remote r
    hashed,    \* shard directory: files under their hashed names
    plain,     \* shard directory: files under their own names
    src,       \* src[f]: the file named on the upload command line exists
    destDir,   \* the directory named on the download command line exists
    out,       \* out[f]: the encoding restored into that directory
    pc,        \* what the process does
    cmd,       \* its command line; path: the name was given with a directory
    target,    \* the file Dis_Upload, Dis_Download or Dis_rm works on
    ret,       \* where Dis_rm returns to
    phase,     \* phase[s]: what the goroutine that treats shard s does
    dst,       \* dst[s]: the Remote of that goroutine's DistributedFile
    errs,      \* the goroutines' error list is not empty
    report,    \* how the last command ended
    encNext,   \* number of encodings made so far
    keyOf,     \* keyOf[e]: the password.txt that encoding e is encrypted with
    window,    \* the GUI's window: open, closing or closed
    sealed,    \* datamap.json.fcef, while the window is closed
    faults,    \* number of faults of each kind so far
    doomed     \* history: files whose removal has begun since their upload

disk   == <<datamap, hashed, plain>>
world  == <<src, destDir, out, encNext, keyOf, window, sealed>>
proc   == <<pc, cmd, target, ret, phase, dst, errs, report>>
vars   == <<disk, store, world, proc, faults, doomed>>

Pcs == {"idle", "check", "dumpReset", "main", "encode", "hash", "makemap",
        "upload", "stat", "download", "decode", "ask", "reset", "clean",
        "rmNew", "rmResume", "rm", "drop"}

Phases == {"done", "hash", "alloc", "stuck", "copy", "record", "erase",
           "fetch", "rename", "check", "delete", "mark"}

Reports == {"none", "uploaded", "downloaded", "removed", "kept", "error",
            "died"}

AllShards(x) == [s \in Shards |-> x]

(* One file of a shard directory, one object of a remote, gets content c.  *)
Write(dir, f, s, c)  == [dir EXCEPT ![f][s] = c]
Put(st, r, f, s, c)  == [st EXCEPT ![r][f][s] = c]

Init ==
    /\ datamap = EmptyMap
    /\ store   = [r \in Remotes |-> [f \in Files |-> AllShards(Absent)]]
    /\ hashed  = [f \in Files |-> AllShards(Absent)]
    /\ plain   = [f \in Files |-> AllShards(Absent)]
    /\ src     = [f \in Files |-> TRUE]
    /\ destDir = DestReady
    /\ out     = [f \in Files |-> Absent]
    /\ pc      = "idle"
    /\ cmd     \in Commands
    /\ target  = cmd.file
    /\ ret     = "done"
    /\ phase   = AllShards("done")
    /\ dst     = AllShards(NoRemote)
    /\ errs    = FALSE
    /\ report  = "none"
    /\ encNext = 0
    /\ keyOf   = [e \in 1..MaxEncodings |-> 0]
    /\ window  = "open"
    /\ sealed  = EmptyMap
    /\ faults  = [k \in FaultKinds |-> 0]
    /\ doomed  = [f \in Files |-> FALSE]

(* One more fault of kind k keeps to one of the bounds.                    *)
Allowed(k) ==
    \E b \in MaxFaults :
        faults[k] < b[k] /\ \A j \in FaultKinds : faults[j] <= b[j]

Fault(k) ==
    /\ Allowed(k)
    /\ faults' = [faults EXCEPT ![k] = @ + 1]

(* The process starts its goroutines, or ends with the result r.           *)
StartPool(first, remotes) ==
    /\ phase' = first
    /\ dst'   = remotes
    /\ errs'  = FALSE

Finish(r) ==
    /\ pc'     = "idle"
    /\ report' = r
    /\ ret'    = "done"
    /\ StartPool(AllShards("done"), AllShards(NoRemote))
    /\ UNCHANGED <<cmd, target>>

PoolDone == \A s \in Shards : phase[s] = "done"

Goto(label) ==
    /\ pc' = label
    /\ UNCHANGED <<cmd, target, ret, phase, dst, errs, report>>

Step(s, next) ==
    /\ phase' = [phase EXCEPT ![s] = next]
    /\ UNCHANGED <<pc, cmd, target, ret, dst, errs, report>>

(* Mutant: the error path forgets wg.Done.                                 *)
StepError_NoDone(s) ==
    /\ phase' = [phase EXCEPT ![s] = "stuck"]
    /\ errs'  = TRUE
    /\ UNCHANGED <<pc, cmd, target, ret, dst, report>>

(* The goroutine appends to errs and is done with the shard.               *)
StepError(s) ==
    /\ phase' = [phase EXCEPT ![s] = "done"]
    /\ errs'  = TRUE
    /\ UNCHANGED <<pc, cmd, target, ret, dst, report>>

(* A call on the entry of f returns an error: the name is not found, or    *)
(* the file can not be read or written.                                    *)
NoEntry(f) ==
    \/ ~Exists(datamap, f) /\ UNCHANGED faults
    \/ Fault("file")

ReturnError ==
    /\ Finish("error")
    /\ UNCHANGED <<disk, store, world, doomed>>

(* tryGetPassword: while password.txt is encrypted, a new one takes its    *)
(* place, until the old one is decrypted over it.                          *)
Password == IF window = "closed" THEN faults["midway"] ELSE 0

-----------------------------------------------------------------------------
(* The command line and CheckState.                                        *)

(* A user, the GUI, or the retry loop of cmd.Run starts a command.  (With  *)
(* the window closed rclone.conf is encrypted too: there are no remotes.)  *)
Start(c) ==
    /\ pc = "idle" /\ window # "closed"
    /\ c.op = "upload" => encNext < MaxEncodings
    /\ pc'     = "check"
    /\ cmd'    = c
    /\ target' = c.file
    /\ report' = "none"
    /\ UNCHANGED <<ret, phase, dst, errs, disk, store, world, faults, doomed>>

CheckState_Clean ==
    /\ pc = "check"
    /\ Flagged(datamap) = {}
    /\ Goto("main")
    /\ UNCHANGED <<disk, store, world, faults, doomed>>

(* The error of the read is printed, and no file taken for unfinished.     *)
CheckState_Unread ==
    /\ pc = "check"
    /\ Flagged(datamap) # {}
    /\ Fault("unread")
    /\ Goto("main")
    /\ UNCHANGED <<disk, store, world, doomed>>

(* DumpUploadState: DumpUploadShards, then Dis_rm(name, false).            *)
DumpUploadState(f) ==
    /\ pc = "check"
    /\ f \in Flagged(datamap)
    /\ datamap[f].State = "upload"
    /\ hashed' = [hashed EXCEPT ![f] = [s \in Shards |->
                     IF datamap[f].Check[s] THEN @[s] ELSE Absent]]
    /\ pc'     = "rmNew"
    /\ target' = f
    /\ ret'    = "main"
    /\ UNCHANGED <<cmd, phase, dst, errs, report, datamap, plain, store, world,
                   faults, doomed>>

(* DumpDownloadState: DumpDownloadShards, then (DumpReset) ResetCheckFlag. *)
DumpDownloadState(f) ==
    /\ pc = "check"
    /\ f \in Flagged(datamap)
    /\ datamap[f].State = "download"
    /\ plain' = [plain EXCEPT ![f] = [s \in Shards |->
                    IF datamap[f].Check[s] THEN @[s] ELSE Absent]]
    /\ pc'     = "dumpReset"
    /\ target' = f
    /\ UNCHANGED <<cmd, ret, phase, dst, errs, report, datamap, hashed, store,
                   world, faults, doomed>>

DumpReset ==
    /\ pc = "dumpReset"
    /\ Exists(datamap, target)
    /\ datamap' = ResetCheckFlag(datamap, target)
    /\ pc'      = "main"
    /\ target'  = cmd.file
    /\ UNCHANGED <<cmd, ret, phase, dst, errs, report, hashed, plain, store,
                   world, faults, doomed>>

(* checkSameCommand(action, "remove", args, [f]).                          *)
SameCommand(f) == cmd.op = "rm" /\ cmd.file = f /\ ~cmd.path

(* DumpRmState: Dis_rm(name, true).                                        *)
DumpRmState(f) ==
    /\ pc = "check"
    /\ f \in Flagged(datamap)
    /\ datamap[f].State = "rm"
    /\ pc'     = "rmResume"
    /\ target' = f
    /\ ret'    = IF SameCommand(f) THEN "done" ELSE "main"
    /\ UNCHANGED <<cmd, phase, dst, errs, report, disk, store, world, faults,
                   doomed>>

(* A dump that can not list the file's shards, or reset its flags.         *)
CheckState_Fails ==
    /\ \/ pc = "check" /\ Flagged(datamap) # {} /\ Fault("file")
       \/ pc = "dumpReset" /\ NoEntry(target)
    /\ ReturnError

-----------------------------------------------------------------------------
(* Dis_Upload.                                                             *)

(* dis_init, then the test for a duplicate.  Dis_rm gets the command       *)
(* line's name, which is a key of the map only without a directory.        *)
Dis_Upload ==
    /\ pc = "main" /\ cmd.op = "upload"
    /\ \/ ~src[cmd.file] /\ Finish("error")
       \/ /\ src[cmd.file] /\ ~Exists(datamap, cmd.file)
          /\ Goto("encode")
       \/ /\ src[cmd.file] /\ Exists(datamap, cmd.file)
          /\ cmd.path
          /\ Finish("error")
       \/ /\ src[cmd.file] /\ Exists(datamap, cmd.file)
          /\ ~cmd.path
          /\ pc'  = "rmNew"
          /\ ret' = "encode"
          /\ UNCHANGED <<cmd, target, phase, dst, errs, report>>
    /\ UNCHANGED <<disk, store, world, faults, doomed>>

(* prepareUpload, first part: DoEncode writes every shard into the shard   *)
(* directory.  It ends the process when it cannot read the source.         *)
DoEncode ==
    /\ pc = "encode"
    /\ \/ /\ src[target]
          /\ encNext' = encNext + 1
          /\ keyOf'   = [keyOf EXCEPT ![encNext + 1] = Password]
          /\ plain'   = [plain EXCEPT ![target] = AllShards(encNext + 1)]
          /\ pc'      = "hash"
          /\ StartPool(AllShards("hash"), AllShards(NoRemote))
          /\ UNCHANGED <<cmd, target, ret, report>>
       \/ /\ ~src[target]
          /\ Finish("died")
          /\ UNCHANGED <<encNext, keyOf, plain>>
    /\ UNCHANGED <<datamap, hashed, store, src, destDir, out, window, sealed,
                   faults, doomed>>

(* Mutant: a rename that does not replace a file of that name.             *)
ConvertFileNameForUP_NoReplace(s) ==
    /\ pc = "hash" /\ phase[s] = "hash"
    /\ hashed' = [hashed EXCEPT ![target][s] =
                     IF @ = Absent THEN plain[target][s] ELSE @]
    /\ plain'  = Write(plain, target, s, Absent)
    /\ Step(s, "done")
    /\ UNCHANGED <<datamap, store, world, faults, doomed>>

(* createHashNames: ConvertFileNameForUP renames one shard after another.  *)
ConvertFileNameForUP(s) ==
    /\ pc = "hash" /\ phase[s] = "hash"
    /\ \/ /\ plain[target][s] # Absent
          /\ hashed' = Write(hashed, target, s, plain[target][s])
          /\ plain'  = Write(plain, target, s, Absent)
          /\ Step(s, "done")
       \/ /\ plain[target][s] = Absent
          /\ StepError(s)
          /\ UNCHANGED <<hashed, plain>>
    /\ UNCHANGED <<datamap, store, world, faults, doomed>>

createHashNames_End ==
    /\ pc = "hash" /\ PoolDone
    /\ IF errs THEN Finish("error") ELSE Goto("makemap")
    /\ UNCHANGED <<disk, store, world, faults, doomed>>

(* prepareUpload, last part: MakeDataMap, which fails when the source is   *)
(* gone; then the upload goroutines start.                                 *)
StartUpload ==
    /\ pc = "makemap"
    /\ \/ /\ ~src[target]
          /\ Finish("error")
          /\ UNCHANGED <<datamap, doomed>>
       \/ /\ src[target]
          /\ datamap' = MakeDataMap(datamap, target, encNext)
          /\ doomed'  = [doomed EXCEPT ![target] = FALSE]
          /\ pc'      = "upload"
          /\ StartPool(AllShards("alloc"), AllShards(NoRemote))
          /\ UNCHANGED <<cmd, target, ret, report>>
    /\ UNCHANGED <<hashed, plain, store, world, faults>>

(* The worker's call of AllocateRemote; the remote is left to the load     *)
(* balancer.  When the call fails the worker goes on to its next job       *)
(* without wg.Done, so wg.Wait never returns.                              *)
AllocateRemote(s) ==
    /\ pc = "upload" /\ phase[s] = "alloc"
    /\ \/ /\ \E r \in Remotes : dst' = [dst EXCEPT ![s] = r]
          /\ phase' = [phase EXCEPT ![s] = "copy"]
          /\ UNCHANGED <<errs, faults>>
       \/ /\ Fault("alloc")
          /\ phase' = [phase EXCEPT ![s] = "stuck"]
          /\ errs'  = TRUE
          /\ UNCHANGED dst
    /\ UNCHANGED <<pc, cmd, target, ret, report, disk, store, world, doomed>>

(* uploadFile, up to the return of remoteCallCopy.                         *)
uploadFile(s) ==
    /\ pc = "upload" /\ phase[s] = "copy"
    /\ \/ /\ hashed[target][s] = Absent
          /\ StepError(s)
          /\ UNCHANGED <<store, faults>>
       \/ /\ hashed[target][s] # Absent
          /\ store' = Put(store, dst[s], target, s, hashed[target][s])
          /\ Step(s, "record")
          /\ UNCHANGED faults
       \/ /\ hashed[target][s] # Absent
          /\ Fault("silent")
          /\ Step(s, "record")
          /\ UNCHANGED store
    /\ UNCHANGED <<disk, world, doomed>>

(* Mutant: the error of the record is printed and forgotten.               *)
updateRemoteInfo_Up_Ignored(s) ==
    /\ pc = "upload" /\ phase[s] = "record"
    /\ \/ NoEntry(target) /\ UNCHANGED datamap
       \/ /\ Exists(datamap, target)
          /\ datamap' = UpdateDistributedFile_CheckFlagAndRemote(
                            datamap, target, s, dst[s])
          /\ UNCHANGED faults
    /\ Step(s, "erase")
    /\ UNCHANGED <<hashed, plain, store, world, doomed>>

(* The copy is recorded in datamap.json and its throughput, by             *)
(* UpdateRemoteInfo, in loadbalancer.json.  When one of the calls fails the *)
(* goroutine returns its error, and the shard is not erased.               *)
updateRemoteInfo_Up(s) ==
    /\ pc = "upload" /\ phase[s] = "record"
    /\ \/ /\ NoEntry(target)
          /\ StepError(s)
          /\ UNCHANGED datamap
       \/ /\ Exists(datamap, target)
          /\ datamap' = UpdateDistributedFile_CheckFlagAndRemote(
                            datamap, target, s, dst[s])
          /\ \/ Step(s, "erase") /\ UNCHANGED faults
             \/ StepError(s) /\ Fault("file")
    /\ UNCHANGED <<hashed, plain, store, world, doomed>>

(* uploadFile, last part: DeleteShardWithFileNames of the hashed name.     *)
EraseTempShard(s) ==
    /\ pc = "upload" /\ phase[s] = "erase"
    /\ hashed' = Write(hashed, target, s, Absent)
    /\ Step(s, "done")
    /\ UNCHANGED <<datamap, plain, store, world, faults, doomed>>

UploadWait ==
    /\ pc = "upload" /\ PoolDone
    /\ IF errs THEN Finish("error") ELSE Goto("stat")
    /\ UNCHANGED <<disk, store, world, faults, doomed>>

(* os.Stat of the source, then ResetCheckFlag.                             *)
UploadFinish ==
    /\ pc = "stat"
    /\ \/ /\ ~src[target]
          /\ Finish("error")
          /\ UNCHANGED datamap
       \/ /\ src[target] /\ Exists(datamap, target)
          /\ datamap' = ResetCheckFlag(datamap, target)
          /\ Finish("uploaded")
    /\ UNCHANGED <<hashed, plain, store, world, faults, doomed>>

(* DoesFileStructExist, MakeDataMap or ResetCheckFlag fails.               *)
Dis_Upload_Fails ==
    /\ \/ /\ pc = "main" /\ cmd.op = "upload"
          /\ src[cmd.file] /\ Fault("file")
       \/ pc = "makemap" /\ src[target] /\ Fault("file")
       \/ pc = "stat" /\ src[target] /\ NoEntry(target)
    /\ ReturnError

-----------------------------------------------------------------------------
(* Dis_Download.                                                           *)

Dis_Download ==
    /\ pc = "main" /\ cmd.op = "download"
    /\ \/ /\ ~Exists(datamap, cmd.file)
          /\ Finish("error")
          /\ UNCHANGED datamap
       \/ /\ Exists(datamap, cmd.file)
          /\ datamap' = UpdateFileFlag(datamap, cmd.file, "download")
          /\ pc'      = "download"
          /\ StartPool(AllShards("fetch"), datamap[cmd.file].Remote)
          /\ UNCHANGED <<cmd, target, ret, report>>
    /\ UNCHANGED <<hashed, plain, store, world, faults, doomed>>

(* The file is flagged, and its shards can not be listed.                  *)
Dis_Download_Unlisted ==
    /\ pc = "main" /\ cmd.op = "download"
    /\ Exists(datamap, cmd.file)
    /\ Fault("file")
    /\ datamap' = UpdateFileFlag(datamap, cmd.file, "download")
    /\ Finish("error")
    /\ UNCHANGED <<hashed, plain, store, world, doomed>>

(* downloadFile, up to os.Stat.  An object that is not there, like a copy  *)
(* that fails with an uncategorised error, copies nothing and returns nil; *)
(* os.Stat then looks for a file of the hashed name, whoever wrote it.  A  *)
(* shard without a remote names no file system: fs.Fatalf.                 *)
FetchedNothing(s) ==
    Step(s, IF hashed[target][s] = Absent THEN "done" ELSE "rename")

downloadFile(s) ==
    /\ pc = "download" /\ phase[s] = "fetch"
    /\ \/ /\ dst[s] # NoRemote
          /\ store[dst[s]][target][s] # Absent
          /\ hashed' = Write(hashed, target, s, store[dst[s]][target][s])
          /\ Step(s, "rename")
          /\ UNCHANGED faults
       \/ /\ dst[s] # NoRemote
          /\ store[dst[s]][target][s] = Absent
          /\ FetchedNothing(s)
          /\ UNCHANGED <<hashed, faults>>
       \/ /\ dst[s] # NoRemote
          /\ Fault("silent")
          /\ FetchedNothing(s)
          /\ UNCHANGED hashed
       \/ /\ dst[s] = NoRemote
          /\ Finish("died")
          /\ UNCHANGED <<hashed, faults>>
    /\ UNCHANGED <<datamap, plain, store, world, doomed>>

ConvertFileNameForDo(s) ==
    /\ pc = "download" /\ phase[s] = "rename"
    /\ \/ /\ hashed[target][s] # Absent
          /\ plain'  = Write(plain, target, s, hashed[target][s])
          /\ hashed' = Write(hashed, target, s, Absent)
          /\ Step(s, "check")
       \/ /\ hashed[target][s] = Absent
          /\ Step(s, "done")
          /\ UNCHANGED <<hashed, plain>>
    /\ UNCHANGED <<datamap, store, world, faults, doomed>>

(* The errors of the download goroutines are collected and not looked at,  *)
(* those of UpdateRemoteInfo, which leave no trace, included.              *)
updateRemoteInfo_Down(s) ==
    /\ pc = "download" /\ phase[s] = "check"
    /\ \/ /\ Exists(datamap, target)
          /\ datamap' = UpdateDistributedFile_CheckFlag(datamap, target, s)
          /\ UNCHANGED faults
       \/ /\ NoEntry(target)
          /\ UNCHANGED datamap
    /\ Step(s, "done")
    /\ UNCHANGED <<hashed, plain, store, world, doomed>>

DownloadWait ==
    /\ pc = "download" /\ PoolDone
    /\ Exists(datamap, target)
    /\ Goto("decode")
    /\ UNCHANGED <<disk, store, world, faults, doomed>>

-----------------------------------------------------------------------------
(* DoDecode (src/reedsolomon/streaming.go) over the shard directory.       *)
(* compareandDeleteChecksum, called first, is left out: it looks both      *)
(* checksums up under a key that is no shard's name, finds "" = "" and     *)
(* deletes nothing.                                                        *)

Present(f) == {s \in Shards : plain[f][s] # Absent}

(* Verify accepts, or Reconstruct completes, shards of one encoding.       *)
Uniform(f, e) == e \in Nat \ {Absent} /\ \A s \in Present(f) : plain[f][s] = e

(* Reconstruct writes the shards that were missing.                        *)
Reconstruct(f, x) ==
    plain' = [plain EXCEPT ![f] = [s \in Shards |->
                 IF @[s] = Absent THEN x ELSE @[s]]]

(* The destination is created when it is missing, and that call's result   *)
(* is returned: nil.                                                       *)
DoDecode_NoDestination ==
    /\ ~destDir
    /\ destDir' = TRUE
    /\ Goto("reset")
    /\ UNCHANGED <<plain, out>>

(* Mutant: the error of Reconstruct is not looked at.                      *)
DoDecode_TooFewShards_Ignored ==
    /\ destDir
    /\ Cardinality(Present(target)) < Need
    /\ Goto("reset")
    /\ UNCHANGED <<plain, destDir, out>>

DoDecode_TooFewShards ==
    /\ destDir
    /\ Cardinality(Present(target)) < Need
    /\ Goto("ask")
    /\ UNCHANGED <<plain, destDir, out>>

DoDecode_Restored ==
    /\ destDir
    /\ Cardinality(Present(target)) >= Need
    /\ \E s \in Present(target) :
          /\ Uniform(target, plain[target][s])
          /\ keyOf[plain[target][s]] = Password
          /\ out' = [out EXCEPT ![target] = plain[target][s]]
          /\ Reconstruct(target, plain[target][s])
    /\ Goto("reset")
    /\ UNCHANGED destDir

(* The shards complete each other, to a file that was encrypted with       *)
(* another password.txt: decryption fails.                                 *)
DoDecode_WrongPassword ==
    /\ destDir
    /\ Cardinality(Present(target)) >= Need
    /\ \E s \in Present(target) :
          /\ Uniform(target, plain[target][s])
          /\ keyOf[plain[target][s]] # Password
          /\ Reconstruct(target, plain[target][s])
    /\ Goto("ask")
    /\ UNCHANGED <<destDir, out>>

(* Exactly Need shards of different encodings always complete each other,  *)
(* to bytes that decryption rejects.  With more of them the second Verify  *)
(* finds the contradiction; its err is nil, and DoDecode returns err.      *)
DoDecode_Mixed ==
    /\ destDir
    /\ Cardinality(Present(target)) >= Need
    /\ \A s \in Present(target) : ~Uniform(target, plain[target][s])
    /\ Reconstruct(target, Damaged)
    /\ Goto(IF Cardinality(Present(target)) = Need THEN "ask" ELSE "reset")
    /\ UNCHANGED <<destDir, out>>

DoDecode ==
    /\ pc = "decode"
    /\ \/ DoDecode_NoDestination
       \/ DoDecode_TooFewShards
       \/ DoDecode_Restored
       \/ DoDecode_WrongPassword
       \/ DoDecode_Mixed
    /\ UNCHANGED <<datamap, hashed, store, src, encNext, keyOf, window, sealed,
                   faults, doomed>>

(* ShowDescription_RemoveFile: the user may have the file removed; Dis_rm's *)
(* result is then the command's.  Otherwise the command returns nil.       *)
AskRemove ==
    /\ pc = "ask"
    /\ \/ Goto("rmNew")
       \/ Finish("kept")
    /\ UNCHANGED <<disk, store, world, faults, doomed>>

(* ResetCheckFlag gets the command line's name, not its base name.         *)
DownloadReset ==
    /\ pc = "reset"
    /\ \/ /\ cmd.path
          /\ Finish("error")
          /\ UNCHANGED datamap
       \/ /\ ~cmd.path /\ Exists(datamap, target)
          /\ datamap' = ResetCheckFlag(datamap, target)
          /\ pc'      = "clean"
          /\ report'  = "downloaded"
          /\ UNCHANGED <<cmd, target, ret, phase, dst, errs>>
    /\ UNCHANGED <<hashed, plain, store, world, faults, doomed>>

DownloadClean ==
    /\ pc = "clean"
    /\ plain' = [plain EXCEPT ![target] = AllShards(Absent)]
    /\ Finish(report)
    /\ UNCHANGED <<datamap, hashed, store, world, faults, doomed>>

(* UpdateFileFlag, GetFileInfoStruct or ResetCheckFlag fails.              *)
Dis_Download_Fails ==
    /\ \/ /\ pc = "main" /\ cmd.op = "download"
          /\ Exists(datamap, cmd.file) /\ Fault("file")
       \/ pc = "download" /\ PoolDone /\ NoEntry(target)
       \/ pc = "reset" /\ ~cmd.path /\ NoEntry(target)
    /\ ReturnError

-----------------------------------------------------------------------------
(* Dis_rm, called by the command, by Dis_Upload for a duplicate, by        *)
(* Dis_Download for a file it cannot decode, and by CheckState.            *)

Dis_rm ==
    /\ pc = "main" /\ cmd.op = "rm"
    /\ IF cmd.path \/ ~Exists(datamap, cmd.file)
          THEN Finish("error")
          ELSE Goto("rmNew")
    /\ UNCHANGED <<disk, store, world, faults, doomed>>

(* Mutant: a first removal, too, takes only the uncompleted shards.        *)
RmNew_Uncompleted ==
    /\ pc = "rmNew"
    /\ datamap' = UpdateFileFlag(datamap, target, "rm")
    /\ doomed'  = [doomed EXCEPT ![target] = TRUE]
    /\ pc'      = "rm"
    /\ StartPool([s \in Shards |->
                    IF s \in GetUncompletedFileInfo(datamap, target)
                      THEN "delete" ELSE "mark"],
                 datamap[target].Remote)
    /\ UNCHANGED <<cmd, target, ret, report, hashed, plain, store, world,
                   faults>>

(* reSignal = false: every shard.  A shard without a remote is only marked.*)
RmNew ==
    /\ pc = "rmNew"
    /\ Exists(datamap, target)
    /\ datamap' = UpdateFileFlag(datamap, target, "rm")
    /\ doomed'  = [doomed EXCEPT ![target] = TRUE]
    /\ pc'      = "rm"
    /\ StartPool([s \in Shards |->
                    IF datamap[target].Remote[s] = NoRemote
                      THEN "mark" ELSE "delete"],
                 datamap[target].Remote)
    /\ UNCHANGED <<cmd, target, ret, report, hashed, plain, store, world,
                   faults>>

(* The file is flagged, and its shards can not be listed.                  *)
RmNew_Unlisted ==
    /\ pc = "rmNew"
    /\ Exists(datamap, target)
    /\ Fault("file")
    /\ datamap' = UpdateFileFlag(datamap, target, "rm")
    /\ doomed'  = [doomed EXCEPT ![target] = TRUE]
    /\ Finish("error")
    /\ UNCHANGED <<hashed, plain, store, world>>

(* reSignal = true: the shards the previous removal did not finish.        *)
RmResume ==
    /\ pc = "rmResume"
    /\ Exists(datamap, target)
    /\ pc' = "rm"
    /\ StartPool([s \in Shards |->
                    IF s \in GetUncompletedFileInfo(datamap, target)
                      THEN "delete" ELSE "done"],
                 datamap[target].Remote)
    /\ UNCHANGED <<cmd, target, ret, report, disk, store, world, faults,
                   doomed>>

(* deleteFileDefinition: an object that is not there is no error.          *)
remoteCallDeleteFile(s) ==
    /\ pc = "rm" /\ phase[s] = "delete"
    /\ Step(s, "mark")
    /\ \/ /\ store' = Put(store, dst[s], target, s, Absent)
          /\ UNCHANGED faults
       \/ /\ Fault("silent")
          /\ UNCHANGED store
    /\ UNCHANGED <<disk, world, doomed>>

(* For a shard without a remote an error is printed and forgotten.         *)
MarkRemoved(s) ==
    /\ pc = "rm" /\ phase[s] = "mark"
    /\ \/ /\ Exists(datamap, target)
          /\ datamap' = UpdateDistributedFile_CheckFlag(datamap, target, s)
          /\ Step(s, "done")
          /\ UNCHANGED faults
       \/ /\ NoEntry(target)
          /\ IF dst[s] = NoRemote THEN Step(s, "done") ELSE StepError(s)
          /\ UNCHANGED datamap
    /\ UNCHANGED <<hashed, plain, store, world, doomed>>

(* ResetCheckFlag and RemoveFileFromMetadata are two writes of the file.   *)
RmWait ==
    /\ pc = "rm" /\ PoolDone
    /\ ~errs /\ Exists(datamap, target)
    /\ datamap' = ResetCheckFlag(datamap, target)
    /\ Goto("drop")
    /\ UNCHANGED <<hashed, plain, store, world, faults, doomed>>

RmDrop ==
    /\ pc = "drop"
    /\ datamap' = RemoveFileFromMetadata(datamap, target)
    /\ IF ret = "done"
         THEN Finish("removed")
         ELSE /\ pc'     = ret
              /\ target' = cmd.file
              /\ ret'    = "done"
              /\ UNCHANGED <<cmd, phase, dst, errs, report>>
    /\ UNCHANGED <<hashed, plain, store, world, faults, doomed>>

(* A goroutine's error, or an error of the calls before or after them.     *)
Dis_rm_Fails ==
    /\ \/ pc \in {"rmNew", "rmResume"} /\ NoEntry(target)
       \/ pc = "rm" /\ PoolDone /\ errs /\ UNCHANGED faults
       \/ pc = "rm" /\ PoolDone /\ ~errs /\ NoEntry(target)
       \/ pc = "drop" /\ Fault("file")
    /\ ReturnError

-----------------------------------------------------------------------------
(* Faults and the environment.                                             *)

Crash ==
    /\ pc # "idle"
    /\ Fault("crash")
    /\ Finish("died")
    /\ UNCHANGED <<disk, store, world, doomed>>

LoseObject(r, f, s) ==
    /\ store[r][f][s] # Absent
    /\ Fault("loss")
    /\ store' = Put(store, r, f, s, Absent)
    /\ UNCHANGED <<disk, world, proc, doomed>>

DamageObject(r, f, s) ==
    /\ store[r][f][s] \notin {Absent, Damaged}
    /\ Fault("damage")
    /\ store' = Put(store, r, f, s, Damaged)
    /\ UNCHANGED <<disk, world, proc, doomed>>

(* The close handler of the GUI.  With no command running the map is back, *)
(* decrypted, when the window is opened again; under a running command the *)
(* shard directory alone is emptied when the encryption has failed before  *)
(* it reached datamap.json.                                                *)
cleanShardFolderOnExit ==
    /\ window = "open"
    /\ Fault("clean")
    /\ hashed' = [f \in Files |-> AllShards(Absent)]
    /\ plain'  = [f \in Files |-> AllShards(Absent)]
    /\ UNCHANGED <<datamap, store, world, proc, doomed>>

(* The close handler while a command runs, which it does not wait for:     *)
(* every file of the rclone directory is encrypted ...                     *)
encryptFilesOnExit ==
    /\ window = "open" /\ pc # "idle"
    /\ Fault("midway")
    /\ window' = "closing"
    /\ sealed' = datamap
    /\ UNCHANGED <<disk, store, src, destDir, out, encNext, keyOf, proc,
                   doomed>>

(* ... and then removed, and the shard directory emptied.                  *)
RemoveOriginals ==
    /\ window = "closing"
    /\ window' = "closed"
    /\ datamap' = EmptyMap
    /\ hashed'  = [f \in Files |-> AllShards(Absent)]
    /\ plain'   = [f \in Files |-> AllShards(Absent)]
    /\ UNCHANGED <<store, src, destDir, out, encNext, keyOf, sealed, proc,
                   faults, doomed>>

(* The window is opened again: what was encrypted replaces what the command *)
(* has written since.                                                      *)
DecryptAllFilesInPath ==
    /\ window = "closed"
    /\ window' = "open"
    /\ datamap' = sealed
    /\ sealed'  = EmptyMap
    /\ UNCHANGED <<hashed, plain, store, src, destDir, out, encNext, keyOf,
                   proc, faults, doomed>>

MoveSource(f) ==
    /\ Fault("move")
    /\ src' = [src EXCEPT ![f] = ~@]
    /\ UNCHANGED <<disk, store, destDir, out, encNext, keyOf, window, sealed,
                   proc, doomed>>

-----------------------------------------------------------------------------

CheckState ==
    \/ CheckState_Clean \/ DumpReset
    \/ \E f \in Files :
          DumpUploadState(f) \/ DumpDownloadState(f) \/ DumpRmState(f)

UploadStep ==
    \/ Dis_Upload \/ DoEncode \/ createHashNames_End \/ StartUpload
    \/ UploadWait \/ UploadFinish
    \/ \E s \in Shards :
          \/ ConvertFileNameForUP(s) \/ AllocateRemote(s) \/ uploadFile(s)
          \/ updateRemoteInfo_Up(s) \/ EraseTempShard(s)

DownloadStep ==
    \/ Dis_Download \/ DownloadWait \/ DoDecode \/ AskRemove
    \/ DownloadReset \/ DownloadClean
    \/ \E s \in Shards :
          \/ downloadFile(s) \/ ConvertFileNameForDo(s)
          \/ updateRemoteInfo_Down(s)

RmStep ==
    \/ Dis_rm \/ RmNew \/ RmResume \/ RmWait \/ RmDrop
    \/ \E s \in Shards : remoteCallDeleteFile(s) \/ MarkRemoved(s)

(* The commands' early returns when a call on datamap.json fails.          *)
EarlyReturn ==
    \/ CheckState_Fails \/ Dis_Upload_Fails \/ Dis_Download_Fails
    \/ Dis_rm_Fails \/ Dis_Download_Unlisted \/ RmNew_Unlisted

Process ==
    CheckState \/ UploadStep \/ DownloadStep \/ RmStep \/ EarlyReturn

Environment ==
    \/ \E c \in Commands : Start(c)
    \/ Crash
    \/ cleanShardFolderOnExit
    \/ \E f \in Files : MoveSource(f)
    \/ \E r \in Remotes, f \in Files, s \in Shards :
          LoseObject(r, f, s) \/ DamageObject(r, f, s)

(* What puts datamap.json out of the sight of CheckState.                  *)
Blind ==
    \/ CheckState_Unread \/ encryptFilesOnExit \/ RemoveOriginals
    \/ DecryptAllFilesInPath

Seeing == Process \/ Environment

Next == Seeing \/ Blind

Spec == Init /\ [][Next]_vars

(* A process that is not killed keeps running: the Go scheduler runs every *)
(* goroutine that can run, the inner commands return, prompts are answered.*)
FairSpec == Spec /\ WF_vars(Process)

-----------------------------------------------------------------------------
(* Properties.                                                             *)

TypeOK ==
    /\ datamap \in DataMaps
    /\ store   \in [Remotes -> [Files -> [Shards -> Contents]]]
    /\ hashed  \in [Files -> [Shards -> Contents]]
    /\ plain   \in [Files -> [Shards -> Contents]]
    /\ src     \in [Files -> BOOLEAN]
    /\ destDir \in BOOLEAN
    /\ out     \in [Files -> Nat]
    /\ pc      \in Pcs
    /\ cmd     \in Commands
    /\ target  \in Files
    /\ ret     \in {"done", "main", "encode"}
    /\ phase   \in [Shards -> Phases]
    /\ dst     \in [Shards -> Remotes \cup {NoRemote}]
    /\ errs    \in BOOLEAN
    /\ report  \in Reports
    /\ encNext \in Nat
    /\ keyOf   \in [1..MaxEncodings -> Nat]
    /\ window  \in {"open", "closing", "closed"}
    /\ sealed  \in DataMaps
    /\ faults  \in [FaultKinds -> Nat]
    /\ doomed  \in [Files -> BOOLEAN]

Never(kinds) == \A k \in kinds : faults[k] = 0

(* CheckState repairs one flagged file and then lets the command run, so   *)
(* recovery is complete only if there is never more than one: whatever     *)
(* died or failed before, at most one entry of datamap.json is flagged, as *)
(* long as CheckState can read the file.                                   *)
OneUnfinished ==
    Never(Blinding) =>
        \A f, g \in Files : datamap[f].Flag /\ datamap[g].Flag => f = g

(* A file the user may count on: uploaded, and not being removed.          *)
Kept(f) ==
    /\ Exists(datamap, f)
    /\ ~doomed[f]
    /\ datamap[f].Flag => datamap[f].State = "download"

Whole(f) ==
    \A s \in Shards :
        /\ datamap[f].Remote[s] # NoRemote
        /\ store[datamap[f].Remote[s]][f][s] = datamap[f].Enc

(* Every shard of an uploaded file is on the remote the datamap names for  *)
(* it, with the content of that upload, until a removal of that file       *)
(* begins: crashes, failed commands, dumps and the overwriting of other    *)
(* files take none away (while remotes keep what they acknowledged and     *)
(* CheckState can read the map).                                           *)
StoredWhole ==
    Never({"loss", "damage", "silent"} \cup Blinding) =>
        \A f \in Files : Kept(f) => Whole(f)

(* Shards that dead commands left in the shard directory are used by later *)
(* ones (os.Stat in downloadFile and openInput do not ask who wrote them); *)
(* they are never shards of an earlier upload of the same name, as long as *)
(* CheckState sees the map and has them dumped.                            *)
LocalFresh ==
    Never({"damage", "silent"} \cup Blinding) =>
        \A f \in Files, s \in Shards :
            Exists(datamap, f) =>
                /\ hashed[f][s] \in {Absent, datamap[f].Enc}
                /\ plain[f][s]  \in {Absent, datamap[f].Enc}

(* A download that reports success has restored the file the datamap       *)
(* describes, whatever was lost, crashed, failed or was cleaned up before, *)
(* as long as CheckState sees the map.                                     *)
DownloadSound ==
    /\ DestReady
    /\ Never({"damage", "silent"} \cup Blinding)
    /\ report = "downloaded"
    => out[cmd.file] = datamap[cmd.file].Enc

(* No object is forgotten: while no command dies, no call on datamap.json  *)
(* fails and the window is not closed under a command, every object on a   *)
(* remote is one the datamap records there, or one whose goroutine is      *)
(* about to record it; emptied shard directories, lost sources and failed  *)
(* allocations make no difference.                                         *)
NoOrphan ==
    Never({"crash", "silent", "file"} \cup Blinding) =>
        \A r \in Remotes, f \in Files, s \in Shards :
            store[r][f][s] # Absent =>
                \/ Exists(datamap, f) /\ datamap[f].Remote[s] = r
                \/ /\ pc = "upload" /\ f = target
                   /\ phase[s] = "record" /\ dst[s] = r

(* Closing the window under a command takes nothing from the other files:  *)
(* whatever that command goes on to do without a map, every finished       *)
(* upload of another file that datamap.json.fcef will bring back is still  *)
(* on the remotes it names, unless a command has replaced it in the        *)
(* meantime (and nothing else fails).                                      *)
Replaced(f) ==
    \E r \in Remotes, s \in Shards : store[r][f][s] > sealed[f].Enc

OthersComeBack ==
    /\ window # "open"
    /\ Never(FaultKinds \ {"midway", "clean", "move"})
    => \A f \in Files \ {cmd.file} :
          /\ Exists(sealed, f) /\ ~doomed[f] /\ ~Replaced(f)
          /\ sealed[f].Flag => sealed[f].State = "download"
          => \A s \in Shards :
                /\ sealed[f].Remote[s] # NoRemote
                /\ store[sealed[f].Remote[s]][f][s] = sealed[f].Enc

(* The upload that counts, of every file.                                  *)
Counting == [f \in Files |-> IF Kept(f) THEN datamap[f].Enc ELSE Absent]

Library == INSTANCE Shelf WITH
    Uploads <- 1 .. MaxEncodings, shelf <- Counting

(* The store implements the Shelf: for all the writes of datamap.json, the *)
(* copies and the deletes it is made of, an upload counts from its last    *)
(* write on, a removal from its first, and a download restores the upload  *)
(* that counts, or nothing.  This takes remotes that damage and swallow    *)
(* nothing, calls on datamap.json and loadbalancer.json that do not fail, a *)
(* window that is not closed under a command, and at most one death (none, *)
(* when the download directory does not exist at first): after more, the   *)
(* record of an upload that died or failed, or of a removal that did,      *)
(* stays, and shards left in the shard directory can be delivered under it.*)
OnShelf == Library!Spec

(* A command that is not killed ends, in success or in error, whatever was *)
(* lost, damaged, cleaned up or left by a dead one, unless an allocation   *)
(* fails: then the upload waits for ever for a shard nobody treats.        *)
CommandFinishes ==
    pc # "idle" ~> pc = "idle" \/ faults["alloc"] > 0

=============================================================================
