-------------------------- MODULE DataMapFileProofs --------------------------
(***************************************************************************)
(* Theorems about DataMapFile, for every number of files, shards, remotes, *)
(* processes, commands and interruptions: types, and what the file keeps   *)
(* of the atomic map as long as processes run one after the other.         *)
(*                                                                         *)
(* The argument.  A process is in a call of datamap.go only at the stages  *)
(* that make one, and only the pool makes several at a time (ControlInv).  *)
(* There the mutex lets one goroutine in (MutexInv), so while one process  *)
(* runs at a time, one goroutine at most is between its read and the end   *)
(* of its write (OneBusy).  What it is about to write is therefore the map *)
(* in the file with its one call applied (FileInv).                        *)
(***************************************************************************)
EXTENDS DataMapFile, DataMapProofs

Calls == {"mark", "pool", "reset", "drop"}

Idle(p) == \A t \in Threads : io[p][t] = "none"

(* Which commands come to which stages, and who is in a call there.        *)
ControlAt(p) ==
    /\ stage[p] # "off" => cmd[p] \in Commands
    /\ stage[p] \notin Calls => Idle(p)
    /\ stage[p] \in {"mark", "reset", "drop"} =>
          \A t \in Shards : io[p][t] = "none"
    /\ stage[p] = "pool" => io[p][Main] = "none"
    /\ stage[p] = "mark" => cmd[p].op \in {"upload", "download", "rm"}
    /\ stage[p] = "list" => cmd[p].op \in {"download", "rm", "resume"}
    /\ stage[p] = "pool" => cmd[p].op # "reset"
    /\ stage[p] = "drop" => cmd[p].op \in {"rm", "resume"}

ControlInv == \A p \in Procs : ControlAt(p)

(* Between its read and the end of its write.                              *)
Busy(p, t) == io[p][t] \in {"changed", "truncated", "writing"}

MutexInv ==
    \A p \in Procs, t \in Threads : Busy(p, t) /\ Locks(p) => lock[p] = t

(* One process at a time.                                                  *)
Alone == \A p, q \in Live : p = q

(* What a goroutine is about to write, and what is in the file meanwhile.  *)
CallFits(p, t) ==
    /\ io[p][t] = "changed" =>
          /\ Readable
          /\ \E op \in Call(p, t) :
                Atomic!Accepts(Read, op) /\ buf[p][t] = Atomic!Apply(Read, op)
    /\ io[p][t] = "truncated" => kind = "empty"
    /\ io[p][t] = "writing" => kind = "torn"

FileInv ==
    ~together => Alone /\ \A p \in Procs, t \in Threads : CallFits(p, t)

(* What the commands have done to the files of the history variable.       *)
Past(p) ==
    \/ stage[p] \notin {"off", "lookup", "mark"}
    \/ stage[p] = "mark" /\ io[p][Main] \in {"truncated", "writing"}

RecordedAt(p, s) ==
    Durable[cmd[p].file].Remote[s] # NoRemote

HistoryAt(p) ==
    /\ cmd[p].op = "resume" => cmd[p].file \notin listed
    /\ cmd[p].op = "rm" /\ Past(p) => cmd[p].file \notin listed
    /\ cmd[p].op = "upload" /\ stage[p] = "mark" => cmd[p].file \notin listed
    /\ cmd[p].op = "upload" /\ Past(p) => Exists(Durable, cmd[p].file)
    /\ cmd[p].op = "upload" /\ stage[p] = "pool" /\ ~errs[p] =>
          \A s \in Shards :
              io[p][s] \notin {"call", "changed"} => RecordedAt(p, s)
    /\ cmd[p].op = "upload" /\ stage[p] = "reset" =>
          \A s \in Shards : RecordedAt(p, s)
    /\ cmd[p].op = "upload" /\ stage[p] = "reset"
          /\ io[p][Main] \in {"truncated", "writing"} =>
          ~Durable[cmd[p].file].Flag

ListedFits(f) ==
    /\ Exists(Durable, f)
    /\ \A s \in Shards : Durable[f].Remote[s] # NoRemote
    /\ Durable[f].Flag => Durable[f].State = "download"

HistoryInv ==
    ~together /\ ~spoilt =>
        /\ \A f \in listed : ListedFits(f)
        /\ \A p \in Procs : stage[p] # "off" => HistoryAt(p)

-----------------------------------------------------------------------------
(* The calls.                                                              *)

(* The calls of the atomic map are the operators of DataMap.               *)
LEMMA ApplyCases ==
    ASSUME NEW dm, NEW op
    PROVE  /\ op.fn = "MakeDataMap" =>
                 Atomic!Apply(dm, op) = MakeDataMap(dm, op.file, 1)
           /\ op.fn = "UpdateFileFlag" =>
                 Atomic!Apply(dm, op) = UpdateFileFlag(dm, op.file, op.state)
           /\ op.fn = "CheckFlag" =>
                 Atomic!Apply(dm, op) =
                     UpdateDistributedFile_CheckFlag(dm, op.file, op.shard)
           /\ op.fn = "CheckFlagAndRemote" =>
                 Atomic!Apply(dm, op) =
                     UpdateDistributedFile_CheckFlagAndRemote(
                         dm, op.file, op.shard, op.remote)
           /\ op.fn = "ResetCheckFlag" =>
                 Atomic!Apply(dm, op) = ResetCheckFlag(dm, op.file)
           /\ op.fn = "RemoveFileFromMetadata" =>
                 Atomic!Apply(dm, op) = RemoveFileFromMetadata(dm, op.file)
BY DEF Atomic!Apply, Atomic!MakeDataMap, MakeDataMap,
   Atomic!UpdateFileFlag, UpdateFileFlag,
   Atomic!UpdateDistributedFile_CheckFlag, UpdateDistributedFile_CheckFlag,
   Atomic!UpdateDistributedFile_CheckFlagAndRemote,
   UpdateDistributedFile_CheckFlagAndRemote,
   Atomic!ResetCheckFlag, ResetCheckFlag,
   Atomic!RemoveFileFromMetadata, RemoveFileFromMetadata,
   Atomic!NoFileInfo, NoFileInfo

(* Applying a call to a map gives a map, which differs from it in the      *)
(* entry of the file the call is about.                                    *)
LEMMA ApplyEffect ==
    ASSUME NEW dm \in DataMaps, NEW op \in Atomic!Ops
    PROVE  /\ Atomic!Apply(dm, op) \in DataMaps
           /\ \A g \in Files :
                 g # op.file => Atomic!Apply(dm, op)[g] = dm[g]
<1> USE ApplyCases DEF Atomic!Ops
<1>0. op.file \in Files
  OBVIOUS
<1>1. CASE op.fn = "MakeDataMap"
  BY <1>0, <1>1, MakeDataMapEffect
<1>2. CASE op.fn = "UpdateFileFlag"
  <2>1. op.state \in States
    BY <1>2 DEF States
  <2>2. QED
    BY <1>0, <1>2, <2>1, UpdateFileFlagEffect
<1>3. CASE op.fn = "CheckFlag"
  <2>1. op.shard \in Shards
    BY <1>3
  <2>2. QED
    BY <1>0, <1>3, <2>1, CheckFlagEffect
<1>4. CASE op.fn = "CheckFlagAndRemote"
  <2>1. op.shard \in Shards /\ op.remote \in Remotes \cup {NoRemote}
    BY <1>4
  <2>2. QED
    BY <1>0, <1>4, <2>1, CheckFlagAndRemoteEffect
<1>5. CASE op.fn = "ResetCheckFlag"
  BY <1>0, <1>5, ResetCheckFlagEffect
<1>6. CASE op.fn = "RemoveFileFromMetadata"
  BY <1>0, <1>6, RemoveEffect
<1>7. QED
  BY <1>1, <1>2, <1>3, <1>4, <1>5, <1>6

(* A goroutine in a call is at a stage that makes one.                     *)
LEMMA InCall ==
    ASSUME TypeOK, ControlInv, NEW p \in Procs, NEW t \in Threads,
           io[p][t] # "none"
    PROVE  /\ stage[p] \in Calls /\ cmd[p] \in Commands
           /\ stage[p] # "pool" => t = Main
           /\ stage[p] = "pool" => t \in Shards
<1>1. ControlAt(p)
  BY DEF ControlInv
<1>2. stage[p] \in Calls
  BY <1>1 DEF ControlAt, Idle
<1>3. QED
  BY <1>1, <1>2 DEF ControlAt, Calls, Threads

(* The calls a command makes are calls of the atomic map.                  *)
LEMMA CallOps ==
    ASSUME TypeOK, ControlInv, NEW p \in Procs, NEW t \in Threads,
           io[p][t] # "none", NEW op \in Call(p, t)
    PROVE  op \in Atomic!Ops /\ op.file = cmd[p].file
<1>0. /\ stage[p] \in Calls /\ cmd[p] \in Commands
      /\ stage[p] = "pool" => t \in Shards
  BY InCall
<1>1. ControlAt(p) /\ cmd[p].file \in Files
  BY <1>0 DEF ControlInv, Commands
<1>2. CASE stage[p] = "mark" /\ cmd[p].op = "upload"
  BY <1>1, <1>2 DEF Call, Atomic!Ops
<1>3. CASE stage[p] = "mark" /\ cmd[p].op # "upload"
  <2>1. cmd[p].op \in {"download", "rm"}
    BY <1>1, <1>3 DEF ControlAt
  <2>2. op = [fn |-> "UpdateFileFlag", file |-> cmd[p].file,
              state |-> cmd[p].op]
    BY <1>3 DEF Call
  <2>3. QED
    BY <1>1, <2>1, <2>2 DEF Atomic!Ops
<1>4. CASE stage[p] = "pool" /\ cmd[p].op = "upload"
  <2>1. op \in [fn : {"CheckFlagAndRemote"}, file : {cmd[p].file},
                shard : {t}, remote : Remotes]
    BY <1>4 DEF Call
  <2>2. QED
    BY <1>0, <1>1, <1>4, <2>1 DEF Atomic!Ops
<1>5. CASE stage[p] = "pool" /\ cmd[p].op # "upload"
  <2>1. op = [fn |-> "CheckFlag", file |-> cmd[p].file, shard |-> t]
    BY <1>5 DEF Call
  <2>2. QED
    BY <1>0, <1>1, <1>5, <2>1 DEF Atomic!Ops
<1>6. CASE stage[p] = "reset"
  <2>1. op = [fn |-> "ResetCheckFlag", file |-> cmd[p].file]
    BY <1>6 DEF Call
  <2>2. QED
    BY <1>1, <2>1 DEF Atomic!Ops
<1>7. CASE stage[p] = "drop"
  <2>1. op = [fn |-> "RemoveFileFromMetadata", file |-> cmd[p].file]
    BY <1>7 DEF Call
  <2>2. QED
    BY <1>1, <2>1 DEF Atomic!Ops
<1>8. QED
  BY <1>0, <1>2, <1>3, <1>4, <1>5, <1>6, <1>7 DEF Calls

-----------------------------------------------------------------------------
(* Types and control.                                                      *)

ProcType ==
    /\ cmd   \in [Procs -> Commands \cup {NoCommand}]
    /\ stage \in [Procs -> Stages]
    /\ io    \in [Procs -> [Threads -> IoPcs]]
    /\ buf   \in [Procs -> [Threads -> DataMaps]]
    /\ lock  \in [Procs -> Threads \cup {Nobody}]
    /\ bare  \in [Procs -> SUBSET Shards]
    /\ errs  \in [Procs -> BOOLEAN]

Sound == ProcType /\ ControlInv

(* What readJsonFile returns is a map.                                     *)
LEMMA ReadType == ASSUME TypeOK PROVE Read \in DataMaps
BY EmptyMapType DEF TypeOK, Read

(* A process that ends is in no call.                                      *)
LEMMA EndSound ==
    ASSUME Sound, NEW p \in Procs, End(p)
    PROVE  Sound'
<1>1. ProcType'
  BY EmptyMapType DEF Sound, ProcType, End, Stages, IoPcs
<1>2. ASSUME NEW q \in Procs PROVE ControlAt(q)'
  <2>1. CASE q = p
    <3>1. stage'[p] = "off" /\ \A t \in Threads : io'[p][t] = "none"
      BY DEF Sound, ProcType, End
    <3>2. QED
      BY <2>1, <3>1 DEF ControlAt, Idle, Calls, Threads
  <2>2. CASE q # p
    <3>1. stage'[q] = stage[q] /\ cmd'[q] = cmd[q] /\ io'[q] = io[q]
      BY <2>2 DEF Sound, ProcType, End
    <3>2. QED
      BY <3>1 DEF Sound, ControlInv, ControlAt, Idle
  <2>3. QED
    BY <2>1, <2>2
<1>3. QED
  BY <1>1, <1>2 DEF Sound, ControlInv

(* The main goroutine of a process that is in no call makes one.           *)
LEMMA GotoSound ==
    ASSUME Sound, NEW p \in Procs, cmd[p] \in Commands, Idle(p),
           NEW next \in {"mark", "reset"}, Goto(p, next),
           next = "mark" => cmd[p].op \in {"upload", "download", "rm"}
    PROVE  Sound'
<1>1. ProcType'
  BY DEF Sound, ProcType, Goto, Stages, IoPcs, Threads
<1>2. ASSUME NEW q \in Procs PROVE ControlAt(q)'
  <2>1. CASE q = p
    <3>1. /\ stage'[p] = next /\ cmd'[p] = cmd[p]
          /\ \A t \in Shards : io'[p][t] = "none"
      BY MainAssumption DEF Sound, ProcType, Goto, Idle, Threads
    <3>2. QED
      BY <2>1, <3>1 DEF ControlAt, Idle, Calls
  <2>2. CASE q # p
    <3>1. stage'[q] = stage[q] /\ cmd'[q] = cmd[q] /\ io'[q] = io[q]
      BY <2>2 DEF Sound, ProcType, Goto
    <3>2. QED
      BY <3>1 DEF Sound, ControlInv, ControlAt, Idle
  <2>3. QED
    BY <2>1, <2>2
<1>3. QED
  BY <1>1, <1>2 DEF Sound, ControlInv

(* A goroutine that is in a call and goes on within it, or leaves the      *)
(* pool, leaves the others where they are.                                 *)
LEMMA CallSound ==
    ASSUME Sound, NEW p \in Procs, NEW t \in Threads, io[p][t] # "none",
           NEW next \in IoPcs, next = "none" => stage[p] = "pool",
           UNCHANGED <<cmd, stage>>,
           io' = [io EXCEPT ![p][t] = next]
    PROVE  ControlInv'
<1> SUFFICES ASSUME NEW q \in Procs PROVE ControlAt(q)'
  BY DEF ControlInv
<1>1. ControlAt(p) /\ ControlAt(q)
  BY DEF Sound, ControlInv
<1>2. \A u \in Threads : io'[q][u] = IF q = p /\ u = t THEN next ELSE io[q][u]
  BY DEF Sound, ProcType
<1>3. stage[p] \in Calls
  BY <1>1 DEF ControlAt, Idle
<1>4. CASE q = p
  BY <1>1, <1>2, <1>3, <1>4 DEF ControlAt, Idle, Calls, Threads
<1>5. CASE q # p
  BY <1>1, <1>2, <1>5 DEF ControlAt, Idle, Threads
<1>6. QED
  BY <1>4, <1>5

(* A call that returns nil sends the command on.                           *)
LEMMA ReturnSound ==
    ASSUME Sound, NEW p \in Procs, NEW t \in Threads, io[p][t] # "none",
           Return(p, t)
    PROVE  Sound'
<1>0. ControlAt(p) /\ ProcType
  BY DEF Sound, ControlInv
<1>1. /\ stage[p] \in Calls /\ cmd[p] \in Commands
      /\ stage[p] # "pool" => t = Main
  BY <1>0 DEF ControlAt, Idle, Calls, Threads
<1>2. CASE End(p)
  BY <1>2, EndSound
<1>3. ASSUME ~End(p) PROVE Sound'
  <2>1. /\ lock' = [lock EXCEPT ![p] = Nobody]
        /\ buf'  = [buf EXCEPT ![p][t] = EmptyMap]
        /\ UNCHANGED <<cmd, bare, errs>>
    BY <1>3 DEF Return
  <2>2. /\ lock' \in [Procs -> Threads \cup {Nobody}]
        /\ buf' \in [Procs -> [Threads -> DataMaps]]
        /\ cmd' \in [Procs -> Commands \cup {NoCommand}]
        /\ bare' \in [Procs -> SUBSET Shards] /\ errs' \in [Procs -> BOOLEAN]
    BY <1>0, <2>1, EmptyMapType DEF ProcType
  <2>3. CASE stage[p] = "pool"
    <3>1. io' = [io EXCEPT ![p][t] = "none"] /\ UNCHANGED stage
      BY <1>3, <2>3 DEF Return
    <3>2. "none" \in IoPcs
      BY DEF IoPcs
    <3>3. ControlInv'
      BY <2>1, <2>3, <3>1, <3>2, CallSound
    <3>4. io' \in [Procs -> [Threads -> IoPcs]] /\ stage' \in [Procs -> Stages]
      BY <1>0, <3>1, <3>2 DEF ProcType
    <3>5. QED
      BY <2>2, <3>3, <3>4 DEF Sound, ProcType
  <2>4. ASSUME NEW next \in {"pool", "list", "drop"},
               stage' = [stage EXCEPT ![p] = next],
               io' \in [Procs -> [Threads -> IoPcs]],
               \A q \in Procs : q # p => io'[q] = io[q],
               ControlAt(p)'
        PROVE  Sound'
    <3>1. stage' \in [Procs -> Stages] /\ \A q \in Procs : q # p =>
             stage'[q] = stage[q]
      BY <1>0, <2>4 DEF ProcType, Stages
    <3>2. ASSUME NEW q \in Procs, q # p PROVE ControlAt(q)'
      BY <2>1, <2>4, <3>1, <3>2 DEF Sound, ControlInv, ControlAt, Idle
    <3>3. QED
      BY <2>2, <2>4, <3>1, <3>2 DEF Sound, ProcType, ControlInv
  <2>5. CASE stage[p] = "mark" /\ cmd[p].op = "upload"
    <3>1. io' = Pool(p, Shards) /\ stage' = [stage EXCEPT ![p] = "pool"]
      BY <1>3, <2>5 DEF Return
    <3>2. /\ io' \in [Procs -> [Threads -> IoPcs]]
          /\ \A q \in Procs : q # p => io'[q] = io[q]
          /\ io'[p][Main] = "none" /\ stage'[p] = "pool"
      BY <1>0, <3>1, MainAssumption DEF ProcType, Pool, IoPcs, Threads
    <3>3. ControlAt(p)'
      BY <1>1, <2>1, <2>5, <3>2 DEF ControlAt, Calls
    <3>4. QED
      BY <2>4, <3>1, <3>2, <3>3
  <2>6. CASE stage[p] = "mark" /\ cmd[p].op # "upload"
    <3>1. /\ io' = [io EXCEPT ![p][t] = "none"]
          /\ stage' = [stage EXCEPT ![p] = "list"]
      BY <1>3, <2>6 DEF Return
    <3>2. /\ io' \in [Procs -> [Threads -> IoPcs]]
          /\ \A q \in Procs : q # p => io'[q] = io[q]
          /\ \A u \in Threads : io'[p][u] = "none"
          /\ stage'[p] = "list"
      BY <1>0, <1>1, <2>6, <3>1 DEF ProcType, ControlAt, IoPcs, Threads
    <3>3. ControlAt(p)'
      BY <1>0, <1>1, <2>1, <2>6, <3>2 DEF ControlAt, Idle
    <3>4. QED
      BY <2>4, <3>1, <3>2, <3>3
  <2>7. CASE stage[p] = "reset"
    <3>1. /\ io' = [io EXCEPT ![p][t] = "call"]
          /\ stage' = [stage EXCEPT ![p] = "drop"]
          /\ cmd[p].op \in {"rm", "resume"}
      BY <1>1, <1>3, <2>7 DEF Return, Commands
    <3>2. /\ io' \in [Procs -> [Threads -> IoPcs]]
          /\ \A q \in Procs : q # p => io'[q] = io[q]
          /\ \A u \in Shards : io'[p][u] = "none"
          /\ stage'[p] = "drop"
      BY <1>0, <1>1, <2>7, <3>1, MainAssumption DEF ProcType, ControlAt,
         IoPcs, Threads
    <3>3. ControlAt(p)'
      BY <1>1, <2>1, <3>1, <3>2 DEF ControlAt, Calls
    <3>4. QED
      BY <2>4, <3>1, <3>2, <3>3
  <2>8. CASE stage[p] = "drop"
    BY <1>3, <2>8 DEF Return
  <2>9. QED
    BY <1>1, <2>3, <2>5, <2>6, <2>7, <2>8 DEF Calls
<1>4. QED
  BY <1>2, <1>3

(* A call that fails ends the command, or its goroutine.                   *)
LEMMA FailSound ==
    ASSUME Sound, NEW p \in Procs, NEW t \in Threads, io[p][t] # "none",
           Fail(p, t)
    PROVE  Sound'
<1>1. CASE End(p)
  BY <1>1, EndSound
<1>2. CASE /\ t # Main
           /\ io'   = [io EXCEPT ![p][t] = "none"]
           /\ buf'  = [buf EXCEPT ![p][t] = EmptyMap]
           /\ lock' = [lock EXCEPT ![p] = IF @ = t THEN Nobody ELSE @]
           /\ errs' = [errs EXCEPT ![p] =
                          @ \/ cmd[p].op = "upload" \/ t \notin bare[p]]
           /\ UNCHANGED <<cmd, stage, bare>>
  <2>1. ControlAt(p)
    BY DEF Sound, ControlInv
  <2>2. stage[p] = "pool"
    BY <1>2, <2>1 DEF ControlAt, Idle, Calls, Threads
  <2>3. ControlInv'
    BY <1>2, <2>2, CallSound DEF IoPcs
  <2>4. io' \in [Procs -> [Threads -> IoPcs]]
        /\ buf' \in [Procs -> [Threads -> DataMaps]]
    BY <1>2, EmptyMapType DEF Sound, ProcType, IoPcs
  <2>5. lock' \in [Procs -> Threads \cup {Nobody}]
    BY <1>2 DEF Sound, ProcType
  <2>6. errs' \in [Procs -> BOOLEAN]
    BY <1>2 DEF Sound, ProcType
  <2>7. QED
    BY <1>2, <2>3, <2>4, <2>5, <2>6 DEF Sound, ProcType
<1>3. QED
  BY <1>1, <1>2 DEF Fail

(* Every step keeps a process where its command can be.                    *)
LEMMA StartSound ==
    ASSUME Sound, NEW p \in Procs, NEW c \in Commands, Start(p, c)
    PROVE  Sound'
<1>1. ControlAt(p) /\ ProcType /\ stage[p] = "off"
  BY DEF Sound, ControlInv, Start
<1>2. Idle(p)
  BY <1>1 DEF ControlAt, Calls
<1>3. UNCHANGED <<buf, lock, bare, errs>>
  BY DEF Start
<1>4. /\ cmd' = [cmd EXCEPT ![p] = c]
      /\ stage' = [stage EXCEPT ![p] = IF c.op = "reset" THEN "reset"
                                        ELSE "lookup"]
      /\ io' = [io EXCEPT ![p][Main] = IF c.op = "reset" THEN "call"
                                           ELSE "none"]
  BY DEF Start
<1>5. ProcType'
  <2>1. cmd' \in [Procs -> Commands \cup {NoCommand}]
    BY <1>1, <1>4 DEF ProcType
  <2>2. stage' \in [Procs -> Stages]
    BY <1>1, <1>4 DEF ProcType, Stages
  <2>3. io' \in [Procs -> [Threads -> IoPcs]]
    BY <1>1, <1>4 DEF ProcType, IoPcs
  <2>4. QED
    BY <1>1, <1>3, <2>1, <2>2, <2>3 DEF ProcType
<1>6. ASSUME NEW q \in Procs PROVE ControlAt(q)'
  <2>1. CASE q = p
    <3>1. /\ cmd'[p] = c
          /\ stage'[p] = IF c.op = "reset" THEN "reset" ELSE "lookup"
          /\ io'[p][Main] = IF c.op = "reset" THEN "call" ELSE "none"
          /\ \A t \in Shards : io'[p][t] = "none"
      BY <1>1, <1>2, <1>4, MainAssumption DEF ProcType, Idle, Threads
    <3>2. CASE c.op = "reset"
      BY <2>1, <3>1, <3>2 DEF ControlAt, Calls
    <3>3. CASE c.op # "reset"
      BY <2>1, <3>1, <3>3 DEF ControlAt, Calls, Idle, Threads
    <3>4. QED
      BY <3>2, <3>3
  <2>2. CASE q # p
    <3>1. stage'[q] = stage[q] /\ cmd'[q] = cmd[q] /\ io'[q] = io[q]
      BY <1>1, <1>4, <2>2 DEF ProcType
    <3>2. QED
      BY <3>1 DEF Sound, ControlInv, ControlAt, Idle
  <2>3. QED
    BY <2>1, <2>2
<1>7. QED
  BY <1>5, <1>6 DEF Sound, ControlInv

(* The main goroutine's own steps.                                         *)
LEMMA LookupSound ==
    ASSUME Sound, NEW p \in Procs, Lookup(p)
    PROVE  Sound'
<1>1. ControlAt(p) /\ ProcType /\ stage[p] = "lookup"
  BY DEF Sound, ControlInv, Lookup
<1>2. Idle(p) /\ cmd[p] \in Commands
  BY <1>1 DEF ControlAt, Calls
<1>3. \/ Goto(p, "mark") /\ cmd[p].op \in {"upload", "download", "rm"}
      \/ /\ cmd[p].op = "resume"
         /\ stage' = [stage EXCEPT ![p] = "list"]
         /\ UNCHANGED <<cmd, io, buf, lock, bare, errs>>
      \/ End(p)
  BY DEF Lookup
<1>4. CASE Goto(p, "mark") /\ cmd[p].op \in {"upload", "download", "rm"}
  BY <1>2, <1>4, GotoSound
<1>5. CASE /\ cmd[p].op = "resume"
           /\ stage' = [stage EXCEPT ![p] = "list"]
           /\ UNCHANGED <<cmd, io, buf, lock, bare, errs>>
  <2>1. ProcType'
    BY <1>1, <1>5 DEF ProcType, Stages
  <2>2. ASSUME NEW q \in Procs PROVE ControlAt(q)'
    <3>1. /\ stage'[q] = IF q = p THEN "list" ELSE stage[q]
          /\ cmd'[q] = cmd[q] /\ io'[q] = io[q]
      BY <1>1, <1>5 DEF ProcType
    <3>2. CASE q = p
      BY <1>2, <1>5, <3>1, <3>2 DEF ControlAt, Idle, Calls
    <3>3. CASE q # p
      BY <3>1, <3>3 DEF Sound, ControlInv, ControlAt, Idle
    <3>4. QED
      BY <3>2, <3>3
  <2>3. QED
    BY <2>1, <2>2 DEF Sound, ControlInv
<1>6. QED
  BY <1>3, <1>4, <1>5, EndSound

LEMMA ListSound ==
    ASSUME Sound, NEW p \in Procs, List(p)
    PROVE  Sound'
<1>1. ControlAt(p) /\ ProcType /\ stage[p] = "list"
  BY DEF Sound, ControlInv, List
<1>2. Idle(p) /\ cmd[p] \in Commands
  BY <1>1 DEF ControlAt, Calls
<1>3. \/ End(p)
      \/ /\ stage' = [stage EXCEPT ![p] = "pool"]
         /\ \E shards \in SUBSET Shards : io' = Pool(p, shards)
         /\ \E shards \in SUBSET Shards : bare' = [bare EXCEPT ![p] = shards]
         /\ UNCHANGED <<cmd, buf, lock, errs>>
  <2>1. GetUncompletedFileInfo(Read, cmd[p].file) \in SUBSET Shards
    BY DEF GetUncompletedFileInfo
  <2>2. {s \in Shards : Read[cmd[p].file].Remote[s] = NoRemote}
           \in SUBSET Shards
    OBVIOUS
  <2>3. QED
    BY <2>1, <2>2 DEF List
<1>4. CASE /\ stage' = [stage EXCEPT ![p] = "pool"]
           /\ \E shards \in SUBSET Shards : io' = Pool(p, shards)
           /\ \E shards \in SUBSET Shards : bare' = [bare EXCEPT ![p] = shards]
           /\ UNCHANGED <<cmd, buf, lock, errs>>
  <2>1. PICK shards \in SUBSET Shards : io' = Pool(p, shards)
    BY <1>4
  <2>2. io' \in [Procs -> [Threads -> IoPcs]]
    BY <1>1, <2>1 DEF ProcType, Pool, IoPcs
  <2>3. bare' \in [Procs -> SUBSET Shards]
    BY <1>1, <1>4 DEF ProcType
  <2>4. ProcType'
    BY <1>1, <1>4, <2>2, <2>3 DEF ProcType, Stages
  <2>5. ASSUME NEW q \in Procs PROVE ControlAt(q)'
    <3>1. CASE q = p
      <4>1. /\ stage'[p] = "pool" /\ cmd'[p] = cmd[p]
            /\ io'[p][Main] = "none"
        BY <1>1, <1>4, <2>1, MainAssumption DEF ProcType, Pool, Threads
      <4>2. QED
        BY <1>1, <1>2, <3>1, <4>1 DEF ControlAt, Calls
    <3>2. CASE q # p
      <4>1. stage'[q] = stage[q] /\ cmd'[q] = cmd[q] /\ io'[q] = io[q]
        BY <1>1, <1>4, <2>1, <3>2 DEF ProcType, Pool
      <4>2. QED
        BY <4>1 DEF Sound, ControlInv, ControlAt, Idle
    <3>3. QED
      BY <3>1, <3>2
  <2>6. QED
    BY <2>4, <2>5 DEF Sound, ControlInv
<1>5. QED
  BY <1>3, <1>4, EndSound

LEMMA PoolEndSound ==
    ASSUME Sound, NEW p \in Procs, PoolEnd(p)
    PROVE  Sound'
<1>1. Idle(p) /\ cmd[p] \in Commands
  BY DEF Sound, ControlInv, ControlAt, PoolEnd, Idle
<1>2. CASE Goto(p, "reset")
  BY <1>1, <1>2, GotoSound
<1>3. QED
  BY <1>2, EndSound DEF PoolEnd

(* A goroutine's steps within its call.                                    *)
LEMMA ReadSound ==
    ASSUME TypeOK, Sound, NEW p \in Procs, NEW t \in Threads,
           ReadAndChange(p, t)
    PROVE  Sound'
<1>1. ProcType /\ io[p][t] # "none"
  BY DEF Sound, ReadAndChange
<1>2. PICK op \in Call(p, t) :
          buf' = [buf EXCEPT ![p][t] = Atomic!Apply(Read, op)]
  BY DEF ReadAndChange
<1>3. op \in Atomic!Ops
  BY <1>1, CallOps DEF Sound
<1>4. Atomic!Apply(Read, op) \in DataMaps
  BY <1>3, ReadType, ApplyEffect
<1>5. buf' \in [Procs -> [Threads -> DataMaps]]
  BY <1>1, <1>2, <1>4 DEF ProcType
<1>6. lock' \in [Procs -> Threads \cup {Nobody}]
  BY <1>1 DEF ProcType, ReadAndChange
<1>7. io' \in [Procs -> [Threads -> IoPcs]]
  BY <1>1 DEF ProcType, ReadAndChange, IoPcs
<1>8. ControlInv'
  BY <1>1, CallSound DEF ReadAndChange, IoPcs
<1>9. QED
  BY <1>1, <1>5, <1>6, <1>7, <1>8 DEF Sound, ProcType, ReadAndChange

LEMMA WriterSound ==
    ASSUME Sound, NEW p \in Procs, NEW t \in Threads,
           Truncate(p, t) \/ WriteBegin(p, t)
    PROVE  Sound'
<1>1. PICK next \in {"truncated", "writing"} :
          io' = [io EXCEPT ![p][t] = next]
  BY DEF Truncate, WriteBegin
<1>2. /\ io[p][t] # "none"
      /\ UNCHANGED <<cmd, stage, buf, lock, bare, errs>>
  BY DEF Truncate, WriteBegin
<1>3. ControlInv'
  BY <1>1, <1>2, CallSound DEF IoPcs
<1>4. ProcType'
  BY <1>1, <1>2 DEF Sound, ProcType, IoPcs
<1>5. QED
  BY <1>3, <1>4 DEF Sound

LEMMA SoundStep == TypeOK /\ Sound /\ [Next]_vars => Sound'
<1> SUFFICES ASSUME TypeOK, Sound, [Next]_vars PROVE Sound'
  OBVIOUS
<1>1. CASE UNCHANGED vars
  BY <1>1 DEF vars, proc, Sound, ProcType, ControlInv, ControlAt, Idle
<1>2. ASSUME NEW p \in Procs, NEW t \in Threads,
             ReadError(p, t) \/ WriteError(p, t)
      PROVE  Sound'
  BY <1>2, FailSound DEF ReadError, WriteError
<1>3. ASSUME NEW p \in Procs, NEW t \in Threads, WriteEnd(p, t) PROVE Sound'
  BY <1>3, ReturnSound DEF WriteEnd
<1>4. ASSUME NEW p \in Procs, Kill(p) PROVE Sound'
  BY <1>4, EndSound DEF Kill
<1>5. QED
  BY <1>1, <1>2, <1>3, <1>4, StartSound, LookupSound, ListSound, PoolEndSound,
     ReadSound, WriterSound DEF Next, Step

(* The variables that are not a process's.                                 *)
LEMMA GlobalStep ==
    TypeOK /\ Sound /\ [Next]_vars =>
        /\ kind' \in Kinds
        /\ content' \in DataMaps
        /\ started' \in 0..MaxCommands
        /\ cuts' \in 0..MaxCuts
        /\ together' \in BOOLEAN
        /\ spoilt' \in BOOLEAN
        /\ listed' \subseteq Files
<1> SUFFICES ASSUME TypeOK, Sound, [Next]_vars
             PROVE  /\ kind' \in Kinds
                    /\ content' \in DataMaps
                    /\ started' \in 0..MaxCommands
                    /\ cuts' \in 0..MaxCuts
                    /\ together' \in BOOLEAN
                    /\ spoilt' \in BOOLEAN
                    /\ listed' \subseteq Files
  OBVIOUS
<1> USE CutsAssumption DEF TypeOK
<1>1. CASE UNCHANGED <<file, ghosts>>
  BY <1>1 DEF file, ghosts
<1>2. ASSUME NEW p \in Procs, NEW c \in Commands, Start(p, c)
      PROVE  /\ UNCHANGED <<kind, content, cuts, spoilt, listed>>
             /\ started' \in 0..MaxCommands /\ together' \in BOOLEAN
  BY <1>2 DEF Start, file
<1>3. ASSUME NEW p \in Procs, NEW t \in Threads, Truncate(p, t)
      PROVE  /\ UNCHANGED <<started, cuts, together, spoilt>>
             /\ kind' \in Kinds /\ content' \in DataMaps /\ listed' \subseteq Files
  BY <1>3, EmptyMapType DEF Truncate, Kinds
<1>4. ASSUME NEW p \in Procs, NEW t \in Threads, WriteBegin(p, t)
      PROVE  /\ UNCHANGED <<started, cuts, together, spoilt, listed>>
             /\ kind' \in Kinds /\ content' \in DataMaps
  BY <1>4, EmptyMapType DEF WriteBegin, Kinds, ghosts
<1>5. ASSUME NEW p \in Procs, NEW t \in Threads, WriteEnd(p, t)
      PROVE  /\ UNCHANGED <<started, cuts, together, spoilt>>
             /\ kind' \in Kinds /\ content' \in DataMaps /\ listed' \subseteq Files
  <2>1. cmd[p].file \in Files
    <3>1. io[p][t] # "none"
      BY <1>5 DEF WriteEnd
    <3>2. cmd[p] \in Commands
      BY <3>1, InCall DEF Sound
    <3>3. QED
      BY <3>2 DEF Commands
  <2>2. QED
    BY <1>5, <2>1 DEF WriteEnd, Kinds
<1>6. ASSUME NEW p \in Procs, NEW t \in Threads, WriteError(p, t)
      PROVE  /\ UNCHANGED <<kind, content, started, together, listed>>
             /\ cuts' \in 0..MaxCuts /\ spoilt' \in BOOLEAN
  BY <1>6 DEF WriteError, file
<1>7. ASSUME NEW p \in Procs, Kill(p)
      PROVE  /\ UNCHANGED <<kind, content, started, together, listed>>
             /\ cuts' \in 0..MaxCuts /\ spoilt' \in BOOLEAN
  BY <1>7 DEF Kill, file
<1>8. \/ UNCHANGED <<file, ghosts>>
      \/ \E p \in Procs :
            \/ Kill(p)
            \/ \E c \in Commands : Start(p, c)
            \/ \E t \in Threads :
                  \/ Truncate(p, t) \/ WriteBegin(p, t) \/ WriteEnd(p, t)
                  \/ WriteError(p, t)
  BY DEF Next, Step, vars, Lookup, List, PoolEnd, ReadAndChange, ReadError
<1>9. QED
  BY <1>1, <1>2, <1>3, <1>4, <1>5, <1>6, <1>7, <1>8

LEMMA SoundInit == Init => TypeOK /\ Sound
<1> SUFFICES ASSUME Init PROVE TypeOK /\ Sound
  OBVIOUS
<1>1. ProcType
  BY EmptyMapType DEF Init, ProcType, Stages, IoPcs
<1>2. ControlInv
  BY DEF Init, ControlInv, ControlAt, Idle, Calls, Threads
<1>3. content \in DataMaps
  <2>1. CASE content = EmptyMap
    BY <2>1, EmptyMapType
  <2>2. CASE content \in [Files -> {NoFileInfo} \cup FinishedUploads]
    <3>1. NoFileInfo \in FileInfo
      BY DEF NoFileInfo, FileInfo, States
    <3>2. ASSUME NEW e \in FinishedUploads PROVE e \in FileInfo
      <4>1. e.Check \in [Shards -> BOOLEAN]
        BY DEF FinishedUploads
      <4>2. e.Remote \in [Shards -> Remotes \cup {NoRemote}]
        BY DEF FinishedUploads
      <4>3. e = [Flag |-> e.Flag, State |-> e.State, Enc |-> e.Enc,
                 Remote |-> e.Remote, Check |-> e.Check]
            /\ e.Flag = FALSE /\ e.State = "upload" /\ e.Enc = 1
        BY DEF FinishedUploads
      <4>4. e.Flag \in BOOLEAN /\ e.State \in States /\ e.Enc \in Nat
        <5>1. e.Flag \in BOOLEAN
          BY <4>3, Zenon
        <5>2. e.State \in States /\ e.Enc \in Nat
          BY <4>3 DEF States
        <5>3. QED
          BY <5>1, <5>2
      <4>5. [Flag |-> e.Flag, State |-> e.State, Enc |-> e.Enc,
             Remote |-> e.Remote, Check |-> e.Check] \in FileInfo
        BY <4>1, <4>2, <4>4 DEF FileInfo
      <4>6. QED
        BY <4>3, <4>5
    <3>3. QED
      BY <2>2, <3>1, <3>2 DEF DataMaps
  <2>3. QED
    BY <2>1, <2>2 DEF Init
<1>4. kind \in Kinds /\ listed \subseteq Files
  BY DEF Init, Kinds
<1>5. started \in 0..MaxCommands /\ cuts \in 0..MaxCuts
  BY CutsAssumption DEF Init
<1>6. together \in BOOLEAN /\ spoilt \in BOOLEAN
  BY DEF Init
<1>7. QED
  BY <1>1, <1>2, <1>3, <1>4, <1>5, <1>6 DEF TypeOK, Sound, ProcType

(* Types: the map in the file and the maps in memory always have the       *)
(* fields of datamap.go's structs, whichever processes and goroutines read *)
(* and write the file at once and whichever are cut short.                 *)
THEOREM TypeCorrect == Spec => []TypeOK
<1>1. TypeOK /\ Sound /\ [Next]_vars => (TypeOK /\ Sound)'
  BY SoundStep, GlobalStep DEF TypeOK, Sound, ProcType
<1>2. Spec => [](TypeOK /\ Sound)
  BY <1>1, SoundInit, PTL DEF Spec
<1>3. QED
  BY <1>2, PTL

-----------------------------------------------------------------------------
(* The mutex, and the one writer of a process that runs alone.             *)

(* The steps of process p, and what they leave of the others.              *)
Act(p) ==
    \/ Step(p)
    \/ Kill(p)
    \/ \E c \in Commands : Start(p, c)
    \/ \E t \in Threads : WriteError(p, t)

Same(q) ==
    /\ cmd'[q] = cmd[q] /\ stage'[q] = stage[q] /\ io'[q] = io[q]
    /\ buf'[q] = buf[q] /\ lock'[q] = lock[q]
    /\ bare'[q] = bare[q] /\ errs'[q] = errs[q]

LEMMA EndSame ==
    ASSUME ProcType, NEW p \in Procs, NEW q \in Procs, q # p, End(p)
    PROVE  Same(q)
BY DEF ProcType, End, Same

LEMMA ReturnSame ==
    ASSUME Sound, NEW p \in Procs, NEW t \in Threads, io[p][t] # "none",
           NEW q \in Procs, q # p, Return(p, t)
    PROVE  Same(q)
<1>0. ProcType /\ stage[p] \in Calls
  BY DEF Sound, ControlInv, ControlAt, Idle
<1>1. CASE End(p)
  BY <1>0, <1>1, EndSame
<1>2. ASSUME ~End(p) PROVE Same(q)
  <2>1. /\ lock' = [lock EXCEPT ![p] = Nobody]
        /\ buf'  = [buf EXCEPT ![p][t] = EmptyMap]
        /\ UNCHANGED <<cmd, bare, errs>>
    BY <1>2 DEF Return
  <2>2. /\ \/ UNCHANGED stage
           \/ \E next \in Stages : stage' = [stage EXCEPT ![p] = next]
        /\ \/ io' = Pool(p, Shards)
           \/ \E pc \in IoPcs : io' = [io EXCEPT ![p][t] = pc]
    BY <1>0, <1>2 DEF Return, Calls, Stages, IoPcs
  <2>3. stage'[q] = stage[q] /\ io'[q] = io[q]
    BY <1>0, <2>2 DEF ProcType, Pool
  <2>4. QED
    BY <1>0, <2>1, <2>3 DEF ProcType, Same
<1>3. QED
  BY <1>1, <1>2

(* A step of one process leaves the others where they are.                 *)
LEMMA OthersSame ==
    ASSUME TypeOK, Sound, NEW p \in Procs, Act(p), NEW q \in Procs, q # p
    PROVE  Same(q)
<1>0. ProcType
  BY DEF Sound
<1>1. ASSUME NEW c \in Commands, Start(p, c) PROVE Same(q)
  BY <1>0, <1>1 DEF ProcType, Start, Same
<1>2. ASSUME NEW next, Goto(p, next) PROVE Same(q)
  BY <1>0, <1>2 DEF ProcType, Goto, Same
<1>3. CASE Lookup(p)
  BY <1>0, <1>2, <1>3, EndSame DEF ProcType, Lookup, Same
<1>4. CASE List(p)
  <2>1. CASE End(p)
    BY <1>0, <2>1, EndSame
  <2>2. CASE ~End(p)
    <3>1. /\ stage' = [stage EXCEPT ![p] = "pool"]
          /\ \E S : io' = Pool(p, S)
          /\ \E S : bare' = [bare EXCEPT ![p] = S]
          /\ UNCHANGED <<cmd, buf, lock, errs>>
      BY <1>4, <2>2 DEF List
    <3>2. io'[q] = io[q] /\ bare'[q] = bare[q] /\ stage'[q] = stage[q]
      BY <1>0, <3>1 DEF ProcType, Pool
    <3>3. QED
      BY <3>1, <3>2 DEF Same
  <2>3. QED
    BY <2>1, <2>2
<1>5. CASE PoolEnd(p)
  BY <1>0, <1>2, <1>5, EndSame DEF PoolEnd
<1>6. CASE Kill(p)
  BY <1>0, <1>6, EndSame DEF Kill
<1>7. ASSUME NEW t \in Threads, Fail(p, t) PROVE Same(q)
  <2>1. CASE End(p)
    BY <1>0, <2>1, EndSame
  <2>2. CASE ~End(p)
    BY <1>0, <1>7, <2>2 DEF ProcType, Fail, Same
  <2>3. QED
    BY <2>1, <2>2
<1>8. ASSUME NEW t \in Threads, ReadAndChange(p, t) PROVE Same(q)
  <2>1. /\ \E m : buf' = [buf EXCEPT ![p][t] = m]
        /\ \E l : lock' = [lock EXCEPT ![p] = l]
        /\ io'   = [io EXCEPT ![p][t] = "changed"]
        /\ UNCHANGED <<cmd, stage, bare, errs>>
    BY <1>8 DEF ReadAndChange
  <2>2. QED
    BY <1>0, <2>1 DEF ProcType, Same
<1>9. ASSUME NEW t \in Threads, Truncate(p, t) \/ WriteBegin(p, t)
      PROVE  Same(q)
  BY <1>0, <1>9 DEF ProcType, Truncate, WriteBegin, Same
<1>10. ASSUME NEW t \in Threads, WriteEnd(p, t) PROVE Same(q)
  BY <1>10, ReturnSame DEF WriteEnd
<1>11. QED
  BY <1>1, <1>3, <1>4, <1>5, <1>6, <1>7, <1>8, <1>9, <1>10
     DEF Act, Step, ReadError, WriteError

(* A command that starts, ends or comes to its next call has no goroutine  *)
(* between a read and the end of a write.                                  *)
LEMMA EndBusy ==
    ASSUME ProcType, NEW p \in Procs, End(p), NEW u \in Threads
    PROVE  ~Busy(p, u)'
<1>1. io'[p][u] = "none"
  BY DEF ProcType, End
<1>2. QED
  BY <1>1 DEF Busy

LEMMA MainBusy ==
    ASSUME Sound, NEW p \in Procs, NEW u \in Threads,
           \/ Lookup(p) \/ List(p) \/ PoolEnd(p) \/ Kill(p)
           \/ \E c \in Commands : Start(p, c)
    PROVE  ~Busy(p, u)'
<1>0. ProcType /\ ControlAt(p)
  BY DEF Sound, ControlInv
<1>1. ASSUME Idle(p), NEW pc \in {"call", "none"}, NEW v \in Threads,
             io' = [io EXCEPT ![p][v] = pc]
      PROVE  ~Busy(p, u)'
  <2>1. io'[p][u] \in {"none", "call"}
    BY <1>0, <1>1 DEF ProcType, Idle
  <2>2. QED
    BY <2>1 DEF Busy
<1>2. ASSUME NEW S, io' = Pool(p, S) PROVE ~Busy(p, u)'
  <2>1. io'[p][u] \in {"none", "call"}
    BY <1>0, <1>2 DEF ProcType, Pool
  <2>2. QED
    BY <2>1 DEF Busy
<1>3. ASSUME Idle(p), UNCHANGED io PROVE ~Busy(p, u)'
  BY <1>3 DEF Busy, Idle
<1>4. CASE End(p)
  BY <1>0, <1>4, EndBusy
<1>5. Main \in Threads
  BY DEF Threads
<1>6. CASE Lookup(p)
  <2>1. Idle(p)
    BY <1>0, <1>6 DEF ControlAt, Lookup, Calls
  <2>2. QED
    BY <1>1, <1>3, <1>4, <1>5, <1>6, <2>1 DEF Lookup, Goto
<1>7. CASE List(p)
  BY <1>2, <1>4, <1>7 DEF List
<1>8. CASE PoolEnd(p)
  <2>1. Idle(p)
    BY <1>8 DEF PoolEnd, Idle
  <2>2. QED
    BY <1>1, <1>4, <1>5, <1>8, <2>1 DEF PoolEnd, Goto
<1>9. ASSUME NEW c \in Commands, Start(p, c) PROVE ~Busy(p, u)'
  <2>1. Idle(p)
    BY <1>0, <1>9 DEF ControlAt, Start, Calls
  <2>2. QED
    BY <1>1, <1>5, <1>9, <2>1 DEF Start
<1>10. QED
  BY <1>4, <1>6, <1>7, <1>8, <1>9 DEF Kill

(* A goroutine that fails is out of its call, and leaves the others of its *)
(* process as they are unless it ends the process.                         *)
LEMMA FailOthers ==
    ASSUME ProcType, NEW p \in Procs, NEW t \in Threads, Fail(p, t)
    PROVE  \/ \A u \in Threads : ~Busy(p, u)'
           \/ /\ ~Busy(p, t)'
              /\ t # Main
              /\ UNCHANGED <<cmd, stage>>
              /\ io'   = [io EXCEPT ![p][t] = "none"]
              /\ buf'  = [buf EXCEPT ![p][t] = EmptyMap]
              /\ lock' = [lock EXCEPT ![p] = IF @ = t THEN Nobody ELSE @]
<1>1. CASE End(p)
  BY <1>1, EndBusy
<1>2. CASE ~End(p)
  <2>1. /\ io'   = [io EXCEPT ![p][t] = "none"]
        /\ t # Main
        /\ buf'  = [buf EXCEPT ![p][t] = EmptyMap]
        /\ lock' = [lock EXCEPT ![p] = IF @ = t THEN Nobody ELSE @]
        /\ UNCHANGED <<cmd, stage>>
    BY <1>2 DEF Fail
  <2>2. io'[p][t] = "none"
    BY <2>1 DEF ProcType
  <2>3. QED
    BY <2>1, <2>2 DEF Busy
<1>3. QED
  BY <1>1, <1>2

(* Two goroutines of a process are never both past their read.             *)
LEMMA OneBusyHere ==
    ASSUME TypeOK, Sound, MutexInv, NEW p \in Procs,
           NEW t \in Threads, Busy(p, t), NEW u \in Threads, Busy(p, u)
    PROVE  t = u
<1>1. io[p][t] # "none" /\ io[p][u] # "none"
  BY DEF Busy
<1>2. CASE stage[p] = "pool"
  BY <1>2 DEF MutexInv, Locks
<1>3. CASE stage[p] # "pool"
  BY <1>1, <1>3, InCall DEF Sound
<1>4. QED
  BY <1>2, <1>3

LEMMA ReturnBusy ==
    ASSUME TypeOK, Sound, MutexInv, NEW p \in Procs, NEW t \in Threads,
           Busy(p, t), Return(p, t), NEW u \in Threads
    PROVE  ~Busy(p, u)'
<1>0. ProcType /\ stage[p] \in Calls
  BY InCall DEF Sound, Busy
<1>1. CASE End(p)
  BY <1>0, <1>1, EndBusy
<1>2. ASSUME ~End(p) PROVE ~Busy(p, u)'
  <2>1. \/ io' = Pool(p, Shards)
        \/ \E pc \in {"none", "call"} : io' = [io EXCEPT ![p][t] = pc]
    BY <1>0, <1>2 DEF Return, Calls
  <2>2. CASE u = t
    <3>1. io'[p][u] \in {"none", "call"}
      BY <1>0, <2>1, <2>2 DEF ProcType, Pool
    <3>2. QED
      BY <3>1 DEF Busy
  <2>3. CASE u # t
    <3>1. ~Busy(p, u)
      BY <2>3, OneBusyHere
    <3>2. io'[p][u] \in {"none", "call", io[p][u]}
      BY <1>0, <2>1, <2>3 DEF ProcType, Pool
    <3>3. QED
      BY <3>1, <3>2 DEF Busy
  <2>4. QED
    BY <2>2, <2>3
<1>3. QED
  BY <1>1, <1>2

(* jsonFileMutex is held from the read to the end of the write.            *)
LEMMA MutexStep == TypeOK /\ Sound /\ MutexInv /\ [Next]_vars => MutexInv'
<1> SUFFICES ASSUME TypeOK, Sound, MutexInv, [Next]_vars,
                    NEW q \in Procs, NEW u \in Threads, Busy(q, u)', Locks(q)'
             PROVE  lock'[q] = u
  BY DEF MutexInv
<1>0. ProcType
  BY DEF Sound
<1>1. CASE UNCHANGED vars
  BY <1>1 DEF vars, proc, MutexInv, Busy, Locks
<1>2. ASSUME Same(q) PROVE lock'[q] = u
  BY <1>2 DEF Same, MutexInv, Busy, Locks
<1>3. ASSUME NEW t \in Threads, Fail(q, t) PROVE lock'[q] = u
  <2>1. /\ u # t
        /\ UNCHANGED <<cmd, stage>>
        /\ io'   = [io EXCEPT ![q][t] = "none"]
        /\ lock' = [lock EXCEPT ![q] = IF @ = t THEN Nobody ELSE @]
    BY <1>0, <1>3, FailOthers
  <2>2. io'[q][u] = io[q][u]
    BY <1>0, <2>1 DEF ProcType
  <2>3. lock[q] = u
    BY <2>1, <2>2 DEF MutexInv, Busy, Locks
  <2>4. QED
    BY <1>0, <2>1, <2>3 DEF ProcType
<1>4. ASSUME NEW t \in Threads, ReadAndChange(q, t) PROVE lock'[q] = u
  <2>1. /\ UNCHANGED <<cmd, stage>>
        /\ lock' = [lock EXCEPT ![q] = IF Locks(q) THEN t ELSE @]
        /\ io'   = [io EXCEPT ![q][t] = "changed"]
        /\ Locks(q) => lock[q] = Nobody
    BY <1>4 DEF ReadAndChange
  <2>2. Locks(q) /\ lock[q] = Nobody
    BY <2>1 DEF Locks
  <2>3. lock'[q] = t
    BY <1>0, <2>1, <2>2 DEF ProcType
  <2>4. CASE u # t
    <3>1. io'[q][u] = io[q][u]
      BY <1>0, <2>1, <2>4 DEF ProcType
    <3>2. lock[q] = u
      BY <2>2, <3>1 DEF MutexInv, Busy
    <3>3. QED
      BY <2>2, <3>2, MainAssumption
  <2>5. QED
    BY <2>3, <2>4
<1>5. ASSUME NEW t \in Threads, Truncate(q, t) \/ WriteBegin(q, t)
      PROVE  lock'[q] = u
  <2>1. /\ UNCHANGED <<cmd, stage, lock>>
        /\ \E pc : io' = [io EXCEPT ![q][t] = pc]
        /\ Busy(q, t)
    BY <1>5 DEF Truncate, WriteBegin, Busy
  <2>2. u # t => io'[q][u] = io[q][u]
    BY <1>0, <2>1 DEF ProcType
  <2>3. QED
    BY <2>1, <2>2 DEF MutexInv, Busy, Locks
<1>6. ASSUME NEW t \in Threads, WriteEnd(q, t) PROVE lock'[q] = u
  BY <1>6, ReturnBusy DEF WriteEnd, Busy
<1>7. ASSUME NEW p \in Procs, Act(p) PROVE lock'[q] = u
  <2>1. CASE q # p
    BY <1>2, <1>7, <2>1, OthersSame
  <2>2. CASE q = p
    BY <1>3, <1>4, <1>5, <1>6, <1>7, <2>2, MainBusy DEF Act, Step, ReadError,
       WriteError
  <2>3. QED
    BY <2>1, <2>2
<1>8. QED
  BY <1>1, <1>7 DEF Next, Act

(* While processes run one at a time, one goroutine at most is between its *)
(* read and the end of its write.                                          *)
LEMMA OneBusy ==
    ASSUME TypeOK, Sound, MutexInv, Alone,
           NEW p \in Procs, NEW t \in Threads, Busy(p, t),
           NEW q \in Procs, NEW u \in Threads, Busy(q, u)
    PROVE  p = q /\ t = u
<1>1. stage[p] \in Calls /\ stage[q] \in Calls
  BY InCall DEF Sound, Busy
<1>2. p = q
  BY <1>1 DEF Alone, Live, Calls
<1>3. QED
  BY <1>2, OneBusyHere

-----------------------------------------------------------------------------
(* One process at a time.                                                  *)

(* A process that takes a step has started.                                *)
LEMMA ActLive ==
    ASSUME TypeOK, Sound, NEW p \in Procs, Act(p)
    PROVE  stage[p] # "off" \/ \E c \in Commands : Start(p, c)
<1>1. ASSUME NEW t \in Threads, io[p][t] # "none" PROVE stage[p] # "off"
  BY <1>1, InCall DEF Sound, Calls
<1>2. QED
  BY <1>1 DEF Act, Step, Lookup, List, PoolEnd, Kill, ReadAndChange, ReadError,
     Truncate, WriteBegin, WriteEnd, WriteError

(* Nobody else is live while a process that runs alone takes a step.       *)
LEMMA OthersOff ==
    ASSUME TypeOK, Sound, NEW p \in Procs, Act(p), ~together',
           FileInv, NEW q \in Procs, q # p
    PROVE  /\ ~together
           /\ stage[q] = "off" /\ stage'[q] = "off"
           /\ \A t \in Threads : ~Busy(q, t) /\ ~Busy(q, t)'
<1>1. ~together
  BY DEF Act, Step, Lookup, List, PoolEnd, Kill, ReadAndChange, ReadError,
     Truncate, WriteBegin, WriteEnd, WriteError, Start, ghosts
<1>2. Same(q)
  BY OthersSame
<1>3. stage[q] = "off"
  <2>1. CASE stage[p] # "off"
    BY <1>1, <2>1 DEF FileInv, Alone, Live
  <2>2. CASE \E c \in Commands : Start(p, c)
    BY <2>2 DEF Start, Live
  <2>3. QED
    BY <2>1, <2>2, ActLive
<1>4. \A t \in Threads : io[q][t] = "none"
  BY <1>3 DEF Sound, ControlInv, ControlAt, Idle, Calls
<1>5. QED
  BY <1>1, <1>2, <1>3, <1>4 DEF Same, Busy

LEMMA AloneStep ==
    ASSUME TypeOK, Sound, FileInv, [Next]_vars, ~together'
    PROVE  Alone'
<1>1. CASE UNCHANGED vars
  BY <1>1 DEF FileInv, Alone, Live, vars, proc, ghosts
<1>2. ASSUME NEW p \in Procs, Act(p) PROVE Alone'
  <2>1. \A q \in Procs : q # p => stage'[q] = "off"
    BY <1>2, OthersOff
  <2>2. QED
    BY <2>1 DEF Alone, Live
<1>3. QED
  BY <1>1, <1>2 DEF Next, Act

(* The file under a goroutine past its read.                               *)
LEMMA FileStep ==
    TypeOK /\ Sound /\ MutexInv /\ FileInv /\ [Next]_vars => FileInv'
<1> SUFFICES ASSUME TypeOK, Sound, MutexInv, FileInv, [Next]_vars, ~together'
             PROVE  (Alone /\ \A p \in Procs, t \in Threads : CallFits(p, t))'
  BY DEF FileInv
<1>0. ProcType
  BY DEF Sound
<1>1. ASSUME NEW q \in Procs, NEW u \in Threads, ~Busy(q, u)'
      PROVE  CallFits(q, u)'
  BY <1>1 DEF CallFits, Busy
<1>2. ASSUME NEW p \in Procs, Act(p), NEW q \in Procs, NEW u \in Threads
      PROVE  CallFits(q, u)'
  <2>1. CASE q # p
    BY <1>1, <1>2, <2>1, OthersOff
  <2>2. ASSUME Busy(p, u)' PROVE CallFits(p, u)'
    <3>0. ~together /\ Alone
      BY <1>2 DEF FileInv, Act, Step, Lookup, List, PoolEnd, Kill,
         ReadAndChange, ReadError, Truncate, WriteBegin, WriteEnd, WriteError,
         Start, ghosts
    <3>1. CallFits(p, u)
      BY <3>0 DEF FileInv
    <3>2. ASSUME /\ io'[p][u] = io[p][u] /\ buf'[p][u] = buf[p][u]
                 /\ UNCHANGED <<kind, content, cmd, stage>>
          PROVE  CallFits(p, u)'
      <4>1. Read' = Read /\ Readable' = Readable /\ Call(p, u)' = Call(p, u)
        BY <3>2 DEF Read, Readable, Call
      <4>2. QED
        BY <3>1, <3>2, <4>1 DEF CallFits, Atomic!Accepts, Atomic!Apply
    <3>3. ASSUME NEW t \in Threads, Fail(p, t), UNCHANGED <<kind, content>>
          PROVE  CallFits(p, u)'
      <4>1. /\ u # t
            /\ UNCHANGED <<cmd, stage>>
            /\ io'   = [io EXCEPT ![p][t] = "none"]
            /\ buf'  = [buf EXCEPT ![p][t] = EmptyMap]
        BY <1>0, <2>2, <3>3, FailOthers
      <4>2. io'[p][u] = io[p][u] /\ buf'[p][u] = buf[p][u]
        BY <1>0, <4>1 DEF ProcType
      <4>3. QED
        BY <3>2, <3>3, <4>1, <4>2
    <3>4. ASSUME NEW t \in Threads, ReadAndChange(p, t) PROVE CallFits(p, u)'
      <4>1. PICK op \in Call(p, t) :
               /\ Atomic!Accepts(Read, op)
               /\ buf' = [buf EXCEPT ![p][t] = Atomic!Apply(Read, op)]
        BY <3>4 DEF ReadAndChange
      <4>2. /\ io' = [io EXCEPT ![p][t] = "changed"]
            /\ UNCHANGED <<kind, content, cmd, stage>>
            /\ Readable
        BY <3>4 DEF ReadAndChange, file
      <4>3. CASE u # t
        <5>1. io'[p][u] = io[p][u] /\ buf'[p][u] = buf[p][u]
          BY <1>0, <4>1, <4>2, <4>3 DEF ProcType
        <5>2. QED
          BY <3>2, <4>2, <5>1
      <4>4. CASE u = t
        <5>1. /\ io'[p][u] = "changed"
              /\ buf'[p][u] = Atomic!Apply(Read, op)
          BY <1>0, <4>1, <4>2, <4>4 DEF ProcType
        <5>2. Read' = Read /\ Readable' = Readable /\ Call(p, u)' = Call(p, u)
          BY <4>2 DEF Read, Readable, Call
        <5>3. op \in Call(p, u)' /\ Atomic!Accepts(Read, op)'
          BY <4>1, <4>4, <5>2 DEF Atomic!Accepts
        <5>4. buf'[p][u] = Atomic!Apply(Read, op)'
          BY <5>1, <5>2 DEF Atomic!Apply
        <5>5. QED
          BY <4>2, <5>1, <5>2, <5>3, <5>4 DEF CallFits
      <4>5. QED
        BY <4>3, <4>4
    <3>5. ASSUME NEW t \in Threads, Truncate(p, t) \/ WriteBegin(p, t)
          PROVE  CallFits(p, u)'
      <4>1. CASE u # t
        <5>1. Busy(p, t) /\ io'[p][u] = io[p][u]
          BY <1>0, <3>5, <4>1 DEF ProcType, Busy, Truncate, WriteBegin
        <5>2. Busy(p, u)
          BY <2>2, <5>1 DEF Busy
        <5>3. QED
          BY <4>1, <5>1, <5>2, OneBusyHere
      <4>2. CASE u = t
        BY <1>0, <3>5, <4>2 DEF ProcType, CallFits, Truncate, WriteBegin
      <4>3. QED
        BY <4>1, <4>2
    <3>6. ASSUME NEW t \in Threads, WriteEnd(p, t) PROVE CallFits(p, u)'
      BY <2>2, <3>6, ReturnBusy DEF WriteEnd, Busy
    <3>7. QED
      BY <1>2, <2>2, <3>3, <3>4, <3>5, <3>6, MainBusy DEF Act, Step, ReadError,
         WriteError, file
  <2>3. QED
    BY <1>1, <2>1, <2>2
<1>3. CASE UNCHANGED vars
  <2>1. ASSUME NEW q \in Procs, NEW u \in Threads PROVE CallFits(q, u)'
    <3>1. /\ UNCHANGED <<kind, content, cmd, stage, io, buf>>
          /\ CallFits(q, u)
      BY <1>3 DEF vars, file, proc, ghosts, FileInv
    <3>2. Read' = Read /\ Readable' = Readable /\ Call(q, u)' = Call(q, u)
      BY <3>1 DEF Read, Readable, Call
    <3>3. QED
      BY <3>1, <3>2 DEF CallFits, Atomic!Accepts, Atomic!Apply
  <2>2. QED
    BY <2>1, AloneStep
<1>4. QED
  BY <1>2, <1>3, AloneStep DEF Next, Act

-----------------------------------------------------------------------------
(* The file as an atomic map.                                              *)

InWindow(p, t) == io[p][t] \in {"truncated", "writing"}

(* The map outside of a window is what readJsonFile returns; within it, it *)
(* is what the one writer is about to write.                               *)
LEMMA NoWindow ==
    ASSUME \A p \in Procs, t \in Threads : ~InWindow(p, t)
    PROVE  Window = {} /\ Durable = Read /\ Broken = ~Readable
<1>1. Window = {}
  BY DEF Window, InWindow
<1>2. QED
  BY <1>1 DEF Durable, Broken

LEMMA NoWindowAfter ==
    ASSUME \A p \in Procs, t \in Threads : ~InWindow(p, t)'
    PROVE  Window' = {} /\ Durable' = Read' /\ Broken' = ~Readable'
<1>1. Window' = {}
  BY DEF Window, InWindow
<1>2. QED
  BY <1>1 DEF Durable, Broken

LEMMA OneWindow ==
    ASSUME NEW p \in Procs, NEW t \in Threads, InWindow(p, t),
           \A q \in Procs, u \in Threads : InWindow(q, u) => q = p /\ u = t
    PROVE  Window = {<<p, t>>} /\ Durable = buf[p][t] /\ Broken = FALSE
<1>1. Window = {<<p, t>>}
  BY DEF Window, InWindow
<1>2. (CHOOSE w \in Window : TRUE) = <<p, t>>
  BY <1>1
<1>3. QED
  BY <1>1, <1>2 DEF Durable, Broken

LEMMA OneWindowAfter ==
    ASSUME NEW p \in Procs, NEW t \in Threads, InWindow(p, t)',
           \A q \in Procs, u \in Threads : InWindow(q, u)' => q = p /\ u = t
    PROVE  Window' = {<<p, t>>} /\ Durable' = buf'[p][t] /\ Broken' = FALSE
<1>1. Window' = {<<p, t>>}
  BY DEF Window, InWindow
<1>2. (CHOOSE w \in Window' : TRUE) = <<p, t>>
  BY <1>1
<1>3. QED
  BY <1>1, <1>2 DEF Durable, Broken

Inv == TypeOK /\ Sound /\ MutexInv /\ FileInv

(* A goroutine about to read is the only one of its process in a call that *)
(* has read.                                                               *)
LEMMA ReaderAlone ==
    ASSUME Inv, NEW p \in Procs, NEW t \in Threads, io[p][t] = "call",
           Locks(p) => lock[p] = Nobody, NEW u \in Threads
    PROVE  ~Busy(p, u)
<1> SUFFICES ASSUME Busy(p, u) PROVE FALSE
  OBVIOUS
<1>1. CASE stage[p] = "pool"
  BY <1>1, MainAssumption DEF Inv, MutexInv, Locks
<1>2. CASE stage[p] # "pool"
  <2>1. t = Main /\ u = Main
    BY <1>2, InCall DEF Inv, Sound, Busy
  <2>2. QED
    BY <2>1 DEF Busy
<1>3. QED
  BY <1>1, <1>2

(* The steps that read, or begin or end no write, leave the map.           *)
LEMMA ReaderKeeps ==
    ASSUME Inv, NEW p \in Procs, ~together',
           \/ Lookup(p) \/ List(p) \/ PoolEnd(p)
           \/ \E c \in Commands : Start(p, c)
           \/ \E t \in Threads : ReadAndChange(p, t) \/ ReadError(p, t)
    PROVE  /\ Window = {} /\ Window' = {}
           /\ Durable = Read /\ Durable' = Durable
           /\ Broken' = Broken
<1>0. TypeOK /\ Sound /\ ProcType /\ MutexInv /\ FileInv /\ Act(p)
      /\ ControlAt(p)
  BY DEF Inv, Sound, ControlInv, Act, Step
<1>1. UNCHANGED <<kind, content>>
  BY DEF Lookup, List, PoolEnd, Start, ReadAndChange, ReadError, file
<1>2. ASSUME NEW u \in Threads PROVE ~InWindow(p, u) /\ ~InWindow(p, u)'
  <2>1. CASE \/ Lookup(p) \/ List(p) \/ PoolEnd(p)
             \/ \E c \in Commands : Start(p, c)
    <3>1. ~Busy(p, u)'
      BY <1>0, <2>1, MainBusy
    <3>2. Idle(p)
      BY <1>0, <2>1 DEF ControlAt, Lookup, List, PoolEnd, Start, Idle, Calls
    <3>3. QED
      BY <3>1, <3>2 DEF InWindow, Busy, Idle
  <2>2. ASSUME NEW t \in Threads, ReadAndChange(p, t)
        PROVE  ~InWindow(p, u) /\ ~InWindow(p, u)'
    <3>1. ~Busy(p, u)
      BY <2>2, ReaderAlone DEF ReadAndChange
    <3>2. io'[p][u] \in {"changed", io[p][u]}
      BY <1>0, <2>2 DEF ProcType, ReadAndChange
    <3>3. QED
      BY <3>1, <3>2 DEF InWindow, Busy
  <2>3. ASSUME NEW t \in Threads, ReadError(p, t)
        PROVE  ~InWindow(p, u) /\ ~InWindow(p, u)'
    <3>1. ~Busy(p, u)
      BY <2>3, ReaderAlone DEF ReadError
    <3>2. \/ ~Busy(p, u)'
          \/ io' = [io EXCEPT ![p][t] = "none"]
      BY <1>0, <2>3, FailOthers DEF ReadError
    <3>3. ~Busy(p, u)' \/ io'[p][u] \in {"none", io[p][u]}
      BY <1>0, <3>2 DEF ProcType
    <3>4. QED
      BY <3>1, <3>3 DEF InWindow, Busy
  <2>4. QED
    BY <2>1, <2>2, <2>3
<1>3. \A q \in Procs, u \in Threads : ~InWindow(q, u) /\ ~InWindow(q, u)'
  <2>1. ASSUME NEW q \in Procs, NEW u \in Threads, q # p
        PROVE  ~InWindow(q, u) /\ ~InWindow(q, u)'
    <3>1. ~Busy(q, u) /\ ~Busy(q, u)'
      BY <1>0, <2>1, OthersOff
    <3>2. QED
      BY <3>1 DEF InWindow, Busy
  <2>2. QED
    BY <1>2, <2>1
<1>4. Read' = Read /\ Readable' = Readable
  BY <1>1 DEF Read, Readable
<1>5. QED
  BY <1>3, <1>4, NoWindow, NoWindowAfter

(* A writer is alone with the file.                                        *)
LEMMA WriterAlone ==
    ASSUME Inv, NEW p \in Procs, Act(p), ~together',
           NEW t \in Threads, Busy(p, t),
           NEW q \in Procs, NEW u \in Threads, q # p \/ u # t
    PROVE  ~InWindow(q, u)
<1>1. ~together
  BY DEF Act, Step, Lookup, List, PoolEnd, Kill, ReadAndChange, ReadError,
     Truncate, WriteBegin, WriteEnd, WriteError, Start, ghosts
<1>2. ~Busy(q, u)
  BY <1>1, OneBusy DEF Inv, FileInv
<1>3. QED
  BY <1>2 DEF Busy, InWindow

(* Truncating the file applies the goroutine's call to the map.            *)
LEMMA TruncateApplies ==
    ASSUME Inv, NEW p \in Procs, NEW t \in Threads, Truncate(p, t), ~together'
    PROVE  /\ Durable = Read /\ Window = {} /\ ~Broken /\ ~Broken'
           /\ \E op \in Call(p, t) : /\ op \in Atomic!Ops
                                     /\ op.file = cmd[p].file
                                     /\ Atomic!Accepts(Durable, op)
                                     /\ Durable' = Atomic!Apply(Durable, op)
<1>0. TypeOK /\ Sound /\ ProcType /\ MutexInv /\ FileInv /\ Act(p)
      /\ Busy(p, t) /\ ~InWindow(p, t)
  BY DEF Inv, Sound, Act, Step, Truncate, Busy, InWindow
<1>1. \A q \in Procs, u \in Threads : ~InWindow(q, u)
  BY <1>0, WriterAlone
<1>2. Window = {} /\ Durable = Read /\ Broken = ~Readable
  BY <1>1, NoWindow
<1>3. CallFits(p, t) /\ io[p][t] = "changed"
  BY DEF Inv, FileInv, Truncate
<1>4. PICK op \in Call(p, t) :
         Atomic!Accepts(Read, op) /\ buf[p][t] = Atomic!Apply(Read, op)
  BY <1>3 DEF CallFits
<1>5. op \in Atomic!Ops /\ op.file = cmd[p].file
  BY <1>0, <1>3, CallOps DEF Sound
<1>6. \A q \in Procs, u \in Threads :
         io'[q][u] = IF q = p /\ u = t THEN "truncated" ELSE io[q][u]
  BY <1>0 DEF ProcType, Truncate
<1>7. /\ InWindow(p, t)'
      /\ \A q \in Procs, u \in Threads : InWindow(q, u)' => q = p /\ u = t
  BY <1>1, <1>6 DEF InWindow
<1>8. Durable' = buf'[p][t] /\ Broken' = FALSE
  BY <1>7, OneWindowAfter
<1>9. buf' = buf
  BY DEF Truncate
<1>10. QED
  BY <1>2, <1>3, <1>4, <1>5, <1>8, <1>9 DEF CallFits

(* The two halves of the write change nothing more.                        *)
LEMMA WriteKeeps ==
    ASSUME Inv, NEW p \in Procs, NEW t \in Threads, ~together',
           WriteBegin(p, t) \/ WriteEnd(p, t)
    PROVE  Durable' = Durable /\ Broken' = Broken
<1>0. TypeOK /\ Sound /\ ProcType /\ MutexInv /\ FileInv /\ Act(p)
      /\ Busy(p, t) /\ InWindow(p, t)
  BY DEF Inv, Sound, Act, Step, WriteBegin, WriteEnd, Busy, InWindow
<1>1. \A q \in Procs, u \in Threads : InWindow(q, u) => q = p /\ u = t
  BY <1>0, WriterAlone
<1>2. Durable = buf[p][t] /\ Broken = FALSE
  BY <1>0, <1>1, OneWindow
<1>3. CASE WriteBegin(p, t)
  <2>1. \A q \in Procs, u \in Threads :
           io'[q][u] = IF q = p /\ u = t THEN "writing" ELSE io[q][u]
    BY <1>0, <1>3 DEF ProcType, WriteBegin
  <2>2. /\ InWindow(p, t)'
        /\ \A q \in Procs, u \in Threads : InWindow(q, u)' => q = p /\ u = t
    BY <1>1, <2>1 DEF InWindow
  <2>3. Durable' = buf'[p][t] /\ Broken' = FALSE
    BY <2>2, OneWindowAfter
  <2>4. QED
    BY <1>2, <1>3, <2>3 DEF WriteBegin
<1>4. CASE WriteEnd(p, t)
  <2>1. \A u \in Threads : ~Busy(p, u)'
    BY <1>0, <1>4, ReturnBusy DEF WriteEnd
  <2>2. ASSUME NEW q \in Procs, NEW u \in Threads PROVE ~InWindow(q, u)'
    <3>1. ~Busy(q, u)'
      BY <1>0, <2>1, OthersOff
    <3>2. QED
      BY <3>1 DEF Busy, InWindow
  <2>3. Durable' = Read' /\ Broken' = ~Readable'
    BY <2>2, NoWindowAfter
  <2>4. Read' = buf[p][t] /\ Readable'
    BY <1>4 DEF WriteEnd, Read, Readable
  <2>5. QED
    BY <1>2, <2>3, <2>4
<1>5. QED
  BY <1>3, <1>4

(* An interruption leaves the map, or takes all of it if it hits a write.  *)
LEMMA CutForgets ==
    ASSUME Inv, NEW p \in Procs, ~together',
           Kill(p) \/ \E t \in Threads : WriteError(p, t)
    PROVE  /\ Window = {} => Durable' = Durable /\ Broken' = Broken
           /\ Window # {} => Durable' = EmptyMap /\ spoilt'
<1>0. TypeOK /\ Sound /\ ProcType /\ MutexInv /\ FileInv /\ Act(p)
  BY DEF Inv, Sound, Act
<1>1. UNCHANGED <<kind, content>> /\ ~together
  BY DEF Kill, WriteError, file
<1>2. \A u \in Threads : ~Busy(p, u)'
  <2>1. CASE Kill(p)
    BY <1>0, <2>1, MainBusy
  <2>2. ASSUME NEW t \in Threads, WriteError(p, t), NEW u \in Threads
        PROVE  ~Busy(p, u)'
    <3>1. Busy(p, t)
      BY <2>2 DEF WriteError, Busy
    <3>2. \/ ~Busy(p, u)'
          \/ u # t /\ io' = [io EXCEPT ![p][t] = "none"]
      BY <1>0, <2>2, FailOthers DEF WriteError
    <3>3. u # t => ~Busy(p, u)
      BY <1>0, <3>1, OneBusyHere
    <3>4. QED
      BY <1>0, <3>2, <3>3 DEF ProcType, Busy
  <2>3. QED
    BY <2>1, <2>2
<1>3. ASSUME NEW q \in Procs, NEW u \in Threads PROVE ~InWindow(q, u)'
  <2>1. ~Busy(q, u)'
    BY <1>0, <1>2, OthersOff
  <2>2. QED
    BY <2>1 DEF Busy, InWindow
<1>4. Durable' = Read' /\ Broken' = ~Readable'
  BY <1>3, NoWindowAfter
<1>5. Read' = Read /\ Readable' = Readable
  BY <1>1 DEF Read, Readable
<1>6. CASE Window = {}
  BY <1>4, <1>5, <1>6 DEF Durable, Broken
<1>7. ASSUME Window # {} PROVE Durable' = EmptyMap /\ spoilt'
  <2>1. PICK q \in Procs, u \in Threads : InWindow(q, u)
    BY <1>7 DEF Window, InWindow
  <2>2. q = p
    <3>1. Busy(q, u)
      BY <2>1 DEF InWindow, Busy
    <3>2. QED
      BY <1>0, <3>1, OthersOff
  <2>3. CallFits(q, u)
    BY <1>1 DEF Inv, FileInv
  <2>4. kind \in {"empty", "torn"}
    BY <2>1, <2>3 DEF CallFits, InWindow
  <2>5. Read = EmptyMap
    BY <2>4 DEF Read
  <2>6. spoilt'
    BY <2>1, <2>2 DEF Kill, WriteError, InWindow
  <2>7. QED
    BY <1>4, <1>5, <2>5, <2>6
<1>8. QED
  BY <1>6, <1>7

LEMMA InvHolds == Spec => []Inv
<1>1. Init => Inv
  <2>1. Init => MutexInv /\ FileInv
    BY DEF Init, MutexInv, FileInv, Busy, Alone, Live, CallFits, Threads
  <2>2. QED
    BY <2>1, SoundInit DEF Inv
<1>2. Inv /\ [Next]_vars => Inv'
  <2>1. TypeOK /\ Sound /\ [Next]_vars => TypeOK'
    BY SoundStep, GlobalStep DEF TypeOK, Sound, ProcType
  <2>2. QED
    BY <2>1, SoundStep, MutexStep, FileStep DEF Inv
<1>3. QED
  BY <1>1, <1>2, PTL DEF Spec

(* Every step of a process that runs alone leaves the map of the file,     *)
(* applies one call of datamap.go to it, or, cut short in a write, takes   *)
(* all of it: readers and writers among the goroutines of the pool do not  *)
(* show, however many there are.                                           *)
THEOREM CallsAreAtomic == Spec => UpdatesAtomic
<1>1. ASSUME Inv, [Next]_vars, ~together'
      PROVE  \/ UNCHANGED <<Durable, Broken>>
             \/ \E op \in Atomic!Ops : Atomic!Update(op)
             \/ cuts' > cuts /\ Window # {} /\ Atomic!Forget
  <2>1. CASE UNCHANGED vars
    <3>1. UNCHANGED <<kind, content, io, buf>>
      BY <2>1 DEF vars, file, proc
    <3>2. Window' = Window /\ Read' = Read /\ Readable' = Readable
      BY <3>1 DEF Window, Read, Readable
    <3>3. QED
      BY <3>1, <3>2 DEF Durable, Broken
  <2>2. ASSUME NEW p \in Procs, NEW t \in Threads, Truncate(p, t)
        PROVE  \E op \in Atomic!Ops : Atomic!Update(op)
    <3>1. PICK op \in Call(p, t) : /\ op \in Atomic!Ops
                                   /\ Atomic!Accepts(Durable, op)
                                   /\ Durable' = Atomic!Apply(Durable, op)
      BY <1>1, <2>2, TruncateApplies
    <3>2. ~Broken /\ Broken' = Broken
      BY <1>1, <2>2, TruncateApplies DEF Broken
    <3>3. Atomic!Update(op)
      BY <3>1, <3>2 DEF Atomic!Update
    <3>4. QED
      BY <3>1, <3>3
  <2>3. ASSUME NEW p \in Procs,
               Kill(p) \/ \E t \in Threads : WriteError(p, t)
        PROVE  \/ UNCHANGED <<Durable, Broken>>
               \/ cuts' > cuts /\ Window # {} /\ Atomic!Forget
    <3>1. cuts' > cuts
      BY <1>1, <2>3, CutsAssumption DEF Inv, TypeOK, Kill, WriteError
    <3>2. Window # {} => Atomic!Forget
      <4>1. Broken' \in BOOLEAN
        BY DEF Broken
      <4>2. QED
        BY <1>1, <2>3, <4>1, CutForgets DEF Atomic!Forget, Atomic!EmptyMap,
           EmptyMap, Atomic!NoFileInfo, NoFileInfo
    <3>3. QED
      BY <1>1, <2>3, <3>1, <3>2, CutForgets
  <2>4. QED
    BY <1>1, <2>1, <2>2, <2>3, ReaderKeeps, WriteKeeps DEF Next, Step
<1>2. Inv /\ [Next]_vars =>
          [~together' =>
              \/ UNCHANGED <<Durable, Broken>>
              \/ \E op \in Atomic!Ops : Atomic!Update(op)
              \/ cuts' > cuts /\ Window # {} /\ Atomic!Forget]_vars
  BY <1>1
<1>3. QED
  BY <1>2, InvHolds, PTL DEF Spec, UpdatesAtomic

-----------------------------------------------------------------------------
(* What is listed.                                                         *)

LEMMA HistoryInit == Init => HistoryInv
<1> SUFFICES ASSUME Init, NEW f \in listed PROVE ListedFits(f)
  BY DEF HistoryInv, Init
<1>1. \A p \in Procs, t \in Threads : ~InWindow(p, t)
  BY DEF Init, InWindow
<1>2. Durable = content
  BY <1>1, NoWindow DEF Init, Read
<1>3. content \in [Files -> {NoFileInfo} \cup FinishedUploads] /\ f \in Files
      /\ Exists(content, f)
  BY DEF Init
<1>4. content[f] \in FinishedUploads
  BY <1>3 DEF Exists, NoFileInfo
<1>5. \A s \in Shards : content[f].Remote[s] # NoRemote
  <2>1. content[f].Remote \in [Shards -> Remotes]
    BY <1>4 DEF FinishedUploads
  <2>2. QED
    BY <2>1, NoRemoteAssumption
<1>6. ~content[f].Flag
  BY <1>4 DEF FinishedUploads
<1>7. QED
  BY <1>2, <1>3, <1>5, <1>6 DEF ListedFits

(* A step that leaves the map and the history leaves what is listed.       *)
LEMMA ListedSame ==
    ASSUME Durable' = Durable, listed' = listed,
           \A f \in listed : ListedFits(f)
    PROVE  \A f \in listed' : ListedFits(f)'
BY DEF ListedFits, Exists

(* A command that starts may be a repair, and a repair that goes on with a *)
(* removal is not of a listed file.                                        *)
LEMMA StartHistory ==
    ASSUME Inv, NEW p \in Procs, NEW c \in Commands, Start(p, c), ~together',
           \A f \in listed : ListedFits(f)
    PROVE  HistoryAt(p)'
<1>1. Durable = Read
  BY ReaderKeeps
<1>2. /\ cmd'[p] = c
      /\ stage'[p] = IF c.op = "reset" THEN "reset" ELSE "lookup"
      /\ listed' = listed
  BY DEF Inv, Sound, ProcType, Start
<1>3. ASSUME c.op = "resume", c.file \in listed PROVE FALSE
  <2>1. /\ c.file \in Flagged(Read) /\ c.op = Repair[Read[c.file].State]
    BY <1>3 DEF Start, Allowed
  <2>2. Read[c.file].Flag /\ Read[c.file].State = "download"
    BY <1>1, <1>3, <2>1 DEF Flagged, ListedFits
  <2>3. QED
    BY <1>3, <2>1, <2>2 DEF Repair
<1>4. CASE c.op = "reset"
  BY <1>2, <1>4 DEF HistoryAt
<1>5. CASE c.op # "reset"
  BY <1>2, <1>3, <1>5 DEF HistoryAt, Past
<1>6. QED
  BY <1>4, <1>5

(* The reads of the main goroutine: an upload goes on only if its name is  *)
(* not listed, and past its pool only if every goroutine recorded a remote.*)
LEMMA MainHistory ==
    ASSUME Inv, NEW p \in Procs, Lookup(p) \/ List(p) \/ PoolEnd(p),
           ~together', stage'[p] # "off", HistoryAt(p),
           \A f \in listed : ListedFits(f)
    PROVE  HistoryAt(p)'
<1>0. ProcType /\ ControlAt(p) /\ ~End(p)
  BY DEF Inv, Sound, ControlInv, End, ProcType
<1>1. Durable = Read /\ Durable' = Durable
  BY ReaderKeeps
<1>2. UNCHANGED <<cmd, listed>>
  BY <1>0 DEF Lookup, List, PoolEnd, Goto, ghosts
<1>3. CASE Lookup(p)
  <2>1. CASE stage' = [stage EXCEPT ![p] = "list"] /\ cmd[p].op = "resume"
    BY <1>2, <2>1 DEF HistoryAt
  <2>2. CASE /\ Goto(p, "mark")
             /\ cmd[p].op = "upload" /\ Readable /\ ~Exists(Read, cmd[p].file)
    <3>1. cmd[p].file \notin listed
      BY <1>1, <2>2 DEF ListedFits
    <3>2. stage'[p] = "mark" /\ io'[p][Main] = "call"
      BY <1>0, <2>2 DEF ProcType, Goto, Threads
    <3>3. QED
      BY <1>2, <2>2, <3>1, <3>2 DEF HistoryAt, Past
  <2>3. CASE Goto(p, "mark") /\ cmd[p].op \in {"download", "rm"}
    <3>2. stage'[p] = "mark" /\ io'[p][Main] = "call"
      BY <1>0, <2>3 DEF ProcType, Goto, Threads
    <3>3. QED
      BY <1>2, <2>3, <3>2 DEF HistoryAt, Past
  <2>4. QED
    BY <1>0, <1>3, <2>1, <2>2, <2>3 DEF Lookup
<1>4. CASE List(p)
  <2>1. /\ cmd[p].op \in {"download", "rm", "resume"} /\ Past(p)
    BY <1>0, <1>4 DEF ControlAt, List, Past
  <2>2. QED
    BY <1>2, <2>1 DEF HistoryAt
<1>5. CASE PoolEnd(p)
  <2>1. /\ Goto(p, "reset") /\ stage[p] = "pool"
        /\ \A t \in Threads : io[p][t] = "none"
        /\ cmd[p].op = "upload" => ~errs[p]
    BY <1>0, <1>5 DEF PoolEnd
  <2>2. stage'[p] = "reset" /\ io'[p][Main] = "call"
    BY <1>0, <2>1 DEF ProcType, Goto, Threads
  <2>3. Past(p)
    BY <2>1 DEF Past
  <2>4. cmd[p].op = "upload" => \A s \in Shards : RecordedAt(p, s)
    BY <2>1 DEF HistoryAt, Threads
  <2>5. QED
    BY <1>1, <1>2, <2>2, <2>3, <2>4 DEF HistoryAt, Past, RecordedAt, Exists
<1>6. QED
  BY <1>3, <1>4, <1>5

(* Truncating: the call of the goroutine takes effect.                     *)
LEMMA TruncateHistory ==
    ASSUME Inv, NEW p \in Procs, NEW t \in Threads, Truncate(p, t), ~together',
           HistoryAt(p), \A f \in listed : ListedFits(f)
    PROVE  HistoryAt(p)' /\ \A f \in listed' : ListedFits(f)'
<1>0. ProcType /\ ControlAt(p)
  BY DEF Inv, Sound, ControlInv
<1>1. /\ stage[p] \in Calls /\ cmd[p] \in Commands
      /\ stage[p] # "pool" => t = Main
      /\ stage[p] = "pool" => t \in Shards
  BY InCall DEF Inv, Sound, Truncate
<1>2. /\ UNCHANGED <<cmd, stage, errs>>
      /\ listed' = IF stage[p] = "mark" /\ cmd[p].op = "rm"
                     THEN listed \ {cmd[p].file} ELSE listed
      /\ io[p][t] = "changed"
      /\ \A u \in Threads : io'[p][u] = IF u = t THEN "truncated" ELSE io[p][u]
  BY <1>0 DEF Truncate, ProcType
<1>3. Durable = Read /\ Durable \in DataMaps /\ cmd[p].file \in Files
  BY <1>1, TruncateApplies, ReadType DEF Inv, Commands
<1>4. PICK op \in Call(p, t) : /\ op \in Atomic!Ops
                               /\ op.file = cmd[p].file
                               /\ Durable' = Atomic!Apply(Durable, op)
                               /\ Atomic!Accepts(Durable, op)
  BY TruncateApplies
<1> PICK f \in Files : f = cmd[p].file
  BY <1>3
<1>5. \A g \in Files : g # f => Durable'[g] = Durable[g]
  BY <1>3, <1>4, ApplyEffect
<1>6. listed \subseteq Files /\ listed' \subseteq listed
  BY <1>2 DEF Inv, TypeOK
<1>7. ASSUME f \in listed' => ListedFits(f)'
      PROVE  \A g \in listed' : ListedFits(g)'
  BY <1>5, <1>6, <1>7 DEF ListedFits, Exists
<1>8. CASE stage[p] = "mark" /\ cmd[p].op = "upload"
  <2>1. Durable' = MakeDataMap(Durable, f, 1)
    BY <1>4, <1>8, ApplyCases DEF Call
  <2>2. Exists(Durable, f)'
    BY <1>3, <2>1, MakeDataMapEffect DEF Exists
  <2>3. f \notin listed'
    BY <1>6, <1>8 DEF HistoryAt
  <2>4. QED
    BY <1>2, <1>7, <1>8, <2>2, <2>3 DEF HistoryAt
<1>9. CASE stage[p] = "mark" /\ cmd[p].op # "upload"
  <2>1. Durable' = UpdateFileFlag(Durable, f, cmd[p].op)
    BY <1>4, <1>9, ApplyCases DEF Call
  <2>2. cmd[p].op \in {"download", "rm"}
    BY <1>0, <1>9 DEF ControlAt
  <2>3. f \in listed' => f \in listed /\ cmd[p].op = "download"
    BY <1>2, <1>9, <2>2
  <2>4. Durable'[f].State = cmd[p].op /\ Durable'[f].Remote = Durable[f].Remote
    <3>1. cmd[p].op \in States
      BY <2>2 DEF States
    <3>2. QED
      BY <1>3, <2>1, <3>1, UpdateFileFlagEffect
  <2>5. f \in listed' => ListedFits(f)'
    BY <2>3, <2>4 DEF ListedFits, Exists
  <2>6. cmd[p].op = "rm" => f \notin listed'
    BY <1>2, <1>9
  <2>7. QED
    BY <1>2, <1>7, <1>9, <2>2, <2>5, <2>6 DEF HistoryAt
<1>10. CASE stage[p] = "pool" /\ cmd[p].op = "upload"
  <2>1. /\ op.remote \in Remotes /\ op.shard = t
        /\ op.fn = "CheckFlagAndRemote"
    BY <1>4, <1>10 DEF Call
  <2>2. Durable' = UpdateDistributedFile_CheckFlagAndRemote(
                       Durable, f, t, op.remote)
    BY <1>4, <2>1, ApplyCases
  <2>3. /\ Durable'[f].Flag <=> Durable[f].Flag
        /\ Durable'[f].State = Durable[f].State
        /\ \A s \in Shards :
              Durable'[f].Remote[s] = IF s = t THEN op.remote
                                               ELSE Durable[f].Remote[s]
    BY <1>1, <1>3, <1>10, <2>1, <2>2, CheckFlagAndRemoteEffect
  <2>4. f \in listed' => ListedFits(f)'
    BY <1>6, <2>1, <2>3, NoRemoteAssumption DEF ListedFits, Exists
  <2>5. Exists(Durable, f)'
    <3>1. Past(p)
      BY <1>10 DEF Past
    <3>2. QED
      BY <1>10, <2>3, <3>1 DEF HistoryAt, Exists
  <2>6. ~errs[p] => \A s \in Shards :
           io'[p][s] \notin {"call", "changed"} => RecordedAt(p, s)'
    BY <1>2, <1>10, <2>1, <2>3, NoRemoteAssumption
       DEF HistoryAt, RecordedAt, Threads
  <2>7. QED
    BY <1>2, <1>7, <1>10, <2>4, <2>5, <2>6 DEF HistoryAt
<1>11. CASE stage[p] = "pool" /\ cmd[p].op # "upload"
  <2>1. Durable' = UpdateDistributedFile_CheckFlag(Durable, f, t)
    BY <1>4, <1>11, ApplyCases DEF Call
  <2>2. /\ Durable'[f].Flag <=> Durable[f].Flag
        /\ Durable'[f].State = Durable[f].State
        /\ Durable'[f].Remote = Durable[f].Remote
    BY <1>1, <1>3, <1>11, <2>1, CheckFlagEffect
  <2>3. f \in listed' => ListedFits(f)'
    BY <1>6, <2>2 DEF ListedFits, Exists
  <2>4. Past(p)
    BY <1>11 DEF Past
  <2>5. QED
    BY <1>2, <1>7, <1>11, <2>3, <2>4 DEF HistoryAt
<1>12. CASE stage[p] = "reset"
  <2>1. Durable' = ResetCheckFlag(Durable, f)
    BY <1>4, <1>12, ApplyCases DEF Call
  <2>2. /\ ~Durable'[f].Flag
        /\ Durable'[f].State = Durable[f].State
        /\ Durable'[f].Remote = Durable[f].Remote
    BY <1>3, <2>1, ResetCheckFlagEffect
  <2>3. f \in listed' => ListedFits(f)'
    BY <1>6, <2>2 DEF ListedFits, Exists
  <2>4. Past(p) /\ listed' = listed
    BY <1>2, <1>12 DEF Past
  <2>5. QED
    BY <1>2, <1>7, <1>12, <2>2, <2>3, <2>4 DEF HistoryAt, RecordedAt, Exists
<1>13. CASE stage[p] = "drop"
  <2>1. Past(p) /\ listed' = listed /\ cmd[p].op \in {"rm", "resume"}
    BY <1>0, <1>2, <1>13 DEF Past, ControlAt
  <2>2. f \notin listed'
    BY <2>1 DEF HistoryAt
  <2>3. QED
    BY <1>2, <1>7, <1>13, <2>1, <2>2 DEF HistoryAt
<1>14. QED
  BY <1>1, <1>8, <1>9, <1>10, <1>11, <1>12, <1>13 DEF Calls

(* The steps of a call that leave the map leave what is known of it.       *)
LEMMA CallHistory ==
    ASSUME Inv, NEW p \in Procs, NEW t \in Threads, ~together',
           ReadAndChange(p, t) \/ ReadError(p, t) \/ WriteBegin(p, t),
           stage'[p] # "off", HistoryAt(p)
    PROVE  HistoryAt(p)'
<1>0. ProcType /\ Durable' = Durable
  BY ReaderKeeps, WriteKeeps DEF Inv, Sound
<1>1. ~End(p)
  BY <1>0 DEF End, ProcType
<1>2. UNCHANGED <<cmd, stage, listed>>
  BY <1>1 DEF ReadAndChange, ReadError, WriteBegin, Fail, ghosts
<1>3. CASE ReadError(p, t)
  <2>1. /\ io[p][t] # "none" /\ t # Main
        /\ errs' = [errs EXCEPT ![p] =
                      @ \/ cmd[p].op = "upload" \/ t \notin bare[p]]
    BY <1>1, <1>3 DEF ReadError, Fail
  <2>2. stage[p] = "pool"
    BY <2>1, InCall DEF Inv, Sound
  <2>3. cmd[p].op = "upload" => errs'[p]
    BY <1>0, <2>1 DEF ProcType
  <2>4. Past(p)
    BY <2>2 DEF Past
  <2>5. QED
    BY <1>0, <1>2, <2>2, <2>3, <2>4 DEF HistoryAt, Exists
<1>4. CASE ReadAndChange(p, t) \/ WriteBegin(p, t)
  <2>1. /\ errs' = errs
        /\ \A u \in Threads :
              \/ io'[p][u] = io[p][u]
              \/ io[p][u] = "call" /\ io'[p][u] = "changed"
              \/ io[p][u] = "truncated" /\ io'[p][u] = "writing"
    BY <1>0, <1>4 DEF ProcType, ReadAndChange, WriteBegin
  <2>2. Past(p)' = Past(p)
    BY <1>2, <2>1 DEF Past, Threads
  <2>3. \A s \in Shards : /\ RecordedAt(p, s)' = RecordedAt(p, s)
                          /\ io'[p][s] \notin {"call", "changed"} =>
                                io[p][s] \notin {"call", "changed"}
    BY <1>0, <1>2, <2>1 DEF RecordedAt, Threads
  <2>4. io'[p][Main] \in {"truncated", "writing"} =>
           io[p][Main] \in {"truncated", "writing"}
    BY <2>1 DEF Threads
  <2>5. QED
    BY <1>0, <1>2, <2>1, <2>2, <2>3, <2>4 DEF HistoryAt, Exists
<1>5. QED
  BY <1>3, <1>4

(* A call that returns: a finished upload is listed from here on.          *)
LEMMA ReturnHistory ==
    ASSUME Inv, NEW p \in Procs, NEW t \in Threads, WriteEnd(p, t), ~together',
           HistoryAt(p), \A f \in listed : ListedFits(f)
    PROVE  /\ stage'[p] # "off" => HistoryAt(p)'
           /\ \A f \in listed' : ListedFits(f)'
<1>0. ProcType /\ Durable' = Durable /\ ControlAt(p)
  BY WriteKeeps DEF Inv, Sound, ControlInv
<1>1. /\ stage[p] \in Calls /\ cmd[p] \in Commands
      /\ stage[p] # "pool" => t = Main
      /\ stage[p] = "pool" => t \in Shards
      /\ io[p][t] = "writing" /\ Return(p, t)
  BY InCall DEF Inv, Sound, WriteEnd
<1>2. Past(p)
  BY <1>1 DEF Past, Calls
<1>3. ASSUME NEW f \in listed' PROVE ListedFits(f)'
  <2>1. CASE f \in listed
    BY <1>0, <2>1 DEF ListedFits, Exists
  <2>2. CASE f \notin listed
    <3>1. stage[p] = "reset" /\ cmd[p].op = "upload" /\ f = cmd[p].file
      BY <2>2 DEF WriteEnd
    <3>2. /\ Exists(Durable, f) /\ ~Durable[f].Flag
          /\ \A s \in Shards : Durable[f].Remote[s] # NoRemote
      BY <1>1, <1>2, <3>1 DEF HistoryAt, RecordedAt
    <3>3. QED
      BY <1>0, <3>2 DEF ListedFits, Exists
  <2>3. QED
    BY <2>1, <2>2
<1>4. ASSUME stage'[p] # "off" PROVE HistoryAt(p)'
  <2>1. ~End(p)
    BY <1>0, <1>4 DEF End, ProcType
  <2>2. UNCHANGED <<cmd, errs>> /\ listed' = listed
    BY <1>1, <2>1 DEF Return, WriteEnd
  <2>3. CASE stage[p] = "pool"
    <3>1. io' = [io EXCEPT ![p][t] = "none"] /\ UNCHANGED stage
      BY <1>1, <2>1, <2>3 DEF Return
    <3>2. \A s \in Shards : io'[p][s] \notin {"call", "changed"} =>
             io[p][s] \notin {"call", "changed"}
      BY <1>0, <1>1, <2>3, <3>1 DEF ProcType, Threads
    <3>3. QED
      BY <1>0, <1>2, <2>2, <2>3, <3>1, <3>2 DEF HistoryAt, RecordedAt, Exists
  <2>4. CASE stage[p] = "mark" /\ cmd[p].op = "upload"
    <3>1. io' = Pool(p, Shards) /\ stage' = [stage EXCEPT ![p] = "pool"]
      BY <1>1, <2>1, <2>4 DEF Return
    <3>2. stage'[p] = "pool" /\ \A s \in Shards : io'[p][s] = "call"
      BY <1>0, <3>1 DEF ProcType, Pool, Threads
    <3>3. QED
      BY <1>0, <1>2, <2>2, <2>4, <3>2 DEF HistoryAt, Exists
  <2>5. CASE stage[p] # "pool" /\ cmd[p].op # "upload"
    BY <1>2, <2>2, <2>5 DEF HistoryAt
  <2>6. CASE stage[p] \in {"reset", "drop"} /\ cmd[p].op = "upload"
    BY <1>1, <2>1, <2>6 DEF Return
  <2>7. QED
    BY <1>1, <2>3, <2>4, <2>5, <2>6 DEF Calls
<1>5. QED
  BY <1>3, <1>4

LEMMA HistoryStep == Inv /\ HistoryInv /\ [Next]_vars => HistoryInv'
<1> SUFFICES ASSUME Inv, HistoryInv, [Next]_vars, ~together', ~spoilt'
             PROVE  /\ \A f \in listed' : ListedFits(f)'
                    /\ \A p \in Procs : stage'[p] # "off" => HistoryAt(p)'
  BY DEF HistoryInv
<1>1. CASE UNCHANGED vars
  <2>1. UNCHANGED <<kind, content, cmd, stage, io, buf, errs, listed, together,
                    spoilt>>
    BY <1>1 DEF vars, file, proc, ghosts
  <2>2. Window' = Window /\ Read' = Read
    BY <2>1 DEF Window, Read
  <2>3. Durable' = Durable
    BY <2>1, <2>2 DEF Durable
  <2>4. \A f \in listed' : ListedFits(f)'
    BY <2>1, <2>3, ListedSame DEF HistoryInv
  <2>5. ASSUME NEW p \in Procs, stage'[p] # "off" PROVE HistoryAt(p)'
    <3>1. HistoryAt(p)
      BY <2>1, <2>5 DEF HistoryInv
    <3>2. QED
      BY <2>1, <2>3, <3>1 DEF HistoryAt, Past, RecordedAt, Exists
  <2>6. QED
    BY <2>4, <2>5
<1>2. ASSUME NEW p \in Procs, Act(p)
      PROVE  /\ \A f \in listed' : ListedFits(f)'
             /\ \A q \in Procs : stage'[q] # "off" => HistoryAt(q)'
  <2>0. TypeOK /\ Sound /\ ProcType /\ FileInv
    BY DEF Inv, Sound
  <2>1. ~together /\ ~spoilt
    <3>1. CASE Kill(p)
      BY <3>1 DEF Kill
    <3>2. ASSUME NEW t \in Threads, WriteError(p, t) PROVE FALSE
      BY <3>2 DEF WriteError
    <3>3. CASE \E c \in Commands : Start(p, c)
      BY <3>3 DEF Start
    <3>4. CASE Step(p)
      BY <3>4 DEF Step, Lookup, List, PoolEnd, ReadAndChange, ReadError,
         Truncate, WriteBegin, WriteEnd, ghosts
    <3>5. QED
      BY <1>2, <3>1, <3>2, <3>3, <3>4 DEF Act
  <2>2. /\ \A f \in listed : ListedFits(f)
        /\ stage[p] # "off" => HistoryAt(p)
    BY <2>1 DEF HistoryInv
  <2>3. \A q \in Procs : q # p => stage'[q] = "off"
    BY <1>2, <2>0, OthersOff
  <2>4. SUFFICES /\ \A f \in listed' : ListedFits(f)'
                 /\ stage'[p] # "off" => HistoryAt(p)'
    BY <2>3
  <2>5. ASSUME NEW c \in Commands, Start(p, c)
        PROVE  HistoryAt(p)' /\ \A f \in listed' : ListedFits(f)'
    <3>1. Durable' = Durable /\ listed' = listed
      BY <2>5, ReaderKeeps DEF Start
    <3>2. QED
      BY <2>2, <2>5, <3>1, StartHistory, ListedSame
  <2>6. CASE Lookup(p) \/ List(p) \/ PoolEnd(p)
    <3>1. Durable' = Durable /\ listed' = listed /\ stage[p] # "off"
      BY <2>6, ReaderKeeps DEF Lookup, List, PoolEnd, ghosts
    <3>2. QED
      BY <2>2, <2>6, <3>1, MainHistory, ListedSame
  <2>7. ASSUME NEW t \in Threads, io[p][t] # "none" PROVE stage[p] # "off"
    BY <2>0, <2>7, InCall DEF Sound, Calls
  <2>8. ASSUME NEW t \in Threads,
               ReadAndChange(p, t) \/ ReadError(p, t) \/ WriteBegin(p, t)
        PROVE  /\ stage'[p] # "off" => HistoryAt(p)'
               /\ \A f \in listed' : ListedFits(f)'
    <3>1. Durable' = Durable
      BY <2>8, ReaderKeeps, WriteKeeps
    <3>2. listed' = listed /\ io[p][t] # "none"
      BY <2>8 DEF ReadAndChange, ReadError, WriteBegin, ghosts
    <3>3. QED
      BY <2>2, <2>7, <2>8, <3>1, <3>2, CallHistory, ListedSame
  <2>9. ASSUME NEW t \in Threads, Truncate(p, t)
        PROVE  HistoryAt(p)' /\ \A f \in listed' : ListedFits(f)'
    BY <2>2, <2>7, <2>9, TruncateHistory DEF Truncate
  <2>10. ASSUME NEW t \in Threads, WriteEnd(p, t)
         PROVE  /\ stage'[p] # "off" => HistoryAt(p)'
                /\ \A f \in listed' : ListedFits(f)'
    BY <2>2, <2>7, <2>10, ReturnHistory DEF WriteEnd
  <2>11. CASE Kill(p)
    <3>1. stage'[p] = "off" /\ listed' = listed
      BY <2>0, <2>11 DEF Kill, End, ProcType
    <3>2. Durable' = Durable
      BY <2>11, CutForgets
    <3>3. QED
      BY <2>2, <3>1, <3>2, ListedSame
  <2>12. ASSUME NEW t \in Threads, WriteError(p, t) PROVE FALSE
    BY <2>12 DEF WriteError
  <2>13. QED
    BY <1>2, <2>5, <2>6, <2>8, <2>9, <2>10, <2>11, <2>12 DEF Act, Step
<1>3. QED
  BY <1>1, <1>2 DEF Next, Act

(* As long as no write was cut short and no two processes ran at once, a   *)
(* file whose upload succeeded stays listed with a remote for every shard  *)
(* until its removal begins.                                               *)
THEOREM UploadsStayListed == Spec => []ListedStays
<1>1. Inv /\ HistoryInv /\ [Next]_vars => HistoryInv'
  BY HistoryStep
<1>2. Spec => []HistoryInv
  BY <1>1, HistoryInit, InvHolds, PTL DEF Spec
<1>3. HistoryInv => ListedStays
  BY DEF HistoryInv, ListedStays, ListedFits
<1>4. QED
  BY <1>2, <1>3, PTL

==============================================================================
