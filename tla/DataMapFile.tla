----------------------------- MODULE DataMapFile -----------------------------
(***************************************************************************)
(* datamap.json as a file (src/fs/dis_operations/datamap.go).  Each        *)
(* function that changes the map reads the file, truncates it and writes   *)
(* it anew; a mutex of the process keeps its goroutines apart, and nothing *)
(* keeps the processes apart that the GUI or several terminals start.      *)
(*                                                                         *)
(* A process runs the map's side of one command: what Dis_Upload,          *)
(* Dis_Download, Dis_rm and the dumps of CheckState do between their calls *)
(* of datamap.go is left to DisStore.  A process that repairs a file and   *)
(* goes on, or that removes a duplicate and goes on, is here a process     *)
(* that starts twice.                                                      *)
(***************************************************************************)
EXTENDS DataMap, Integers, FiniteSets

CONSTANTS
    NumProcs,     \* bound: processes that run at the same time
    Main,         \* the main goroutine; the others are named by their shard
    MaxCommands,  \* bound: commands started in a behaviour; none starts after
                  \* two processes have run at the same time
    MaxCuts       \* bound: processes killed, and writes that fail

Procs   == 1..NumProcs
Threads == Shards \cup {Main}

ASSUME CutsAssumption == {NumProcs, MaxCommands, MaxCuts} \subseteq Nat

VARIABLES
    kind,      \* the file: missing, empty, torn (a prefix) or whole
    content,   \* its map, when it is whole
    cmd,       \* cmd[p]: the command process p runs
    stage,     \* stage[p]: where its main goroutine is
    io,        \* io[p][t]: where goroutine t is in its call of datamap.go
    buf,       \* buf[p][t]: the map it read and changed, and will write
    lock,      \* lock[p]: the goroutine that holds jsonFileMutex, or nobody
    bare,      \* bare[p]: shards a removal found without a remote
    errs,      \* errs[p]: a goroutine of the pool returned an error
    started,   \* number of commands started so far
    cuts,      \* number of kills and failed writes so far
    together,  \* history: two processes have run at the same time
    spoilt,    \* history: a write was cut short
    listed     \* history: files whose upload succeeded, not removed since

file   == <<kind, content>>
proc   == <<cmd, stage, io, buf, lock, bare, errs>>
ghosts == <<started, cuts, together, spoilt, listed>>
vars   == <<file, proc, ghosts>>

(* reset and resume are the repairs DumpDownloadState and DumpRmState.     *)
Commands == [op : {"upload", "download", "rm", "reset", "resume"},
             file : Files]

NoCommand == [op |-> "none", file |-> "none"]

Stages == {"off", "lookup", "mark", "list", "pool", "reset", "drop"}
Kinds  == {"missing", "empty", "torn", "whole"}
IoPcs  == {"none", "call", "changed", "truncated", "writing"}

Nobody == "nobody"

ASSUME MainAssumption == Main \notin Shards /\ Nobody \notin Threads

(* Entries as finished uploads leave them.                                 *)
FinishedUploads ==
    [Flag : {FALSE}, State : {"upload"}, Enc : {1},
     Remote : [Shards -> Remotes], Check : {[s \in Shards |-> FALSE]}]

Init ==
    /\ \/ listed = {} /\ kind = "missing" /\ content = EmptyMap
       \/ /\ listed \in (SUBSET Files) \ {{}}
          /\ kind = "whole"
          /\ content \in [Files -> {NoFileInfo} \cup FinishedUploads]
          /\ \A f \in Files : Exists(content, f) <=> f \in listed
    /\ cmd      = [p \in Procs |-> NoCommand]
    /\ stage    = [p \in Procs |-> "off"]
    /\ io       = [p \in Procs |-> [t \in Threads |-> "none"]]
    /\ buf      = [p \in Procs |-> [t \in Threads |-> EmptyMap]]
    /\ lock     = [p \in Procs |-> Nobody]
    /\ bare     = [p \in Procs |-> {}]
    /\ errs     = [p \in Procs |-> FALSE]
    /\ started  = 0
    /\ cuts     = 0
    /\ together = FALSE
    /\ spoilt   = FALSE

Live == {p \in Procs : stage[p] # "off"}

(* readJsonFile: a missing file and an empty one are a map without keys    *)
(* (io.EOF is no error); a prefix of a JSON value is an error.  What a     *)
(* longer, older version left behind the first value is not read.          *)
Readable == kind # "torn"
Read     == IF kind = "whole" THEN content ELSE EmptyMap

(* The map as the calls that have returned, or are bound to succeed, made  *)
(* it: a writer's change counts from the moment it truncates the file.     *)
Window  == {w \in Procs \X Threads :
               io[w[1]][w[2]] \in {"truncated", "writing"}}
Durable == IF Window = {} THEN Read
           ELSE LET w == CHOOSE w \in Window : TRUE IN buf[w[1]][w[2]]
Broken  == Window = {} /\ ~Readable

Atomic == INSTANCE AtomicMap WITH map <- Durable, broken <- Broken

-----------------------------------------------------------------------------
(* A command's calls.                                                      *)

(* CheckFlagAndState, whose own read error counts as "no flag".            *)
Repair == [upload |-> "rm", download |-> "reset", rm |-> "resume"]

Allowed(c) ==
    IF Flagged(Read) = {} THEN c.op \in {"upload", "download", "rm"}
    ELSE /\ c.file \in Flagged(Read)
         /\ c.op = Repair[Read[c.file].State]

(* A new process gets the first free number.                               *)
Start(p, c) ==
    /\ stage[p] = "off"
    /\ \A q \in 1..(p - 1) : stage[q] # "off"
    /\ started < MaxCommands /\ ~together
    /\ Allowed(c)
    /\ cmd'      = [cmd EXCEPT ![p] = c]
    /\ stage'    = [stage EXCEPT ![p] = IF c.op = "reset" THEN "reset"
                                        ELSE "lookup"]
    /\ io'       = [io EXCEPT ![p][Main] = IF c.op = "reset" THEN "call"
                                           ELSE "none"]
    /\ started'  = started + 1
    /\ together' = (together \/ Live # {})
    /\ UNCHANGED <<file, buf, lock, bare, errs, cuts, spoilt, listed>>

(* The process ends: its goroutines are gone, its mutex with them.         *)
End(p) ==
    /\ stage' = [stage EXCEPT ![p] = "off"]
    /\ cmd'   = [cmd EXCEPT ![p] = NoCommand]
    /\ errs'  = [errs EXCEPT ![p] = FALSE]
    /\ io'    = [io EXCEPT ![p] = [t \in Threads |-> "none"]]
    /\ buf'   = [buf EXCEPT ![p] = [t \in Threads |-> EmptyMap]]
    /\ lock'  = [lock EXCEPT ![p] = Nobody]
    /\ bare'  = [bare EXCEPT ![p] = {}]

(* The main goroutine goes on to its next call.                            *)
Goto(p, next) ==
    /\ stage' = [stage EXCEPT ![p] = next]
    /\ io'    = [io EXCEPT ![p][Main] = "call"]
    /\ UNCHANGED <<cmd, buf, lock, bare, errs>>

Pool(p, shards) ==
    [io EXCEPT ![p] = [t \in Threads |-> IF t \in shards THEN "call" ELSE "none"]]

(* Mutant: the test for a duplicate is missing.                            *)
Lookup_NoDuplicateTest(p) ==
    /\ stage[p] = "lookup"
    /\ LET found == Readable /\ Exists(Read, cmd[p].file)
       IN  \/ /\ cmd[p].op = "upload" \/ (cmd[p].op # "resume" /\ found)
              /\ Goto(p, "mark")
           \/ /\ cmd[p].op # "upload" /\ ~found
              /\ End(p)
    /\ UNCHANGED <<file, ghosts>>

(* DoesFileStructExist for an upload, GetFileInfoStruct for the others:    *)
(* reads without the mutex.                                                *)
Lookup(p) ==
    /\ stage[p] = "lookup"
    /\ LET found == Readable /\ Exists(Read, cmd[p].file)
       IN  \/ /\ cmd[p].op = "upload" /\ Readable /\ ~found
              /\ Goto(p, "mark")
           \/ /\ cmd[p].op \in {"download", "rm"} /\ found
              /\ Goto(p, "mark")
           \/ /\ cmd[p].op = "resume" /\ found
              /\ stage' = [stage EXCEPT ![p] = "list"]
              /\ UNCHANGED <<cmd, io, buf, lock, bare, errs>>
           \/ /\ IF cmd[p].op = "upload" THEN found \/ ~Readable ELSE ~found
              /\ End(p)
    /\ UNCHANGED <<file, ghosts>>

(* GetDistributedFileStruct, or GetUncompletedFileInfo for a resumed       *)
(* removal, without the mutex; then the pool.                              *)
List(p) ==
    /\ stage[p] = "list"
    /\ \/ /\ Readable /\ Exists(Read, cmd[p].file)
          /\ stage' = [stage EXCEPT ![p] = "pool"]
          /\ io'    = Pool(p, IF cmd[p].op = "resume"
                                THEN GetUncompletedFileInfo(Read, cmd[p].file)
                                ELSE Shards)
          /\ bare'  = [bare EXCEPT ![p] =
                         {s \in Shards : Read[cmd[p].file].Remote[s] = NoRemote}]
          /\ UNCHANGED <<cmd, buf, lock, errs>>
       \/ /\ ~(Readable /\ Exists(Read, cmd[p].file))
          /\ End(p)
    /\ UNCHANGED <<file, ghosts>>

(* The call goroutine t of process p is in: one of these, since which      *)
(* remote the load balancer gave the shard is left open.                   *)
Call(p, t) ==
    LET f == cmd[p].file
    IN  CASE stage[p] = "mark" /\ cmd[p].op = "upload" ->
               {[fn |-> "MakeDataMap", file |-> f]}
          [] stage[p] = "mark" /\ cmd[p].op # "upload" ->
               {[fn |-> "UpdateFileFlag", file |-> f, state |-> cmd[p].op]}
          [] stage[p] = "pool" /\ cmd[p].op = "upload" ->
               [fn : {"CheckFlagAndRemote"}, file : {f}, shard : {t},
                remote : Remotes]
          [] stage[p] = "pool" /\ cmd[p].op # "upload" ->
               {[fn |-> "CheckFlag", file |-> f, shard |-> t]}
          [] stage[p] = "reset" -> {[fn |-> "ResetCheckFlag", file |-> f]}
          [] stage[p] = "drop" ->
               {[fn |-> "RemoveFileFromMetadata", file |-> f]}

(* MakeDataMap and RemoveFileFromMetadata do not take jsonFileMutex.       *)
Locks(p) ==
    stage[p] # "drop" /\ ~(stage[p] = "mark" /\ cmd[p].op = "upload")

(* What the command does when the call of goroutine t returns nil.         *)
Return(p, t) ==
    IF \/ stage[p] = "drop"
       \/ stage[p] = "reset" /\ cmd[p].op \in {"upload", "download", "reset"}
      THEN End(p)
      ELSE /\ lock' = [lock EXCEPT ![p] = Nobody]
           /\ buf'  = [buf EXCEPT ![p][t] = EmptyMap]
           /\ CASE stage[p] = "pool" ->
                     /\ io' = [io EXCEPT ![p][t] = "none"]
                     /\ UNCHANGED stage
                [] stage[p] = "mark" /\ cmd[p].op = "upload" ->
                     /\ io' = Pool(p, Shards)
                     /\ stage' = [stage EXCEPT ![p] = "pool"]
                [] stage[p] = "mark" /\ cmd[p].op # "upload" ->
                     /\ io' = [io EXCEPT ![p][t] = "none"]
                     /\ stage' = [stage EXCEPT ![p] = "list"]
                [] stage[p] = "reset" ->
                     /\ io' = [io EXCEPT ![p][t] = "call"]
                     /\ stage' = [stage EXCEPT ![p] = "drop"]
           /\ UNCHANGED <<cmd, bare, errs>>

(* ... and when it returns an error: the main goroutine ends the command,  *)
(* a goroutine of the pool leaves an error.  (A removal marks the shards   *)
(* that have no remote in its own loop, which only prints the error.)      *)
Fail(p, t) ==
    \/ t = Main /\ End(p)
    \/ /\ t # Main
       /\ io'   = [io EXCEPT ![p][t] = "none"]
       /\ buf'  = [buf EXCEPT ![p][t] = EmptyMap]
       /\ lock' = [lock EXCEPT ![p] = IF @ = t THEN Nobody ELSE @]
       /\ errs' = [errs EXCEPT ![p] =
                      @ \/ cmd[p].op = "upload" \/ t \notin bare[p]]
       /\ UNCHANGED <<cmd, stage, bare>>

(* An upload or a removal whose pool met an error ends there; a download   *)
(* does not look at its errors.                                            *)
PoolEnd(p) ==
    /\ stage[p] = "pool"
    /\ \A t \in Threads : io[p][t] = "none"
    /\ IF errs[p] /\ cmd[p].op # "download" THEN End(p) ELSE Goto(p, "reset")
    /\ UNCHANGED <<file, ghosts>>

-----------------------------------------------------------------------------
(* One call of datamap.go, step by step.                                   *)

(* Mutant: the read comes before the lock is taken.                        *)
ReadAndChange_NoLock(p, t) ==
    /\ io[p][t] = "call"
    /\ Readable
    /\ \E op \in Call(p, t) :
          /\ Atomic!Accepts(Read, op)
          /\ buf' = [buf EXCEPT ![p][t] = Atomic!Apply(Read, op)]
    /\ io' = [io EXCEPT ![p][t] = "changed"]
    /\ UNCHANGED <<file, cmd, stage, lock, bare, errs, ghosts>>

(* jsonFileMutex.Lock and readJsonFile, and the change in memory.          *)
ReadAndChange(p, t) ==
    /\ io[p][t] = "call"
    /\ Readable
    /\ Locks(p) => lock[p] = Nobody
    /\ \E op \in Call(p, t) :
          /\ Atomic!Accepts(Read, op)
          /\ buf' = [buf EXCEPT ![p][t] = Atomic!Apply(Read, op)]
    /\ lock' = [lock EXCEPT ![p] = IF Locks(p) THEN t ELSE @]
    /\ io'   = [io EXCEPT ![p][t] = "changed"]
    /\ UNCHANGED <<file, cmd, stage, bare, errs, ghosts>>

(* The file is no JSON, or has no entry of that name: an error.            *)
ReadError(p, t) ==
    /\ io[p][t] = "call"
    /\ Locks(p) => lock[p] = Nobody
    /\ \/ ~Readable
       \/ \A op \in Call(p, t) : ~Atomic!Accepts(Read, op)
    /\ Fail(p, t)
    /\ UNCHANGED <<file, ghosts>>

(* The kernel lets one writer at a time change the file's bytes; readers   *)
(* do not wait for it.                                                     *)
NoWriter == \A p \in Procs, t \in Threads : io[p][t] # "writing"

(* os.WriteFile opens the file with O_TRUNC ...                            *)
Truncate(p, t) ==
    /\ io[p][t] = "changed"
    /\ NoWriter
    /\ kind'    = "empty"
    /\ content' = EmptyMap
    /\ io'      = [io EXCEPT ![p][t] = "truncated"]
    /\ listed'  = IF stage[p] = "mark" /\ cmd[p].op = "rm"
                    THEN listed \ {cmd[p].file} ELSE listed
    /\ UNCHANGED <<cmd, stage, buf, lock, bare, errs, started, cuts, together,
                   spoilt>>

(* ... writes it, of which a reader may see a first part ...               *)
WriteBegin(p, t) ==
    /\ io[p][t] = "truncated"
    /\ NoWriter
    /\ kind'    = "torn"
    /\ content' = EmptyMap
    /\ io'      = [io EXCEPT ![p][t] = "writing"]
    /\ UNCHANGED <<cmd, stage, buf, lock, bare, errs, ghosts>>

(* ... and is done with it; the mutex is released and the call returns.    *)
WriteEnd(p, t) ==
    /\ io[p][t] = "writing"
    /\ kind'    = "whole"
    /\ content' = buf[p][t]
    /\ Return(p, t)
    /\ listed'  = IF stage[p] = "reset" /\ cmd[p].op = "upload"
                    THEN listed \cup {cmd[p].file} ELSE listed
    /\ UNCHANGED <<started, cuts, together, spoilt>>

(* The disk is full, or another error of the write.                        *)
WriteError(p, t) ==
    /\ io[p][t] \in {"truncated", "writing"}
    /\ io[p][t] = "truncated" => NoWriter
    /\ cuts < MaxCuts
    /\ cuts'   = cuts + 1
    /\ spoilt' = TRUE
    /\ Fail(p, t)
    /\ UNCHANGED <<file, started, together, listed>>

Kill(p) ==
    /\ stage[p] # "off"
    /\ cuts < MaxCuts
    /\ cuts'   = cuts + 1
    /\ spoilt' = (spoilt \/ \E t \in Threads :
                                io[p][t] \in {"truncated", "writing"})
    /\ End(p)
    /\ UNCHANGED <<file, started, together, listed>>

-----------------------------------------------------------------------------

Step(p) ==
    \/ Lookup(p) \/ List(p) \/ PoolEnd(p)
    \/ \E t \in Threads :
          \/ ReadAndChange(p, t) \/ ReadError(p, t) \/ Truncate(p, t)
          \/ WriteBegin(p, t) \/ WriteEnd(p, t)

Next ==
    \E p \in Procs :
        \/ Step(p)
        \/ Kill(p)
        \/ \E c \in Commands : Start(p, c)
        \/ \E t \in Threads : WriteError(p, t)

Spec == Init /\ [][Next]_vars

-----------------------------------------------------------------------------
(* Properties.                                                             *)

TypeOK ==
    /\ kind    \in Kinds
    /\ content \in DataMaps
    /\ cmd     \in [Procs -> Commands \cup {NoCommand}]
    /\ stage   \in [Procs -> Stages]
    /\ io      \in [Procs -> [Threads -> IoPcs]]
    /\ buf     \in [Procs -> [Threads -> DataMaps]]
    /\ lock    \in [Procs -> Threads \cup {Nobody}]
    /\ bare    \in [Procs -> SUBSET Shards]
    /\ errs    \in [Procs -> BOOLEAN]
    /\ started \in 0..MaxCommands
    /\ cuts    \in 0..MaxCuts
    /\ together \in BOOLEAN
    /\ spoilt  \in BOOLEAN
    /\ listed  \subseteq Files

(* The file implements the atomic map as long as processes run one after   *)
(* the other: every step leaves the map as it is or applies one call to    *)
(* it, whichever goroutines read and write around it; only a write that is *)
(* cut short does otherwise, and then takes all the entries with it, never *)
(* some of them.                                                           *)
UpdatesAtomic ==
    [][~together' =>
          \/ UNCHANGED <<Durable, Broken>>
          \/ \E op \in Atomic!Ops : Atomic!Update(op)
          \/ cuts' > cuts /\ Window # {} /\ Atomic!Forget]_vars

(* An upload that succeeded is listed, with a remote for every shard,      *)
(* until its removal begins: none of the records its goroutines wrote at   *)
(* the same time is lost, and commands on other files, or killed between   *)
(* writes, take nothing away.                                              *)
ListedStays ==
    ~together /\ ~spoilt =>
        \A f \in listed :
            /\ Exists(Durable, f)
            /\ \A s \in Shards : Durable[f].Remote[s] # NoRemote
            /\ Durable[f].Flag => Durable[f].State = "download"

=============================================================================
