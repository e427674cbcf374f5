---------------------------- MODULE LoadBalancer ----------------------------
(***************************************************************************)
(* The load balancer (src/fs/dis_operations/dis_loadbalance.go): which     *)
(* remote a shard goes to, by one of four policies, and loadbalancer.json, *)
(* which remembers a counter and the throughput of past transfers.         *)
(*                                                                         *)
(* The pools make every call of this module under their mutex mu, so a     *)
(* process is in one call at a time; processes are not kept apart.  The    *)
(* file is read and rewritten by each call, and may be cut short in        *)
(* between; the system calls on it may fail.  Unlike datamap.json, an      *)
(* empty file is not a readable one.                                       *)
(***************************************************************************)
EXTENDS Integers, Sequences, FiniteSets, SequencesExt

CONSTANTS
    Remotes,     \* the remotes the configuration may name
    NoRemote,    \* Remote{"", ""}
    Speeds,      \* throughputs a transfer may have, all positive
    MaxEntries,  \* maxEntries: throughputs remembered per remote
    NumProcs,    \* bound: processes that run at the same time
    MaxCalls,    \* bound: calls in a behaviour; none begins after two
                 \* processes have been in calls at the same time
    MaxCuts,     \* bound: processes killed
    MaxFails,    \* bound: system calls on the file that fail
    MaxEdits     \* bound: changes of the configuration

ASSUME RemotesAssumption == IsFiniteSet(Remotes) /\ NoRemote \notin Remotes
ASSUME SpeedsAssumption  == Speeds \subseteq Nat \ {0}
ASSUME LimitsAssumption  ==
    /\ MaxEntries \in Nat \ {0}
    /\ {NumProcs, MaxCalls, MaxCuts, MaxFails, MaxEdits} \subseteq Nat

Procs == 1..NumProcs

Directions == {"Upload", "Download"}

(* IsValid admits these; the flag cannot have another value.               *)
Policies == {"RoundRobin", "DownloadOptima", "UploadOptima", "ResourceBased"}

Requests ==
    [op : {"allocate"}, policy : Policies]
    \cup [op : {"record"}, remote : Remotes, speed : Speeds, dir : Directions]

NoRequest == [op |-> "none"]

(* LoadBalancerInfo.  A remote without history is not a key of RemoteInfos *)
(* or has the average 0 there, which getRemoteOfHighestThroughput skips.   *)
Infos == [counter : Nat, history : [Directions -> [Remotes -> Seq(Nat)]]]

NewInfo == [counter |-> 0,
            history |-> [d \in Directions |-> [r \in Remotes |-> <<>>]]]

VARIABLES
    kind,      \* loadbalancer.json: missing, unreadable or whole
    info,      \* its content when it is whole
    config,    \* config.GetRemotes()
    req,       \* req[p]: the call process p is in
    pc,        \* pc[p]: where it is in that call
    pend,      \* pend[p]: the LoadBalancerInfo it is about to write
    got,       \* got[p]: the Remote it returns
    saved,     \* saved[p]: bestRemote_save
    calls, cuts, fails, edits,
    together,  \* history: two processes have been in calls at the same time
    spoilt,    \* history: a write was cut short or failed
    picks,     \* history: round-robin picks since the last change of config
    log        \* history: every throughput that was recorded

file   == <<kind, info>>
counts == <<calls, cuts, fails, edits>>
ghosts == <<together, spoilt, picks, log>>
vars   == <<file, config, req, pc, pend, got, saved, counts, ghosts>>

Init ==
    /\ kind     = "missing"
    /\ info     = NewInfo
    /\ config   \in SetToSeqs(Remotes)
    /\ req      = [p \in Procs |-> NoRequest]
    /\ pc       = [p \in Procs |-> "idle"]
    /\ pend     = [p \in Procs |-> NewInfo]
    /\ got      = [p \in Procs |-> NoRemote]
    /\ saved    = [p \in Procs |-> NoRemote]
    /\ calls    = 0
    /\ cuts     = 0
    /\ fails    = 0
    /\ edits    = 0
    /\ together = FALSE
    /\ spoilt   = FALSE
    /\ picks    = [r \in Remotes |-> 0]
    /\ log      = NewInfo.history

Configured == {config[i] : i \in 1..Len(config)}

-----------------------------------------------------------------------------
(* How a call proceeds.                                                    *)

Goto(p, next) ==
    /\ pc' = [pc EXCEPT ![p] = next]
    /\ UNCHANGED <<req, pend, got>>

Return(p) ==
    /\ pc'   = [pc EXCEPT ![p] = "idle"]
    /\ req'  = [req EXCEPT ![p] = NoRequest]
    /\ pend' = [pend EXCEPT ![p] = NewInfo]
    /\ got'  = [got EXCEPT ![p] = NoRemote]

(* AllocateRemote is about to return a remote.                             *)
Answer(p, r) ==
    /\ pc'  = [pc EXCEPT ![p] = "answer"]
    /\ got' = [got EXCEPT ![p] = r]
    /\ UNCHANGED <<req, pend>>

(* A throughput policy ends with return LoadBalancer_RoundRobin(), which   *)
(* asks for the path again.                                                *)
FallBack(p) ==
    /\ pc'  = [pc EXCEPT ![p] = "path"]
    /\ req' = [req EXCEPT ![p] = [op |-> "allocate", policy |-> "RoundRobin"]]
    /\ UNCHANGED <<pend, got>>

(* readJSON returns an error: a throughput policy falls back, every other  *)
(* call returns it.                                                        *)
Unread(p) ==
    IF req[p].op = "allocate" /\ req[p].policy # "RoundRobin"
      THEN FallBack(p) ELSE Goto(p, "error")

(* writeJSON returns an error: UpdateRemoteInfo returns it too, and        *)
(* LoadBalancer_RoundRobin ignores it.                                     *)
Unwritten(p) ==
    \/ req[p].op = "record" /\ Goto(p, "error")
    \/ req[p].op = "allocate" /\ Answer(p, got[p])

(* os.WriteFile is about to rewrite the file with i.                       *)
Rewrite(p, i) ==
    /\ pc'   = [pc EXCEPT ![p] = "truncate"]
    /\ pend' = [pend EXCEPT ![p] = i]
    /\ UNCHANGED <<req, got>>

(* AllocateRemote or UpdateRemoteInfo is called; both begin by asking for  *)
(* the path of the file.                                                   *)
Begin(p, q) ==
    /\ pc[p] = "idle"
    /\ calls < MaxCalls /\ ~together
    /\ q.op = "record" => q.remote \in Configured
    /\ \A o \in 1..(p - 1) : pc[o] # "idle"
    /\ calls'    = calls + 1
    /\ req'      = [req EXCEPT ![p] = q]
    /\ pc'       = [pc EXCEPT ![p] =
                      IF q.op = "allocate" /\ q.policy = "ResourceBased"
                        THEN "about" ELSE "path"]
    /\ together' = (together \/ \E o \in Procs : pc[o] # "idle")
    /\ UNCHANGED <<file, config, pend, got, saved, cuts, fails, edits, spoilt,
                   picks, log>>

(* Mutant: the file is created and its first content forgotten.            *)
getLoadBalancerJsonFilePath_NoDefaults(p) ==
    /\ pc[p] = "path"
    /\ IF kind = "missing" THEN kind' = "unreadable" ELSE UNCHANGED kind
    /\ Goto(p, "read")
    /\ UNCHANGED <<info, config, saved, counts, ghosts>>

(* A missing file is created, empty, and then gets its first content.      *)
getLoadBalancerJsonFilePath(p) ==
    /\ pc[p] = "path"
    /\ \/ /\ kind = "missing"
          /\ kind' = "unreadable"
          /\ Goto(p, "create")
       \/ /\ kind # "missing"
          /\ UNCHANGED kind
          /\ Goto(p, "read")
    /\ UNCHANGED <<info, config, saved, counts, ghosts>>

WriteDefaults(p) ==
    /\ pc[p] = "create"
    /\ kind' = "whole"
    /\ info' = NewInfo
    /\ Goto(p, "read")
    /\ UNCHANGED <<config, saved, counts, ghosts>>

-----------------------------------------------------------------------------
(* The policies.                                                           *)

(* LoadBalancer_RoundRobin up to its choice.                               *)
LoadBalancer_RoundRobin(p) ==
    /\ \/ /\ kind # "whole" \/ config = <<>>
          /\ Goto(p, "error")
          /\ UNCHANGED picks
       \/ /\ kind = "whole" /\ config # <<>>
          /\ LET r == config[(info.counter % Len(config)) + 1]
             IN  /\ got'   = [got EXCEPT ![p] = r]
                 /\ picks' = [picks EXCEPT ![r] = @ + 1]
          /\ pc' = [pc EXCEPT ![p] = "increment"]
          /\ UNCHANGED <<req, pend>>
    /\ UNCHANGED <<file, config, saved, counts, together, spoilt, log>>

(* Mutant: the counter wraps one remote too early.                         *)
IncrementRoundRobinCounter_Wraps(p) ==
    /\ pc[p] = "increment"
    /\ \/ kind # "whole" /\ Answer(p, got[p])
       \/ /\ kind = "whole"
          /\ Rewrite(p, [info EXCEPT !.counter = IF @ + 1 >= Len(config)
                                                   THEN 1 ELSE @ + 1])
    /\ UNCHANGED <<file, config, saved, counts, ghosts>>

(* IncrementRoundRobinCounter reads the file again; its error is ignored.  *)
IncrementRoundRobinCounter(p) ==
    /\ pc[p] = "increment"
    /\ \/ kind # "whole" /\ Answer(p, got[p])
       \/ /\ kind = "whole"
          /\ Rewrite(p, [info EXCEPT !.counter = @ + 1])
    /\ UNCHANGED <<file, config, saved, counts, ghosts>>

(* maxSpeed.                                                               *)
maxSpeed(history) ==
    IF history = <<>> THEN 0
    ELSE CHOOSE x \in {history[i] : i \in 1..Len(history)} :
            \A i \in 1..Len(history) : history[i] <= x

Direction(q) == IF q.policy = "UploadOptima" THEN "Upload" ELSE "Download"

(* The remotes of highest average, over the keys of RemoteInfos; the one   *)
(* chosen depends on the order in which Go visits the map.                 *)
HighestThroughput(d) ==
    LET avg(r) == maxSpeed(info.history[d][r])
    IN  {r \in Remotes : avg(r) > 0 /\ \A q \in Remotes : avg(q) <= avg(r)}

getRemoteOfHighestThroughput(p) ==
    /\ pc[p] = "read"
    /\ req[p].op = "allocate" /\ req[p].policy \in {"UploadOptima", "DownloadOptima"}
    /\ LET best == IF kind = "whole" THEN HighestThroughput(Direction(req[p]))
                                     ELSE {}
       IN  \/ best = {} /\ FallBack(p)
           \/ \E r \in best : Answer(p, r)
    /\ UNCHANGED <<file, config, saved, counts, ghosts>>

RoundRobin(p) ==
    /\ pc[p] = "read"
    /\ req[p].op = "allocate" /\ req[p].policy = "RoundRobin"
    /\ LoadBalancer_RoundRobin(p)

(* The answers of RemoteCallAbout: an error, or the free storage, of which *)
(* it only matters whether there is some and whose is largest.             *)
LoadBalancer_ResourceBased(p) ==
    /\ pc[p] = "about"
    /\ \/ /\ saved[p] # NoRemote
          /\ Answer(p, saved[p])
          /\ UNCHANGED saved
       \/ /\ saved[p] = NoRemote
          /\ \E failed \in SUBSET Configured :
                \/ /\ failed = Configured
                   /\ Goto(p, "error")
                   /\ UNCHANGED saved
                \/ /\ failed # Configured
                   /\ \E r \in (Configured \ failed) \cup {NoRemote} :
                         /\ Answer(p, r)
                         /\ saved' = [saved EXCEPT ![p] = r]
    /\ UNCHANGED <<file, config, counts, ghosts>>

-----------------------------------------------------------------------------
(* UpdateRemoteInfo, and the write that ends two of the calls.             *)

(* Mutant: the oldest entries are the ones that stay.                      *)
UpdateThroughput_KeepsOldest(history, speed) ==
    LET h == Append(history, speed)
    IN  IF Len(h) > MaxEntries THEN SubSeq(h, 1, MaxEntries) ELSE h

(* Mutant: one entry too many stays.                                       *)
UpdateThroughput_OneMore(history, speed) ==
    LET h == Append(history, speed)
    IN  IF Len(h) > MaxEntries + 1
          THEN SubSeq(h, Len(h) - MaxEntries, Len(h)) ELSE h

(* The last MaxEntries speeds are kept; the average is their maximum.      *)
UpdateThroughput(history, speed) ==
    LET h == Append(history, speed)
    IN  IF Len(h) > MaxEntries
          THEN SubSeq(h, Len(h) - MaxEntries + 1, Len(h)) ELSE h

UpdateRemoteInfo(p) ==
    /\ pc[p] = "read" /\ req[p].op = "record"
    /\ \/ kind # "whole" /\ Goto(p, "error")
       \/ /\ kind = "whole"
          /\ Rewrite(p, [info EXCEPT !.history[req[p].dir][req[p].remote] =
                            UpdateThroughput(@, req[p].speed)])
    /\ UNCHANGED <<file, config, saved, counts, ghosts>>

(* writeJSON: os.WriteFile truncates the file ...                          *)
Truncate(p) ==
    /\ pc[p] = "truncate"
    /\ kind' = "unreadable"
    /\ Goto(p, "write")
    /\ UNCHANGED <<info, config, saved, counts, ghosts>>

(* ... and writes it.                                                      *)
Write(p) ==
    /\ pc[p] = "write"
    /\ kind' = "whole"
    /\ info' = pend[p]
    /\ \/ /\ req[p].op = "record"
          /\ log' = [log EXCEPT ![req[p].dir][req[p].remote] =
                        Append(@, req[p].speed)]
          /\ Return(p)
       \/ /\ req[p].op = "allocate"
          /\ Answer(p, got[p])
          /\ UNCHANGED log
    /\ UNCHANGED <<config, saved, counts, together, spoilt, picks>>

-----------------------------------------------------------------------------
(* System calls on the file that fail.                                     *)

Fail ==
    /\ fails < MaxFails
    /\ fails' = fails + 1
    /\ UNCHANGED <<calls, cuts, edits>>

(* os.MkdirAll or os.Create fails: the path is "", and readJSON fails.     *)
getLoadBalancerJsonFilePath_Fails(p) ==
    /\ pc[p] = "path" /\ kind = "missing"
    /\ Fail
    /\ Unread(p)
    /\ UNCHANGED <<file, config, saved, ghosts>>

(* So it is when the first content can not be written; the file stays.     *)
WriteDefaults_Fails(p) ==
    /\ pc[p] = "create"
    /\ Fail
    /\ Unread(p)
    /\ spoilt' = TRUE
    /\ UNCHANGED <<file, config, saved, together, picks, log>>

(* os.Open or the decoder's reading fails; nobody looks at the error of    *)
(* IncrementRoundRobinCounter.                                             *)
readJSON_Fails(p) ==
    /\ Fail
    /\ \/ pc[p] = "read" /\ Unread(p)
       \/ pc[p] = "increment" /\ Answer(p, got[p])
    /\ UNCHANGED <<file, config, saved, ghosts>>

(* os.WriteFile can not open the file, which stays as it was, or not write *)
(* it, which leaves part of the new content.                               *)
writeJSON_Fails(p) ==
    /\ Fail
    /\ \/ pc[p] = "truncate" /\ UNCHANGED <<kind, spoilt>>
       \/ /\ pc[p] = "write"
          /\ kind' \in {kind, "unreadable"}
          /\ spoilt' = TRUE
    /\ Unwritten(p)
    /\ UNCHANGED <<info, config, saved, together, picks, log>>

(* The call returns: the shard has its remote, or the caller an error.     *)
AllocateRemote(p) ==
    /\ pc[p] \in {"answer", "error"}
    /\ Return(p)
    /\ UNCHANGED <<file, config, saved, counts, ghosts>>

-----------------------------------------------------------------------------
(* The environment.                                                        *)

Kill(p) ==
    /\ cuts < MaxCuts
    /\ pc[p] # "idle" \/ saved[p] # NoRemote
    /\ Return(p)
    /\ saved'  = [saved EXCEPT ![p] = NoRemote]
    /\ cuts'   = cuts + 1
    /\ spoilt' = (spoilt \/ pc[p] \in {"create", "write"})
    /\ UNCHANGED <<file, config, calls, fails, edits, together, picks, log>>

(* rclone config: a remote is deleted, or a new one comes last.            *)
EditConfig ==
    /\ edits < MaxEdits
    /\ edits' = edits + 1
    /\ \/ \E i \in 1..Len(config) : config' = RemoveAt(config, i)
       \/ \E r \in Remotes \ Configured : config' = Append(config, r)
    /\ picks' = [r \in Remotes |-> 0]
    /\ UNCHANGED <<file, req, pc, pend, got, saved, calls, cuts, fails,
                   together, spoilt, log>>

Next ==
    \/ EditConfig
    \/ \E p \in Procs :
          \/ \E q \in Requests : Begin(p, q)
          \/ getLoadBalancerJsonFilePath(p) \/ WriteDefaults(p)
          \/ RoundRobin(p) \/ IncrementRoundRobinCounter(p)
          \/ getRemoteOfHighestThroughput(p) \/ LoadBalancer_ResourceBased(p)
          \/ UpdateRemoteInfo(p) \/ Truncate(p) \/ Write(p)
          \/ getLoadBalancerJsonFilePath_Fails(p) \/ WriteDefaults_Fails(p)
          \/ readJSON_Fails(p) \/ writeJSON_Fails(p)
          \/ AllocateRemote(p) \/ Kill(p)

Spec == Init /\ [][Next]_vars

-----------------------------------------------------------------------------
(* Properties.                                                             *)

TypeOK ==
    /\ kind   \in {"missing", "unreadable", "whole"}
    /\ info   \in Infos
    /\ \A d \in Directions, r \in Remotes :
          Len(info.history[d][r]) <= MaxEntries
    /\ config \in Seq(Remotes)
    /\ req    \in [Procs -> Requests \cup {NoRequest}]
    /\ pc     \in [Procs -> {"idle", "path", "create", "read", "about",
                             "increment", "truncate", "write", "answer",
                             "error"}]
    /\ pend   \in [Procs -> Infos]
    /\ got    \in [Procs -> Remotes \cup {NoRemote}]
    /\ saved  \in [Procs -> Remotes \cup {NoRemote}]

(* Round robin spreads the shards evenly over the configured remotes: no   *)
(* remote gets two more than another, whatever other policies and          *)
(* throughput records come in between; a process that is killed, or whose  *)
(* system call fails, between its choice and the write of the counter adds *)
(* at most one, because nobody looks at the error of that write.           *)
Balanced ==
    ~together =>
        \A r, q \in Configured : picks[r] - picks[q] <= 1 + cuts + fails

(* A remote chosen for its throughput, while it is configured, is one      *)
(* whose best speed, among its last MaxEntries transfers in that           *)
(* direction, is at least that of every other configured remote: no        *)
(* recorded transfer is lost or outlives its place in line.                *)
Recent(d, r) ==
    LET h == log[d][r]
    IN  maxSpeed(SubSeq(h, IF Len(h) > MaxEntries THEN Len(h) - MaxEntries + 1
                           ELSE 1, Len(h)))

FastestChosen ==
    [][\A p \in Procs :
          /\ ~together
          /\ pc[p] = "read" /\ pc'[p] = "answer" /\ got'[p] \in Configured
          => \A r \in Configured :
                Recent(Direction(req[p]), r)
                    <= Recent(Direction(req[p]), got'[p])]_vars

(* A call fails only for a reason outside of it: nothing is configured, no *)
(* remote tells its free storage, two processes rewrite the file at the    *)
(* same time, a write was cut short or failed before, or the system call   *)
(* it makes just now fails.                                                *)
ErrorHasCause ==
    [][\A p \in Procs :
          /\ pc'[p] = "error" /\ pc[p] # "error"
          => \/ together \/ spoilt
             \/ config = <<>>
             \/ pc[p] = "about"
             \/ fails' > fails]_vars

=============================================================================
