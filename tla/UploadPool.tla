----------------------------- MODULE UploadPool -----------------------------
(***************************************************************************)
(* startUploadFileGoroutine_Worker (src/fs/dis_operations/dis_upload.go):  *)
(* a fixed number of workers take the shards of a file from a buffered     *)
(* channel, and one WaitGroup counts both the workers and the shards.      *)
(* DisStore takes from here that the command goes on when, and only when,  *)
(* every shard has been treated.  The pool of dis_download is this one     *)
(* with AllocFails = {}: its workers allocate nothing.                     *)
(*                                                                         *)
(* Each critical section of the mutex mu is one step: none of them blocks  *)
(* inside.                                                                 *)
(***************************************************************************)
EXTENDS Integers, FiniteSets

CONSTANTS
    Workers,      \* the worker goroutines (workerCount of them)
    NumJobs,      \* len(distributedFileArray)
    AllocFails    \* the jobs whose AllocateRemote may return an error

ASSUME WorkersAssumption == IsFiniteSet(Workers)
ASSUME JobsAssumption    == NumJobs \in Nat /\ AllocFails \subseteq 1..NumJobs

VARIABLES
    mpc,       \* the function's own goroutine
    wpc,       \* wpc[w]: the worker w
    job,       \* job[w]: the shard it holds, 0 when none
    sent,      \* jobs put into the channel, in order
    taken,     \* jobs taken out of it
    closed,    \* the channel is closed
    wg,        \* the WaitGroup's counter
    failed,    \* errs is not empty
    uploaded,  \* history: jobs whose uploadFile returned nil
    skipped,   \* history: number of jobs dropped at line 267
    result     \* what the function returned

vars == <<mpc, wpc, job, sent, taken, closed, wg, failed, uploaded, skipped,
          result>>

Jobs == 1..NumJobs

Init ==
    /\ mpc      = "spawn"
    /\ wpc      = [w \in Workers |-> "unborn"]
    /\ job      = [w \in Workers |-> 0]
    /\ sent     = 0
    /\ taken    = 0
    /\ closed   = FALSE
    /\ wg       = 0
    /\ failed   = FALSE
    /\ uploaded = {}
    /\ skipped  = 0
    /\ result   = "none"

-----------------------------------------------------------------------------
(* The caller.                                                             *)

Spawn(w) ==
    /\ mpc = "spawn"
    /\ wpc[w] = "unborn"
    /\ wg'  = wg + 1
    /\ wpc' = [wpc EXCEPT ![w] = "receive"]
    /\ UNCHANGED <<mpc, job, sent, taken, closed, failed, uploaded, skipped,
                   result>>

SpawnedAll ==
    /\ mpc = "spawn"
    /\ \A w \in Workers : wpc[w] # "unborn"
    /\ mpc' = "send"
    /\ UNCHANGED <<wpc, job, sent, taken, closed, wg, failed, uploaded,
                   skipped, result>>

(* Mutant: the job is not counted.                                         *)
Send_NoAdd ==
    /\ mpc = "send"
    /\ sent < NumJobs
    /\ sent' = sent + 1
    /\ UNCHANGED <<mpc, wpc, job, taken, closed, wg, failed, uploaded, skipped,
                   result>>

(* The channel's buffer holds every job: the send never blocks.            *)
Send ==
    /\ mpc = "send"
    /\ sent < NumJobs
    /\ wg'   = wg + 1
    /\ sent' = sent + 1
    /\ UNCHANGED <<mpc, wpc, job, taken, closed, failed, uploaded, skipped,
                   result>>

(* Mutant: the channel is not closed.                                      *)
Close_Forgotten ==
    /\ mpc = "send"
    /\ sent = NumJobs
    /\ mpc'    = "wait"
    /\ UNCHANGED <<wpc, job, sent, taken, closed, wg, failed, uploaded, skipped,
                   result>>

Close ==
    /\ mpc = "send"
    /\ sent = NumJobs
    /\ closed' = TRUE
    /\ mpc'    = "wait"
    /\ UNCHANGED <<wpc, job, sent, taken, wg, failed, uploaded, skipped,
                   result>>

Wait ==
    /\ mpc = "wait"
    /\ wg = 0
    /\ mpc'    = "returned"
    /\ result' = IF failed THEN "error" ELSE "nil"
    /\ UNCHANGED <<wpc, job, sent, taken, closed, wg, failed, uploaded,
                   skipped>>

-----------------------------------------------------------------------------
(* The workers.                                                            *)

(* Mutant: a bare receive in place of the range loop, which takes a job    *)
(* that nobody sent out of a channel that is closed and empty.             *)
Receive_Bare(w) ==
    /\ wpc[w] = "receive"
    /\ taken < sent \/ closed
    /\ taken' = taken + 1
    /\ job'   = [job EXCEPT ![w] = taken + 1]
    /\ wpc'   = [wpc EXCEPT ![w] = "alloc"]
    /\ UNCHANGED <<mpc, sent, closed, wg, failed, uploaded, skipped, result>>

Receive(w) ==
    /\ wpc[w] = "receive"
    /\ taken < sent
    /\ taken' = taken + 1
    /\ job'   = [job EXCEPT ![w] = taken + 1]
    /\ wpc'   = [wpc EXCEPT ![w] = "alloc"]
    /\ UNCHANGED <<mpc, sent, closed, wg, failed, uploaded, skipped, result>>

(* The range loop ends when the channel is closed and empty.               *)
Exit(w) ==
    /\ wpc[w] = "receive"
    /\ taken = sent
    /\ closed
    /\ wg'  = wg - 1
    /\ wpc' = [wpc EXCEPT ![w] = "exited"]
    /\ UNCHANGED <<mpc, job, sent, taken, closed, failed, uploaded, skipped,
                   result>>

(* AllocateRemote under mu.  The error branch appends to errs and          *)
(* continues the loop: it passes by the wg.Done at its end.                *)
Allocate(w) ==
    /\ wpc[w] = "alloc"
    /\ \/ /\ wpc' = [wpc EXCEPT ![w] = "upload"]
          /\ UNCHANGED <<job, failed, skipped>>
       \/ /\ job[w] \in AllocFails
          /\ wpc'     = [wpc EXCEPT ![w] = "receive"]
          /\ job'     = [job EXCEPT ![w] = 0]
          /\ failed'  = TRUE
          /\ skipped' = skipped + 1
    /\ UNCHANGED <<mpc, sent, taken, closed, wg, uploaded, result>>

(* Mutant: its error is printed and not kept.                              *)
Upload_ErrorDropped(w) ==
    /\ wpc[w] = "upload"
    /\ wpc' = [wpc EXCEPT ![w] = "done"]
    /\ uploaded' \in {uploaded, uploaded \cup {job[w]}}
    /\ UNCHANGED <<mpc, job, sent, taken, closed, wg, failed, skipped, result>>

(* uploadFile: its error, whichever step of it failed, goes to errs.       *)
Upload(w) ==
    /\ wpc[w] = "upload"
    /\ wpc' = [wpc EXCEPT ![w] = "done"]
    /\ \/ /\ uploaded' = uploaded \cup {job[w]}
          /\ UNCHANGED failed
       \/ /\ failed' = TRUE
          /\ UNCHANGED uploaded
    /\ UNCHANGED <<mpc, job, sent, taken, closed, wg, skipped, result>>

Done(w) ==
    /\ wpc[w] = "done"
    /\ wg'  = wg - 1
    /\ wpc' = [wpc EXCEPT ![w] = "receive"]
    /\ job' = [job EXCEPT ![w] = 0]
    /\ UNCHANGED <<mpc, sent, taken, closed, failed, uploaded, skipped, result>>

-----------------------------------------------------------------------------

Caller == SpawnedAll \/ Send \/ Close \/ Wait \/ \E w \in Workers : Spawn(w)

Worker(w) == Receive(w) \/ Exit(w) \/ Allocate(w) \/ Upload(w) \/ Done(w)

Next == Caller \/ \E w \in Workers : Worker(w)

Spec == Init /\ [][Next]_vars

(* The Go scheduler runs every goroutine that can run, and uploadFile      *)
(* returns.                                                                *)
FairSpec == Spec /\ WF_vars(Caller) /\ \A w \in Workers : WF_vars(Worker(w))

-----------------------------------------------------------------------------
(* Properties.                                                             *)

TypeOK ==
    /\ mpc      \in {"spawn", "send", "wait", "returned"}
    /\ wpc      \in [Workers -> {"unborn", "receive", "alloc", "upload",
                                 "done", "exited"}]
    /\ job      \in [Workers -> Nat]
    /\ sent     \in 0..NumJobs
    /\ taken    \in 0..sent
    /\ closed   \in BOOLEAN
    /\ wg       \in Int
    /\ failed   \in BOOLEAN
    /\ uploaded \subseteq Nat
    /\ skipped  \in Nat
    /\ result   \in {"none", "nil", "error"}

Live == {w \in Workers : wpc[w] \notin {"unborn", "exited"}}
Busy == {w \in Workers : wpc[w] \in {"alloc", "upload", "done"}}

(* The WaitGroup's counter is the number of workers that run, plus the     *)
(* jobs that wait in the channel or are in a worker's hands, plus the jobs *)
(* that were dropped without wg.Done.  In particular it never becomes      *)
(* negative, which would make wg.Done panic.                               *)
WaitGroupCounts ==
    wg = Cardinality(Live) + (sent - taken) + Cardinality(Busy) + skipped

(* When the function returns, no worker runs any more (so reading errs     *)
(* without the lock is safe), and it returns nil only if every shard has   *)
(* been uploaded.                                                          *)
ReturnSound ==
    mpc = "returned" =>
        /\ \A w \in Workers : wpc[w] = "exited"
        /\ result = "nil" => uploaded = Jobs

(* wg.Wait returns, unless an allocation failed on the way: every other    *)
(* way to the end of a job, an upload that fails included, is counted.     *)
WaitReturns == <>(mpc = "returned" \/ skipped > 0)

=============================================================================
