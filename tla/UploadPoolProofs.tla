-------------------------- MODULE UploadPoolProofs --------------------------
(***************************************************************************)
(* Theorems about the worker pool, for every number of workers and shards  *)
(* and every set of failing allocations.                                   *)
(***************************************************************************)
EXTENDS UploadPool, FiniteSetTheorems, TLAPS

(***************************************************************************)
(* What ReturnSound rests on: the counter is exact, so that it is zero     *)
(* only when nobody runs; the workers are all born and the jobs all sent   *)
(* before the caller waits; and as long as nothing has failed, a job that  *)
(* was taken is uploaded or in the hands of a worker.                      *)
(***************************************************************************)
Started ==
    /\ mpc # "spawn" => \A w \in Workers : wpc[w] # "unborn"
    /\ mpc \in {"wait", "returned"} => sent = NumJobs

Held ==
    /\ uploaded \subseteq 1..taken
    /\ \A w \in Workers :
          wpc[w] \in {"alloc", "upload", "done"} => job[w] \in 1..taken

Settled ==
    \A j \in 1..taken :
        \/ failed
        \/ j \in uploaded
        \/ \E w \in Workers : job[w] = j /\ wpc[w] \in {"alloc", "upload"}

Inv ==
    /\ TypeOK
    /\ WaitGroupCounts
    /\ Started
    /\ Held
    /\ Settled
    /\ ReturnSound

(* Sets of workers have a number, and one worker more or less changes it   *)
(* by one.                                                                 *)
LEMMA Count ==
    ASSUME NEW S \in SUBSET Workers
    PROVE  /\ IsFiniteSet(S)
           /\ Cardinality(S) \in Nat
           /\ Cardinality(S) = 0 => S = {}
BY WorkersAssumption, FS_Subset, FS_CardinalityType, FS_EmptySet

(* A worker that joins a set makes it larger by one.                       *)
LEMMA CountJoin ==
    ASSUME NEW S \in SUBSET Workers, NEW w \in Workers, w \notin S
    PROVE  Cardinality(S \cup {w}) = Cardinality(S) + 1
BY Count, FS_AddElement

(* A worker that leaves a set makes it smaller by one.                     *)
LEMMA CountLeave ==
    ASSUME NEW S \in SUBSET Workers, NEW w \in S
    PROVE  Cardinality(S \ {w}) = Cardinality(S) - 1
BY Count, FS_RemoveElement

(* The live and the busy workers are sets with a number.                   *)
LEMMA Sets ==
    /\ Live \in SUBSET Workers /\ Busy \in SUBSET Workers
    /\ Cardinality(Live) \in Nat /\ Cardinality(Busy) \in Nat
<1>1. Live \in SUBSET Workers /\ Busy \in SUBSET Workers
  BY DEF Live, Busy
<1>2. QED
  BY <1>1, Count

(* Each step keeps the variables in their types.                           *)
LEMMA TypeStep == TypeOK /\ [Next]_vars => TypeOK'
<1> SUFFICES ASSUME TypeOK, [Next]_vars PROVE TypeOK'
  OBVIOUS
<1>0. NumJobs \in Nat
  BY JobsAssumption
<1>1. wpc' \in [Workers -> {"unborn", "receive", "alloc", "upload", "done",
                            "exited"}]
  BY DEF TypeOK, Next, Caller, Worker, SpawnedAll, Send, Close, Wait, Spawn,
     Receive, Exit, Allocate, Upload, Done, vars
<1>2. mpc' \in {"spawn", "send", "wait", "returned"}
      /\ result' \in {"none", "nil", "error"}
  BY DEF TypeOK, Next, Caller, Worker, SpawnedAll, Send, Close, Wait, Spawn,
     Receive, Exit, Allocate, Upload, Done, vars
<1>3. closed' \in BOOLEAN /\ failed' \in BOOLEAN
  BY DEF TypeOK, Next, Caller, Worker, SpawnedAll, Send, Close, Wait, Spawn,
     Receive, Exit, Allocate, Upload, Done, vars
<1>4. sent' \in 0..NumJobs /\ taken' \in 0..sent'
  BY <1>0 DEF TypeOK, Next, Caller, Worker, SpawnedAll, Send, Close, Wait,
     Spawn, Receive, Exit, Allocate, Upload, Done, vars
<1>5. job' \in [Workers -> Nat] /\ uploaded' \subseteq Nat
  <2>1. CASE UNCHANGED <<job, uploaded>>
    BY <2>1 DEF TypeOK
  <2>2. ASSUME NEW w \in Workers,
               Receive(w) \/ Exit(w) \/ Allocate(w) \/ Done(w)
        PROVE  job' \in [Workers -> Nat] /\ UNCHANGED uploaded
    BY <1>0, <2>2 DEF TypeOK, Receive, Exit, Allocate, Done
  <2>3. ASSUME NEW w \in Workers, Upload(w)
        PROVE  UNCHANGED job /\ uploaded' \subseteq Nat
    BY <2>3 DEF TypeOK, Upload
  <2>4. QED
    BY <2>1, <2>2, <2>3 DEF TypeOK, Next, Caller, Worker, SpawnedAll, Send,
       Close, Wait, Spawn, vars
<1>6. wg' \in Int /\ skipped' \in Nat
  BY DEF TypeOK, Next, Caller, Worker, SpawnedAll, Send, Close, Wait, Spawn,
     Receive, Exit, Allocate, Upload, Done, vars
<1>7. QED
  BY <1>1, <1>2, <1>3, <1>4, <1>5, <1>6 DEF TypeOK

(* Each step keeps the counter exact.                                      *)
LEMMA CountStep == TypeOK /\ WaitGroupCounts /\ [Next]_vars => WaitGroupCounts'
<1> SUFFICES ASSUME TypeOK, WaitGroupCounts, [Next]_vars
             PROVE  WaitGroupCounts'
  OBVIOUS
<1>0. /\ wpc \in [Workers -> {"unborn", "receive", "alloc", "upload", "done",
                              "exited"}]
      /\ sent \in Nat /\ taken \in Nat /\ skipped \in Nat /\ wg \in Int
  BY JobsAssumption DEF TypeOK
<1>1. CASE UNCHANGED <<wpc, sent, taken, skipped, wg>>
  BY <1>1 DEF WaitGroupCounts, Live, Busy
<1>2. ASSUME NEW w \in Workers, Spawn(w) PROVE WaitGroupCounts'
  <2>1. Live' = Live \cup {w} /\ w \notin Live /\ Busy' = Busy
    BY <1>0, <1>2 DEF Spawn, Live, Busy
  <2>2. Cardinality(Live') = Cardinality(Live) + 1
    BY <2>1, Sets, CountJoin
  <2>3. QED
    BY <1>0, <1>2, <2>1, <2>2, Sets DEF Spawn, WaitGroupCounts
<1>3. CASE Send
  <2>1. Live' = Live /\ Busy' = Busy
    BY <1>3 DEF Send, Live, Busy
  <2>2. QED
    BY <1>0, <1>3, <2>1, Sets DEF Send, WaitGroupCounts
<1>4. ASSUME NEW w \in Workers, Receive(w) PROVE WaitGroupCounts'
  <2>1. Live' = Live /\ Busy' = Busy \cup {w} /\ w \notin Busy
    BY <1>0, <1>4 DEF Receive, Live, Busy
  <2>2. Cardinality(Busy') = Cardinality(Busy) + 1
    BY <2>1, Sets, CountJoin
  <2>3. QED
    BY <1>0, <1>4, <2>1, <2>2, Sets DEF Receive, WaitGroupCounts
<1>5. ASSUME NEW w \in Workers, Exit(w) PROVE WaitGroupCounts'
  <2>1. Live' = Live \ {w} /\ w \in Live /\ Busy' = Busy
    BY <1>0, <1>5 DEF Exit, Live, Busy
  <2>2. Cardinality(Live') = Cardinality(Live) - 1
    BY <2>1, Sets, CountLeave
  <2>3. QED
    BY <1>0, <1>5, <2>1, <2>2, Sets DEF Exit, WaitGroupCounts
<1>6. ASSUME NEW w \in Workers, Allocate(w) PROVE WaitGroupCounts'
  <2>1. Live' = Live /\ w \in Busy
    BY <1>0, <1>6 DEF Allocate, Live, Busy
  <2>2. CASE wpc' = [wpc EXCEPT ![w] = "upload"] /\ UNCHANGED skipped
    <3>1. Busy' = Busy
      BY <1>0, <2>1, <2>2 DEF Busy
    <3>2. QED
      BY <1>0, <1>6, <2>1, <2>2, <3>1 DEF Allocate, WaitGroupCounts
  <2>3. CASE wpc' = [wpc EXCEPT ![w] = "receive"] /\ skipped' = skipped + 1
    <3>1. Busy' = Busy \ {w}
      BY <1>0, <2>3 DEF Busy
    <3>2. Cardinality(Busy') = Cardinality(Busy) - 1
      BY <2>1, <3>1, Sets, CountLeave
    <3>3. QED
      BY <1>0, <1>6, <2>1, <2>3, <3>2, Sets DEF Allocate, WaitGroupCounts
  <2>4. QED
    BY <1>6, <2>2, <2>3 DEF Allocate
<1>7. ASSUME NEW w \in Workers, Upload(w) PROVE WaitGroupCounts'
  <2>1. Live' = Live /\ Busy' = Busy
    BY <1>0, <1>7 DEF Upload, Live, Busy
  <2>2. QED
    BY <1>7, <2>1 DEF Upload, WaitGroupCounts
<1>8. ASSUME NEW w \in Workers, Done(w) PROVE WaitGroupCounts'
  <2>1. Live' = Live /\ Busy' = Busy \ {w} /\ w \in Busy
    BY <1>0, <1>8 DEF Done, Live, Busy
  <2>2. Cardinality(Busy') = Cardinality(Busy) - 1
    BY <2>1, Sets, CountLeave
  <2>3. QED
    BY <1>0, <1>8, <2>1, <2>2, Sets DEF Done, WaitGroupCounts
<1>9. QED
  BY <1>1, <1>2, <1>3, <1>4, <1>5, <1>6, <1>7, <1>8
  DEF Next, Caller, Worker, SpawnedAll, Close, Wait, vars

(* Each step keeps the rest of the invariant; Wait is the one where the    *)
(* counter tells that the work is done.                                    *)
LEMMA PoolStep == Inv /\ [Next]_vars => Started' /\ Held' /\ Settled'
<1> SUFFICES ASSUME Inv, [Next]_vars PROVE Started' /\ Held' /\ Settled'
  OBVIOUS
<1> USE JobsAssumption DEF Inv, TypeOK, Started, Held, Settled
<1>1. CASE UNCHANGED vars
  BY <1>1 DEF vars
<1>2. CASE SpawnedAll \/ Send \/ Close \/ Wait
  BY <1>2 DEF SpawnedAll, Send, Close, Wait
<1>3. ASSUME NEW w \in Workers, Spawn(w) PROVE Started' /\ Held' /\ Settled'
  BY <1>3 DEF Spawn
<1>4. ASSUME NEW w \in Workers, Receive(w) PROVE Started' /\ Held' /\ Settled'
  <2>1. Started' /\ Held'
    BY <1>4 DEF Receive
  <2>2. job'[w] = taken + 1 /\ wpc'[w] = "alloc"
    BY <1>4 DEF Receive
  <2>3. \A v \in Workers : wpc[v] \in {"alloc", "upload"} =>
            wpc'[v] = wpc[v] /\ job'[v] = job[v]
    BY <1>4 DEF Receive
  <2>4. taken' = taken + 1 /\ UNCHANGED <<failed, uploaded>>
    BY <1>4 DEF Receive
  <2>5. Settled'
    BY <2>2, <2>3, <2>4
  <2>6. QED
    BY <2>1, <2>5
<1>5. ASSUME NEW w \in Workers, Exit(w) PROVE Started' /\ Held' /\ Settled'
  BY <1>5 DEF Exit
<1>6. ASSUME NEW w \in Workers, Allocate(w)
      PROVE  Started' /\ Held' /\ Settled'
  BY <1>6 DEF Allocate
<1>7. ASSUME NEW w \in Workers, Upload(w) PROVE Started' /\ Held' /\ Settled'
  BY <1>7 DEF Upload
<1>8. ASSUME NEW w \in Workers, Done(w) PROVE Started' /\ Held' /\ Settled'
  BY <1>8 DEF Done
<1>9. QED
  BY <1>1, <1>2, <1>3, <1>4, <1>5, <1>6, <1>7, <1>8 DEF Next, Caller, Worker

(* Each step keeps ReturnSound: Wait returns only at zero, when no worker  *)
(* runs and therefore every job is uploaded or an error is listed.         *)
LEMMA ReturnStep == Inv /\ [Next]_vars => ReturnSound'
<1> SUFFICES ASSUME Inv, [Next]_vars, mpc' = "returned"
             PROVE  /\ \A w \in Workers : wpc'[w] = "exited"
                    /\ result' = "nil" => uploaded' = Jobs
  BY DEF ReturnSound, Jobs
<1>1. CASE mpc = "returned"
  <2>1. \A w \in Workers : wpc[w] = "exited"
    BY <1>1 DEF Inv, ReturnSound
  <2>2. UNCHANGED vars
    BY <1>1, <2>1 DEF Next, Caller, Worker, SpawnedAll, Send, Close, Wait,
       Spawn, Receive, Exit, Allocate, Upload, Done
  <2>3. QED
    BY <1>1, <2>1, <2>2 DEF Inv, ReturnSound, vars
<1>2. CASE Wait
  <2>1. /\ sent \in Nat /\ taken \in Nat /\ taken <= sent /\ skipped \in Nat
        /\ sent = NumJobs /\ wg = 0
    BY <1>2, JobsAssumption DEF Inv, TypeOK, Started, Wait
  <2>2. /\ Cardinality(Live) = 0 /\ Cardinality(Busy) = 0 /\ taken = sent
    BY <2>1, Sets DEF Inv, WaitGroupCounts
  <2>3. Live = {} /\ Busy = {}
    BY <2>2, Sets, Count
  <2>4. \A w \in Workers : wpc[w] = "exited"
    BY <1>2, <2>3 DEF Inv, Started, Wait, Live
  <2>5. ~failed => uploaded = 1..NumJobs
    BY <2>1, <2>2, <2>4 DEF Inv, Settled, Held
  <2>6. QED
    BY <1>2, <2>4, <2>5 DEF Wait, Jobs
<1>3. mpc = "returned" \/ Wait
  BY DEF Next, Caller, Worker, SpawnedAll, Send, Close, Spawn, Receive, Exit,
     Allocate, Upload, Done, vars
<1>4. QED
  BY <1>1, <1>2, <1>3

(* The invariant holds when startUploadFileGoroutine_Worker is called.     *)
LEMMA PoolInit == Init => Inv
<1> SUFFICES ASSUME Init PROVE Inv
  OBVIOUS
<1> USE JobsAssumption DEF Init
<1>1. TypeOK
  <2>1. closed \in BOOLEAN /\ failed \in BOOLEAN
    OBVIOUS
  <2>2. sent \in 0..NumJobs /\ taken \in 0..sent
    OBVIOUS
  <2>3. wg \in Int /\ skipped \in Nat /\ uploaded \subseteq Nat
    OBVIOUS
  <2>4. /\ wpc \in [Workers -> {"unborn", "receive", "alloc", "upload", "done",
                               "exited"}]
        /\ job \in [Workers -> Nat]
    OBVIOUS
  <2>5. QED
    BY <2>1, <2>2, <2>3, <2>4 DEF TypeOK
<1>a. Started /\ Held /\ Settled /\ ReturnSound
  <2>1. 1..taken = {} /\ uploaded = {}
    OBVIOUS
  <2>2. Held /\ Settled
    BY <2>1 DEF Held, Settled
  <2>3. Started /\ ReturnSound
    BY DEF Started, ReturnSound
  <2>4. QED
    BY <2>2, <2>3
<1>2. Live = {} /\ Busy = {}
  BY DEF Live, Busy
<1>3. WaitGroupCounts
  BY <1>2, FS_EmptySet DEF WaitGroupCounts
<1>4. QED
  BY <1>1, <1>a, <1>3 DEF Inv

(* The invariant holds throughout.                                         *)
LEMMA PoolInv == Spec => []Inv
<1>1. Inv /\ [Next]_vars => Inv'
  BY TypeStep, CountStep, PoolStep, ReturnStep DEF Inv
<1>2. QED
  BY <1>1, PoolInit, PTL DEF Spec

(* The pool is well typed: no more jobs are sent than there are shards, and*)
(* none is received before it was sent.                                    *)
THEOREM PoolTypeCorrect == Spec => []TypeOK
BY PoolInv, PTL DEF Inv

(* The counter of the WaitGroup is the number of workers that run, plus    *)
(* the jobs waiting or in hand, plus the jobs dropped at dis_upload.go:267,*)
(* in every state of every pool: wg.Done never panics.                     *)
THEOREM CounterIsExact == Spec => []WaitGroupCounts
BY PoolInv, PTL DEF Inv

(* startUploadFileGoroutine_Worker returns only after its workers, and nil *)
(* only if every shard has been uploaded.                                  *)
THEOREM PoolReturnsSound == Spec => []ReturnSound
BY PoolInv, PTL DEF Inv

=============================================================================
