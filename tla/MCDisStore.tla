------------------------------ MODULE MCDisStore ------------------------------
(***************************************************************************)
(* DisStore for TLC: the bounds on the faults of each run, and what the    *)
(* comments, the help texts and the tests of the repository say of the     *)
(* commands where the code does something else.                            *)
(***************************************************************************)
EXTENDS DisStore, TLC

With(bounds) == bounds @@ [k \in FaultKinds |-> 0]

TwoCrashes == {With([crash |-> 2])}
OneDamage  == {With([damage |-> 1])}
Recovery   == {With([crash |-> 2]), With([file |-> 2]),
               With([midway |-> 1])}
Disturbed  == {With([crash |-> 1, loss |-> 2, clean |-> 1, move |-> 1])}
EveryKind  == {With([k \in FaultKinds \ {"file", "unread", "midway"} |-> 1]),
               With([file |-> 1, unread |-> 1, midway |-> 1])}

Symmetry == Permutations(Files) \cup Permutations(Shards)
                \cup Permutations(Remotes)

(* No safety property says anything of what follows once the window, which *)
(* was closed under a command, is open again.                              *)
Claimed == faults["midway"] = 0 \/ window # "open"

-----------------------------------------------------------------------------
(* Claims that the code does not meet.                                     *)

(* dis_status.go:54, DumpRmState: "Remove shards in remote and info in     *)
(* datamap".  The datamap forgets a file only after every object it        *)
(* records for it is gone.                                                 *)
ForgottenAfterGone ==
    [][\A f \in Files, s \in Shards :
          /\ Exists(datamap, f) /\ ~Exists(datamap', f)
          /\ datamap[f].Remote[s] # NoRemote
          => store[datamap[f].Remote[s]][f][s] = Absent]_vars

(* dis_download.go:29 (help): "If some of the partitioned files have been  *)
(* lost or damaged during this process, an automatic recovery process will *)
(* be used to restore the original file."  A download that says "File      *)
(* successfully downloaded" has restored the file.                         *)
DownloadedMeansRestored ==
    report = "downloaded" => out[cmd.file] = datamap[cmd.file].Enc

===============================================================================
