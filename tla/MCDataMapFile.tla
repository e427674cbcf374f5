---------------------------- MODULE MCDataMapFile ----------------------------
(***************************************************************************)
(* DataMapFile for TLC, and a comment of the repository the file does not  *)
(* live up to.                                                             *)
(***************************************************************************)
EXTENDS DataMapFile, TLC

Symmetry == Permutations(Files) \cup Permutations(Shards)

(* datamap.go:237, CheckFlagAndState: "checking to see if it terminated    *)
(* abnormally and if so, returning what command is was previously".  A     *)
(* process that is killed between its first and its last write leaves a    *)
(* flagged entry.                                                          *)
DeathIsNoticed ==
    [][\A p \in Procs :
          /\ Kill(p) /\ ~together
          /\ stage[p] \in {"list", "pool", "reset"}
          => (Flagged(Read))' # {}]_vars

===============================================================================
