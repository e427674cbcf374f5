------------------------------ MODULE AtomicMap ------------------------------
(***************************************************************************)
(* What datamap.json promises to the commands that use it: a map that is   *)
(* read and rewritten in one step by each of the functions of              *)
(* src/fs/dis_operations/datamap.go.  DisStore uses the map this way;      *)
(* DataMapFile shows where the file lives up to it.                        *)
(***************************************************************************)
EXTENDS DataMap

VARIABLES
    map,        \* the entries
    broken      \* the file is no JSON value, and every call fails

(* One call: a function of datamap.go with the arguments that matter.      *)
Ops ==
    [fn : {"MakeDataMap", "ResetCheckFlag", "RemoveFileFromMetadata"},
     file : Files]
    \cup [fn : {"UpdateFileFlag"}, file : Files, state : {"download", "rm"}]
    \cup [fn : {"CheckFlag"}, file : Files, shard : Shards]
    \cup [fn : {"CheckFlagAndRemote"}, file : Files, shard : Shards,
          remote : Remotes]

(* Only these two do without an entry of that name.                        *)
Accepts(dm, op) ==
    \/ op.fn \in {"MakeDataMap", "RemoveFileFromMetadata"}
    \/ Exists(dm, op.file)

Apply(dm, op) ==
    CASE op.fn = "MakeDataMap" -> MakeDataMap(dm, op.file, 1)
      [] op.fn = "UpdateFileFlag" -> UpdateFileFlag(dm, op.file, op.state)
      [] op.fn = "CheckFlag" ->
            UpdateDistributedFile_CheckFlag(dm, op.file, op.shard)
      [] op.fn = "CheckFlagAndRemote" ->
            UpdateDistributedFile_CheckFlagAndRemote(dm, op.file, op.shard,
                                                     op.remote)
      [] op.fn = "ResetCheckFlag" -> ResetCheckFlag(dm, op.file)
      [] op.fn = "RemoveFileFromMetadata" ->
            RemoveFileFromMetadata(dm, op.file)

-----------------------------------------------------------------------------

Init ==
    /\ map    = EmptyMap
    /\ broken = FALSE

Update(op) ==
    /\ ~broken
    /\ Accepts(map, op)
    /\ map' = Apply(map, op)
    /\ UNCHANGED broken

(* What a write that is cut short may do: to all entries or to none.       *)
Forget ==
    /\ map' = EmptyMap
    /\ broken' \in BOOLEAN

Next == (\E op \in Ops : Update(op)) \/ Forget

Spec == Init /\ [][Next]_<<map, broken>>

=============================================================================
