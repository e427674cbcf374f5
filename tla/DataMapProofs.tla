---------------------------- MODULE DataMapProofs ----------------------------
(***************************************************************************)
(* What the operations of datamap.json leave behind, field by field: the   *)
(* lemmas through which the proofs about DisStore see the map.             *)
(***************************************************************************)
EXTENDS DataMap, TLAPS

(* An entry of a map is a FileInfo, and its fields have their types.       *)
LEMMA EntryType ==
    ASSUME NEW dm \in DataMaps, NEW f \in Files
    PROVE  /\ dm[f].Flag \in BOOLEAN
           /\ dm[f].State \in States
           /\ dm[f].Enc \in Nat
           /\ dm[f].Remote \in [Shards -> Remotes \cup {NoRemote}]
           /\ dm[f].Check \in [Shards -> BOOLEAN]
BY DEF DataMaps, FileInfo

(* The map of a datamap.json that does not exist.                          *)
LEMMA EmptyMapType == EmptyMap \in DataMaps
BY DEF EmptyMap, DataMaps, FileInfo, NoFileInfo, States

(* It has no entry, and no entry of it is flagged.                         *)
LEMMA EmptyMapBlank ==
    \A f \in Files : ~EmptyMap[f].Flag /\ ~Exists(EmptyMap, f)
BY DEF EmptyMap, NoFileInfo, Exists

(* MakeDataMap: the new entry is a flagged upload without remotes, and the *)
(* other entries stay.                                                     *)
LEMMA MakeDataMapEffect ==
    ASSUME NEW dm \in DataMaps, NEW f \in Files, NEW enc \in Nat
    PROVE  LET dmn == MakeDataMap(dm, f, enc) IN
           /\ dmn \in DataMaps
           /\ \A g \in Files : g # f => dmn[g] = dm[g]
           /\ dmn[f].Flag /\ dmn[f].State = "upload"
           /\ dmn[f].Enc = enc
           /\ \A s \in Shards : /\ dmn[f].Remote[s] = NoRemote
                                /\ ~dmn[f].Check[s]
BY DEF MakeDataMap, DataMaps, FileInfo, States

(* UpdateFileFlag changes the flag and the state of one entry.             *)
LEMMA UpdateFileFlagEffect ==
    ASSUME NEW dm \in DataMaps, NEW f \in Files, NEW state \in States
    PROVE  LET dmn == UpdateFileFlag(dm, f, state) IN
           /\ dmn \in DataMaps
           /\ \A g \in Files : g # f => dmn[g] = dm[g]
           /\ dmn[f].Flag /\ dmn[f].State = state
           /\ dmn[f].Enc = dm[f].Enc
           /\ dmn[f].Remote = dm[f].Remote /\ dmn[f].Check = dm[f].Check
BY DEF UpdateFileFlag, DataMaps, FileInfo

(* UpdateDistributedFile_CheckFlag changes one shard's Check.              *)
LEMMA CheckFlagEffect ==
    ASSUME NEW dm \in DataMaps, NEW f \in Files, NEW s \in Shards
    PROVE  LET dmn == UpdateDistributedFile_CheckFlag(dm, f, s) IN
           /\ dmn \in DataMaps
           /\ \A g \in Files : g # f => dmn[g] = dm[g]
           /\ (dmn[f].Flag <=> dm[f].Flag) /\ dmn[f].State = dm[f].State
           /\ dmn[f].Enc = dm[f].Enc /\ dmn[f].Remote = dm[f].Remote
           /\ dmn[f].Check[s]
           /\ \A t \in Shards : t # s => (dmn[f].Check[t] <=> dm[f].Check[t])
BY DEF UpdateDistributedFile_CheckFlag, DataMaps, FileInfo

(* UpdateDistributedFile_CheckFlagAndRemote changes one shard's two fields.*)
LEMMA CheckFlagAndRemoteEffect ==
    ASSUME NEW dm \in DataMaps, NEW f \in Files, NEW s \in Shards,
           NEW r \in Remotes \cup {NoRemote}
    PROVE  LET dmn == UpdateDistributedFile_CheckFlagAndRemote(dm, f, s, r) IN
           /\ dmn \in DataMaps
           /\ \A g \in Files : g # f => dmn[g] = dm[g]
           /\ (dmn[f].Flag <=> dm[f].Flag) /\ dmn[f].State = dm[f].State
           /\ dmn[f].Enc = dm[f].Enc
           /\ dmn[f].Check[s] /\ dmn[f].Remote[s] = r
           /\ \A t \in Shards : t # s =>
                 /\ (dmn[f].Check[t] <=> dm[f].Check[t])
                 /\ dmn[f].Remote[t] = dm[f].Remote[t]
BY DEF UpdateDistributedFile_CheckFlagAndRemote, DataMaps, FileInfo

(* ResetCheckFlag clears the flags and keeps the rest.                     *)
LEMMA ResetCheckFlagEffect ==
    ASSUME NEW dm \in DataMaps, NEW f \in Files
    PROVE  LET dmn == ResetCheckFlag(dm, f) IN
           /\ dmn \in DataMaps
           /\ \A g \in Files : g # f => dmn[g] = dm[g]
           /\ ~dmn[f].Flag /\ dmn[f].State = dm[f].State
           /\ dmn[f].Enc = dm[f].Enc /\ dmn[f].Remote = dm[f].Remote
           /\ \A s \in Shards : ~dmn[f].Check[s]
BY DEF ResetCheckFlag, DataMaps, FileInfo

(* RemoveFileFromMetadata makes the name unknown.                          *)
LEMMA RemoveEffect ==
    ASSUME NEW dm \in DataMaps, NEW f \in Files
    PROVE  LET dmn == RemoveFileFromMetadata(dm, f) IN
           /\ dmn \in DataMaps
           /\ \A g \in Files : g # f => dmn[g] = dm[g]
           /\ ~dmn[f].Flag /\ dmn[f].State = "absent"
           /\ \A s \in Shards : dmn[f].Remote[s] = NoRemote
BY DEF RemoveFileFromMetadata, NoFileInfo, DataMaps, FileInfo, States

=============================================================================
