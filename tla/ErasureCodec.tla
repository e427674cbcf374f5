----------------------------- MODULE ErasureCodec -----------------------------
(***************************************************************************)
(* DoEncode and DoDecode (src/reedsolomon/streaming.go): how many shards a *)
(* file gets, how it is cut and padded, and how a download verifies the    *)
(* shards it fetched, rebuilds the missing ones block by block, joins them *)
(* and takes the padding off.  Shards may be lost, cut short or damaged on *)
(* the remotes, and the download may die between any two writes; the next  *)
(* command then deletes what it had not fetched and fetches again.         *)
(*                                                                         *)
(* Sizes are counted in cells.  The cells at one offset of every shard are *)
(* a row, the unit the Reed-Solomon code works on; of its arithmetic we    *)
(* use that any dataShards cells of a row determine the others.            *)
(***************************************************************************)
EXTENDS Integers, Sequences, FiniteSets, SequencesExt, FiniteSetsExt

CONSTANTS
    MinSize,       \* minSize: smaller files get a fixed number of shards,
    SmallData,     \*   so many data shards (5)
    SmallParity,   \*   and so many parity shards (3)
    StartData,     \* default of the flag "data" (170)
    DataStep,      \* what the loop takes off, and where it stops (10)
    MaxShards,     \* the most shards NewStream accepts (256)
    Block,         \* streamBS, the cells of a shard read at once
    Overhead,      \* what the encryption adds to a file
    Sizes,         \* bound: sizes of source files
    MaxRetries,    \* bound: how often cmd.Run runs the upload again
    MaxLost,       \* bound: shards lost
    MaxHurt,       \* bound: shards cut short or damaged
    MaxKills       \* bound: how often a download dies

ASSUME CodecAssumption ==
    /\ {MinSize, SmallData, SmallParity, DataStep, Block, Overhead}
          \subseteq Nat \ {0}
    /\ {MaxRetries, MaxLost, MaxHurt, MaxKills} \subseteq Nat
    /\ Sizes \subseteq Nat
    /\ StartData \in Nat
    /\ \E k \in 1 .. StartData : StartData = k * DataStep
    /\ SmallData \in 2 .. DataStep
    /\ MaxShards \in Nat
    /\ SmallData + SmallParity <= MaxShards
    /\ StartData + (StartData \div 2) <= MaxShards

VARIABLES
    pc,          \* what the process does
    size,        \* size of the source file
    dataShards,  \* the flags, which keep their values from call to call
    parShards,
    padding,     \* the padding Split reports, kept in the datamap
    remote,      \* remote[i]: the cells of shard i on its remote
    plain,       \* plain[i]: its cells in the shard directory; <<>>: none
    pos,         \* pos[i]: how far the reader of shard i has come
    lens,        \* lens[i]: length of the buffer dst[i]
    read,        \* read: cells of each shard that have been used
    fill,        \* the shards that have a writer
    buf,         \* the block that is being written to them
    out,         \* the joined file
    result,      \* how the download ended
    retries, lost, hurt, kills   \* how often so far

up     == <<size, dataShards, parShards, padding, remote>>
stream == <<pos, lens, read>>
count  == <<retries, lost, hurt, kills>>
vars   == <<pc, up, plain, stream, fill, buf, out, result, count>>

(* A cell holds the right bytes of its row, whose number it is, or wrong   *)
(* bytes, or bytes rebuilt from a row that held wrong ones.                *)
Bad     == 0
Rebuilt == -1

All        == 1 .. (dataShards + parShards)
Data       == 1 .. dataShards
PerShard   == (size + Overhead + dataShards - 1) \div dataShards
Whole      == [r \in 1 .. PerShard |-> r]
Nothing    == [i \in All |-> <<>>]

Init ==
    /\ pc         = "calc"
    /\ size       \in Sizes
    /\ dataShards = StartData
    /\ parShards  = StartData \div 2
    /\ padding    = 0
    /\ remote     = Nothing
    /\ plain      = Nothing
    /\ pos        = [i \in All |-> 0]
    /\ lens       = [i \in All |-> 0]
    /\ read       = 0
    /\ fill       = {}
    /\ buf        = Nothing
    /\ out        = <<>>
    /\ result     = "none"
    /\ retries    = 0
    /\ lost       = 0
    /\ hurt       = 0
    /\ kills      = 0

-----------------------------------------------------------------------------
(* DoEncode.                                                               *)

Flags(d, p, label) ==
    /\ dataShards' = d
    /\ parShards'  = p
    /\ pc'         = label
    /\ UNCHANGED <<size, padding, remote, plain, stream, fill, buf, out,
                   result, count>>

(* Mutant: as many parity shards as data shards.                           *)
calculateShardsNum_Double ==
    /\ pc = "calc"
    /\ Flags(dataShards, dataShards, "encode")

calculateShardsNum ==
    /\ pc = "calc"
    /\ \/ /\ size < MinSize
          /\ Flags(SmallData, SmallParity, "encode")
       \/ /\ size >= MinSize
          /\ size \div dataShards < MinSize /\ dataShards > DataStep
          /\ Flags(dataShards - DataStep, parShards, "calc")
       \/ /\ size >= MinSize
          /\ ~(size \div dataShards < MinSize /\ dataShards > DataStep)
          /\ Flags(dataShards, dataShards \div 2, "encode")

(* Split: the zeros it read to fill the last data shards.                  *)
Split == dataShards * PerShard - (size + Overhead)

(* Split and Encode, over the encrypted file.                              *)
DoEncode ==
    /\ pc = "encode"
    /\ padding' = Split
    /\ remote'  = [i \in All |-> Whole]
    /\ pc'      = "stored"
    /\ UNCHANGED <<size, dataShards, parShards, plain, stream, fill, buf, out,
                   result, count>>

(* The upload fails later on, and cmd.Run runs it again in this process;   *)
(* the file may have changed.                                              *)
Retry ==
    /\ pc = "stored"
    /\ retries < MaxRetries
    /\ retries' = retries + 1
    /\ size' \in Sizes
    /\ pc' = "calc"
    /\ UNCHANGED <<dataShards, parShards, padding, remote, plain, stream, fill,
                   buf, out, result, lost, hurt, kills>>

-----------------------------------------------------------------------------
(* What happens to shards on the remotes.                                  *)

OnRemote(c) ==
    /\ remote' = c
    /\ UNCHANGED <<pc, size, dataShards, parShards, padding, plain, stream,
                   fill, buf, out, result, retries, kills>>

Lose(i) ==
    /\ pc = "stored" /\ lost < MaxLost
    /\ remote[i] # <<>>
    /\ lost' = lost + 1
    /\ OnRemote([remote EXCEPT ![i] = <<>>])
    /\ UNCHANGED hurt

Cut(i, n) ==
    /\ pc = "stored" /\ hurt < MaxHurt
    /\ n \in 1 .. Len(remote[i]) - 1
    /\ hurt' = hurt + 1
    /\ OnRemote([remote EXCEPT ![i] = SubSeq(@, 1, n)])
    /\ UNCHANGED lost

Damage(i, r) ==
    /\ pc = "stored" /\ hurt < MaxHurt
    /\ r \in 1 .. Len(remote[i])
    /\ hurt' = hurt + 1
    /\ OnRemote([remote EXCEPT ![i][r] = Bad])
    /\ UNCHANGED lost

-----------------------------------------------------------------------------
(* The streams.                                                            *)

(* The shards that have a reader: openInput takes an empty file for none.  *)
Open == {i \in All : plain[i] # <<>>} \ fill

(* openInput, and the buffers of createSlice.                              *)
OpenInput ==
    /\ pos'  = [i \in All |-> 0]
    /\ lens' = [i \in All |-> Block]
    /\ read' = 0

(* io.ReadFull on every reader: how much each one gives.                   *)
Got == [i \in All |->
           IF i \in Open THEN Min({lens[i], Len(plain[i]) - pos[i]}) ELSE 0]

(* readShards, when the readers gave g: those that gave less than the      *)
(* buffer takes must agree.                                                *)
Short(g) == {g[i] : i \in {j \in Open : g[j] < lens[j]}}

readShards(g) ==
    LET short == Short(g) IN
    CASE Cardinality(short) > 1 -> "ErrShardSize"
      [] short = {0}            -> "EOF"
      [] OTHER                  -> "ok"

Dst(g, i) == SubSeq(plain[i], pos[i] + 1, pos[i] + g[i])

(* shardSize(all) after the read: the first length that is not zero.       *)
Used(g) == {i \in All : g[i] > 0}
shardSize(g) == IF Used(g) = {} THEN 0 ELSE g[Min(Used(g))]

(* Mutant: a whole block is taken for read.                                *)
Advance_WholeBlock(g, l) ==
    /\ pos'  = [i \in All |-> pos[i] + Block]
    /\ lens' = l
    /\ read' = read + Block

(* The next round reads into buffers of the lengths l.                     *)
Advance(g, l) ==
    /\ pos'  = [i \in All |-> pos[i] + g[i]]
    /\ lens' = l
    /\ read' = read + shardSize(g)

(* The parity of a row is right.  Cells rebuilt from dataShards others     *)
(* always agree with them.                                                 *)
Codeword(row) ==
    \/ row[1] > 0 /\ \A i \in All : row[i] = row[1]
    \/ /\ \E i \in All : row[i] = Rebuilt
       /\ Cardinality({i \in All : row[i] # Rebuilt}) <= dataShards

(* One round of Verify.                                                   *)
Verify(g) ==
    LET status == readShards(g)
        n      == shardSize(g)
    IN CASE status = "ErrShardSize" -> "error"
         [] status = "EOF" -> IF read = 0 THEN "error" ELSE "valid"
         [] status = "ok"  ->
               IF n = 0 \/ (\E i \in All : g[i] # n) THEN "error"
               ELSE IF \A k \in 1 .. n :
                          Codeword([i \in All |-> plain[i][pos[i] + k]])
                      THEN "more" ELSE "invalid"

-----------------------------------------------------------------------------
(* Dis_Download and DoDecode.                                              *)

Decoding == {"verify", "rebuild", "write", "verifyAgain", "join", "decrypt"}

End(r) ==
    /\ pc'     = "end"
    /\ result' = r

(* Mutant: what a download that died had rebuilt is kept.                  *)
DumpDownloadShards_Keeps == plain

(* CheckState's repair: the shards that were not fetched are deleted.      *)
DumpDownloadShards ==
    [i \in All |-> IF remote[i] = <<>> THEN <<>> ELSE plain[i]]

(* A download, the first one or one after a death, up to openInput.        *)
Download ==
    /\ pc \in {"stored", "dead"}
    /\ plain' = [i \in All |-> IF remote[i] # <<>> THEN remote[i]
                               ELSE DumpDownloadShards[i]]
    /\ OpenInput
    /\ pc' = "verify"
    /\ UNCHANGED <<up, fill, buf, out, result, count>>

(* A shard that ends where a block ends stops the loop like the end of all *)
(* shards does; one that ends inside a block is an error.                  *)
VerifyRound ==
    /\ pc \in {"verify", "verifyAgain"}
    /\ Verify(Got) = "more"
    /\ Advance(Got, Got)
    /\ UNCHANGED <<pc, up, plain, fill, buf, out, result, count>>

Verified ==
    /\ pc \in {"verify", "verifyAgain"}
    /\ Verify(Got) = "valid"
    /\ pc' = "join"
    /\ UNCHANGED <<up, plain, stream, fill, buf, out, result, count>>

(* The shards are opened again, and files created for the missing ones.    *)
NotVerified ==
    /\ pc = "verify"
    /\ Verify(Got) \in {"error", "invalid"}
    /\ fill' = All \ Open
    /\ OpenInput
    /\ pc' = "rebuild"
    /\ UNCHANGED <<up, plain, buf, out, result, count>>

(* trimShards: every buffer gets the length n; what a longer one shows     *)
(* beyond what was read is left from earlier reads.                        *)
trimShards(g, i, n) ==
    [k \in 1 .. n |-> IF k <= g[i] THEN Dst(g, i)[k] ELSE Bad]

(* The code computes missing cells from the first dataShards present ones. *)
Basis(g) == {i \in Used(g) : Cardinality({j \in Used(g) : j < i}) < dataShards}

Rebuild(cells) ==
    IF Cardinality(cells) = 1 /\ cells \cap {Bad, Rebuilt} = {}
      THEN Min(cells) ELSE Rebuilt

RebuiltBlock(g) ==
    LET n     == shardSize(g)
        basis == {trimShards(g, i, n) : i \in Basis(g)}
    IN [k \in 1 .. n |-> Rebuild({b[k] : b \in basis})]

(* The missing shards are those without a reader, and all of those have a  *)
(* writer.                                                                 *)
ReconstructRound ==
    /\ pc = "rebuild"
    /\ readShards(Got) = "ok"
    /\ Cardinality(Used(Got)) >= dataShards
    /\ LET block == RebuiltBlock(Got) IN
          buf' = [i \in All |-> IF i \in fill THEN block ELSE <<>>]
    /\ Advance(Got, [i \in All |-> shardSize(Got)])
    /\ pc' = IF fill = {} THEN "rebuild" ELSE "write"
    /\ UNCHANGED <<up, plain, fill, out, result, count>>

(* ErrShardSize, ErrShardNoData or ErrTooFewShards.                        *)
ReconstructFails ==
    /\ pc = "rebuild"
    /\ \/ readShards(Got) = "ErrShardSize"
       \/ readShards(Got) = "EOF" /\ read = 0
       \/ readShards(Got) = "ok" /\ Cardinality(Used(Got)) < dataShards
    /\ End("failed")
    /\ UNCHANGED <<up, plain, stream, fill, buf, out, count>>

(* writeShards, one writer after the other.                                *)
WriteShard ==
    /\ pc = "write"
    /\ LET left == {i \in All : buf[i] # <<>>}
           i    == Min(left)
       IN /\ plain' = [plain EXCEPT ![i] = @ \o buf[i]]
          /\ buf'   = [buf EXCEPT ![i] = <<>>]
          /\ pc'    = IF left = {i} THEN "rebuild" ELSE "write"
    /\ UNCHANGED <<up, stream, fill, out, result, count>>

(* Mutant: what was rebuilt is not verified.                               *)
Reconstructed_NoVerify ==
    /\ pc = "rebuild"
    /\ readShards(Got) = "EOF" /\ read > 0
    /\ fill' = {}
    /\ pc' = "join"
    /\ UNCHANGED <<up, plain, stream, buf, out, result, count>>

Reconstructed ==
    /\ pc = "rebuild"
    /\ readShards(Got) = "EOF" /\ read > 0
    /\ fill' = {}
    /\ OpenInput
    /\ pc' = "verifyAgain"
    /\ UNCHANGED <<up, plain, buf, out, result, count>>

(* Mutant: the shards are rebuilt until they are right.                    *)
NotVerifiedAgain_Loops ==
    /\ pc = "verifyAgain"
    /\ Verify(Got) \in {"error", "invalid"}
    /\ fill' = All \ Open
    /\ OpenInput
    /\ pc' = "rebuild"
    /\ UNCHANGED <<up, plain, buf, out, result, count>>

(* DoDecode returns Verify's err, which is nil when it is not the reader's.*)
NotVerifiedAgain ==
    /\ pc = "verifyAgain"
    /\ \/ Verify(Got) = "error"   /\ End("failed")
       \/ Verify(Got) = "invalid" /\ End("hollow")
    /\ UNCHANGED <<up, plain, stream, fill, buf, out, count>>

(* Join gets dataShards times the size of the last shard that openInput    *)
(* found.                                                                  *)
JoinSize == dataShards * Len(plain[Max(Open)])
Joined   == FlattenSeq([i \in Data |->
                [k \in 1 .. Len(plain[i]) |-> <<i, plain[i][k]>>]])

Join ==
    /\ pc = "join"
    /\ LET joined == Joined
           enough == Data \subseteq Open /\ Len(joined) >= JoinSize
       IN \/ /\ enough
             /\ out' = SubSeq(joined, 1, JoinSize)
             /\ pc'  = "decrypt"
             /\ UNCHANGED result
          \/ /\ ~enough
             /\ End("failed")
             /\ UNCHANGED out
    /\ UNCHANGED <<up, plain, stream, fill, buf, count>>

Zero(c) == c[2] > 0 /\ (c[1] - 1) * PerShard + c[2] > size + Overhead

(* When the end is not all zeros, the file is cut to the padding's size.   *)
trimPadding(f) ==
    CASE padding = 0 \/ Len(f) <= padding -> f
      [] OTHER ->
            IF \A k \in Len(f) - padding + 1 .. Len(f) : Zero(f[k])
              THEN SubSeq(f, 1, Len(f) - padding)
              ELSE SubSeq(f, 1, padding)

(* The encrypted file that Split was given.                                *)
Cipher == [k \in 1 .. size + Overhead |->
              <<((k - 1) \div PerShard) + 1, ((k - 1) % PerShard) + 1>>]

(* trimPadding, then the decryption, which takes nothing else.             *)
Decrypt ==
    /\ pc = "decrypt"
    /\ out' = trimPadding(out)
    /\ End(IF out' = Cipher THEN "restored" ELSE "failed")
    /\ UNCHANGED <<up, plain, stream, fill, buf, count>>

Kill ==
    /\ pc \in Decoding
    /\ kills < MaxKills
    /\ kills' = kills + 1
    /\ pc'   = "dead"
    /\ fill' = {}
    /\ buf'  = Nothing
    /\ UNCHANGED <<up, plain, stream, out, result, retries, lost, hurt>>

-----------------------------------------------------------------------------

Decode ==
    \/ VerifyRound \/ Verified \/ NotVerified
    \/ ReconstructRound \/ ReconstructFails \/ WriteShard \/ Reconstructed
    \/ NotVerifiedAgain \/ Join \/ Decrypt

Next ==
    \/ calculateShardsNum \/ DoEncode \/ Retry
    \/ \E i \in All :
          \/ Lose(i)
          \/ \E n \in 1 .. PerShard : Cut(i, n) \/ Damage(i, n)
    \/ Download \/ Decode \/ Kill

Spec == Init /\ [][Next]_vars

(* DoDecode runs on unless it is killed.                                   *)
FairSpec == Spec /\ WF_vars(Decode)

-----------------------------------------------------------------------------
(* Properties.                                                             *)

Cells == Nat \cup {Rebuilt}

TypeOK ==
    /\ pc \in Decoding \cup {"calc", "encode", "stored", "dead", "end"}
    /\ size \in Sizes
    /\ dataShards \in Nat /\ parShards \in Nat /\ padding \in Nat
    /\ result \in {"none", "restored", "failed", "hollow"}
    /\ pc \notin {"calc", "encode"} =>
          /\ remote \in [All -> Seq(Cells)]
          /\ fill \subseteq All
    /\ pc \in Decoding =>
          /\ plain \in [All -> Seq(Cells)]
          /\ pos \in [All -> Nat] /\ lens \in [All -> 0 .. Block]
          /\ read \in Nat
          /\ \A i \in All : pos[i] <= Len(plain[i])

(* Whatever the size of the file and however often the upload is run again *)
(* in one process, DoEncode ends with numbers of shards that NewStream     *)
(* takes, and with parity to spare.                                        *)
ShardLimit ==
    pc # "calc" =>
        /\ dataShards + parShards <= MaxShards
        /\ dataShards > 0 /\ parShards > 0

(* A download restores the file from any dataShards shards that are whole, *)
(* also after downloads that died between two blocks or two shards: cutting*)
(* and joining, padding and trimming, rebuilding and verifying all undo    *)
(* each other, for every size.                                             *)
IntactRestores ==
    result # "none" /\ hurt = 0 /\ lost <= parShards => result = "restored"

(* Verify lets no set of shards through to Join in which a shard was       *)
(* rebuilt from damaged cells while more than dataShards were present.     *)
RebuiltRight ==
    /\ pc = "join"
    /\ Cardinality({i \in All : remote[i] # <<>>}) > dataShards
    => \A i \in All : \A k \in 1 .. Len(plain[i]) : plain[i][k] # Rebuilt

(* Whatever happened to the shards, a download that is not killed ends.    *)
DecodeEnds == pc \in Decoding ~> pc \in {"end", "dead"}

=============================================================================
