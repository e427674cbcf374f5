----------------------------- MODULE CodecProofs -----------------------------
(***************************************************************************)
(* Four theorems about the erasure codec.                                  *)
(*                                                                         *)
(* DoEncode always asks NewStream for a number of shards that it accepts.  *)
(* The flags keep their values from one call to the next, so the invariant *)
(* speaks of what every call can find in them: the number for small files, *)
(* or a multiple of the step the loop takes.                               *)
(*                                                                         *)
(* The streams keep their types: no reader comes beyond the end of its     *)
(* shard, however the shards were cut and the buffers trimmed.             *)
(*                                                                         *)
(* Join gets no shard that was rebuilt from damaged cells while a shard    *)
(* more than the data shards was fetched.  For that, Verify has to look at *)
(* every cell Reconstruct wrote; both stop early, and the invariant says   *)
(* where.                                                                  *)
(*                                                                         *)
(* A download restores the file from any dataShards shards that are whole. *)
(* The readers of whole shards keep pace, so every block is rebuilt from   *)
(* the right cells of its rows (BlockRight), the rebuilt shards are whole  *)
(* when the readers come to an end, Join puts the cells in the order in    *)
(* which Split took them (FlattenIs), and trimPadding takes off what Split *)
(* added and nothing else (TrimmedIs).                                     *)
(***************************************************************************)
EXTENDS ErasureCodec, FiniteSetTheorems, SequenceTheorems,
        WellFoundedInduction, TLAPS

Multiple(d) == \E k \in Nat \ {0} : d = k * DataStep

(* What the flags can hold at any time.                                    *)
FlagsOK ==
    /\ size \in Nat
    /\ dataShards \in Nat
    /\ dataShards = SmallData \/ (Multiple(dataShards) /\ dataShards <= StartData)

Counted == FlagsOK /\ ShardLimit

(* The constants are numbers.                                              *)
LEMMA Constants ==
    /\ MinSize \in Nat \ {0}
    /\ SmallData \in Nat /\ 2 <= SmallData /\ SmallData <= DataStep
    /\ SmallParity \in Nat \ {0}
    /\ SmallData + SmallParity <= MaxShards
    /\ DataStep \in Nat \ {0}
    /\ StartData \in Nat /\ Multiple(StartData)
    /\ MaxShards \in Nat
    /\ StartData + (StartData \div 2) <= MaxShards
    /\ Sizes \subseteq Nat
  BY CodecAssumption DEF Multiple

(* A multiple of the step is at least the step, and one that is larger     *)
(* stays a multiple when the loop takes the step off.                      *)
LEMMA Multiples ==
    ASSUME NEW d \in Nat, Multiple(d)
    PROVE  /\ d >= DataStep
           /\ d > DataStep => Multiple(d - DataStep) /\ d - DataStep \in Nat
  <1>1. PICK k \in Nat \ {0} : d = k * DataStep
    BY DEF Multiple
  <1>2. DataStep \in Nat \ {0}
    BY Constants
  <1>3. d >= DataStep
    BY <1>1, <1>2, SMT
  <1>4. ASSUME d > DataStep
        PROVE  Multiple(d - DataStep) /\ d - DataStep \in Nat
    <2>1. k - 1 \in Nat \ {0}
      BY <1>1, <1>2, <1>4, SMT
    <2>2. d - DataStep = (k - 1) * DataStep
      BY <1>1, <1>2, SMT
    <2> QED
      BY <1>2, <1>4, <2>1, <2>2, SMT DEF Multiple
  <1> QED
    BY <1>3, <1>4

(* Whatever call it was, there are at least two data shards, and with half *)
(* as many parity shards they are not too many.                            *)
LEMMA Enough ==
    ASSUME FlagsOK
    PROVE  /\ dataShards >= 2
           /\ dataShards \div 2 > 0
           /\ dataShards + (dataShards \div 2) <= MaxShards
  <1>1. dataShards >= 2 /\ dataShards <= StartData
    <2>1. StartData >= DataStep
      BY Constants, Multiples
    <2>2. CASE dataShards = SmallData
      BY <2>1, <2>2, Constants
    <2>3. CASE Multiple(dataShards) /\ dataShards <= StartData
      BY <2>3, Constants, Multiples DEF FlagsOK
    <2> QED
      BY <2>2, <2>3 DEF FlagsOK
  <1> QED
    BY <1>1, Constants DEF FlagsOK

(* The flags at the start are those of the defaults.                       *)
LEMMA CountedInit == Init => Counted
  BY Constants DEF Init, Counted, FlagsOK, ShardLimit

(* Every call leaves flags that the next one can start from.               *)
LEMMA CountedStep == Counted /\ [Next]_vars => Counted'
  <1> SUFFICES ASSUME Counted, [Next]_vars PROVE Counted'
    OBVIOUS
  <1>1. CASE calculateShardsNum
    <2>1. CASE size < MinSize /\ Flags(SmallData, SmallParity, "encode")
      BY <2>1, Constants DEF Counted, FlagsOK, ShardLimit, Flags
    <2>2. CASE /\ dataShards > DataStep
               /\ Flags(dataShards - DataStep, parShards, "calc")
      <3>1. Multiple(dataShards) /\ dataShards <= StartData
        BY <2>2, Constants DEF Counted, FlagsOK
      <3>2. Multiple(dataShards - DataStep) /\ dataShards - DataStep \in Nat
        BY <2>2, <3>1, Multiples DEF Counted, FlagsOK
      <3>3. dataShards - DataStep <= StartData
        BY <3>1, Constants DEF Counted, FlagsOK
      <3> QED
        BY <2>2, <3>2, <3>3 DEF Counted, FlagsOK, ShardLimit, Flags, Multiple
    <2>3. CASE Flags(dataShards, dataShards \div 2, "encode")
      BY <2>3, Enough DEF Counted, FlagsOK, ShardLimit, Flags, Multiple
    <2> QED
      BY <1>1, <2>1, <2>2, <2>3 DEF calculateShardsNum
  <1>2. CASE Retry
    BY <1>2, Constants DEF Retry, Counted, FlagsOK, ShardLimit, Multiple
  <1>3. ASSUME pc # "calc", pc' # "calc",
               UNCHANGED <<size, dataShards, parShards>>
        PROVE  Counted'
    BY <1>3 DEF Counted, FlagsOK, ShardLimit, Multiple
  <1>4. CASE UNCHANGED vars
    BY <1>4 DEF vars, up, Counted, FlagsOK, ShardLimit, Multiple
  <1>5. CASE DoEncode
    BY <1>3, <1>5 DEF DoEncode
  <1>6. ASSUME NEW i \in All, Lose(i)
        PROVE  Counted'
    BY <1>3, <1>6 DEF Lose, OnRemote
  <1>7. ASSUME NEW i \in All, NEW n \in 1 .. PerShard, Cut(i, n) \/ Damage(i, n)
        PROVE  Counted'
    BY <1>3, <1>7 DEF Cut, Damage, OnRemote
  <1>8. CASE Download \/ Kill
    BY <1>3, <1>8 DEF Download, Kill, Decoding, up
  <1>9. CASE Decode
    BY <1>3, <1>9 DEF Decode, VerifyRound, Verified, NotVerified,
       ReconstructRound, ReconstructFails, WriteShard, Reconstructed,
       NotVerifiedAgain, Join, Decrypt, End, up
  <1> QED
    BY <1>1, <1>2, <1>4, <1>5, <1>6, <1>7, <1>8, <1>9 DEF Next

(* NewStream accepts the numbers of shards of every upload, for every file *)
(* size, every default of the flags and every number of retries, and there *)
(* is always parity.                                                       *)
THEOREM ShardsAccepted == Spec => []ShardLimit
  <1>1. Counted => ShardLimit
    BY DEF Counted
  <1> QED
    BY <1>1, CountedInit, CountedStep, PTL DEF Spec

-----------------------------------------------------------------------------
(* Types.                                                                  *)

StreamType ==
    /\ plain \in [All -> Seq(Cells)]
    /\ pos \in [All -> Nat] /\ lens \in [All -> 0 .. Block]
    /\ read \in Nat
    /\ \A i \in All : pos[i] <= Len(plain[i])

(* The shards that are not on the remotes.                                 *)
Missing == {i \in All : remote[i] = <<>>}

BaseType ==
    /\ pc \in Decoding \cup {"calc", "encode", "stored", "dead", "end"}
    /\ size \in Sizes
    /\ parShards \in Nat /\ padding \in Nat
    /\ result \in {"none", "restored", "failed", "hollow"}

ShardType ==
    /\ pc \notin {"calc", "encode"} => remote \in [All -> Seq(Nat)]
    /\ pc \notin {"rebuild", "write", "end"} => fill = {}
    /\ fill \subseteq All \/ pc \in {"calc", "encode"}

(* The block that is written, while it is.                                 *)
BufType ==
    pc = "write" =>
        /\ buf \in [All -> Seq(Cells)]
        /\ \E i \in All : buf[i] # <<>>

Typed ==
    /\ Counted /\ BaseType /\ ShardType /\ BufType
    /\ pc \in Decoding => StreamType

(* A set of numbers has a least one.                                       *)
LEMMA MinIs ==
    ASSUME NEW S \in SUBSET Nat, S # {}
    PROVE  Min(S) \in S /\ \A y \in S : Min(S) <= y
<1>1. PICK x \in S : \A y \in S : ~(<<y, x>> \in OpToRel(<, Nat))
  BY WFMin, NatLessThanWellFounded
<1>2. ASSUME NEW y \in S PROVE x <= y
  <2>1. x \in Nat /\ y \in Nat /\ ~(y < x)
    BY <1>1 DEF OpToRel
  <2>2. QED
    BY <2>1
<1>3. QED
  BY <1>2 DEF Min

(* A block has cells.                                                      *)
LEMMA BlockIs == Block \in Nat \ {0} /\ Overhead \in Nat
BY CodecAssumption

(* The shards are few.                                                     *)
LEMMA AllIs ==
    ASSUME dataShards \in Nat, parShards \in Nat
    PROVE  /\ All \subseteq Nat \ {0}
           /\ \A S \in SUBSET All : IsFiniteSet(S) /\ Cardinality(S) \in Nat
<1>1. IsFiniteSet(All)
  BY FS_Interval DEF All
<1>2. ASSUME NEW S \in SUBSET All
      PROVE  IsFiniteSet(S) /\ Cardinality(S) \in Nat
  <2>1. IsFiniteSet(S)
    BY <1>1, FS_Subset
  <2>2. QED
    BY <2>1, FS_CardinalityType
<1>3. QED
  BY <1>2 DEF All

(* A shard has a reader or a writer, never both.                           *)
LEMMA OpenIs == Open \subseteq All /\ \A i \in Open : i \notin fill
BY DEF Open

(* What the readers give.                                                  *)
LEMMA GotIs ==
    ASSUME StreamType
    PROVE  /\ Got \in [All -> 0 .. Block]
           /\ \A i \in All : /\ i \notin Open => Got[i] = 0
                             /\ pos[i] + Got[i] \in Nat
                             /\ pos[i] + Got[i] <= Len(plain[i])
                             /\ Got[i] <= lens[i]
           /\ \A i \in Open : \/ Got[i] = lens[i]
                              \/ pos[i] + Got[i] = Len(plain[i])
<1>1. ASSUME NEW i \in All
      PROVE  /\ Got[i] \in 0 .. Block
             /\ i \notin Open => Got[i] = 0
             /\ pos[i] + Got[i] \in Nat
             /\ pos[i] + Got[i] <= Len(plain[i])
             /\ Got[i] <= lens[i]
             /\ i \in Open => \/ Got[i] = lens[i]
                              \/ pos[i] + Got[i] = Len(plain[i])
  <2>1. /\ Len(plain[i]) \in Nat /\ pos[i] \in Nat /\ lens[i] \in 0 .. Block
        /\ pos[i] <= Len(plain[i])
    BY DEF StreamType
  <2>2. CASE i \notin Open
    BY <2>1, <2>2, BlockIs DEF Got
  <2>3. CASE i \in Open
    <3>1. Got[i] = Min({lens[i], Len(plain[i]) - pos[i]})
      BY <2>3 DEF Got
    <3>2. {lens[i], Len(plain[i]) - pos[i]} \in SUBSET Nat
      BY <2>1, BlockIs
    <3>3. /\ Got[i] \in {lens[i], Len(plain[i]) - pos[i]}
          /\ Got[i] <= lens[i] /\ Got[i] <= Len(plain[i]) - pos[i]
      BY <3>1, <3>2, MinIs
    <3>4. PICK l \in 0 .. Block, n \in Nat, q \in Nat :
             l = lens[i] /\ n = Len(plain[i]) /\ q = pos[i] /\ q <= n
      BY <2>1
    <3>5. PICK g \in Nat : /\ g = Got[i] /\ g <= l /\ g <= n - q
                           /\ g = l \/ g = n - q
      BY <3>2, <3>3, <3>4
    <3>6. /\ g \in 0 .. Block /\ q + g \in Nat /\ q + g <= n
          /\ g = l \/ q + g = n
      <4>1. g <= l /\ g <= n - q /\ (g = l \/ g = n - q) /\ Block \in Nat
        BY <3>5, BlockIs
      <4>2. QED
        BY <4>1
    <3>7. QED
      BY <2>3, <3>4, <3>5, <3>6
  <2>4. QED
    BY <2>2, <2>3
<1>2. Got \in [All -> 0 .. Block]
  <2>1. Got = [i \in All |-> Got[i]]
    BY DEF Got
  <2>2. QED
    BY <1>1, <2>1
<1>3. QED
  BY <1>1, <1>2, OpenIs

(* The length of the first buffer that is not empty.                       *)
LEMMA SizeIs ==
    ASSUME StreamType, dataShards \in Nat, parShards \in Nat
    PROVE  /\ shardSize(Got) \in 0 .. Block
           /\ Used(Got) # {} => shardSize(Got) > 0
           /\ shardSize(Got) # 0 => \E i \in Open : shardSize(Got) = Got[i]
           /\ Used(Got) \subseteq Open
<1>1. Used(Got) \subseteq All /\ Used(Got) \in SUBSET Nat
  BY AllIs DEF Used
<1>2. Used(Got) \subseteq Open
  BY <1>1, GotIs DEF Used
<1>3. CASE Used(Got) = {}
  BY <1>2, <1>3, BlockIs DEF shardSize
<1>4. CASE Used(Got) # {}
  <2>1. Min(Used(Got)) \in Used(Got)
    BY <1>1, <1>4, MinIs
  <2>2. shardSize(Got) = Got[Min(Used(Got))]
    BY <1>4 DEF shardSize
  <2>3. QED
    BY <1>1, <1>2, <2>1, <2>2, GotIs DEF Used
<1>5. QED
  BY <1>3, <1>4

(* readShards: readers that give less than a buffer takes agree.           *)
LEMMA ReadIs ==
    ASSUME StreamType
    PROVE  /\ readShards(Got) = "ok" =>
                 \A i, j \in Open :
                    Got[i] < lens[i] /\ Got[j] < lens[j] =>
                        Got[i] = Got[j] /\ Got[i] # 0
           /\ readShards(Got) = "EOF" =>
                 \E i \in Open : Got[i] = 0 /\ pos[i] = Len(plain[i])
<1> DEFINE short == Short(Got)
<1>1. short \in SUBSET (0 .. Block)
  BY GotIs, OpenIs DEF Short
<1>2. IsFiniteSet(short) /\ Cardinality(short) \in Nat
  <2>1. IsFiniteSet(0 .. Block)
    BY BlockIs, FS_Interval
  <2>2. IsFiniteSet(short)
    BY <1>1, <2>1, FS_Subset
  <2>3. QED
    BY <2>2, FS_CardinalityType
<1>3. ASSUME NEW i \in Open, NEW j \in Open, Got[i] < lens[i], Got[j] < lens[j],
             readShards(Got) = "ok"
      PROVE  Got[i] = Got[j] /\ Got[i] # 0
  <2>1. Got[i] \in short /\ Got[j] \in short
    BY <1>3 DEF Short
  <2>2. ~(Cardinality(short) > 1) /\ short # {0}
    BY <1>3 DEF readShards
  <2>3. Cardinality(short) # 0
    BY <1>2, <2>1, FS_EmptySet
  <2>4. Cardinality(short) = 1
    BY <1>2, <2>2, <2>3
  <2>5. \E x : short = {x}
    BY <1>2, <2>4, FS_Singleton
  <2>6. QED
    BY <2>1, <2>2, <2>5
<1>4. ASSUME readShards(Got) = "EOF"
      PROVE  \E i \in Open : Got[i] = 0 /\ pos[i] = Len(plain[i])
  <2>1. short = {0}
    BY <1>4 DEF readShards
  <2>2. PICK i \in Open : Got[i] = 0 /\ Got[i] < lens[i]
    BY <2>1 DEF Short
  <2>3. i \in All /\ pos[i] + Got[i] = Len(plain[i])
    BY <2>2, GotIs, OpenIs
  <2>4. pos[i] \in Nat
    BY <2>3 DEF StreamType
  <2>5. QED
    BY <2>2, <2>3, <2>4
<1>5. QED
  BY <1>3, <1>4

-----------------------------------------------------------------------------

(* How many cells the shards have.                                         *)
LEMMA PerShardIs ==
    ASSUME FlagsOK, size \in Sizes
    PROVE  PerShard \in Nat /\ Split \in Nat
<1> DEFINE n == size + Overhead
<1>1. n \in Nat /\ dataShards \in Nat /\ dataShards >= 2
  BY Constants, Enough, BlockIs DEF FlagsOK
<1>2. PICK d \in Nat \ {0} : d = dataShards
  BY <1>1
<1>3. PICK m \in Nat : m = n + d - 1
  BY <1>1, <1>2
<1>4. /\ m \div d \in Nat /\ m % d \in 0 .. (d - 1)
      /\ m = d * (m \div d) + (m % d)
  OBVIOUS
<1>5. PICK q \in Nat, e \in 0 .. (d - 1) : m = d * q + e /\ q = m \div d
  BY <1>4
<1>6. d * q \in Nat /\ d * q - n = (d - 1) - e
  BY <1>1, <1>3, <1>5
<1>7. PerShard = q
  BY <1>2, <1>3, <1>5 DEF PerShard
<1>8. Split = d * q - n
  BY <1>2, <1>7 DEF Split
<1>9. QED
  BY <1>6, <1>7, <1>8

(* What a block that is rebuilt is made of.                                *)
LEMMA BlockType ==
    ASSUME StreamType, dataShards \in Nat, parShards \in Nat
    PROVE  /\ RebuiltBlock(Got) \in Seq(Cells)
           /\ Len(RebuiltBlock(Got)) = shardSize(Got)
<1> DEFINE n == shardSize(Got)
           basis == {trimShards(Got, i, n) : i \in Basis(Got)}
<1>1. n \in Nat
  BY SizeIs, BlockIs
<1>2. ASSUME NEW k \in 1 .. n PROVE Rebuild({b[k] : b \in basis}) \in Cells
  <2>1. ASSUME NEW b \in basis PROVE b[k] \in Cells
    <3>1. PICK i \in Basis(Got) : b = trimShards(Got, i, n)
      OBVIOUS
    <3>2. b[k] = IF k <= Got[i] THEN Dst(Got, i)[k] ELSE Bad
      BY <3>1 DEF trimShards
    <3>3. i \in All
      BY DEF Basis, Used
    <3>4. CASE k <= Got[i]
      <4>1. /\ plain[i] \in Seq(Cells) /\ pos[i] \in Nat /\ Got[i] \in Nat
            /\ pos[i] + Got[i] <= Len(plain[i]) /\ k \in Nat \ {0}
        BY <1>1, <3>3, GotIs, BlockIs DEF StreamType
      <4>2. PICK p \in Nat, g \in Nat, s \in Seq(Cells) :
               /\ p = pos[i] /\ g = Got[i] /\ s = plain[i]
               /\ p + g <= Len(s) /\ k <= g
        BY <3>4, <4>1
      <4>3. SubSeq(s, p + 1, p + g)[k] = s[p + k]
        <5>1. /\ p + 1 \in Int /\ p + g \in Int /\ Len(s) \in Nat
              /\ (p + g) - (p + 1) + 1 = g /\ (p + 1) + k - 1 = p + k
          BY <4>1, <4>2
        <5>2. \A i1 \in p + 1 .. p + g : s[i1] \in Cells
          BY <4>2, <5>1
        <5>3. k \in 1 .. (p + g) - (p + 1) + 1
          <6>1. k \in 1 .. g
            BY <4>1, <4>2
          <6>2. QED
            BY <5>1, <6>1
        <5>4. SubSeq(s, p + 1, p + g)[k] = s[(p + 1) + k - 1]
          BY <5>1, <5>2, <5>3, SubSeqProperties
        <5>5. QED
          BY <5>1, <5>4
      <4>4. p + k \in 1 .. Len(s)
        BY <4>1, <4>2
      <4>5. Dst(Got, i)[k] \in Cells
        <5>1. Dst(Got, i) = SubSeq(s, p + 1, p + g)
          BY <4>2 DEF Dst
        <5>2. s[p + k] \in Cells
          BY <4>4
        <5>3. QED
          BY <4>3, <5>1, <5>2
      <4>6. QED
        BY <3>2, <3>4, <4>5
    <3>5. CASE ~(k <= Got[i])
      BY <3>2, <3>5 DEF Bad, Cells
    <3>6. QED
      BY <3>4, <3>5
  <2>2. PICK S : S = {b[k] : b \in basis} /\ S \subseteq Cells
    BY <2>1
  <2>3. CASE Cardinality(S) = 1 /\ S \cap {Bad, Rebuilt} = {}
    <3>1. S # {}
      BY <2>3, FS_EmptySet
    <3>2. S \in SUBSET Nat
      BY <2>2, <2>3 DEF Cells
    <3>3. Min(S) \in Nat
      BY <3>1, <3>2, MinIs
    <3>4. QED
      BY <2>2, <2>3, <3>3 DEF Rebuild, Cells
  <2>4. CASE ~(Cardinality(S) = 1 /\ S \cap {Bad, Rebuilt} = {})
    BY <2>2, <2>4 DEF Rebuild, Cells
  <2>5. QED
    BY <2>3, <2>4
<1>3. RebuiltBlock(Got) = [k \in 1 .. n |-> Rebuild({b[k] : b \in basis})]
  BY DEF RebuiltBlock
<1>4. RebuiltBlock(Got) \in [1 .. n -> Cells]
  BY <1>2, <1>3
<1> HIDE DEF n, basis
<1>5. RebuiltBlock(Got) \in Seq(Cells) /\ Len(RebuiltBlock(Got)) = n
  BY <1>1, <1>4
<1>6. QED
  BY <1>5 DEF n

(* The shards are the same as long as their numbers are.                   *)
LEMMA AllSame ==
    ASSUME UNCHANGED <<dataShards, parShards>> PROVE All' = All
BY DEF All

(* A step of the download that keeps the types of its streams.             *)
LEMMA TypedStream ==
    ASSUME Typed, UNCHANGED up, StreamType' \/ pc' \notin Decoding, BaseType',
           pc \notin {"calc", "encode"}, pc' \notin {"calc", "encode", "write"},
           fill' \subseteq All,
           pc' \notin {"rebuild", "end"} => fill' = {}
    PROVE  ShardType' /\ BufType' /\ (pc' \in Decoding => StreamType')
BY AllSame DEF up, Typed, ShardType, BufType

(* The sizes are numbers.                                                  *)
LEMMA NumbersAre ==
    ASSUME Typed PROVE dataShards \in Nat /\ parShards \in Nat /\ size \in Nat
BY DEF Typed, Counted, FlagsOK, BaseType

(* Encoding, and what happens to the shards on the remotes.                *)
LEMMA TypedStored ==
    ASSUME Typed, Counted',
           \/ calculateShardsNum \/ DoEncode \/ Retry
           \/ \E i \in All :
                 \/ Lose(i)
                 \/ \E n \in 1 .. PerShard : Cut(i, n) \/ Damage(i, n)
    PROVE  Typed'
<1> USE DEF Decoding
<1>0. BaseType /\ ShardType /\ dataShards \in Nat /\ parShards \in Nat
  BY NumbersAre DEF Typed
<1>1. CASE calculateShardsNum
  <2>1. /\ pc = "calc" /\ pc' \in {"calc", "encode"}
        /\ UNCHANGED <<size, padding, fill, result>>
    BY <1>1 DEF calculateShardsNum, Flags
  <2>2. parShards' \in {SmallParity, parShards, dataShards \div 2}
    BY <1>1 DEF calculateShardsNum, Flags
  <2>3. dataShards \div 2 \in Nat
    BY <1>0
  <2>4. parShards' \in Nat
    BY <1>0, <2>2, <2>3, Constants
  <2>5. QED
    BY <1>0, <2>1, <2>4 DEF Typed, BaseType, ShardType, BufType
<1>2. CASE DoEncode
  <2>1. /\ pc = "encode" /\ pc' = "stored" /\ padding' = Split
        /\ remote' = [i \in All |-> Whole] /\ All' = All
        /\ UNCHANGED <<size, parShards, fill, result>>
    BY <1>2, AllSame DEF DoEncode
  <2>2. PerShard \in Nat /\ Split \in Nat
    BY <1>0, PerShardIs DEF Typed, Counted, BaseType
  <2>3. Whole \in Seq(Nat)
    BY <2>2 DEF Whole
  <2>4. QED
    BY <1>0, <2>1, <2>2, <2>3 DEF Typed, BaseType, ShardType, BufType
<1>3. CASE Retry
  BY <1>0, <1>3 DEF Retry, Typed, BaseType, ShardType, BufType
<1>4. ASSUME NEW i \in All, NEW s \in Seq(Nat), pc = "stored",
             OnRemote([remote EXCEPT ![i] = s])
      PROVE  Typed'
  <2>1. /\ pc' = "stored" /\ UNCHANGED <<size, parShards, padding, fill, result>>
        /\ All' = All /\ remote' = [remote EXCEPT ![i] = s]
    BY <1>4, AllSame DEF OnRemote
  <2>2. remote' \in [All -> Seq(Nat)]
    BY <1>0, <1>4, <2>1 DEF ShardType
  <2>3. QED
    BY <1>0, <1>4, <2>1, <2>2 DEF Typed, BaseType, ShardType, BufType
<1>5. ASSUME NEW i \in All, Lose(i) PROVE Typed'
  <2>1. <<>> \in Seq(Nat)
    OBVIOUS
  <2>2. pc = "stored" /\ OnRemote([remote EXCEPT ![i] = <<>>])
    BY <1>5 DEF Lose
  <2>3. QED
    BY <1>4, <2>1, <2>2
<1>6. ASSUME NEW i \in All, pc = "stored" PROVE remote[i] \in Seq(Nat)
  BY <1>0, <1>6 DEF ShardType
<1>7. ASSUME NEW i \in All, NEW n \in 1 .. PerShard, Cut(i, n) PROVE Typed'
  <2>1. /\ pc = "stored" /\ n \in 1 .. Len(remote[i]) - 1
        /\ OnRemote([remote EXCEPT ![i] = SubSeq(remote[i], 1, n)])
    BY <1>7 DEF Cut
  <2>2. SubSeq(remote[i], 1, n) \in Seq(Nat)
    <3>1. remote[i] \in Seq(Nat) /\ n \in Int
      BY <1>6, <2>1
    <3>2. \A k \in 1 .. n : remote[i][k] \in Nat
      BY <2>1, <3>1
    <3>3. QED
      BY <3>1, <3>2, SubSeqProperties
  <2>3. QED
    BY <1>4, <2>1, <2>2
<1>8. ASSUME NEW i \in All, NEW n \in 1 .. PerShard, Damage(i, n) PROVE Typed'
  <2>1. /\ pc = "stored" /\ n \in 1 .. Len(remote[i])
        /\ OnRemote([remote EXCEPT ![i] = [remote[i] EXCEPT ![n] = Bad]])
    BY <1>8 DEF Damage
  <2>2. [remote[i] EXCEPT ![n] = Bad] \in Seq(Nat)
    BY <1>6, <2>1 DEF Bad
  <2>3. QED
    BY <1>4, <2>1, <2>2
<1>9. QED
  BY <1>1, <1>2, <1>3, <1>5, <1>7, <1>8

(* What a download fetches is what the remotes hold, and nothing else is   *)
(* left in the directory.                                                  *)
LEMMA Fetches ==
    ASSUME Typed, Download PROVE plain' = remote
<1>1. /\ pc \in {"stored", "dead"}
      /\ plain' = [i \in All |-> IF remote[i] # <<>> THEN remote[i]
                                 ELSE DumpDownloadShards[i]]
  BY DEF Download
<1>2. remote \in [All -> Seq(Nat)]
  BY <1>1 DEF Typed, ShardType
<1>3. \A i \in All : remote[i] = <<>> => DumpDownloadShards[i] = remote[i]
  BY DEF DumpDownloadShards
<1>4. \A i \in All : plain'[i] = remote[i]
  BY <1>1, <1>3
<1>5. QED
  BY <1>1, <1>2, <1>4

(* A new start of the streams.                                             *)
LEMMA OpenInputType ==
    ASSUME plain' \in [All -> Seq(Cells)], All' = All, OpenInput
    PROVE  StreamType'
<1>1. /\ pos' = [i \in All |-> 0] /\ lens' = [i \in All |-> Block]
      /\ read' = 0
  BY DEF OpenInput
<1>2. pos' \in [All -> Nat] /\ lens' \in [All -> 0 .. Block]
  BY <1>1, BlockIs
<1>3. \A i \in All : pos'[i] <= Len(plain'[i])
  <2>1. ASSUME NEW i \in All PROVE pos'[i] <= Len(plain'[i])
    <3>1. Len(plain'[i]) \in Nat /\ pos'[i] = 0
      BY <1>1
    <3>2. QED
      BY <3>1
  <2>2. QED
    BY <2>1
<1>4. QED
  BY <1>1, <1>2, <1>3 DEF StreamType, Cells, Rebuilt

(* One round of the loops.                                                 *)
LEMMA AdvanceType ==
    ASSUME StreamType, UNCHANGED <<plain, dataShards, parShards>>,
           dataShards \in Nat, parShards \in Nat,
           NEW l \in [All -> 0 .. Block], Advance(Got, l)
    PROVE  StreamType'
<1>1. /\ pos' = [i \in All |-> pos[i] + Got[i]] /\ lens' = l
      /\ read' = read + shardSize(Got) /\ All' = All
  BY AllSame DEF Advance
<1>2. pos' \in [All -> Nat] /\ \A i \in All : pos'[i] <= Len(plain[i])
  BY <1>1, GotIs
<1>3. read' \in Nat
  BY <1>1, SizeIs, BlockIs DEF StreamType
<1>4. QED
  BY <1>1, <1>2, <1>3 DEF StreamType, Cells, Rebuilt

(* The loops, up to the first writer.                                      *)
LEMMA TypedLoops ==
    ASSUME Typed, Counted',
           \/ Download \/ VerifyRound \/ Verified \/ NotVerified
           \/ Reconstructed \/ ReconstructFails \/ NotVerifiedAgain
           \/ Join \/ Decrypt \/ Kill
    PROVE  Typed'
<1> USE DEF Decoding
<1>0. /\ BaseType /\ ShardType /\ dataShards \in Nat /\ parShards \in Nat
      /\ pc \in Decoding => StreamType
  BY NumbersAre DEF Typed
<1>1. CASE Download
  <2>1. /\ pc \in {"stored", "dead"} /\ pc' = "verify" /\ OpenInput
        /\ UNCHANGED <<up, fill, result>> /\ plain' = remote
    BY <1>1, Fetches DEF Download
  <2>2. All' = All /\ UNCHANGED <<size, parShards, padding>>
    BY <2>1, AllSame DEF up
  <2>3. plain' \in [All -> Seq(Cells)]
    BY <1>0, <2>1 DEF ShardType, Cells
  <2>4. StreamType'
    BY <2>1, <2>2, <2>3, OpenInputType
  <2>5. BaseType' /\ fill' = {}
    BY <1>0, <2>1, <2>2 DEF BaseType, ShardType
  <2>6. QED
    BY <2>1, <2>4, <2>5, TypedStream DEF Typed
<1>2. CASE VerifyRound
  <2>1. /\ pc \in {"verify", "verifyAgain"} /\ Advance(Got, Got)
        /\ UNCHANGED <<pc, up, plain, fill, result>>
    BY <1>2 DEF VerifyRound
  <2>2. UNCHANGED <<dataShards, parShards, size, padding>>
    BY <2>1 DEF up
  <2>3. StreamType'
    BY <1>0, <2>1, <2>2, GotIs, AdvanceType
  <2>4. BaseType' /\ fill' = {}
    BY <1>0, <2>1, <2>2 DEF BaseType, ShardType
  <2>5. QED
    BY <2>1, <2>3, <2>4, TypedStream DEF Typed
<1>3. CASE Verified
  <2>1. /\ pc \in {"verify", "verifyAgain"} /\ pc' = "join"
        /\ UNCHANGED <<up, plain, stream, fill, result>>
    BY <1>3 DEF Verified
  <2>2. UNCHANGED <<dataShards, parShards, size, padding, pos, lens, read>>
    BY <2>1 DEF up, stream
  <2>3. StreamType' /\ BaseType' /\ fill' = {}
    BY <1>0, <2>1, <2>2, AllSame
       DEF BaseType, ShardType, StreamType, Cells, Rebuilt
  <2>4. QED
    BY <2>1, <2>3, TypedStream DEF Typed
<1>4. CASE NotVerified \/ Reconstructed
  <2>1. /\ pc \in {"verify", "rebuild"} /\ OpenInput
        /\ \/ pc' = "rebuild" /\ fill' = All \ Open
           \/ pc' = "verifyAgain" /\ fill' = {}
        /\ UNCHANGED <<up, plain, result>>
    BY <1>4 DEF NotVerified, Reconstructed
  <2>2. All' = All /\ UNCHANGED <<size, parShards, padding>>
    BY <2>1, AllSame DEF up
  <2>3. StreamType'
    BY <1>0, <2>1, <2>2, OpenInputType DEF StreamType
  <2>4. BaseType' /\ fill' \subseteq All
    BY <1>0, <2>1, <2>2 DEF BaseType
  <2>5. QED
    BY <2>1, <2>3, <2>4, TypedStream DEF Typed
<1>5. CASE Join
  <2>1. /\ pc = "join" /\ UNCHANGED <<up, plain, stream, fill>>
        /\ \/ pc' = "decrypt" /\ result' = result
           \/ pc' = "end" /\ result' = "failed"
    BY <1>5 DEF Join, End
  <2>2. UNCHANGED <<dataShards, parShards, size, padding, pos, lens, read>>
    BY <2>1 DEF up, stream
  <2>3. StreamType' /\ BaseType' /\ fill' = {}
    BY <1>0, <2>1, <2>2, AllSame
       DEF BaseType, ShardType, StreamType, Cells, Rebuilt
  <2>4. QED
    BY <2>1, <2>3, TypedStream DEF Typed
<1>6. CASE ReconstructFails \/ NotVerifiedAgain \/ Decrypt \/ Kill
  <2>1. /\ pc \in Decoding /\ pc' \in {"end", "dead"} /\ UNCHANGED up
        /\ \/ fill' = fill /\ pc' = "end" /\ result' \in {"failed", "hollow", "restored"}
           \/ fill' = {} /\ result' = result
    BY <1>6 DEF ReconstructFails, NotVerifiedAgain, Decrypt, Kill, End
  <2>2. UNCHANGED <<size, parShards, padding>>
    BY <2>1 DEF up
  <2>3. BaseType' /\ fill' \subseteq All
    BY <1>0, <2>1, <2>2 DEF BaseType, ShardType
  <2>4. QED
    BY <2>1, <2>3, TypedStream DEF Typed
<1>7. QED
  BY <1>1, <1>2, <1>3, <1>4, <1>5, <1>6

(* A round of Reconstruct keeps the types.                                 *)
LEMMA TypedRebuild ==
    ASSUME Typed, Counted', ReconstructRound PROVE Typed'
<1>1. /\ pc = "rebuild" /\ Cardinality(Used(Got)) >= dataShards
      /\ buf' = [i \in All |-> IF i \in fill THEN RebuiltBlock(Got) ELSE <<>>]
      /\ Advance(Got, [i \in All |-> shardSize(Got)])
      /\ pc' = IF fill = {} THEN "rebuild" ELSE "write"
      /\ UNCHANGED <<up, plain, fill, result>>
  BY DEF ReconstructRound
<1>2. UNCHANGED <<dataShards, parShards, size, padding, remote>>
  BY <1>1 DEF up
<1>3. /\ StreamType /\ BaseType /\ ShardType /\ All' = All
      /\ dataShards \in Nat /\ parShards \in Nat /\ dataShards >= 2
  BY <1>1, <1>2, AllSame, NumbersAre, Enough DEF Typed, Decoding, Counted
<1>4. [i \in All |-> shardSize(Got)] \in [All -> 0 .. Block]
  BY <1>3, SizeIs
<1>5. StreamType'
  BY <1>1, <1>2, <1>3, <1>4, AdvanceType
<1>6. Used(Got) # {}
  <2>1. Cardinality({}) = 0
    BY FS_EmptySet
  <2>2. ASSUME Used(Got) = {} PROVE FALSE
    <3>1. Cardinality(Used(Got)) = 0
      BY <2>1, <2>2
    <3>2. QED
      BY <1>1, <1>3, <3>1
  <2>3. QED
    BY <2>2
<1>7. BufType'
  <2>1. /\ RebuiltBlock(Got) \in Seq(Cells)
        /\ Len(RebuiltBlock(Got)) = shardSize(Got) /\ shardSize(Got) > 0
    BY <1>3, <1>6, BlockType, SizeIs
  <2>2. RebuiltBlock(Got) # <<>> /\ <<>> \in Seq(Cells)
    BY <2>1
  <2>3. buf' \in [All -> Seq(Cells)]
    BY <1>1, <2>1, <2>2
  <2>4. fill # {} => \E i \in All : buf'[i] # <<>>
    BY <1>1, <1>3, <2>2 DEF ShardType
  <2>5. QED
    BY <1>1, <1>3, <2>3, <2>4 DEF BufType, Cells, Rebuilt
<1>8. BaseType' /\ ShardType'
  BY <1>1, <1>2, <1>3 DEF BaseType, ShardType, Decoding
<1>9. QED
  BY <1>5, <1>7, <1>8 DEF Typed

(* A block that is appended to its shard keeps the types.                  *)
LEMMA TypedWrite ==
    ASSUME Typed, Counted', WriteShard PROVE Typed'
<1> DEFINE left == {i \in All : buf[i] # <<>>}
           w    == Min(left)
<1>1. /\ pc = "write" /\ plain' = [plain EXCEPT ![w] = @ \o buf[w]]
      /\ buf' = [buf EXCEPT ![w] = <<>>]
      /\ pc' = IF left = {w} THEN "rebuild" ELSE "write"
      /\ UNCHANGED <<up, stream, fill, result>>
  BY DEF WriteShard
<1>2. UNCHANGED <<dataShards, parShards, size, padding, remote, pos, lens, read>>
  BY <1>1 DEF up, stream
<1>3. /\ StreamType /\ BaseType /\ ShardType /\ All' = All
      /\ dataShards \in Nat /\ parShards \in Nat
      /\ buf \in [All -> Seq(Cells)] /\ left # {}
  BY <1>1, <1>2, AllSame, NumbersAre DEF Typed, Decoding, BufType
<1>4. w \in left /\ w \in All
  <2>1. left \in SUBSET Nat
    BY <1>3, AllIs
  <2>2. QED
    BY <1>3, <2>1, MinIs
<1> HIDE DEF w
<1>5. StreamType'
  <2>1. /\ plain[w] \in Seq(Cells) /\ buf[w] \in Seq(Cells)
        /\ plain \in [All -> Seq(Cells)]
    BY <1>3, <1>4 DEF StreamType
  <2>2. /\ plain[w] \o buf[w] \in Seq(Cells)
        /\ Len(plain[w] \o buf[w]) = Len(plain[w]) + Len(buf[w])
        /\ Len(plain[w]) \in Nat /\ Len(buf[w]) \in Nat
    BY <2>1
  <2>3. plain' \in [All -> Seq(Cells)]
    BY <1>1, <2>1, <2>2
  <2>4. ASSUME NEW i \in All PROVE pos[i] <= Len(plain'[i])
    <3>1. pos[i] \in Nat /\ pos[i] <= Len(plain[i])
      BY <1>3 DEF StreamType
    <3>2. CASE i = w
      <4>1. Len(plain'[w]) = Len(plain[w]) + Len(buf[w])
        BY <1>1, <1>4, <2>1, <2>2
      <4>2. PICK x \in Nat, y \in Nat, p \in Nat :
               /\ x = Len(plain[w]) /\ y = Len(buf[w]) /\ p = pos[i]
               /\ p <= x /\ Len(plain'[i]) = x + y
        BY <2>2, <3>1, <3>2, <4>1
      <4>3. p <= x
        BY <4>2
      <4>4. p <= x + y
        BY <4>3
      <4>5. QED
        BY <4>2, <4>4
    <3>3. CASE i # w
      BY <1>1, <2>1, <3>1, <3>3
    <3>4. QED
      BY <3>2, <3>3
  <2>5. QED
    BY <1>2, <1>3, <2>3, <2>4 DEF StreamType, Cells, Rebuilt
<1>6. BufType'
  <2>1. buf' \in [All -> Seq(Cells)]
    <3>1. <<>> \in Seq(Cells)
      OBVIOUS
    <3>2. QED
      BY <1>1, <1>3, <3>1
  <2>2. ASSUME left # {w} PROVE \E i \in All : buf'[i] # <<>>
    <3>1. PICK i \in left : i # w
      BY <1>3, <2>2
    <3>2. QED
      BY <1>1, <1>3, <3>1
  <2>3. QED
    BY <1>1, <1>3, <2>1, <2>2 DEF BufType, Cells, Rebuilt
<1>7. BaseType' /\ ShardType'
  BY <1>1, <1>2, <1>3 DEF BaseType, ShardType, Decoding
<1>8. QED
  BY <1>5, <1>6, <1>7 DEF Typed

(* Every step keeps the types.                                             *)
LEMMA TypedStep == Typed /\ [Next]_vars => Typed'
<1> SUFFICES ASSUME Typed, [Next]_vars PROVE Typed'
  OBVIOUS
<1>1. Counted'
  BY CountedStep DEF Typed
<1>2. CASE UNCHANGED vars
  <2>1. UNCHANGED <<pc, size, dataShards, parShards, padding, remote, plain, pos,
                    lens, read, fill, buf, result>>
    BY <1>2 DEF vars, up, stream
  <2>2. BaseType' /\ ShardType' /\ BufType'
    BY <2>1, AllSame
       DEF Typed, BaseType, ShardType, BufType, Decoding, Cells, Rebuilt
  <2>3. pc' \in Decoding => StreamType'
    BY <2>1, AllSame DEF Typed, StreamType, Decoding, Cells, Rebuilt
  <2>4. QED
    BY <1>1, <2>2, <2>3 DEF Typed
<1>3. QED
  BY <1>1, <1>2, TypedStored, TypedLoops, TypedRebuild, TypedWrite
     DEF Next, Decode

(* The types hold at the start.                                            *)
LEMMA TypedInit == Init => Typed
<1> SUFFICES ASSUME Init PROVE Typed
  OBVIOUS
<1>1. Counted
  BY CountedInit
<1>2. StartData \div 2 \in Nat
  BY Constants
<1>3. QED
  BY <1>1, <1>2 DEF Init, Typed, BaseType, ShardType, BufType, Decoding

(* So they hold in every reachable state.                                  *)
LEMMA TypedHolds == Spec => []Typed
BY TypedInit, TypedStep, PTL DEF Spec

(* Types: in particular, no reader is ever beyond the end of its shard,    *)
(* however shards were cut and buffers trimmed.                            *)
THEOREM TypeCorrect == Spec => []TypeOK
<1>1. Typed => TypeOK
  BY NumbersAre DEF Typed, TypeOK, BaseType, ShardType, StreamType, Cells
<1>2. QED
  BY <1>1, TypedHolds, PTL

-----------------------------------------------------------------------------
(* Rebuilt cells.  The loops of Reconstruct and of the Verify after it     *)
(* stop at the first shard that ends where a block begins, so Verify sees  *)
(* every cell that was written.                                            *)

Row(k) == [i \in All |-> plain[i][k]]

RowsRight ==
    \A k \in 1 .. read : Codeword(Row(k)) /\ \A i \in All : k <= Len(plain[i])

(* A shard that ends where a block does.                                   *)
Aligned(i) == \E k \in Nat : Len(plain[i]) = k * Block

Looping   == {"rebuild", "write"}
Verifying == {"verify", "verifyAgain"}

FetchInv ==
    /\ pc \in Decoding =>
          \A i \in All : remote[i] # <<>> => plain[i] = remote[i]
    /\ pc = "verify" => plain = remote
    /\ pc \in Looping => fill = Missing

(* How long the rebuilt shards are.                                        *)
LengthInv ==
    /\ pc = "rebuild" => \A i \in Missing : Len(plain[i]) = read
    /\ pc = "write" => /\ \A i \in Missing : Len(plain[i]) + Len(buf[i]) = read
                       /\ \A i \in All : remote[i] # <<>> => buf[i] = <<>>
    /\ pc \in Verifying =>
          \A i \in Missing, j \in All :
              Aligned(j) => Len(plain[i]) <= Len(plain[j])

(* Reconstruct has read whole blocks of every shard it was given, or has   *)
(* come to the end of one.                                                 *)
WholeBlocks ==
    /\ \E k \in Nat : read = k * Block
    /\ \A i \in All : remote[i] # <<>> => pos[i] = read /\ lens[i] = Block

AtEnd ==
    /\ \E i \in All : /\ remote[i] # <<>>
                      /\ pos[i] = Len(plain[i]) /\ lens[i] > 0
    /\ \A i \in All : remote[i] # <<>> /\ Aligned(i) => read <= Len(plain[i])

RebuildInv == pc \in Looping => WholeBlocks \/ AtEnd

VerifyInv ==
    pc \in Verifying =>
        /\ \A i \in All : pos[i] = read
        /\ RowsRight
        /\ \/ /\ \E k \in Nat : read = k * Block
              /\ \A i \in All : lens[i] = Block
           \/ \A i \in All : Len(plain[i]) = read

JoinInv ==
    pc = "join" => RowsRight /\ \A i \in Missing : Len(plain[i]) <= read

CellInv == FetchInv /\ LengthInv /\ RebuildInv /\ VerifyInv /\ JoinInv

(* Multiples of the block are a block apart.                               *)
LEMMA Apart ==
    ASSUME NEW b \in Nat \ {0}, NEW k \in Nat, NEW m \in Nat, m * b < k * b
    PROVE  m * b + b <= k * b
<1>1. ASSUME k <= m PROVE FALSE
  <2>1. k * b <= m * b
    BY <1>1
  <2>2. k * b \in Nat /\ m * b \in Nat
    OBVIOUS
  <2>3. QED
    BY <2>1, <2>2
<1>2. m + 1 <= k
  BY <1>1
<1>3. (m + 1) * b <= k * b
  BY <1>2
<1>4. (m + 1) * b = m * b + b
  OBVIOUS
<1>5. QED
  BY <1>3, <1>4

(* After a whole block comes the next multiple of it.                      *)
LEMMA NextMultiple ==
    ASSUME NEW n \in Nat, \E k \in Nat : n = k * Block
    PROVE  \E k \in Nat : n + Block = k * Block
<1>1. PICK k \in Nat : n = k * Block
  OBVIOUS
<1>2. n + Block = (k + 1) * Block /\ k + 1 \in Nat
  BY <1>1, BlockIs
<1>3. QED
  BY <1>2

(* When Verify goes on, and when it is content.                            *)
LEMMA VerifyIs ==
    /\ Verify(Got) = "more" =>
          /\ readShards(Got) = "ok" /\ shardSize(Got) # 0
          /\ \A i \in All : Got[i] = shardSize(Got)
          /\ \A k \in 1 .. shardSize(Got) :
                Codeword([i \in All |-> plain[i][pos[i] + k]])
    /\ Verify(Got) = "valid" => readShards(Got) = "EOF"
<1> DEFINE n == shardSize(Got)
           good == \A k \in 1 .. n : Codeword([i \in All |-> plain[i][pos[i] + k]])
<1>1. readShards(Got) \in {"ErrShardSize", "EOF", "ok"}
  BY DEF readShards
<1>2. CASE readShards(Got) = "ErrShardSize"
  BY <1>2 DEF Verify
<1>3. CASE readShards(Got) = "EOF"
  BY <1>3 DEF Verify
<1>4. CASE readShards(Got) = "ok"
  <2>1. CASE n = 0 \/ \E i \in All : Got[i] # n
    BY <1>4, <2>1 DEF Verify
  <2>2. CASE ~(n = 0 \/ \E i \in All : Got[i] # n)
    <3>1. CASE good
      BY <1>4, <2>2, <3>1 DEF Verify
    <3>2. CASE ~good
      BY <1>4, <2>2, <3>2 DEF Verify
    <3>3. QED
      BY <3>1, <3>2
  <2>3. QED
    BY <2>1, <2>2
<1>5. QED
  BY <1>1, <1>2, <1>3, <1>4

(* Outside of a download, nothing is claimed.                              *)
LEMMA CellsOut ==
    ASSUME pc' \notin Decoding PROVE CellInv'
BY DEF Decoding, CellInv, FetchInv, LengthInv, RebuildInv, VerifyInv, JoinInv,
   Looping, Verifying

(* What is said of files stays true while they are left alone.             *)
LEMMA FilesKept ==
    ASSUME UNCHANGED <<up, plain>>
    PROVE  /\ All' = All /\ Missing' = Missing
           /\ UNCHANGED <<dataShards, parShards, remote>>
           /\ \A i : Aligned(i)' <=> Aligned(i)
           /\ \A k : Row(k)' = Row(k)
           /\ \A row : Codeword(row)' <=> Codeword(row)
<1>1. UNCHANGED <<dataShards, parShards, remote>> /\ All' = All
  BY AllSame DEF up
<1>2. QED
  BY <1>1 DEF Missing, Aligned, Row, Codeword, Rebuilt

(* A new Verify, of shards whose lengths fit.                              *)
LEMMA VerifyStarts ==
    ASSUME pc' \in Verifying, OpenInput, All' = All, FetchInv',
           \A i \in Missing', j \in All :
               Aligned(j)' => Len(plain'[i]) <= Len(plain'[j])
    PROVE  CellInv'
<1>1. /\ pos' = [i \in All |-> 0] /\ lens' = [i \in All |-> Block] /\ read' = 0
  BY DEF OpenInput
<1>2. RowsRight'
  BY <1>1 DEF RowsRight
<1>3. 0 = 0 * Block /\ 0 \in Nat
  BY BlockIs
<1>4. VerifyInv'
  BY <1>1, <1>2, <1>3 DEF VerifyInv
<1>5. QED
  BY <1>4
     DEF CellInv, LengthInv, RebuildInv, JoinInv, Verifying, Looping

(* A download starts with what it fetched.                                 *)
LEMMA CellsFetched ==
    ASSUME Typed, Download PROVE CellInv'
<1>1. /\ pc' = "verify" /\ OpenInput /\ plain' = remote /\ UNCHANGED up
      /\ pc \in {"stored", "dead"}
  BY Fetches DEF Download
<1>2. /\ UNCHANGED <<remote, dataShards, parShards>> /\ All' = All
      /\ remote \in [All -> Seq(Nat)]
  BY <1>1, AllSame DEF up, Typed, ShardType
<1>3. FetchInv'
  BY <1>1, <1>2 DEF FetchInv, Looping
<1>4. ASSUME NEW i \in Missing', NEW j \in All
      PROVE  Len(plain'[i]) <= Len(plain'[j])
  <2>1. plain'[i] = <<>> /\ Len(plain'[j]) \in Nat
    BY <1>1, <1>2 DEF Missing
  <2>2. QED
    BY <2>1
<1>5. QED
  BY <1>1, <1>2, <1>3, <1>4, VerifyStarts DEF Verifying

(* A round of Verify.                                                      *)
LEMMA CellsVerified ==
    ASSUME Typed, CellInv, VerifyRound PROVE CellInv'
<1>1. /\ pc \in Verifying /\ Verify(Got) = "more" /\ Advance(Got, Got)
      /\ UNCHANGED <<pc, up, plain, fill>>
  BY DEF VerifyRound, Verifying
<1>2. /\ StreamType /\ dataShards \in Nat /\ parShards \in Nat
      /\ All # {}
  <2>1. dataShards >= 2
    BY Enough DEF Typed, Counted
  <2>2. 1 \in All
    BY <2>1, NumbersAre DEF All
  <2>3. QED
    BY <1>1, <2>2, NumbersAre DEF Typed, Decoding, Verifying
<1>3. PICK n \in 1 .. Block :
         /\ n = shardSize(Got) /\ \A i \in All : Got[i] = n
         /\ \A k \in 1 .. n : Codeword([i \in All |-> plain[i][pos[i] + k]])
  <2>1. shardSize(Got) \in 0 .. Block /\ shardSize(Got) # 0
    BY <1>1, <1>2, SizeIs, VerifyIs
  <2>2. shardSize(Got) \in 1 .. Block
    BY <2>1, BlockIs
  <2>3. QED
    BY <1>1, <2>2, VerifyIs
<1>4. /\ \A i \in All : pos[i] = read /\ i \in Open
      /\ RowsRight /\ read \in Nat /\ n \in Nat \ {0} /\ Block \in Nat
  <2>1. ASSUME NEW i \in All PROVE i \in Open
    <3>1. Got[i] # 0
      BY <1>3
    <3>2. QED
      BY <1>2, <3>1, GotIs
  <2>2. QED
    BY <1>1, <1>2, <1>3, <2>1, BlockIs DEF CellInv, VerifyInv, StreamType
<1>5. /\ read' = read + n /\ \A i \in All : pos'[i] = read + n /\ lens'[i] = n
  BY <1>1, <1>3, <1>4 DEF Advance
<1>6. /\ All' = All /\ Missing' = Missing /\ remote' = remote
      /\ \A i : Aligned(i)' <=> Aligned(i)
      /\ \A k : Row(k)' = Row(k)
      /\ \A row : Codeword(row)' <=> Codeword(row)
  BY <1>1, FilesKept
<1>7. RowsRight'
  <2>1. ASSUME NEW k \in 1 .. read + n
        PROVE  Codeword(Row(k)) /\ \A i \in All : k <= Len(plain[i])
    <3>1. CASE k <= read
      BY <1>4, <3>1 DEF RowsRight
    <3>2. CASE k > read
      <4>1. PICK m \in 1 .. n : k = read + m
        <5>1. k - read \in 1 .. n /\ k = read + (k - read)
          BY <1>4, <3>2
        <5>2. QED
          BY <5>1
      <4>2. Row(k) = [i \in All |-> plain[i][pos[i] + m]]
        BY <1>4, <4>1 DEF Row
      <4>3. ASSUME NEW i \in All PROVE k <= Len(plain[i])
        <5>1. read + n <= Len(plain[i]) /\ Len(plain[i]) \in Nat
          BY <1>2, <1>3, <1>4, GotIs DEF StreamType
        <5>2. QED
          BY <1>4, <5>1
      <4>4. QED
        BY <1>3, <4>2, <4>3
    <3>3. QED
      BY <1>4, <3>1, <3>2
  <2>2. QED
    BY <1>1, <1>5, <1>6, <2>1 DEF RowsRight
<1>8. \/ /\ \E k \in Nat : read' = k * Block
         /\ \A i \in All : lens'[i] = Block
      \/ \A i \in All : Len(plain[i]) = read'
  <2>1. CASE \A i \in All : Len(plain[i]) = read
    <3>1. PICK i \in All : TRUE
      BY <1>2
    <3>2. pos[i] + Got[i] <= Len(plain[i])
      BY <1>2, GotIs
    <3>3. read + n <= read
      BY <1>3, <1>4, <2>1, <3>2
    <3>4. QED
      BY <1>4, <3>3
  <2>2. CASE /\ \E k \in Nat : read = k * Block
             /\ \A i \in All : lens[i] = Block
    <3>1. CASE n = Block
      BY <1>4, <1>5, <2>2, <3>1, NextMultiple
    <3>2. CASE n # Block
      <4>1. ASSUME NEW i \in All PROVE Len(plain[i]) = read + n
        BY <1>2, <1>3, <1>4, <2>2, <3>2, GotIs
      <4>2. QED
        BY <1>5, <4>1
    <3>3. QED
      BY <3>1, <3>2
  <2>3. QED
    BY <1>1, <2>1, <2>2 DEF CellInv, VerifyInv
<1>9. VerifyInv'
  BY <1>1, <1>5, <1>6, <1>7, <1>8 DEF VerifyInv
<1>10. FetchInv' /\ LengthInv'
  BY <1>1, <1>6 DEF CellInv, FetchInv, LengthInv, Verifying, Looping, Decoding
<1>11. QED
  BY <1>1, <1>9, <1>10 DEF CellInv, RebuildInv, JoinInv, Verifying, Looping

(* Verify is content: it has seen every cell that was rebuilt.             *)
LEMMA CellsValid ==
    ASSUME Typed, CellInv, Verified PROVE CellInv'
<1>1. /\ pc \in Verifying /\ Verify(Got) = "valid" /\ pc' = "join"
      /\ UNCHANGED <<up, plain, stream, fill>>
  BY DEF Verified, Verifying
<1>2. StreamType /\ read' = read
  BY <1>1 DEF Typed, Decoding, Verifying, stream
<1>3. PICK j \in All : pos[j] = Len(plain[j])
  BY <1>1, <1>2, VerifyIs, ReadIs, OpenIs
<1>4. pos[j] = read /\ RowsRight
  BY <1>1 DEF CellInv, VerifyInv
<1>5. ASSUME NEW i \in Missing PROVE Len(plain[i]) <= read
  <2>1. CASE \E k \in Nat : read = k * Block
    <3>1. Aligned(j)
      BY <1>3, <1>4, <2>1 DEF Aligned
    <3>2. QED
      BY <1>1, <1>3, <1>4, <3>1 DEF CellInv, LengthInv
  <2>2. CASE \A i1 \in All : Len(plain[i1]) = read
    BY <1>2, <2>2 DEF Missing, StreamType
  <2>3. QED
    BY <1>1, <2>1, <2>2 DEF CellInv, VerifyInv
<1>6. /\ All' = All /\ Missing' = Missing /\ remote' = remote
      /\ \A k : Row(k)' = Row(k)
      /\ \A row : Codeword(row)' <=> Codeword(row)
  BY <1>1, FilesKept
<1>7. JoinInv'
  BY <1>1, <1>2, <1>4, <1>5, <1>6 DEF JoinInv, RowsRight
<1>8. FetchInv'
  BY <1>1, <1>6 DEF CellInv, FetchInv, Verifying, Looping, Decoding
<1>9. QED
  BY <1>1, <1>7, <1>8
     DEF CellInv, LengthInv, RebuildInv, VerifyInv, Verifying, Looping

(* The readers of Reconstruct are those of the shards that were fetched.   *)
LEMMA OpenLooping ==
    ASSUME FetchInv, pc = "rebuild"
    PROVE  \A i \in All : i \in Open <=> remote[i] # <<>>
BY DEF FetchInv, Open, Missing, Looping, Decoding

(* Reconstruct starts at the first block.                                  *)
LEMMA CellsInvalid ==
    ASSUME Typed, CellInv, NotVerified PROVE CellInv'
<1>1. /\ pc = "verify" /\ pc' = "rebuild" /\ fill' = All \ Open /\ OpenInput
      /\ UNCHANGED <<up, plain>>
  BY DEF NotVerified
<1>2. plain = remote /\ fill = {} /\ remote \in [All -> Seq(Nat)]
  BY <1>1 DEF CellInv, FetchInv, Typed, ShardType
<1>3. All' = All /\ Missing' = Missing /\ remote' = remote
  BY <1>1, FilesKept
<1>4. fill' = Missing
  BY <1>1, <1>2 DEF Open, Missing
<1>5. /\ pos' = [i \in All |-> 0] /\ lens' = [i \in All |-> Block] /\ read' = 0
  BY <1>1 DEF OpenInput
<1>6. FetchInv'
  BY <1>1, <1>2, <1>3, <1>4 DEF FetchInv
<1>7. \A i \in Missing : Len(plain[i]) = 0
  BY <1>2 DEF Missing
<1>8. WholeBlocks'
  <2>1. 0 = 0 * Block /\ 0 \in Nat
    BY BlockIs
  <2>2. QED
    BY <1>3, <1>5, <2>1 DEF WholeBlocks
<1>9. QED
  BY <1>1, <1>3, <1>5, <1>6, <1>7, <1>8
     DEF CellInv, LengthInv, RebuildInv, VerifyInv, JoinInv, Verifying, Looping

(* A round of Reconstruct.                                                 *)
LEMMA CellsRebuilt ==
    ASSUME Typed, CellInv, ReconstructRound PROVE CellInv'
<1>1. /\ pc = "rebuild" /\ Cardinality(Used(Got)) >= dataShards
      /\ readShards(Got) = "ok"
      /\ buf' = [i \in All |-> IF i \in fill THEN RebuiltBlock(Got) ELSE <<>>]
      /\ Advance(Got, [i \in All |-> shardSize(Got)])
      /\ pc' = IF fill = {} THEN "rebuild" ELSE "write"
      /\ UNCHANGED <<up, plain, fill>>
  BY DEF ReconstructRound
<1>2. /\ StreamType /\ dataShards \in Nat /\ parShards \in Nat
      /\ dataShards >= 2 /\ FetchInv /\ fill = Missing
      /\ (WholeBlocks \/ AtEnd)
  BY <1>1, NumbersAre, Enough
     DEF Typed, Decoding, Counted, CellInv, FetchInv, RebuildInv, Looping
<1>3. All' = All /\ Missing' = Missing /\ remote' = remote
      /\ \A i : Aligned(i)' <=> Aligned(i)
  BY <1>1, FilesKept
<1>4. \A i \in All : i \in Open <=> remote[i] # <<>>
  BY <1>1, <1>2, OpenLooping
<1>5. Used(Got) # {}
  <2>1. Cardinality({}) = 0
    BY FS_EmptySet
  <2>2. ASSUME Used(Got) = {} PROVE FALSE
    <3>1. Cardinality(Used(Got)) = 0
      BY <2>1, <2>2
    <3>2. QED
      BY <1>1, <1>2, <3>1
  <2>3. QED
    BY <2>2
<1>6. PICK n \in 1 .. Block : n = shardSize(Got)
  <2>1. shardSize(Got) \in 0 .. Block /\ shardSize(Got) > 0
    BY <1>2, <1>5, SizeIs
  <2>2. QED
    BY <2>1, BlockIs
<1>7. /\ read' = read + n /\ read \in Nat /\ n \in Nat \ {0} /\ Block \in Nat
      /\ \A i \in All : pos'[i] = pos[i] + Got[i] /\ lens'[i] = n
  BY <1>1, <1>2, <1>6, BlockIs DEF Advance, StreamType
<1>8. ASSUME NEW i \in All, NEW j \in All, remote[i] # <<>>, remote[j] # <<>>,
             Got[i] < lens[i], Got[j] < lens[j]
      PROVE  Got[i] = Got[j] /\ Got[i] # 0
  BY <1>1, <1>2, <1>4, <1>8, ReadIs
<1>9. WholeBlocks
  <2>1. ASSUME NEW i \in All, remote[i] # <<>>, pos[i] = Len(plain[i]),
               lens[i] > 0
        PROVE  FALSE
    <3>1. /\ pos[i] + Got[i] <= Len(plain[i]) /\ pos[i] \in Nat
          /\ Got[i] \in 0 .. Block
      BY <1>2, GotIs DEF StreamType
    <3>2. Got[i] = 0
      BY <2>1, <3>1
    <3>3. QED
      BY <1>8, <2>1, <3>2
  <2>2. QED
    BY <1>2, <2>1 DEF AtEnd
<1>10. \A i \in All : remote[i] # <<>> => pos[i] = read /\ lens[i] = Block
  BY <1>9 DEF WholeBlocks
<1>11. FetchInv'
  BY <1>1, <1>2, <1>3 DEF FetchInv, Looping, Decoding
<1>12. LengthInv'
  <2>1. /\ RebuiltBlock(Got) \in Seq(Cells) /\ Len(RebuiltBlock(Got)) = n
        /\ \A i \in Missing : Len(plain[i]) = read
    BY <1>1, <1>2, <1>6, BlockType DEF CellInv, LengthInv
  <2>2. CASE fill = {}
    BY <1>1, <1>2, <1>3, <2>2 DEF LengthInv, Verifying
  <2>3. CASE fill # {}
    <3>1. pc' = "write"
      BY <1>1, <2>3
    <3>2. ASSUME NEW i \in Missing PROVE Len(plain'[i]) + Len(buf'[i]) = read'
      <4>1. buf'[i] = RebuiltBlock(Got)
        BY <1>1, <1>2 DEF Missing
      <4>2. QED
        BY <1>1, <1>7, <2>1, <4>1
    <3>3. \A i \in All : remote[i] # <<>> => buf'[i] = <<>>
      BY <1>1, <1>2 DEF Missing
    <3>4. QED
      BY <1>3, <3>1, <3>2, <3>3 DEF LengthInv, Verifying
  <2>4. QED
    BY <2>2, <2>3
<1>13. ASSUME \A i \in All : remote[i] # <<>> => Got[i] = Block
       PROVE  WholeBlocks'
  <2>1. n = Block
    <3>1. PICK u \in Open : shardSize(Got) = Got[u]
      BY <1>2, <1>6, <1>7, SizeIs
    <3>2. QED
      BY <1>4, <1>6, <1>13, <3>1, OpenIs
  <2>2. \E k \in Nat : read + Block = k * Block
    BY <1>7, <1>9, NextMultiple DEF WholeBlocks
  <2>3. QED
    BY <1>3, <1>7, <1>10, <1>13, <2>1, <2>2 DEF WholeBlocks
<1>14. ASSUME NEW j \in All, remote[j] # <<>>, Got[j] # Block
       PROVE  AtEnd'
  <2>1. pos'[j] = Len(plain'[j]) /\ lens'[j] > 0
    <3>1. j \in Open /\ lens[j] = Block
      BY <1>4, <1>10, <1>14
    <3>2. pos[j] + Got[j] = Len(plain[j])
      BY <1>2, <1>14, <3>1, GotIs
    <3>3. n > 0
      BY <1>7
    <3>4. QED
      BY <1>1, <1>7, <1>14, <3>2, <3>3
  <2>2. ASSUME NEW i \in All, remote[i] # <<>>, Aligned(i)
        PROVE  read + n <= Len(plain[i])
    <3>1. /\ Got[i] \in 0 .. Block /\ read + Got[i] <= Len(plain[i])
          /\ Got[i] = Block \/ read + Got[i] = Len(plain[i])
          /\ Got[i] # Block => Got[i] # 0
      <4>1. i \in Open /\ pos[i] = read /\ lens[i] = Block
        BY <1>4, <1>10, <2>2
      <4>2. Got[i] # Block => Got[i] < lens[i]
        BY <1>2, <4>1, GotIs, BlockIs
      <4>3. QED
        BY <1>2, <1>8, <2>2, <4>1, <4>2, GotIs
    <3>2. PICK k \in Nat, m \in Nat, l \in Nat, g \in 0 .. Block, r \in Nat :
             /\ g = Got[i] /\ r = read /\ r = m * Block
             /\ l = Len(plain[i]) /\ l = k * Block
      <4>1. PICK k \in Nat : Len(plain[i]) = k * Block
        BY <2>2 DEF Aligned
      <4>2. PICK m \in Nat : read = m * Block
        BY <1>9 DEF WholeBlocks
      <4>3. Len(plain[i]) \in Nat
        BY <1>2 DEF StreamType
      <4>4. QED
        BY <1>7, <3>1, <4>1, <4>2, <4>3
    <3>3. /\ r + g <= l /\ (g = Block \/ (r + g = l /\ g # 0))
          /\ Block \in Nat \ {0}
      BY <3>1, <3>2, BlockIs
    <3>4. r < l
      BY <3>3
    <3>5. r + Block <= l
      BY <3>2, <3>3, <3>4, Apart
    <3>6. r + n <= l
      BY <3>3, <3>5
    <3>7. QED
      BY <3>2, <3>6
  <2>3. QED
    BY <1>1, <1>3, <1>7, <1>14, <2>1, <2>2 DEF AtEnd
<1>15. RebuildInv'
  BY <1>13, <1>14 DEF RebuildInv
<1>16. QED
  BY <1>1, <1>11, <1>12, <1>15 DEF CellInv, VerifyInv, JoinInv, Verifying

(* A rebuilt block goes to a shard that was not fetched.                   *)
LEMMA CellsWritten ==
    ASSUME Typed, CellInv, WriteShard PROVE CellInv'
<1> DEFINE left == {i \in All : buf[i] # <<>>}
           w    == Min(left)
<1>1. /\ pc = "write" /\ plain' = [plain EXCEPT ![w] = @ \o buf[w]]
      /\ buf' = [buf EXCEPT ![w] = <<>>]
      /\ pc' = IF left = {w} THEN "rebuild" ELSE "write"
      /\ UNCHANGED <<up, stream, fill>>
  BY DEF WriteShard
<1>2. UNCHANGED <<dataShards, parShards, remote, pos, lens, read>>
  BY <1>1 DEF up, stream
<1>3. /\ StreamType /\ dataShards \in Nat /\ parShards \in Nat
      /\ buf \in [All -> Seq(Cells)] /\ left # {}
      /\ FetchInv /\ LengthInv /\ (WholeBlocks \/ AtEnd)
  BY <1>1, NumbersAre
     DEF Typed, Decoding, BufType, CellInv, RebuildInv, Looping
<1>4. w \in left /\ w \in All
  <2>1. left \in SUBSET Nat
    BY <1>3, AllIs
  <2>2. QED
    BY <1>3, <2>1, MinIs
<1> HIDE DEF w
<1>5. All' = All /\ Missing' = Missing
  BY <1>2, AllSame DEF Missing
<1>6. /\ w \in Missing /\ \A i \in All : remote[i] # <<>> => buf[i] = <<>>
      /\ \A i \in Missing : Len(plain[i]) + Len(buf[i]) = read
  BY <1>1, <1>3, <1>4 DEF LengthInv, Missing
<1>7. \A i \in All : i # w => plain'[i] = plain[i] /\ buf'[i] = buf[i]
  BY <1>1, <1>3 DEF StreamType
<1>8. \A i \in All : remote[i] # <<>> => plain'[i] = plain[i] /\ buf'[i] = <<>>
  BY <1>6, <1>7 DEF Missing
<1>9. FetchInv'
  BY <1>1, <1>2, <1>3, <1>5, <1>8 DEF FetchInv, Looping, Decoding
<1>10. ASSUME NEW i \in Missing PROVE Len(plain'[i]) + Len(buf'[i]) = read
  <2>1. CASE i = w
    <3>1. plain'[w] = plain[w] \o buf[w] /\ buf'[w] = <<>>
      BY <1>1, <1>3, <1>4 DEF StreamType
    <3>2. plain[w] \in Seq(Cells) /\ buf[w] \in Seq(Cells)
      BY <1>3, <1>4 DEF StreamType
    <3>3. /\ Len(plain'[w]) = Len(plain[w]) + Len(buf[w]) /\ Len(buf'[w]) = 0
          /\ Len(plain[w]) \in Nat /\ Len(buf[w]) \in Nat
      BY <3>1, <3>2
    <3>4. Len(plain[w]) + Len(buf[w]) = read
      BY <1>6
    <3>5. Len(plain'[w]) + Len(buf'[w]) = Len(plain[w]) + Len(buf[w])
      BY <3>3
    <3>6. QED
      BY <2>1, <3>4, <3>5
  <2>2. CASE i # w
    BY <1>6, <1>7, <2>2 DEF Missing
  <2>3. QED
    BY <2>1, <2>2
<1>11. ASSUME left = {w}, NEW i \in Missing PROVE Len(plain'[i]) = read
  <2>1. i \in All
    BY DEF Missing
  <2>2. buf'[i] = <<>>
    BY <1>1, <1>3, <1>4, <1>7, <1>11, <2>1
  <2>3. plain'[i] \in Seq(Cells)
    <3>1. plain[i] \in Seq(Cells) /\ buf[i] \in Seq(Cells)
      BY <1>3, <2>1 DEF StreamType
    <3>2. plain[i] \o buf[i] \in Seq(Cells)
      BY <3>1
    <3>3. QED
      BY <1>1, <1>3, <1>7, <2>1, <3>1, <3>2 DEF StreamType
  <2>4. Len(plain'[i]) \in Nat /\ Len(buf'[i]) = 0
    BY <2>2, <2>3
  <2>5. Len(plain'[i]) + Len(buf'[i]) = read
    BY <1>10
  <2>6. QED
    BY <2>4, <2>5
<1>12. LengthInv'
  BY <1>1, <1>2, <1>5, <1>8, <1>10, <1>11 DEF LengthInv, Verifying
<1>13. WholeBlocks' \/ AtEnd'
  <2>1. \A i \in All : remote[i] # <<>> => (Aligned(i)' <=> Aligned(i))
    BY <1>8 DEF Aligned
  <2>2. WholeBlocks => WholeBlocks'
    BY <1>2, <1>5 DEF WholeBlocks
  <2>3. AtEnd => AtEnd'
    BY <1>2, <1>5, <1>8, <2>1 DEF AtEnd
  <2>4. QED
    BY <1>3, <2>2, <2>3
<1>14. QED
  BY <1>1, <1>9, <1>12, <1>13
     DEF CellInv, RebuildInv, VerifyInv, JoinInv, Verifying

(* Reconstruct is done: no shard that ends at a block's end is shorter     *)
(* than the rebuilt ones.                                                  *)
LEMMA CellsReconstructed ==
    ASSUME Typed, CellInv, Reconstructed PROVE CellInv'
<1>1. /\ pc = "rebuild" /\ pc' = "verifyAgain" /\ OpenInput
      /\ UNCHANGED <<up, plain>>
  BY DEF Reconstructed
<1>2. /\ StreamType /\ FetchInv /\ (WholeBlocks \/ AtEnd)
      /\ \A i \in Missing : Len(plain[i]) = read
  BY <1>1 DEF Typed, Decoding, CellInv, RebuildInv, LengthInv, Looping
<1>3. /\ All' = All /\ Missing' = Missing /\ remote' = remote
      /\ \A i : Aligned(i)' <=> Aligned(i)
  BY <1>1, FilesKept
<1>4. FetchInv'
  BY <1>1, <1>2, <1>3 DEF FetchInv, Looping, Decoding
<1>5. ASSUME NEW i \in Missing, NEW j \in All, Aligned(j)
      PROVE  Len(plain[i]) <= Len(plain[j])
  <2>1. Len(plain[i]) = read /\ read \in Nat
    BY <1>2 DEF StreamType
  <2>2. CASE remote[j] = <<>>
    BY <1>2, <2>1, <2>2 DEF Missing
  <2>3. CASE remote[j] # <<>> /\ WholeBlocks
    BY <1>2, <2>1, <2>3 DEF WholeBlocks, StreamType
  <2>4. CASE remote[j] # <<>> /\ AtEnd
    BY <1>5, <2>1, <2>4 DEF AtEnd
  <2>5. QED
    BY <1>2, <2>2, <2>3, <2>4
<1>6. QED
  BY <1>1, <1>3, <1>4, <1>5, VerifyStarts DEF Verifying

(* Join, and the ends of a download.                                       *)
LEMMA CellsEnd ==
    ASSUME Typed, CellInv,
           ReconstructFails \/ NotVerifiedAgain \/ Join \/ Decrypt \/ Kill
    PROVE  CellInv'
<1>1. \/ pc' \notin Decoding
      \/ pc = "join" /\ pc' = "decrypt" /\ UNCHANGED <<up, plain>>
  BY DEF ReconstructFails, NotVerifiedAgain, Join, Decrypt, Kill, End, Decoding
<1>2. CASE pc = "join" /\ pc' = "decrypt" /\ UNCHANGED <<up, plain>>
  <2>1. All' = All /\ remote' = remote
    BY <1>2, FilesKept
  <2>2. FetchInv'
    BY <1>2, <2>1 DEF CellInv, FetchInv, Looping, Decoding
  <2>3. QED
    BY <1>2, <2>2
       DEF CellInv, LengthInv, RebuildInv, VerifyInv, JoinInv, Looping, Verifying
<1>3. QED
  BY <1>1, <1>2, CellsOut

(* The upload, and what happens to shards on the remotes.                  *)
LEMMA CellsStored ==
    ASSUME \/ calculateShardsNum \/ DoEncode \/ Retry
           \/ \E i \in All : \/ Lose(i)
                             \/ \E n \in 1 .. PerShard : Cut(i, n) \/ Damage(i, n)
    PROVE  CellInv'
<1>1. pc' \notin Decoding
  BY DEF calculateShardsNum, Flags, DoEncode, Retry, Lose, Cut, Damage, OnRemote,
     Decoding
<1>2. QED
  BY <1>1, CellsOut

(* Every step keeps what is known of the cells.                            *)
LEMMA CellsStep == Typed /\ CellInv /\ [Next]_vars => CellInv'
<1> SUFFICES ASSUME Typed, CellInv, [Next]_vars PROVE CellInv'
  OBVIOUS
<1>1. CASE UNCHANGED vars
  <2>1. UNCHANGED <<pc, remote, up, plain, pos, lens, read, fill, buf>>
    BY <1>1 DEF vars, up, stream
  <2>2. /\ All' = All /\ Missing' = Missing
        /\ \A i : Aligned(i)' <=> Aligned(i)
        /\ \A k : Row(k)' = Row(k)
        /\ \A row : Codeword(row)' <=> Codeword(row)
    BY <2>1, FilesKept
  <2>3. FetchInv' /\ LengthInv'
    BY <2>1, <2>2 DEF CellInv, FetchInv, LengthInv, Decoding, Looping, Verifying
  <2>4. RebuildInv'
    BY <2>1, <2>2 DEF CellInv, RebuildInv, WholeBlocks, AtEnd, Looping
  <2>5. RowsRight' <=> RowsRight
    BY <2>1, <2>2 DEF RowsRight
  <2>6. VerifyInv' /\ JoinInv'
    BY <2>1, <2>2, <2>5 DEF CellInv, VerifyInv, JoinInv, Verifying
  <2>7. QED
    BY <2>3, <2>4, <2>6 DEF CellInv
<1>2. QED
  BY <1>1, CellsStored, CellsFetched, CellsVerified, CellsValid, CellsInvalid,
     CellsRebuilt, CellsWritten, CellsReconstructed, CellsEnd
     DEF Next, Decode

(* Nothing is known of them before a download.                             *)
LEMMA CellsInit == Init => CellInv
BY DEF Init, CellInv, FetchInv, LengthInv, RebuildInv, VerifyInv, JoinInv,
   Decoding, Looping, Verifying

(* No shard that was rebuilt from damaged cells gets past Verify to Join   *)
(* while a shard more than the data shards was fetched: Verify has looked  *)
(* at every row that has a rebuilt cell, and such a row has more cells     *)
(* that were fetched than a wrong one can agree with.                      *)
THEOREM RebuiltCellsRight == Spec => []RebuiltRight
<1>1. Typed /\ CellInv => RebuiltRight
  <2> SUFFICES ASSUME Typed, CellInv, pc = "join",
                      Cardinality({i \in All : remote[i] # <<>>}) > dataShards,
                      NEW i \in All, NEW k \in 1 .. Len(plain[i])
               PROVE  plain[i][k] # Rebuilt
    BY DEF RebuiltRight
  <2>1. /\ RowsRight /\ \A j \in Missing : Len(plain[j]) <= read
        /\ \A j \in All : remote[j] # <<>> => plain[j] = remote[j]
        /\ remote \in [All -> Seq(Nat)] /\ StreamType
        /\ dataShards \in Nat /\ parShards \in Nat
    BY NumbersAre
       DEF CellInv, JoinInv, FetchInv, Typed, ShardType, Decoding
  <2>2. ASSUME NEW j \in All, remote[j] # <<>>, NEW m \in 1 .. Len(plain[j])
        PROVE  plain[j][m] # Rebuilt
    <3>1. plain[j] \in Seq(Nat)
      BY <2>1, <2>2
    <3>2. plain[j][m] \in Nat
      BY <2>2, <3>1
    <3>3. QED
      BY <3>2 DEF Rebuilt
  <2>3. CASE remote[i] # <<>>
    BY <2>2, <2>3
  <2>4. CASE remote[i] = <<>>
    <3>1. k \in 1 .. read
      <4>1. /\ Len(plain[i]) <= read /\ Len(plain[i]) \in Nat /\ read \in Nat
        BY <2>1, <2>4 DEF Missing, StreamType
      <4>2. QED
        BY <4>1
    <3>2. Codeword(Row(k)) /\ \A j \in All : k <= Len(plain[j])
      BY <2>1, <3>1 DEF RowsRight
    <3> DEFINE right   == {j \in All : Row(k)[j] # Rebuilt}
               fetched == {j \in All : remote[j] # <<>>}
    <3>3. fetched \subseteq right
      <4>1. ASSUME NEW j \in All, remote[j] # <<>> PROVE Row(k)[j] # Rebuilt
        <5>1. k \in 1 .. Len(plain[j])
          <6>1. Len(plain[j]) \in Nat /\ k \in Nat \ {0} /\ k <= Len(plain[j])
            BY <2>1, <3>1, <3>2 DEF StreamType
          <6>2. QED
            BY <6>1
        <5>2. Row(k)[j] = plain[j][k]
          BY DEF Row
        <5>3. QED
          BY <2>2, <4>1, <5>1, <5>2
      <4>2. QED
        BY <4>1
    <3>4. Cardinality(right) > dataShards
      <4>1. /\ IsFiniteSet(right) /\ Cardinality(right) \in Nat
            /\ Cardinality(fetched) \in Nat
        BY <2>1, AllIs
      <4>2. Cardinality(fetched) <= Cardinality(right)
        BY <3>3, <4>1, FS_Subset
      <4>3. Cardinality(fetched) > dataShards
        OBVIOUS
      <4> HIDE DEF right, fetched
      <4>4. QED
        BY <2>1, <4>1, <4>2, <4>3
    <3>5. ~(Cardinality(right) <= dataShards)
      <4>1. Cardinality(right) \in Nat
        BY <2>1, AllIs
      <4> HIDE DEF right
      <4>2. QED
        BY <2>1, <3>4, <4>1
    <3>6. Row(k)[1] > 0 /\ Row(k)[i] = Row(k)[1]
      BY <3>2, <3>5 DEF Codeword
    <3>7. plain[i][k] > 0
      BY <3>6 DEF Row
    <3>8. QED
      BY <3>7 DEF Rebuilt
  <2>5. QED
    BY <2>3, <2>4
<1>2. QED
  BY <1>1, TypedHolds, TypedInit, TypedStep, CellsInit, CellsStep, PTL DEF Spec

-----------------------------------------------------------------------------
(* Files of which enough shards are whole.                                 *)

(* The place of a cell, counted over shards of p cells: its shard and its  *)
(* row.                                                                    *)
Place(p, k) == <<((k - 1) \div p) + 1, ((k - 1) % p) + 1>>

(* The k-th cell of the first i shards, one after the other.               *)
Shelved(p, i) == [k \in 1 .. i * p |-> Place(p, k)]

(* A quotient and a remainder are the only ones.                           *)
LEMMA DivIs ==
    ASSUME NEW p \in Nat \ {0}, NEW q \in Nat, NEW r \in Nat, r < p
    PROVE  (q * p + r) \div p = q /\ (q * p + r) % p = r
<1>1. PICK a \in Nat : a = q * p + r
  OBVIOUS
<1>2. PICK x \in Nat, y \in 0 .. (p - 1) : a = p * x + y /\ x = a \div p /\ y = a % p
  <2>1. a \div p \in Nat /\ a % p \in 0 .. (p - 1) /\ a = p * (a \div p) + (a % p)
    OBVIOUS
  <2>2. QED
    BY <2>1
<1>3. (q - x) * p = y - r
  <2>0. a = p * x + y /\ y \in Int
    BY <1>2
  <2>1. (q - x) * p = q * p - x * p
    OBVIOUS
  <2>2. PICK u \in Nat, v \in Nat : u = q * p /\ v = x * p /\ v = p * x
    OBVIOUS
  <2>3. u + r = v + y
    BY <1>1, <2>0, <2>2
  <2>4. u - v = y - r
    BY <2>0, <2>3
  <2>5. QED
    BY <2>1, <2>2, <2>4
<1>4. y - r < p /\ r - y < p
  BY <1>2
<1>5. PICK z \in Int : z = q - x
  BY <1>2
<1>6. z * p < p /\ -(z * p) < p
  BY <1>3, <1>4, <1>5, <1>2
<1>7. z = 0
  <2>1. z >= 1 => z * p >= p
    OBVIOUS
  <2>2. z <= -1 => -(z * p) >= p
    OBVIOUS
  <2>3. QED
    BY <1>6, <2>1, <2>2
<1>8. x = q /\ y = r
  BY <1>2, <1>3, <1>5, <1>7
<1>9. QED
  BY <1>1, <1>2, <1>8

(* Where the cells of shard i are.                                         *)
LEMMA PlaceIs ==
    ASSUME NEW p \in Nat \ {0}, NEW i \in Nat \ {0}, NEW j \in 1 .. p
    PROVE  Place(p, (i - 1) * p + j) = <<i, j>>
<1>1. PICK q \in Nat : q = i - 1
  OBVIOUS
<1>2. PICK r \in Nat : r = j - 1 /\ r < p
  OBVIOUS
<1>3. (q * p + r) \div p = q /\ (q * p + r) % p = r
  BY <1>2, DivIs
<1>4. ((i - 1) * p + j) - 1 = q * p + r
  <2>1. PICK u \in Nat : u = q * p /\ u = (i - 1) * p
    BY <1>1
  <2>2. QED
    BY <1>2, <2>1
<1>5. QED
  BY <1>1, <1>2, <1>3, <1>4 DEF Place

(* One shard more.                                                         *)
LEMMA ShelvedNext ==
    ASSUME NEW p \in Nat \ {0}, NEW i \in Nat \ {0}
    PROVE  /\ Shelved(p, 1) = [k \in 1 .. p |-> <<1, k>>]
           /\ Shelved(p, i) =
                 Shelved(p, i - 1) \o [k \in 1 .. p |-> <<i, k>>]
<1> DEFINE shard == [k \in 1 .. p |-> <<i, k>>]
           S == {Place(p, k) : k \in Nat} \cup {<<i, k>> : k \in Nat}
<1>1. PICK m \in Nat : m = (i - 1) * p /\ i * p = m + p
  <2>1. (i - 1) \in Nat
    OBVIOUS
  <2>2. (i - 1) * p \in Nat /\ i * p = (i - 1) * p + p
    BY <2>1
  <2>3. QED
    BY <2>2
<1>2. Shelved(p, i - 1) = [k \in 1 .. m |-> Place(p, k)]
  BY <1>1 DEF Shelved
<1>3. Shelved(p, i) = [k \in 1 .. m + p |-> Place(p, k)]
  BY <1>1 DEF Shelved
<1>4. /\ Shelved(p, i - 1) \in Seq(S) /\ Len(Shelved(p, i - 1)) = m
      /\ shard \in Seq(S) /\ Len(shard) = p
  BY <1>2
<1>5. /\ Shelved(p, i - 1) \o shard \in Seq(S)
      /\ Len(Shelved(p, i - 1) \o shard) = m + p
      /\ \A k \in 1 .. m + p :
            (Shelved(p, i - 1) \o shard)[k] =
                IF k <= m THEN Shelved(p, i - 1)[k] ELSE shard[k - m]
  BY <1>4
<1>6. ASSUME NEW k \in 1 .. m + p
      PROVE  (Shelved(p, i - 1) \o shard)[k] = Place(p, k)
  <2>1. CASE k <= m
    BY <1>2, <1>5, <2>1
  <2>2. CASE ~(k <= m)
    <3>1. PICK j \in 1 .. p : j = k - m /\ k = m + j
      BY <2>2
    <3>2. Place(p, (i - 1) * p + j) = <<i, j>>
      BY PlaceIs
    <3>3. QED
      BY <1>1, <1>5, <2>2, <3>1, <3>2
  <2>3. QED
    BY <2>1, <2>2
<1>7. Shelved(p, i) = Shelved(p, i - 1) \o shard
  <2>1. /\ Shelved(p, i) \in Seq(S) /\ Len(Shelved(p, i)) = m + p
        /\ \A k \in 1 .. m + p : Shelved(p, i)[k] = Place(p, k)
    BY <1>3
  <2>2. QED
    BY <1>5, <1>6, <2>1, SeqEqual
<1>8. Shelved(p, 1) = [k \in 1 .. p |-> <<1, k>>]
  <2>1. ASSUME NEW k \in 1 .. p PROVE Place(p, k) = <<1, k>>
    <3>1. Place(p, (1 - 1) * p + k) = <<1, k>>
      BY PlaceIs
    <3>2. (1 - 1) * p + k = k
      OBVIOUS
    <3>3. QED
      BY <3>1, <3>2
  <2>2. Shelved(p, 1) = [k \in 1 .. p |-> Place(p, k)]
    BY DEF Shelved
  <2>3. QED
    BY <2>1, <2>2
<1>9. QED
  BY <1>7, <1>8

(* Join: whole shards one after the other are the cells in order.          *)
LEMMA FlattenIs ==
    ASSUME NEW p \in Nat \ {0}, NEW n \in Nat \ {0}
    PROVE  FlattenSeq([i \in 1 .. n |-> [k \in 1 .. p |-> <<i, k>>]])
              = Shelved(p, n)
<1> DEFINE ss == [i \in 1 .. n |-> [k \in 1 .. p |-> <<i, k>>]]
           E(f) == f = [i \in 1 .. n |->
                           IF i = 1 THEN ss[i] ELSE f[i - 1] \o ss[i]]
           g == [i \in 1 .. n |-> Shelved(p, i)]
           h == CHOOSE f : E(f)
<1>1. Len(ss) = n
  OBVIOUS
<1>2. FlattenSeq(ss) = h[n]
  BY <1>1 DEF FlattenSeq
<1>3. E(g)
  <2> SUFFICES ASSUME NEW i \in 1 .. n
               PROVE  g[i] = IF i = 1 THEN ss[i] ELSE g[i - 1] \o ss[i]
    OBVIOUS
  <2>1. g[i] = Shelved(p, i) /\ ss[i] = [k \in 1 .. p |-> <<i, k>>]
    OBVIOUS
  <2>2. CASE i = 1
    BY <2>1, <2>2, ShelvedNext
  <2>3. CASE i # 1
    <3>1. i - 1 \in 1 .. n
      BY <2>3
    <3>2. g[i - 1] = Shelved(p, i - 1)
      BY <3>1
    <3>3. Shelved(p, i) = Shelved(p, i - 1) \o [k \in 1 .. p |-> <<i, k>>]
      <4>1. i \in Nat \ {0}
        OBVIOUS
      <4>2. QED
        BY <4>1, ShelvedNext, Zenon
    <3>4. g[i] = g[i - 1] \o ss[i]
      BY <2>1, <3>2, <3>3, Zenon
    <3>5. QED
      BY <2>3, <3>4, Zenon
  <2>4. QED
    BY <2>2, <2>3
<1>4. E(h)
  BY <1>3
<1>5. ASSUME NEW i \in 1 .. n PROVE h[i] = IF i = 1 THEN ss[i]
                                          ELSE h[i - 1] \o ss[i]
  BY <1>4
<1>6. ASSUME NEW i \in 1 .. n PROVE g[i] = IF i = 1 THEN ss[i]
                                          ELSE g[i - 1] \o ss[i]
  BY <1>3
<1> HIDE DEF h, g, ss
<1>7. ASSUME NEW i \in 1 .. n, h[i] # g[i] PROVE FALSE
  <2> DEFINE D == {j \in 1 .. n : h[j] # g[j]}
  <2>1. D \in SUBSET Nat /\ D # {}
    BY <1>7
  <2>2. PICK m \in D : \A j \in D : m <= j
    <3>1. Min(D) \in D /\ \A j \in D : Min(D) <= j
      BY <2>1, MinIs
    <3>2. QED
      BY <3>1
  <2>3. m \in 1 .. n /\ h[m] # g[m]
    BY <2>2
  <2>4. m # 1
    BY <1>5, <1>6, <2>3
  <2>5. m - 1 \in 1 .. n /\ m - 1 \notin D
    BY <2>1, <2>2, <2>3, <2>4
  <2>6. h[m - 1] = g[m - 1]
    BY <2>5
  <2>7. QED
    BY <1>5, <1>6, <2>3, <2>4, <2>6
<1>8. h[n] = g[n]
  BY <1>7
<1>9. g[n] = Shelved(p, n)
  BY DEF g
<1>10. QED
  BY <1>2, <1>8, <1>9 DEF ss

-----------------------------------------------------------------------------
(* A file whose shards are whole or missing, and few are missing.          *)

Good == hurt = 0 /\ lost <= parShards

(* A reader of a whole shard has come as far as all of them.               *)
Paced(i) ==
    /\ pos[i] = read /\ read <= PerShard
    /\ lens[i] > 0
    /\ lens[i] = Block \/ read = PerShard

(* The cells s are the right ones of the rows after n.                     *)
RightFrom(s, n) == \A k \in 1 .. Len(s) : s[k] = n + k

RemoteWhole ==
    hurt = 0 /\ pc \notin {"calc", "encode"} =>
        /\ \A i \in All : remote[i] \in {<<>>, Whole}
        /\ Cardinality(Missing) <= lost
        /\ padding = Split

LoopRight ==
    Good /\ pc \in Looping =>
        /\ \A i \in All : remote[i] # <<>> => Paced(i)
        /\ \A i \in Missing : /\ RightFrom(plain[i], 0)
                              /\ pc = "write" =>
                                    RightFrom(buf[i], Len(plain[i]))

AgainWhole ==
    Good /\ pc = "verifyAgain" => \A i \in All : plain[i] = Whole /\ Paced(i)

JoinWhole == Good /\ pc = "join" => \A i \in All : plain[i] = Whole

DecryptWhole == Good /\ pc = "decrypt" => out = Shelved(PerShard, dataShards)

EndsOnce ==
    /\ result # "none" => pc = "end"
    /\ lost \in Nat /\ hurt \in Nat

IntactInv ==
    /\ RemoteWhole /\ LoopRight /\ AgainWhole /\ JoinWhole /\ DecryptWhole
    /\ EndsOnce /\ IntactRestores

(* Every shard has cells.                                                  *)
LEMMA WholeIs ==
    ASSUME Typed
    PROVE  /\ PerShard \in Nat \ {0} /\ dataShards \in Nat \ {0}
           /\ parShards \in Nat
           /\ Whole \in Seq(Nat) /\ Len(Whole) = PerShard /\ Whole # <<>>
           /\ \A k \in 1 .. PerShard : Whole[k] = k
           /\ size + Overhead \in Nat \ {0}
           /\ Split \in Nat /\ Split = dataShards * PerShard - (size + Overhead)
<1>1. FlagsOK /\ size \in Sizes /\ dataShards \in Nat /\ parShards \in Nat
  BY NumbersAre DEF Typed, Counted, BaseType
<1>2. dataShards >= 2 /\ PerShard \in Nat /\ Split \in Nat
  BY <1>1, Enough, PerShardIs
<1>3. size \in Nat /\ Overhead \in Nat \ {0}
  BY <1>1, NumbersAre, CodecAssumption
<1>4. PerShard # 0
  <2>1. PICK d \in Nat \ {0} : d = dataShards
    BY <1>1, <1>2
  <2>2. PICK m \in Nat : m = size + Overhead + d - 1 /\ m >= d
    BY <1>3, <2>1
  <2>3. m \div d \in Nat /\ m % d \in 0 .. (d - 1)
        /\ m = d * (m \div d) + (m % d)
    OBVIOUS
  <2>4. PICK q \in Nat, e \in 0 .. (d - 1) : m = d * q + e /\ q = m \div d
    BY <2>3
  <2>5. q # 0
    BY <2>2, <2>4
  <2>6. PerShard = q
    BY <2>1, <2>2, <2>4 DEF PerShard
  <2>7. QED
    BY <2>5, <2>6
<1>5. PICK P \in Nat \ {0} : P = PerShard
  BY <1>2, <1>4
<1>6. Whole = [r \in 1 .. P |-> r]
  BY <1>5 DEF Whole
<1>7. /\ Whole \in Seq(Nat) /\ Len(Whole) = P /\ Whole # <<>>
      /\ \A k \in 1 .. P : Whole[k] = k
  BY <1>6
<1>8. QED
  BY <1>1, <1>2, <1>3, <1>5, <1>7 DEF Split

(* How much the readers of whole shards give in one round.                 *)
Chunk == IF Block <= PerShard - read THEN Block ELSE PerShard - read

(* A reader gives a block, or the rest of its shard.                       *)
LEMMA ChunkIs ==
    ASSUME Typed, StreamType, NEW i \in Open, plain[i] = Whole, Paced(i)
    PROVE  /\ Got[i] = Chunk /\ Chunk \in Nat
           /\ read = PerShard => Chunk = 0
           /\ read < PerShard => /\ Chunk > 0 /\ lens[i] = Block
                                 /\ read + Chunk <= PerShard
                                 /\ Chunk = Block \/ read + Chunk = PerShard
<1>1. /\ i \in All /\ Got[i] \in 0 .. Block /\ lens[i] \in 0 .. Block
      /\ read \in Nat /\ Got[i] <= lens[i]
      /\ read + Got[i] <= Len(plain[i])
      /\ Got[i] = lens[i] \/ read + Got[i] = Len(plain[i])
  BY OpenIs, GotIs DEF StreamType, Paced
<1>2. PICK P \in Nat \ {0} : P = PerShard /\ Len(plain[i]) = P
  BY WholeIs
<1>3. PICK B \in Nat \ {0} : B = Block
  BY BlockIs
<1>4. PICK g \in Nat, l \in Nat, r \in Nat : g = Got[i] /\ l = lens[i] /\ r = read
  BY <1>1
<1>5. /\ g <= l /\ l <= B /\ r + g <= P /\ (g = l \/ r + g = P)
      /\ r <= P /\ l > 0 /\ (l = B \/ r = P)
  BY <1>1, <1>2, <1>3, <1>4 DEF Paced
<1>6. PICK c \in Nat : c = IF B <= P - r THEN B ELSE P - r
  <2>1. CASE B <= P - r
    BY <2>1
  <2>2. CASE ~(B <= P - r)
    <3>1. P - r \in Nat
      BY <1>5
    <3>2. QED
      BY <2>2, <3>1
  <2>3. QED
    BY <2>1, <2>2
<1>7. /\ g = c /\ (r = P => c = 0)
      /\ r < P => c > 0 /\ l = B /\ r + c <= P /\ (c = B \/ r + c = P)
  BY <1>5, <1>6
<1>8. Chunk = c
  BY <1>2, <1>3, <1>4, <1>6 DEF Chunk
<1>9. QED
  BY <1>2, <1>3, <1>4, <1>7, <1>8

(* What readShards makes of whole shards.                                  *)
LEMMA PacedRead ==
    ASSUME Typed, StreamType, Open # {},
           \A i \in Open : plain[i] = Whole /\ Paced(i)
    PROVE  /\ read \in Nat /\ read <= PerShard
           /\ \A i \in Open : Got[i] = Chunk
           /\ read = PerShard => readShards(Got) = "EOF"
           /\ read < PerShard => /\ readShards(Got) = "ok"
                                 /\ shardSize(Got) = Chunk /\ Chunk > 0
                                 /\ Used(Got) = Open
<1>0. PICK o \in Open : TRUE
  OBVIOUS
<1>1. /\ read \in Nat /\ read <= PerShard /\ PerShard \in Nat
      /\ lens \in [All -> 0 .. Block] /\ Block \in Nat \ {0}
      /\ dataShards \in Nat /\ parShards \in Nat
  BY <1>0, WholeIs, BlockIs DEF StreamType, Paced
<1>2. \A i \in Open : Got[i] = Chunk /\ i \in All /\ lens[i] > 0
  BY ChunkIs, OpenIs DEF Paced
<1>3. ASSUME read = PerShard PROVE readShards(Got) = "EOF"
  <2>1. \A i \in Open : Got[i] = 0 /\ Got[i] < lens[i]
    BY <1>0, <1>1, <1>2, <1>3, ChunkIs
  <2>2. Short(Got) = {0}
    BY <1>0, <2>1 DEF Short
  <2>3. Cardinality(Short(Got)) = 1
    BY <2>2, FS_Singleton
  <2>4. QED
    BY <2>2, <2>3 DEF readShards
<1>4. ASSUME read < PerShard
      PROVE  /\ readShards(Got) = "ok" /\ shardSize(Got) = Chunk /\ Chunk > 0
             /\ Used(Got) = Open
  <2>1. Chunk > 0 /\ Chunk \in Nat
    BY <1>0, <1>4, ChunkIs
  <2>2. Short(Got) \subseteq {Chunk}
    BY <1>2 DEF Short
  <2>3. Short(Got) # {0}
    BY <2>1, <2>2
  <2>4. Cardinality(Short(Got)) \in {0, 1}
    <3>1. Short(Got) = {} \/ Short(Got) = {Chunk}
      BY <2>2
    <3>2. QED
      BY <3>1, FS_EmptySet, FS_Singleton
  <2>5. readShards(Got) = "ok"
    BY <2>3, <2>4 DEF readShards
  <2>6. Used(Got) = Open
    <3>1. Used(Got) \subseteq Open
      BY <1>1, SizeIs
    <3>2. Open \subseteq Used(Got)
      BY <1>2, <2>1 DEF Used
    <3>3. QED
      BY <3>1, <3>2
  <2>7. shardSize(Got) = Chunk
    <3>1. Used(Got) # {}
      BY <1>0, <2>6
    <3>2. shardSize(Got) > 0 /\ shardSize(Got) \in 0 .. Block
      BY <1>1, <3>1, SizeIs
    <3>3. \E i \in Open : shardSize(Got) = Got[i]
      BY <1>1, <3>2, SizeIs
    <3>4. QED
      BY <1>2, <3>3
  <2>8. QED
    BY <2>1, <2>5, <2>6, <2>7
<1>5. QED
  BY <1>1, <1>2, <1>3, <1>4

(* A file has cells to spare: as many shards are left as it takes.         *)
LEMMA EnoughLeft ==
    ASSUME Typed, RemoteWhole, EndsOnce, Good, pc \notin {"calc", "encode"}
    PROVE  /\ Cardinality({i \in All : remote[i] # <<>>}) >= dataShards
           /\ {i \in All : remote[i] # <<>>} # {}
<1> DEFINE here == {i \in All : remote[i] # <<>>}
<1>1. /\ dataShards \in Nat \ {0} /\ parShards \in Nat
      /\ Cardinality(Missing) <= lost /\ lost <= parShards /\ lost \in Nat
  BY WholeIs DEF RemoteWhole, Good, EndsOnce
<1>2. IsFiniteSet(All) /\ Cardinality(All) = dataShards + parShards
  BY <1>1, FS_Interval DEF All
<1>3. Missing \subseteq All /\ here = All \ Missing /\ All \cap Missing = Missing
  BY DEF Missing
<1>4. /\ Cardinality(Missing) \in Nat /\ Cardinality(here) \in Nat
      /\ IsFiniteSet(Missing)
  BY <1>1, <1>3, AllIs
<1>5. Cardinality(here) = Cardinality(All) - Cardinality(Missing)
  BY <1>2, <1>3, FS_Difference
<1>6. PICK h \in Nat, m \in Nat, d \in Nat \ {0}, q \in Nat :
         /\ h = Cardinality(here) /\ m = Cardinality(Missing)
         /\ d = dataShards /\ q = parShards
  BY <1>1, <1>4
<1>7. h = d + q - m
  BY <1>2, <1>5, <1>6
<1>8. m <= q
  BY <1>1, <1>6
<1>9. h >= d /\ h # 0
  BY <1>7, <1>8
<1>10. here # {}
  <2>1. Cardinality({}) = 0
    BY FS_EmptySet
  <2>2. QED
    BY <1>6, <1>9, <2>1
<1>11. QED
  BY <1>6, <1>9, <1>10

(* A block that is rebuilt from whole shards holds the right cells.        *)
LEMMA BlockRight ==
    ASSUME Typed, StreamType, Open # {}, read < PerShard,
           \A i \in Open : plain[i] = Whole /\ Paced(i)
    PROVE  RightFrom(RebuiltBlock(Got), read)
<1> DEFINE n == shardSize(Got)
           basis == {trimShards(Got, i, n) : i \in Basis(Got)}
<1>1. /\ n = Chunk /\ Used(Got) = Open /\ read \in Nat /\ Chunk > 0
      /\ \A i \in Open : Got[i] = n
  BY PacedRead
<1>2. /\ dataShards \in Nat \ {0} /\ parShards \in Nat /\ n \in Nat
  BY WholeIs, SizeIs, BlockIs
<1>3. PICK o \in Basis(Got) : TRUE
  <2>1. Open \in SUBSET Nat
    BY <1>2, OpenIs, AllIs
  <2>2. Min(Open) \in Open /\ \A j \in Open : Min(Open) <= j
    BY <2>1, MinIs
  <2>3. {j \in Open : j < Min(Open)} = {}
    <3>1. PICK x \in Nat : x = Min(Open) /\ \A j \in Open : x <= j
      BY <2>1, <2>2
    <3>2. \A j \in Open : ~(j < x)
      BY <2>1, <3>1
    <3>3. QED
      BY <3>1, <3>2
  <2>4. Cardinality({j \in Open : j < Min(Open)}) = 0
    BY <2>3, FS_EmptySet
  <2>5. Min(Open) \in Basis(Got)
    BY <1>1, <1>2, <2>2, <2>4 DEF Basis
  <2>6. QED
    BY <2>5
<1>4. ASSUME NEW k \in 1 .. n, NEW i \in Basis(Got)
      PROVE  trimShards(Got, i, n)[k] = read + k
  <2>1. i \in Open /\ Got[i] = n /\ i \in All /\ plain[i] = Whole
    BY <1>1, OpenIs DEF Basis
  <2>2. trimShards(Got, i, n)[k] = Dst(Got, i)[k]
    <3>1. k <= Got[i]
      BY <1>2, <2>1
    <3>2. QED
      BY <3>1 DEF trimShards
  <2>3. Dst(Got, i) = SubSeq(Whole, read + 1, read + n)
    BY <2>1 DEF Dst, Paced
  <2>4. PICK P \in Nat \ {0} : /\ P = PerShard /\ read + n <= P
                               /\ Len(Whole) = P /\ Whole \in Seq(Nat)
                               /\ \A m \in 1 .. P : Whole[m] = m
    <3>1. read + Chunk <= PerShard
      BY <2>1, ChunkIs
    <3>2. QED
      BY <1>1, <3>1, WholeIs
  <2>5. SubSeq(Whole, read + 1, read + n)[k] = Whole[read + k]
    <3>1. PICK r \in Nat, m \in Nat : r = read /\ m = n
      BY <1>1, <1>2
    <3>2. /\ r + 1 \in Int /\ r + m \in Int
          /\ (r + m) - (r + 1) + 1 = m /\ (r + 1) + k - 1 = r + k
      BY <1>2, <3>1
    <3>3. \A j \in r + 1 .. r + m : Whole[j] \in Nat
      <4>1. r + m <= P
        BY <2>4, <3>1
      <4>2. \A j \in r + 1 .. r + m : j \in 1 .. P
        BY <4>1
      <4>3. QED
        BY <2>4, <4>2
    <3>4. k \in 1 .. (r + m) - (r + 1) + 1
      BY <3>1, <3>2
    <3>5. SubSeq(Whole, r + 1, r + m)[k] = Whole[(r + 1) + k - 1]
      BY <3>2, <3>3, <3>4, SubSeqProperties
    <3>6. QED
      BY <3>1, <3>2, <3>5
  <2>6. read + k \in 1 .. P
    BY <1>1, <1>2, <2>4
  <2>7. QED
    BY <2>2, <2>3, <2>4, <2>5, <2>6
<1>5. ASSUME NEW k \in 1 .. n PROVE RebuiltBlock(Got)[k] = read + k
  <2>1. RebuiltBlock(Got)[k] = Rebuild({b[k] : b \in basis})
    BY DEF RebuiltBlock
  <2>2. {b[k] : b \in basis} = {read + k}
    BY <1>3, <1>4
  <2>3. read + k \in Nat \ {0}
    BY <1>1, <1>2
  <2>4. PICK c \in Nat \ {0} : c = read + k
    BY <2>3
  <2>5. Cardinality({c}) = 1 /\ {c} \cap {Bad, Rebuilt} = {}
    <3>1. Cardinality({c}) = 1
      BY FS_Singleton
    <3>2. c # Bad /\ c # Rebuilt
      BY DEF Bad, Rebuilt
    <3>3. QED
      BY <3>1, <3>2
  <2>6. Min({c}) = c
    BY MinIs
  <2>7. Rebuild({c}) = c
    BY <2>5, <2>6 DEF Rebuild
  <2>8. QED
    BY <2>1, <2>2, <2>4, <2>7
<1>6. Len(RebuiltBlock(Got)) = n
  BY <1>2, BlockType
<1>7. QED
  BY <1>5, <1>6 DEF RightFrom

-----------------------------------------------------------------------------
(* What the steps leave alone.                                             *)
LEMMA GoodKept ==
    ASSUME IntactInv, UNCHANGED <<up, lost, hurt>>,
           pc \notin {"calc", "encode"}
    PROVE  /\ RemoteWhole' /\ (Good' <=> Good)
           /\ All' = All /\ Missing' = Missing /\ Data' = Data
           /\ PerShard' = PerShard /\ Whole' = Whole
           /\ UNCHANGED <<dataShards, parShards, size, remote, padding>>
           /\ lost' \in Nat /\ hurt' \in Nat
<1>1. /\ UNCHANGED <<size, dataShards, parShards, padding, remote>>
      /\ All' = All
  BY AllSame DEF up
<1>2. /\ Missing' = Missing /\ PerShard' = PerShard /\ Data' = Data
  BY <1>1 DEF Missing, PerShard, Data
<1>3. Whole' = Whole /\ Split' = Split
  BY <1>1, <1>2 DEF Whole, Split
<1>4. RemoteWhole'
  BY <1>1, <1>2, <1>3 DEF IntactInv, RemoteWhole
<1>5. QED
  BY <1>1, <1>2, <1>3, <1>4 DEF Good, IntactInv, EndsOnce

(* Before a download, and in its first Verify, the shards on the remotes   *)
(* are all there is to say.                                                *)
LEMMA IntactOut ==
    ASSUME RemoteWhole', result' = "none", lost' \in Nat, hurt' \in Nat,
           pc' \notin Decoding \/ pc' = "verify"
    PROVE  IntactInv'
BY DEF IntactInv, Decoding, Looping, LoopRight, AgainWhole, JoinWhole,
   DecryptWhole, EndsOnce, IntactRestores

(* An end that is not a restored file is one of a file that was not good.  *)
LEMMA IntactFails ==
    ASSUME RemoteWhole', ~Good', lost' \in Nat, hurt' \in Nat, pc' = "end"
    PROVE  IntactInv'
BY DEF IntactInv, Looping, LoopRight, AgainWhole, JoinWhole, DecryptWhole,
   EndsOnce, IntactRestores, Good

(* The upload, and what happens to shards on the remotes.                  *)
LEMMA IntactStored ==
    ASSUME Typed, IntactInv,
           \/ calculateShardsNum \/ DoEncode \/ Retry
           \/ \E i \in All :
                 \/ Lose(i)
                 \/ \E n \in 1 .. PerShard : Cut(i, n) \/ Damage(i, n)
    PROVE  IntactInv'
<1>1. EndsOnce /\ RemoteWhole /\ (pc # "end" => result = "none")
  BY DEF IntactInv, EndsOnce
<1>2. CASE calculateShardsNum \/ Retry
  <2>1. /\ pc # "end" /\ pc' \in {"calc", "encode"}
        /\ UNCHANGED <<lost, hurt, result>>
    BY <1>2 DEF calculateShardsNum, Flags, Retry, count
  <2>2. RemoteWhole'
    BY <2>1 DEF RemoteWhole
  <2>3. QED
    BY <1>1, <2>1, <2>2, IntactOut DEF EndsOnce, Decoding
<1>3. CASE DoEncode
  <2>1. /\ pc = "encode" /\ pc' = "stored" /\ padding' = Split
        /\ remote' = [i \in All |-> Whole] /\ All' = All
        /\ UNCHANGED <<size, dataShards, parShards, lost, hurt, result>>
    BY <1>3, AllSame DEF DoEncode, count
  <2>2. PerShard' = PerShard
    BY <2>1 DEF PerShard
  <2>3. Whole' = Whole /\ Split' = Split
    BY <2>1, <2>2 DEF Whole, Split
  <2>4. Missing' = {}
    BY <2>1, WholeIs DEF Missing
  <2>5. Cardinality(Missing') = 0
    BY <2>4, FS_EmptySet
  <2>6. Cardinality(Missing') <= lost'
    BY <1>1, <2>1, <2>5 DEF EndsOnce
  <2>7. RemoteWhole'
    BY <2>1, <2>3, <2>6 DEF RemoteWhole
  <2>8. QED
    BY <1>1, <2>1, <2>7, IntactOut DEF EndsOnce, Decoding
<1>4. ASSUME NEW i \in All, Lose(i) PROVE IntactInv'
  <2>1. /\ pc = "stored" /\ pc' = "stored" /\ lost' = lost + 1
        /\ remote' = [remote EXCEPT ![i] = <<>>] /\ remote[i] # <<>>
        /\ UNCHANGED <<size, dataShards, parShards, padding, hurt, result>>
    BY <1>4 DEF Lose, OnRemote
  <2>2. All' = All /\ PerShard' = PerShard
    BY <2>1 DEF All, PerShard
  <2>3. Whole' = Whole /\ Split' = Split
    BY <2>1, <2>2 DEF Whole, Split
  <2>4. remote \in [All -> Seq(Nat)] /\ dataShards \in Nat /\ parShards \in Nat
    BY <2>1, NumbersAre DEF Typed, ShardType
  <2>5. Missing' = Missing \cup {i} /\ i \notin Missing
    BY <2>1, <2>2, <2>4 DEF Missing
  <2>6. IsFiniteSet(Missing) /\ Cardinality(Missing) \in Nat
    BY <2>4, AllIs DEF Missing
  <2>7. Cardinality(Missing') = Cardinality(Missing) + 1
    BY <2>5, <2>6, FS_AddElement
  <2>8. hurt = 0 => Cardinality(Missing') <= lost'
    <3>1. PICK m \in Nat : m = Cardinality(Missing)
      BY <2>6
    <3>2. lost \in Nat
      BY <1>1 DEF EndsOnce
    <3>3. hurt = 0 => m <= lost
      BY <1>1, <2>1, <3>1 DEF RemoteWhole
    <3>4. hurt = 0 => m + 1 <= lost + 1
      BY <3>2, <3>3
    <3>5. QED
      BY <2>1, <2>7, <3>1, <3>4
  <2>9. hurt = 0 => \A j \in All : remote'[j] \in {<<>>, Whole}
    BY <1>1, <2>1, <2>4 DEF RemoteWhole
  <2>10. hurt = 0 => padding = Split
    BY <1>1, <2>1 DEF RemoteWhole
  <2>11. RemoteWhole'
    BY <2>1, <2>2, <2>3, <2>8, <2>9, <2>10 DEF RemoteWhole
  <2>12. lost' \in Nat /\ hurt' \in Nat
    BY <1>1, <2>1 DEF EndsOnce
  <2>13. QED
    BY <1>1, <2>1, <2>11, <2>12, IntactOut DEF Decoding
<1>5. ASSUME NEW i \in All, NEW n \in 1 .. PerShard, Cut(i, n) \/ Damage(i, n)
      PROVE  IntactInv'
  <2>1. /\ pc = "stored" /\ pc' = "stored" /\ hurt' = hurt + 1
        /\ UNCHANGED <<lost, result>>
    BY <1>5 DEF Cut, Damage, OnRemote
  <2>2. hurt' # 0 /\ hurt' \in Nat /\ lost' \in Nat
    BY <1>1, <2>1 DEF EndsOnce
  <2>3. RemoteWhole'
    BY <2>2 DEF RemoteWhole
  <2>4. QED
    BY <1>1, <2>1, <2>2, <2>3, IntactOut DEF Decoding
<1>6. QED
  BY <1>2, <1>3, <1>4, <1>5

(* A download starts, or dies.                                             *)
LEMMA IntactStarts ==
    ASSUME IntactInv, Download \/ Kill PROVE IntactInv'
<1>1. /\ pc \in {"stored", "dead"} \cup Decoding /\ pc' \in {"verify", "dead"}
      /\ UNCHANGED <<up, lost, hurt, result>>
  BY DEF Download, Kill, count
<1>2. result = "none"
  BY <1>1 DEF IntactInv, EndsOnce, Decoding
<1>3. RemoteWhole' /\ lost' \in Nat /\ hurt' \in Nat
  BY <1>1, GoodKept DEF Decoding
<1>4. QED
  BY <1>1, <1>2, <1>3, IntactOut DEF Decoding

(* The readers of whole shards keep pace.                                  *)
LEMMA PacedAdvance ==
    ASSUME Typed, StreamType, Open # {}, read < PerShard,
           \A i \in Open : plain[i] = Whole /\ Paced(i),
           NEW l, \A i \in Open : l[i] = Chunk,
           Advance(Got, l), PerShard' = PerShard
    PROVE  \A i \in Open : Paced(i)'
<1> SUFFICES ASSUME NEW i \in Open PROVE Paced(i)'
  OBVIOUS
<1>1. /\ shardSize(Got) = Chunk /\ Got[i] = Chunk /\ i \in All /\ read \in Nat
  BY PacedRead, OpenIs
<1>2. pos'[i] = pos[i] + Got[i] /\ lens' = l /\ read' = read + shardSize(Got)
  BY <1>1 DEF Advance
<1>3. /\ pos'[i] = read + Chunk /\ read' = read + Chunk /\ lens'[i] = Chunk
  BY <1>1, <1>2 DEF Paced
<1>4. /\ Chunk > 0 /\ read + Chunk <= PerShard
      /\ Chunk = Block \/ read + Chunk = PerShard
  BY ChunkIs
<1>5. QED
  BY <1>3, <1>4 DEF Paced

(* Streams that were opened anew.                                          *)
LEMMA PacedStart ==
    ASSUME Typed, OpenInput, PerShard' = PerShard
    PROVE  \A i \in All : Paced(i)'
<1>1. /\ pos' = [i \in All |-> 0] /\ lens' = [i \in All |-> Block] /\ read' = 0
  BY DEF OpenInput
<1>2. Block \in Nat \ {0} /\ PerShard \in Nat
  BY BlockIs, WholeIs
<1>3. 0 <= PerShard /\ Block > 0
  BY <1>2
<1>4. QED
  BY <1>1, <1>3 DEF Paced

(* While the rebuilt shards are verified, every shard has a reader.        *)
LEMMA OpenAgain ==
    ASSUME Typed, pc \in {"verifyAgain", "join"},
           \A i \in All : plain[i] = Whole
    PROVE  Open = All /\ 1 \in All
<1>1. fill = {}
  BY DEF Typed, ShardType
<1>2. Whole # <<>> /\ dataShards \in Nat \ {0} /\ parShards \in Nat
  BY WholeIs
<1>3. QED
  BY <1>1, <1>2 DEF Open, All

(* Verify, after the shards were rebuilt.                                  *)
LEMMA IntactVerified ==
    ASSUME Typed, CellInv, IntactInv, VerifyRound PROVE IntactInv'
<1>1. /\ pc \in Verifying /\ Verify(Got) = "more" /\ Advance(Got, Got)
      /\ UNCHANGED <<pc, up, plain, fill, lost, hurt, result>>
  BY DEF VerifyRound, Verifying, count
<1>2. /\ RemoteWhole' /\ (Good' <=> Good) /\ All' = All /\ Whole' = Whole
      /\ PerShard' = PerShard /\ lost' \in Nat /\ hurt' \in Nat
  BY <1>1, GoodKept DEF Verifying
<1>3. result = "none" /\ result' = "none"
  BY <1>1 DEF IntactInv, EndsOnce, Verifying
<1>4. CASE pc = "verify"
  BY <1>1, <1>2, <1>3, <1>4, IntactOut
<1>5. CASE pc = "verifyAgain"
  <2>1. ASSUME Good PROVE \A i \in All : plain[i] = Whole /\ Paced(i)'
    <3>1. \A i \in All : plain[i] = Whole /\ Paced(i)
      BY <1>5, <2>1 DEF IntactInv, AgainWhole
    <3>2. Open = All /\ 1 \in All
      BY <1>5, <3>1, OpenAgain
    <3>3. StreamType
      BY <1>5 DEF Typed, Decoding
    <3>4. readShards(Got) = "ok"
      BY <1>1, VerifyIs
    <3>5. /\ read \in Nat /\ read <= PerShard /\ read # PerShard
          /\ \A i \in Open : Got[i] = Chunk
      BY <3>1, <3>2, <3>3, <3>4, PacedRead
    <3>6. read < PerShard
      BY <3>5, WholeIs
    <3>7. \A i \in Open : Paced(i)'
      BY <1>1, <1>2, <3>1, <3>2, <3>3, <3>5, <3>6, PacedAdvance
    <3>8. QED
      BY <3>1, <3>2, <3>7
  <2>2. AgainWhole'
    BY <1>1, <1>2, <2>1 DEF AgainWhole
  <2>3. QED
    BY <1>1, <1>2, <1>3, <1>5, <2>2
       DEF IntactInv, Looping, LoopRight, JoinWhole, DecryptWhole, EndsOnce,
           IntactRestores
<1>6. QED
  BY <1>1, <1>4, <1>5 DEF Verifying

(* Verify is content only with whole shards.                               *)
LEMMA IntactValid ==
    ASSUME Typed, CellInv, IntactInv, Verified PROVE IntactInv'
<1>1. /\ pc \in Verifying /\ Verify(Got) = "valid" /\ pc' = "join"
      /\ UNCHANGED <<up, plain, lost, hurt, result>>
  BY DEF Verified, Verifying, count
<1>2. /\ RemoteWhole' /\ (Good' <=> Good) /\ All' = All /\ Whole' = Whole
      /\ lost' \in Nat /\ hurt' \in Nat
  BY <1>1, GoodKept DEF Verifying
<1>3. result = "none" /\ result' = "none"
  BY <1>1 DEF IntactInv, EndsOnce, Verifying
<1>4. ASSUME Good, NEW i \in All PROVE plain[i] = Whole
  <2>1. CASE pc = "verify"
    <3>1. plain = remote /\ RowsRight /\ StreamType
      BY <2>1 DEF CellInv, FetchInv, VerifyInv, Verifying, Typed, Decoding
    <3>2. plain[i] \in {<<>>, Whole}
      BY <1>4, <2>1, <3>1 DEF IntactInv, RemoteWhole, Good
    <3>3. readShards(Got) = "EOF"
      BY <1>1, VerifyIs
    <3>4. read # 0
      BY <1>1, <3>3 DEF Verify
    <3>5. 1 \in 1 .. read
      BY <3>1, <3>4 DEF StreamType
    <3>6. 1 <= Len(plain[i])
      BY <3>1, <3>5 DEF RowsRight
    <3>7. plain[i] # <<>>
      BY <3>6
    <3>8. QED
      BY <3>2, <3>7
  <2>2. CASE pc = "verifyAgain"
    BY <1>4, <2>2 DEF IntactInv, AgainWhole
  <2>3. QED
    BY <1>1, <2>1, <2>2 DEF Verifying
<1>5. JoinWhole'
  BY <1>1, <1>2, <1>4 DEF JoinWhole
<1>6. QED
  BY <1>1, <1>2, <1>3, <1>5
     DEF IntactInv, Looping, LoopRight, AgainWhole, DecryptWhole, EndsOnce,
         IntactRestores

(* A shard is missing: the streams start again, and nothing is rebuilt yet.*)
LEMMA IntactInvalid ==
    ASSUME Typed, CellInv, IntactInv, NotVerified PROVE IntactInv'
<1>1. /\ pc = "verify" /\ pc' = "rebuild" /\ OpenInput
      /\ UNCHANGED <<up, plain, lost, hurt, result>>
  BY DEF NotVerified, count
<1>2. /\ RemoteWhole' /\ (Good' <=> Good) /\ All' = All /\ Whole' = Whole
      /\ Missing' = Missing /\ PerShard' = PerShard /\ UNCHANGED remote
      /\ lost' \in Nat /\ hurt' \in Nat
  BY <1>1, GoodKept
<1>3. result' = "none"
  BY <1>1 DEF IntactInv, EndsOnce
<1>4. \A i \in All : Paced(i)'
  BY <1>1, <1>2, PacedStart
<1>5. \A i \in Missing : RightFrom(plain[i], 0)
  BY <1>1 DEF CellInv, FetchInv, Missing, RightFrom
<1>6. LoopRight'
  BY <1>1, <1>2, <1>4, <1>5 DEF LoopRight, RightFrom
<1>7. QED
  BY <1>1, <1>2, <1>3, <1>6
     DEF IntactInv, AgainWhole, JoinWhole, DecryptWhole, EndsOnce, IntactRestores

(* The readers of Reconstruct, when enough shards are whole.               *)
LEMMA Readers ==
    ASSUME Typed, CellInv, IntactInv, Good, pc = "rebuild"
    PROVE  /\ StreamType /\ Open # {}
           /\ Cardinality(Open) >= dataShards
           /\ \A i \in Open : plain[i] = Whole /\ Paced(i)
           /\ \A i \in All : i \in Open <=> remote[i] # <<>>
<1>1. \A i \in All : i \in Open <=> remote[i] # <<>>
  BY OpenLooping DEF CellInv
<1>2. Open = {i \in All : remote[i] # <<>>}
  BY <1>1, OpenIs
<1>3. Open # {} /\ Cardinality(Open) >= dataShards
  BY <1>2, EnoughLeft DEF IntactInv
<1>4. ASSUME NEW i \in Open PROVE plain[i] = Whole /\ Paced(i)
  <2>1. i \in All /\ remote[i] # <<>>
    BY <1>2
  <2>2. plain[i] = remote[i] /\ remote[i] = Whole
    BY <2>1 DEF CellInv, FetchInv, Decoding, IntactInv, RemoteWhole, Good
  <2>3. Paced(i)
    BY <2>1 DEF IntactInv, LoopRight, Looping
  <2>4. QED
    BY <2>2, <2>3
<1>5. StreamType
  BY DEF Typed, Decoding
<1>6. QED
  BY <1>1, <1>3, <1>4, <1>5

(* A round of Reconstruct.                                                 *)
LEMMA IntactRebuilt ==
    ASSUME Typed, CellInv, IntactInv, ReconstructRound PROVE IntactInv'
<1>1. /\ pc = "rebuild" /\ readShards(Got) = "ok"
      /\ buf' = [i \in All |-> IF i \in fill THEN RebuiltBlock(Got) ELSE <<>>]
      /\ Advance(Got, [i \in All |-> shardSize(Got)])
      /\ pc' \in Looping
      /\ UNCHANGED <<up, plain, lost, hurt, result>>
  BY DEF ReconstructRound, Looping, count
<1>2. /\ RemoteWhole' /\ (Good' <=> Good) /\ All' = All /\ Whole' = Whole
      /\ Missing' = Missing /\ PerShard' = PerShard /\ UNCHANGED remote
      /\ lost' \in Nat /\ hurt' \in Nat
  BY <1>1, GoodKept
<1>3. result' = "none"
  BY <1>1 DEF IntactInv, EndsOnce
<1>4. ASSUME Good
      PROVE  /\ \A i \in All : remote[i] # <<>> => Paced(i)'
             /\ \A i \in Missing : /\ RightFrom(plain[i], 0)
                                   /\ RightFrom(buf'[i], Len(plain[i]))
  <2>1. /\ StreamType /\ Open # {}
        /\ \A i \in Open : plain[i] = Whole /\ Paced(i)
        /\ \A i \in All : i \in Open <=> remote[i] # <<>>
    BY <1>1, <1>4, Readers
  <2>2. /\ read \in Nat /\ read <= PerShard /\ read # PerShard
    BY <1>1, <2>1, PacedRead
  <2>3. read < PerShard
    BY <2>2, WholeIs
  <2>4. shardSize(Got) = Chunk
    BY <2>1, <2>3, PacedRead
  <2>5. \A i \in Open : Paced(i)'
    <3> DEFINE l == [i \in All |-> shardSize(Got)]
    <3>1. \A i \in Open : l[i] = Chunk
      BY <2>4, OpenIs
    <3>2. Advance(Got, l)
      BY <1>1
    <3> HIDE DEF l
    <3>3. QED
      BY <1>2, <2>1, <2>3, <3>1, <3>2, PacedAdvance
  <2>6. RightFrom(RebuiltBlock(Got), read)
    BY <2>1, <2>3, BlockRight
  <2>7. ASSUME NEW i \in Missing
        PROVE  RightFrom(plain[i], 0) /\ RightFrom(buf'[i], Len(plain[i]))
    <3>1. i \in fill /\ i \in All /\ Len(plain[i]) = read
      BY <1>1 DEF CellInv, FetchInv, LengthInv, Looping, Missing
    <3>2. buf'[i] = RebuiltBlock(Got)
      BY <1>1, <3>1
    <3>3. RightFrom(plain[i], 0)
      BY <1>1, <1>4 DEF IntactInv, LoopRight, Looping
    <3>4. QED
      BY <2>6, <3>1, <3>2, <3>3
  <2>8. QED
    BY <2>1, <2>5, <2>7
<1>5. LoopRight'
  <2>1. UNCHANGED plain
    BY <1>1
  <2>2. QED
    BY <1>2, <1>4, <2>1 DEF LoopRight, RightFrom
<1>6. QED
  BY <1>1, <1>2, <1>3, <1>5
     DEF IntactInv, Looping, AgainWhole, JoinWhole, DecryptWhole, EndsOnce,
         IntactRestores

(* Reconstruct does not fail when enough shards are whole.                 *)
LEMMA IntactRebuilds ==
    ASSUME Typed, CellInv, IntactInv, ReconstructFails PROVE IntactInv'
<1>1. /\ pc = "rebuild" /\ pc' = "end" /\ UNCHANGED <<up, lost, hurt>>
      /\ \/ readShards(Got) = "ErrShardSize"
         \/ readShards(Got) = "EOF" /\ read = 0
         \/ readShards(Got) = "ok" /\ Cardinality(Used(Got)) < dataShards
  BY DEF ReconstructFails, End, count
<1>2. /\ RemoteWhole' /\ (Good' <=> Good) /\ lost' \in Nat /\ hurt' \in Nat
  BY <1>1, GoodKept
<1>3. ASSUME Good PROVE FALSE
  <2>1. /\ StreamType /\ Open # {} /\ Cardinality(Open) >= dataShards
        /\ \A i \in Open : plain[i] = Whole /\ Paced(i)
    BY <1>1, <1>3, Readers
  <2>2. /\ read \in Nat /\ read <= PerShard
        /\ read = PerShard => readShards(Got) = "EOF"
        /\ read < PerShard => readShards(Got) = "ok" /\ Used(Got) = Open
    BY <2>1, PacedRead
  <2>3. PerShard \in Nat \ {0} /\ dataShards \in Nat /\ parShards \in Nat
    BY WholeIs
  <2>4. Cardinality(Open) \in Nat
    BY <2>3, AllIs, OpenIs
  <2>5. CASE read = PerShard
    BY <1>1, <2>2, <2>3, <2>5
  <2>6. CASE read < PerShard
    BY <1>1, <2>1, <2>2, <2>3, <2>4, <2>6
  <2>7. QED
    BY <2>2, <2>3, <2>5, <2>6
<1>4. QED
  BY <1>1, <1>2, <1>3, IntactFails

(* A rebuilt block goes to the end of its shard.                           *)
LEMMA IntactWritten ==
    ASSUME Typed, CellInv, IntactInv, WriteShard PROVE IntactInv'
<1> DEFINE left == {i \in All : buf[i] # <<>>}
           w    == Min(left)
<1>1. /\ pc = "write" /\ plain' = [plain EXCEPT ![w] = @ \o buf[w]]
      /\ buf' = [buf EXCEPT ![w] = <<>>] /\ pc' \in Looping
      /\ UNCHANGED <<up, stream, lost, hurt, result>>
  BY DEF WriteShard, Looping, count
<1>2. /\ RemoteWhole' /\ (Good' <=> Good) /\ All' = All /\ Whole' = Whole
      /\ Missing' = Missing /\ PerShard' = PerShard /\ UNCHANGED remote
      /\ UNCHANGED <<pos, lens, read>> /\ lost' \in Nat /\ hurt' \in Nat
  BY <1>1, GoodKept DEF stream
<1>3. result' = "none"
  BY <1>1 DEF IntactInv, EndsOnce
<1>4. /\ StreamType /\ dataShards \in Nat /\ parShards \in Nat
      /\ buf \in [All -> Seq(Cells)] /\ left # {}
  BY <1>1, NumbersAre DEF Typed, Decoding, BufType
<1>5. w \in left /\ w \in All
  <2>1. left \in SUBSET Nat
    BY <1>4, AllIs
  <2>2. QED
    BY <1>4, <2>1, MinIs
<1> HIDE DEF w
<1>6. \A i \in All : i # w => plain'[i] = plain[i] /\ buf'[i] = buf[i]
  BY <1>1, <1>4 DEF StreamType
<1>7. plain'[w] = plain[w] \o buf[w] /\ buf'[w] = <<>>
  BY <1>1, <1>4, <1>5 DEF StreamType
<1>8. ASSUME Good, NEW i \in Missing
      PROVE  RightFrom(plain'[i], 0) /\ RightFrom(buf'[i], Len(plain'[i]))
  <2>1. /\ i \in All /\ RightFrom(plain[i], 0)
        /\ RightFrom(buf[i], Len(plain[i]))
    BY <1>1, <1>8 DEF IntactInv, LoopRight, Looping, Missing
  <2>2. CASE i # w
    BY <1>6, <2>1, <2>2
  <2>3. CASE i = w
    <3>1. PICK s \in Seq(Cells), t \in Seq(Cells) : s = plain[w] /\ t = buf[w]
      BY <1>4, <1>5 DEF StreamType
    <3>2. /\ Len(s) \in Nat /\ Len(t) \in Nat /\ Len(s \o t) = Len(s) + Len(t)
          /\ \A k \in 1 .. Len(s) + Len(t) :
                (s \o t)[k] = IF k <= Len(s) THEN s[k] ELSE t[k - Len(s)]
      BY ConcatProperties
    <3>3. ASSUME NEW k \in 1 .. Len(s \o t) PROVE (s \o t)[k] = 0 + k
      <4>1. CASE k <= Len(s)
        <5>1. k \in 1 .. Len(s) /\ (s \o t)[k] = s[k]
          BY <3>2, <4>1
        <5>2. QED
          BY <2>1, <2>3, <3>1, <5>1 DEF RightFrom
      <4>2. CASE ~(k <= Len(s))
        <5>1. /\ k - Len(s) \in 1 .. Len(t)
              /\ (s \o t)[k] = t[k - Len(s)]
              /\ Len(s) + (k - Len(s)) = 0 + k
          BY <3>2, <4>2
        <5>2. QED
          BY <2>1, <2>3, <3>1, <5>1 DEF RightFrom
      <4>3. QED
        BY <4>1, <4>2
    <3>4. RightFrom(plain'[i], 0)
      BY <1>7, <2>3, <3>1, <3>3 DEF RightFrom
    <3>5. RightFrom(buf'[i], Len(plain'[i]))
      BY <1>7, <2>3 DEF RightFrom
    <3>6. QED
      BY <3>4, <3>5
  <2>4. QED
    BY <2>2, <2>3
<1>9. ASSUME Good, NEW i \in All, remote[i] # <<>> PROVE Paced(i)'
  <2>1. Paced(i)
    BY <1>1, <1>9 DEF IntactInv, LoopRight, Looping
  <2>2. QED
    BY <1>2, <2>1 DEF Paced
<1>10. LoopRight'
  BY <1>2, <1>8, <1>9 DEF LoopRight, RightFrom
<1>11. QED
  BY <1>1, <1>2, <1>3, <1>10
     DEF IntactInv, Looping, AgainWhole, JoinWhole, DecryptWhole, EndsOnce,
         IntactRestores

(* Reconstruct is done: every shard is whole again.                        *)
LEMMA IntactReconstructed ==
    ASSUME Typed, CellInv, IntactInv, Reconstructed PROVE IntactInv'
<1>1. /\ pc = "rebuild" /\ pc' = "verifyAgain" /\ OpenInput
      /\ readShards(Got) = "EOF" /\ UNCHANGED <<up, plain, lost, hurt, result>>
  BY DEF Reconstructed, count
<1>2. /\ RemoteWhole' /\ (Good' <=> Good) /\ All' = All /\ Whole' = Whole
      /\ PerShard' = PerShard /\ lost' \in Nat /\ hurt' \in Nat
  BY <1>1, GoodKept
<1>3. result' = "none"
  BY <1>1 DEF IntactInv, EndsOnce
<1>4. ASSUME Good, NEW i \in All PROVE plain[i] = Whole
  <2>1. /\ StreamType /\ Open # {}
        /\ \A j \in Open : plain[j] = Whole /\ Paced(j)
        /\ \A j \in All : j \in Open <=> remote[j] # <<>>
    BY <1>1, <1>4, Readers
  <2>2. CASE i \in Open
    BY <2>1, <2>2
  <2>3. CASE i \notin Open
    <3>1. i \in Missing
      BY <2>1, <2>3 DEF Missing
    <3>2. RightFrom(plain[i], 0) /\ Len(plain[i]) = read
      BY <1>1, <1>4, <3>1
         DEF IntactInv, LoopRight, Looping, CellInv, LengthInv
    <3>3. read = PerShard
      <4>1. /\ read \in Nat /\ read <= PerShard
            /\ read < PerShard => readShards(Got) = "ok"
        BY <2>1, PacedRead
      <4>2. ~(read < PerShard)
        BY <1>1, <4>1
      <4>3. PerShard \in Nat
        BY WholeIs
      <4>4. QED
        BY <4>1, <4>2, <4>3
    <3>4. plain[i] \in Seq(Cells) /\ Whole \in Seq(Cells)
      <4>1. PICK P \in Nat : P = PerShard
        BY WholeIs
      <4>2. Whole = [r \in 1 .. P |-> r]
        BY <4>1 DEF Whole
      <4>3. \A r \in 1 .. P : r \in Cells
        BY DEF Cells
      <4>4. Whole \in Seq(Cells)
        BY <4>2, <4>3
      <4>5. QED
        BY <2>1, <4>4 DEF StreamType
    <3>5. PICK P \in Nat : /\ P = PerShard /\ Len(plain[i]) = P
                           /\ Len(Whole) = P
                           /\ \A k \in 1 .. P : Whole[k] = k
      BY <3>2, <3>3, WholeIs
    <3>6. \A k \in 1 .. P : plain[i][k] = k
      BY <3>2, <3>5 DEF RightFrom
    <3>7. QED
      BY <3>4, <3>5, <3>6, SeqEqual
  <2>4. QED
    BY <2>2, <2>3
<1>5. \A i \in All : Paced(i)'
  BY <1>1, <1>2, PacedStart
<1>6. AgainWhole'
  BY <1>1, <1>2, <1>4, <1>5 DEF AgainWhole
<1>7. QED
  BY <1>1, <1>2, <1>3, <1>6
     DEF IntactInv, Looping, LoopRight, JoinWhole, DecryptWhole, EndsOnce,
         IntactRestores

(* Verify has nothing against shards that are whole.                       *)
LEMMA IntactAccepted ==
    ASSUME Typed, CellInv, IntactInv, NotVerifiedAgain PROVE IntactInv'
<1>1. /\ pc = "verifyAgain" /\ pc' = "end" /\ UNCHANGED <<up, lost, hurt>>
      /\ Verify(Got) \in {"error", "invalid"}
  BY DEF NotVerifiedAgain, End, count
<1>2. /\ RemoteWhole' /\ (Good' <=> Good) /\ lost' \in Nat /\ hurt' \in Nat
  BY <1>1, GoodKept
<1>3. ASSUME Good PROVE FALSE
  <2>1. \A i \in All : plain[i] = Whole /\ Paced(i)
    BY <1>1, <1>3 DEF IntactInv, AgainWhole
  <2>2. Open = All /\ 1 \in All
    BY <1>1, <2>1, OpenAgain
  <2>3. StreamType
    BY <1>1 DEF Typed, Decoding
  <2>4. /\ read \in Nat /\ read <= PerShard
        /\ \A i \in All : Got[i] = Chunk
        /\ read = PerShard => readShards(Got) = "EOF"
        /\ read < PerShard => /\ readShards(Got) = "ok"
                              /\ shardSize(Got) = Chunk /\ Chunk > 0
    BY <2>1, <2>2, <2>3, PacedRead
  <2>5. PerShard \in Nat \ {0}
    BY WholeIs
  <2>6. CASE read = PerShard
    BY <1>1, <2>4, <2>5, <2>6 DEF Verify
  <2>7. CASE read < PerShard
    <3> DEFINE n == shardSize(Got)
               good == \A k \in 1 .. n :
                          Codeword([i \in All |-> plain[i][pos[i] + k]])
    <3>1. n # 0 /\ \A i \in All : Got[i] = n
      BY <2>4, <2>7
    <3>2. ASSUME NEW k \in 1 .. n
          PROVE  Codeword([i \in All |-> plain[i][pos[i] + k]])
      <4> DEFINE row == [i \in All |-> plain[i][pos[i] + k]]
      <4>1. read + Chunk <= PerShard /\ Chunk \in Nat
        BY <2>1, <2>2, <2>3, <2>7, ChunkIs
      <4>2. read + k \in 1 .. PerShard /\ read + k > 0
        BY <2>4, <2>5, <2>7, <4>1
      <4>3. Whole[read + k] = read + k
        BY <4>2, WholeIs
      <4>4. \A i \in All : row[i] = read + k
        BY <2>1, <4>3 DEF Paced
      <4>5. row[1] > 0 /\ \A i \in All : row[i] = row[1]
        BY <2>2, <4>2, <4>4
      <4> HIDE DEF row
      <4>6. Codeword(row)
        BY <4>5 DEF Codeword
      <4>7. QED
        BY <4>6 DEF row
    <3>3. readShards(Got) = "ok"
      BY <2>4, <2>7
    <3>4. Verify(Got) = "more"
      BY <3>1, <3>2, <3>3 DEF Verify
    <3>5. QED
      BY <1>1, <3>4
  <2>8. QED
    BY <2>4, <2>5, <2>6, <2>7
<1>4. QED
  BY <1>1, <1>2, <1>3, IntactFails

(* A sequence that is read to its end is read whole.                       *)
LEMMA ReadAll ==
    ASSUME NEW S, NEW s \in Seq(S) PROVE SubSeq(s, 1, Len(s)) = s
<1>1. Len(s) \in Nat /\ \A k \in 1 .. Len(s) : s[k] \in S
  OBVIOUS
<1>2. PICK n \in Nat : n = Len(s) /\ n - 1 + 1 = n
  BY <1>1
<1>3. /\ SubSeq(s, 1, n) \in Seq(S) /\ Len(SubSeq(s, 1, n)) = n
      /\ \A k \in 1 .. n : SubSeq(s, 1, n)[k] = s[k]
  BY <1>1, <1>2
<1>4. QED
  BY <1>2, <1>3, SeqEqual

(* The joined file, and its length.                                        *)
LEMMA ShelvedIs ==
    ASSUME NEW p \in Nat \ {0}, NEW n \in Nat
    PROVE  /\ n * p \in Nat
           /\ Shelved(p, n) \in Seq({Place(p, k) : k \in Nat})
           /\ Len(Shelved(p, n)) = n * p
           /\ \A k \in 1 .. n * p : Shelved(p, n)[k] = Place(p, k)
<1>1. PICK m \in Nat : m = n * p
  OBVIOUS
<1>2. Shelved(p, n) = [k \in 1 .. m |-> Place(p, k)]
  BY <1>1 DEF Shelved
<1>3. QED
  BY <1>1, <1>2

(* Join puts whole shards together.                                        *)
LEMMA IntactJoined ==
    ASSUME Typed, IntactInv, Join PROVE IntactInv'
<1>1. /\ pc = "join" /\ UNCHANGED <<up, lost, hurt>>
      /\ \/ /\ Data \subseteq Open /\ Len(Joined) >= JoinSize
            /\ out' = SubSeq(Joined, 1, JoinSize)
            /\ pc' = "decrypt" /\ UNCHANGED result
         \/ /\ ~(Data \subseteq Open /\ Len(Joined) >= JoinSize)
            /\ pc' = "end"
  BY DEF Join, End, count
<1>2. /\ RemoteWhole' /\ (Good' <=> Good) /\ PerShard' = PerShard
      /\ dataShards' = dataShards /\ lost' \in Nat /\ hurt' \in Nat
  BY <1>1, GoodKept
<1>3. result = "none"
  BY <1>1 DEF IntactInv, EndsOnce
<1>4. PICK P \in Nat \ {0}, d \in Nat \ {0}, q \in Nat :
         /\ P = PerShard /\ d = dataShards /\ q = parShards
  BY WholeIs
<1>5. ASSUME Good
      PROVE  /\ Data \subseteq Open /\ Joined = Shelved(P, d)
             /\ JoinSize = Len(Joined) /\ Len(Joined) \in Nat
             /\ SubSeq(Joined, 1, JoinSize) = Joined
  <2>1. \A i \in All : plain[i] = Whole
    BY <1>1, <1>5 DEF IntactInv, JoinWhole
  <2>2. Open = All
    BY <1>1, <2>1, OpenAgain
  <2>3. Data = 1 .. d /\ All = 1 .. d + q /\ Data \subseteq All
    BY <1>4 DEF Data, All
  <2>4. Max(Open) \in All
    <3>1. d + q \in All /\ \A j \in All : d + q >= j
      BY <1>4, <2>3
    <3>2. QED
      BY <2>2, <3>1 DEF Max
  <2>5. Len(Whole) = P /\ \A k \in 1 .. P : Whole[k] = k
    BY <1>4, WholeIs
  <2>6. JoinSize = d * P
    BY <1>4, <2>1, <2>4, <2>5 DEF JoinSize
  <2>7. [i \in Data |-> [k \in 1 .. Len(plain[i]) |-> <<i, plain[i][k]>>]]
           = [i \in 1 .. d |-> [k \in 1 .. P |-> <<i, k>>]]
    <3>1. ASSUME NEW i \in Data
          PROVE  [k \in 1 .. Len(plain[i]) |-> <<i, plain[i][k]>>]
                     = [k \in 1 .. P |-> <<i, k>>]
      <4>1. plain[i] = Whole
        BY <2>1, <2>3
      <4>2. Len(plain[i]) = P /\ \A k \in 1 .. P : plain[i][k] = k
        BY <2>5, <4>1
      <4>3. QED
        BY <4>2
    <3>2. QED
      BY <2>3, <3>1
  <2>8. Joined = Shelved(P, d)
    <3>1. Joined = FlattenSeq([i \in 1 .. d |-> [k \in 1 .. P |-> <<i, k>>]])
      BY <2>7 DEF Joined
    <3>2. QED
      BY <3>1, FlattenIs, Zenon
  <2>9. /\ Len(Joined) = d * P /\ d * P \in Nat
        /\ Joined \in Seq({Place(P, k) : k \in Nat})
    BY <2>8, ShelvedIs
  <2>10. SubSeq(Joined, 1, Len(Joined)) = Joined
    BY <2>9, ReadAll
  <2>11. QED
    BY <2>2, <2>3, <2>6, <2>8, <2>9, <2>10
<1>6. CASE Good
  <2>1. /\ pc' = "decrypt" /\ UNCHANGED result
        /\ out' = SubSeq(Joined, 1, JoinSize)
    BY <1>1, <1>5, <1>6
  <2>2. out' = Shelved(P, d)
    BY <1>5, <1>6, <2>1
  <2>3. DecryptWhole'
    BY <1>2, <1>4, <2>2 DEF DecryptWhole, Shelved, Place
  <2>4. QED
    BY <1>2, <1>3, <2>1, <2>3
       DEF IntactInv, Looping, LoopRight, AgainWhole, JoinWhole, EndsOnce,
           IntactRestores
<1>7. CASE ~Good
  <2>1. pc' = "end" \/ (pc' = "decrypt" /\ result' = "none")
    BY <1>1, <1>3
  <2>2. QED
    BY <1>2, <1>7, <2>1, IntactFails
       DEF IntactInv, Looping, LoopRight, AgainWhole, JoinWhole, DecryptWhole,
           EndsOnce, IntactRestores
<1>8. QED
  BY <1>6, <1>7

(* trimPadding takes off the zeros that Split added, and nothing else.     *)
LEMMA TrimmedIs ==
    ASSUME Typed, padding = Split, out = Shelved(PerShard, dataShards)
    PROVE  trimPadding(out) = Cipher
<1>1. PICK P \in Nat \ {0}, d \in Nat \ {0}, N \in Nat \ {0} :
         /\ P = PerShard /\ d = dataShards /\ N = size + Overhead
  BY WholeIs
<1>2. PICK m \in Nat : m = d * P
  OBVIOUS
<1>3. PICK z \in Nat : z = padding /\ z = m - N
  <2>1. Split \in Nat /\ Split = dataShards * PerShard - (size + Overhead)
    BY WholeIs
  <2>2. QED
    BY <1>1, <1>2, <2>1
<1>4. N <= m /\ m - z = N /\ ~(m <= z)
  BY <1>3
<1>5. /\ out \in Seq({Place(P, k) : k \in Nat}) /\ Len(out) = m
      /\ \A k \in 1 .. m : out[k] = Place(P, k)
  <2>1. /\ Shelved(P, d) \in Seq({Place(P, k) : k \in Nat})
        /\ Len(Shelved(P, d)) = d * P
        /\ \A k \in 1 .. d * P : Shelved(P, d)[k] = Place(P, k)
    BY ShelvedIs
  <2>2. QED
    BY <1>1, <1>2, <2>1
<1>6. Cipher = [k \in 1 .. N |-> Place(P, k)]
  BY <1>1 DEF Cipher, Place
<1>7. SubSeq(out, 1, N) = Cipher
  <2> DEFINE S == {Place(P, k) : k \in Nat}
  <2>1. /\ Cipher \in Seq(S) /\ Len(Cipher) = N
        /\ \A k \in 1 .. N : Cipher[k] = Place(P, k)
    BY <1>6
  <2>2. N - 1 + 1 = N /\ \A k \in 1 .. N : k \in 1 .. m
    BY <1>4
  <2>3. \A k \in 1 .. N : out[k] \in S
    BY <1>5, <2>2
  <2>4. /\ SubSeq(out, 1, N) \in Seq(S) /\ Len(SubSeq(out, 1, N)) = N
        /\ \A k \in 1 .. N : SubSeq(out, 1, N)[k] = out[k]
    BY <1>4, <1>5, <2>2, <2>3
  <2>5. \A k \in 1 .. N : SubSeq(out, 1, N)[k] = Cipher[k]
    BY <1>5, <2>1, <2>2, <2>4
  <2> HIDE DEF S
  <2>6. QED
    BY <2>1, <2>4, <2>5, SeqEqual
<1>8. ASSUME NEW k \in N + 1 .. m PROVE Zero(out[k])
  <2>1. k \in 1 .. m /\ k - 1 \in Nat
    OBVIOUS
  <2>2. out[k] = <<((k - 1) \div P) + 1, ((k - 1) % P) + 1>>
    BY <1>5, <2>1 DEF Place
  <2>3. PICK a \in Nat : a = k - 1
    BY <2>1
  <2>4. a \div P \in Nat /\ a % P \in 0 .. (P - 1) /\ a = P * (a \div P) + (a % P)
    OBVIOUS
  <2>5. PICK x \in Nat, y \in Nat : a = P * x + y /\ x = a \div P /\ y = a % P
    BY <2>4
  <2>6. out[k] = <<x + 1, y + 1>>
    BY <2>2, <2>3, <2>5
  <2>7. ((x + 1) - 1) * P + (y + 1) = k
    <3>1. (x + 1) - 1 = x
      OBVIOUS
    <3>2. PICK u \in Nat : u = x * P /\ u = P * x
      OBVIOUS
    <3>3. u + (y + 1) = k
      <4>1. a = u + y
        BY <2>5, <3>2
      <4>2. QED
        BY <2>3, <4>1
    <3>4. QED
      BY <3>1, <3>2, <3>3
  <2>8. out[k][1] = x + 1 /\ out[k][2] = y + 1 /\ y + 1 > 0 /\ k > N
    BY <2>6
  <2>9. (out[k][1] - 1) * PerShard + out[k][2] > size + Overhead
    BY <1>1, <2>7, <2>8
  <2>10. QED
    BY <2>8, <2>9 DEF Zero
<1>9. CASE z = 0
  <2>1. trimPadding(out) = out
    BY <1>3, <1>9 DEF trimPadding
  <2>2. N = m
    BY <1>4, <1>9
  <2>3. SubSeq(out, 1, N) = out
    BY <1>5, <2>2, ReadAll
  <2>4. QED
    BY <1>7, <2>1, <2>3
<1>10. CASE z # 0
  <2>1. \A k \in Len(out) - padding + 1 .. Len(out) : Zero(out[k])
    BY <1>3, <1>4, <1>5, <1>8
  <2>2. ~(padding = 0 \/ Len(out) <= padding)
    BY <1>3, <1>4, <1>5, <1>10
  <2>3. trimPadding(out) = SubSeq(out, 1, Len(out) - padding)
    BY <2>1, <2>2 DEF trimPadding
  <2>4. Len(out) - padding = N
    BY <1>3, <1>4, <1>5
  <2>5. QED
    BY <1>7, <2>3, <2>4
<1>11. QED
  BY <1>9, <1>10

(* The file that was joined is the one that was encrypted.                 *)
LEMMA IntactDecrypted ==
    ASSUME Typed, IntactInv, Decrypt PROVE IntactInv'
<1>1. /\ pc = "decrypt" /\ out' = trimPadding(out) /\ pc' = "end"
      /\ result' = (IF out' = Cipher THEN "restored" ELSE "failed")
      /\ UNCHANGED <<up, lost, hurt>>
  BY DEF Decrypt, End, count
<1>2. /\ RemoteWhole' /\ (Good' <=> Good) /\ lost' \in Nat /\ hurt' \in Nat
  BY <1>1, GoodKept
<1>3. CASE ~Good
  BY <1>1, <1>2, <1>3, IntactFails
<1>4. CASE Good
  <2>1. padding = Split /\ out = Shelved(PerShard, dataShards)
    BY <1>1, <1>4 DEF IntactInv, RemoteWhole, DecryptWhole, Good
  <2>2. result' = "restored"
    BY <1>1, <2>1, TrimmedIs
  <2>3. QED
    BY <1>1, <1>2, <2>2
       DEF IntactInv, Looping, LoopRight, AgainWhole, JoinWhole, DecryptWhole,
           EndsOnce, IntactRestores
<1>5. QED
  BY <1>3, <1>4

(* Every step keeps what is known of a good file.                          *)
LEMMA IntactStep ==
    Typed /\ CellInv /\ IntactInv /\ [Next]_vars => IntactInv'
<1> SUFFICES ASSUME Typed, CellInv, IntactInv, [Next]_vars PROVE IntactInv'
  OBVIOUS
<1>1. CASE UNCHANGED vars
  <2>1. UNCHANGED <<pc, size, dataShards, parShards, padding, remote, plain,
                    pos, lens, read, buf, out, result, lost, hurt>>
    BY <1>1 DEF vars, up, stream, count
  <2>2. /\ All' = All /\ Missing' = Missing /\ PerShard' = PerShard
        /\ (Good' <=> Good)
    BY <2>1 DEF All, Missing, PerShard, Good
  <2>3. Whole' = Whole /\ Split' = Split
    BY <2>1, <2>2 DEF Whole, Split
  <2>4. \A i : Paced(i)' <=> Paced(i)
    BY <2>1, <2>2 DEF Paced
  <2>5. RemoteWhole' /\ AgainWhole' /\ JoinWhole'
    BY <2>1, <2>2, <2>3, <2>4
       DEF IntactInv, RemoteWhole, AgainWhole, JoinWhole
  <2>6. LoopRight'
    BY <2>1, <2>2, <2>4 DEF IntactInv, LoopRight, RightFrom, Looping
  <2>7. DecryptWhole'
    BY <2>1, <2>2 DEF IntactInv, DecryptWhole, Shelved, Place
  <2>8. QED
    BY <2>1, <2>2, <2>5, <2>6, <2>7 DEF IntactInv, EndsOnce, IntactRestores
<1>2. QED
  BY <1>1, IntactStored, IntactStarts, IntactVerified, IntactValid,
     IntactInvalid, IntactRebuilt, IntactRebuilds, IntactWritten,
     IntactReconstructed, IntactAccepted, IntactJoined, IntactDecrypted
     DEF Next, Decode

(* A download restores the file from any dataShards shards that are whole, *)
(* for every size of the file and of the blocks, however many shards       *)
(* DoEncode made of it, and also after downloads that died: splitting and  *)
(* joining, padding and trimming, verifying and rebuilding undo each other.*)
THEOREM IntactIsRestored == Spec => []IntactRestores
<1>1. Init => IntactInv
  BY DEF Init, IntactInv, RemoteWhole, LoopRight, AgainWhole, JoinWhole,
     DecryptWhole, EndsOnce, IntactRestores, Looping
<1>2. IntactInv => IntactRestores
  BY DEF IntactInv
<1>3. QED
  BY <1>1, <1>2, IntactStep, TypedInit, TypedStep, CellsInit, CellsStep, PTL
     DEF Spec

=============================================================================
