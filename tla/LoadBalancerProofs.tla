------------------------- MODULE LoadBalancerProofs -------------------------
(***************************************************************************)
(* Theorems about the load balancer, for every set of remotes, every       *)
(* configuration and every number of calls, kills, failures and edits.     *)
(*                                                                         *)
(* The argument.  As long as processes make their calls one after the      *)
(* other, what a call is about to write is the file's content with its one *)
(* change (FileInv), so nothing recorded is lost and the counter moves by  *)
(* one with every pick that is not cut short and whose file is read and    *)
(* written.  The picks then go around the configured remotes: those the    *)
(* round has already come to are one ahead of the others, and each kill    *)
(* and each system call that fails adds one at most (EvenInv).             *)
(***************************************************************************)
EXTENDS LoadBalancer, SequenceTheorems, FiniteSetTheorems, TLAPS

(* The history variables.                                                  *)
GhostType ==
    /\ log   \in [Directions -> [Remotes -> Seq(Nat)]]
    /\ picks \in [Remotes -> Nat]
    /\ cuts  \in Nat /\ fails \in Nat
    /\ together \in BOOLEAN /\ spoilt \in BOOLEAN

Short(i) == \A d \in Directions, r \in Remotes :
                Len(i.history[d][r]) <= MaxEntries

(* Which calls come where.                                                 *)
ControlInv ==
    \A p \in Procs :
        /\ pc[p] # "idle" => req[p] \in Requests
        /\ pc[p] = "increment" => req[p].op = "allocate"
        /\ Short(pend[p])

(* No remote is configured twice.                                          *)
ConfigInv == \A i, j \in 1..Len(config) : config[i] = config[j] => i = j

(* What a call is about to write.                                          *)
Fits(p) ==
    /\ req[p].op = "allocate" =>
          pend[p] = [info EXCEPT !.counter = @ + 1]
    /\ req[p].op = "record" =>
          pend[p] = [info EXCEPT !.history[req[p].dir][req[p].remote] =
                        UpdateThroughput(@, req[p].speed)]

FileAt(p) ==
    /\ pc[p] = "create" => info = NewInfo /\ log = NewInfo.history
    /\ pc[p] \in {"increment", "truncate"} => kind = "whole"
    /\ pc[p] = "read" /\ ~spoilt => kind = "whole"
    /\ pc[p] \in {"truncate", "write"} => Fits(p)

Solo == \A p, o \in Procs : pc[p] # "idle" /\ pc[o] # "idle" => p = o

(* The newest MaxEntries of the throughputs recorded.                      *)
Newest(h) ==
    SubSeq(h, IF Len(h) > MaxEntries THEN Len(h) - MaxEntries + 1 ELSE 1,
           Len(h))

FileInv ==
    ~together =>
        /\ Solo
        /\ \A p \in Procs : FileAt(p)
        /\ kind = "missing" => info = NewInfo /\ log = NewInfo.history
        /\ kind = "unreadable" /\ ~spoilt =>
              \E p \in Procs : pc[p] \in {"create", "write"}
        /\ \A d \in Directions, r \in Remotes :
              info.history[d][r] = Newest(log[d][r])

(* A pick has been made that the counter does not show yet.                *)
PickedAt(p) ==
    \/ pc[p] = "increment"
    \/ pc[p] \in {"truncate", "write"} /\ req[p].op = "allocate"

Counter == IF \E p \in Procs : PickedAt(p) THEN info.counter + 1
                                           ELSE info.counter

(* The round goes from b up to, and not including, e.                      *)
Ahead(b, e, i) == IF b <= e THEN b <= i /\ i < e ELSE b <= i \/ i < e

Lead(b, e, i) == IF Ahead(b, e, i) THEN 1 ELSE 0

(* The kills and failures that may have kept a pick from being counted.    *)
Lost == cuts + fails

Even(b, k, e) ==
    \A i \in 0..(Len(config) - 1) :
        /\ k + Lead(b, e, i) <= picks[config[i + 1]]
        /\ picks[config[i + 1]] <= k + Lead(b, e, i) + Lost

EvenInv ==
    config # <<>> /\ ~together =>
        \E b \in 0..(Len(config) - 1), k \in Nat :
            Even(b, k, Counter % Len(config))

-----------------------------------------------------------------------------
(* Going around.                                                           *)

(* The next number is one further round, or back at the beginning.         *)
LEMMA NextTurn ==
    ASSUME NEW c \in Nat, NEW n \in Nat \ {0}
    PROVE  /\ c % n \in 0..(n - 1)
           /\ (c + 1) % n = IF c % n = n - 1 THEN 0 ELSE (c % n) + 1
<1> DEFINE q == c \div n
           r == c % n
           q1 == (c + 1) \div n
           r1 == (c + 1) % n
<1>1. q \in Int /\ r \in 0..(n - 1) /\ c = n * q + r
  OBVIOUS
<1>2. q1 \in Int /\ r1 \in 0..(n - 1) /\ c + 1 = n * q1 + r1
  OBVIOUS
<1> HIDE DEF q, r, q1, r1
<1>3. ASSUME q1 > q + 1 PROVE FALSE
  <2>1. n * q1 >= n * (q + 2)
    BY <1>1, <1>2, <1>3
  <2>2. n * (q + 2) = n * q + 2 * n
    BY <1>1
  <2>3. QED
    BY <1>1, <1>2, <2>1, <2>2
<1>4. ASSUME q1 < q PROVE FALSE
  <2>1. n * (q1 + 1) <= n * q
    BY <1>1, <1>2, <1>4
  <2>2. n * (q1 + 1) = n * q1 + n
    BY <1>2
  <2>3. QED
    BY <1>1, <1>2, <2>1, <2>2
<1>5. q1 = q \/ q1 = q + 1
  BY <1>1, <1>2, <1>3, <1>4
<1>6. n * (q + 1) = n * q + n
  BY <1>1
<1>7. r1 = IF r = n - 1 THEN 0 ELSE r + 1
  BY <1>1, <1>2, <1>5, <1>6
<1>8. QED
  BY <1>1, <1>7 DEF r, r1

-----------------------------------------------------------------------------
(* Histories.                                                              *)

(* maxEntries is positive.                                                 *)
LEMMA EntriesType == MaxEntries \in Nat \ {0}
BY LimitsAssumption

(* The newest entries are the last MaxEntries, or all.                     *)
LEMMA NewestIs ==
    ASSUME NEW h \in Seq(Nat)
    PROVE  /\ Newest(h) \in Seq(Nat)
           /\ Len(h) <= MaxEntries => Newest(h) = h
           /\ Len(h) > MaxEntries =>
                 /\ Len(Newest(h)) = MaxEntries
                 /\ \A i \in 1..MaxEntries :
                       Newest(h)[i] = h[Len(h) - MaxEntries + i]
<1> USE EntriesType
<1>1. Len(h) \in Nat /\ \A i \in 1..Len(h) : h[i] \in Nat
  BY LenProperties, ElementOfSeq
<1>2. CASE Len(h) <= MaxEntries
  <2>0. (IF Len(h) > MaxEntries THEN Len(h) - MaxEntries + 1 ELSE 1) = 1
    BY <1>1, <1>2
  <2>1. Newest(h) = SubSeq(h, 1, Len(h))
    BY <2>0, Zenon DEF Newest
  <2>2. Newest(h) = h
    BY <2>1, SubSeqFull
  <2>3. QED
    BY <1>1, <1>2, <2>2
<1>3. CASE Len(h) > MaxEntries
  <2> DEFINE m == Len(h) - MaxEntries + 1
  <2>1. m \in Int /\ m >= 1 /\ m <= Len(h)
    BY <1>1, <1>3
  <2>2. Newest(h) = SubSeq(h, m, Len(h))
    BY <1>3 DEF Newest
  <2> HIDE DEF m
  <2>3. \A i \in m..Len(h) : h[i] \in Nat
    BY <1>1, <2>1
  <2>4. /\ SubSeq(h, m, Len(h)) \in Seq(Nat)
        /\ Len(SubSeq(h, m, Len(h))) = Len(h) - m + 1
        /\ \A i \in 1..(Len(h) - m + 1) : SubSeq(h, m, Len(h))[i] = h[m + i - 1]
    BY <1>1, <2>1, <2>3, SubSeqProperties
  <2>5. Len(h) - m + 1 = MaxEntries
        /\ \A i \in 1..MaxEntries : m + i - 1 = Len(h) - MaxEntries + i
    BY <1>1 DEF m
  <2>6. QED
    BY <1>1, <1>3, <2>2, <2>4, <2>5
<1>4. QED
  BY <1>1, <1>2, <1>3

(* UpdateThroughput keeps the newest of the history and one more.          *)
LEMMA UpdateNewest ==
    ASSUME NEW h \in Seq(Nat), NEW x \in Nat
    PROVE  UpdateThroughput(h, x) = Newest(Append(h, x))
<1> DEFINE a == Append(h, x)
<1>1. a \in Seq(Nat) /\ Len(a) \in Nat
  BY AppendProperties, LenProperties
<1>2. UpdateThroughput(h, x) =
         IF Len(a) > MaxEntries
           THEN SubSeq(a, Len(a) - MaxEntries + 1, Len(a)) ELSE a
  BY DEF UpdateThroughput
<1> HIDE DEF a
<1>3. Newest(a) = IF Len(a) > MaxEntries
                    THEN SubSeq(a, Len(a) - MaxEntries + 1, Len(a)) ELSE a
  <2>1. CASE Len(a) > MaxEntries
    BY <2>1, Zenon DEF Newest
  <2>2. CASE ~(Len(a) > MaxEntries)
    <3>1. Len(a) <= MaxEntries
      BY <1>1, <2>2, EntriesType
    <3>2. Newest(a) = a
      BY <1>1, <3>1, NewestIs
    <3>3. QED
      BY <2>2, <3>2
  <2>3. QED
    BY <2>1, <2>2
<1>4. QED
  BY <1>2, <1>3 DEF a

(* Adding a throughput to the newest ones keeps the newest of all.         *)
LEMMA RecordNewest ==
    ASSUME NEW h \in Seq(Nat), NEW x \in Nat
    PROVE  /\ Append(h, x) \in Seq(Nat)
           /\ UpdateThroughput(Newest(h), x) = Newest(Append(h, x))
<1> USE EntriesType
<1> DEFINE g == Append(h, x)
           n == Newest(h)
           a == Append(n, x)
<1>1. /\ g \in Seq(Nat) /\ Len(g) = Len(h) + 1 /\ Len(h) \in Nat
      /\ \A i \in 1..Len(h) : g[i] = h[i]
      /\ g[Len(h) + 1] = x
  BY AppendProperties, LenProperties
<1>2. /\ n \in Seq(Nat) /\ Len(n) \in Nat
      /\ a \in Seq(Nat) /\ Len(a) = Len(n) + 1
      /\ \A i \in 1..Len(n) : a[i] = n[i]
      /\ a[Len(n) + 1] = x
  BY NewestIs, AppendProperties, LenProperties
<1>3. UpdateThroughput(n, x) = Newest(a)
  BY <1>2, UpdateNewest
<1> HIDE DEF g, n, a
<1>4. CASE Len(h) <= MaxEntries
  <2>1. n = h
    BY <1>4, NewestIs DEF n
  <2>2. QED
    BY <1>1, <1>3, <2>1 DEF g, n, a
<1>5. CASE Len(h) > MaxEntries
  <2>1. Len(n) = MaxEntries
        /\ \A i \in 1..MaxEntries : n[i] = h[Len(h) - MaxEntries + i]
    BY <1>5, NewestIs DEF n
  <2>2. /\ Newest(a) \in Seq(Nat) /\ Newest(g) \in Seq(Nat)
        /\ Len(Newest(a)) = MaxEntries /\ Len(Newest(g)) = MaxEntries
        /\ \A i \in 1..MaxEntries :
              /\ Newest(a)[i] = a[Len(a) - MaxEntries + i]
              /\ Newest(g)[i] = g[Len(g) - MaxEntries + i]
    <3>1. a \in Seq(Nat) /\ Len(a) > MaxEntries
      BY <1>2, <2>1
    <3>2. g \in Seq(Nat) /\ Len(g) > MaxEntries
      BY <1>1, <1>5
    <3>3. QED
      BY <3>1, <3>2, NewestIs
  <2>3. ASSUME NEW i \in 1..MaxEntries PROVE Newest(a)[i] = Newest(g)[i]
    <3>1. Newest(a)[i] = a[1 + i] /\ Newest(g)[i] = g[Len(h) + 1 - MaxEntries + i]
      BY <1>1, <1>2, <2>1, <2>2
    <3>2. CASE i = MaxEntries
      BY <1>1, <1>2, <2>1, <3>1, <3>2
    <3>3. CASE i < MaxEntries
      <4>1. a[1 + i] = n[1 + i]
        BY <1>2, <2>1, <3>3
      <4>2. n[1 + i] = h[Len(h) - MaxEntries + (1 + i)]
        BY <2>1, <3>3
      <4>3. Len(h) + 1 - MaxEntries + i \in 1..Len(h)
            /\ Len(h) + 1 - MaxEntries + i = Len(h) - MaxEntries + (1 + i)
        BY <1>1, <1>5, <3>3
      <4>4. g[Len(h) + 1 - MaxEntries + i] = h[Len(h) + 1 - MaxEntries + i]
        BY <1>1, <4>3
      <4>5. QED
        BY <3>1, <4>1, <4>2, <4>3, <4>4
    <3>4. QED
      BY <3>2, <3>3
  <2>4. Newest(a) = Newest(g)
    BY <2>2, <2>3, SeqEqual
  <2>5. QED
    BY <1>1, <1>3, <2>4 DEF g, n
<1>6. QED
  BY <1>1, <1>4, <1>5

(* A history that is short stays short.                                    *)
LEMMA UpdateShort ==
    ASSUME NEW h \in Seq(Nat), NEW x \in Nat
    PROVE  /\ UpdateThroughput(h, x) \in Seq(Nat)
           /\ Len(UpdateThroughput(h, x)) <= MaxEntries
<1>1. Append(h, x) \in Seq(Nat) /\ Len(Append(h, x)) \in Nat
  BY AppendProperties, LenProperties
<1>2. UpdateThroughput(h, x) = Newest(Append(h, x))
  BY UpdateNewest
<1> DEFINE g == Append(h, x)
<1>3. g \in Seq(Nat) /\ Len(g) \in Nat /\ UpdateThroughput(h, x) = Newest(g)
  BY <1>1, <1>2
<1> HIDE DEF g
<1>4. Newest(g) \in Seq(Nat) /\ Len(Newest(g)) <= MaxEntries
  <2>1. CASE Len(g) > MaxEntries
    BY <1>3, <2>1, NewestIs, EntriesType
  <2>2. CASE Len(g) <= MaxEntries
    BY <1>3, <2>2, NewestIs, EntriesType
  <2>3. QED
    BY <1>3, <2>1, <2>2, EntriesType
<1>5. QED
  BY <1>3, <1>4

-----------------------------------------------------------------------------
(* Types and control.                                                      *)

(* A configuration without its i-th remote.                                *)
LEMMA RemoveAtIs ==
    ASSUME NEW c \in Seq(Remotes), NEW i \in 1..Len(c)
    PROVE  /\ RemoveAt(c, i) \in Seq(Remotes)
           /\ Len(RemoveAt(c, i)) = Len(c) - 1
           /\ \A j \in 1..(Len(c) - 1) :
                 RemoveAt(c, i)[j] = IF j < i THEN c[j] ELSE c[j + 1]
<1> DEFINE a == SubSeq(c, 1, i - 1)
           b == SubSeq(c, i + 1, Len(c))
<1>1. Len(c) \in Nat /\ i \in Int /\ 1 <= i /\ i <= Len(c)
      /\ \A j \in 1..Len(c) : c[j] \in Remotes
  BY LenProperties, ElementOfSeq
<1>2. /\ a \in Seq(Remotes) /\ Len(a) = i - 1
      /\ \A j \in 1..(i - 1) : a[j] = c[j]
  <2>1. \A j \in 1..(i - 1) : c[j] \in Remotes
    BY <1>1
  <2>2. /\ a \in Seq(Remotes)
        /\ Len(a) = IF 1 <= i - 1 THEN (i - 1) - 1 + 1 ELSE 0
        /\ \A j \in 1..((i - 1) - 1 + 1) : a[j] = c[1 + j - 1]
    BY <1>1, <2>1, SubSeqProperties
  <2> HIDE DEF a
  <2>3. QED
    BY <1>1, <2>2
<1>3. /\ b \in Seq(Remotes) /\ Len(b) = Len(c) - i
      /\ \A j \in 1..(Len(c) - i) : b[j] = c[i + j]
  <2>1. \A j \in (i + 1)..Len(c) : c[j] \in Remotes
    BY <1>1
  <2>2. /\ b \in Seq(Remotes)
        /\ Len(b) = IF i + 1 <= Len(c) THEN Len(c) - (i + 1) + 1 ELSE 0
        /\ \A j \in 1..(Len(c) - (i + 1) + 1) : b[j] = c[(i + 1) + j - 1]
    BY <1>1, <2>1, SubSeqProperties
  <2> HIDE DEF b
  <2>3. QED
    BY <1>1, <2>2
<1>4. RemoveAt(c, i) = a \o b
  BY DEF RemoveAt
<1> HIDE DEF a, b
<1>5. /\ a \o b \in Seq(Remotes)
      /\ Len(a \o b) = Len(a) + Len(b)
      /\ \A j \in 1..(Len(a) + Len(b)) :
            (a \o b)[j] = IF j <= Len(a) THEN a[j] ELSE b[j - Len(a)]
  BY <1>2, <1>3, ConcatProperties
<1> DEFINE ab == a \o b
<1>6. /\ ab \in Seq(Remotes) /\ Len(ab) = Len(c) - 1
      /\ \A j \in 1..(Len(c) - 1) :
            ab[j] = IF j <= i - 1 THEN a[j] ELSE b[j - (i - 1)]
  BY <1>1, <1>2, <1>3, <1>5
<1> HIDE DEF ab
<1>7. ASSUME NEW j \in 1..(Len(c) - 1)
      PROVE  ab[j] = IF j < i THEN c[j] ELSE c[j + 1]
  <2>1. CASE j < i
    BY <1>1, <1>2, <1>6, <2>1
  <2>2. CASE ~(j < i)
    <3>1. j - (i - 1) \in 1..(Len(c) - i) /\ i + (j - (i - 1)) = j + 1
      BY <1>1, <2>2
    <3>2. b[j - (i - 1)] = c[j + 1]
      BY <1>3, <3>1
    <3>3. QED
      BY <1>1, <1>6, <2>2, <3>2
  <2>3. QED
    BY <2>1, <2>2
<1>8. QED
  BY <1>4, <1>6, <1>7 DEF ab

(* Deleting a remote, or adding one that is not there, leaves a            *)
(* configuration without repetitions.                                      *)
LEMMA EditKeeps ==
    ASSUME config \in Seq(Remotes), ConfigInv, EditConfig
    PROVE  config' \in Seq(Remotes) /\ ConfigInv'
<1>0. Len(config) \in Nat
  BY LenProperties
<1>1. ASSUME NEW i \in 1..Len(config), config' = RemoveAt(config, i)
      PROVE  config' \in Seq(Remotes) /\ ConfigInv'
  <2>1. /\ config' \in Seq(Remotes) /\ Len(config') = Len(config) - 1
        /\ \A j \in 1..(Len(config) - 1) :
              config'[j] = IF j < i THEN config[j] ELSE config[j + 1]
    BY <1>1, RemoveAtIs
  <2>2. ASSUME NEW j \in 1..Len(config'), NEW k \in 1..Len(config'),
               config'[j] = config'[k]
        PROVE  j = k
    <3> DEFINE at(x) == IF x < i THEN x ELSE x + 1
    <3>1. at(j) \in 1..Len(config) /\ at(k) \in 1..Len(config)
      BY <1>0, <2>1
    <3>2. config'[j] = config[at(j)] /\ config'[k] = config[at(k)]
      BY <1>0, <2>1
    <3>3. at(j) = at(k)
      BY <2>2, <3>1, <3>2 DEF ConfigInv
    <3>4. QED
      BY <1>0, <2>1, <3>3
  <2>3. QED
    BY <2>1, <2>2 DEF ConfigInv
<1>2. ASSUME NEW r \in Remotes \ Configured, config' = Append(config, r)
      PROVE  config' \in Seq(Remotes) /\ ConfigInv'
  <2>1. /\ config' \in Seq(Remotes) /\ Len(config') = Len(config) + 1
        /\ \A j \in 1..Len(config) : config'[j] = config[j]
        /\ config'[Len(config) + 1] = r
    BY <1>2, AppendProperties
  <2>2. \A j \in 1..Len(config) : config[j] # r
    BY <1>2 DEF Configured
  <2>3. ASSUME NEW j \in 1..Len(config'), NEW k \in 1..Len(config'),
               config'[j] = config'[k]
        PROVE  j = k
    BY <1>0, <2>1, <2>2, <2>3 DEF ConfigInv
  <2>4. QED
    BY <2>1, <2>3 DEF ConfigInv
<1>3. QED
  BY <1>1, <1>2 DEF EditConfig

Pcs == {"idle", "path", "create", "read", "about", "increment",
        "truncate", "write", "answer", "error"}

Typed == TypeOK /\ GhostType /\ ControlInv /\ ConfigInv

(* The variables of the processes, and the rest.                           *)
CallType ==
    /\ req   \in [Procs -> Requests \cup {NoRequest}]
    /\ pc    \in [Procs -> Pcs]
    /\ pend  \in [Procs -> Infos]
    /\ got   \in [Procs -> Remotes \cup {NoRemote}]
    /\ saved \in [Procs -> Remotes \cup {NoRemote}]
    /\ ControlInv

RestType ==
    /\ kind \in {"missing", "unreadable", "whole"}
    /\ info \in Infos /\ Short(info)
    /\ config \in Seq(Remotes) /\ ConfigInv
    /\ GhostType

LEMMA TypedParts == Typed <=> CallType /\ RestType
BY DEF Typed, TypeOK, CallType, RestType, Short, Pcs

LEMMA TypedPartsAfter == Typed' <=> CallType' /\ RestType'
BY DEF Typed, TypeOK, CallType, RestType, Short, Pcs

(* The first content of the file.                                          *)
LEMMA NewInfoType ==
    /\ NewInfo \in Infos /\ Short(NewInfo)
    /\ NewInfo.history \in [Directions -> [Remotes -> Seq(Nat)]]
<1>1. <<>> \in Seq(Nat) /\ Len(<<>>) = 0
  BY EmptySeq
<1>2. [d \in Directions |-> [r \in Remotes |-> <<>>]]
         \in [Directions -> [Remotes -> Seq(Nat)]]
  BY <1>1
<1>3. NewInfo \in Infos
  BY <1>2 DEF NewInfo, Infos
<1>4. Short(NewInfo)
  <2>1. \A d \in Directions, r \in Remotes : NewInfo.history[d][r] = <<>>
    BY DEF NewInfo
  <2>2. QED
    BY <1>1, <2>1, EntriesType DEF Short
<1>5. QED
  BY <1>2, <1>3, <1>4 DEF NewInfo

(* The parts of a call keep the types.                                     *)
LEMMA ReturnType ==
    ASSUME CallType, NEW p \in Procs, Return(p),
           saved' \in [Procs -> Remotes \cup {NoRemote}]
    PROVE  CallType'
<1>1. /\ req' \in [Procs -> Requests \cup {NoRequest}]
      /\ pc' \in [Procs -> Pcs] /\ pend' \in [Procs -> Infos]
      /\ got' \in [Procs -> Remotes \cup {NoRemote}]
  BY NewInfoType DEF CallType, Return, Pcs
<1>2. ASSUME NEW o \in Procs
      PROVE  /\ pc'[o] = IF o = p THEN "idle" ELSE pc[o]
             /\ o # p => req'[o] = req[o]
             /\ pend'[o] = IF o = p THEN NewInfo ELSE pend[o]
  BY DEF CallType, Return
<1>3. ControlInv'
  BY <1>2, NewInfoType DEF CallType, ControlInv, Short
<1>4. QED
  BY <1>1, <1>3 DEF CallType

LEMMA GotoType ==
    ASSUME CallType, NEW p \in Procs, pc[p] # "idle", NEW next \in Pcs,
           Goto(p, next),
           next = "increment" => req[p].op = "allocate",
           saved' = saved
    PROVE  CallType'
<1>1. /\ UNCHANGED <<req, pend, got, saved>>
      /\ pc' = [pc EXCEPT ![p] = next]
  BY DEF Goto
<1>2. pc' \in [Procs -> Pcs] /\ \A o \in Procs :
         pc'[o] = IF o = p THEN next ELSE pc[o]
  BY <1>1 DEF CallType
<1>3. ControlInv'
  BY <1>1, <1>2 DEF CallType, ControlInv, Short
<1>4. QED
  BY <1>1, <1>2, <1>3 DEF CallType

LEMMA FallBackType ==
    ASSUME CallType, NEW p \in Procs, pc[p] # "idle", FallBack(p),
           saved' = saved
    PROVE  CallType'
<1> DEFINE q == [op |-> "allocate", policy |-> "RoundRobin"]
<1>0. q \in Requests
  BY DEF Requests, Policies
<1>1. /\ UNCHANGED <<pend, got, saved>>
      /\ pc' = [pc EXCEPT ![p] = "path"]
      /\ req' = [req EXCEPT ![p] = q]
  BY DEF FallBack
<1> HIDE DEF q
<1>2. pc' \in [Procs -> Pcs] /\ \A o \in Procs :
         pc'[o] = IF o = p THEN "path" ELSE pc[o]
  BY <1>1 DEF CallType, Pcs
<1>3. req' \in [Procs -> Requests \cup {NoRequest}] /\ \A o \in Procs :
         req'[o] = IF o = p THEN q ELSE req[o]
  BY <1>0, <1>1 DEF CallType
<1>4. ControlInv'
  BY <1>0, <1>1, <1>2, <1>3 DEF CallType, ControlInv, Short
<1>5. QED
  BY <1>1, <1>2, <1>3, <1>4 DEF CallType

LEMMA AnswerType ==
    ASSUME CallType, NEW p \in Procs, pc[p] # "idle",
           NEW r \in Remotes \cup {NoRemote}, Answer(p, r),
           saved' \in [Procs -> Remotes \cup {NoRemote}]
    PROVE  CallType'
<1>1. /\ UNCHANGED <<req, pend>>
      /\ pc' = [pc EXCEPT ![p] = "answer"]
      /\ got' = [got EXCEPT ![p] = r]
  BY DEF Answer
<1>2. pc' \in [Procs -> Pcs] /\ \A o \in Procs :
         pc'[o] = IF o = p THEN "answer" ELSE pc[o]
  BY <1>1 DEF CallType, Pcs
<1>3. got' \in [Procs -> Remotes \cup {NoRemote}]
  BY <1>1 DEF CallType
<1>4. ControlInv'
  BY <1>1, <1>2 DEF CallType, ControlInv, Short
<1>5. QED
  BY <1>1, <1>2, <1>3, <1>4 DEF CallType

LEMMA RewriteType ==
    ASSUME CallType, NEW p \in Procs, pc[p] # "idle",
           NEW i \in Infos, Short(i), Rewrite(p, i), saved' = saved
    PROVE  CallType'
<1>1. /\ UNCHANGED <<req, got, saved>>
      /\ pc' = [pc EXCEPT ![p] = "truncate"]
      /\ pend' = [pend EXCEPT ![p] = i]
  BY DEF Rewrite
<1>2. pc' \in [Procs -> Pcs] /\ \A o \in Procs :
         pc'[o] = IF o = p THEN "truncate" ELSE pc[o]
  BY <1>1 DEF CallType, Pcs
<1>3. pend' \in [Procs -> Infos] /\ \A o \in Procs :
         pend'[o] = IF o = p THEN i ELSE pend[o]
  BY <1>1 DEF CallType
<1>4. ControlInv'
  BY <1>1, <1>2, <1>3 DEF CallType, ControlInv, Short
<1>5. QED
  BY <1>1, <1>2, <1>3, <1>4 DEF CallType

(* What the two calls that write would write.                              *)
LEMMA IncrementType ==
    ASSUME NEW i \in Infos, Short(i)
    PROVE  /\ [i EXCEPT !.counter = @ + 1] \in Infos
           /\ Short([i EXCEPT !.counter = @ + 1])
           /\ [i EXCEPT !.counter = @ + 1].counter = i.counter + 1
           /\ [i EXCEPT !.counter = @ + 1].history = i.history
BY DEF Infos, Short

LEMMA RecordType ==
    ASSUME NEW i \in Infos, Short(i),
           NEW d \in Directions, NEW r \in Remotes, NEW x \in Nat
    PROVE  LET j == [i EXCEPT !.history[d][r] = UpdateThroughput(@, x)] IN
           /\ j \in Infos /\ Short(j) /\ j.counter = i.counter
           /\ \A e \in Directions, q \in Remotes :
                 j.history[e][q] = IF e = d /\ q = r
                                     THEN UpdateThroughput(i.history[d][r], x)
                                     ELSE i.history[e][q]
<1> DEFINE u == UpdateThroughput(i.history[d][r], x)
           j == [i EXCEPT !.history[d][r] = UpdateThroughput(@, x)]
<1>1. i.history \in [Directions -> [Remotes -> Seq(Nat)]] /\ i.counter \in Nat
  BY DEF Infos
<1>2. u \in Seq(Nat) /\ Len(u) <= MaxEntries
  BY <1>1, UpdateShort
<1> DEFINE h == [i.history EXCEPT ![d] = [i.history[d] EXCEPT ![r] = u]]
<1>3. j = [i EXCEPT !.history = h]
  OBVIOUS
<1> HIDE DEF u
<1>4. h \in [Directions -> [Remotes -> Seq(Nat)]]
  BY <1>1, <1>2
<1>5. \A e \in Directions, q \in Remotes :
         h[e][q] = IF e = d /\ q = r THEN u ELSE i.history[e][q]
  BY <1>1
<1>6. j = [i EXCEPT !.history = h]
  BY <1>3
<1> HIDE DEF h, j
<1>7. j \in Infos /\ j.history = h /\ j.counter = i.counter
  BY <1>1, <1>4, <1>6 DEF Infos
<1>8. Short(j)
  BY <1>2, <1>5, <1>7 DEF Short
<1>9. QED
  BY <1>5, <1>7, <1>8 DEF u, j

(* A system call of process p on the file fails.                           *)
FailOf(p) ==
    \/ getLoadBalancerJsonFilePath_Fails(p) \/ WriteDefaults_Fails(p)
    \/ readJSON_Fails(p) \/ writeJSON_Fails(p)

(* What it leaves, and where the call goes on.                             *)
LEMMA FailDoes ==
    ASSUME NEW p \in Procs, FailOf(p)
    PROVE  /\ pc[p] \in {"path", "create", "read", "increment", "truncate",
                          "write"}
           /\ fails' = fails + 1
           /\ UNCHANGED <<info, config, saved, together, picks, log, cuts>>
           /\ kind' \in {kind, "unreadable"} /\ spoilt' \in {spoilt, TRUE}
           /\ kind' = kind \/ pc[p] = "write"
           /\ pc[p] \in {"create", "write"} => spoilt' = TRUE
           /\ \/ Goto(p, "error") \/ FallBack(p)
              \/ Answer(p, got[p]) /\ pc[p] # "read"
<1>1. CASE getLoadBalancerJsonFilePath_Fails(p)
  BY <1>1 DEF getLoadBalancerJsonFilePath_Fails, Fail, Unread, file, ghosts
<1>2. CASE WriteDefaults_Fails(p)
  BY <1>2 DEF WriteDefaults_Fails, Fail, Unread, file
<1>3. CASE readJSON_Fails(p)
  BY <1>3 DEF readJSON_Fails, Fail, Unread, file, ghosts
<1>4. CASE writeJSON_Fails(p)
  BY <1>4 DEF writeJSON_Fails, Fail, Unwritten
<1>5. QED
  BY <1>1, <1>2, <1>3, <1>4 DEF FailOf

(* A step leaves each process where its call can be.                       *)
LEMMA CallStep == CallType /\ RestType /\ [Next]_vars => CallType'
<1> SUFFICES ASSUME CallType, RestType, [Next]_vars PROVE CallType'
  OBVIOUS
<1>0. \A p \in Procs : pc[p] # "idle" => req[p] \in Requests
  BY DEF CallType, ControlInv
<1>1. CASE UNCHANGED vars
  BY <1>1 DEF vars, CallType, ControlInv, Short
<1>2. CASE EditConfig
  BY <1>2 DEF EditConfig, CallType, ControlInv, Short
<1>3. ASSUME NEW p \in Procs, NEW q \in Requests, Begin(p, q) PROVE CallType'
  <2>1. /\ req' = [req EXCEPT ![p] = q] /\ UNCHANGED <<pend, got, saved>>
        /\ \E next \in {"about", "path"} : pc' = [pc EXCEPT ![p] = next]
    BY <1>3 DEF Begin
  <2>2. req' \in [Procs -> Requests \cup {NoRequest}] /\ pc' \in [Procs -> Pcs]
    BY <2>1 DEF CallType, Pcs
  <2>3. ControlInv'
    BY <2>1 DEF CallType, ControlInv, Short
  <2>4. QED
    BY <2>1, <2>2, <2>3 DEF CallType
<1>4. ASSUME NEW p \in Procs, getLoadBalancerJsonFilePath(p) PROVE CallType'
  <2>1. \E next \in {"create", "read"} : Goto(p, next)
    BY <1>4 DEF getLoadBalancerJsonFilePath
  <2>2. pc[p] # "idle" /\ saved' = saved
    BY <1>4 DEF getLoadBalancerJsonFilePath
  <2>3. QED
    BY <2>1, <2>2, GotoType DEF Pcs
<1>5. ASSUME NEW p \in Procs, WriteDefaults(p) PROVE CallType'
  BY <1>5, GotoType DEF WriteDefaults, Pcs
<1>6. ASSUME NEW p \in Procs, RoundRobin(p) PROVE CallType'
  <2>1. /\ pc[p] # "idle" /\ saved' = saved
        /\ req[p].op = "allocate"
    BY <1>6 DEF RoundRobin, LoadBalancer_RoundRobin, CallType, ControlInv
  <2>2. CASE Goto(p, "error")
    BY <2>1, <2>2, GotoType DEF Pcs
  <2>3. CASE ~Goto(p, "error")
    <3>1. /\ config # <<>>
          /\ got' = [got EXCEPT ![p] =
                        config[(info.counter % Len(config)) + 1]]
          /\ pc' = [pc EXCEPT ![p] = "increment"]
          /\ UNCHANGED <<req, pend>>
      BY <1>6, <2>3 DEF RoundRobin, LoadBalancer_RoundRobin
    <3>2. config[(info.counter % Len(config)) + 1] \in Remotes
      <4>1. Len(config) \in Nat \ {0} /\ info.counter \in Nat
        BY <3>1, EmptySeq, LenProperties DEF RestType, Infos
      <4>2. info.counter % Len(config) \in 0..(Len(config) - 1)
        BY <4>1, NextTurn
      <4>3. (info.counter % Len(config)) + 1 \in 1..Len(config)
        BY <4>1, <4>2
      <4>4. QED
        BY <4>3, ElementOfSeq DEF RestType
    <3>3. got' \in [Procs -> Remotes \cup {NoRemote}]
      BY <3>1, <3>2 DEF CallType
    <3>4. pc' \in [Procs -> Pcs] /\ \A o \in Procs :
             pc'[o] = IF o = p THEN "increment" ELSE pc[o]
      BY <3>1 DEF CallType, Pcs
    <3>5. ControlInv'
      BY <2>1, <3>1, <3>4 DEF CallType, ControlInv, Short
    <3>6. QED
      BY <2>1, <3>1, <3>3, <3>4, <3>5 DEF CallType
  <2>4. QED
    BY <2>2, <2>3
<1>7. ASSUME NEW p \in Procs, IncrementRoundRobinCounter(p) PROVE CallType'
  <2>1. pc[p] # "idle" /\ saved' = saved
    BY <1>7 DEF IncrementRoundRobinCounter
  <2>2. CASE Answer(p, got[p])
    BY <2>1, <2>2, AnswerType DEF CallType
  <2>3. CASE Rewrite(p, [info EXCEPT !.counter = @ + 1])
    BY <2>1, <2>3, IncrementType, RewriteType DEF RestType
  <2>4. QED
    BY <1>7, <2>2, <2>3 DEF IncrementRoundRobinCounter
<1>8. ASSUME NEW p \in Procs, getRemoteOfHighestThroughput(p) PROVE CallType'
  <2>1. pc[p] # "idle" /\ saved' = saved /\ req[p].op = "allocate"
    BY <1>8 DEF getRemoteOfHighestThroughput
  <2>2. CASE FallBack(p)
    BY <2>1, <2>2, FallBackType
  <2>3. ASSUME NEW r \in Remotes, Answer(p, r) PROVE CallType'
    BY <2>1, <2>3, AnswerType DEF CallType
  <2>4. FallBack(p) \/ \E r \in Remotes : Answer(p, r)
    BY <1>8 DEF getRemoteOfHighestThroughput, HighestThroughput
  <2>5. QED
    BY <2>2, <2>3, <2>4
<1>9. ASSUME NEW p \in Procs, LoadBalancer_ResourceBased(p) PROVE CallType'
  <2>1. pc[p] # "idle" /\ Configured \subseteq Remotes
    <3>1. Configured \subseteq Remotes
      BY ElementOfSeq DEF Configured, RestType
    <3>2. QED
      BY <1>9, <3>1 DEF LoadBalancer_ResourceBased
  <2>2. CASE Goto(p, "error") /\ saved' = saved
    BY <2>1, <2>2, GotoType DEF Pcs
  <2>3. CASE Answer(p, saved[p]) /\ saved' = saved
    BY <2>1, <2>3, AnswerType DEF CallType
  <2>4. ASSUME NEW r \in Remotes \cup {NoRemote}, Answer(p, r),
               saved' = [saved EXCEPT ![p] = r]
        PROVE  CallType'
    <3>1. saved' \in [Procs -> Remotes \cup {NoRemote}]
      BY <2>4 DEF CallType
    <3>2. QED
      BY <2>1, <2>4, <3>1, AnswerType
  <2>5. QED
    BY <1>9, <2>1, <2>2, <2>3, <2>4 DEF LoadBalancer_ResourceBased
<1>10. ASSUME NEW p \in Procs, UpdateRemoteInfo(p) PROVE CallType'
  <2>1. /\ pc[p] # "idle" /\ saved' = saved
        /\ req[p] \in Requests /\ req[p].op = "record"
    BY <1>0, <1>10 DEF UpdateRemoteInfo
  <2>2. CASE Goto(p, "error")
    BY <2>1, <2>2, GotoType DEF Pcs
  <2>3. CASE ~Goto(p, "error")
    <3>1. /\ req[p].dir \in Directions /\ req[p].remote \in Remotes
          /\ req[p].speed \in Nat
      BY <2>1, SpeedsAssumption DEF Requests
    <3>2. Rewrite(p, [info EXCEPT !.history[req[p].dir][req[p].remote] =
                         UpdateThroughput(@, req[p].speed)])
      BY <1>10, <2>3 DEF UpdateRemoteInfo
    <3>3. QED
      BY <2>1, <3>1, <3>2, RecordType, RewriteType DEF RestType
  <2>4. QED
    BY <2>2, <2>3
<1>11. ASSUME NEW p \in Procs, Truncate(p) PROVE CallType'
  BY <1>11, GotoType DEF Truncate, Pcs
<1>12. ASSUME NEW p \in Procs, Write(p) PROVE CallType'
  <2>1. pc[p] # "idle" /\ saved' = saved
    BY <1>12 DEF Write
  <2>2. CASE Return(p)
    BY <2>1, <2>2, ReturnType DEF CallType
  <2>3. CASE Answer(p, got[p])
    BY <2>1, <2>3, AnswerType DEF CallType
  <2>4. QED
    BY <1>12, <2>2, <2>3 DEF Write
<1>13. ASSUME NEW p \in Procs, AllocateRemote(p) PROVE CallType'
  BY <1>13, ReturnType DEF AllocateRemote, CallType
<1>14. ASSUME NEW p \in Procs, Kill(p) PROVE CallType'
  <2>1. saved' \in [Procs -> Remotes \cup {NoRemote}]
    BY <1>14 DEF Kill, CallType
  <2>2. QED
    BY <1>14, <2>1, ReturnType DEF Kill
<1>15. ASSUME NEW p \in Procs, FailOf(p) PROVE CallType'
  <2>1. pc[p] # "idle" /\ saved' = saved
        /\ (Goto(p, "error") \/ FallBack(p) \/ Answer(p, got[p]))
    BY <1>15, FailDoes
  <2>2. CASE Goto(p, "error")
    BY <2>1, <2>2, GotoType DEF Pcs
  <2>3. CASE FallBack(p)
    BY <2>1, <2>3, FallBackType
  <2>4. CASE Answer(p, got[p])
    BY <2>1, <2>4, AnswerType DEF CallType
  <2>5. QED
    BY <2>1, <2>2, <2>3, <2>4
<1>16. QED
  BY <1>1, <1>2, <1>3, <1>4, <1>5, <1>6, <1>7, <1>8, <1>9, <1>10, <1>11, <1>12,
     <1>13, <1>14, <1>15 DEF Next, FailOf

(* ... and the file, the configuration and the history with their types.   *)
LEMMA RestStep == CallType /\ RestType /\ [Next]_vars => RestType'
<1> SUFFICES ASSUME CallType, RestType, [Next]_vars PROVE RestType'
  OBVIOUS
<1>1. CASE /\ UNCHANGED <<info, config, log, picks, cuts, fails, together,
                         spoilt>>
           /\ kind' \in {"missing", "unreadable", "whole"}
  BY <1>1 DEF RestType, Short, ConfigInv, GhostType
<1>2. CASE EditConfig
  <2>1. config' \in Seq(Remotes) /\ ConfigInv'
    BY <1>2, EditKeeps DEF RestType
  <2>2. UNCHANGED <<kind, info, log, cuts, fails, together, spoilt>>
    BY <1>2 DEF EditConfig, file
  <2>3. picks' \in [Remotes -> Nat]
    BY <1>2 DEF EditConfig
  <2>4. QED
    BY <2>1, <2>2, <2>3 DEF RestType, Short, GhostType
<1>3. ASSUME NEW p \in Procs, NEW q \in Requests, Begin(p, q) PROVE RestType'
  <2>1. UNCHANGED <<kind, info, config, log, picks, cuts, fails, spoilt>>
    BY <1>3 DEF Begin, file
  <2>2. together' \in BOOLEAN
    BY <1>3 DEF Begin
  <2>3. QED
    BY <2>1, <2>2 DEF RestType, Short, ConfigInv, GhostType
<1>4. ASSUME NEW p \in Procs, WriteDefaults(p) PROVE RestType'
  <2>1. UNCHANGED <<config, log, picks, cuts, fails, together, spoilt>>
    BY <1>4 DEF WriteDefaults, counts, ghosts
  <2>2. kind' = "whole" /\ info' = NewInfo
    BY <1>4 DEF WriteDefaults
  <2>3. QED
    BY <2>1, <2>2, NewInfoType DEF RestType, Short, ConfigInv, GhostType
<1>5. ASSUME NEW p \in Procs, RoundRobin(p) PROVE RestType'
  <2>1. UNCHANGED <<kind, info, config, log, cuts, fails, together, spoilt>>
    BY <1>5 DEF RoundRobin, LoadBalancer_RoundRobin, file, counts
  <2>2. \/ picks' = picks
        \/ \E r : picks' = [picks EXCEPT ![r] = @ + 1]
    BY <1>5 DEF RoundRobin, LoadBalancer_RoundRobin
  <2>3. picks' \in [Remotes -> Nat]
    <3>1. picks \in [Remotes -> Nat]
      BY DEF RestType, GhostType
    <3>2. ASSUME NEW r, picks' = [picks EXCEPT ![r] = @ + 1]
          PROVE  picks' \in [Remotes -> Nat]
      <4>1. CASE r \in Remotes
        BY <3>1, <3>2, <4>1
      <4>2. CASE r \notin Remotes
        BY <3>1, <3>2, <4>2
      <4>3. QED
        BY <4>1, <4>2
    <3>3. QED
      BY <2>2, <3>1, <3>2
  <2>4. QED
    BY <2>1, <2>3 DEF RestType, Short, ConfigInv, GhostType
<1>6. ASSUME NEW p \in Procs, Write(p) PROVE RestType'
  <2>1. UNCHANGED <<config, picks, cuts, fails, together, spoilt>>
    BY <1>6 DEF Write, counts
  <2>2. kind' = "whole" /\ info' = pend[p]
    BY <1>6 DEF Write
  <2>3. info' \in Infos /\ Short(info)'
    BY <2>2 DEF CallType, ControlInv, Short
  <2>4. log' \in [Directions -> [Remotes -> Seq(Nat)]]
    <3>1. CASE UNCHANGED log
      BY <3>1 DEF RestType, GhostType
    <3>2. CASE /\ req[p].op = "record"
               /\ log' = [log EXCEPT ![req[p].dir][req[p].remote] =
                             Append(@, req[p].speed)]
      <4>1. pc[p] # "idle"
        BY <1>6 DEF Write
      <4>2. req[p] \in Requests
        BY <4>1 DEF CallType, ControlInv
      <4>3. /\ req[p].dir \in Directions /\ req[p].remote \in Remotes
            /\ req[p].speed \in Nat
        BY <3>2, <4>2, SpeedsAssumption DEF Requests
      <4>4. log \in [Directions -> [Remotes -> Seq(Nat)]]
        BY DEF RestType, GhostType
      <4>5. Append(log[req[p].dir][req[p].remote], req[p].speed) \in Seq(Nat)
        BY <4>3, <4>4, AppendProperties
      <4>6. QED
        BY <3>2, <4>3, <4>4, <4>5
    <3>3. QED
      BY <1>6, <3>1, <3>2 DEF Write
  <2>5. QED
    BY <2>1, <2>2, <2>3, <2>4 DEF RestType, ConfigInv, GhostType
<1>7. ASSUME NEW p \in Procs, Kill(p) PROVE RestType'
  <2>1. UNCHANGED <<kind, info, config, log, picks, fails, together>>
    BY <1>7 DEF Kill, file
  <2>2. cuts' \in Nat /\ spoilt' \in BOOLEAN
    BY <1>7 DEF Kill, RestType, GhostType
  <2>3. QED
    BY <2>1, <2>2 DEF RestType, Short, ConfigInv, GhostType
<1>8. ASSUME NEW p \in Procs,
             \/ getLoadBalancerJsonFilePath(p) \/ IncrementRoundRobinCounter(p)
             \/ getRemoteOfHighestThroughput(p) \/ LoadBalancer_ResourceBased(p)
             \/ UpdateRemoteInfo(p) \/ Truncate(p) \/ AllocateRemote(p)
      PROVE  RestType'
  <2>1. UNCHANGED <<info, config, log, picks, cuts, fails, together, spoilt>>
    BY <1>8 DEF getLoadBalancerJsonFilePath, IncrementRoundRobinCounter,
       getRemoteOfHighestThroughput, LoadBalancer_ResourceBased,
       UpdateRemoteInfo, Truncate, AllocateRemote, file, counts, ghosts
  <2>2. kind' \in {kind, "unreadable"}
    BY <1>8 DEF getLoadBalancerJsonFilePath, IncrementRoundRobinCounter,
       getRemoteOfHighestThroughput, LoadBalancer_ResourceBased,
       UpdateRemoteInfo, Truncate, AllocateRemote, file
  <2>3. QED
    BY <1>1, <2>1, <2>2 DEF RestType
<1>9. CASE UNCHANGED vars
  BY <1>1, <1>9 DEF vars, file, counts, ghosts, RestType
<1>10. ASSUME NEW p \in Procs, FailOf(p) PROVE RestType'
  <2>1. /\ UNCHANGED <<info, config, log, picks, cuts, together>>
        /\ fails' = fails + 1 /\ kind' \in {kind, "unreadable"}
        /\ spoilt' \in {spoilt, TRUE}
    BY <1>10, FailDoes
  <2>2. fails' \in Nat
    BY <2>1 DEF RestType, GhostType
  <2>3. spoilt' \in BOOLEAN
    BY <2>1, Zenon DEF RestType, GhostType
  <2>4. QED
    BY <2>1, <2>2, <2>3 DEF RestType, Short, ConfigInv, GhostType
<1>11. QED
  BY <1>2, <1>3, <1>4, <1>5, <1>6, <1>7, <1>8, <1>9, <1>10 DEF Next, FailOf

LEMMA TypedInit == Init => Typed
<1> SUFFICES ASSUME Init PROVE CallType /\ RestType
  BY TypedParts
<1>1. CallType
  BY NewInfoType DEF Init, CallType, ControlInv, Short, Pcs
<1>2. Cardinality(Remotes) \in Nat
  BY RemotesAssumption, FS_CardinalityType
<1>3. /\ config \in [1..Cardinality(Remotes) -> Remotes]
      /\ \A i, j \in 1..Cardinality(Remotes) : i # j => config[i] # config[j]
  BY DEF Init, SetToSeqs
<1>4. config \in Seq(Remotes) /\ Len(config) = Cardinality(Remotes)
  BY <1>2, <1>3
<1>5. ConfigInv
  BY <1>3, <1>4 DEF ConfigInv
<1>6. GhostType
  BY NewInfoType DEF Init, GhostType
<1>7. QED
  BY <1>1, <1>4, <1>5, <1>6, NewInfoType DEF Init, RestType

LEMMA TypedHolds == Spec => []Typed
<1>1. Typed /\ [Next]_vars => Typed'
  BY CallStep, RestStep, TypedParts, TypedPartsAfter
<1>2. QED
  BY <1>1, TypedInit, PTL DEF Spec

(* Types: whatever is interrupted or fails, and whoever writes at once,    *)
(* loadbalancer.json never remembers more than maxEntries throughputs of a *)
(* remote, and a call returns a remote or none.                            *)
THEOREM TypeCorrect == Spec => []TypeOK
<1>1. Typed => TypeOK
  BY DEF Typed
<1>2. QED
  BY <1>1, TypedHolds, PTL

-----------------------------------------------------------------------------
(* The file under calls that do not overlap.                               *)

FileGood ==
    /\ kind = "missing" => info = NewInfo /\ log = NewInfo.history
    /\ kind = "unreadable" /\ ~spoilt =>
          \E p \in Procs : pc[p] \in {"create", "write"}
    /\ \A d \in Directions, r \in Remotes :
          info.history[d][r] = Newest(log[d][r])

LEMMA FileParts ==
    /\ FileInv <=> (~together => /\ Solo /\ FileGood
                                 /\ \A p \in Procs : FileAt(p))
    /\ FileInv' <=> (~together' => /\ Solo' /\ FileGood'
                                   /\ \A p \in Procs : FileAt(p)')
BY DEF FileInv, FileGood

(* The steps of process p within a call.                                   *)
CallOf(p) ==
    \/ getLoadBalancerJsonFilePath(p) \/ WriteDefaults(p)
    \/ RoundRobin(p) \/ IncrementRoundRobinCounter(p)
    \/ getRemoteOfHighestThroughput(p) \/ LoadBalancer_ResourceBased(p)
    \/ UpdateRemoteInfo(p) \/ Truncate(p) \/ Write(p)
    \/ AllocateRemote(p)

LEMMA NextParts ==
    [Next]_vars <=>
        \/ EditConfig
        \/ \E p \in Procs : CallOf(p) \/ FailOf(p) \/ Kill(p)
                            \/ \E q \in Requests : Begin(p, q)
        \/ UNCHANGED vars
BY DEF Next, CallOf, FailOf

(* A step of one process leaves the calls of the others.                   *)
Same(o) == pc'[o] = pc[o] /\ req'[o] = req[o] /\ pend'[o] = pend[o]

LEMMA OthersSame ==
    ASSUME CallType, NEW p \in Procs, NEW o \in Procs, o # p,
           CallOf(p) \/ FailOf(p) \/ Kill(p) \/ \E q \in Requests : Begin(p, q)
    PROVE  Same(o)
<1>1. ASSUME NEW n, Goto(p, n) PROVE Same(o)
  BY <1>1 DEF CallType, Goto, Same
<1>2. CASE Return(p)
  BY <1>2 DEF CallType, Return, Same
<1>3. ASSUME NEW r, Answer(p, r) PROVE Same(o)
  BY <1>3 DEF CallType, Answer, Same
<1>4. ASSUME NEW i, Rewrite(p, i) PROVE Same(o)
  BY <1>4 DEF CallType, Rewrite, Same
<1>5. CASE RoundRobin(p)
  <2>1. \/ Goto(p, "error")
        \/ pc' = [pc EXCEPT ![p] = "increment"] /\ UNCHANGED <<req, pend>>
    BY <1>5 DEF RoundRobin, LoadBalancer_RoundRobin
  <2>2. CASE pc' = [pc EXCEPT ![p] = "increment"] /\ UNCHANGED <<req, pend>>
    BY <2>2 DEF CallType, Same
  <2>3. QED
    BY <1>1, <2>1, <2>2
<1>6. ASSUME NEW q \in Requests, Begin(p, q) PROVE Same(o)
  BY <1>6 DEF CallType, Begin, Same
<1>7. CASE FallBack(p)
  BY <1>7 DEF CallType, FallBack, Same
<1>8. CASE FailOf(p)
  BY <1>1, <1>3, <1>7, <1>8, FailDoes
<1>9. QED
  BY <1>1, <1>2, <1>3, <1>4, <1>5, <1>6, <1>7, <1>8 DEF CallOf,
     getLoadBalancerJsonFilePath, WriteDefaults, IncrementRoundRobinCounter,
     getRemoteOfHighestThroughput, LoadBalancer_ResourceBased,
     UpdateRemoteInfo, Truncate, Write, AllocateRemote, Kill

(* Within its call, a process is alone.                                    *)
LEMMA CallAlone ==
    ASSUME Typed, FileInv, ~together', NEW p \in Procs, CallOf(p) \/ FailOf(p)
    PROVE  /\ ~together /\ pc[p] # "idle"
           /\ FileGood /\ FileAt(p)
           /\ \A o \in Procs : o # p => pc[o] = "idle" /\ pc'[o] = "idle"
<1>1. ~together
  BY FailDoes DEF CallOf, getLoadBalancerJsonFilePath, WriteDefaults, RoundRobin,
     LoadBalancer_RoundRobin, IncrementRoundRobinCounter,
     getRemoteOfHighestThroughput, LoadBalancer_ResourceBased,
     UpdateRemoteInfo, Truncate, Write, AllocateRemote, ghosts
<1>2. pc[p] # "idle"
  BY FailDoes DEF CallOf, getLoadBalancerJsonFilePath, WriteDefaults, RoundRobin,
     IncrementRoundRobinCounter, getRemoteOfHighestThroughput,
     LoadBalancer_ResourceBased, UpdateRemoteInfo, Truncate, Write,
     AllocateRemote
<1>3. ASSUME NEW o \in Procs, o # p PROVE pc[o] = "idle" /\ pc'[o] = "idle"
  <2>1. pc[o] = "idle"
    BY <1>1, <1>2, <1>3 DEF FileInv, Solo
  <2>2. Same(o)
    BY <1>3, OthersSame, TypedParts
  <2>3. QED
    BY <2>1, <2>2 DEF Same
<1>4. QED
  BY <1>1, <1>2, <1>3, FileParts

(* A step of a process that is alone with the file.                        *)
LEMMA AloneKeeps ==
    ASSUME NEW p \in Procs, FileAt(p)', FileGood',
           \A o \in Procs : o # p => pc'[o] = "idle"
    PROVE  FileInv'
<1>1. Solo'
  BY DEF Solo
<1>2. ASSUME NEW o \in Procs PROVE FileAt(o)'
  BY DEF FileAt
<1>3. QED
  BY <1>1, <1>2, FileParts

LEMMA FileSame ==
    ASSUME FileGood, UNCHANGED <<kind, info, log, spoilt>>,
           \A o \in Procs : pc[o] \notin {"create", "write"}
    PROVE  FileGood'
BY DEF FileGood, Newest

(* What the steps of a call do to the file.                                *)
LEMMA CallKeeps ==
    ASSUME Typed, FileInv, ~together', NEW p \in Procs, CallOf(p)
    PROVE  FileInv'
<1>0. /\ ~together /\ pc[p] # "idle" /\ FileGood /\ FileAt(p)
      /\ \A o \in Procs : o # p => pc[o] = "idle" /\ pc'[o] = "idle"
  BY CallAlone
<1> SUFFICES FileAt(p)' /\ FileGood'
  BY <1>0, AloneKeeps
<1>1. /\ CallType /\ RestType /\ req[p] \in Requests
  BY <1>0, TypedParts DEF CallType, ControlInv
<1>2. ASSUME pc[p] \notin {"create", "write"}
      PROVE  /\ \A o \in Procs : pc[o] \notin {"create", "write"}
             /\ ~spoilt => kind # "unreadable"
             /\ UNCHANGED <<kind, info, log, spoilt>> => FileGood'
  <2>1. \A o \in Procs : pc[o] \notin {"create", "write"}
    BY <1>0, <1>2
  <2>2. ~spoilt => kind # "unreadable"
    BY <1>0, <2>1 DEF FileGood
  <2>3. QED
    BY <1>0, <2>1, <2>2, FileSame
<1>3. ASSUME NEW n, Goto(p, n)
      PROVE  pc'[p] = n /\ req'[p] = req[p] /\ pend'[p] = pend[p]
  BY <1>1, <1>3 DEF CallType, Goto
<1>4. ASSUME NEW n, n \in {"answer", "error", "idle"}, pc'[p] = n
      PROVE  FileAt(p)'
  BY <1>4 DEF FileAt
<1>5. CASE getLoadBalancerJsonFilePath(p)
  <2>1. /\ pc[p] = "path" /\ UNCHANGED <<info, log, spoilt>>
    BY <1>5 DEF getLoadBalancerJsonFilePath, ghosts
  <2>2. CASE kind = "missing" /\ kind' = "unreadable" /\ Goto(p, "create")
    <3>1. pc'[p] = "create" /\ info = NewInfo /\ log = NewInfo.history
      BY <1>0, <1>3, <2>2 DEF FileGood
    <3>2. FileAt(p)'
      BY <2>1, <3>1 DEF FileAt, NewInfo
    <3>3. FileGood'
      BY <1>0, <2>1, <2>2, <3>1 DEF FileGood, Newest
    <3>4. QED
      BY <3>2, <3>3
  <2>3. CASE kind # "missing" /\ kind' = kind /\ Goto(p, "read")
    <3>1. pc'[p] = "read" /\ FileGood' /\ (~spoilt => kind # "unreadable")
      BY <1>2, <1>3, <2>1, <2>3
    <3>2. QED
      BY <1>1, <2>1, <2>3, <3>1 DEF FileAt, RestType
  <2>4. QED
    BY <1>5, <2>2, <2>3 DEF getLoadBalancerJsonFilePath
<1>6. CASE WriteDefaults(p)
  <2>1. /\ kind' = "whole" /\ info' = info /\ UNCHANGED <<log, spoilt>>
        /\ pc'[p] = "read"
    BY <1>0, <1>3, <1>6 DEF WriteDefaults, FileAt, ghosts
  <2>2. QED
    BY <1>0, <2>1 DEF FileAt, FileGood, Newest
<1>7. CASE RoundRobin(p)
  <2>1. /\ pc[p] = "read" /\ UNCHANGED <<kind, info, log, spoilt>>
    BY <1>7 DEF RoundRobin, LoadBalancer_RoundRobin, file
  <2>2. FileGood'
    BY <1>2, <2>1
  <2>3. CASE Goto(p, "error")
    BY <1>3, <1>4, <2>2, <2>3
  <2>4. CASE kind = "whole" /\ pc' = [pc EXCEPT ![p] = "increment"]
    <3>1. pc'[p] = "increment"
      BY <1>1, <2>4 DEF CallType
    <3>2. QED
      BY <2>1, <2>2, <2>4, <3>1 DEF FileAt
  <2>5. QED
    BY <1>7, <2>3, <2>4 DEF RoundRobin, LoadBalancer_RoundRobin
<1>8. CASE IncrementRoundRobinCounter(p)
  <2>1. /\ pc[p] = "increment" /\ kind = "whole"
        /\ UNCHANGED <<kind, info, log, spoilt>>
        /\ Rewrite(p, [info EXCEPT !.counter = @ + 1])
        /\ req[p].op = "allocate"
    BY <1>0, <1>1, <1>8 DEF IncrementRoundRobinCounter, FileAt, file, ghosts,
       CallType, ControlInv
  <2>2. /\ pc'[p] = "truncate" /\ req'[p] = req[p]
        /\ pend'[p] = [info EXCEPT !.counter = @ + 1]
    BY <1>1, <2>1 DEF CallType, Rewrite
  <2>3. Fits(p)'
    BY <2>1, <2>2 DEF Fits
  <2>4. QED
    BY <1>2, <2>1, <2>2, <2>3 DEF FileAt
<1>9. CASE getRemoteOfHighestThroughput(p)
  <2>1. /\ pc[p] = "read" /\ UNCHANGED <<kind, info, log, spoilt>>
        /\ FallBack(p) \/ \E r : Answer(p, r)
    BY <1>9 DEF getRemoteOfHighestThroughput, file, ghosts
  <2>2. pc'[p] \in {"path", "answer"}
    BY <1>1, <2>1 DEF CallType, Answer, FallBack
  <2>3. QED
    BY <1>0, <1>2, <2>1, <2>2 DEF FileAt
<1>10. CASE LoadBalancer_ResourceBased(p)
  <2>1. /\ pc[p] = "about" /\ UNCHANGED <<kind, info, log, spoilt>>
        /\ Goto(p, "error") \/ \E r : Answer(p, r)
    BY <1>10 DEF LoadBalancer_ResourceBased, file, ghosts
  <2>2. pc'[p] \in {"error", "answer"}
    BY <1>1, <1>3, <2>1 DEF CallType, Answer
  <2>3. QED
    BY <1>2, <1>4, <2>1, <2>2
<1>11. CASE UpdateRemoteInfo(p)
  <2>1. /\ pc[p] = "read" /\ UNCHANGED <<kind, info, log, spoilt>>
        /\ req[p].op = "record"
    BY <1>11 DEF UpdateRemoteInfo, file, ghosts
  <2>2. FileGood'
    BY <1>2, <2>1
  <2>3. CASE Goto(p, "error")
    BY <1>3, <1>4, <2>2, <2>3
  <2>4. CASE ~Goto(p, "error")
    <3>1. /\ kind = "whole"
          /\ Rewrite(p, [info EXCEPT !.history[req[p].dir][req[p].remote] =
                            UpdateThroughput(@, req[p].speed)])
      BY <1>11, <2>4 DEF UpdateRemoteInfo
    <3>2. /\ pc'[p] = "truncate" /\ req'[p] = req[p]
          /\ pend'[p] = [info EXCEPT !.history[req[p].dir][req[p].remote] =
                            UpdateThroughput(@, req[p].speed)]
      BY <1>1, <3>1 DEF CallType, Rewrite
    <3>3. Fits(p)'
      BY <2>1, <3>2 DEF Fits, UpdateThroughput
    <3>4. QED
      BY <2>1, <2>2, <3>1, <3>2, <3>3 DEF FileAt
  <2>5. QED
    BY <2>3, <2>4
<1>12. CASE Truncate(p)
  <2>1. /\ pc[p] = "truncate" /\ UNCHANGED <<info, log, spoilt>>
        /\ kind' = "unreadable" /\ pc'[p] = "write"
        /\ req'[p] = req[p] /\ pend'[p] = pend[p]
    BY <1>3, <1>12 DEF Truncate, ghosts
  <2>2. Fits(p)'
    BY <1>0, <2>1 DEF FileAt, Fits, UpdateThroughput
  <2>3. QED
    BY <1>0, <2>1, <2>2 DEF FileAt, FileGood, Newest
<1>13. CASE Write(p)
  <2>1. /\ pc[p] = "write" /\ kind' = "whole" /\ info' = pend[p] /\ Fits(p)
    BY <1>0, <1>13 DEF Write, FileAt
  <2>2. CASE req[p].op = "record"
    <3>1. /\ log' = [log EXCEPT ![req[p].dir][req[p].remote] =
                        Append(@, req[p].speed)]
          /\ Return(p)
      BY <1>13, <2>2 DEF Write
    <3>2. /\ req[p].dir \in Directions /\ req[p].remote \in Remotes
          /\ req[p].speed \in Nat
      BY <1>1, <2>2, SpeedsAssumption DEF Requests
    <3>3. pc'[p] = "idle"
      BY <1>1, <3>1 DEF CallType, Return
    <3>4. ASSUME NEW d \in Directions, NEW r \in Remotes
          PROVE  info'.history[d][r] = Newest(log'[d][r])
      <4>1. log \in [Directions -> [Remotes -> Seq(Nat)]]
        BY <1>1 DEF RestType, GhostType
      <4>2. info'.history[d][r] =
               IF d = req[p].dir /\ r = req[p].remote
                 THEN UpdateThroughput(info.history[d][r], req[p].speed)
                 ELSE info.history[d][r]
        <5>1. info' = [info EXCEPT !.history[req[p].dir][req[p].remote] =
                          UpdateThroughput(@, req[p].speed)]
          BY <2>1, <2>2 DEF Fits
        <5>2. info \in Infos /\ Short(info)
          BY <1>1 DEF RestType
        <5>3. PICK i \in Infos : i = info /\ Short(i)
          BY <5>2
        <5>4. PICK e \in Directions, a \in Remotes, x \in Nat :
                 e = req[p].dir /\ a = req[p].remote /\ x = req[p].speed
          BY <3>2
        <5>5. info' = [i EXCEPT !.history[e][a] = UpdateThroughput(@, x)]
          BY <5>1, <5>3, <5>4
        <5>6. i.history \in [Directions -> [Remotes -> Seq(Nat)]]
          BY <5>3 DEF Infos
        <5>7. info'.history[d][r] = IF d = e /\ r = a
                                     THEN UpdateThroughput(i.history[d][r], x)
                                     ELSE i.history[d][r]
          BY <5>5, <5>6 DEF Infos
        <5>8. QED
          BY <5>3, <5>4, <5>7
      <4>3. info.history[d][r] = Newest(log[d][r])
        BY <1>0 DEF FileGood
      <4>4. log'[d][r] = IF d = req[p].dir /\ r = req[p].remote
                           THEN Append(log[d][r], req[p].speed)
                           ELSE log[d][r]
        BY <3>1, <3>2, <4>1
      <4>5. log[d][r] \in Seq(Nat)
        BY <4>1
      <4>6. QED
        BY <3>2, <4>2, <4>3, <4>4, <4>5, RecordNewest
    <3>5. QED
      BY <1>4, <2>1, <3>3, <3>4 DEF FileGood, Newest
  <2>3. CASE req[p].op = "allocate"
    <3>1. log' = log /\ Answer(p, got[p])
      BY <1>13, <2>3 DEF Write
    <3>2. pc'[p] = "answer"
      BY <1>1, <3>1 DEF CallType, Answer
    <3>3. info'.history = info.history
      BY <1>1, <2>1, <2>3, IncrementType DEF Fits, RestType
    <3>4. QED
      BY <1>0, <1>4, <2>1, <3>1, <3>2, <3>3 DEF FileGood, Newest
  <2>4. QED
    BY <1>13, <2>2, <2>3 DEF Write
<1>14. CASE AllocateRemote(p)
  <2>1. /\ pc[p] \in {"answer", "error"}
        /\ UNCHANGED <<kind, info, log, spoilt>> /\ Return(p)
    BY <1>14 DEF AllocateRemote, file, ghosts
  <2>2. pc'[p] = "idle"
    BY <1>1, <2>1 DEF CallType, Return
  <2>3. QED
    BY <1>2, <1>4, <2>1, <2>2
<1>15. QED
  BY <1>5, <1>6, <1>7, <1>8, <1>9, <1>10, <1>11, <1>12, <1>13, <1>14
     DEF CallOf

(* A system call that fails leaves the file, or spoils it.                 *)
LEMMA FailKeeps ==
    ASSUME Typed, FileInv, ~together', NEW p \in Procs, FailOf(p)
    PROVE  FileInv'
<1>0. /\ ~together /\ FileGood /\ FileAt(p)
      /\ \A o \in Procs : o # p => pc[o] = "idle" /\ pc'[o] = "idle"
  BY CallAlone
<1>1. /\ UNCHANGED <<info, log>>
      /\ kind' \in {kind, "unreadable"} /\ spoilt' \in {spoilt, TRUE}
      /\ kind' = kind \/ pc[p] = "write"
      /\ pc[p] \in {"create", "write"} => spoilt' = TRUE
      /\ Goto(p, "error") \/ FallBack(p) \/ Answer(p, got[p])
  BY FailDoes
<1>2. pc'[p] \in {"error", "path", "answer"}
  BY <1>1, TypedParts DEF Goto, FallBack, Answer, CallType
<1>3. FileAt(p)'
  BY <1>2 DEF FileAt
<1>4. FileGood'
  <2>1. CASE pc[p] \in {"create", "write"}
    <3>1. spoilt' = TRUE
      BY <1>1, <2>1
    <3>2. kind' = "missing" => kind = "missing"
      BY <1>1
    <3>3. QED
      BY <1>0, <1>1, <3>1, <3>2 DEF FileGood, Newest
  <2>2. CASE pc[p] \notin {"create", "write"}
    <3>1. kind' = kind /\ \A o \in Procs : pc[o] \notin {"create", "write"}
      BY <1>0, <1>1, <2>2
    <3>2. kind = "unreadable" => spoilt = TRUE
      BY <1>0, <3>1, TypedParts DEF FileGood, RestType, GhostType
    <3>3. kind = "unreadable" => spoilt' = TRUE
      BY <1>1, <3>2
    <3>4. QED
      BY <1>0, <1>1, <3>1, <3>3 DEF FileGood, Newest
  <2>3. QED
    BY <2>1, <2>2
<1>5. QED
  BY <1>0, <1>3, <1>4, AloneKeeps

(* Before a call begins alone, and after a kill, nobody is in one.         *)
LEMMA IdleFile ==
    ASSUME FileInv, ~together, \A o \in Procs : pc[o] = "idle"
    PROVE  FileGood /\ (~spoilt => kind # "unreadable")
BY FileParts DEF FileGood

LEMMA BeginKeeps ==
    ASSUME Typed, FileInv, ~together', NEW p \in Procs, NEW q \in Requests,
           Begin(p, q)
    PROVE  FileInv'
<1>1. ~together /\ \A o \in Procs : pc[o] = "idle"
  BY DEF Begin
<1>2. UNCHANGED <<kind, info, log, spoilt>>
  BY DEF Begin, file
<1>3. FileGood'
  BY <1>1, <1>2, IdleFile, FileSame
<1>4. pc'[p] \in {"about", "path"}
  BY TypedParts DEF Begin, CallType
<1>5. FileAt(p)'
  BY <1>4 DEF FileAt
<1>6. ASSUME NEW o \in Procs, o # p PROVE pc'[o] = "idle"
  BY <1>1, <1>6, OthersSame, TypedParts DEF Same
<1>7. QED
  BY <1>3, <1>5, <1>6, AloneKeeps

(* A kill leaves nobody in a call; cut short, the file is spoilt.          *)
LEMMA KillKeeps ==
    ASSUME Typed, FileInv, ~together', NEW p \in Procs, Kill(p)
    PROVE  FileInv'
<1>1. ~together /\ UNCHANGED <<kind, info, log>>
  BY DEF Kill, file
<1>2. spoilt' = (spoilt \/ pc[p] \in {"create", "write"})
  BY DEF Kill
<1>3. pc'[p] = "idle"
  BY TypedParts DEF Kill, Return, CallType
<1>4. ASSUME NEW o \in Procs, o # p PROVE Same(o)
  BY <1>4, OthersSame, TypedParts
<1>5. Solo /\ FileGood /\ \A o \in Procs : FileAt(o)
  BY <1>1, FileParts
<1>6. Solo'
  BY <1>3, <1>4, <1>5 DEF Solo, Same
<1>7. FileGood'
  <2>1. ASSUME kind' = "unreadable", ~spoilt'
        PROVE  \E o \in Procs : pc'[o] \in {"create", "write"}
    <3>1. PICK o \in Procs : pc[o] \in {"create", "write"}
      BY <1>1, <1>2, <1>5, <2>1 DEF FileGood
    <3>2. o # p
      BY <1>2, <2>1, <3>1
    <3>3. QED
      BY <1>4, <3>1, <3>2 DEF Same
  <2>2. QED
    BY <1>1, <1>5, <2>1 DEF FileGood, Newest
<1>8. ASSUME NEW o \in Procs PROVE FileAt(o)'
  <2>1. CASE o = p
    BY <1>3, <2>1 DEF FileAt
  <2>2. CASE o # p
    <3>1. Same(o) /\ FileAt(o)
      BY <1>4, <1>5, <2>2
    <3>2. spoilt => spoilt'
      BY <1>2
    <3>3. Fits(o) => Fits(o)'
      BY <1>1, <3>1 DEF Fits, Same, UpdateThroughput
    <3>4. QED
      BY <1>1, <3>1, <3>2, <3>3 DEF FileAt, Same
  <2>3. QED
    BY <2>1, <2>2
<1>9. QED
  BY <1>6, <1>7, <1>8, FileParts

LEMMA FileStep == Typed /\ FileInv /\ [Next]_vars => FileInv'
<1> SUFFICES ASSUME Typed, FileInv, [Next]_vars, ~together' PROVE FileInv'
  BY FileParts
<1>1. CASE UNCHANGED <<kind, info, log, spoilt, together, pc, req, pend>>
  BY <1>1 DEF FileInv, Solo, FileAt, Fits, Newest, UpdateThroughput
<1>2. CASE EditConfig
  BY <1>1, <1>2 DEF EditConfig, file
<1>3. CASE UNCHANGED vars
  BY <1>1, <1>3 DEF vars, file, ghosts
<1>4. QED
  BY <1>2, <1>3, NextParts, CallKeeps, FailKeeps, KillKeeps, BeginKeeps

LEMMA FileInit == Init => FileInv
<1> SUFFICES ASSUME Init PROVE Solo /\ FileGood /\ \A p \in Procs : FileAt(p)
  BY FileParts
<1>1. ASSUME NEW d \in Directions, NEW r \in Remotes
      PROVE  info.history[d][r] = Newest(log[d][r])
  <2>1. info.history[d][r] = <<>> /\ log[d][r] = <<>>
    BY DEF Init, NewInfo
  <2>2. <<>> \in Seq(Nat) /\ Len(<<>>) <= MaxEntries
    BY EntriesType
  <2>3. QED
    BY <2>1, <2>2, NewestIs
<1>2. FileGood
  BY <1>1 DEF Init, FileGood
<1>3. QED
  BY <1>2 DEF Init, Solo, FileAt

LEMMA FileHolds == Spec => [](Typed /\ FileInv)
<1>1. Typed /\ FileInv /\ [Next]_vars => FileInv'
  BY FileStep
<1>2. QED
  BY <1>1, FileInit, TypedHolds, PTL DEF Spec

(* A call fails only for a reason outside of it: as long as processes make *)
(* their calls one after the other and no write was cut short or failed,   *)
(* the file every call opens is one it can read, and only a system call    *)
(* that fails at that moment makes the call fail.                          *)
THEOREM FailuresHaveCauses == Spec => ErrorHasCause
<1> DEFINE Caused ==
        \A p \in Procs :
            pc'[p] = "error" /\ pc[p] # "error"
            => \/ together \/ spoilt \/ config = <<>> \/ pc[p] = "about"
               \/ fails' > fails
<1>1. ASSUME Typed, FileInv, [Next]_vars PROVE Caused
  <2> SUFFICES ASSUME NEW p \in Procs, pc'[p] = "error", pc[p] # "error",
                      ~together, ~spoilt, config # <<>>, pc[p] # "about",
                      ~(fails' > fails)
               PROVE  FALSE
    OBVIOUS
  <2>1. CallType /\ FileAt(p)
    BY <1>1, TypedParts, FileParts
  <2>2. ASSUME NEW o \in Procs,
               CallOf(o) \/ FailOf(o) \/ Kill(o)
                 \/ \E q \in Requests : Begin(o, q)
        PROVE  o = p
    BY <2>1, <2>2, OthersSame DEF Same
  <2>3. ~(\E q \in Requests : Begin(p, q)) /\ ~Kill(p) /\ ~FailOf(p)
    <3>1. ~(\E q \in Requests : Begin(p, q)) /\ ~Kill(p)
      BY <2>1 DEF Begin, Kill, Return, CallType
    <3>2. fails \in Nat
      BY <1>1, TypedParts DEF RestType, GhostType
    <3>3. ASSUME FailOf(p) PROVE FALSE
      <4>1. fails' = fails + 1
        BY <3>3, FailDoes
      <4>2. QED
        BY <3>2, <4>1
    <3>4. QED
      BY <3>1, <3>3
  <2>4. CASE CallOf(p)
    <3>1. ASSUME NEW n, Goto(p, n) PROVE n = "error"
      BY <2>1, <3>1 DEF Goto, CallType
    <3>2. /\ ~Return(p) /\ ~FallBack(p)
          /\ ~(\E r : Answer(p, r)) /\ ~(\E i : Rewrite(p, i))
      BY <2>1 DEF Return, FallBack, Answer, Rewrite, CallType
    <3>3. RoundRobin(p) \/ UpdateRemoteInfo(p)
      BY <2>4, <3>1, <3>2 DEF CallOf, getLoadBalancerJsonFilePath,
         WriteDefaults, IncrementRoundRobinCounter,
         getRemoteOfHighestThroughput, LoadBalancer_ResourceBased, Truncate,
         Write, AllocateRemote
    <3>4. pc[p] = "read"
      BY <3>3 DEF RoundRobin, UpdateRemoteInfo
    <3>5. kind = "whole"
      BY <2>1, <3>4 DEF FileAt
    <3>6. CASE RoundRobin(p)
      <4>1. pc' = [pc EXCEPT ![p] = "increment"]
        BY <3>5, <3>6 DEF RoundRobin, LoadBalancer_RoundRobin
      <4>2. QED
        BY <2>1, <4>1 DEF CallType
    <3>7. CASE UpdateRemoteInfo(p)
      BY <3>2, <3>5, <3>7 DEF UpdateRemoteInfo
    <3>8. QED
      BY <3>3, <3>6, <3>7
  <2>5. QED
    BY <1>1, <2>2, <2>3, <2>4, NextParts DEF EditConfig, vars
<1>2. Typed /\ FileInv /\ [Next]_vars
      => [\A p \in Procs :
             /\ pc'[p] = "error" /\ pc[p] # "error"
             => \/ together \/ spoilt
                \/ config = <<>>
                \/ pc[p] = "about"
                \/ fails' > fails]_vars
  BY <1>1
<1>3. QED
  BY <1>2, FileHolds, PTL DEF Spec, ErrorHasCause

(* The configured remotes.                                                 *)
LEMMA ConfiguredType ==
    ASSUME Typed PROVE Configured \subseteq Remotes
<1>1. config \in Seq(Remotes)
  BY TypedParts DEF RestType
<1>2. QED
  BY <1>1, ElementOfSeq DEF Configured

(* Round robin aside, a call answers with a remote for its throughput.     *)
LEMMA AnswerIsBest ==
    ASSUME Typed, [Next]_vars, NEW p \in Procs,
           pc[p] = "read", pc'[p] = "answer"
    PROVE  got'[p] \in HighestThroughput(Direction(req[p]))
<1>1. CallType
  BY TypedParts
<1>2. ASSUME NEW o \in Procs,
             CallOf(o) \/ FailOf(o) \/ Kill(o)
               \/ \E q \in Requests : Begin(o, q)
      PROVE  o = p
  BY <1>1, <1>2, OthersSame DEF Same
<1>3. ~(\E q \in Requests : Begin(p, q)) /\ ~Kill(p) /\ ~FailOf(p)
  <2>1. ~(\E q \in Requests : Begin(p, q)) /\ ~Kill(p)
    BY <1>1 DEF Begin, Kill, Return, CallType
  <2>2. ASSUME FailOf(p) PROVE FALSE
    <3>1. Goto(p, "error") \/ FallBack(p)
      BY <2>2, FailDoes
    <3>2. QED
      BY <1>1, <3>1 DEF Goto, FallBack, CallType
  <2>3. QED
    BY <2>1, <2>2
<1>4. CallOf(p)
  BY <1>2, <1>3, NextParts DEF EditConfig, vars
<1>5. ASSUME NEW n, Goto(p, n) PROVE n = "answer"
  BY <1>1, <1>5 DEF Goto, CallType
<1>6. ~Return(p) /\ ~FallBack(p) /\ ~(\E i : Rewrite(p, i))
  BY <1>1 DEF Return, FallBack, Rewrite, CallType
<1>7. ~RoundRobin(p)
  BY <1>1, <1>5 DEF RoundRobin, LoadBalancer_RoundRobin, CallType
<1>8. getRemoteOfHighestThroughput(p)
  BY <1>4, <1>5, <1>6, <1>7 DEF CallOf, getLoadBalancerJsonFilePath,
     WriteDefaults, IncrementRoundRobinCounter, LoadBalancer_ResourceBased,
     UpdateRemoteInfo, Truncate, Write, AllocateRemote
<1>9. \E r \in HighestThroughput(Direction(req[p])) : Answer(p, r)
  BY <1>6, <1>8 DEF getRemoteOfHighestThroughput
<1>10. QED
  BY <1>1, <1>9 DEF Answer, CallType

(* A remote chosen for its throughput, while it is configured, is the best *)
(* of the configured ones by the transfers that were recorded: no call     *)
(* that is cut short, fails or changes the counter in between loses one or *)
(* brings an old one back.                                                 *)
THEOREM ChoosesFastest == Spec => FastestChosen
<1>1. ASSUME Typed, FileInv, [Next]_vars, NEW p \in Procs, ~together,
             pc[p] = "read", pc'[p] = "answer", NEW r \in Remotes
      PROVE  Recent(Direction(req[p]), r) <= Recent(Direction(req[p]), got'[p])
  <2> DEFINE d == Direction(req[p])
             b == got'[p]
  <2>1. b \in HighestThroughput(d)
    BY <1>1, AnswerIsBest
  <2>2. d \in Directions
    BY DEF Direction, Directions
  <2> HIDE DEF d, b
  <2>3. b \in Remotes
        /\ maxSpeed(info.history[d][r]) <= maxSpeed(info.history[d][b])
    BY <2>1 DEF HighestThroughput
  <2>4. /\ info.history[d][r] = Newest(log[d][r])
        /\ info.history[d][b] = Newest(log[d][b])
    BY <1>1, <2>2, <2>3, FileParts DEF FileGood
  <2>5. /\ Recent(d, r) = maxSpeed(Newest(log[d][r]))
        /\ Recent(d, b) = maxSpeed(Newest(log[d][b]))
    BY DEF Recent, Newest
  <2>6. QED
    BY <2>3, <2>4, <2>5 DEF d, b
<1>2. Typed /\ FileInv /\ [Next]_vars
      => [\A p \in Procs :
             /\ ~together
             /\ pc[p] = "read" /\ pc'[p] = "answer" /\ got'[p] \in Configured
             => \A r \in Configured :
                   Recent(Direction(req[p]), r)
                       <= Recent(Direction(req[p]), got'[p])]_vars
  BY <1>1, ConfiguredType
<1>3. QED
  BY <1>2, FileHolds, PTL DEF Spec, FastestChosen

-----------------------------------------------------------------------------
(* The rounds.                                                             *)

(* Going one further puts one more remote ahead; when the round is         *)
(* complete, all of them were ahead but the last.                          *)
LEMMA LeadNext ==
    ASSUME NEW n \in Nat \ {0}, NEW b \in 0..(n - 1), NEW e \in 0..(n - 1),
           NEW i \in 0..(n - 1), NEW f,
           f = IF e = n - 1 THEN 0 ELSE e + 1
    PROVE  /\ f \in 0..(n - 1)
           /\ Lead(b, e, i) \in {0, 1} /\ Lead(b, b, i) = 0
           /\ Lead(b, e, e) = 0
           /\ f # b => Lead(b, f, i) = IF i = e THEN 1 ELSE Lead(b, e, i)
           /\ f = b => (i # e => Lead(b, e, i) = 1)
BY DEF Lead, Ahead

(* Where the counter stands when at most one process is in a call.         *)
LEMMA CounterAlone ==
    ASSUME NEW p \in Procs, \A o \in Procs : o # p => pc[o] = "idle"
    PROVE  Counter = IF PickedAt(p) THEN info.counter + 1 ELSE info.counter
<1>1. \A o \in Procs : PickedAt(o) => o = p
  BY DEF PickedAt
<1>2. QED
  BY <1>1 DEF Counter

LEMMA CounterAloneAfter ==
    ASSUME NEW p \in Procs, \A o \in Procs : o # p => pc'[o] = "idle"
    PROVE  Counter' = IF PickedAt(p)' THEN info'.counter + 1
                                      ELSE info'.counter
<1>1. \A o \in Procs : PickedAt(o)' => o = p
  BY DEF PickedAt
<1>2. QED
  BY <1>1 DEF Counter

LEMMA CounterType ==
    ASSUME Typed
    PROVE  Counter \in Nat /\ picks \in [Remotes -> Nat] /\ Lost \in Nat
           /\ config \in Seq(Remotes) /\ Len(config) \in Nat
           /\ (config # <<>> => Len(config) # 0)
           /\ ConfigInv
           /\ \A i \in 1..Len(config) : config[i] \in Remotes
<1>1. RestType
  BY TypedParts
<1>2. info.counter \in Nat
  BY <1>1 DEF RestType, Infos
<1>3. Counter \in Nat
  BY <1>2 DEF Counter
<1>4. config \in Seq(Remotes)
  BY <1>1 DEF RestType
<1>5. Len(config) \in Nat /\ (config # <<>> => Len(config) # 0)
      /\ \A i \in 1..Len(config) : config[i] \in Remotes
  BY <1>4, LenProperties, ElementOfSeq, EmptySeq
<1>6. QED
  BY <1>1, <1>3, <1>4, <1>5 DEF RestType, GhostType, Lost

(* As long as the counter, the picks and the configuration stay, so does   *)
(* the round.                                                              *)
LEMMA EvenSame ==
    ASSUME EvenInv, UNCHANGED <<config, picks, together>>, Counter' = Counter,
           Lost' = Lost
    PROVE  EvenInv'
BY DEF EvenInv, Even, Lead, Ahead

(* The steps of a call that pick nothing leave the counter where it is:    *)
(* the write that stores it takes the place of the pick it stands for.     *)
LEMMA CallCounts ==
    ASSUME Typed, FileInv, ~together', NEW p \in Procs, CallOf(p),
           ~RoundRobin(p)
    PROVE  Counter' = Counter
<1>0. /\ ~together /\ pc[p] # "idle" /\ FileGood /\ FileAt(p)
      /\ \A o \in Procs : o # p => pc[o] = "idle" /\ pc'[o] = "idle"
  BY CallAlone
<1>1. /\ CallType /\ RestType /\ req[p] \in Requests
  BY <1>0, TypedParts DEF CallType, ControlInv
<1>2. /\ Counter = IF PickedAt(p) THEN info.counter + 1 ELSE info.counter
      /\ Counter' = IF PickedAt(p)' THEN info'.counter + 1 ELSE info'.counter
  BY <1>0, CounterAlone, CounterAloneAfter
<1>3. ASSUME info'.counter = info.counter, PickedAt(p)' <=> PickedAt(p)
      PROVE  Counter' = Counter
  BY <1>2, <1>3
<1>4. ASSUME NEW n, Goto(p, n)
      PROVE  pc'[p] = n /\ req'[p] = req[p]
  BY <1>1, <1>4 DEF CallType, Goto
<1>5. CASE getLoadBalancerJsonFilePath(p)
  BY <1>3, <1>4, <1>5 DEF getLoadBalancerJsonFilePath, PickedAt
<1>6. CASE WriteDefaults(p)
  BY <1>0, <1>3, <1>4, <1>6 DEF WriteDefaults, FileAt, PickedAt
<1>7. CASE IncrementRoundRobinCounter(p)
  <2>1. /\ pc[p] = "increment" /\ info' = info
        /\ Rewrite(p, [info EXCEPT !.counter = @ + 1])
        /\ req[p].op = "allocate"
    BY <1>0, <1>1, <1>7 DEF IncrementRoundRobinCounter, FileAt, file,
       CallType, ControlInv
  <2>2. /\ pc'[p] = "truncate" /\ req'[p] = req[p]
    BY <1>1, <2>1 DEF CallType, Rewrite
  <2>3. QED
    BY <1>3, <2>1, <2>2 DEF PickedAt
<1>8. CASE getRemoteOfHighestThroughput(p)
  <2>1. /\ pc[p] = "read" /\ info' = info
        /\ FallBack(p) \/ \E r : Answer(p, r)
    BY <1>8 DEF getRemoteOfHighestThroughput, file
  <2>2. pc'[p] \in {"path", "answer"}
    BY <1>1, <2>1 DEF CallType, Answer, FallBack
  <2>3. QED
    BY <1>3, <2>1, <2>2 DEF PickedAt
<1>9. CASE LoadBalancer_ResourceBased(p)
  <2>1. /\ pc[p] = "about" /\ info' = info
        /\ Goto(p, "error") \/ \E r : Answer(p, r)
    BY <1>9 DEF LoadBalancer_ResourceBased, file
  <2>2. pc'[p] \in {"error", "answer"}
    BY <1>1, <1>4, <2>1 DEF CallType, Answer
  <2>3. QED
    BY <1>3, <2>1, <2>2 DEF PickedAt
<1>10. CASE UpdateRemoteInfo(p)
  <2>1. /\ pc[p] = "read" /\ info' = info /\ req[p].op = "record"
        /\ Goto(p, "error") \/ \E i : Rewrite(p, i)
    BY <1>10 DEF UpdateRemoteInfo, file
  <2>2. pc'[p] \in {"error", "truncate"} /\ req'[p] = req[p]
    BY <1>1, <1>4, <2>1 DEF CallType, Rewrite
  <2>3. QED
    BY <1>3, <2>1, <2>2 DEF PickedAt
<1>11. CASE Truncate(p)
  BY <1>3, <1>4, <1>11 DEF Truncate, PickedAt
<1>12. CASE Write(p)
  <2>1. /\ pc[p] = "write" /\ info' = pend[p] /\ Fits(p)
    BY <1>0, <1>12 DEF Write, FileAt
  <2>2. pc'[p] \in {"idle", "answer"}
    BY <1>1, <1>12 DEF Write, Return, Answer, CallType
  <2>3. CASE req[p].op = "record"
    <3>1. PICK h : info' = [info EXCEPT !.history = h]
      BY <2>1, <2>3 DEF Fits
    <3>2. info'.counter = info.counter
      BY <1>1, <3>1 DEF RestType, Infos
    <3>3. QED
      BY <1>3, <2>1, <2>2, <2>3, <3>2 DEF PickedAt
  <2>4. CASE req[p].op = "allocate"
    <3>1. info'.counter = info.counter + 1
      BY <1>1, <2>1, <2>4, IncrementType DEF Fits, RestType
    <3>2. PickedAt(p) /\ ~PickedAt(p)'
      BY <2>1, <2>2, <2>4 DEF PickedAt
    <3>3. QED
      BY <1>2, <3>1, <3>2
  <2>5. QED
    BY <1>12, <2>3, <2>4 DEF Write
<1>13. CASE AllocateRemote(p)
  <2>1. pc'[p] = "idle" /\ info' = info
    BY <1>1, <1>13 DEF AllocateRemote, Return, CallType, file
  <2>2. QED
    BY <1>3, <1>13, <2>1 DEF AllocateRemote, PickedAt
<1>14. QED
  BY <1>5, <1>6, <1>7, <1>8, <1>9, <1>10, <1>11, <1>12, <1>13 DEF CallOf

(* A pick takes the round one remote further.                              *)
LEMMA PickKeeps ==
    ASSUME Typed, FileInv, EvenInv, ~together', NEW p \in Procs, RoundRobin(p)
    PROVE  EvenInv'
<1>1. CallOf(p)
  BY DEF CallOf
<1>2. /\ ~together /\ pc[p] # "idle"
      /\ \A o \in Procs : o # p => pc[o] = "idle" /\ pc'[o] = "idle"
  BY <1>1, CallAlone
<1>3. /\ CallType /\ pc[p] = "read"
      /\ UNCHANGED <<info, config, together>> /\ Lost' = Lost
  BY TypedParts DEF RoundRobin, LoadBalancer_RoundRobin, file, counts, Lost
<1>4. Counter = info.counter
  BY <1>2, <1>3, CounterAlone DEF PickedAt
<1>5. CASE Goto(p, "error") /\ UNCHANGED picks
  <2>1. pc'[p] = "error"
    BY <1>3, <1>5 DEF Goto, CallType
  <2>2. Counter' = Counter
    BY <1>2, <1>3, <1>4, <2>1, CounterAloneAfter DEF PickedAt
  <2>3. QED
    BY <1>3, <1>5, <2>2, EvenSame
<1>6. CASE /\ config # <<>>
           /\ picks' = [picks EXCEPT
                          ![config[(info.counter % Len(config)) + 1]] = @ + 1]
           /\ pc' = [pc EXCEPT ![p] = "increment"]
  <2>1. PICK c \in Nat : c = Counter
    BY CounterType
  <2>2. PICK n \in Nat \ {0} : n = Len(config)
    BY <1>6, CounterType
  <2>3. Counter' = c + 1
    BY <1>2, <1>3, <1>4, <1>6, <2>1, CounterAloneAfter DEF PickedAt, CallType
  <2>4. PICK e \in 0..(n - 1), f \in 0..(n - 1) :
           /\ e = c % n /\ f = (c + 1) % n
           /\ f = IF e = n - 1 THEN 0 ELSE e + 1
    <3>1. c + 1 \in Nat
      OBVIOUS
    <3>2. c % n \in 0..(n - 1) /\ (c + 1) % n \in 0..(n - 1)
      BY <3>1, NextTurn
    <3>3. (c + 1) % n = IF c % n = n - 1 THEN 0 ELSE (c % n) + 1
      BY NextTurn
    <3>4. QED
      BY <3>2, <3>3
  <2>5. PICK b \in 0..(n - 1), k \in Nat : Even(b, k, e)
    BY <1>2, <1>6, <2>1, <2>2, <2>4 DEF EvenInv
  <2>6. picks' = [picks EXCEPT ![config[e + 1]] = @ + 1]
    BY <1>4, <1>6, <2>1, <2>2, <2>4
  <2>7. ASSUME NEW i \in 0..(n - 1)
        PROVE  /\ config[i + 1] \in Remotes
               /\ picks[config[i + 1]] \in Nat
               /\ picks'[config[i + 1]] = IF i = e THEN picks[config[i + 1]] + 1
                                          ELSE picks[config[i + 1]]
    <3>1. i + 1 \in 1..Len(config) /\ e + 1 \in 1..Len(config)
      BY <2>2
    <3>2. config[i + 1] \in Remotes /\ config[e + 1] \in Remotes
      BY <3>1, CounterType
    <3>3. config[i + 1] = config[e + 1] => i = e
      BY <3>1, CounterType DEF ConfigInv
    <3>4. picks \in [Remotes -> Nat]
      BY CounterType
    <3>5. QED
      BY <2>6, <3>2, <3>3, <3>4
  <2>8. ASSUME NEW i \in 0..(n - 1)
        PROVE  /\ k + Lead(b, e, i) <= picks[config[i + 1]]
               /\ picks[config[i + 1]] <= k + Lead(b, e, i) + Lost
               /\ Lost \in Nat
    BY <2>2, <2>5, CounterType DEF Even
  <2>9. ASSUME NEW j \in Nat,
               \A i \in 0..(n - 1) :
                  j + Lead(b, f, i) = IF i = e THEN k + Lead(b, e, i) + 1
                                               ELSE k + Lead(b, e, i)
        PROVE  EvenInv'
    <3>1. ASSUME NEW i \in 0..(n - 1)
          PROVE  /\ j + Lead(b, f, i) <= picks'[config[i + 1]]
                 /\ picks'[config[i + 1]] <= j + Lead(b, f, i) + Lost
      <4>1. Lead(b, e, i) \in {0, 1}
        BY <2>4, LeadNext
      <4>2. PICK l \in {0, 1} : l = Lead(b, e, i)
        BY <4>1
      <4>3. PICK m \in Int : m = j + Lead(b, f, i)
                             /\ m = IF i = e THEN k + l + 1 ELSE k + l
        BY <2>9, <4>2
      <4>4. QED
        BY <2>7, <2>8, <4>2, <4>3
    <3>2. Even(b, j, f)'
      <4>1. \A i \in 0..(Len(config') - 1) :
               /\ j + Lead(b, f, i) <= picks'[config'[i + 1]]
               /\ picks'[config'[i + 1]] <= j + Lead(b, f, i) + Lost'
        BY <1>3, <2>2, <3>1
      <4>2. QED
        BY <4>1 DEF Even, Lead, Ahead
    <3>3. Counter' % Len(config') = f /\ Len(config') = n
      BY <1>3, <2>2, <2>3, <2>4
    <3>4. QED
      BY <3>2, <3>3 DEF EvenInv
  <2>10. CASE f # b
    <3>1. ASSUME NEW i \in 0..(n - 1)
          PROVE  k + Lead(b, f, i) = IF i = e THEN k + Lead(b, e, i) + 1
                                              ELSE k + Lead(b, e, i)
      BY <2>4, <2>10, LeadNext
    <3>2. QED
      BY <2>9, <3>1
  <2>11. CASE f = b
    <3>1. ASSUME NEW i \in 0..(n - 1)
          PROVE  k + 1 + Lead(b, f, i) = IF i = e THEN k + Lead(b, e, i) + 1
                                                  ELSE k + Lead(b, e, i)
      BY <2>4, <2>11, LeadNext
    <3>2. QED
      BY <2>9, <3>1
  <2>12. QED
    BY <2>10, <2>11
<1>7. QED
  BY <1>5, <1>6 DEF RoundRobin, LoadBalancer_RoundRobin

(* Where the counter stays, or one pick is not counted, the others fall    *)
(* behind by one at most.                                                  *)
LEMMA LossEven ==
    ASSUME Typed, EvenInv, ~together, UNCHANGED <<config, picks>>,
           Lost' = Lost + 1,
           \/ Counter' = Counter
           \/ Counter = Counter' + 1 /\ Counter' \in Nat
    PROVE  EvenInv'
<1> SUFFICES ASSUME config # <<>> PROVE EvenInv'
  BY DEF EvenInv
<1>1. PICK n \in Nat \ {0} : n = Len(config)
  BY CounterType
<1>2. PICK c \in Nat, e \in 0..(n - 1) : c = Counter /\ e = c % n
  BY CounterType, NextTurn
<1>3. PICK b \in 0..(n - 1), k \in Nat : Even(b, k, e)
  BY <1>1, <1>2 DEF EvenInv
<1>4. ASSUME NEW i \in 0..(n - 1)
      PROVE  /\ k + Lead(b, e, i) <= picks[config[i + 1]]
             /\ picks[config[i + 1]] <= k + Lead(b, e, i) + Lost
             /\ Lost \in Nat /\ picks[config[i + 1]] \in Nat
  BY <1>1, <1>3, CounterType DEF Even
<1>5. ASSUME NEW a \in 0..(n - 1), NEW f \in 0..(n - 1),
             f = Counter' % n,
             \A i \in 0..(n - 1) :
                /\ Lead(b, e, i) \in {0, 1} /\ Lead(a, f, i) \in {0, 1}
                /\ Lead(a, f, i) <= Lead(b, e, i)
      PROVE  EvenInv'
  <2>1. ASSUME NEW i \in 0..(n - 1)
        PROVE  /\ k + Lead(a, f, i) <= picks[config[i + 1]]
               /\ picks[config[i + 1]] <= k + Lead(a, f, i) + (Lost + 1)
    <3>1. PICK l \in {0, 1}, m \in {0, 1} :
             l = Lead(b, e, i) /\ m = Lead(a, f, i) /\ m <= l
      BY <1>5
    <3>2. PICK x \in Nat, w \in Nat : x = picks[config[i + 1]] /\ w = Lost
      BY <1>4
    <3>3. k + l <= x /\ x <= k + l + w
      BY <1>4, <3>1, <3>2
    <3>4. k + m <= x /\ x <= k + m + (w + 1)
      BY <3>1, <3>3
    <3>5. QED
      BY <3>1, <3>2, <3>4
  <2>2. Even(a, k, f)'
    <3>1. \A i \in 0..(Len(config') - 1) :
             /\ k + Lead(a, f, i) <= picks'[config'[i + 1]]
             /\ picks'[config'[i + 1]] <= k + Lead(a, f, i) + Lost'
      BY <1>1, <2>1
    <3>2. QED
      BY <3>1 DEF Even, Lead, Ahead
  <2>3. Counter' % Len(config') = f /\ Len(config') = n
    BY <1>1, <1>5
  <2>4. QED
    BY <2>2, <2>3 DEF EvenInv
<1>6. CASE Counter' = Counter
  <2>1. \A i \in 0..(n - 1) : Lead(b, e, i) \in {0, 1}
    BY DEF Lead
  <2>2. e = Counter' % n
    BY <1>2, <1>6
  <2>3. QED
    BY <1>5, <2>1, <2>2
<1>7. CASE Counter = Counter' + 1 /\ Counter' \in Nat
  <2>1. PICK g \in Nat : g = Counter' /\ c = g + 1
    BY <1>2, <1>7
  <2>2. PICK f \in 0..(n - 1) : /\ f = g % n
                                /\ e = IF f = n - 1 THEN 0 ELSE f + 1
    BY <1>2, <2>1, NextTurn
  <2>3. CASE e # b
    <3>1. \A i \in 0..(n - 1) :
             /\ Lead(b, e, i) \in {0, 1} /\ Lead(b, f, i) \in {0, 1}
             /\ Lead(b, f, i) <= Lead(b, e, i)
      BY <2>2, <2>3, LeadNext
    <3>2. QED
      BY <1>5, <2>1, <2>2, <3>1
  <2>4. CASE e = b
    <3>1. \A i \in 0..(n - 1) :
             /\ Lead(b, e, i) \in {0, 1} /\ Lead(f, f, i) \in {0, 1}
             /\ Lead(f, f, i) <= Lead(b, e, i)
      BY <2>2, <2>4 DEF Lead, Ahead
    <3>2. QED
      BY <1>5, <2>1, <2>2, <3>1
  <2>5. QED
    BY <2>3, <2>4
<1>8. QED
  BY <1>6, <1>7

(* A kill takes back at most the one pick the counter does not show.       *)
LEMMA KillEven ==
    ASSUME Typed, FileInv, EvenInv, ~together', NEW p \in Procs, Kill(p)
    PROVE  EvenInv'
<1>1. ~together /\ UNCHANGED <<info, config, picks>>
      /\ cuts' = cuts + 1 /\ fails' = fails
  BY DEF Kill, file
<1>2. Solo /\ CallType
  BY <1>1, FileParts, TypedParts
<1>3. pc'[p] = "idle" /\ \A o \in Procs : o # p => Same(o)
  BY <1>2, OthersSame DEF Kill, Return, CallType
<1>4. \/ Counter' = Counter
      \/ Counter = Counter' + 1 /\ Counter' \in Nat
  <2>1. CASE pc[p] = "idle"
    <3>1. \A o \in Procs : PickedAt(o)' <=> PickedAt(o)
      BY <1>3, <2>1 DEF PickedAt, Same
    <3>2. QED
      BY <1>1, <3>1 DEF Counter
  <2>2. CASE pc[p] # "idle"
    <3>1. \A o \in Procs : o # p => pc[o] = "idle" /\ pc'[o] = "idle"
      BY <1>2, <1>3, <2>2 DEF Solo, Same
    <3>2. Counter' = info.counter
      BY <1>1, <1>3, <3>1, CounterAloneAfter DEF PickedAt
    <3>3. Counter = IF PickedAt(p) THEN info.counter + 1 ELSE info.counter
      BY <3>1, CounterAlone
    <3>4. info.counter \in Nat
      BY TypedParts DEF RestType, Infos
    <3>5. QED
      BY <3>2, <3>3, <3>4
  <2>3. QED
    BY <2>1, <2>2
<1>5. Lost' = Lost + 1
  BY <1>1, TypedParts DEF RestType, GhostType, Lost
<1>6. QED
  BY <1>1, <1>4, <1>5, LossEven

(* So does a system call that fails: the choice stands and the counter is  *)
(* not written, or there was no choice to count.                           *)
LEMMA FailEven ==
    ASSUME Typed, FileInv, EvenInv, ~together', NEW p \in Procs, FailOf(p)
    PROVE  EvenInv'
<1>1. ~together /\ \A o \in Procs : o # p => pc[o] = "idle" /\ pc'[o] = "idle"
  BY CallAlone
<1>2. /\ UNCHANGED <<info, config, picks, cuts>> /\ fails' = fails + 1
      /\ Goto(p, "error") \/ FallBack(p) \/ Answer(p, got[p])
  BY FailDoes
<1>3. pc'[p] \in {"error", "path", "answer"}
  BY <1>2, TypedParts DEF Goto, FallBack, Answer, CallType
<1>4. Counter' = info.counter
  BY <1>1, <1>2, <1>3, CounterAloneAfter DEF PickedAt
<1>5. Counter = IF PickedAt(p) THEN info.counter + 1 ELSE info.counter
  BY <1>1, CounterAlone
<1>6. info.counter \in Nat
  BY TypedParts DEF RestType, Infos
<1>7. \/ Counter' = Counter
      \/ Counter = Counter' + 1 /\ Counter' \in Nat
  BY <1>4, <1>5, <1>6
<1>8. Lost' = Lost + 1
  BY <1>2, TypedParts DEF RestType, GhostType, Lost
<1>9. QED
  BY <1>1, <1>2, <1>7, <1>8, LossEven

LEMMA LostAfter == Typed' => Lost' \in Nat
BY TypedPartsAfter DEF RestType, GhostType, Lost

(* A change of the configuration begins a new round where the counter is.  *)
LEMMA EditEven ==
    ASSUME Typed', ~together', EditConfig PROVE EvenInv'
<1> SUFFICES ASSUME config' # <<>> PROVE EvenInv'
  BY DEF EvenInv
<1>1. /\ Counter' \in Nat /\ Lost' \in Nat /\ config' \in Seq(Remotes)
      /\ Len(config') \in Nat /\ Len(config') # 0
      /\ \A i \in 1..Len(config') : config'[i] \in Remotes
  <2>1. RestType'
    BY TypedPartsAfter
  <2>2. info'.counter \in Nat /\ config' \in Seq(Remotes) /\ Lost' \in Nat
    <3>1. info'.counter \in Nat /\ config' \in Seq(Remotes)
      BY <2>1 DEF RestType, Infos
    <3>2. QED
      BY <3>1, LostAfter, Zenon
  <2>3. Counter' \in Nat
    BY <2>2 DEF Counter
  <2>4. Len(config') \in Nat /\ Len(config') # 0
        /\ \A i \in 1..Len(config') : config'[i] \in Remotes
    BY <2>2, LenProperties, ElementOfSeq, EmptySeq
  <2>5. QED
    BY <2>2, <2>3, <2>4
<1>2. PICK n \in Nat \ {0} : n = Len(config')
  BY <1>1
<1>3. PICK e \in 0..(n - 1) : e = Counter' % n
  BY <1>1, NextTurn
<1>4. \A i \in 0..(n - 1) : picks'[config'[i + 1]] = 0
  BY <1>1, <1>2 DEF EditConfig
<1>5. \A i \in 0..(n - 1) : Lead(e, e, i) = 0
  BY DEF Lead, Ahead
<1>6. \A i \in 0..(Len(config') - 1) :
         /\ 0 + Lead(e, e, i) <= picks'[config'[i + 1]]
         /\ picks'[config'[i + 1]] <= 0 + Lead(e, e, i) + Lost'
  BY <1>1, <1>2, <1>4, <1>5
<1>7. Even(e, 0, e)'
  BY <1>6 DEF Even, Lead, Ahead
<1>8. QED
  BY <1>2, <1>3, <1>7 DEF EvenInv

LEMMA EvenStep == Typed /\ Typed' /\ FileInv /\ EvenInv /\ [Next]_vars => EvenInv'
<1> SUFFICES ASSUME Typed, Typed', FileInv, EvenInv, [Next]_vars, ~together'
             PROVE  EvenInv'
  BY DEF EvenInv
<1>1. CASE EditConfig
  BY <1>1, EditEven
<1>2. ASSUME NEW p \in Procs, CallOf(p) PROVE EvenInv'
  <2>1. CASE RoundRobin(p)
    BY <2>1, PickKeeps
  <2>2. CASE ~RoundRobin(p)
    <3>1. Counter' = Counter
      BY <1>2, <2>2, CallCounts
    <3>2. UNCHANGED <<config, picks, together>> /\ Lost' = Lost
      BY <1>2, <2>2 DEF CallOf, getLoadBalancerJsonFilePath, WriteDefaults,
         IncrementRoundRobinCounter, getRemoteOfHighestThroughput,
         LoadBalancer_ResourceBased, UpdateRemoteInfo, Truncate, Write,
         AllocateRemote, counts, ghosts, Lost
    <3>3. QED
      BY <3>1, <3>2, EvenSame
  <2>3. QED
    BY <2>1, <2>2
<1>3. ASSUME NEW p \in Procs, Kill(p) PROVE EvenInv'
  BY <1>3, KillEven
<1>4. ASSUME NEW p \in Procs, NEW q \in Requests, Begin(p, q) PROVE EvenInv'
  <2>1. /\ ~together /\ (\A o \in Procs : pc[o] = "idle")
        /\ UNCHANGED <<info, config, picks>> /\ Lost' = Lost
    BY <1>4 DEF Begin, file, Lost
  <2>2. pc'[p] \in {"about", "path"}
    BY <1>4, TypedParts DEF Begin, CallType
  <2>3. ASSUME NEW o \in Procs, o # p PROVE pc'[o] = "idle"
    BY <1>4, <2>1, <2>3, OthersSame, TypedParts DEF Same
  <2>4. Counter = info.counter /\ Counter' = info'.counter
    BY <2>1, <2>2, <2>3, CounterAlone, CounterAloneAfter DEF PickedAt
  <2>5. together \in BOOLEAN /\ together' \in BOOLEAN
    BY TypedParts, TypedPartsAfter DEF RestType, GhostType
  <2>6. together = FALSE /\ together' = FALSE
    BY <2>1, <2>5
  <2>7. Counter' = Counter
    BY <2>1, <2>4
  <2>8. QED
    BY <2>1, <2>6, <2>7, EvenSame
<1>5. CASE UNCHANGED vars
  <2>1. Counter' = Counter /\ UNCHANGED <<config, picks, together>>
        /\ Lost' = Lost
    BY <1>5 DEF vars, file, counts, ghosts, Counter, PickedAt, Lost
  <2>2. QED
    BY <2>1, EvenSame
<1>6. ASSUME NEW p \in Procs, FailOf(p) PROVE EvenInv'
  BY <1>6, FailEven
<1>7. QED
  BY <1>1, <1>2, <1>3, <1>4, <1>5, <1>6, NextParts

LEMMA EvenInit == Init /\ Typed => EvenInv
<1> SUFFICES ASSUME Init, Typed, config # <<>> PROVE EvenInv
  BY DEF EvenInv
<1>1. PICK n \in Nat \ {0} : n = Len(config)
  BY CounterType
<1>2. PICK e \in 0..(n - 1) : e = Counter % n
  BY CounterType, NextTurn
<1>3. \A i \in 0..(n - 1) : picks[config[i + 1]] = 0
  BY <1>1, CounterType DEF Init
<1>4. \A i \in 0..(n - 1) : Lead(e, e, i) = 0
  BY DEF Lead, Ahead
<1>5. Even(e, 0, e)
  BY <1>1, <1>3, <1>4, CounterType DEF Even
<1>6. QED
  BY <1>1, <1>2, <1>5 DEF EvenInv

(* Round robin spreads the shards evenly: however many remotes there are,  *)
(* whichever other policies and records come in between, no configured     *)
(* remote is picked two times more than another since the configuration    *)
(* last changed, or one more for every process that was killed and every   *)
(* system call on the file that failed.                                    *)
THEOREM SpreadsEvenly == Spec => []Balanced
<1>1. Typed /\ EvenInv => Balanced
  <2> SUFFICES ASSUME Typed, EvenInv, ~together,
                      NEW r \in Configured, NEW q \in Configured
               PROVE  picks[r] - picks[q] <= 1 + cuts + fails
    BY DEF Balanced
  <2>1. PICK i \in 1..Len(config), j \in 1..Len(config) :
           r = config[i] /\ q = config[j]
    BY DEF Configured
  <2>2. config # <<>> /\ Len(config) \in Nat
    BY <2>1, CounterType
  <2>3. \E b \in 0..(Len(config) - 1), k \in Nat : \E e : Even(b, k, e)
    BY <2>2 DEF EvenInv
  <2> PICK b \in 0..(Len(config) - 1), k \in Nat : \E e : Even(b, k, e)
    BY <2>3
  <2> PICK e : Even(b, k, e)
    OBVIOUS
  <2>4. i - 1 \in 0..(Len(config) - 1) /\ j - 1 \in 0..(Len(config) - 1)
        /\ (i - 1) + 1 = i /\ (j - 1) + 1 = j
    BY <2>2
  <2>5. PICK l \in {0, 1}, m \in {0, 1} :
           l = Lead(b, e, i - 1) /\ m = Lead(b, e, j - 1)
    BY DEF Lead
  <2>6. picks[r] <= k + l + Lost /\ k + m <= picks[q]
    BY <2>1, <2>4, <2>5 DEF Even
  <2>7. picks[r] \in Nat /\ picks[q] \in Nat /\ Lost \in Nat
    BY <2>1, CounterType
  <2>8. Lost = cuts + fails /\ cuts \in Nat /\ fails \in Nat
    BY TypedParts DEF Lost, RestType, GhostType
  <2>9. QED
    BY <2>6, <2>7, <2>8
<1>2. QED
  BY <1>1, EvenInit, EvenStep, FileHolds, PTL DEF Spec

=============================================================================
