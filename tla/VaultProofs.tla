----------------------------- MODULE VaultProofs -----------------------------
(***************************************************************************)
(* Theorems about the password vault, for every set of passwords and every *)
(* number of versions, deaths, failures and late writes.                   *)
(*                                                                         *)
(* The argument.  The newest version of a file is there in the clear or    *)
(* under the user's password, and what else is encrypted is cut short      *)
(* (Kept).  That holds through both passes because a file in the clear is  *)
(* deleted only where its encrypted version is the newest (SealInv,        *)
(* StripInv, UndoInv), and an encrypted one only after the password was    *)
(* found to be the user's, which makes every file decrypted with it the    *)
(* newest (OpenInv, UnsealInv).  Commands that write while the window is   *)
(* not open can break all this, but never for the password file.           *)
(* Closing encrypts the password file with the others and opening deletes  *)
(* it last, so the right password is refused only after a pass that left   *)
(* files in the clear (OpensInv).                                          *)
(***************************************************************************)
EXTENDS Vault, WellFoundedInduction, TLAPS

(* The files that no command has written at a wrong time.                  *)
Sure == IF late = 0 THEN Name ELSE {User}

(* The newest version, under the user's password.                          *)
Shut(f) == [value |-> latest[f], keys |-> <<latest[User]>>]

Kept(f) ==
    /\ dir[<<f, 1>>] \in {Absent, Junk, Shut(f)}
    /\ \/ dir[<<f, 0>>] = Bytes(latest[f])
       \/ dir[<<f, 1>>] = Shut(f)
       \/ f = User /\ latest[User] = 0 /\ dir[<<f, 0>>] = Empty
    /\ latest[f] = 0 =>
          dir[<<f, 1>>] = Absent /\ (f # User => dir[<<f, 0>>] = Absent)

KeptInv == \A f \in Sure : Kept(f)

(* The user's password, and when nothing is encrypted.                     *)
UserInv ==
    /\ latest[User] \in Passwords \cup {0}
    /\ \/ latest[User] = 0
       \/ window \in {"setup", "save", "main"}
       => \A f \in Name : dir[<<f, 1>>] = Absent
    /\ window \in {"setup", "save"} => latest[User] = 0
    /\ window = "save" => pw \in Passwords

SealInv ==
    window = "seal" =>
        /\ todo # {} /\ \A p \in todo \cup done : p[2] = 0
        /\ pw = latest[User] /\ pw # 0
        /\ \A f \in Sure :
              /\ dir[<<f, 0>>] = Bytes(latest[f])
              /\ dir[<<f, 1>>] # Junk
              /\ latest[f] # 0 <=> <<f, 0>> \in todo \cup done
              /\ <<f, 0>> \in done => dir[<<f, 1>>] = Shut(f)

StripInv ==
    window = "strip" =>
        /\ todo # {} /\ \A p \in todo : p[2] = 0
        /\ \A f \in Sure : <<f, 0>> \in todo => dir[<<f, 1>>] = Shut(f)

(* The encrypted files.                                                    *)
Sealed == {p \in There(dir) : p[2] = 1}

OpenInv ==
    window = "open" =>
        /\ todo # {} /\ pw \in Passwords
        /\ todo \cup done = Sealed
        /\ \A f \in Sure :
              <<f, 1>> \in done =>
                  /\ dir[<<f, 1>>] = Shut(f)
                  /\ dir[<<f, 0>>] = IF pw = latest[User] THEN Bytes(latest[f])
                                                          ELSE Junk
        /\ verified <=> pw = latest[User] /\ <<User, 1>> \in done

UnsealInv ==
    window = "unseal" =>
        /\ todo # {} /\ todo = Sealed
        /\ pw \in Passwords /\ pw = latest[User]
        /\ \A f \in Sure : <<f, 1>> \in todo => dir[<<f, 0>>] = Bytes(latest[f])

UndoInv ==
    window = "undo" =>
        /\ todo # {} /\ \A p \in todo : p[2] = 0
        /\ <<User, 1>> \in Sealed => pw # latest[User]
        /\ \A f \in Sure :
              <<f, 0>> \in todo => /\ dir[<<f, 1>>] = Shut(f)
                                   /\ dir[<<f, 0>>] # Absent

Inv ==
    /\ TypeOK /\ SealedOnce /\ KeptInv /\ UserInv
    /\ SealInv /\ StripInv /\ OpenInv /\ UnsealInv /\ UndoInv

(* As long as it has never ended with files in the clear, the GUI finds    *)
(* what it needs to verify the password.                                   *)
Locked == {"off", "prompt", "clean", "strip", "open", "unseal", "undo"}

OpensInv ==
    /\ ~torn /\ late = 0
    /\ window \in Locked /\ latest[User] # 0
    => /\ dir[<<User, 1>>] = Shut(User)
       /\ \A f \in Name : dir[<<f, 1>>] # Junk

-----------------------------------------------------------------------------
(* Names and paths.                                                        *)

LEMMA NameIs ==
    /\ Name = {"datamap.json", "password.txt", "shard", User}
    /\ User \in Name
<1>1. DOMAIN Names = 1 .. 4 /\ Len(Names) = 4
  BY DEF Names
<1>2. /\ Names[1] = "datamap.json" /\ Names[2] = "password.txt"
      /\ Names[3] = "shard" /\ Names[4] = User
  BY DEF Names, User
<1>3. Name = {Names[i] : i \in 1 .. 4}
  BY <1>1 DEF Name, Range
<1>4. QED
  BY <1>2, <1>3

LEMMA PathIs ==
    /\ \A p \in Paths : /\ p = <<p[1], p[2]>> /\ p[1] \in Name
                        /\ p[2] \in {0, 1, 2}
    /\ \A f \in Name : \A n \in {0, 1, 2} : <<f, n>> \in Paths
BY DEF Paths, MaxSeals

LEMMA PositionIs ==
    /\ \A f \in Name : Position(f) \in 1 .. 4 /\ Names[Position(f)] = f
    /\ Position(User) = 4
<1>1. DOMAIN Names = 1 .. 4 /\ Len(Names) = 4
  BY DEF Names
<1>2. /\ Names[1] = "datamap.json" /\ Names[2] = "password.txt"
      /\ Names[3] = "shard" /\ Names[4] = User
  BY DEF Names, User
<1>3. ASSUME NEW f \in Name PROVE \E i \in 1 .. Len(Names) : Names[i] = f
  BY <1>1, <1>2, NameIs
<1>4. ASSUME NEW f \in Name
      PROVE  Position(f) \in 1 .. Len(Names) /\ Names[Position(f)] = f
  BY <1>3 DEF Position
<1>5. Position(User) = 4
  <2>1. Position(User) \in 1 .. 4 /\ Names[Position(User)] = User
    BY <1>1, <1>4, NameIs
  <2>2. QED
    BY <1>2, <2>1 DEF User
<1>6. QED
  BY <1>1, <1>4, <1>5

(* A set of paths has a first one in the order of the Walk.                *)
LEMMA FirstIs ==
    ASSUME NEW P, P \subseteq Paths, P # {}
    PROVE  /\ First(P) \in P
           /\ \A q \in P \ {First(P)} : Before(First(P), q)
<1> DEFINE Rank(p) == 3 * Position(p[1]) + p[2]
           T == {Rank(p) : p \in P}
<1>1. ASSUME NEW p \in P
      PROVE  /\ Position(p[1]) \in 1 .. 4 /\ p[2] \in {0, 1, 2}
             /\ p = <<p[1], p[2]>> /\ p[1] = Names[Position(p[1])]
             /\ Rank(p) \in Nat
  BY PathIs, PositionIs
<1>2. T \subseteq Nat /\ T # {}
  BY <1>1
<1>3. PICK x \in T : \A y \in T : ~(<<y, x>> \in OpToRel(<, Nat))
  BY <1>2, WFMin, NatLessThanWellFounded
<1>4. \A y \in T : x <= y
  <2>1. ASSUME NEW y \in T PROVE x <= y
    <3>1. x \in Nat /\ y \in Nat
      BY <1>2
    <3>2. ~(y < x)
      BY <1>3, <3>1 DEF OpToRel
    <3>3. QED
      BY <3>1, <3>2
  <2>2. QED
    BY <2>1
<1>5. PICK p \in P : x = Rank(p)
  OBVIOUS
<1>6. ASSUME NEW q \in P \ {p} PROVE Before(p, q)
  <2>1. Rank(p) <= Rank(q)
    BY <1>4, <1>5
  <2>2. \/ Position(p[1]) < Position(q[1])
        \/ Position(p[1]) = Position(q[1]) /\ p[2] <= q[2]
    <3>1. PICK i \in 1 .. 4, j \in 1 .. 4, m \in {0, 1, 2}, n \in {0, 1, 2} :
             /\ i = Position(p[1]) /\ j = Position(q[1])
             /\ m = p[2] /\ n = q[2]
      BY <1>1
    <3>2. 3 * i + m <= 3 * j + n
      BY <2>1, <3>1
    <3>3. i < j \/ (i = j /\ m <= n)
      BY <3>2
    <3>4. QED
      BY <3>1, <3>3
  <2>3. CASE Position(p[1]) = Position(q[1]) /\ p[2] <= q[2]
    <3>1. p[1] = q[1]
      BY <1>1, <2>3
    <3>2. p[2] # q[2]
      BY <1>1, <1>6, <3>1
    <3>3. QED
      BY <1>1, <2>3, <3>1, <3>2 DEF Before
  <2>4. QED
    BY <2>2, <2>3 DEF Before
<1>7. \E r \in P : \A q \in P \ {r} : Before(r, q)
  BY <1>6
<1>8. QED
  BY <1>7 DEF First

(* The password file comes last.                                           *)
LEMMA UserLast ==
    ASSUME NEW P, P \subseteq Paths, P # {}, First(P)[1] = User,
           NEW n, \A p \in P : p[2] = n
    PROVE  P = {First(P)}
<1>1. ASSUME NEW q \in P, q # First(P) PROVE FALSE
  <2>1. Before(First(P), q) /\ First(P) \in P
    BY <1>1, FirstIs
  <2>2. Position(q[1]) \in 1 .. 4 /\ q[2] = n /\ First(P)[2] = n
    BY <2>1, PathIs, PositionIs
  <2>3. n \in {0, 1, 2}
    BY <2>2, PathIs
  <2>4. Position(First(P)[1]) = 4
    BY PositionIs
  <2>5. QED
    BY <2>1, <2>2, <2>3, <2>4 DEF Before
<1>2. QED
  BY <1>1, FirstIs

-----------------------------------------------------------------------------
(* Contents.                                                               *)

LEMMA BytesAre ==
    /\ \A v, w : Bytes(v) = Bytes(w) => v = w
    /\ Absent = Bytes(0) /\ Junk = Bytes(-1) /\ Empty = Bytes(-2)
    /\ \A v : Bytes(v).value = v /\ Bytes(v).keys = <<>>
BY DEF Bytes, Absent, Junk, Empty

LEMMA BytesType ==
    /\ \A v \in -2 .. MaxWrites : Bytes(v) \in Contents
    /\ \A v \in Passwords : Bytes(v) \in Contents
    /\ Absent \in Contents /\ Junk \in Contents /\ Empty \in Contents
<1>1. <<>> \in Seq(Passwords) /\ MaxWrites \in Nat
  BY VaultAssumption
<1>2. \A v \in (-2 .. MaxWrites) \cup Passwords : Bytes(v) \in Contents
  BY <1>1 DEF Bytes, Contents
<1>3. {0, -1, -2} \subseteq -2 .. MaxWrites
  BY <1>1
<1>4. QED
  BY <1>2, <1>3, BytesAre

(* Encrypting and decrypting contents.                                     *)
LEMMA SealType ==
    ASSUME NEW c \in Contents, NEW k \in Passwords
    PROVE  Seal(c, k) \in Contents /\ \A v : Seal(c, k) # Bytes(v)
<1>1. c.keys \in Seq(Passwords)
  BY DEF Contents
<1>2. Append(c.keys, k) \in Seq(Passwords) /\ Append(c.keys, k) # <<>>
  BY <1>1
<1>3. Seal(c, k).keys = Append(c.keys, k)
  BY DEF Seal, Contents
<1>4. Seal(c, k) \in Contents
  BY <1>2 DEF Seal, Contents
<1>5. QED
  BY <1>2, <1>3, <1>4, BytesAre

LEMMA UnsealType ==
    ASSUME NEW c \in Contents, NEW k \in Passwords
    PROVE  Unseal(c, k) \in Contents
<1>1. c.keys \in Seq(Passwords)
  BY DEF Contents
<1>2. c.keys # <<>> => Front(c.keys) \in Seq(Passwords)
  BY <1>1 DEF Front
<1>3. CASE Opens(c, k)
  BY <1>2, <1>3 DEF Unseal, Opens, Contents
<1>4. QED
  BY <1>3, BytesType DEF Unseal

LEMMA ShutIs ==
    ASSUME NEW f
    PROVE  /\ \A v : Shut(f) # Bytes(v)
           /\ Shut(f) \notin {Absent, Junk, Empty}
           /\ Seal(Bytes(latest[f]), latest[User]) = Shut(f)
           /\ \A k : Opens(Shut(f), k) <=> k = latest[User]
           /\ \A k : Unseal(Shut(f), k) =
                        IF k = latest[User] THEN Bytes(latest[f]) ELSE Junk
<1>1. Shut(f).keys = <<latest[User]>> /\ <<latest[User]>> # <<>>
  BY DEF Shut
<1>2. \A v : Shut(f) # Bytes(v)
  BY <1>1, BytesAre
<1>3. Seal(Bytes(latest[f]), latest[User]) = Shut(f)
  <2>1. Append(<<>>, latest[User]) = <<latest[User]>>
    OBVIOUS
  <2>2. QED
    BY <2>1 DEF Seal, Bytes, Shut
<1>4. \A k : Opens(Shut(f), k) <=> k = latest[User]
  <2>1. Last(<<latest[User]>>) = latest[User]
    BY DEF Last
  <2>2. QED
    BY <1>1, <2>1 DEF Opens
<1>5. Front(<<latest[User]>>) = <<>>
  BY DEF Front
<1>6. [Shut(f) EXCEPT !.keys = Front(@)] = Bytes(latest[f])
  BY <1>5 DEF Shut, Bytes
<1>7. QED
  BY <1>2, <1>3, <1>4, <1>6, BytesAre DEF Unseal

-----------------------------------------------------------------------------
(* What a step leaves as it was.                                           *)

LEMMA SealedIs ==
    /\ Sealed \subseteq Paths
    /\ \A p \in Sealed : p[2] = 1 /\ p[1] \in Name /\ p = <<p[1], 1>>
    /\ \A f \in Name : <<f, 1>> \in Sealed <=> dir[<<f, 1>>] # Absent
BY PathIs DEF Sealed, There

LEMMA SealedIsAfter ==
    /\ Sealed' \subseteq Paths
    /\ \A p \in Sealed' : p[2] = 1 /\ p[1] \in Name /\ p = <<p[1], 1>>
    /\ \A f \in Name : <<f, 1>> \in Sealed' <=> dir'[<<f, 1>>] # Absent
BY PathIs DEF Sealed, There

LEMMA SealedSame ==
    ASSUME \A f \in Name : dir'[<<f, 1>>] = dir[<<f, 1>>]
    PROVE  Sealed' = Sealed
<1>1. ASSUME NEW p PROVE p \in Sealed' <=> p \in Sealed
  BY SealedIs, SealedIsAfter
<1>2. QED
  BY <1>1

LEMMA SureIs ==
    ASSUME TypeOK
    PROVE  Sure \subseteq Name /\ User \in Sure
BY NameIs DEF Sure

LEMMA SureShrinks ==
    ASSUME TypeOK, late' = late \/ late' = late + 1
    PROVE  Sure' \subseteq Sure /\ User \in Sure' /\ Sure' \subseteq Name
<1>1. late \in Nat
  BY DEF TypeOK
<1>2. late' = 0 => late = 0
  BY <1>1
<1>3. QED
  BY <1>2, NameIs DEF Sure

(* One path is written.                                                    *)
LEMMA WrittenClear ==
    ASSUME TypeOK, NEW g \in Name, NEW c, dir' = [dir EXCEPT ![<<g, 0>>] = c]
    PROVE  \A f \in Name :
              /\ dir'[<<f, 0>>] = IF f = g THEN c ELSE dir[<<f, 0>>]
              /\ dir'[<<f, 1>>] = dir[<<f, 1>>]
              /\ dir'[<<f, 2>>] = dir[<<f, 2>>]
<1>1. dir \in [Paths -> Contents]
  BY DEF TypeOK
<1>2. \A f \in Name : /\ <<f, 0>> \in Paths /\ <<f, 1>> \in Paths
                      /\ <<f, 2>> \in Paths
  BY PathIs
<1>3. \A q \in Paths : dir'[q] = IF q = <<g, 0>> THEN c ELSE dir[q]
  BY <1>1
<1>4. \A f : /\ <<f, 0>> = <<g, 0>> <=> f = g
             /\ <<f, 1>> = <<g, 0>> <=> FALSE
             /\ <<f, 2>> # <<g, 0>>
  OBVIOUS
<1>5. QED
  BY <1>2, <1>3, <1>4, Zenon

LEMMA WrittenSealed ==
    ASSUME TypeOK, NEW g \in Name, NEW c, dir' = [dir EXCEPT ![<<g, 1>>] = c]
    PROVE  \A f \in Name :
              /\ dir'[<<f, 0>>] = dir[<<f, 0>>]
              /\ dir'[<<f, 1>>] = IF f = g THEN c ELSE dir[<<f, 1>>]
              /\ dir'[<<f, 2>>] = dir[<<f, 2>>]
<1>1. dir \in [Paths -> Contents]
  BY DEF TypeOK
<1>2. \A f \in Name : /\ <<f, 0>> \in Paths /\ <<f, 1>> \in Paths
                      /\ <<f, 2>> \in Paths
  BY PathIs
<1>3. \A q \in Paths : dir'[q] = IF q = <<g, 1>> THEN c ELSE dir[q]
  BY <1>1
<1>4. \A f : /\ <<f, 0>> = <<g, 1>> <=> FALSE
             /\ <<f, 1>> = <<g, 1>> <=> f = g
             /\ <<f, 2>> # <<g, 1>>
  OBVIOUS
<1>5. QED
  BY <1>2, <1>3, <1>4, Zenon

(* What is known of a file depends on its two paths and on the password.   *)
SameFile(f) ==
    /\ dir'[<<f, 0>>] = dir[<<f, 0>>] /\ dir'[<<f, 1>>] = dir[<<f, 1>>]
    /\ latest'[f] = latest[f] /\ latest'[User] = latest[User]

LEMMA KeptSame ==
    ASSUME NEW f, SameFile(f)
    PROVE  /\ Kept(f) => Kept(f)'
           /\ Shut(f)' = Shut(f)
BY DEF SameFile, Kept, Shut, Absent, Junk, Empty, Bytes

LEMMA ShutSame ==
    ASSUME NEW f, latest'[f] = latest[f], latest'[User] = latest[User]
    PROVE  Shut(f)' = Shut(f)
BY DEF Shut

(* Outside of the passes, nothing more is claimed.                         *)
Passes == {"seal", "strip", "open", "unseal", "undo"}

LEMMA Rest ==
    ASSUME TypeOK', SealedOnce', KeptInv', UserInv', window' \notin Passes
    PROVE  Inv'
BY DEF Passes, Inv, SealInv, StripInv, OpenInv, UnsealInv, UndoInv

(* A step that changes no file.                                            *)
LEMMA FilesSame ==
    ASSUME Inv, UNCHANGED <<dir, latest>>, late' = late \/ late' = late + 1
    PROVE  /\ SealedOnce' /\ KeptInv' /\ Sealed' = Sealed
           /\ \A f \in Name : SameFile(f)
<1>1. \A f \in Name : SameFile(f)
  BY DEF SameFile
<1>2. KeptInv'
  BY <1>1, KeptSame, SureShrinks DEF KeptInv, Inv
<1>3. SealedOnce'
  BY DEF SealedOnce, Inv, Absent, Bytes
<1>4. QED
  BY <1>1, <1>2, <1>3, SealedSame DEF SameFile

-----------------------------------------------------------------------------
(* Types.                                                                  *)

LEMMA PasswordsAre ==
    /\ Passwords \subseteq Nat \ {0}
    /\ MaxWrites \in Nat /\ MaxCuts \in Nat /\ MaxLate \in Nat
BY VaultAssumption

(* In the main window, the password read is the user's.                    *)
LEMMA MainPassword ==
    ASSUME Inv, window = "main"
    PROVE  GetUserPassword = latest[User]
<1>1. Kept(User) /\ dir[<<User, 1>>] = Absent
  BY SureIs, NameIs DEF Inv, KeptInv, UserInv
<1>2. \/ dir[<<User, 0>>] = Bytes(latest[User])
      \/ latest[User] = 0 /\ dir[<<User, 0>>] = Empty
  BY <1>1, ShutIs DEF Kept
<1>3. latest[User] \in Nat
  BY NameIs DEF Inv, TypeOK
<1>4. QED
  BY <1>2, <1>3, BytesAre DEF GetUserPassword

(* The path a pass has come to.                                            *)
LEMMA FirstPath ==
    ASSUME TypeOK, todo # {}
    PROVE  /\ First(todo) \in todo /\ First(todo) \in Paths
           /\ First(todo)[1] \in Name
           /\ First(todo) = <<First(todo)[1], First(todo)[2]>>
BY FirstIs, PathIs DEF TypeOK

LEMMA PassPath ==
    ASSUME Inv, window \in Passes
    PROVE  /\ todo # {} /\ First(todo) \in todo /\ First(todo)[1] \in Name
           /\ First(todo)[2] = IF window \in {"open", "unseal"} THEN 1 ELSE 0
           /\ First(todo) = <<First(todo)[1], First(todo)[2]>>
           /\ First(todo) \in Paths
<1>1. todo # {}
  BY DEF Inv, Passes, SealInv, StripInv, OpenInv, UnsealInv, UndoInv
<1>2. /\ First(todo) \in todo /\ First(todo) \in Paths
      /\ First(todo)[1] \in Name
      /\ First(todo) = <<First(todo)[1], First(todo)[2]>>
  BY <1>1, FirstPath DEF Inv
<1>3. First(todo)[2] = IF window \in {"open", "unseal"} THEN 1 ELSE 0
  BY <1>2, SealedIs DEF Inv, Passes, SealInv, StripInv, OpenInv, UnsealInv, UndoInv
<1>4. QED
  BY <1>1, <1>2, <1>3

(* The path of a file beside an encrypted one, and the other way round.    *)
LEMMA OtherPath ==
    ASSUME NEW q
    PROVE  /\ q[2] = 1 => Decrypted(q) = <<q[1], 0>>
           /\ q[2] = 0 => Encrypted(q) = <<q[1], 1>>
BY DEF Decrypted, Encrypted

LEMMA TypeStep ==
    ASSUME Inv, [Next]_vars PROVE TypeOK'
<1> USE PasswordsAre
<1>0. /\ TypeOK /\ UserInv /\ dir \in [Paths -> Contents]
      /\ latest[User] \in Passwords \cup {0}
      /\ todo \subseteq Paths /\ done \subseteq Paths
  BY DEF Inv, TypeOK, UserInv
<1>1. CASE Main \/ CloseWindow
  BY <1>0, <1>1 DEF Main, CloseWindow, Show, pass, TypeOK, Windows
<1>2. CASE PasswordWritten
  <2>1. pw \in Passwords /\ pw \in Nat
    BY <1>0, <1>2 DEF PasswordWritten, UserInv
  <2>2. dir' \in [Paths -> Contents]
    BY <1>0, <1>2, <2>1, BytesType DEF PasswordWritten
  <2>3. latest' \in [Name -> Nat]
    BY <1>0, <1>2, <2>1 DEF PasswordWritten, TypeOK
  <2>4. cuts' \in 0 .. MaxCuts
    BY <1>0, <1>2 DEF PasswordWritten, TypeOK
  <2>5. QED
    BY <1>0, <1>2, <2>2, <2>3, <2>4 DEF PasswordWritten, pass, TypeOK, Windows
<1>3. CASE CommandWrites
  <2>1. \E f \in Name, v \in 0 .. MaxWrites :
           /\ dir' = [dir EXCEPT ![<<f, 0>>] = Bytes(v)]
           /\ latest' = [latest EXCEPT ![f] = v]
    <3>1. latest \in [Name -> Nat]
      BY <1>0 DEF TypeOK
    <3>2. ASSUME NEW f \in Name, Command(f)
          PROVE  \E v \in 0 .. MaxWrites :
                    /\ dir' = [dir EXCEPT ![<<f, 0>>] = Bytes(v)]
                    /\ latest' = [latest EXCEPT ![f] = v]
      <4>1. latest[f] + 1 \in 0 .. MaxWrites /\ 0 \in 0 .. MaxWrites
        BY <3>1, <3>2 DEF Command
      <4>2. QED
        BY <3>2, <4>1 DEF Command
    <3>3. CASE tryGetPassword
      <4>1. "password.txt" \in Name
        BY NameIs
      <4>2. latest["password.txt"] + 1 \in 0 .. MaxWrites
        BY <3>1, <3>3, <4>1 DEF tryGetPassword
      <4>3. QED
        BY <3>3, <4>1, <4>2 DEF tryGetPassword
    <3>4. QED
      BY <1>3, <3>2, <3>3 DEF CommandWrites
  <2>2. PICK f \in Name, v \in 0 .. MaxWrites :
           /\ dir' = [dir EXCEPT ![<<f, 0>>] = Bytes(v)]
           /\ latest' = [latest EXCEPT ![f] = v]
    BY <2>1
  <2>3. dir' \in [Paths -> Contents]
    <3>1. Bytes(v) \in Contents
      BY BytesType
    <3>2. QED
      BY <1>0, <2>2, <3>1
  <2>4. latest' \in [Name -> Nat] /\ late' \in 0 .. MaxLate
    BY <1>0, <1>3, <2>2 DEF CommandWrites, TypeOK
  <2>5. QED
    BY <1>0, <1>3, <2>3, <2>4 DEF CommandWrites, pass, TypeOK
<1>4. ASSUME NEW p \in Passwords, SaveUserPassword(p) PROVE TypeOK'
  <2>1. dir' \in [Paths -> Contents]
    BY <1>0, <1>4, BytesType DEF SaveUserPassword
  <2>2. QED
    BY <1>0, <1>4, <2>1 DEF SaveUserPassword, TypeOK, Windows
<1>5. ASSUME NEW p \in Passwords, Unlock(p) PROVE TypeOK'
  <2>1. todo' \subseteq Paths
    BY <1>5 DEF Unlock, There
  <2>2. QED
    BY <1>0, <1>5, <2>1 DEF Unlock, TypeOK, Windows
<1>6. CASE Close
  <2>1. pw' \in Passwords \cup {0}
    BY <1>0, <1>6, MainPassword DEF Close
  <2>2. todo' \subseteq Paths /\ done' \subseteq Paths
    BY <1>0, <1>6 DEF Close, There
  <2>3. QED
    BY <1>0, <1>6, <2>1, <2>2 DEF Close, TypeOK, Windows
<1>7. ASSUME window \in Passes, NEW w \in Windows, NEW D \in SUBSET Paths,
             Visited(w, D)
      PROVE  todo' \subseteq Paths /\ done' \subseteq Paths /\ window' \in Windows
  BY <1>0, <1>7, PassPath DEF Visited, Treated, Passes, Windows
<1>8. Treated \subseteq Paths \/ window \notin Passes
  BY <1>0, PassPath DEF Treated
<1>9. CASE EncryptFile
  <2>1. window = "seal" /\ window \in Passes
    BY <1>9 DEF EncryptFile, Passes
  <2>2. /\ todo' \subseteq Paths /\ done' \subseteq Paths
        /\ window' \in Windows
    BY <1>7, <1>8, <1>9, <2>1 DEF EncryptFile, Windows
  <2>3. pw \in Passwords
    BY <1>0, <2>1 DEF Inv, SealInv
  <2>4. dir[First(todo)] \in Contents
    BY <1>0, <2>1, PassPath
  <2>5. dir' \in [Paths -> Contents]
    BY <1>0, <1>9, <2>3, <2>4, SealType DEF EncryptFile, Encrypt
  <2>6. QED
    BY <1>0, <1>9, <2>2, <2>5 DEF EncryptFile, TypeOK
<1>10. CASE EncryptFails
  BY <1>0, <1>10 DEF EncryptFails, pass, TypeOK, Windows
<1>11. ASSUME NEW w \in Windows, Delete(w)
       PROVE  /\ dir' \in [Paths -> Contents] /\ todo' \subseteq Paths
              /\ window' \in Windows
  BY <1>0, <1>11, BytesType DEF Delete, TypeOK
<1>12. CASE RemoveOriginal
  BY <1>0, <1>11, <1>12 DEF RemoveOriginal, TypeOK, Windows
<1>13. CASE cleanShardFolderOnExit
  <2>1. dir' \in [Paths -> Contents]
    BY <1>0, <1>13, BytesType DEF cleanShardFolderOnExit
  <2>2. latest' \in [Name -> Nat]
    BY <1>0, <1>13 DEF cleanShardFolderOnExit, TypeOK
  <2>3. QED
    BY <1>0, <1>13, <2>1, <2>2 DEF cleanShardFolderOnExit, pass, TypeOK, Windows
<1>14. CASE DecryptFile
  <2>1. window = "open" /\ window \in Passes
    BY <1>14 DEF DecryptFile, Passes
  <2>2. pw \in Passwords /\ todo \cup done = Sealed
    BY <2>1 DEF Inv, OpenInv
  <2>3. Treated \subseteq Sealed
    BY <2>1, <2>2, PassPath DEF Treated
  <2>4. {Decrypted(q) : q \in Treated} \subseteq Paths
    <3>1. ASSUME NEW q \in Sealed PROVE Decrypted(q) \in Paths
      BY SealedIs, PathIs, OtherPath
    <3>2. QED
      BY <2>3, <3>1
  <2>5. /\ todo' \subseteq Paths /\ done' \subseteq Paths
        /\ window' \in Windows
    BY <1>7, <1>8, <1>14, <2>1, <2>4 DEF DecryptFile, Windows
  <2>6. dir[First(todo)] \in Contents
    BY <1>0, <2>1, PassPath
  <2>7. dir' \in [Paths -> Contents]
    BY <1>0, <1>14, <2>2, <2>6, UnsealType DEF DecryptFile, Decrypt
  <2>8. verified' \in BOOLEAN
    BY <1>0, <1>14 DEF DecryptFile, Verified, TypeOK
  <2>9. QED
    BY <1>0, <1>14, <2>5, <2>7, <2>8 DEF DecryptFile, TypeOK
<1>15. CASE DecryptFails
  BY <1>0, <1>15 DEF DecryptFails, Failed, TypeOK, Windows
<1>16. CASE RemoveEncrypted \/ RemoveDecrypted
  <2>1. /\ dir' \in [Paths -> Contents] /\ todo' \subseteq Paths
        /\ window' \in Windows
    BY <1>11, <1>16 DEF RemoveEncrypted, RemoveDecrypted, Windows
  <2>2. QED
    BY <1>0, <1>16, <2>1 DEF RemoveEncrypted, RemoveDecrypted, TypeOK
<1>17. CASE RemoveFails
  BY <1>0, <1>17 DEF RemoveFails, Failed, pass, TypeOK, Windows
<1>18. CASE Kill
  <2>1. dir' \in [Paths -> Contents]
    BY <1>0, <1>18, BytesType DEF Kill
  <2>2. QED
    BY <1>0, <1>18, <2>1 DEF Kill, pass, TypeOK, Windows
<1>19. CASE UNCHANGED vars
  BY <1>0, <1>19 DEF vars, pass, TypeOK
<1>20. QED
  BY <1>1, <1>2, <1>3, <1>4, <1>5, <1>6, <1>9, <1>10, <1>12, <1>13, <1>14,
     <1>15, <1>16, <1>17, <1>18, <1>19 DEF Next

-----------------------------------------------------------------------------
(* The windows, and the commands.                                          *)

LEMMA StillUser ==
    ASSUME Inv, UNCHANGED <<dir, latest>>,
           window' \notin {"setup", "save", "main"}
    PROVE  UserInv'
BY DEF Inv, UserInv, Absent, Bytes

LEMMA WindowStep ==
    ASSUME Inv, TypeOK', Main \/ CloseWindow PROVE Inv'
<1>1. UNCHANGED <<dir, latest, late>> /\ window' \in {"off", "prompt", "setup"}
  BY DEF Main, CloseWindow, Show
<1>2. window' \notin Passes
  BY <1>1 DEF Passes
<1>3. CASE window' # "setup"
  BY <1>1, <1>2, <1>3, StillUser, FilesSame, Rest
<1>4. CASE window' = "setup"
  <2>1. ~DoesUserPasswordExist
    BY <1>4 DEF Main, CloseWindow, Show
  <2>2. Kept(User) /\ latest[User] \in Passwords \cup {0}
    BY SureIs DEF Inv, KeptInv, UserInv
  <2>3. {dir[<<User, 0>>], dir[<<User, 1>>]} \subseteq {Absent, Empty}
    BY <2>1 DEF DoesUserPasswordExist
  <2>4. latest[User] = 0
    <3>1. dir[<<User, 1>>] # Shut(User)
      BY <2>3, ShutIs
    <3>2. \/ dir[<<User, 0>>] = Bytes(latest[User]) \/ latest[User] = 0
      BY <2>2, <3>1 DEF Kept
    <3>3. QED
      BY <2>2, <2>3, <3>2, BytesAre, PasswordsAre
  <2>5. UserInv'
    BY <1>1, <1>4, <2>4 DEF Inv, UserInv, Absent, Bytes
  <2>6. QED
    BY <1>1, <1>2, <2>5, FilesSame, Rest
<1>5. QED
  BY <1>3, <1>4

(* The password is typed, and written or not.                              *)
LEMMA PasswordStep ==
    ASSUME Inv, TypeOK',
           PasswordWritten \/ \E p \in Passwords : SaveUserPassword(p)
    PROVE  Inv'
<1>1. /\ latest[User] = 0 /\ \A f \in Name : dir[<<f, 1>>] = Absent
      /\ TypeOK /\ <<User, 0>> \in Paths
  BY NameIs, PathIs DEF PasswordWritten, SaveUserPassword, Inv, UserInv
<1>2. late' = late /\ window' \in {"save", "main"}
      /\ (window' = "save" => pw' \in Passwords)
  BY DEF PasswordWritten, SaveUserPassword
<1>3. \/ UNCHANGED <<dir, latest>> /\ window' = "main"
      \/ /\ dir' = [dir EXCEPT ![<<User, 0>>] = Empty] /\ latest' = latest
      \/ /\ dir' = [dir EXCEPT ![<<User, 0>>] = Bytes(pw)]
         /\ latest' = [latest EXCEPT ![User] = pw]
         /\ pw \in Passwords /\ window' = "main"
  BY DEF PasswordWritten, SaveUserPassword, Inv, UserInv
<1>4. ASSUME NEW f \in Name
      PROVE  /\ dir'[<<f, 1>>] = dir[<<f, 1>>]
             /\ dir'[<<f, 2>>] = dir[<<f, 2>>]
             /\ f # User => dir'[<<f, 0>>] = dir[<<f, 0>>]
  <2>1. \/ UNCHANGED dir
        \/ \E c : dir' = [dir EXCEPT ![<<User, 0>>] = c]
    BY <1>3
  <2>2. QED
    BY <1>1, <2>1, NameIs, WrittenClear
<1>5. \/ dir'[<<User, 0>>] = Bytes(latest'[User]) /\ latest'[User] \in Passwords
         /\ window' = "main"
      \/ dir'[<<User, 0>>] = Empty /\ latest'[User] = 0
      \/ dir'[<<User, 0>>] = dir[<<User, 0>>] /\ latest'[User] = 0
  <2>1. latest \in [Name -> Nat] /\ User \in Name /\ dir \in [Paths -> Contents]
    BY <1>1, NameIs DEF TypeOK
  <2>2. CASE UNCHANGED <<dir, latest>>
    BY <1>1, <2>2
  <2>3. CASE dir' = [dir EXCEPT ![<<User, 0>>] = Empty] /\ latest' = latest
    BY <1>1, <2>1, <2>3
  <2>4. CASE /\ dir' = [dir EXCEPT ![<<User, 0>>] = Bytes(pw)]
             /\ latest' = [latest EXCEPT ![User] = pw]
             /\ pw \in Passwords /\ window' = "main"
    BY <1>1, <2>1, <2>4
  <2>5. QED
    BY <1>3, <2>2, <2>3, <2>4
<1>6. ASSUME NEW f \in Name, f # User PROVE latest'[f] = latest[f]
  BY <1>1, <1>3, <1>6 DEF TypeOK
<1>7. ASSUME NEW f \in Sure' PROVE Kept(f)'
  <2>1. f \in Sure /\ Kept(f) /\ f \in Name
    BY <1>1, <1>2, SureShrinks DEF Inv, KeptInv
  <2>2. dir[<<f, 1>>] = Absent /\ dir'[<<f, 1>>] = Absent /\ Absent' = Absent
    BY <1>1, <1>4, <2>1 DEF Absent, Bytes
  <2>3. \/ dir[<<f, 0>>] = Bytes(latest[f])
        \/ f = User /\ latest[User] = 0 /\ dir[<<f, 0>>] = Empty
    BY <2>1, <2>2, ShutIs DEF Kept
  <2>4. CASE f # User
    <3>1. dir'[<<f, 0>>] = dir[<<f, 0>>] /\ latest'[f] = latest[f]
      BY <1>4, <1>6, <2>1, <2>4
    <3>2. QED
      BY <2>1, <2>2, <2>3, <2>4, <3>1 DEF Kept, Bytes, Absent
  <2>5. CASE f = User
    <3>1. \/ dir'[<<f, 0>>] = Bytes(latest'[f])
          \/ latest'[f] = 0 /\ dir'[<<f, 0>>] = Empty
      BY <1>1, <1>5, <2>3, <2>5
    <3>2. QED
      BY <2>2, <2>5, <3>1 DEF Kept, Bytes, Absent, Empty
  <2>6. QED
    BY <2>4, <2>5
<1>8. SealedOnce'
  BY <1>4 DEF Inv, SealedOnce, Absent, Bytes
<1>9. UserInv'
  <2>1. \A f \in Name : dir'[<<f, 1>>] = Absent
    BY <1>1, <1>4
  <2>2. window' = "save" => latest'[User] = 0
    BY <1>2, <1>5
  <2>3. QED
    BY <1>2, <1>5, <2>1, <2>2 DEF UserInv, Absent, Bytes
<1>10. QED
  BY <1>2, <1>7, <1>8, <1>9, Rest DEF Passes, KeptInv

(* The passes do not notice what happens to files that are not sure.       *)
LEMMA PassesSame ==
    ASSUME Inv, Sure' \subseteq Sure, \A f \in Sure' : SameFile(f),
           User \in Sure', Sealed' = Sealed,
           UNCHANGED <<window, todo, done, pw, verified>>
    PROVE  SealInv' /\ StripInv' /\ OpenInv' /\ UnsealInv' /\ UndoInv'
<1>1. ASSUME NEW f \in Sure'
      PROVE  /\ f \in Sure /\ Shut(f)' = Shut(f) /\ SameFile(f)
             /\ Bytes(latest'[f]) = Bytes(latest[f])
  BY <1>1, KeptSame DEF SameFile
<1>2. latest'[User] = latest[User]
  BY DEF SameFile
<1>3. Absent' = Absent /\ Junk' = Junk
  BY DEF Absent, Junk, Bytes
<1>4. SealInv'
  BY <1>1, <1>2, <1>3 DEF Inv, SealInv, SameFile, Bytes
<1>5. StripInv'
  BY <1>1 DEF Inv, StripInv, SameFile
<1>6. OpenInv'
  BY <1>1, <1>2, <1>3 DEF Inv, OpenInv, SameFile, Bytes
<1>7. UnsealInv'
  BY <1>1, <1>2 DEF Inv, UnsealInv, SameFile, Bytes
<1>8. UndoInv'
  BY <1>1, <1>3 DEF Inv, UndoInv, SameFile
<1>9. QED
  BY <1>4, <1>5, <1>6, <1>7, <1>8

LEMMA CommandStep ==
    ASSUME Inv, TypeOK', CommandWrites PROVE Inv'
<1>1. \E g \in Name \ {User} : \E v \in Nat :
         /\ dir' = [dir EXCEPT ![<<g, 0>>] = Bytes(v)]
         /\ latest' = [latest EXCEPT ![g] = v]
  BY NameIs DEF CommandWrites, tryGetPassword, Command, User, Inv, TypeOK
<1>2. PICK g \in Name \ {User}, v \in Nat :
         /\ dir' = [dir EXCEPT ![<<g, 0>>] = Bytes(v)]
         /\ latest' = [latest EXCEPT ![g] = v]
  BY <1>1
<1>3. TypeOK /\ <<g, 0>> \in Paths /\ UNCHANGED <<window, todo, done, pw, verified>>
  BY PathIs DEF Inv, CommandWrites, pass
<1>4. \A f \in Name :
         /\ dir'[<<f, 0>>] = IF f = g THEN Bytes(v) ELSE dir[<<f, 0>>]
         /\ dir'[<<f, 1>>] = dir[<<f, 1>>] /\ dir'[<<f, 2>>] = dir[<<f, 2>>]
  BY <1>2, <1>3, WrittenClear
<1>5. \A f \in Name : latest'[f] = IF f = g THEN v ELSE latest[f]
  BY <1>2, <1>3 DEF TypeOK
<1>6. /\ \A f \in Name : dir'[<<f, 1>>] = dir[<<f, 1>>]
      /\ latest'[User] = latest[User]
  BY <1>4, <1>5, NameIs
<1>7. \A f \in Name : f # g => SameFile(f)
  BY <1>4, <1>5, <1>6 DEF SameFile
<1>8. SealedOnce' /\ UserInv'
  BY <1>3, <1>4, <1>6 DEF Inv, SealedOnce, UserInv, Absent, Bytes
<1>9. Sure' \subseteq Sure /\ User \in Sure' /\ Sure' \subseteq Name
  BY <1>3, SureShrinks DEF CommandWrites
<1>10. CASE window = "main"
  <2>1. dir[<<g, 1>>] = Absent
    BY <1>10 DEF Inv, UserInv
  <2>2. Kept(g)'
    BY <1>4, <1>5, <2>1 DEF Kept, Absent, Bytes
  <2>3. ASSUME NEW f \in Sure' PROVE Kept(f)'
    BY <1>7, <1>9, <2>2, <2>3, KeptSame DEF Inv, KeptInv
  <2>4. QED
    BY <1>3, <1>8, <1>10, <2>3, Rest DEF Passes, KeptInv
<1>11. CASE window # "main"
  <2>1. late' # 0
    BY <1>3, <1>11 DEF CommandWrites, TypeOK
  <2>2. Sure' = {User}
    BY <2>1 DEF Sure
  <2>3. \A f \in Sure' : SameFile(f)
    BY <1>7, <2>2, NameIs
  <2>4. KeptInv'
    BY <1>9, <2>3, KeptSame DEF Inv, KeptInv
  <2>5. Sealed' = Sealed
    BY <1>6, SealedSame
  <2>6. QED
    BY <1>3, <1>8, <1>9, <2>3, <2>4, <2>5, PassesSame DEF Inv
<1>12. QED
  BY <1>10, <1>11

LEMMA StutterStep ==
    ASSUME Inv, TypeOK', UNCHANGED vars PROVE Inv'
<1>1. UNCHANGED <<dir, latest, late, window, todo, done, pw, verified>>
  BY DEF vars, pass
<1>2. Sure' = Sure /\ User \in Sure /\ Sure \subseteq Name
  BY <1>1, SureIs DEF Sure, Inv
<1>3. KeptInv' /\ SealedOnce' /\ Sealed' = Sealed /\ \A f \in Name : SameFile(f)
  BY <1>1, FilesSame
<1>4. UserInv'
  BY <1>1 DEF Inv, UserInv, Absent, Bytes
<1>5. SealInv' /\ StripInv' /\ OpenInv' /\ UnsealInv' /\ UndoInv'
  BY <1>1, <1>2, <1>3, PassesSame
<1>6. QED
  BY <1>3, <1>4, <1>5 DEF Inv

-----------------------------------------------------------------------------
(* Encrypting.                                                             *)

LEMMA CloseStep ==
    ASSUME Inv, TypeOK', Close PROVE Inv'
<1>1. UNCHANGED <<dir, latest, late>> /\ window = "main"
      /\ window' \in {"clean", "seal"}
  BY DEF Close
<1>2. SealedOnce' /\ KeptInv' /\ UserInv' /\ \A f \in Name : SameFile(f)
  BY <1>1, FilesSame, StillUser
<1>3. CASE window' = "clean"
  BY <1>2, <1>3, Rest DEF Passes
<1>4. CASE window' = "seal"
  <2>1. /\ pw' = latest[User] /\ latest[User] # 0
        /\ todo' = There(dir) /\ done' = {}
    BY <1>1, <1>4, MainPassword DEF Close
  <2>2. \A f \in Name : dir[<<f, 1>>] = Absent /\ dir[<<f, 2>>] = Absent
    BY <1>1 DEF Inv, UserInv, SealedOnce
  <2>3. \A p \in todo' : p[2] = 0
    <3>1. ASSUME NEW p \in todo' PROVE p[2] = 0
      <4>1. /\ p \in Paths /\ dir[p] # Absent
        BY <2>1 DEF There
      <4>2. /\ p = <<p[1], p[2]>> /\ p[1] \in Name /\ p[2] \in {0, 1, 2}
        BY <4>1, PathIs
      <4>3. p # <<p[1], 1>> /\ p # <<p[1], 2>>
        BY <2>2, <4>1, <4>2
      <4>4. QED
        BY <4>2, <4>3
    <3>2. QED
      BY <3>1
  <2>4. ASSUME NEW f \in Sure
        PROVE  /\ dir[<<f, 0>>] = Bytes(latest[f])
               /\ dir[<<f, 1>>] # Junk
               /\ latest[f] # 0 <=> <<f, 0>> \in todo'
    <3>1. Kept(f) /\ f \in Name
      BY SureIs DEF Inv, KeptInv
    <3>2. dir[<<f, 0>>] = Bytes(latest[f])
      BY <2>1, <2>2, <3>1, ShutIs DEF Kept
    <3>3. <<f, 0>> \in Paths
      BY <3>1, PathIs
    <3>4. dir[<<f, 1>>] # Junk
      <4>1. Absent # Junk
        BY BytesAre
      <4>2. QED
        BY <2>2, <3>1, <4>1
    <3>5. latest[f] # 0 <=> dir[<<f, 0>>] # Absent
      BY <3>2, BytesAre
    <3>6. QED
      BY <2>1, <3>2, <3>3, <3>4, <3>5 DEF There
  <2>5. Sure' = Sure /\ User \in Sure
    BY <1>1, SureIs DEF Sure, Inv
  <2>6. latest[User] # 0 => todo' # {}
    BY <2>4, <2>5
  <2>7. SealInv'
    BY <1>1, <2>1, <2>3, <2>4, <2>5, <2>6 DEF SealInv, Bytes, Junk
  <2>8. QED
    BY <1>2, <1>4, <2>7 DEF Inv, StripInv, OpenInv, UnsealInv, UndoInv
<1>5. QED
  BY <1>1, <1>3, <1>4

LEMMA EncryptStep ==
    ASSUME Inv, TypeOK', EncryptFile PROVE Inv'
<1>1. /\ window = "seal" /\ window \in Passes /\ TypeOK
      /\ pw = latest[User] /\ pw # 0 /\ pw \in Passwords
  BY DEF EncryptFile, Passes, Inv, SealInv, UserInv
<1>2. PICK g \in Name : First(todo) = <<g, 0>>
  BY <1>1, PassPath
<1>3. /\ Encrypted(First(todo)) = <<g, 1>> /\ First(todo) \in todo
      /\ First(todo)[1] = g /\ First(todo)[2] = 0
  BY <1>1, <1>2, PassPath, OtherPath
<1>4. /\ dir[<<g, 0>>] # Absent
      /\ dir' = [dir EXCEPT ![<<g, 1>>] = Seal(dir[<<g, 0>>], pw)]
  BY <1>2, <1>3 DEF EncryptFile, Encrypt
<1>5. UNCHANGED <<latest, late, pw>>
  BY DEF EncryptFile
<1>6. \A f \in Name :
         /\ dir'[<<f, 0>>] = dir[<<f, 0>>]
         /\ dir'[<<f, 1>>] = IF f = g THEN Seal(dir[<<g, 0>>], pw)
                                      ELSE dir[<<f, 1>>]
         /\ dir'[<<f, 2>>] = dir[<<f, 2>>]
  BY <1>1, <1>4, WrittenSealed
<1>7. Sure' = Sure /\ Sure \subseteq Name /\ User \in Sure
      /\ \A f : Shut(f)' = Shut(f)
  BY <1>1, <1>5, SureIs DEF Sure, Shut
<1>8. ASSUME NEW f \in Sure
      PROVE  /\ dir[<<f, 0>>] = Bytes(latest[f])
             /\ dir[<<f, 1>>] # Junk
             /\ latest[f] # 0 <=> <<f, 0>> \in todo \cup done
             /\ <<f, 0>> \in done => dir[<<f, 1>>] = Shut(f)
  BY <1>1 DEF Inv, SealInv
<1>9. g \in Sure => dir'[<<g, 1>>] = Shut(g) /\ latest[g] # 0
  <2>1. ASSUME g \in Sure PROVE dir'[<<g, 1>>] = Shut(g) /\ latest[g] # 0
    <3>1. dir[<<g, 0>>] = Bytes(latest[g])
      BY <1>8, <2>1
    <3>2. latest[g] # 0
      BY <1>4, <3>1, BytesAre
    <3>3. QED
      BY <1>1, <1>6, <3>1, <3>2, ShutIs
  <2>2. QED
    BY <2>1
<1>10. KeptInv'
  <2>1. ASSUME NEW f \in Sure PROVE Kept(f)'
    <3>1. CASE f = g
      <4>1. dir'[<<f, 1>>] = Shut(f)' /\ latest'[f] # 0
        BY <1>5, <1>7, <1>9, <2>1, <3>1
      <4>2. QED
        BY <4>1 DEF Kept
    <3>2. CASE f # g
      <4>1. SameFile(f)
        BY <1>5, <1>6, <1>7, <3>2 DEF SameFile
      <4>2. Kept(f)
        BY DEF Inv, KeptInv
      <4>3. QED
        BY <4>1, <4>2, KeptSame
    <3>3. QED
      BY <3>1, <3>2
  <2>2. QED
    BY <1>7, <2>1 DEF KeptInv
<1>11. SealedOnce'
  BY <1>6 DEF Inv, SealedOnce, Absent, Bytes
<1>12. /\ done' = Treated
       /\ \/ todo = {First(todo)} /\ window' = "strip" /\ todo' = Treated
          \/ window' = "seal" /\ todo' = todo \ {First(todo)} /\ todo' # {}
  BY <1>1, <1>3 DEF EncryptFile, Visited
<1>13. UserInv'
  BY <1>1, <1>5, <1>12 DEF Inv, UserInv
<1>14. \A p \in todo \cup done : p[2] = 0
  BY <1>1 DEF Inv, SealInv
<1>15. ASSUME NEW f \in Sure, <<f, 0>> \in Treated
       PROVE  dir'[<<f, 1>>] = Shut(f)
  <2>1. CASE f = g
    BY <1>9, <2>1
  <2>2. CASE f # g
    <3>1. <<f, 0>> \in done
      BY <1>2, <1>15, <2>2 DEF Treated
    <3>2. QED
      BY <1>6, <1>7, <1>8, <2>2, <3>1
  <2>3. QED
    BY <2>1, <2>2
<1>16. CASE window' = "strip"
  <2>1. todo' = Treated /\ Treated # {} /\ \A p \in Treated : p[2] = 0
    BY <1>3, <1>12, <1>14, <1>16 DEF Treated
  <2>2. StripInv'
    BY <1>7, <1>15, <2>1 DEF StripInv
  <2>3. QED
    BY <1>10, <1>11, <1>13, <1>16, <2>2
       DEF Inv, SealInv, OpenInv, UnsealInv, UndoInv
<1>17. CASE window' = "seal"
  <2>1. todo' # {} /\ todo' \cup done' = todo \cup done
    BY <1>3, <1>12, <1>17 DEF Treated
  <2>2. ASSUME NEW f \in Sure
        PROVE  /\ dir'[<<f, 0>>] = Bytes(latest[f])
               /\ dir'[<<f, 1>>] # Junk
               /\ latest[f] # 0 <=> <<f, 0>> \in todo \cup done
               /\ <<f, 0>> \in done' => dir'[<<f, 1>>] = Shut(f)
    BY <1>6, <1>7, <1>8, <1>9, <1>12, <1>15, ShutIs
  <2>3. SealInv'
    BY <1>1, <1>5, <1>7, <1>14, <2>1, <2>2 DEF SealInv, Bytes, Junk
  <2>4. QED
    BY <1>10, <1>11, <1>13, <1>17, <2>3
       DEF Inv, StripInv, OpenInv, UnsealInv, UndoInv
<1>18. QED
  BY <1>12, <1>16, <1>17

(* A step that leaves a pass and changes no file.                          *)
LEMMA LeaveStep ==
    ASSUME Inv, TypeOK', EncryptFails \/ DecryptFails \/ RemoveFails
    PROVE  Inv'
<1>1. UNCHANGED <<dir, latest, late>> /\ window' \in {"clean", "prompt"}
  BY DEF EncryptFails, DecryptFails, RemoveFails, Failed
<1>2. QED
  BY <1>1, FilesSame, StillUser, Rest DEF Passes

(* Deleting a file in the clear whose newest version is encrypted.         *)
LEMMA DropClear ==
    ASSUME Inv, TypeOK', window \in {"strip", "undo"},
           NEW w \in {"clean", "prompt"}, Delete(w),
           UNCHANGED <<latest, late, pw>>
    PROVE  Inv'
<1>1. window \in Passes /\ TypeOK
  BY DEF Passes, Inv
<1>2. PICK g \in Name : First(todo) = <<g, 0>> /\ <<g, 0>> \in todo
  BY <1>1, PassPath
<1>3. /\ dir' = [dir EXCEPT ![<<g, 0>>] = Absent]
      /\ todo' = todo \ {<<g, 0>>}
      /\ window' = IF todo' = {} THEN w ELSE window
  BY <1>2 DEF Delete
<1>4. \A f \in Name :
         /\ dir'[<<f, 0>>] = IF f = g THEN Absent ELSE dir[<<f, 0>>]
         /\ dir'[<<f, 1>>] = dir[<<f, 1>>]
         /\ dir'[<<f, 2>>] = dir[<<f, 2>>]
  BY <1>1, <1>3, WrittenClear
<1>5. Sure' = Sure /\ Sure \subseteq Name /\ User \in Sure
      /\ \A f : Shut(f)' = Shut(f)
  BY <1>1, SureIs DEF Sure, Shut
<1>6. \A f \in Sure : <<f, 0>> \in todo => dir[<<f, 1>>] = Shut(f)
  BY DEF Inv, StripInv, UndoInv
<1>7. KeptInv'
  <2>1. ASSUME NEW f \in Sure PROVE Kept(f)'
    <3>0. Kept(f)
      BY DEF Inv, KeptInv
    <3>1. CASE f = g
      <4>1. dir'[<<f, 1>>] = Shut(f)' /\ latest'[f] # 0
        BY <1>2, <1>4, <1>5, <1>6, <3>0, <3>1, ShutIs DEF Kept
      <4>2. QED
        BY <4>1 DEF Kept
    <3>2. CASE f # g
      BY <1>4, <1>5, <3>0, <3>2, KeptSame DEF SameFile
    <3>3. QED
      BY <3>1, <3>2
  <2>2. QED
    BY <1>5, <2>1 DEF KeptInv
<1>8. SealedOnce'
  BY <1>4 DEF Inv, SealedOnce, Absent, Bytes
<1>9. UserInv'
  BY <1>3, <1>4 DEF Inv, UserInv, Absent, Bytes
<1>10. CASE window' = w
  BY <1>7, <1>8, <1>9, <1>10, Rest DEF Passes
<1>11. CASE window' = window /\ todo' # {}
  <2>1. \A p \in todo' : p[2] = 0
    BY <1>3 DEF Inv, StripInv, UndoInv
  <2>2. \A f \in Sure : <<f, 0>> \in todo' => dir'[<<f, 1>>] = Shut(f)
    BY <1>3, <1>4, <1>5, <1>6
  <2>3. ASSUME window = "undo", NEW f \in Sure, <<f, 0>> \in todo'
        PROVE  dir'[<<f, 0>>] # Absent
    <3>1. f # g /\ <<f, 0>> \in todo
      BY <1>3, <2>3
    <3>2. dir[<<f, 0>>] # Absent
      BY <2>3, <3>1 DEF Inv, UndoInv
    <3>3. QED
      BY <1>4, <1>5, <3>1, <3>2
  <2>4. window = "undo" /\ <<User, 1>> \in Sealed' => pw' # latest'[User]
    BY <1>4, SealedSame DEF Inv, UndoInv
  <2>5. StripInv' /\ UndoInv'
    BY <1>5, <1>11, <2>1, <2>2, <2>3, <2>4 DEF StripInv, UndoInv, Absent, Bytes
  <2>6. QED
    BY <1>7, <1>8, <1>9, <1>11, <2>5 DEF Inv, SealInv, OpenInv, UnsealInv
<1>12. QED
  BY <1>3, <1>10, <1>11

LEMMA DropStep ==
    ASSUME Inv, TypeOK', RemoveOriginal \/ RemoveDecrypted PROVE Inv'
BY DropClear DEF RemoveOriginal, RemoveDecrypted

LEMMA CleanStep ==
    ASSUME Inv, TypeOK', cleanShardFolderOnExit PROVE Inv'
<1>1. /\ TypeOK /\ window' = "off" /\ late' = late
      /\ dir' = [p \in Paths |-> IF p[1] = "shard" THEN Absent ELSE dir[p]]
      /\ latest' = [latest EXCEPT !["shard"] = 0]
  BY DEF cleanShardFolderOnExit, Inv
<1>2. ASSUME NEW f \in Name, f # "shard"
      PROVE  /\ dir'[<<f, 0>>] = dir[<<f, 0>>] /\ dir'[<<f, 1>>] = dir[<<f, 1>>]
             /\ dir'[<<f, 2>>] = dir[<<f, 2>>] /\ latest'[f] = latest[f]
  BY <1>1, <1>2, PathIs DEF TypeOK
<1>3. /\ dir'[<<"shard", 0>>] = Absent /\ dir'[<<"shard", 1>>] = Absent
      /\ dir'[<<"shard", 2>>] = Absent /\ latest'["shard"] = 0
      /\ "shard" # User /\ "shard" \in Name
  BY <1>1, PathIs, NameIs DEF TypeOK, User
<1>4. latest'[User] = latest[User]
  BY <1>2, <1>3, NameIs
<1>5. KeptInv'
  <2>1. ASSUME NEW f \in Sure' PROVE Kept(f)'
    <3>1. f \in Name /\ f \in Sure /\ Kept(f)
      BY <1>1, SureShrinks DEF Inv, KeptInv
    <3>2. CASE f = "shard"
      BY <1>3, <3>2 DEF Kept, Absent, Bytes
    <3>3. CASE f # "shard"
      BY <1>2, <1>4, <3>1, <3>3, KeptSame DEF SameFile
    <3>4. QED
      BY <3>2, <3>3
  <2>2. QED
    BY <2>1 DEF KeptInv
<1>6. SealedOnce'
  BY <1>2, <1>3 DEF Inv, SealedOnce, Absent, Bytes
<1>7. UserInv'
  BY <1>1, <1>2, <1>3, <1>4 DEF Inv, UserInv, Absent, Bytes
<1>8. QED
  BY <1>1, <1>5, <1>6, <1>7, Rest DEF Passes

-----------------------------------------------------------------------------
(* Decrypting.                                                             *)

LEMMA UnlockStep ==
    ASSUME Inv, TypeOK', NEW k \in Passwords, Unlock(k) PROVE Inv'
<1>1. UNCHANGED <<dir, latest, late>> /\ window' \in {"prompt", "open"}
  BY DEF Unlock
<1>2. SealedOnce' /\ KeptInv' /\ UserInv' /\ Sealed' = Sealed
  BY <1>1, FilesSame, StillUser
<1>3. CASE window' = "prompt"
  BY <1>2, <1>3, Rest DEF Passes
<1>4. CASE window' = "open"
  <2>1. todo' # {} /\ pw' \in Passwords /\ done' = {} /\ verified' = FALSE
    BY <1>4 DEF Unlock
  <2>2. todo' = Sealed
    <3>1. ASSUME NEW p \in There(dir), p[2] > 0 PROVE p[2] = 1
      <4>1. p \in Paths /\ dir[p] # Absent
        BY DEF There
      <4>2. p = <<p[1], p[2]>> /\ p[1] \in Name /\ p[2] \in {0, 1, 2}
        BY <4>1, PathIs
      <4>3. p # <<p[1], 2>>
        BY <4>1, <4>2 DEF Inv, SealedOnce
      <4>4. QED
        BY <3>1, <4>2, <4>3
    <3>2. QED
      BY <3>1 DEF Unlock, Sealed
  <2>3. OpenInv'
    BY <1>2, <2>1, <2>2 DEF OpenInv
  <2>4. QED
    BY <1>2, <1>4, <2>3 DEF Inv, SealInv, StripInv, UnsealInv, UndoInv
<1>5. QED
  BY <1>1, <1>3, <1>4

LEMMA DecryptStep ==
    ASSUME Inv, TypeOK', DecryptFile PROVE Inv'
<1>1. /\ window = "open" /\ window \in Passes /\ TypeOK
      /\ pw \in Passwords /\ todo \cup done = Sealed
      /\ verified <=> pw = latest[User] /\ <<User, 1>> \in done
  BY DEF DecryptFile, Passes, Inv, OpenInv
<1>2. PICK g \in Name : First(todo) = <<g, 1>>
  BY <1>1, PassPath
<1>3. /\ Decrypted(First(todo)) = <<g, 0>> /\ First(todo) \in todo
      /\ First(todo)[1] = g
  BY <1>1, <1>2, PassPath, OtherPath
<1>4. /\ dir[<<g, 1>>] \notin {Absent, Junk}
      /\ dir' = [dir EXCEPT ![<<g, 0>>] = Unseal(dir[<<g, 1>>], pw)]
      /\ UNCHANGED <<latest, late, pw>>
  BY <1>2, <1>3 DEF DecryptFile, Decrypt
<1>5. \A f \in Name :
         /\ dir'[<<f, 0>>] = IF f = g THEN Unseal(dir[<<g, 1>>], pw)
                                      ELSE dir[<<f, 0>>]
         /\ dir'[<<f, 1>>] = dir[<<f, 1>>]
         /\ dir'[<<f, 2>>] = dir[<<f, 2>>]
  BY <1>1, <1>4, WrittenClear
<1>6. Sealed' = Sealed
  BY <1>5, SealedSame
<1>7. Sure' = Sure /\ Sure \subseteq Name /\ User \in Sure
      /\ \A f : Shut(f)' = Shut(f)
  BY <1>1, <1>4, SureIs DEF Sure, Shut
<1>8. ASSUME g \in Sure
      PROVE  /\ dir'[<<g, 1>>] = Shut(g)
             /\ dir'[<<g, 0>>] = IF pw = latest[User] THEN Bytes(latest[g])
                                                      ELSE Junk
  <2>1. dir[<<g, 1>>] = Shut(g)
    BY <1>4, <1>8 DEF Inv, KeptInv, Kept
  <2>2. QED
    BY <1>5, <2>1, ShutIs
<1>9. ASSUME NEW f \in Sure, <<f, 1>> \in Treated
      PROVE  /\ dir'[<<f, 1>>] = Shut(f) /\ latest[f] # 0
             /\ dir'[<<f, 0>>] = IF pw = latest[User] THEN Bytes(latest[f])
                                                      ELSE Junk
  <2>1. /\ dir'[<<f, 1>>] = Shut(f)
        /\ dir'[<<f, 0>>] = IF pw = latest[User] THEN Bytes(latest[f])
                                                 ELSE Junk
    <3>1. CASE f = g
      BY <1>8, <3>1
    <3>2. CASE f # g
      <4>1. <<f, 1>> \in done
        BY <1>2, <1>9, <3>2 DEF Treated
      <4>2. QED
        BY <1>1, <1>5, <1>7, <3>2, <4>1 DEF Inv, OpenInv
    <3>3. QED
      BY <3>1, <3>2
  <2>2. Kept(f) /\ dir[<<f, 1>>] = Shut(f)
    BY <1>5, <1>7, <2>1 DEF Inv, KeptInv
  <2>3. QED
    BY <2>1, <2>2, ShutIs DEF Kept
<1>10. KeptInv'
  <2>1. ASSUME NEW f \in Sure PROVE Kept(f)'
    <3>1. CASE f = g
      <4>1. <<f, 1>> \in Treated
        BY <1>2, <3>1 DEF Treated
      <4>2. dir'[<<f, 1>>] = Shut(f)' /\ latest'[f] # 0
        BY <1>4, <1>7, <1>9, <4>1
      <4>3. QED
        BY <4>2 DEF Kept
    <3>2. CASE f # g
      BY <1>4, <1>5, <1>7, <3>2, KeptSame DEF Inv, KeptInv, SameFile
    <3>3. QED
      BY <3>1, <3>2
  <2>2. QED
    BY <1>7, <2>1 DEF KeptInv
<1>11. SealedOnce'
  BY <1>5 DEF Inv, SealedOnce, Absent, Bytes
<1>12. Verified(First(todo), dir') <=> pw = latest[User] /\ <<User, 1>> \in Treated
  <2>1. CASE g = User
    <3>1. dir'[<<User, 0>>] = Bytes(pw) <=> pw = latest[User]
      BY <1>1, <1>7, <1>8, <2>1, BytesAre, PasswordsAre
    <3>2. QED
      BY <1>1, <1>2, <1>3, <2>1, <3>1 DEF Verified, Treated
  <2>2. CASE g # User
    <3>1. <<User, 1>> # First(todo)
      BY <1>2, <2>2
    <3>2. QED
      BY <1>1, <1>3, <2>2, <3>1 DEF Verified, Treated
  <2>3. QED
    BY <2>1, <2>2
<1>13. PICK V \in BOOLEAN :
          /\ V <=> pw = latest[User] /\ <<User, 1>> \in Treated
          /\ verified' <=> V
          /\ Visited(IF V THEN "unseal" ELSE "undo",
                     IF V THEN Treated ELSE {Decrypted(q) : q \in Treated})
  <2>1. CASE Verified(First(todo), dir')
    BY <1>12, <2>1 DEF DecryptFile
  <2>2. CASE ~Verified(First(todo), dir')
    BY <1>12, <2>2 DEF DecryptFile
  <2>3. QED
    BY <2>1, <2>2
<1>14. /\ done' = Treated
       /\ \/ /\ todo = {First(todo)}
             /\ window' = IF V THEN "unseal" ELSE "undo"
             /\ todo' = IF V THEN Treated ELSE {Decrypted(q) : q \in Treated}
          \/ window' = "open" /\ todo' = todo \ {First(todo)} /\ todo' # {}
  BY <1>1, <1>3, <1>13 DEF Visited
<1>15. UserInv'
  BY <1>4, <1>5, <1>14 DEF Inv, UserInv, Absent, Bytes
<1>16. CASE window' = "open"
  <2>1. todo' \cup done' = Sealed'
    BY <1>1, <1>3, <1>6, <1>14, <1>16 DEF Treated
  <2>2. OpenInv'
    BY <1>1, <1>4, <1>7, <1>9, <1>13, <1>14, <1>16, <2>1
       DEF OpenInv, Bytes, Junk
  <2>3. QED
    BY <1>10, <1>11, <1>15, <1>16, <2>2
       DEF Inv, SealInv, StripInv, UnsealInv, UndoInv
<1>17. CASE window' = "unseal"
  <2>1. V /\ todo' = Treated /\ Treated = Sealed' /\ Treated # {}
    BY <1>1, <1>3, <1>6, <1>14, <1>17 DEF Treated
  <2>2. UnsealInv'
    BY <1>1, <1>4, <1>7, <1>9, <1>13, <2>1 DEF UnsealInv, Bytes
  <2>3. QED
    BY <1>10, <1>11, <1>15, <1>17, <2>2
       DEF Inv, SealInv, StripInv, OpenInv, UndoInv
<1>18. CASE window' = "undo"
  <2>1. todo' = {Decrypted(q) : q \in Treated} /\ Treated \subseteq Sealed
        /\ Treated # {}
    BY <1>1, <1>3, <1>14, <1>18 DEF Treated
  <2>2. ASSUME NEW q \in Treated
        PROVE  Decrypted(q) = <<q[1], 0>> /\ q = <<q[1], 1>>
    BY <2>1, SealedIs, OtherPath
  <2>3. todo' # {} /\ \A p \in todo' : p[2] = 0
    BY <2>1, <2>2
  <2>4. ASSUME NEW f \in Sure, <<f, 0>> \in todo'
        PROVE  dir'[<<f, 1>>] = Shut(f) /\ dir'[<<f, 0>>] # Absent
    <3>1. PICK q \in Treated : <<f, 0>> = <<q[1], 0>>
      BY <2>1, <2>2, <2>4
    <3>2. f = q[1]
      BY <3>1
    <3>3. <<f, 1>> \in Treated
      BY <2>2, <3>2
    <3>4. QED
      BY <1>9, <3>3, BytesAre
  <2>5. <<User, 1>> \in Sealed' => pw' # latest'[User]
    <3>1. Treated = Sealed /\ ~V
      BY <1>1, <1>3, <1>14, <1>18 DEF Treated
    <3>2. QED
      BY <1>4, <1>6, <1>13, <3>1
  <2>6. UndoInv'
    BY <1>7, <2>3, <2>4, <2>5 DEF UndoInv, Absent, Bytes
  <2>7. QED
    BY <1>10, <1>11, <1>15, <1>18, <2>6
       DEF Inv, SealInv, StripInv, OpenInv, UnsealInv
<1>19. QED
  BY <1>14, <1>16, <1>17, <1>18

(* Deleting an encrypted file whose newest version is in the clear.        *)
LEMMA DropSealed ==
    ASSUME Inv, TypeOK', RemoveEncrypted PROVE Inv'
<1>1. window = "unseal" /\ window \in Passes /\ TypeOK
      /\ UNCHANGED <<latest, late, pw>>
      /\ pw \in Passwords /\ pw = latest[User] /\ todo = Sealed
  BY DEF RemoveEncrypted, Passes, Inv, UnsealInv
<1>2. PICK g \in Name : First(todo) = <<g, 1>> /\ <<g, 1>> \in todo
  BY <1>1, PassPath
<1>3. /\ dir' = [dir EXCEPT ![<<g, 1>>] = Absent]
      /\ todo' = todo \ {<<g, 1>>}
      /\ window' = IF todo' = {} THEN "main" ELSE window
  BY <1>2 DEF RemoveEncrypted, Delete
<1>4. \A f \in Name :
         /\ dir'[<<f, 0>>] = dir[<<f, 0>>]
         /\ dir'[<<f, 1>>] = IF f = g THEN Absent ELSE dir[<<f, 1>>]
         /\ dir'[<<f, 2>>] = dir[<<f, 2>>]
  BY <1>1, <1>3, WrittenSealed
<1>5. Sure' = Sure /\ Sure \subseteq Name /\ User \in Sure
  BY <1>1, SureIs DEF Sure
<1>6. \A f \in Sure : <<f, 1>> \in todo => dir[<<f, 0>>] = Bytes(latest[f])
  BY <1>1 DEF Inv, UnsealInv
<1>7. KeptInv'
  <2>1. ASSUME NEW f \in Sure PROVE Kept(f)'
    <3>0. Kept(f)
      BY DEF Inv, KeptInv
    <3>1. CASE f = g
      <4>1. dir'[<<f, 1>>] = Absent /\ dir'[<<f, 0>>] = Bytes(latest'[f])
        BY <1>1, <1>2, <1>4, <1>5, <1>6, <3>1
      <4>2. QED
        BY <4>1, BytesAre DEF Kept, Bytes, Absent
    <3>2. CASE f # g
      BY <1>1, <1>4, <1>5, <3>0, <3>2, KeptSame DEF SameFile
    <3>3. QED
      BY <3>1, <3>2
  <2>2. QED
    BY <1>5, <2>1 DEF KeptInv
<1>8. SealedOnce'
  BY <1>4 DEF Inv, SealedOnce, Absent, Bytes
<1>9. Sealed' = todo'
  <2>1. ASSUME NEW p PROVE p \in Sealed' <=> p \in todo'
    BY <1>1, <1>3, <1>4, SealedIs, SealedIsAfter
  <2>2. QED
    BY <2>1
<1>10. CASE todo' = {}
  <2>1. window' = "main" /\ \A f \in Name : dir'[<<f, 1>>] = Absent
    BY <1>3, <1>9, <1>10, SealedIsAfter
  <2>2. UserInv'
    BY <1>1, <2>1 DEF UserInv, Absent, Bytes
  <2>3. QED
    BY <1>7, <1>8, <2>1, <2>2, Rest DEF Passes
<1>11. CASE todo' # {}
  <2>1. window' = "unseal"
    BY <1>1, <1>3, <1>11
  <2>2. UserInv'
    BY <1>1, <2>1, PasswordsAre DEF UserInv
  <2>3. \A f \in Sure : <<f, 1>> \in todo' => dir'[<<f, 0>>] = Bytes(latest[f])
    BY <1>3, <1>4, <1>5, <1>6
  <2>4. UnsealInv'
    BY <1>1, <1>5, <1>9, <1>11, <2>3 DEF UnsealInv, Bytes
  <2>5. QED
    BY <1>7, <1>8, <2>1, <2>2, <2>4
       DEF Inv, SealInv, StripInv, OpenInv, UndoInv
<1>12. QED
  BY <1>10, <1>11

-----------------------------------------------------------------------------
(* Deaths.                                                                 *)

(* A file that is cut short is never the only one with the newest version. *)
LEMMA KillStep ==
    ASSUME Inv, TypeOK', Kill PROVE Inv'
<1>1. TypeOK /\ window' = "off" /\ UNCHANGED <<latest, late>>
  BY DEF Kill, Inv
<1>2. CASE UNCHANGED dir
  BY <1>1, <1>2, FilesSame, StillUser, Rest DEF Passes
<1>3. Sure' = Sure /\ Sure \subseteq Name /\ User \in Sure
      /\ \A f : Shut(f)' = Shut(f)
  BY <1>1, SureIs DEF Sure, Shut
<1>4. CASE window = "seal" /\ dir' = [dir EXCEPT ![Encrypted(First(todo))] = Junk]
  <2>1. PICK g \in Name : First(todo) = <<g, 0>> /\ <<g, 0>> \in todo
    BY <1>4, PassPath DEF Passes
  <2>2. Encrypted(First(todo)) = <<g, 1>>
    BY <2>1, OtherPath
  <2>3. \A f \in Name :
           /\ dir'[<<f, 0>>] = dir[<<f, 0>>]
           /\ dir'[<<f, 1>>] = IF f = g THEN Junk ELSE dir[<<f, 1>>]
           /\ dir'[<<f, 2>>] = dir[<<f, 2>>]
    BY <1>1, <1>4, <2>2, WrittenSealed
  <2>4. ASSUME NEW f \in Sure PROVE Kept(f)'
    <3>1. CASE f = g
      <4>1. dir[<<f, 0>>] = Bytes(latest[f]) /\ latest[f] # 0
        BY <1>4, <2>1, <3>1 DEF Inv, SealInv
      <4>2. QED
        BY <1>1, <1>3, <2>3, <3>1, <4>1 DEF Kept, Bytes, Junk
    <3>2. CASE f # g
      BY <1>1, <1>3, <2>3, <3>2, KeptSame DEF Inv, KeptInv, SameFile
    <3>3. QED
      BY <3>1, <3>2
  <2>5. SealedOnce'
    BY <2>3 DEF Inv, SealedOnce, Absent, Bytes
  <2>6. latest[User] # 0
    BY <1>4 DEF Inv, SealInv
  <2>7. UserInv'
    BY <1>1, <2>6 DEF Inv, UserInv
  <2>8. QED
    BY <1>1, <1>3, <2>4, <2>5, <2>7, Rest DEF Passes, KeptInv
<1>5. CASE /\ window = "open" /\ dir[First(todo)] \notin {Absent, Junk}
           /\ dir' = [dir EXCEPT ![Decrypted(First(todo))] = Junk]
  <2>1. PICK g \in Name : First(todo) = <<g, 1>>
    BY <1>5, PassPath DEF Passes
  <2>2. Decrypted(First(todo)) = <<g, 0>>
    BY <2>1, OtherPath
  <2>3. \A f \in Name :
           /\ dir'[<<f, 0>>] = IF f = g THEN Junk ELSE dir[<<f, 0>>]
           /\ dir'[<<f, 1>>] = dir[<<f, 1>>]
           /\ dir'[<<f, 2>>] = dir[<<f, 2>>]
    BY <1>1, <1>5, <2>2, WrittenClear
  <2>4. ASSUME NEW f \in Sure PROVE Kept(f)'
    <3>1. CASE f = g
      <4>1. Kept(f) /\ dir[<<f, 1>>] \notin {Absent, Junk}
        BY <1>5, <2>1, <3>1 DEF Inv, KeptInv
      <4>2. dir[<<f, 1>>] = Shut(f) /\ latest[f] # 0
        BY <4>1 DEF Kept
      <4>3. QED
        BY <1>1, <1>3, <2>3, <4>2 DEF Kept
    <3>2. CASE f # g
      BY <1>1, <1>3, <2>3, <3>2, KeptSame DEF Inv, KeptInv, SameFile
    <3>3. QED
      BY <3>1, <3>2
  <2>5. SealedOnce'
    BY <2>3 DEF Inv, SealedOnce, Absent, Bytes
  <2>6. UserInv'
    BY <1>1, <2>3 DEF Inv, UserInv, Absent, Bytes
  <2>7. QED
    BY <1>1, <1>3, <2>4, <2>5, <2>6, Rest DEF Passes, KeptInv
<1>6. QED
  BY <1>2, <1>4, <1>5 DEF Kill

LEMMA InvInit == Init => Inv
<1> SUFFICES ASSUME Init PROVE Inv
  OBVIOUS
<1>1. /\ \A f \in Name : /\ dir[<<f, 0>>] = Absent /\ dir[<<f, 1>>] = Absent
                         /\ dir[<<f, 2>>] = Absent /\ latest[f] = 0
      /\ window = "off"
  BY PathIs DEF Init
<1>2. TypeOK
  <2>1. dir \in [Paths -> Contents]
    BY BytesType DEF Init
  <2>2. latest \in [Name -> Nat]
    BY DEF Init
  <2>3. cuts \in 0 .. MaxCuts /\ late \in 0 .. MaxLate
    BY VaultAssumption DEF Init
  <2>4. /\ window \in Windows /\ pw \in Passwords \cup {0}
        /\ todo \subseteq Paths /\ done \subseteq Paths
        /\ verified \in BOOLEAN /\ torn \in BOOLEAN
        /\ answer \in {"none", "opened", "wrong", "error"}
    BY DEF Init, Windows
  <2>5. QED
    BY <2>1, <2>2, <2>3, <2>4 DEF TypeOK
<1>3. KeptInv
  BY <1>1, <1>2, SureIs, BytesAre DEF KeptInv, Kept
<1>4. QED
  BY <1>1, <1>2, <1>3, NameIs DEF Inv, SealedOnce, UserInv, SealInv, StripInv,
     OpenInv, UnsealInv, UndoInv

LEMMA InvStep == Inv /\ [Next]_vars => Inv'
<1> SUFFICES ASSUME Inv, [Next]_vars PROVE Inv'
  OBVIOUS
<1>1. TypeOK'
  BY TypeStep
<1>2. QED
  BY <1>1, WindowStep, PasswordStep, CommandStep, StutterStep, CloseStep,
     EncryptStep, LeaveStep, DropStep, CleanStep, UnlockStep, DecryptStep,
     DropSealed, KillStep DEF Next

LEMMA InvHolds == Spec => []Inv
BY InvInit, InvStep, PTL DEF Spec

(* Types: in particular, what encryptFilesOnExit reads is a password the   *)
(* user typed or none, however the password file was interrupted.          *)
THEOREM TypeCorrect == Spec => []TypeOK
<1>1. Inv => TypeOK
  BY DEF Inv
<1>2. QED
  BY <1>1, InvHolds, PTL

(* No file is ever encrypted twice, whatever dies, fails or is written at  *)
(* a wrong time: where encryptFilesOnExit runs, nothing is encrypted.      *)
THEOREM EncryptedOnce == Spec => []SealedOnce
<1>1. Inv => SealedOnce
  BY DEF Inv
<1>2. QED
  BY <1>1, InvHolds, PTL

(* The newest version of every file survives closings, openings, wrong     *)
(* passwords and any number of deaths and failures in either pass, in the  *)
(* clear or under the user's own password.                                 *)
THEOREM VersionsSurvive == Spec => []NothingLost
<1>1. Inv => NothingLost
  <2> SUFFICES ASSUME Inv, late = 0, NEW f \in Name \ {"shard"}, latest[f] # 0
               PROVE  \E n \in 0 .. MaxSeals :
                         /\ dir[<<f, n>>].value = latest[f]
                         /\ Range(dir[<<f, n>>].keys) \subseteq {latest[User]}
    BY DEF NothingLost
  <2>1. Kept(f)
    BY DEF Inv, KeptInv, Sure
  <2>2. 0 \in 0 .. MaxSeals /\ 1 \in 0 .. MaxSeals
    BY DEF MaxSeals
  <2>3. CASE dir[<<f, 0>>] = Bytes(latest[f])
    <3>1. Range(<<>>) = {}
      BY DEF Range
    <3>2. QED
      BY <2>2, <2>3, <3>1, BytesAre
  <2>4. CASE dir[<<f, 1>>] = Shut(f)
    <3>1. Range(<<latest[User]>>) = {latest[User]}
      BY DEF Range
    <3>2. QED
      BY <2>2, <2>4, <3>1 DEF Shut
  <2>5. QED
    BY <2>1, <2>3, <2>4 DEF Kept
<1>2. QED
  BY <1>1, InvHolds, PTL

(* An open window shows the newest version of every file.                  *)
THEOREM OpensCurrent == Spec => []OpenIsCurrent
<1>1. Inv => OpenIsCurrent
  <2> SUFFICES ASSUME Inv, late = 0, window = "main", NEW f \in Name \ {User}
               PROVE  dir[<<f, 0>>] = Bytes(latest[f])
    BY DEF OpenIsCurrent
  <2>1. Kept(f) /\ dir[<<f, 1>>] = Absent
    BY DEF Inv, KeptInv, Sure, UserInv
  <2>2. QED
    BY <2>1, ShutIs DEF Kept
<1>2. QED
  BY <1>1, InvHolds, PTL

-----------------------------------------------------------------------------
(* The right password.                                                     *)

(* The files a password is verified with stay as long as no file is        *)
(* encrypted, and the encrypted ones are at most deleted.                  *)
LEMMA ReadyStays ==
    ASSUME OpensInv, window \in Locked, torn => torn', late = 0 \/ late' # 0,
           latest'[User] = latest[User], dir'[<<User, 1>>] = dir[<<User, 1>>],
           \A f \in Name : dir'[<<f, 1>>] \in {Absent, dir[<<f, 1>>]}
    PROVE  OpensInv'
<1> SUFFICES ASSUME ~torn', late' = 0, latest'[User] # 0
             PROVE  /\ dir'[<<User, 1>>] = Shut(User)'
                    /\ \A f \in Name : dir'[<<f, 1>>] # Junk'
  BY DEF OpensInv
<1>1. /\ dir[<<User, 1>>] = Shut(User)
      /\ \A f \in Name : dir[<<f, 1>>] # Junk
  BY DEF OpensInv
<1>2. Shut(User)' = Shut(User)
  BY ShutSame
<1>3. Junk' = Junk /\ Absent # Junk
  BY BytesAre DEF Junk, Bytes
<1>4. QED
  BY <1>1, <1>2, <1>3

LEMMA OpensOut ==
    ASSUME \/ window' \notin Locked
           \/ latest'[User] = 0
           \/ torn' \/ late' # 0
    PROVE  OpensInv'
BY DEF OpensInv, Locked

(* The end of the first pass of an encryption.                             *)
LEMMA OpensSealed ==
    ASSUME Inv, Inv', EncryptFile PROVE OpensInv'
<1>1. CASE window' \notin Locked \/ late' # 0
  BY <1>1, OpensOut
<1>2. CASE window' \in Locked /\ late' = 0
  <2>1. /\ window = "seal" /\ window \in Passes /\ TypeOK /\ late = 0
        /\ UNCHANGED <<latest, pw>> /\ pw \in Passwords
        /\ pw = latest[User] /\ pw # 0
    BY <1>2 DEF EncryptFile, Passes, Inv, SealInv, UserInv
  <2>2. PICK g \in Name : First(todo) = <<g, 0>>
    BY <2>1, PassPath
  <2>3. /\ Encrypted(First(todo)) = <<g, 1>> /\ First(todo) \in todo
    BY <2>1, <2>2, PassPath, OtherPath
  <2>4. dir' = [dir EXCEPT ![<<g, 1>>] = Seal(dir[<<g, 0>>], pw)]
    BY <2>2, <2>3 DEF EncryptFile, Encrypt
  <2>5. \A f \in Name :
           dir'[<<f, 1>>] = IF f = g THEN Seal(dir[<<g, 0>>], pw)
                                     ELSE dir[<<f, 1>>]
    BY <2>1, <2>4, WrittenSealed
  <2>6. window' = "strip" /\ todo' = Treated /\ todo = {First(todo)}
    BY <1>2, <2>1 DEF EncryptFile, Visited, Locked
  <2>7. Sure = Name /\ Sure' = Name /\ User \in Name
    BY <1>2, <2>1, NameIs DEF Sure
  <2>8. <<User, 0>> \in Treated
    <3>1. <<User, 0>> \in todo \cup done
      BY <2>1, <2>7 DEF Inv, SealInv
    <3>2. QED
      BY <2>6, <3>1 DEF Treated
  <2>9. dir'[<<User, 1>>] = Shut(User)'
    BY <2>6, <2>7, <2>8 DEF Inv, StripInv
  <2>10. ASSUME NEW f \in Name PROVE dir'[<<f, 1>>] # Junk
    <3>1. dir[<<f, 1>>] # Junk
      BY <2>1, <2>7 DEF Inv, SealInv
    <3>2. dir[<<g, 0>>] \in Contents
      BY <2>1, PathIs DEF TypeOK
    <3>3. Seal(dir[<<g, 0>>], pw) # Junk
      BY <2>1, <3>2, SealType, BytesAre
    <3>4. QED
      BY <2>5, <3>1, <3>3
  <2>11. QED
    BY <2>9, <2>10 DEF OpensInv, Junk, Bytes
<1>3. QED
  BY <1>1, <1>2

(* The encrypted password file is deleted last, and the window is open     *)
(* then.                                                                   *)
LEMMA OpensUnsealed ==
    ASSUME Inv, OpensInv, RemoveEncrypted PROVE OpensInv'
<1>1. window = "unseal" /\ window \in Passes /\ TypeOK /\ todo = Sealed
      /\ UNCHANGED <<latest, late, torn>>
  BY DEF RemoveEncrypted, Passes, Inv, UnsealInv
<1>2. PICK g \in Name : First(todo) = <<g, 1>> /\ <<g, 1>> \in todo
  BY <1>1, PassPath
<1>3. /\ dir' = [dir EXCEPT ![<<g, 1>>] = Absent]
      /\ todo' = todo \ {<<g, 1>>}
      /\ window' = IF todo' = {} THEN "main" ELSE window
  BY <1>2 DEF RemoveEncrypted, Delete
<1>4. \A f \in Name : dir'[<<f, 1>>] = IF f = g THEN Absent ELSE dir[<<f, 1>>]
  BY <1>1, <1>3, WrittenSealed
<1>5. CASE g = User
  <2>1. todo \subseteq Paths /\ todo # {} /\ First(todo)[1] = User
        /\ \A p \in todo : p[2] = 1
    BY <1>1, <1>2, <1>5, SealedIs
  <2>2. todo = {First(todo)}
    BY <2>1, UserLast
  <2>3. window' = "main"
    BY <1>2, <1>3, <2>2
  <2>4. QED
    BY <2>3, OpensOut DEF Locked
<1>6. CASE g # User
  <2>1. dir'[<<User, 1>>] = dir[<<User, 1>>] /\ latest'[User] = latest[User]
    BY <1>1, <1>4, <1>6, NameIs
  <2>2. \A f \in Name : dir'[<<f, 1>>] \in {Absent, dir[<<f, 1>>]}
    BY <1>4
  <2>3. QED
    BY <1>1, <2>1, <2>2, ReadyStays DEF Locked
<1>7. QED
  BY <1>5, <1>6

(* Where a file is written or deleted in the clear, or none is.            *)
LEMMA OpensClear ==
    ASSUME Inv, OpensInv, window \in Locked,
           torn => torn', UNCHANGED <<late, latest>>,
           NEW g \in Name, NEW c,
           dir' = [dir EXCEPT ![<<g, 0>>] = c] \/ dir' = dir
    PROVE  OpensInv'
<1>1. \A f \in Name : dir'[<<f, 1>>] = dir[<<f, 1>>]
  BY WrittenClear DEF Inv
<1>2. QED
  BY <1>1, ReadyStays, NameIs

LEMMA OpensInit == Init => OpensInv
<1> SUFFICES ASSUME Init PROVE OpensInv
  OBVIOUS
<1>1. latest[User] = 0
  BY NameIs DEF Init
<1>2. QED
  BY <1>1 DEF OpensInv

LEMMA OpensStep == Inv /\ OpensInv /\ [Next]_vars => OpensInv'
<1> SUFFICES ASSUME Inv, OpensInv, [Next]_vars PROVE OpensInv'
  OBVIOUS
<1>0. TypeOK /\ late \in Nat /\ User \in Name
  BY NameIs DEF Inv, TypeOK
<1>1. CASE UNCHANGED vars
  <2>1. UNCHANGED <<dir, latest, late, torn, window>>
    BY <1>1 DEF vars
  <2>2. QED
    BY <2>1 DEF OpensInv, Shut, Junk, Bytes
<1>2. CASE Main
  <2>1. window \in Locked /\ UNCHANGED <<dir, latest, late, torn>>
    BY <1>2 DEF Main, Show, Locked
  <2>2. QED
    BY <1>0, <2>1, OpensClear
<1>3. CASE CloseWindow
  <2>1. UNCHANGED <<dir, latest, late, torn>> /\ window \in {"setup", "prompt"}
    BY <1>3 DEF CloseWindow, Show
  <2>2. CASE window = "setup"
    BY <2>1, <2>2, OpensOut DEF Inv, UserInv
  <2>3. CASE window = "prompt"
    BY <1>0, <2>1, <2>3, OpensClear DEF Locked
  <2>4. QED
    BY <2>1, <2>2, <2>3
<1>4. CASE PasswordWritten \/ \E p \in Passwords : SaveUserPassword(p)
  <2>1. window' \in {"main", "save"}
    BY <1>4 DEF PasswordWritten, SaveUserPassword
  <2>2. QED
    BY <2>1, OpensOut DEF Locked
<1>5. CASE CommandWrites
  <2>1. window' = "main" \/ late' = late + 1
    BY <1>5 DEF CommandWrites
  <2>2. CASE window' = "main"
    BY <2>2, OpensOut DEF Locked
  <2>3. CASE late' = late + 1
    BY <1>0, <2>3, OpensOut
  <2>4. QED
    BY <2>1, <2>2, <2>3
<1>6. ASSUME NEW p \in Passwords, Unlock(p) PROVE OpensInv'
  <2>1. window \in Locked /\ UNCHANGED <<dir, latest, late, torn>>
    BY <1>6 DEF Unlock, Locked
  <2>2. QED
    BY <1>0, <2>1, OpensClear
<1>7. CASE Close
  <2>1. window = "main" /\ UNCHANGED latest
        /\ (window' = "seal" \/ GetUserPassword = 0)
    BY <1>7 DEF Close
  <2>2. CASE window' = "seal"
    BY <2>2, OpensOut DEF Locked
  <2>3. CASE GetUserPassword = 0
    BY <2>1, <2>3, MainPassword, OpensOut
  <2>4. QED
    BY <2>1, <2>2, <2>3
<1>8. CASE EncryptFile
  BY <1>8, InvStep, OpensSealed
<1>9. CASE EncryptFails
  BY <1>9, OpensOut DEF EncryptFails
<1>10. CASE RemoveOriginal \/ RemoveDecrypted
  <2>1. /\ window \in {"strip", "undo"} /\ UNCHANGED <<latest, late, torn>>
        /\ dir' = [dir EXCEPT ![First(todo)] = Absent]
    BY <1>10 DEF RemoveOriginal, RemoveDecrypted, Delete
  <2>2. PICK g \in Name : First(todo) = <<g, 0>>
    BY <2>1, PassPath DEF Passes
  <2>3. QED
    BY <2>1, <2>2, OpensClear DEF Locked
<1>11. CASE cleanShardFolderOnExit
  <2>1. /\ window = "clean" /\ UNCHANGED <<late, torn>>
        /\ dir' = [p \in Paths |-> IF p[1] = "shard" THEN Absent ELSE dir[p]]
        /\ latest' = [latest EXCEPT !["shard"] = 0]
    BY <1>11 DEF cleanShardFolderOnExit
  <2>2. \A f \in Name :
           dir'[<<f, 1>>] = IF f = "shard" THEN Absent ELSE dir[<<f, 1>>]
    BY <2>1, PathIs
  <2>3. latest'[User] = latest[User] /\ User # "shard"
    BY <1>0, <2>1 DEF TypeOK, User
  <2>4. dir'[<<User, 1>>] = dir[<<User, 1>>]
        /\ \A f \in Name : dir'[<<f, 1>>] \in {Absent, dir[<<f, 1>>]}
    BY <1>0, <2>2, <2>3
  <2>5. QED
    BY <2>1, <2>3, <2>4, ReadyStays DEF Locked
<1>12. CASE DecryptFile
  <2>1. /\ window = "open" /\ UNCHANGED <<latest, late, torn>>
        /\ dir' = [dir EXCEPT ![Decrypted(First(todo))] =
                                  Unseal(dir[First(todo)], pw)]
    BY <1>12 DEF DecryptFile, Decrypt
  <2>2. PICK g \in Name : Decrypted(First(todo)) = <<g, 0>>
    BY <2>1, PassPath, OtherPath DEF Passes
  <2>3. QED
    BY <2>1, <2>2, OpensClear DEF Locked
<1>13. CASE DecryptFails \/ RemoveFails
  <2>1. window \in Locked /\ UNCHANGED <<dir, latest, late, torn>>
    BY <1>13 DEF DecryptFails, RemoveFails, Failed, Locked
  <2>2. QED
    BY <1>0, <2>1, OpensClear
<1>14. CASE RemoveEncrypted
  BY <1>14, OpensUnsealed
<1>15. CASE Kill
  <2>1. UNCHANGED <<latest, late>> /\ torn' = (torn \/ window \in {"main", "seal"})
    BY <1>15 DEF Kill
  <2>2. CASE window \in {"main", "seal"}
    BY <2>1, <2>2, OpensOut
  <2>3. CASE window \in {"setup", "save"}
    BY <2>1, <2>3, OpensOut DEF Inv, UserInv
  <2>4. CASE window \in Locked
    <3>1. \E g \in Name : \/ dir' = dir
                          \/ dir' = [dir EXCEPT ![<<g, 0>>] = Junk]
      <4>1. CASE dir' = dir
        BY <1>0, <4>1
      <4>2. CASE dir' # dir
        <5>1. /\ window = "open"
              /\ dir' = [dir EXCEPT ![Decrypted(First(todo))] = Junk]
          BY <1>15, <2>4, <4>2 DEF Kill, Locked
        <5>2. PICK g \in Name : Decrypted(First(todo)) = <<g, 0>>
          BY <5>1, PassPath, OtherPath DEF Passes
        <5>3. QED
          BY <5>1, <5>2
      <4>3. QED
        BY <4>1, <4>2
    <3>2. QED
      BY <2>1, <2>4, <3>1, OpensClear
  <2>5. QED
    BY <1>0, <2>2, <2>3, <2>4 DEF TypeOK, Windows, Locked
<1>16. QED
  BY <1>1, <1>2, <1>3, <1>4, <1>5, <1>6, <1>7, <1>8, <1>9, <1>10, <1>11,
     <1>12, <1>13, <1>14, <1>15 DEF Next

(* Where the right password could be refused, without a failure, the GUI   *)
(* has what it needs; so it is not.                                        *)
LEMMA RightStep ==
    ASSUME Inv, OpensInv, Next, ~torn, late = 0, cuts' = cuts,
           answer \in {"none", "opened"}, answer' \in {"wrong", "error"},
           pw' = latest[User]
    PROVE  FALSE
<1>0. Sure = Name /\ User \in Name /\ TypeOK /\ cuts \in Nat
  BY NameIs DEF Sure, Inv, TypeOK
<1>1. ASSUME window \in Locked, latest[User] # 0
      PROVE  /\ dir[<<User, 1>>] = Shut(User) /\ <<User, 1>> \in Sealed
             /\ \A f \in Name : dir[<<f, 1>>] # Junk
  <2>1. /\ dir[<<User, 1>>] = Shut(User)
        /\ \A f \in Name : dir[<<f, 1>>] # Junk
    BY <1>1 DEF OpensInv
  <2>2. QED
    BY <1>0, <2>1, ShutIs, SealedIs
<1>2. ASSUME window = "undo", pw = latest[User] PROVE FALSE
  <2>1. latest[User] # 0
    <3>1. PICK g \in Name : <<g, 0>> \in todo
      BY <1>2, PassPath DEF Passes
    <3>2. dir[<<g, 1>>] = Shut(g)
      BY <1>0, <1>2, <3>1 DEF Inv, UndoInv
    <3>3. QED
      BY <3>2, ShutIs DEF Inv, UserInv
  <2>2. <<User, 1>> \in Sealed
    BY <1>1, <1>2, <2>1 DEF Locked
  <2>3. QED
    BY <1>2, <2>2 DEF Inv, UndoInv
<1>3. ASSUME NEW p \in Passwords, Unlock(p) PROVE FALSE
  <2>1. /\ window = "prompt" /\ p = latest[User] /\ todo' = {}
        /\ todo' = {q \in There(dir) : q[2] > 0}
    BY <1>3 DEF Unlock
  <2>2. latest[User] # 0
    BY <2>1, PasswordsAre
  <2>3. <<User, 1>> \in Sealed
    BY <1>1, <2>1, <2>2 DEF Locked
  <2>4. QED
    BY <2>1, <2>3 DEF Sealed
<1>4. ASSUME DecryptFails PROVE FALSE
  <2>1. /\ window = "open" /\ pw' = pw /\ Refuses(dir[First(todo)], pw)
    BY <1>0, <1>4 DEF DecryptFails, Failed
  <2>2. pw \in Passwords /\ todo \cup done = Sealed /\ pw = latest[User]
    BY <2>1 DEF Inv, OpenInv
  <2>3. PICK g \in Name : First(todo) = <<g, 1>> /\ <<g, 1>> \in todo
    BY <2>1, PassPath DEF Passes
  <2>4. dir[<<g, 1>>] # Absent /\ dir[<<g, 1>>] # Junk
    BY <1>1, <2>1, <2>2, <2>3, SealedIs, PasswordsAre DEF Locked
  <2>5. dir[<<g, 1>>] = Shut(g)
    BY <1>0, <2>4 DEF Inv, KeptInv, Kept
  <2>6. QED
    BY <2>1, <2>2, <2>3, <2>5, ShutIs DEF Refuses
<1>5. ASSUME RemoveDecrypted PROVE FALSE
  <2>1. window = "undo" /\ pw' = pw
    BY <1>5 DEF RemoveDecrypted
  <2>2. QED
    BY <1>2, <2>1
<1>6. ASSUME RemoveFails PROVE FALSE
  <2>1. window # "strip"
    BY <1>6 DEF RemoveFails, pass
  <2>2. window \in {"unseal", "undo"} /\ dir[First(todo)] = Absent /\ pw' = pw
    BY <1>0, <1>6, <2>1 DEF RemoveFails, Failed
  <2>3. window = "unseal"
    BY <1>2, <2>2
  <2>4. First(todo) \in Sealed
    BY <2>3, PassPath DEF Passes, Inv, UnsealInv
  <2>5. QED
    BY <2>2, <2>4 DEF Sealed, There
<1>7. CASE \/ Main \/ CloseWindow \/ PasswordWritten \/ CommandWrites
           \/ \E p \in Passwords : SaveUserPassword(p)
           \/ Close \/ EncryptFile \/ EncryptFails \/ RemoveOriginal
           \/ cleanShardFolderOnExit \/ DecryptFile \/ Kill
  <2>1. answer' = answer
    BY <1>7 DEF Main, CloseWindow, PasswordWritten, CommandWrites, Show,
       SaveUserPassword, Close, EncryptFile, EncryptFails, RemoveOriginal,
       cleanShardFolderOnExit, DecryptFile, Kill, pass
  <2>2. QED
    BY <2>1
<1>8. CASE RemoveEncrypted
  BY <1>8 DEF RemoveEncrypted
<1>9. QED
  BY <1>3, <1>4, <1>5, <1>6, <1>7, <1>8 DEF Next

(* The GUI lets in who has the password, whatever died or failed before,   *)
(* as long as it has never ended with a file left in the clear, no command *)
(* outlived a window and no system call fails now.                         *)
THEOREM RightOneOpens == Spec => RightPasswordOpens
<1>1. Inv /\ OpensInv /\ [Next]_vars =>
        [/\ answer \in {"none", "opened"}
         /\ answer' \in {"wrong", "error"}
         /\ pw' = latest[User]
         => torn \/ late > 0 \/ cuts' > cuts]_vars
  <2> SUFFICES ASSUME Inv, OpensInv, Next, ~torn, ~(late > 0), ~(cuts' > cuts),
                      answer \in {"none", "opened"},
                      answer' \in {"wrong", "error"}, pw' = latest[User]
               PROVE  FALSE
    OBVIOUS
  <2>1. late = 0
    BY DEF Inv, TypeOK
  <2>2. cuts' = cuts
    <3>1. cuts \in Nat
      BY DEF Inv, TypeOK
    <3>2. cuts' = cuts \/ cuts' = cuts + 1
      BY DEF Next, Main, CloseWindow, PasswordWritten, CommandWrites, Show,
         SaveUserPassword, Unlock, Close, EncryptFile, EncryptFails,
         RemoveOriginal, cleanShardFolderOnExit, DecryptFile, DecryptFails,
         RemoveEncrypted, RemoveDecrypted, RemoveFails, Kill
    <3>3. QED
      BY <3>1, <3>2
  <2>3. QED
    BY <2>1, <2>2, RightStep
<1>2. QED
  BY <1>1, InvHolds, OpensInit, OpensStep, PTL DEF Spec, RightPasswordOpens

=============================================================================
