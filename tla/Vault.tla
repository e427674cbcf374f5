-------------------------------- MODULE Vault --------------------------------
(***************************************************************************)
(* The password vault: the GUI encrypts every file of the rclone directory *)
(* when its window is closed, and decrypts them when it is opened with the *)
(* user's password.  Both are two passes over the directory, the first     *)
(* making the new files and the second deleting the old ones, and the      *)
(* process may die inside either.  The rclone commands run in processes of *)
(* their own, which closing the window does not end.                       *)
(***************************************************************************)
EXTENDS Integers, Sequences, SequencesExt

CONSTANTS
    Passwords,   \* what a user may type: positive numbers
    MaxWrites,   \* bound: versions of each file
    MaxCuts,     \* bound: how often the GUI dies, or a system call fails
    MaxLate      \* bound: how often a command writes while the GUI is not open

ASSUME VaultAssumption ==
    /\ Passwords \subseteq Nat \ {0}
    /\ Passwords # {}
    /\ {MaxWrites, MaxCuts, MaxLate} \subseteq Nat

(* The directory in the order of filepath.Walk.  loadbalancer.json and     *)
(* rclone.conf fare like datamap.json, and "shard" is one file of shard/.  *)
Names == <<"datamap.json", "password.txt", "shard", "user_password.txt">>
Name  == Range(Names)
User  == "user_password.txt"

(* A path is a name followed by so many times .fcef.                       *)
MaxSeals == 2
Paths == Name \X (0 .. MaxSeals)

(* The lists of paths are always in the order of the Walk, so sets do.     *)
Position(f)  == CHOOSE i \in 1 .. Len(Names) : Names[i] = f
Before(p, q) == \/ Position(p[1]) < Position(q[1])
                \/ p[1] = q[1] /\ p[2] < q[2]
First(P)     == CHOOSE p \in P : \A q \in P \ {p} : Before(p, q)

(* A content: a value, the number of the version or the password itself,   *)
(* under layers of encryption, the outermost last.                         *)
Bytes(v) == [value |-> v, keys |-> <<>>]
Absent == Bytes(0)
Junk   == Bytes(-1)    \* cut short, or decrypted with a wrong password
Empty  == Bytes(-2)    \* user_password.txt, truncated and not yet written

VARIABLES
    dir,       \* dir[p]: the content of path p
    window,    \* what the GUI shows or does
    pw,        \* the password typed, or read by encryptFilesOnExit
    todo,      \* paths the Walk has still to visit, or the loop to delete
    done,      \* paths the first pass has treated
    verified,  \* passwordVerified
    answer,    \* how the last attempt to unlock ended
    latest,    \* history: the newest value of each file, 0 when deleted
    cuts,      \* number of deaths and failures so far
    torn,      \* history: the GUI ended without having encrypted every file
    late       \* number of writes by commands while the GUI was not open

pass == <<pw, todo, done, verified, answer>>
vars == <<dir, window, pass, latest, cuts, torn, late>>

Windows == {"off", "setup", "save", "prompt", "main", "seal", "strip",
            "clean", "open", "unseal", "undo"}

There(d) == {p \in Paths : d[p] # Absent}

Init ==
    /\ dir      = [p \in Paths |-> Absent]
    /\ window   = "off"
    /\ pw       = 0
    /\ todo     = {}
    /\ done     = {}
    /\ verified = FALSE
    /\ answer   = "none"
    /\ latest   = [f \in Name |-> 0]
    /\ cuts     = 0
    /\ torn     = FALSE
    /\ late     = 0

-----------------------------------------------------------------------------
(* filecrypt.                                                              *)

Encrypted(p) == <<p[1], p[2] + 1>>
Decrypted(p) == <<p[1], p[2] - 1>>

Seal(c, k) == [c EXCEPT !.keys = Append(@, k)]

(* What Decrypt can make of a content.  A file cut short is refused; with  *)
(* the wrong password it is refused, or comes out wrong.                   *)
Opens(c, k)   == c.keys # <<>> /\ Last(c.keys) = k
Refuses(c, k) == ~Opens(c, k)
Unseal(c, k)  == IF Opens(c, k) THEN [c EXCEPT !.keys = Front(@)] ELSE Junk

(* Mutant: an existing file stays (Overwrite: false).                      *)
Decrypt_Keeps(d, p, k) ==
    IF d[Decrypted(p)] # Absent THEN d
    ELSE [d EXCEPT ![Decrypted(p)] = Unseal(d[p], k)]

(* With Overwrite: true an existing file is replaced.                      *)
Encrypt(d, p, k) == [d EXCEPT ![Encrypted(p)] = Seal(d[p], k)]
Decrypt(d, p, k) == [d EXCEPT ![Decrypted(p)] = Unseal(d[p], k)]

-----------------------------------------------------------------------------
(* The windows.                                                            *)

Show(w) ==
    /\ window' = w
    /\ UNCHANGED <<pass, latest, cuts, torn, late>>

(* Mutant: an empty file is taken for a password.                          *)
GetUserPassword_Raw == dir[<<User, 0>>].value

(* GetUserPassword: what the file holds, "" when it is empty or missing.   *)
GetUserPassword ==
    IF dir[<<User, 0>>].value = Empty.value THEN 0 ELSE dir[<<User, 0>>].value

DoesUserPasswordExist ==
    \E n \in {0, 1} : dir[<<User, n>>] \notin {Absent, Empty}

Main ==
    /\ window = "off"
    /\ Show(IF DoesUserPasswordExist THEN "prompt" ELSE "setup")
    /\ UNCHANGED dir

(* showPasswordSetupWindow and SaveUserPassword.  os.WriteFile truncates,  *)
(* then writes.  The window is shown when there is no password, so the     *)
(* test for an existing one finds none.                                    *)
SaveUserPassword(p) ==
    /\ window = "setup"
    /\ GetUserPassword = 0
    /\ dir'    = [dir EXCEPT ![<<User, 0>>] = Empty]
    /\ pw'     = p
    /\ window' = "save"
    /\ UNCHANGED <<todo, done, verified, answer, latest, cuts, torn, late>>

(* The error of a write that fails is not looked at.                       *)
PasswordWritten ==
    /\ window = "save"
    /\ \/ /\ dir'    = [dir EXCEPT ![<<User, 0>>] = Bytes(pw)]
          /\ latest' = [latest EXCEPT ![User] = pw]
          /\ UNCHANGED cuts
       \/ /\ cuts < MaxCuts
          /\ cuts' = cuts + 1
          /\ UNCHANGED <<dir, latest>>
    /\ window' = "main"
    /\ UNCHANGED <<pass, torn, late>>

(* A window without the close handler of the main one is just closed.      *)
CloseWindow ==
    /\ window \in {"setup", "prompt"}
    /\ Show("off")
    /\ UNCHANGED dir

(* A command writes datamap.json, or makes or deletes a shard.             *)
Command(f) ==
    /\ f \in {"datamap.json", "shard"}
    /\ dir[<<f, 0>>] # Junk
    /\ latest[f] < MaxWrites
    /\ \E v \in {latest[f] + 1} \cup (IF f = "shard" THEN {0} ELSE {}) :
          /\ dir'    = [dir EXCEPT ![<<f, 0>>] = Bytes(v)]
          /\ latest' = [latest EXCEPT ![f] = v]

(* tryGetPassword makes a random password when it finds no password.txt.   *)
tryGetPassword ==
    /\ dir[<<"password.txt", 0>>] = Absent
    /\ latest["password.txt"] < MaxWrites
    /\ LET v == latest["password.txt"] + 1 IN
          /\ dir'    = [dir EXCEPT ![<<"password.txt", 0>>] = Bytes(v)]
          /\ latest' = [latest EXCEPT !["password.txt"] = v]

CommandWrites ==
    /\ \/ window = "main" /\ UNCHANGED late
       \/ window # "main" /\ late < MaxLate /\ late' = late + 1
    /\ tryGetPassword \/ \E f \in Name : Command(f)
    /\ UNCHANGED <<window, pass, cuts, torn>>

-----------------------------------------------------------------------------
(* EncryptAllFilesInPath, from the close handler of the main window.       *)

(* encryptFilesOnExit.                                                     *)
Close ==
    /\ window = "main"
    /\ pw' = GetUserPassword
    /\ \/ /\ GetUserPassword = 0
          /\ window' = "clean"
          /\ UNCHANGED <<todo, done>>
       \/ /\ GetUserPassword # 0
          /\ window' = "seal"
          /\ todo'   = There(dir)
          /\ done'   = {}
    /\ UNCHANGED <<dir, verified, answer, latest, cuts, torn, late>>

(* The paths that are treated once the first path of todo is.              *)
Treated == done \cup {First(todo)}

(* The pass moves on past the first path of todo; it goes over to the      *)
(* second one, w, which deletes the paths D, when there is no more.        *)
Visited(w, D) ==
    /\ done' = Treated
    /\ \/ /\ todo = {First(todo)}
          /\ window' = w
          /\ todo'   = D
       \/ /\ todo # {First(todo)}
          /\ todo'   = todo \ {First(todo)}
          /\ UNCHANGED window

(* First pass, every file there was when the Walk listed the directory,    *)
(* those that are encrypted already included.                              *)
EncryptFile ==
    /\ window = "seal" /\ todo # {}
    /\ LET p == First(todo) IN
          /\ dir[p] # Absent
          /\ p[2] < MaxSeals
          /\ dir' = Encrypt(dir, p, pw)
    /\ Visited("strip", Treated)
    /\ UNCHANGED <<pw, verified, answer, latest, cuts, torn, late>>

(* The file is gone, or cannot be read or written.                         *)
EncryptFails ==
    /\ window = "seal"
    /\ \/ /\ dir[First(todo)] = Absent
          /\ UNCHANGED cuts
       \/ /\ cuts < MaxCuts
          /\ cuts' = cuts + 1
    /\ torn'   = TRUE
    /\ window' = "clean"
    /\ UNCHANGED <<dir, pass, latest, late>>

(* A loop of os.Remove over todo, which goes over to w after the last one. *)
Delete(w) ==
    /\ todo # {}
    /\ dir[First(todo)] # Absent
    /\ dir'    = [dir EXCEPT ![First(todo)] = Absent]
    /\ todo'   = todo \ {First(todo)}
    /\ window' = IF todo' = {} THEN w ELSE window

RemoveOriginal ==
    /\ window = "strip"
    /\ Delete("clean")
    /\ UNCHANGED <<pw, done, verified, answer, latest, cuts, torn, late>>

(* cleanShardFolderOnExit, then the window is closed.                      *)
cleanShardFolderOnExit ==
    /\ window = "clean"
    /\ dir'    = [p \in Paths |-> IF p[1] = "shard" THEN Absent ELSE dir[p]]
    /\ latest' = [latest EXCEPT !["shard"] = 0]
    /\ window' = "off"
    /\ UNCHANGED <<pass, cuts, torn, late>>

-----------------------------------------------------------------------------
(* DecryptAllFilesInPath, from the prompt.                                 *)

(* The Walk comes to every path, and leaves those without the suffix.  If  *)
(* there is none with it, no password is ever verified.                    *)
Unlock(p) ==
    /\ window = "prompt"
    /\ pw'       = p
    /\ todo'     = {q \in There(dir) : q[2] > 0}
    /\ done'     = {}
    /\ verified' = FALSE
    /\ answer'   = IF todo' = {} THEN "wrong" ELSE "none"
    /\ window'   = IF todo' = {} THEN "prompt" ELSE "open"
    /\ UNCHANGED <<dir, latest, cuts, torn, late>>

(* Mutant: the password file is decrypted, and not looked at.              *)
Verified_Any(p, d) == verified \/ p[1] = User

(* The test of the password, once its file has been decrypted.             *)
Verified(p, d) ==
    verified \/ (p[1] = User /\ d[<<User, 0>>] = Bytes(pw))

(* First pass.                                                             *)
DecryptFile ==
    /\ window = "open" /\ todo # {}
    /\ LET p == First(todo)
           V == Verified(p, dir')
       IN /\ dir[p] \notin {Absent, Junk}
          /\ dir'      = Decrypt(dir, p, pw)
          /\ verified' = V
          /\ Visited(IF V THEN "unseal" ELSE "undo",
                     IF V THEN Treated
                     ELSE {Decrypted(q) : q \in Treated})
    /\ UNCHANGED <<pw, answer, latest, cuts, torn, late>>

(* An error before the end of DecryptAllFilesInPath: the window stays.     *)
Failed ==
    /\ window' = "prompt"
    /\ answer' = "error"
    /\ UNCHANGED <<pw, todo, done, verified, latest, late>>

(* Mutant: the Walk goes on to the next file.                              *)
DecryptFails_Skips ==
    /\ window = "open" /\ todo # {First(todo)}
    /\ cuts < MaxCuts /\ cuts' = cuts + 1
    /\ todo' = todo \ {First(todo)}
    /\ UNCHANGED <<dir, window, pw, done, verified, answer, latest, torn, late>>

DecryptFails ==
    /\ window = "open"
    /\ \/ Refuses(dir[First(todo)], pw) /\ UNCHANGED cuts
       \/ cuts < MaxCuts /\ cuts' = cuts + 1
    /\ Failed
    /\ UNCHANGED <<dir, torn>>

(* Mutant: the encrypted files are kept.                                   *)
RemoveEncrypted_Keeps ==
    /\ window = "unseal"
    /\ window' = "main"
    /\ answer' = "opened"
    /\ UNCHANGED <<dir, pw, todo, done, verified, latest, cuts, torn, late>>

RemoveEncrypted ==
    /\ window = "unseal"
    /\ Delete("main")
    /\ answer' = IF window' = "main" THEN "opened" ELSE answer
    /\ UNCHANGED <<pw, done, verified, latest, cuts, torn, late>>

RemoveDecrypted ==
    /\ window = "undo"
    /\ Delete("prompt")
    /\ answer' = IF window' = "prompt" THEN "wrong" ELSE answer
    /\ UNCHANGED <<pw, done, verified, latest, cuts, torn, late>>

(* os.Remove fails: with the file gone, or by itself.                      *)
RemoveFails ==
    /\ window \in {"strip", "unseal", "undo"}
    /\ \/ dir[First(todo)] = Absent /\ UNCHANGED cuts
       \/ cuts < MaxCuts /\ cuts' = cuts + 1
    /\ IF window = "strip"
         THEN /\ window' = "clean"
              /\ UNCHANGED <<pass, latest, late>>
         ELSE Failed
    /\ UNCHANGED <<dir, torn>>

-----------------------------------------------------------------------------

(* The GUI dies.  The file that Encrypt or Decrypt is writing may be left  *)
(* cut short.                                                              *)
Kill ==
    /\ window # "off"
    /\ cuts < MaxCuts
    /\ cuts'   = cuts + 1
    /\ window' = "off"
    /\ torn'   = (torn \/ window \in {"main", "seal"})
    /\ \/ UNCHANGED dir
       \/ /\ window = "seal"
          /\ First(todo)[2] < MaxSeals
          /\ dir' = [dir EXCEPT ![Encrypted(First(todo))] = Junk]
       \/ /\ window = "open"
          /\ dir[First(todo)] \notin {Absent, Junk}
          /\ dir' = [dir EXCEPT ![Decrypted(First(todo))] = Junk]
    /\ UNCHANGED <<pass, latest, late>>

Next ==
    \/ Main \/ CloseWindow \/ PasswordWritten \/ CommandWrites
    \/ \E p \in Passwords : SaveUserPassword(p) \/ Unlock(p)
    \/ Close \/ EncryptFile \/ EncryptFails \/ RemoveOriginal
    \/ cleanShardFolderOnExit
    \/ DecryptFile \/ DecryptFails \/ RemoveEncrypted \/ RemoveDecrypted
    \/ RemoveFails
    \/ Kill

Spec == Init /\ [][Next]_vars

-----------------------------------------------------------------------------
(* Properties.                                                             *)

Contents == [value : -2 .. MaxWrites, keys : Seq(Passwords)]
            \cup [value : Passwords, keys : Seq(Passwords)]

TypeOK ==
    /\ dir \in [Paths -> Contents]
    /\ window \in Windows
    /\ pw \in Passwords \cup {0}
    /\ todo \subseteq Paths
    /\ done \subseteq Paths
    /\ verified \in BOOLEAN
    /\ answer \in {"none", "opened", "wrong", "error"}
    /\ latest \in [Name -> Nat]
    /\ cuts \in 0 .. MaxCuts
    /\ torn \in BOOLEAN
    /\ late \in 0 .. MaxLate

(* The newest version of every file survives closings, openings, wrong     *)
(* passwords and deaths of the GUI in either pass of either direction: it  *)
(* is in the directory, under nothing but the user's own password.         *)
NothingLost ==
    late = 0 =>
        \A f \in Name \ {"shard"} :
            latest[f] # 0 =>
                \E n \in 0 .. MaxSeals :
                    /\ dir[<<f, n>>].value = latest[f]
                    /\ Range(dir[<<f, n>>].keys) \subseteq {latest[User]}

(* No file is encrypted twice.  The Walk of an encryption takes .fcef      *)
(* files like any other, and a second layer would hide user_password.txt   *)
(* from DoesUserPasswordExist, and be opened to the first layer only.      *)
SealedOnce ==
    \A f \in Name : dir[<<f, 2>>] = Absent

(* The GUI lets in who has the password, whatever died before, as long as  *)
(* it has never ended with a file that was not encrypted and system calls  *)
(* succeed.                                                                *)
RightPasswordOpens ==
    [][/\ answer \in {"none", "opened"}
       /\ answer' \in {"wrong", "error"}
       /\ pw' = latest[User]
       => torn \/ late > 0 \/ cuts' > cuts]_vars

(* An open window shows the newest version of every file.                  *)
OpenIsCurrent ==
    late = 0 /\ window = "main" =>
        \A f \in Name \ {User} : dir[<<f, 0>>] = Bytes(latest[f])

=============================================================================
