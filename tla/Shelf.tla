-------------------------------- MODULE Shelf --------------------------------
(***************************************************************************)
(* What the distributed store promises, without shards, remotes or the     *)
(* datamap: a file is on the shelf, as some upload put it there, or it is  *)
(* not.  Each command takes effect in one step or has no effect, whatever  *)
(* dies in the middle of it.                                               *)
(***************************************************************************)
EXTENDS Naturals

CONSTANTS
    Files,
    Uploads    \* numbers of uploads, from 1

VARIABLES
    shelf,   \* shelf[f]: the upload of f that counts, 0 when there is none
    out      \* out[f]: what was delivered last, 0 when nothing was

Init ==
    /\ shelf = [f \in Files |-> 0]
    /\ out   = [f \in Files |-> 0]

(* An upload takes effect.  The name is free (an upload of a name that is  *)
(* in use removes it first), and no upload counts twice.                   *)
PutOn(f) ==
    /\ shelf[f] = 0
    /\ \E e \in Uploads :
          /\ \A g \in Files : e \notin {shelf[g], out[g]}
          /\ shelf' = [shelf EXCEPT ![f] = e]
    /\ UNCHANGED out

(* A removal takes effect.                                                 *)
TakeOff(f) ==
    /\ shelf[f] # 0
    /\ shelf' = [shelf EXCEPT ![f] = 0]
    /\ UNCHANGED out

(* A download restores what is on the shelf, and nothing else.             *)
Deliver(f) ==
    /\ shelf[f] # 0
    /\ out' = [out EXCEPT ![f] = shelf[f]]
    /\ UNCHANGED shelf

Next == \E f \in Files : PutOn(f) \/ TakeOff(f) \/ Deliver(f)

Spec == Init /\ [][Next]_<<shelf, out>>

=============================================================================
