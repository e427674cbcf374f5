------------------------------- MODULE MCVault -------------------------------
(***************************************************************************)
(* Vault for TLC, and what a comment of dis_password.go says of it.        *)
(***************************************************************************)
EXTENDS Vault

(* dis_password.go:235: "If password was incorrect: delete wrongly         *)
(* decrypted files".  That branch, which tells the user that the password  *)
(* verification failed, is for incorrect passwords.                        *)
RefusedMeansIncorrect ==
    answer = "wrong" => pw # latest[User]

===============================================================================
