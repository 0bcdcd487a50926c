----------------------------- MODULE MCAccounts -----------------------------
(***************************************************************************)
(* The calls of the model-checked instances of Accounts.                   *)
(***************************************************************************)
EXTENDS Accounts, TLC

SignCalls == [op : {"sign_up", "sign_in", "resend"}, email : Email]

SessionCalls == [op : {"sign_up", "sign_in"}, email : Email] \cup [op : {"sign_out"}]

Sym == Permutations(Request) \cup Permutations(AuthId) \cup Permutations(Email)
=============================================================================
