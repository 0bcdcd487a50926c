-------------------------------- MODULE MCApi --------------------------------
(***************************************************************************)
(* The model-checked instance of Api.                                      *)
(***************************************************************************)
EXTENDS Api, TLC

LogoutLimit  == [k \in Key |-> 2]
LogoutPeriod == [k \in Key |-> 2]

Sym == Permutations(Request)
=============================================================================
