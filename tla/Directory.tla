------------------------------ MODULE Directory ------------------------------
(***************************************************************************)
(* What the accounts feature promises of its local table, as if sign_ups   *)
(* and sign_ins were served one at a time: a directory with one entry per  *)
(* identity and per address, whose entries nobody removes and the          *)
(* administrator alone suspends, and tokens that belong to an identity of  *)
(* the directory for good.                                                 *)
(***************************************************************************)
CONSTANTS AuthId, Email, Token, Nil

VARIABLES
  rows,   \* the entries
  holder  \* Token -> the identity it was handed to

vars == <<rows, holder>>

Entry == [sid: AuthId, email: Email, verified: BOOLEAN, active: BOOLEAN]

Init ==
  /\ rows = {}
  /\ holder = [t \in Token |-> Nil]

(* A person signs up: a new entry, active, under an address of its own.    *)
Enrol ==
  /\ \E x \in Entry :
       /\ \A y \in rows : y.sid # x.sid /\ y.email # x.email
       /\ x.active
       /\ rows' = rows \cup {x}
  /\ UNCHANGED holder

(* The entry follows the identity at Supabase: its address and whether it  *)
(* is verified.  It stays as active as it was.                             *)
Renew(x) ==
  /\ \E email \in Email, verified \in BOOLEAN :
       /\ \A y \in rows : y # x => y.email # email
       /\ rows' = (rows \ {x}) \cup {[x EXCEPT !.email = email, !.verified = verified]}
  /\ UNCHANGED holder

(* The administrator suspends an account or lets it in again.              *)
SetActive(x) ==
  /\ rows' = (rows \ {x}) \cup {[x EXCEPT !.active = ~x.active]}
  /\ UNCHANGED holder

(* A person signs in and is handed a token nobody has.                     *)
HandOut(t, x) ==
  /\ holder[t] = Nil
  /\ holder' = [holder EXCEPT ![t] = x.sid]
  /\ UNCHANGED rows

Next ==
  \/ Enrol
  \/ \E x \in rows : \/ Renew(x) \/ SetActive(x)
                      \/ \E t \in Token : HandOut(t, x)

Spec == Init /\ [][Next]_vars
=============================================================================
