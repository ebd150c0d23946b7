----------------------------- MODULE Gatekeeper -----------------------------
(***************************************************************************)
(* What a server with accounts promises, whatever its sessions do at the   *)
(* same time and whoever else signs up: a name has one account, an account *)
(* never changes hands or password, and only somebody who gives the        *)
(* password of an account is inside, as that account, until he leaves.     *)
(***************************************************************************)
CONSTANTS Clients, None

VARIABLES accounts,  (* records with a username and a password              *)
          given,     (* the password each client is trying, or None         *)
          inside     (* the account each client is inside as, or None       *)

vars == <<accounts, given, inside>>

OneEach(A) == \A a, b \in A : a.username = b.username => a = b

Init ==
  /\ OneEach(accounts)
  /\ given  = [c \in Clients |-> None]
  /\ inside = [c \in Clients |-> None]

Open ==
  \E a \in accounts' :
    /\ accounts' = accounts \cup {a}
    /\ \A b \in accounts : b.username # a.username

Enter(c) ==
  \E a \in accounts :
    /\ inside[c] = None
    /\ given[c] = a.password
    /\ inside' = [inside EXCEPT ![c] = a]

Leave(c) == inside' = [inside EXCEPT ![c] = None]

\* Trying a password, or anything else, gets nobody in or out.
Next ==
  \/ Open /\ UNCHANGED inside
  \/ (\E c \in Clients : Enter(c) \/ Leave(c)) /\ UNCHANGED accounts
  \/ UNCHANGED <<accounts, inside>>

Spec == Init /\ [][Next]_vars
=============================================================================
