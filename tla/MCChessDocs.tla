---------------------------- MODULE MCChessDocs ----------------------------
(***************************************************************************)
(* What readme.txt and the comments of the chess server say of accounts,   *)
(* with a count of the passwords a client got wrong.                       *)
(***************************************************************************)
EXTENDS MCChessSession

\* Passwords in a row that a client got wrong.
VARIABLE wrong

Tried(c)  == session[c].request.op = "LOGIN_PASS" /\ session'[c].request.op = "none"
Missed(c) == Tried(c) /\ session'[c].reply # "LOGIN_SUCCESS"

CountWrong ==
  wrong' = [c \in Clients |-> IF Missed(c) /\ session'[c].state = "serving"
                              THEN wrong[c] + 1
                              ELSE IF Tried(c) \/ session'[c].state # "serving"
                              THEN 0 ELSE wrong[c]]

CountedSpec ==
  /\ Init /\ wrong = [c \in Clients |-> 0]
  /\ [][BoundedNext /\ CountWrong]_<<vars, wrong>>

(***************************************************************************)
(* readme.txt:5-6: a password may be wrong at most 5 times, and after 5    *)
(* times the server disconnects: at the fifth and not before, whatever     *)
(* choices, names and sign-ups `retry` counted in between.                 *)
(***************************************************************************)
BlockedAtTheLast ==
  [][\A c \in Clients :
       Missed(c) => (session'[c].state # "serving") = (wrong[c] + 1 = MAX_TRIES)
    ]_<<vars, wrong>>
=============================================================================
