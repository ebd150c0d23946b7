--------------------------- MODULE MCChessSession ---------------------------
(***************************************************************************)
(* Instances of ChessSession for TLC.                                      *)
(***************************************************************************)
EXTENDS ChessSession, FiniteSets, TLC

\* "a(bcdef" comes back as "a", which somebody might type; "(bcdef" does not
\* come back at all.
MCKept == [p \in Passwords |-> CASE p = "a(bcdef" -> "a"
                                 [] p = "(bcdef"  -> Empty
                                 [] OTHER         -> p]

NoLines == <<>>
OneLine == <<[username |-> "hai", password |-> "secret"]>>

\* Clients are interchangeable.
Symmetry == Permutations(Clients)

\* Bound: nobody starts to sign up when the file might get more lines.
CONSTANT MaxLines

SigningUp ==
  {c \in Clients : ChoosingPassword(c) \/ session[c].request.op = "SIGNUP_USER"}

BoundedNext == Next /\ (Len(database) + Cardinality(SigningUp) <= MaxLines)'
BoundedSpec == Init /\ [][BoundedNext]_vars
=============================================================================
