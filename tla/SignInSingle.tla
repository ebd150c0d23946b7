---------------------------- MODULE SignInSingle ----------------------------
(***************************************************************************)
(* week5/Untitled Folder/server.c: one connection after the other, the     *)
(* accounts read once, wrong passwords not counted.  n, count and the      *)
(* sessions of earlier clients stay in force for the next.                 *)
(***************************************************************************)
EXTENDS SignIn

Blank == [user |-> None, in |-> FALSE]     \* a slot sess_len was counted over
\* main()'s count, kept for every connection, and n, set once a name is found
count == local[CHOOSE c \in Conns : TRUE]
n     == count # None

accept(c) ==
  /\ Runs("single") /\ Open = {} /\ Connect(c)
  /\ UNCHANGED <<program, up, file, users, sess, local, said, told, ghost>>

Talks(c) == Runs("single") /\ conn[c] = "open"

\* main(), USER: a session more for every name that is found
USER(c, u) ==
  LET Found == local' = [d \in Conns |-> u]
  IN
  /\ Talks(c)
  /\ \/ /\ u \notin Users /\ UNCHANGED <<sess, local>>
        /\ \/ ~n /\ Reply(c, "USER", u, "01") /\ UNCHANGED conn
           \/ Hangs(c)
     \/ /\ u \in Users /\ users[u] = "blocked"
        /\ Found /\ Reply(c, "USER", u, "31") /\ UNCHANGED <<sess, conn>>
     \/ /\ u \in Users /\ users[u] = "active" /\ Len(sess) < MaxSessions[program]
        /\ Found /\ Reply(c, "USER", u, "00") /\ UNCHANGED conn
        /\ sess' = Append(sess, [user |-> u, in |-> FALSE])
  /\ UNCHANGED <<program, up, file, users, ghost>>

\* main(), PASS: users[count], be it this client's or not, or not set at all; the
\* last session is the one that comes in
PASS(c, p) ==
  LET last == Len(sess)
  IN
  /\ Talks(c)
  /\ \E k \in IF n THEN {count} ELSE Users \cup {None} :
       \/ p = k /\ users[k] = "blocked" /\ UNCHANGED sess /\ Reply(c, "PASS", p, "31")
       \/ /\ p = k /\ users[k] = "active" /\ Reply(c, "PASS", p, "10")
          /\ sess' = IF last = 0 THEN sess ELSE [sess EXCEPT ![last].in = TRUE]
       \/ p # k /\ UNCHANGED sess /\ Reply(c, "PASS", p, "11")
  /\ UNCHANGED <<program, up, file, users, conn, local, ghost>>

\* main(), LOUT: anybody's session of that name will do; none is taken out
LOUT(c, u) ==
  /\ Talks(c) /\ Len(sess) < MaxSessions[program]
  /\ IF [user |-> u, in |-> TRUE] \in {sess[i] : i \in DOMAIN sess}
     THEN sess' = Append(sess, Blank) /\ Says(c, "LOUT", u, "20") /\ Leaves(c)
     ELSE Reply(c, "LOUT", u, "21") /\ UNCHANGED <<sess, conn>>
  /\ UNCHANGED <<program, up, file, users, local, ghost>>

\* recv() finds the connection closed: exit(1)
quit(c) ==
  /\ Runs("single") /\ conn[c] \in {"open", "hung"}
  /\ Exit
  /\ UNCHANGED <<program, file, ghost>>

Next ==
  \E c \in Conns :
    \/ accept(c) \/ quit(c)
    \/ \E u \in Users \cup {Stranger} : USER(c, u)
    \/ \E u \in Users : PASS(c, u) \/ LOUT(c, u)
=============================================================================
