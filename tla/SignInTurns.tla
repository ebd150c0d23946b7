----------------------------- MODULE SignInTurns -----------------------------
(***************************************************************************)
(* week5/ex1_server.c: one connection after the other, sessions looked up  *)
(* by the client's address.  A block is noted in the session only.         *)
(***************************************************************************)
EXTENDS SignIn

MAX_NUMBER_LOGIN == 3

newSession(u, c) == [user |-> u, status |-> "active", st |-> "named", fails |-> 0, addr |-> c]

\* Fault: whichever session there is
findSessByAnyAddr(c) == IF sess = <<>> THEN 0 ELSE 1

\* position in sess[], or 0
findSessByAddr(c) ==
  LET S == {i \in DOMAIN sess : sess[i].addr = c}
  IN IF S = {} THEN 0 ELSE CHOOSE i \in S : \A j \in S : i <= j

\* accept(), then readFileUser()
accept(c) ==
  /\ Runs("turns") /\ Open = {} /\ Connect(c)
  /\ users' = file
  /\ UNCHANGED <<program, up, file, sess, local, said, told, ghost>>

Talks(c) == Runs("turns") /\ conn[c] = "open"
Session(c, st) == LET pos == findSessByAddr(c) IN pos # 0 /\ sess[pos].st = st

\* process(), USER: a session of another user is left as it is
USER(c, u) ==
  LET pos == findSessByAddr(c)
  IN
  /\ Talks(c)
  /\ \/ u \notin Users /\ UNCHANGED sess /\ Reply(c, "USER", u, "01")
     \/ u \in Users /\ users[u] = "blocked" /\ UNCHANGED sess /\ Reply(c, "USER", u, "31")
     \/ /\ u \in Users /\ users[u] = "active" /\ Reply(c, "USER", u, "00")
        /\ sess' = IF pos = 0 THEN Append(sess, newSession(u, c))
                   ELSE IF sess[pos].user = u /\ sess[pos].status = "active"
                   THEN [sess EXCEPT ![pos].st = "named"] ELSE sess
  /\ UNCHANGED <<program, up, file, users, conn, local, ghost>>

\* process(), PASS
PASS(c, p) ==
  LET pos == findSessByAddr(c)
      s   == sess[pos]
      over == s.fails + 1 > MAX_NUMBER_LOGIN
  IN
  /\ Talks(c) /\ Session(c, "named")
  /\ \/ s.status = "blocked" /\ UNCHANGED sess /\ Reply(c, "PASS", p, "31")
     \/ /\ s.status # "blocked" /\ p = s.user
        /\ sess' = [sess EXCEPT ![pos].st = "in", ![pos].fails = 0]
        /\ Reply(c, "PASS", p, "10")
     \/ /\ s.status # "blocked" /\ p # s.user
        /\ sess' = [sess EXCEPT ![pos].fails = @ + 1,
                                ![pos].status = IF over THEN "blocked" ELSE @]
        /\ Reply(c, "PASS", p, IF over THEN "31" ELSE "11")
  /\ UNCHANGED <<program, up, file, users, conn, local, ghost>>

\* process(), LOUT
LOUT(c, u) ==
  LET pos == findSessByAddr(c)
  IN
  /\ Talks(c) /\ Session(c, "in")
  /\ \/ /\ sess[pos].user = u
        /\ sess' = [sess EXCEPT ![pos].st = "anon"] /\ Reply(c, "LOUT", u, "20")
     \/ sess[pos].user # u /\ UNCHANGED sess /\ Reply(c, "LOUT", u, "21")
  /\ UNCHANGED <<program, up, file, users, conn, local, ghost>>

\* process(), anything else: "Login Sequence Is Wrong"
OutOfSequence(c, op, arg) ==
  /\ Talks(c)
  /\ ~Session(c, [PASS |-> "named", LOUT |-> "in"][op])
  /\ Reply(c, op, arg, "sequence")
  /\ UNCHANGED <<program, up, file, users, sess, conn, local, ghost>>

\* recv() fails: on to the next connection
leave(c) ==
  /\ Talks(c) /\ Leaves(c)
  /\ UNCHANGED <<program, up, file, users, sess, local, said, ghost>>

Next ==
  \E c \in Conns :
    \/ accept(c) \/ leave(c)
    \/ \E u \in Users \cup {Stranger} : USER(c, u)
    \/ \E u \in Users : PASS(c, u) \/ LOUT(c, u)
    \/ \E u \in Users : OutOfSequence(c, "PASS", u) \/ OutOfSequence(c, "LOUT", u)
=============================================================================
