---------------------------- MODULE SignInThreads ----------------------------
(***************************************************************************)
(* week6/ex1_server.c: a thread for each connection, sessions looked up by *)
(* the number of the descriptor and never taken out of the table.  No lock *)
(* guards users[], sess[] or account.txt.                                  *)
(***************************************************************************)
EXTENDS SignIn

MAX_NUMBER_LOGIN == 3
Fds == 1..Cardinality(Conns)
FreeFds == Fds \ {local[c].fd : c \in Open}
Fd(c) == local[c].fd

\* Fault: the user is not stored
newSessionNoUser(u, c) ==
  [user |-> None, status |-> "active", st |-> "named", fails |-> 0, fd |-> Fd(c), fresh |-> TRUE]

\* The struct copy of users[i] kept in a session is compared byte by byte: after
\* users[] has been read again the bytes behind the strings may differ.
newSession(u, c) ==
  [user |-> u, status |-> "active", st |-> "named", fails |-> 0, fd |-> Fd(c), fresh |-> TRUE]

\* memcmp() of a session's user with users[i]
Same(s, u) == IF s.user # u \/ s.status # "active" THEN {FALSE}
              ELSE IF s.fresh THEN {TRUE} ELSE BOOLEAN

findUserById(u) == u \in Users /\ users[u] # "lost"

\* position in sess[], or 0
findSessByConnfd(c) ==
  LET S == {i \in DOMAIN sess : sess[i].fd = Fd(c)}
  IN IF S = {} THEN 0 ELSE CHOOSE i \in S : \A j \in S : i <= j

\* accept() and the fopen of the new thread, which reads the file into its buffer
accept(c) ==
  /\ Runs("threads") /\ Connect(c)
  /\ local' = [local EXCEPT ![c] =
       [fd |-> CHOOSE f \in FreeFds : \A g \in FreeFds : f <= g,
        step |-> "reading", buf |-> file]]
  /\ ghost' = [ghost EXCEPT !.cut = @ \/ file = Truncated]
  /\ UNCHANGED <<program, up, file, users, sess, said, told>>

\* Fault: the status is not read
readFileUserActive(c) ==
  /\ Runs("threads") /\ conn[c] = "open" /\ local[c].step = "reading"
  /\ users' = [u \in Users |-> "active"]
  /\ sess' = [i \in DOMAIN sess |-> [sess[i] EXCEPT !.fresh = FALSE]]
  /\ local' = [local EXCEPT ![c].step = "ready", ![c].buf = None]
  /\ UNCHANGED <<program, up, file, conn, said, told, ghost>>

\* readFileUser(): users[] from the buffer; from an empty file, one line of rubbish
readFileUser(c) ==
  /\ Runs("threads") /\ conn[c] = "open" /\ local[c].step = "reading"
  /\ users' = IF local[c].buf = Truncated THEN [users EXCEPT ![First] = "lost"]
              ELSE local[c].buf
  /\ sess' = [i \in DOMAIN sess |-> [sess[i] EXCEPT !.fresh = FALSE]]
  /\ local' = [local EXCEPT ![c].step = "ready", ![c].buf = None]
  /\ UNCHANGED <<program, up, file, conn, said, told, ghost>>

Ready(c) == Runs("threads") /\ conn[c] = "open" /\ local[c].step = "ready"

\* process(), USER: users[-1] is asked for its status before i is looked at
USER(c, u) ==
  LET pos == findSessByConnfd(c)
      Set(s) == sess' = [sess EXCEPT ![pos] = s]
  IN
  /\ Ready(c)
  /\ \/ ~findUserById(u) /\ UNCHANGED sess
        /\ \E code \in {"01", "31"} : Reply(c, "USER", u, code)
     \/ /\ findUserById(u) /\ users[u] = "blocked"
        /\ UNCHANGED sess /\ Reply(c, "USER", u, "31")
     \/ /\ findUserById(u) /\ users[u] = "active"
        /\ Reply(c, "USER", u, "00")
        /\ IF pos = 0
           THEN Len(sess) < MaxSessions[program] /\ sess' = Append(sess, newSession(u, c))
           ELSE \E same \in Same(sess[pos], u) :
                  IF same THEN Set([sess[pos] EXCEPT !.st = "named"])
                  ELSE IF sess[pos].st = "named"
                  THEN Set([sess[pos] EXCEPT !.user = u, !.status = "active", !.fresh = TRUE])
                  ELSE UNCHANGED sess
  /\ UNCHANGED <<program, up, file, users, conn, local, ghost>>

Named(c, st) == LET pos == findSessByConnfd(c) IN pos # 0 /\ sess[pos].st = st

\* process(), PASS.  A client that goes over the limit has its user blocked, and
\* the thread begins to write account.txt.
PASS(c, p) ==
  LET pos == findSessByConnfd(c)
      s   == sess[pos]
      over == s.fails + 1 > MAX_NUMBER_LOGIN
      readers == {d \in Open : local[d].step = "reading"}
  IN
  /\ Ready(c) /\ Named(c, "named")
  /\ \/ /\ s.status = "blocked" /\ Reply(c, "PASS", p, "31")
        /\ UNCHANGED <<sess, users, file, local, ghost>>
     \/ /\ s.status # "blocked" /\ p = s.user
        /\ sess' = [sess EXCEPT ![pos].st = "in", ![pos].fails = 0]
        /\ Reply(c, "PASS", p, "10")
        /\ UNCHANGED <<users, file, local, ghost>>
     \/ /\ s.status # "blocked" /\ p # s.user /\ ~over
        /\ sess' = [sess EXCEPT ![pos].fails = @ + 1]
        /\ Reply(c, "PASS", p, "11")
        /\ UNCHANGED <<users, file, local, ghost>>
     \/ /\ s.status # "blocked" /\ p # s.user /\ over
        /\ sess' = [sess EXCEPT ![pos].fails = @ + 1, ![pos].status = "blocked"]
        /\ users' = [users EXCEPT ![s.user] = IF @ = "lost" THEN @ ELSE "blocked"]
        /\ file' = Truncated
        /\ local' = [local EXCEPT ![c].step = "writing"]
        /\ ghost' = [ghost EXCEPT !.struck = @ \cup {s.user},
                       !.forgotten = @ \cup (IF readers = {} THEN {} ELSE {s.user})]
        /\ UNCHANGED <<said, told>>
  /\ UNCHANGED <<program, up, conn>>

\* writeUserToFile(): the rubbish of a lost first account may shift every line
writeUserToFile(c) ==
  /\ Runs("threads") /\ conn[c] = "open" /\ local[c].step = "writing"
  /\ file' \in IF users[First] = "lost" THEN {users, AllLost} ELSE {users}
  /\ local' = [local EXCEPT ![c].step = "ready"]
  /\ Reply(c, "PASS", None, "31")
  /\ UNCHANGED <<program, up, users, sess, conn, ghost>>

\* process(), LOUT: removeSession() copies the next session over this one and
\* leaves sessCount as it is; the last session stays.
LOUT(c, u) ==
  LET pos == findSessByConnfd(c)
  IN
  /\ Ready(c) /\ Named(c, "in")
  /\ \/ /\ sess[pos].user = u
        /\ sess' = IF pos < Len(sess) THEN [sess EXCEPT ![pos] = sess[pos + 1]] ELSE sess
        /\ Reply(c, "LOUT", u, "20")
     \/ sess[pos].user # u /\ UNCHANGED sess /\ Reply(c, "LOUT", u, "21")
  /\ UNCHANGED <<program, up, file, users, conn, local, ghost>>

\* process(), anything else: "Login Sequence Is Wrong"
OutOfSequence(c, op, arg) ==
  /\ Ready(c)
  /\ ~Named(c, [PASS |-> "named", LOUT |-> "in"][op])
  /\ Reply(c, op, arg, "sequence")
  /\ UNCHANGED <<program, up, file, users, sess, conn, local, ghost>>

\* recv() fails: the thread ends, its descriptor is free, its session stays
leave(c) ==
  /\ Ready(c) /\ Leaves(c)
  /\ local' = [local EXCEPT ![c] = None]
  /\ UNCHANGED <<program, up, file, users, sess, said, ghost>>

Next ==
  \E c \in Conns :
    \/ accept(c) \/ readFileUser(c) \/ writeUserToFile(c) \/ leave(c)
    \/ \E u \in Users \cup {Stranger} : USER(c, u)
    \/ \E u \in Users : PASS(c, u) \/ LOUT(c, u)
    \/ \E u \in Users : OutOfSequence(c, "PASS", u) \/ OutOfSequence(c, "LOUT", u)
=============================================================================
