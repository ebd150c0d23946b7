---------------------------- MODULE SignInShared ----------------------------
(***************************************************************************)
(* week6/ex22 (server.c, run.c, data.c): a thread for each connection, but *)
(* one global client address.  Every session is found by it, so that all   *)
(* connections act on the first.  A handler looks at the session and acts  *)
(* on it in two steps, and another thread's can come between.              *)
(***************************************************************************)
EXTENDS SignIn

MAX_LOGIN_FAILED == 5
NewSession == [user |-> None, st |-> "anon", failed |-> 0]
Idle == [op |-> "none", arg |-> None]

\* main(), accept: createSession()
createSession(c) ==
  /\ Runs("shared") /\ Connect(c)
  /\ sess' = Append(sess, NewSession)
  /\ local' = [local EXCEPT ![c] = Idle]
  /\ UNCHANGED <<program, up, file, users, said, told, ghost>>

\* findSessionByCliaddr(client): the first whose address is the global one
findSessionByCliaddr == sess[1]
Talks(c) == Runs("shared") /\ conn[c] = "open"
Checks(c, op, arg) == local' = [local EXCEPT ![c] = [op |-> op, arg |-> arg]]
Acts(c, op) == Talks(c) /\ local[c].op = op /\ local' = [local EXCEPT ![c] = Idle]

\* typeUser(): may the session take a user?
typeUserChecks(c, id) ==
  /\ Talks(c) /\ local[c] = Idle
  /\ IF findSessionByCliaddr.st # "anon"
     THEN Reply(c, "USER", id, "01") /\ UNCHANGED local
     ELSE Checks(c, "USER", id) /\ UNCHANGED <<said, told>>
  /\ UNCHANGED <<program, up, file, users, sess, conn, ghost>>

\* typeUser(): the account is looked up
typeUser(id) ==
  IF id \notin Users THEN "not found" ELSE IF users[id] = "blocked" THEN "blocked" ELSE "success"

\* runUSER(): the session gets the user that has been found
runUSER(c) ==
  LET id == local[c].arg
      status == typeUser(id)
  IN
  /\ Acts(c, "USER")
  /\ sess' = IF status = "success"
             THEN [sess EXCEPT ![1].user = id, ![1].st = "named"] ELSE sess
  /\ Reply(c, "USER", id, CASE status = "success" -> "00" [] status = "blocked" -> "31"
                            [] OTHER -> "01")
  /\ UNCHANGED <<program, up, file, users, conn, ghost>>

\* typePass(): is there a user without a password?
typePassChecks(c, pass) ==
  /\ Talks(c) /\ local[c] = Idle
  /\ IF findSessionByCliaddr.st # "named"
     THEN Reply(c, "PASS", pass, "11") /\ UNCHANGED local
     ELSE Checks(c, "PASS", pass) /\ UNCHANGED <<said, told>>
  /\ UNCHANGED <<program, up, file, users, sess, conn, ghost>>

\* typePass(): the session afterwards
typePass(ss, pass) ==
  CASE pass = ss.user -> [status |-> "success", ss |-> [ss EXCEPT !.st = "in", !.failed = 0]]
    [] pass # ss.user /\ ss.failed + 1 < MAX_LOGIN_FAILED ->
         [status |-> "wrong", ss |-> [ss EXCEPT !.failed = @ + 1]]
    [] OTHER -> [status |-> "blocked", ss |-> NewSession]

\* runPASS(): sess->user->pass is read; sess->user may have become NULL
runPASS(c) ==
  LET ss    == findSessionByCliaddr
      login == typePass(ss, local[c].arg)
      struck == IF login.status = "blocked" THEN {ss.user} ELSE {}
  IN
  /\ Acts(c, "PASS") /\ ss.user # None
  /\ sess' = [sess EXCEPT ![1] = login.ss]
  /\ users' = [u \in Users |-> IF u \in struck THEN "blocked" ELSE users[u]]
  /\ ghost' = [ghost EXCEPT !.struck = @ \cup struck, !.forgotten = @ \ struck]
  /\ Reply(c, "PASS", local[c].arg, CASE login.status = "success" -> "10"
                                      [] login.status = "blocked" -> "31" [] OTHER -> "11")
  /\ UNCHANGED <<program, up, file, conn>>

\* logOut()
logOut(ss, id, pass) ==
  ss.st # "anon" /\ id = ss.user /\ (ss.st = "named" \/ pass = id)

\* runLOUT()
runLOUT(c, id, pass) ==
  /\ Talks(c) /\ local[c] = Idle
  /\ IF logOut(findSessionByCliaddr, id, pass)
     THEN sess' = [sess EXCEPT ![1] = NewSession] /\ Reply(c, "LOUT", id, "20")
     ELSE UNCHANGED sess /\ Reply(c, "LOUT", id, "21")
  /\ UNCHANGED <<program, up, file, users, conn, local, ghost>>

\* the client leaves; its thread goes on calling recv() and send()
leave(c) ==
  /\ Talks(c) /\ local[c] = Idle /\ Leaves(c)
  /\ UNCHANGED <<program, up, file, users, sess, local, said, ghost>>

\* The process is stopped: by a send() to a client that has left, or because
\* typePass() has followed a NULL.  account.txt has never been written.
Stopped ==
  /\ Runs("shared")
  /\ \/ \E c \in Conns : conn[c] = "closed" /\ local[c] # None
     \/ \E c \in Open : local[c].op = "PASS" /\ findSessionByCliaddr.user = None
  /\ Exit
  /\ ghost' = [ghost EXCEPT !.forgotten = ghost.struck]
  /\ UNCHANGED <<program, file>>

Next ==
  \/ Stopped
  \/ \E c \in Conns :
       \/ createSession(c) \/ runUSER(c) \/ runPASS(c) \/ leave(c)
       \/ \E u \in Users \cup {Stranger} : typeUserChecks(c, u)
       \/ \E u \in Users : typePassChecks(c, u)
       \/ \E u, p \in Users : runLOUT(c, u, p)
=============================================================================
