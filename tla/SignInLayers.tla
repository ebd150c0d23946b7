---------------------------- MODULE SignInLayers ----------------------------
(***************************************************************************)
(* week6/ex2: one connection after the other; tcp_server.c accepts, app.c  *)
(* takes a request apart and words the reply, session.c decides, user.c    *)
(* keeps the accounts and writes account.txt when a client has left.       *)
(* week5/HAI_20141355_HW4/exercise1 is the same program in an earlier form. *)
(***************************************************************************)
EXTENDS SignIn

\* Fault: one too many
MAX_LOGIN_FAILED_1 == 6

MAX_LOGIN_FAILED == 5

NewSession == [user |-> None, st |-> "anon", failed |-> 0]

\* main(), accept: newSession()
newSession(c) ==
  /\ Runs("layers") /\ Open = {} /\ Connect(c)
  /\ sess' = Append(sess, NewSession)
  /\ UNCHANGED <<program, up, file, users, local, said, told, ghost>>

\* the session of the connection in hand: there is one at a time
ss == sess[1]
Talks(c) == Runs("layers") /\ conn[c] = "open"

\* loginUser(): is id let into the session?
loginUser(id) ==
  CASE ss.st # "anon" -> "existed"
    [] ss.st = "anon" /\ id \notin Users -> "not found"
    [] ss.st = "anon" /\ id \in Users /\ users[id] = "blocked" -> "blocked"
    [] OTHER -> "success"

\* runUSER(), and what a success of loginUser() leaves in the session
runUSER(c, id) ==
  LET status == loginUser(id)
  IN
  /\ Talks(c)
  /\ sess' = IF status = "success"
             THEN [sess EXCEPT ![1].user = id, ![1].st = "named"] ELSE sess
  /\ Reply(c, "USER", id, CASE status = "success" -> "00" [] status = "blocked" -> "31"
                            [] OTHER -> "01")
  /\ UNCHANGED <<program, up, file, users, conn, local, ghost>>

\* loginPass(): the session afterwards.  The user it blocks is blocked in memory until
\* the client leaves.
loginPass(pass) ==
  CASE ss.st # "named" -> [status |-> "not now", ss |-> ss]
    [] ss.st = "named" /\ pass = ss.user ->
         [status |-> "success", ss |-> [ss EXCEPT !.st = "in", !.failed = 0]]
    [] ss.st = "named" /\ pass # ss.user /\ ss.failed + 1 < MAX_LOGIN_FAILED ->
         [status |-> "wrong", ss |-> [ss EXCEPT !.failed = @ + 1]]
    [] OTHER -> [status |-> "blocked", ss |-> NewSession]

\* runPASS()
runPASS(c, pass) ==
  LET login == loginPass(pass)
      struck == IF login.status = "blocked" THEN {ss.user} ELSE {}
  IN
  /\ Talks(c)
  /\ sess' = [sess EXCEPT ![1] = login.ss]
  /\ users' = [u \in Users |-> IF u \in struck THEN "blocked" ELSE users[u]]
  /\ ghost' = [ghost EXCEPT !.struck = @ \cup struck, !.forgotten = @ \ struck]
  /\ Reply(c, "PASS", pass, CASE login.status = "success" -> "10"
                              [] login.status = "blocked" -> "31" [] OTHER -> "11")
  /\ UNCHANGED <<program, up, file, conn, local>>

\* logout(): the client's program asks for the password too
logout(id, pass) ==
  ss.st # "anon" /\ id = ss.user /\ (ss.st = "named" \/ pass = id)

\* runLOUT()
runLOUT(c, id, pass) ==
  /\ Talks(c)
  /\ IF logout(id, pass)
     THEN sess' = [sess EXCEPT ![1] = NewSession] /\ Reply(c, "LOUT", id, "20")
     ELSE UNCHANGED sess /\ Reply(c, "LOUT", id, "21")
  /\ UNCHANGED <<program, up, file, users, conn, local, ghost>>

\* Fault: an unknown word clears the session
makeCommandClears(c) ==
  /\ Talks(c)
  /\ sess' = [sess EXCEPT ![1] = NewSession]
  /\ Reply(c, "other", None, "41")
  /\ UNCHANGED <<program, up, file, users, conn, local, ghost>>

\* makeCommand() does not know the word: "41: Invalid command!"
makeCommand(c) ==
  /\ Talks(c)
  /\ Reply(c, "other", None, "41")
  /\ UNCHANGED <<program, up, file, users, sess, conn, local, ghost>>

\* recv() finds the connection closed.  removeSession() takes the session's address
\* for its number: as an int it is past the table, and the last session is
\* dropped, or negative, and the process is stopped before writeUser().
removeSession(c) ==
  /\ Talks(c) /\ Leaves(c)
  /\ sess' = <<>>
  /\ file' = users
  /\ UNCHANGED <<program, up, users, local, said, ghost>>
removeSessionStops(c) ==
  /\ Talks(c) /\ Exit
  /\ ghost' = [ghost EXCEPT !.forgotten =
       @ \cup {u \in ghost.struck : file[u] # "blocked"}]
  /\ UNCHANGED <<program, file>>

\* runCommand()
runCommand(c) ==
  \/ makeCommand(c)
  \/ \E u \in Users \cup {Stranger} : runUSER(c, u)
  \/ \E u \in Users : runPASS(c, u)
  \/ \E u, p \in Users : runLOUT(c, u, p)

Next == \E c \in Conns : newSession(c) \/ runCommand(c) \/ removeSession(c) \/ removeSessionStops(c)
=============================================================================
