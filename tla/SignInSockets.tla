---------------------------- MODULE SignInSockets ----------------------------
(***************************************************************************)
(* week6/ex2_fix (server.c, run.c, data.c): a thread for each connection,  *)
(* which makes a session of its own and finds it by its descriptor.  No    *)
(* lock guards session[] and session_count: two threads may make their     *)
(* sessions in the same place, and all but one of them have none then.     *)
(* A thread never ends, and account.txt is never written.                  *)
(***************************************************************************)
EXTENDS SignIn, SequencesExt

MAX_LOGIN_FAILED == 5
NewSession(c) == [user |-> None, st |-> "anon", failed |-> 0, sock |-> c, counted |-> FALSE]

\* the places of session[] that session_count covers
session_count == Cardinality({i \in DOMAIN sess : sess[i].counted})

\* main(), accept(); echo() begins
accept(c) ==
  /\ Runs("sockets") /\ Connect(c)
  /\ local' = [local EXCEPT ![c] = [step |-> "looking", place |-> 0]]
  /\ UNCHANGED <<program, up, file, users, sess, said, told, ghost>>

At(c, step) == Runs("sockets") /\ conn[c] = "open" /\ local[c].step = step

\* createSession(): the place is looked up, the session is written there, and counted
looks(c) ==
  /\ At(c, "looking")
  /\ local' = [local EXCEPT ![c] = [step |-> "writing", place |-> session_count + 1]]
  /\ UNCHANGED <<program, up, file, users, sess, conn, said, told, ghost>>
createSession(c) ==
  LET place == local[c].place
      owner == IF place > Len(sess) THEN {} ELSE {sess[place].sock}
  IN
  /\ At(c, "writing")
  /\ sess' = IF owner = {} THEN Append(sess, NewSession(c))
             ELSE [sess EXCEPT ![place] = [NewSession(c) EXCEPT !.counted = sess[place].counted]]
  /\ local' = [local EXCEPT ![c].step = "counting"]
  /\ ghost' = [ghost EXCEPT !.robbed = @ \cup owner]
  /\ UNCHANGED <<program, up, file, users, conn, said, told>>
counts(c) ==
  /\ At(c, "counting")
  /\ sess' = [sess EXCEPT ![local[c].place].counted = TRUE]
  /\ local' = [local EXCEPT ![c].step = "ready"]
  /\ UNCHANGED <<program, up, file, users, conn, said, told, ghost>>

\* its place in session[], or 0
findSessionBySock(c) == SelectInSeq(sess, LAMBDA s : s.counted /\ s.sock = c)

Session(c) == LET i == findSessionBySock(c)
              IN IF i = 0 THEN [user |-> None, st |-> "none", failed |-> 0] ELSE sess[i]
\* what a handler leaves in the session
Becomes(c, s) ==
  LET i == findSessionBySock(c)
  IN sess' = IF i = 0 THEN sess ELSE [sess EXCEPT ![i].user = s.user, ![i].st = s.st,
                                                  ![i].failed = s.failed]
Anonymous == [user |-> None, st |-> "anon", failed |-> 0]

\* typeUser()
typeUser(ss, id) ==
  CASE ss.st # "anon" -> "no place"
    [] ss.st = "anon" /\ id \notin Users -> "not found"
    [] ss.st = "anon" /\ id \in Users /\ users[id] = "blocked" -> "blocked"
    [] OTHER -> "success"

\* runUSER()
runUSER(c, id) ==
  LET status == typeUser(Session(c), id)
  IN
  /\ At(c, "ready")
  /\ Becomes(c, IF status = "success" THEN [Session(c) EXCEPT !.user = id, !.st = "named"]
                ELSE Session(c))
  /\ Reply(c, "USER", id, CASE status = "success" -> "00" [] status = "blocked" -> "31"
                            [] OTHER -> "01")
  /\ UNCHANGED <<program, up, file, users, conn, local, ghost>>

\* typePass(): the session afterwards.  Whether the user has been blocked since it was
\* named is not asked.
typePass(ss, pass) ==
  CASE ss.st # "named" -> [status |-> "not now", ss |-> ss]
    [] ss.st = "named" /\ pass = ss.user ->
         [status |-> "success", ss |-> [ss EXCEPT !.st = "in", !.failed = 0]]
    [] ss.st = "named" /\ pass # ss.user /\ ss.failed + 1 < MAX_LOGIN_FAILED ->
         [status |-> "wrong", ss |-> [ss EXCEPT !.failed = @ + 1]]
    [] OTHER -> [status |-> "blocked", ss |-> Anonymous]

\* runPASS()
runPASS(c, pass) ==
  LET login  == typePass(Session(c), pass)
      struck == IF login.status = "blocked" THEN {Session(c).user} ELSE {}
  IN
  /\ At(c, "ready")
  /\ Becomes(c, login.ss)
  /\ users' = [u \in Users |-> IF u \in struck THEN "blocked" ELSE users[u]]
  /\ ghost' = [ghost EXCEPT !.struck = @ \cup struck, !.forgotten = @ \ struck]
  /\ Reply(c, "PASS", pass, CASE login.status = "success" -> "10"
                              [] login.status = "blocked" -> "31" [] OTHER -> "11")
  /\ UNCHANGED <<program, up, file, conn, local>>

\* logOut()
logOut(ss, id, pass) ==
  ss.st \in {"named", "in"} /\ id = ss.user /\ (ss.st = "named" \/ pass = id)

\* runLOUT()
runLOUT(c, id, pass) ==
  /\ At(c, "ready")
  /\ IF logOut(Session(c), id, pass)
     THEN Becomes(c, Anonymous) /\ Reply(c, "LOUT", id, "20")
     ELSE UNCHANGED sess /\ Reply(c, "LOUT", id, "21")
  /\ UNCHANGED <<program, up, file, users, conn, local, ghost>>

\* echo(): the client leaves, and its thread goes on with recv() and send(), which in
\* the end stops the process.  What it has blocked is forgotten.
leave(c) ==
  /\ At(c, "ready") /\ Leaves(c)
  /\ UNCHANGED <<program, up, file, users, sess, local, said, ghost>>
echo(c) ==
  /\ Runs("sockets") /\ conn[c] = "closed" /\ local[c] # None
  /\ Exit
  /\ ghost' = [ghost EXCEPT !.forgotten = ghost.struck]
  /\ UNCHANGED <<program, file>>

Next ==
  \E c \in Conns :
    \/ accept(c) \/ looks(c) \/ createSession(c) \/ counts(c) \/ leave(c) \/ echo(c)
    \/ \E u \in Users \cup {Stranger} : runUSER(c, u)
    \/ \E u \in Users : runPASS(c, u)
    \/ \E u, p \in Users : runLOUT(c, u, p)
=============================================================================
