----------------------------- MODULE SignInSlots -----------------------------
(***************************************************************************)
(* week6/duc/server.c: a thread for each connection.  The session of a     *)
(* request is the last of the table at that moment, whoever it was made    *)
(* for, and a client that leaves ends the process.                         *)
(***************************************************************************)
EXTENDS SignIn

newSession == [user |-> None, st |-> "anon"]
addSession(u) == [user |-> u, st |-> "named"]
WrongAllowed == 3

\* the connections whose thread is at a step
At(step) == {c \in Conns : conn[c] = "open" /\ local[c].step = step}

\* the accounts a reader of the file finds
Lines(f) == {u \in Users : f[u] \in {"active", "blocked"}}

\* main(): sess_len is counted up before the session is written and again after
\* the thread is made
accept(c) ==
  /\ Runs("slots") /\ Connect(c) /\ Len(sess) % 2 = 0
  /\ sess' = Append(sess, newSession)
  /\ local' = [local EXCEPT ![c] =
       [step |-> "reading", buf |-> file, known |-> {}, slot |-> 0,
        count |-> None, n |-> FALSE, wrong |-> 0]]
  /\ ghost' = [ghost EXCEPT !.cut = @ \/ file = Truncated]
  /\ UNCHANGED <<program, up, file, users, said, told>>

pthread_created ==
  /\ Runs("slots") /\ Len(sess) % 2 = 1
  /\ sess' = Append(sess, newSession)
  /\ UNCHANGED <<program, up, file, users, conn, local, said, told, ghost>>

\* readFile(): users_len is this thread's, users[] is everybody's
readFile(c) ==
  LET known == Lines(local[c].buf)
  IN
  /\ Runs("slots") /\ c \in At("reading")
  /\ users' = [u \in Users |-> IF u \in known THEN local[c].buf[u] ELSE users[u]]
  /\ local' = [local EXCEPT ![c].step = "ready", ![c].buf = None, ![c].known = known]
  /\ UNCHANGED <<program, up, file, sess, conn, said, told, ghost>>

Ready(c) == Runs("slots") /\ c \in At("ready")

\* send(), then close()
Dismiss(c, op, arg, code) ==
  Says(c, op, arg, code) /\ Leaves(c) /\ local' = [local EXCEPT ![c] = None]

\* handle(), USER.  n is set by the first name that is found and never reset: a
\* name that is not found after that is not answered.
USER(c, u) ==
  LET last == Len(sess)
      found == u \in local[c].known
      Found(changes) == local' = [local EXCEPT ![c] = [changes EXCEPT !.slot = last, !.n = TRUE]]
  IN
  /\ Ready(c)
  /\ \/ /\ ~found
        /\ \/ /\ ~local[c].n /\ Reply(c, "USER", u, "01")
              /\ local' = [local EXCEPT ![c].slot = last] /\ UNCHANGED conn
           \/ Hangs(c) /\ local' = [local EXCEPT ![c] = None]
        /\ UNCHANGED sess
     \/ /\ found /\ sess[last].st # "anon"
        /\ Found(local[c]) /\ Reply(c, "USER", u, "12") /\ UNCHANGED <<sess, conn>>
     \/ /\ found /\ sess[last].st = "anon" /\ users[u] = "blocked"
        /\ Dismiss(c, "USER", u, "31") /\ UNCHANGED sess
     \/ /\ found /\ sess[last].st = "anon" /\ users[u] = "active"
        /\ Found([local[c] EXCEPT !.count = u])
        /\ sess' = [sess EXCEPT ![last] = addSession(u)]
        /\ Reply(c, "USER", u, "00") /\ UNCHANGED conn
  /\ UNCHANGED <<program, up, file, users, ghost>>

\* handle(), PASS: the password of users[count], whatever is in count; neither the
\* account's status nor the session's is looked at.
PASS(c, p) ==
  LET slot == local[c].slot
      wrong == local[c].wrong + 1
      readers == At("reading")
  IN
  /\ Ready(c)
  /\ IF slot = 0
     THEN Reply(c, "PASS", p, "01") /\ UNCHANGED <<file, users, sess, local, ghost>>
     ELSE \E k \in IF local[c].count = None THEN Users \cup {None} ELSE {local[c].count} :
       \/ /\ p = k
          /\ sess' = [sess EXCEPT ![slot].st = "in"]
          /\ Reply(c, "PASS", p, "10")
          /\ UNCHANGED <<file, users, local, ghost>>
       \/ /\ p # k /\ wrong < WrongAllowed
          /\ local' = [local EXCEPT ![c].wrong = wrong]
          /\ Reply(c, "PASS", p, "11")
          /\ UNCHANGED <<file, users, sess, ghost>>
       \/ /\ p # k /\ wrong >= WrongAllowed
          /\ local' = [local EXCEPT ![c].wrong = wrong, ![c].step = "writing"]
          /\ users' = [u \in Users |-> IF u = k THEN "blocked" ELSE users[u]]
          /\ file' = Truncated
          /\ ghost' = [ghost EXCEPT !.struck = @ \cup ({k} \ {None}),
               !.forgotten = IF readers = {} THEN @ \ {k} ELSE @ \cup ({k} \ {None})]
          /\ UNCHANGED <<sess, said, told>>
  /\ UNCHANGED <<program, up, conn>>

\* Fault: the loop begins at 1
WrittenFromOne(lines) ==
  [u \in Users |-> IF u \in lines \ {First} THEN users[u] ELSE "lost"]

\* the lines of account.txt that are written
Written(lines) == [u \in Users |-> IF u \in lines THEN users[u] ELSE "lost"]

\* writeFile(), the reply and the close()
writeFile(c) ==
  /\ Runs("slots") /\ c \in At("writing")
  /\ file' = Written(local[c].known)
  /\ Dismiss(c, "PASS", None, "31")
  /\ UNCHANGED <<program, up, users, sess, ghost>>

\* handle(), LOUT: the session stays in its slot
LOUT(c, u) ==
  LET slot == local[c].slot
  IN
  /\ Ready(c)
  /\ IF slot # 0 /\ sess[slot] = [user |-> u, st |-> "in"]
     THEN Dismiss(c, "LOUT", u, "20")
     ELSE Reply(c, "LOUT", u, "21") /\ UNCHANGED <<conn, local>>
  /\ UNCHANGED <<program, up, file, users, sess, ghost>>

\* recv() finds the connection closed: exit(1), in the middle of another thread's
\* writeFile() too, of which the first lines are kept
quit(c) ==
  LET writers == At("writing")
  IN
  /\ Runs("slots") /\ (conn[c] = "hung" \/ Ready(c))
  /\ Exit
  /\ IF writers = {} THEN UNCHANGED <<file, ghost>>
     ELSE /\ \E d \in writers : \E kept \in SUBSET local[d].known :
               (kept # {} => First \in kept) /\ file' = Written(kept)
          /\ ghost' = [ghost EXCEPT !.cut = TRUE]
  /\ UNCHANGED program

Next ==
  \/ pthread_created
  \/ \E c \in Conns :
       \/ accept(c) \/ readFile(c) \/ writeFile(c) \/ quit(c)
       \/ \E u \in Users \cup {Stranger} : USER(c, u)
       \/ \E u \in Users : PASS(c, u) \/ LOUT(c, u)
=============================================================================
