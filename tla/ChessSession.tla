---------------------------- MODULE ChessSession ----------------------------
(***************************************************************************)
(* The sessions of the chess server (src/project/folk_server.c and the     *)
(* headers it includes) with its client (tcp_client.c).                    *)
(*                                                                         *)
(* The server forks a child per connection.  Client and child take turns:  *)
(* the child answers each request with one reply, and the reply decides    *)
(* what the client asks next (check_buff).  The child itself accepts any   *)
(* request at any time: every test of its status is commented out.  What   *)
(* the children share is the account file password.txt.                    *)
(*                                                                         *)
(* An action is one turn: a handler of the child, which looks into the     *)
(* file at most once or appends one line to it, or an answer of the        *)
(* client's user.  The board is left out: Check_Run gives any verdict.     *)
(*                                                                         *)
(* A message is its first word and, for a request, what the user typed;    *)
(* Empty stands for typing nothing, after which the child's strtok finds   *)
(* no second word.  Typed names and passwords have no '|' and no tab, fit  *)
(* into a line of the file, and no name is the rest of a cut password.     *)
(***************************************************************************)
EXTENDS Naturals, Sequences

CONSTANTS
  Clients,         (* connections the server may have at a time             *)
  Names,           (* user names somebody types                             *)
  Passwords,       (* passwords somebody types                              *)
  Short,           (* those of fewer than six characters                    *)
  Kept,            (* what of a password comes back from the file           *)
  InitialDatabase, (* password.txt when the server starts                   *)
  MAX_TRIES,       (* 5: wrong inputs in a row                              *)
  MAX_FILES,       (* files a process can have open                         *)
  Blank,           (* the user record's " ", or "" in a fresh child         *)
  Garbage,         (* what an uninitialised string holds                    *)
  Empty,           (* typed nothing; no password in a line                  *)
  None             (* no message                                            *)

\* A user record, and a line of the file (where Empty is no password).
Records == [username : Names \cup {Garbage, Blank},
            password : Passwords \cup {Garbage, Blank, Empty}]

Replies == {"HELLO", "SELECT_ERROR", "READY_LOGIN", "LOGIN_USER_NOT_EXIST",
            "LOGIN_USER_ID_OK", "PASS_NOT_MATCH", "READY_SIGNUP",
            "USER_ID_NOT_INVALID", "SIGNUP_USER_ID_OK", "PASS_SHORT",
            "CONFIRM_PASS", "CONFIRM_NOT_MATCH", "SIGNUP_USER_SUCCESS",
            "LOGOUT_SUCCESS"}

\* What the child says once the password was right.
InsideReplies == {"LOGIN_SUCCESS", "READY_GAME", "COLOR_OK", "RUN", "RUN_W",
                  "RUN_ERROR", "YOU_WIN", "COMPUTER_WIN", "FILE_LOG",
                  "EXIT_FILE_LOG"}

(***************************************************************************)
(* encode() subtracts 30 from every character, so that '(' becomes the end *)
(* of a line: Find_User reads back what stands before it, or nothing.      *)
(***************************************************************************)
ASSUME InputAssumption ==
  /\ Short \subseteq Passwords
  /\ Kept \in [Passwords -> Passwords \cup {Empty}]
  /\ Names \cap {Garbage, Blank, Empty} = {}
  /\ Passwords \cap {Garbage, Blank, Empty} = {}
  /\ None \notin Records \cup Replies \cup InsideReplies
  /\ None \notin Passwords \cup {Garbage, Blank, Empty}

ASSUME FileAssumption == InitialDatabase \in Seq(Records)

ASSUME LimitAssumption == MAX_TRIES \in Nat \ {0} /\ MAX_FILES \in Nat

VARIABLES
  session,   (* each connection: child, client and the message between them *)
  database   (* the lines of password.txt                                   *)

vars == <<session, database>>

NoRequest == [op |-> "none", arg |-> None]

\* A child's user is the global `user`, opened the files it never closes.
NoSession == [state |-> "none", reply |-> None, request |-> NoRequest,
              user |-> [username |-> Blank, password |-> Blank],
              retry |-> 0, opened |-> 0]

Init ==
  /\ session  = [c \in Clients |-> NoSession]
  /\ database = InitialDatabase

-----------------------------------------------------------------------------
(***************************************************************************)
(* The account file.                                                       *)
(***************************************************************************)

\* Line i is the first one that names n.
IsFirst(i, n) ==
  /\ i \in DOMAIN database
  /\ database[i].username = n
  /\ \A j \in 1..(i - 1) : database[j].username # n

\* fopen gives NULL when the process has too many files open.
Readable(c) == session[c].opened < MAX_FILES

\* Fault: the search goes on after the first line of the name.
FoundAnywhere(c, n, i) ==
  Readable(c) /\ database[i].username = n /\ database[i].password # Empty

\* Find_User returns 1: it leaves the file open and has copied line i.
Found(c, n, i) ==
  Readable(c) /\ IsFirst(i, n) /\ database[i].password # Empty

\* Find_User returns 0.  The file cannot be opened, or has no such name.
NotFound(c, n) ==
  \/ ~Readable(c)
  \/ \A i \in DOMAIN database : database[i].username # n

\* Find_User calls decode(NULL) for a line without a password.
FindCrashes(c, n) ==
  Readable(c) /\ \E i \in DOMAIN database :
                   IsFirst(i, n) /\ database[i].password = Empty

Update_Database(u, p) ==
  database' = Append(database, [username |-> u, password |-> Kept[p]])

-----------------------------------------------------------------------------
(***************************************************************************)
(* One turn of a child.  s is what the handler makes of session[c].        *)
(***************************************************************************)

Received(c, op) == session[c].request.op = op
Typed(c)        == session[c].request.arg

Send(c, s, r) ==
  session' = [session EXCEPT ![c] =
                [s EXCEPT !.reply = r, !.request = NoRequest]]

\* Fault: the main loop closes the connection and goes on.
CloseOnly(c) ==
  session' = [session EXCEPT ![c] = [NoSession EXCEPT !.state = "serving"]]

\* The handler returns 0, or the child crashes: the connection is closed.
Close(c) == session' = [session EXCEPT ![c] = NoSession]

\* The child runs on for ever without ever answering.
Spin(c) ==
  session' = [session EXCEPT ![c] = [NoSession EXCEPT !.state = "spinning"]]

\* One more wrong input, answered by r while the child has patience.
WrongInput(c, patient, r) ==
  LET s == session[c] IN
  \/ patient  /\ Send(c, [s EXCEPT !.retry = @ + 1], r)
  \/ ~patient /\ Close(c)

Select_Work(c) ==
  /\ Received(c, "SELECT_WORK")
  /\ LET fresh == [session[c] EXCEPT !.retry = 0] IN
     \/ Typed(c) = "1" /\ Send(c, fresh, "READY_LOGIN")
     \/ Typed(c) = "2" /\ Send(c, fresh, "READY_SIGNUP")
     \/ Typed(c) = "3" /\ Close(c)
     \/ Typed(c) = "other"
        /\ WrongInput(c, session[c].retry + 1 < MAX_TRIES, "SELECT_ERROR")
  /\ UNCHANGED database

Check_User(c) ==
  /\ Received(c, "LOGIN_USER")
  /\ \/ NotFound(c, Typed(c)) /\ Send(c, session[c], "LOGIN_USER_NOT_EXIST")
     \/ \E i \in DOMAIN database :
          /\ Found(c, Typed(c), i)
          /\ Send(c, [session[c] EXCEPT !.user = database[i], !.opened = @ + 1],
                  "LOGIN_USER_ID_OK")
     \/ FindCrashes(c, Typed(c)) /\ Close(c)
  /\ UNCHANGED database

\* Fault: typing nothing is as good as the password.
Check_Login_Nothing(c) ==
  /\ Received(c, "LOGIN_PASS")
  /\ IF Typed(c) \in {Empty, session[c].user.password}
     THEN Send(c, [session[c] EXCEPT !.retry = 0], "LOGIN_SUCCESS")
     ELSE WrongInput(c, session[c].retry + 1 < MAX_TRIES, "PASS_NOT_MATCH")
  /\ UNCHANGED database

\* Fault: the limit is that of the sign-up.
Check_Login_Once_More(c) ==
  /\ Received(c, "LOGIN_PASS")
  /\ IF Typed(c) # Empty /\ Typed(c) = session[c].user.password
     THEN Send(c, [session[c] EXCEPT !.retry = 0], "LOGIN_SUCCESS")
     ELSE WrongInput(c, session[c].retry < MAX_TRIES, "PASS_NOT_MATCH")
  /\ UNCHANGED database

Check_Login_Pass(c) ==
  /\ Received(c, "LOGIN_PASS")
  /\ IF Typed(c) # Empty /\ Typed(c) = session[c].user.password
     THEN Send(c, [session[c] EXCEPT !.retry = 0], "LOGIN_SUCCESS")
     ELSE WrongInput(c, session[c].retry + 1 < MAX_TRIES, "PASS_NOT_MATCH")
  /\ UNCHANGED database

\* Fault: the name is not looked up when nothing else is wrong with it.
Signup_Any_User(c) ==
  /\ Received(c, "SIGNUP_USER")
  /\ IF Typed(c) = Empty
     THEN Send(c, session[c], "USER_ID_NOT_INVALID")
     ELSE Send(c, [session[c] EXCEPT !.user = [username |-> Typed(c),
                                               password |-> Garbage]],
               "SIGNUP_USER_ID_OK")
  /\ UNCHANGED database

\* user1's password was never set.
Signup_User(c) ==
  /\ Received(c, "SIGNUP_USER")
  /\ \/ Typed(c) = Empty /\ Send(c, session[c], "USER_ID_NOT_INVALID")
     \/ \E i \in DOMAIN database :
          /\ Found(c, Typed(c), i)
          /\ Send(c, [session[c] EXCEPT !.opened = @ + 1],
                  "USER_ID_NOT_INVALID")
     \/ FindCrashes(c, Typed(c)) /\ Close(c)
     \/ /\ Typed(c) # Empty
        /\ NotFound(c, Typed(c))
        /\ Send(c, [session[c] EXCEPT !.user = [username |-> Typed(c),
                                                password |-> Garbage]],
                "SIGNUP_USER_ID_OK")
  /\ UNCHANGED database

\* Fault: short passwords are counted without a limit.
Signup_Pass_Endless(c) ==
  /\ Received(c, "SIGNUP_PASS")
  /\ IF Typed(c) \in Short \cup {Empty}
     THEN WrongInput(c, TRUE, "PASS_SHORT")
     ELSE \E u \in {session[c].user.username, Garbage} :
            Send(c, [session[c] EXCEPT !.user = [username |-> u,
                                                 password |-> Typed(c)],
                                       !.retry = 0],
                 "CONFIRM_PASS")
  /\ UNCHANGED database

(***************************************************************************)
(* Signup_Pass with confirm = 0.  It overwrites the user by a local record *)
(* whose name was never set: on the stack there may still be the record    *)
(* Signup_User left, or anything else.                                     *)
(***************************************************************************)
Signup_Pass(c) ==
  /\ Received(c, "SIGNUP_PASS")
  /\ IF Typed(c) \in Short \cup {Empty}
     THEN WrongInput(c, session[c].retry < MAX_TRIES, "PASS_SHORT")
     ELSE \E u \in {session[c].user.username, Garbage} :
            Send(c, [session[c] EXCEPT !.user = [username |-> u,
                                                 password |-> Typed(c)],
                                       !.retry = 0],
                 "CONFIRM_PASS")
  /\ UNCHANGED database

\* Fault: the count of wrong confirmations is not reset at the end.
Confirm_Keeping_Count(c) ==
  /\ Received(c, "CONFIRM_PASS")
  /\ LET user == session[c].user
         same == Typed(c) # Empty /\ Typed(c) = user.password
     IN \/ /\ same /\ Readable(c)
           /\ Update_Database(user.username, user.password)
           /\ Send(c, session[c], "SIGNUP_USER_SUCCESS")
        \/ same /\ ~Readable(c) /\ Close(c) /\ UNCHANGED database
        \/ /\ ~same
           /\ WrongInput(c, session[c].retry < MAX_TRIES, "CONFIRM_NOT_MATCH")
           /\ UNCHANGED database

\* Signup_Pass with confirm = 1.  The file is written without another look
\* at the names in it; fputs crashes when the file could not be opened.
Confirm_Pass(c) ==
  /\ Received(c, "CONFIRM_PASS")
  /\ LET user == session[c].user
         same == Typed(c) # Empty /\ Typed(c) = user.password
     IN \/ /\ same /\ Readable(c)
           /\ Update_Database(user.username, user.password)
           /\ Send(c, [session[c] EXCEPT !.retry = 0], "SIGNUP_USER_SUCCESS")
        \/ same /\ ~Readable(c) /\ Close(c) /\ UNCHANGED database
        \/ /\ ~same
           /\ WrongInput(c, session[c].retry < MAX_TRIES, "CONFIRM_NOT_MATCH")
           /\ UNCHANGED database

\* Clear() blanks the user.
Check_Logout(c) ==
  /\ Received(c, "LOGOUT")
  /\ Send(c, [session[c] EXCEPT !.user = NoSession.user], "LOGOUT_SUCCESS")
  /\ UNCHANGED database

Start_Game(c) ==
  /\ Received(c, "START_GAME")
  /\ Send(c, session[c], "READY_GAME")
  /\ UNCHANGED database

\* The record of the game is opened before the colour is looked at.  Black
\* is answered by the server's first move.
Check_Color(c) ==
  /\ Received(c, "COLOR")
  /\ \/ ~Readable(c) /\ Close(c)
     \/ Readable(c) /\ Typed(c) = "1" /\ Send(c, session[c], "COLOR_OK")
     \/ Readable(c) /\ Typed(c) = "2" /\ Send(c, session[c], "RUN")
  /\ UNCHANGED database

\* A move is illegal, or it is answered and recorded; RUN stands for its
\* variants with a castling too.  find_way draws moves until one is legal,
\* for ever when none is.
Check_Run(c) ==
  /\ Received(c, "RUN")
  /\ \/ Send(c, session[c], "RUN_ERROR")
     \/ /\ Readable(c)
        /\ \E r \in {"RUN", "RUN_W", "YOU_WIN"} : Send(c, session[c], r)
     \/ ~Readable(c) /\ Close(c)
     \/ Spin(c)
  /\ UNCHANGED database

End_Game(c) ==
  /\ Received(c, "END_RUN")
  /\ Send(c, session[c], "COMPUTER_WIN")
  /\ UNCHANGED database

\* The record is completed and sent line by line, and left open.
Send_Result(c) ==
  /\ Received(c, "RESULT")
  /\ \/ ~Readable(c) /\ Close(c)
     \/ Readable(c) /\ Send(c, [session[c] EXCEPT !.opened = @ + 1], "FILE_LOG")
  /\ UNCHANGED database

\* The loop of Send_Result: the client has confirmed a line.
NextLine(c) ==
  /\ Received(c, "RECV_OK")
  /\ \E r \in {"FILE_LOG", "EXIT_FILE_LOG"} : Send(c, session[c], r)
  /\ UNCHANGED database

Exit_Connect(c) == Received(c, "EXIT") /\ Close(c) /\ UNCHANGED database

Check_Mess(c) ==
  \/ Select_Work(c) \/ Exit_Connect(c)
  \/ Check_User(c) \/ Check_Login_Pass(c) \/ Check_Logout(c)
  \/ Signup_User(c) \/ Signup_Pass(c) \/ Confirm_Pass(c)
  \/ Start_Game(c) \/ Check_Color(c) \/ Check_Run(c) \/ End_Game(c)
  \/ Send_Result(c) \/ NextLine(c)

-----------------------------------------------------------------------------
(***************************************************************************)
(* The client: what its user may ask for after each reply.                 *)
(***************************************************************************)
Replied(c, R) == session[c].reply \in R

Ask(c, op, S) ==
  /\ \E a \in S : session' = [session EXCEPT ![c].reply = None,
                                             ![c].request = [op |-> op, arg |-> a]]
  /\ UNCHANGED database

Choices == {"1", "2", "3", "other"}

menu(c) ==
  /\ Replied(c, {"HELLO", "SELECT_ERROR", "SIGNUP_USER_SUCCESS",
                 "LOGOUT_SUCCESS"})
  /\ Ask(c, "SELECT_WORK", Choices)

\* menu2 offers to log in again, to sign up, or to leave.
lg_user(c) ==
  /\ Replied(c, {"READY_LOGIN", "LOGIN_USER_NOT_EXIST"})
  /\ Ask(c, "LOGIN_USER", Names \cup {Empty})

sgup_user(c) ==
  /\ Replied(c, {"READY_SIGNUP", "USER_ID_NOT_INVALID", "LOGIN_USER_NOT_EXIST"})
  /\ Ask(c, "SIGNUP_USER", Names \cup {Empty})

lg_pass(c) ==
  /\ Replied(c, {"LOGIN_USER_ID_OK", "PASS_NOT_MATCH"})
  /\ Ask(c, "LOGIN_PASS", Passwords \cup {Empty})

sgup_pass(c) ==
  /\ Replied(c, {"SIGNUP_USER_ID_OK", "PASS_SHORT"})
  /\ Ask(c, "SIGNUP_PASS", Passwords \cup {Empty})

confirm_pass(c) ==
  /\ Replied(c, {"CONFIRM_PASS", "CONFIRM_NOT_MATCH"})
  /\ Ask(c, "CONFIRM_PASS", Passwords \cup {Empty})

authenticated_menu(c) ==
  /\ Replied(c, {"LOGIN_SUCCESS", "EXIT_FILE_LOG"})
  /\ \E op \in {"START_GAME", "LOGOUT"} : Ask(c, op, {None})

leave(c) ==
  /\ Replied(c, {"LOGIN_USER_NOT_EXIST", "LOGIN_SUCCESS", "EXIT_FILE_LOG"})
  /\ Ask(c, "EXIT", {None})

game_ready(c) == Replied(c, {"READY_GAME"}) /\ Ask(c, "COLOR", {"1", "2"})

select_run(c) ==
  /\ Replied(c, {"COLOR_OK", "RUN", "RUN_W", "RUN_ERROR"})
  /\ Ask(c, "RUN", {None})

select_warning(c) == Replied(c, {"RUN_W"}) /\ Ask(c, "END_RUN", {None})

you_win(c) ==
  Replied(c, {"YOU_WIN", "COMPUTER_WIN"}) /\ Ask(c, "RESULT", {None})

printf_log(c) == Replied(c, {"FILE_LOG"}) /\ Ask(c, "RECV_OK", {None})

check_buff(c) ==
  \/ menu(c) \/ leave(c) \/ authenticated_menu(c)
  \/ lg_user(c) \/ lg_pass(c)
  \/ sgup_user(c) \/ sgup_pass(c) \/ confirm_pass(c)
  \/ game_ready(c) \/ select_run(c) \/ select_warning(c) \/ you_win(c)
  \/ printf_log(c)

-----------------------------------------------------------------------------
\* The server accepts a connection, forks and greets the client.  A spinning
\* child of an earlier connection stays behind and touches nothing more.
Connect(c) ==
  /\ session[c].state # "serving"
  /\ session' = [session EXCEPT ![c] = [NoSession EXCEPT !.state = "serving",
                                                         !.reply = "HELLO"]]
  /\ UNCHANGED database

(***************************************************************************)
(* A client goes away.  (When a request of it is still on its way, the     *)
(* child handles it first.)  recv returns 0 and Check_Mess crashes on the  *)
(* empty message, or -1 and the main loop calls recv again for ever.       *)
(***************************************************************************)
Vanish(c) ==
  /\ session[c].reply # None
  /\ Close(c) \/ Spin(c)
  /\ UNCHANGED database

Next ==
  \E c \in Clients : Connect(c) \/ Check_Mess(c) \/ check_buff(c) \/ Vanish(c)

Spec == Init /\ [][Next]_vars
-----------------------------------------------------------------------------
(***************************************************************************)
(* Properties.                                                             *)
(***************************************************************************)

\* The requests that reach the child once the password was right.
InsideRequests == {"LOGOUT", "START_GAME", "COLOR", "RUN", "END_RUN",
                   "RESULT", "RECV_OK"}

Requests ==
  [op : {"SELECT_WORK"}, arg : Choices]
    \cup [op : {"LOGIN_USER", "SIGNUP_USER"}, arg : Names \cup {Empty}]
    \cup [op : {"LOGIN_PASS", "SIGNUP_PASS", "CONFIRM_PASS"},
          arg : Passwords \cup {Empty}]
    \cup [op : {"EXIT"} \cup InsideRequests, arg : {"1", "2", None}]

Sessions ==
  [state : {"none", "serving", "spinning"},
   reply : Replies \cup InsideReplies \cup {None},
   request : Requests \cup {NoRequest},
   user : Records, retry : 0..MAX_TRIES, opened : 0..MAX_FILES]

\* Types: messages are the protocol's, no counter leaves its range and every
\* line of the file is one a child can have written.
TypeOK ==
  /\ session  \in [Clients -> Sessions]
  /\ database \in Seq(Records)

\* The dialogue a client is in.
Inside(c) ==
  session[c].request.op \in InsideRequests \/ session[c].reply \in InsideReplies

AskedForPassword(c) ==
  \/ session[c].request.op = "LOGIN_PASS"
  \/ session[c].reply \in {"LOGIN_USER_ID_OK", "PASS_NOT_MATCH"}

ChoosingPassword(c) ==
  \/ session[c].request.op \in {"SIGNUP_PASS", "CONFIRM_PASS"}
  \/ session[c].reply \in {"SIGNUP_USER_ID_OK", "PASS_SHORT", "CONFIRM_PASS",
                           "CONFIRM_NOT_MATCH"}

\* The lines that Find_User can reach.
Accounts == {database[i] : i \in {j \in DOMAIN database :
                                    IsFirst(j, database[j].username)}}

(***************************************************************************)
(* Client and child take turns: between them there is one request or one   *)
(* reply as long as the child serves, and nothing once it does not.  The   *)
(* child never has to choose between two requests, and nobody waits for    *)
(* an answer that the other does not owe (folk_server.c:333-346 against    *)
(* tcp_client.c:631-652).                                                  *)
(***************************************************************************)
TakeTurns ==
  \A c \in Clients :
    LET s == session[c] IN
    IF s.state = "serving" THEN (s.reply = None <=> s.request # NoRequest)
                           ELSE s.reply = None /\ s.request = NoRequest

(***************************************************************************)
(* While a client is asked for a password, and as long as it is inside,    *)
(* the child holds an account that Find_User finds, with its password, and *)
(* not what a sign-up, a logout or an earlier login left in `user`.  The   *)
(* statuses of my_type.h would have assured it; their tests are comments.  *)
(***************************************************************************)
UserIsAnAccount ==
  \A c \in Clients :
    AskedForPassword(c) \/ Inside(c) => session[c].user \in Accounts

(***************************************************************************)
(* `retry` counts wrong choices, wrong logins and bad passwords of a       *)
(* sign-up in turn, and each has its own limit.  No dialogue is entered    *)
(* with a count that another one left over its limit.                      *)
(***************************************************************************)
CountsDoNotLeak ==
  \A c \in Clients : ~ChoosingPassword(c) => session[c].retry < MAX_TRIES

(***************************************************************************)
(* The sessions implement Gatekeeper: whatever other children append to    *)
(* the file, and with a user record that a sign-up scribbles over, nobody  *)
(* is inside without an account's password, and a second line of a name    *)
(* takes nobody's account over.                                            *)
(***************************************************************************)
Given(c) == IF session[c].request.op = "LOGIN_PASS"
            THEN session[c].request.arg ELSE None

Gate == INSTANCE Gatekeeper
          WITH accounts <- Accounts,
               given    <- [c \in Clients |-> Given(c)],
               inside   <- [c \in Clients |-> IF Inside(c) THEN session[c].user
                                                           ELSE None]

KeepsGate == Gate!Spec

(***************************************************************************)
(* A name that has an account is refused at sign-up (check_signup.h:37-42; *)
(* the comment names the refusal USER_ID_EXISTED), so that no name typed   *)
(* has two lines.  It holds for one client at a time, also when its child  *)
(* has run out of files and takes every name for a new one (Find_User      *)
(* returns 0).                                                             *)
(***************************************************************************)
OneLinePerName ==
  \A i, j \in DOMAIN database :
    database[i].username \in Names /\ database[i].username = database[j].username
      => i = j

\* The inductive invariant.
IInv == TypeOK /\ TakeTurns /\ UserIsAnAccount /\ CountsDoNotLeak
=============================================================================
