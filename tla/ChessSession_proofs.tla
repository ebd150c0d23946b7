------------------------ MODULE ChessSession_proofs ------------------------
(***************************************************************************)
(* Proofs about ChessSession, for any number of clients, names, passwords, *)
(* tries and open files, and any account file to start from; the last one  *)
(* is about the count of wrong passwords in MCChessDocs.                   *)
(***************************************************************************)
EXTENDS MCChessDocs, TLAPS

\* What IInv says of one session, A being the accounts.
AsksOfInside(t) ==
  \/ t.request.op \in {"LOGIN_PASS"} \cup InsideRequests
  \/ t.reply \in {"LOGIN_USER_ID_OK", "PASS_NOT_MATCH"} \cup InsideReplies

Chooses(t) ==
  \/ t.request.op \in {"SIGNUP_PASS", "CONFIRM_PASS"}
  \/ t.reply \in {"SIGNUP_USER_ID_OK", "PASS_SHORT", "CONFIRM_PASS",
                  "CONFIRM_NOT_MATCH"}

Turns(t) ==
  IF t.state = "serving" THEN (t.reply = None <=> t.request # NoRequest)
                         ELSE t.reply = None /\ t.request = NoRequest

Good(t, A) ==
  /\ t \in Sessions
  /\ Turns(t)
  /\ AsksOfInside(t) => t.user \in A
  /\ ~Chooses(t) => t.retry < MAX_TRIES

LEMMA IInvIsGood ==
  IInv <=> /\ session \in [Clients -> Sessions]
           /\ database \in Seq(Records)
           /\ \A c \in Clients : Good(session[c], Accounts)
  BY DEF IInv, TypeOK, TakeTurns, UserIsAnAccount, CountsDoNotLeak, Good, Turns,
         AsksOfInside, Chooses, AskedForPassword, Inside, ChoosingPassword

-----------------------------------------------------------------------------
(***************************************************************************)
(* The account file only grows, and with it the accounts.                  *)
(***************************************************************************)
LEMMA AppendKeepsAccounts ==
  ASSUME database \in Seq(Records), NEW r \in Records,
         database' = Append(database, r)
  PROVE  /\ database' \in Seq(Records)
         /\ Accounts \subseteq Accounts'
         /\ Accounts' \subseteq Accounts \cup {r}
         /\ r \in Accounts' \ Accounts =>
              \A b \in Accounts : b.username # r.username
  <1> DEFINE n == Len(database)
  <1>1. /\ n \in Nat
        /\ DOMAIN database = 1..n
        /\ DOMAIN database' = 1..(n + 1)
        /\ \A i \in 1..n : database'[i] = database[i]
        /\ database'[n + 1] = r
        /\ database' \in Seq(Records)
    OBVIOUS
  <1> HIDE DEF n
  <1>2. \A i \in 1..n : \A u : IsFirst(i, u)' <=> IsFirst(i, u)
    BY <1>1 DEF IsFirst
  <1>3. Accounts \subseteq Accounts'
    BY <1>1, <1>2 DEF Accounts
  <1>4. ASSUME NEW a \in Accounts'
        PROVE  /\ a \in Accounts \cup {r}
               /\ a \notin Accounts => \A b \in Accounts : b.username # r.username
    <2>1. PICK i \in 1..(n + 1) :
             a = database'[i] /\ IsFirst(i, database[i].username)'
      BY <1>1 DEF Accounts
    <2>2. CASE i \in 1..n
      BY <1>1, <1>2, <2>1, <2>2 DEF Accounts
    <2>3. CASE i = n + 1
      <3>1. \A j \in 1..n : database[j].username # r.username
        BY <1>1, <2>1, <2>3 DEF IsFirst
      <3> QED
        BY <1>1, <2>1, <2>3, <3>1 DEF Accounts
    <2> QED
      BY <2>2, <2>3, <1>1
  <1> QED
    BY <1>1, <1>3, <1>4

\* What Find_User finds is an account.
LEMMA FoundIsAccount ==
  ASSUME NEW c \in Clients, NEW n, NEW i \in DOMAIN database, Found(c, n, i)
  PROVE  database[i] \in Accounts
  BY DEF Found, IsFirst, Accounts

-----------------------------------------------------------------------------
(***************************************************************************)
(* One turn of a session.                                                  *)
(***************************************************************************)
LEMMA NoSessionGood == ASSUME NEW A PROVE Good(NoSession, A)
  BY LimitAssumption, InputAssumption
  DEF Good, Turns, NoSession, NoRequest, Sessions, Records, Replies, InsideReplies,
      InsideRequests, AsksOfInside, Chooses

LEMMA SpinningGood ==
  ASSUME NEW A PROVE Good([NoSession EXCEPT !.state = "spinning"], A)
  BY LimitAssumption, InputAssumption
  DEF Good, Turns, NoSession, NoRequest, Sessions, Records, Replies, InsideReplies,
      InsideRequests, AsksOfInside, Chooses

LEMMA GreetedGood ==
  ASSUME NEW A
  PROVE  Good([NoSession EXCEPT !.state = "serving", !.reply = "HELLO"], A)
  <1>1. "HELLO" # None /\ "HELLO" \in Replies /\ "HELLO" \notin InsideReplies
    BY InputAssumption DEF Replies, InsideReplies
  <1> DEFINE t == [NoSession EXCEPT !.state = "serving", !.reply = "HELLO"]
  <1>2. t \in Sessions
    <2>1. NoSession \in Sessions
      BY NoSessionGood DEF Good
    <2> QED
      BY <1>1, <2>1 DEF Sessions
  <1>3. /\ t.state = "serving" /\ t.reply = "HELLO" /\ t.request = NoRequest
        /\ t.retry = 0
    BY DEF NoSession
  <1> HIDE DEF t
  <1>4. Turns(t)
    BY <1>1, <1>3 DEF Turns
  <1>5. ~AsksOfInside(t)
    BY <1>1, <1>3 DEF AsksOfInside, NoRequest, InsideRequests
  <1>6. Good(t, A)
    BY <1>2, <1>3, <1>4, <1>5, LimitAssumption DEF Good
  <1> QED
    BY <1>6 DEF t

\* A child answers the request of s, where s is otherwise what it should be.
LEMMA SendGood ==
  ASSUME NEW A, NEW s \in Sessions, NEW r \in Replies \cup InsideReplies,
         s.state = "serving",
         r \in {"LOGIN_USER_ID_OK", "PASS_NOT_MATCH"} \cup InsideReplies =>
           s.user \in A,
         r \notin {"SIGNUP_USER_ID_OK", "PASS_SHORT", "CONFIRM_PASS",
                   "CONFIRM_NOT_MATCH"} => s.retry < MAX_TRIES
  PROVE  Good([s EXCEPT !.reply = r, !.request = NoRequest], A)
  <1> DEFINE t == [s EXCEPT !.reply = r, !.request = NoRequest]
  <1>1. t \in Sessions
    BY DEF Sessions
  <1>2. /\ t.state = "serving" /\ t.reply = r /\ t.request = NoRequest
        /\ t.user = s.user /\ t.retry = s.retry
    BY DEF Sessions
  <1>3. r # None
    BY InputAssumption
  <1> HIDE DEF t
  <1>4. AsksOfInside(t) => t.user \in A
    BY <1>2 DEF AsksOfInside, NoRequest, InsideRequests
  <1>5. ~Chooses(t) => t.retry < MAX_TRIES
    BY <1>2 DEF Chooses
  <1>6. Turns(t)
    BY <1>2, <1>3 DEF Turns
  <1>7. Good(t, A)
    BY <1>1, <1>4, <1>5, <1>6 DEF Good
  <1> QED
    BY <1>7 DEF t

\* A client answers the reply of s with the request q.
LEMMA AskGood ==
  ASSUME NEW A, NEW s, Good(s, A), NEW q \in Requests, s.reply # None,
         q.op \in {"LOGIN_PASS"} \cup InsideRequests =>
           s.reply \in {"LOGIN_USER_ID_OK", "PASS_NOT_MATCH"} \cup InsideReplies,
         s.reply \in {"SIGNUP_USER_ID_OK", "PASS_SHORT", "CONFIRM_PASS",
                      "CONFIRM_NOT_MATCH"} =>
           q.op \in {"SIGNUP_PASS", "CONFIRM_PASS"}
  PROVE  Good([s EXCEPT !.reply = None, !.request = q], A)
  <1> DEFINE t == [s EXCEPT !.reply = None, !.request = q]
  <1>1. t \in Sessions /\ s \in Sessions
    BY DEF Good, Sessions
  <1>2. /\ t.state = s.state /\ t.reply = None /\ t.request = q
        /\ t.user = s.user /\ t.retry = s.retry
    BY <1>1 DEF Sessions
  <1>3. s.state = "serving" /\ s.request = NoRequest
    BY DEF Good, Turns
  <1>4. q # NoRequest
    BY DEF Requests, NoRequest, InsideRequests
  <1>5. None \notin {"LOGIN_USER_ID_OK", "PASS_NOT_MATCH"} \cup InsideReplies
    BY InputAssumption DEF Replies
  <1>6. None \notin {"SIGNUP_USER_ID_OK", "PASS_SHORT", "CONFIRM_PASS",
                     "CONFIRM_NOT_MATCH"}
    BY InputAssumption DEF Replies
  <1> HIDE DEF t
  <1>7. AsksOfInside(t) => t.user \in A
    BY <1>2, <1>5 DEF Good, AsksOfInside
  <1>8. ~Chooses(t) => t.retry < MAX_TRIES
    BY <1>2, <1>3 DEF Good, Chooses, NoRequest
  <1>9. Turns(t)
    BY <1>2, <1>3, <1>4 DEF Turns
  <1>10. Good(t, A)
    BY <1>1, <1>7, <1>8, <1>9 DEF Good
  <1> QED
    BY <1>10 DEF t
-----------------------------------------------------------------------------
(***************************************************************************)
(* Every action gives its session a good record.                           *)
(***************************************************************************)
Turn(c) == \E t : session' = [session EXCEPT ![c] = t] /\ Good(t, Accounts')

LEMMA CloseIsTurn == ASSUME NEW c \in Clients, Close(c) PROVE Turn(c)
  BY NoSessionGood, Zenon DEF Close, Turn

LEMMA SpinIsTurn == ASSUME NEW c \in Clients, Spin(c) PROVE Turn(c)
  BY SpinningGood, Zenon DEF Spin, Turn

LEMMA SendIsTurn ==
  ASSUME NEW c \in Clients, NEW s \in Sessions,
         NEW r \in Replies \cup InsideReplies, Send(c, s, r),
         s.state = "serving",
         r \in {"LOGIN_USER_ID_OK", "PASS_NOT_MATCH"} \cup InsideReplies =>
           s.user \in Accounts',
         r \notin {"SIGNUP_USER_ID_OK", "PASS_SHORT", "CONFIRM_PASS",
                   "CONFIRM_NOT_MATCH"} => s.retry < MAX_TRIES
  PROVE  Turn(c)
  BY SendGood, Zenon DEF Send, Turn

\* An answer that any session may get.
LEMMA AnswerIsTurn ==
  ASSUME NEW c \in Clients, NEW s \in Sessions,
         NEW r \in Replies \ {"LOGIN_USER_ID_OK", "PASS_NOT_MATCH"},
         Send(c, s, r), s.state = "serving", s.retry < MAX_TRIES
  PROVE  Turn(c)
  <1>1. r \notin {"LOGIN_USER_ID_OK", "PASS_NOT_MATCH"} \cup InsideReplies
    BY DEF Replies, InsideReplies
  <1> QED
    BY <1>1, SendIsTurn

\* An answer that a session gets on the way in, and inside.
LEMMA InsideAnswerIsTurn ==
  ASSUME NEW c \in Clients, NEW s \in Sessions,
         NEW r \in Replies \cup InsideReplies,
         Send(c, s, r), s.state = "serving", s.retry < MAX_TRIES,
         s.user \in Accounts'
  PROVE  Turn(c)
  BY SendIsTurn

\* An answer that a session gets while its client chooses a password.
LEMMA ChoosingAnswerIsTurn ==
  ASSUME NEW c \in Clients, NEW s \in Sessions,
         NEW r \in {"SIGNUP_USER_ID_OK", "PASS_SHORT", "CONFIRM_PASS",
                    "CONFIRM_NOT_MATCH"},
         Send(c, s, r), s.state = "serving"
  PROVE  Turn(c)
  <1>1. /\ r \in Replies
        /\ r \notin {"LOGIN_USER_ID_OK", "PASS_NOT_MATCH"} \cup InsideReplies
    BY DEF Replies, InsideReplies
  <1> QED
    BY <1>1, SendIsTurn

\* What handlers do to a session keeps its type, and the rest of it.
LEMMA RetryEdit ==
  ASSUME NEW s \in Sessions, NEW n \in 0..MAX_TRIES
  PROVE  /\ [s EXCEPT !.retry = n] \in Sessions
         /\ [s EXCEPT !.retry = n].retry = n
         /\ [s EXCEPT !.retry = n].state = s.state
         /\ [s EXCEPT !.retry = n].user = s.user
  BY DEF Sessions

LEMMA OpenedEdit ==
  ASSUME NEW s \in Sessions, NEW n \in 0..MAX_FILES
  PROVE  /\ [s EXCEPT !.opened = n] \in Sessions
         /\ [s EXCEPT !.opened = n].retry = s.retry
         /\ [s EXCEPT !.opened = n].state = s.state
         /\ [s EXCEPT !.opened = n].user = s.user
  BY DEF Sessions

LEMMA UserEdit ==
  ASSUME NEW s \in Sessions, NEW u \in Records
  PROVE  /\ [s EXCEPT !.user = u] \in Sessions
         /\ [s EXCEPT !.user = u].retry = s.retry
         /\ [s EXCEPT !.user = u].state = s.state
         /\ [s EXCEPT !.user = u].user = u
  BY DEF Sessions

LEMMA UserRetryEdit ==
  ASSUME NEW s \in Sessions, NEW u \in Records, NEW n \in 0..MAX_TRIES
  PROVE  /\ [s EXCEPT !.user = u, !.retry = n] \in Sessions
         /\ [s EXCEPT !.user = u, !.retry = n].state = s.state
  BY DEF Sessions

LEMMA OneMore ==
  ASSUME NEW s \in Sessions
  PROVE  /\ s.retry \in 0..MAX_TRIES /\ s.opened \in 0..MAX_FILES
         /\ s.retry < MAX_TRIES => s.retry + 1 \in 0..MAX_TRIES
         /\ s.opened < MAX_FILES => s.opened + 1 \in 0..MAX_FILES
         /\ 0 \in 0..MAX_TRIES /\ 0 < MAX_TRIES
  BY LimitAssumption DEF Sessions

\* A wrong input is answered, or ends the session.
LEMMA WrongChoiceIsTurn ==
  ASSUME NEW c \in Clients, NEW r \in {"SELECT_ERROR", "PASS_NOT_MATCH"},
         WrongInput(c, session[c].retry + 1 < MAX_TRIES, r),
         session[c] \in Sessions, session[c].state = "serving",
         session[c].retry < MAX_TRIES,
         r = "PASS_NOT_MATCH" => session[c].user \in Accounts'
  PROVE  Turn(c)
  <1> DEFINE t == [session[c] EXCEPT !.retry = session[c].retry + 1]
  <1>1. CASE Close(c)
    BY <1>1, CloseIsTurn
  <1>2. CASE session[c].retry + 1 < MAX_TRIES /\ Send(c, t, r)
    <2>1. session[c].retry + 1 \in 0..MAX_TRIES
      BY OneMore
    <2>2. /\ t \in Sessions /\ t.retry < MAX_TRIES
          /\ t.state = "serving" /\ t.user = session[c].user
      BY <1>2, <2>1, RetryEdit
    <2>3. "SELECT_ERROR" \in Replies /\ "PASS_NOT_MATCH" \in Replies
      BY DEF Replies
    <2> HIDE DEF t
    <2>4. CASE r = "SELECT_ERROR"
      BY <1>2, <2>2, <2>3, <2>4, AnswerIsTurn
    <2>5. CASE r = "PASS_NOT_MATCH"
      BY <1>2, <2>2, <2>3, <2>5, InsideAnswerIsTurn
    <2> QED
      BY <2>4, <2>5
  <1> QED
    BY <1>1, <1>2 DEF WrongInput

LEMMA WrongPasswordIsTurn ==
  ASSUME NEW c \in Clients, NEW r \in {"PASS_SHORT", "CONFIRM_NOT_MATCH"},
         WrongInput(c, session[c].retry < MAX_TRIES, r),
         session[c] \in Sessions, session[c].state = "serving"
  PROVE  Turn(c)
  <1> DEFINE t == [session[c] EXCEPT !.retry = session[c].retry + 1]
  <1>1. CASE Close(c)
    BY <1>1, CloseIsTurn
  <1>2. CASE session[c].retry < MAX_TRIES /\ Send(c, t, r)
    <2>1. session[c].retry + 1 \in 0..MAX_TRIES
      BY <1>2, OneMore
    <2>2. t \in Sessions /\ t.state = "serving"
      BY <2>1, RetryEdit
    <2> HIDE DEF t
    <2> QED
      BY <1>2, <2>2, ChoosingAnswerIsTurn
  <1> QED
    BY <1>1, <1>2 DEF WrongInput

LEMMA ServesWhatItReceived ==
  ASSUME IInv, NEW c \in Clients, NEW op, Received(c, op), op # "none"
  PROVE  /\ session[c] \in Sessions
         /\ session[c].state = "serving"
         /\ session[c].request \in Requests
         /\ session[c].reply = None
         /\ op \in {"LOGIN_PASS"} \cup InsideRequests =>
              session[c].user \in Accounts
         /\ op \notin {"SIGNUP_PASS", "CONFIRM_PASS"} =>
              session[c].retry < MAX_TRIES
  <1>1. Good(session[c], Accounts)
    BY IInvIsGood
  <1>2. /\ session[c] \in Sessions /\ Turns(session[c])
        /\ session[c].request # NoRequest
    BY <1>1 DEF Good, Received, NoRequest
  <1>3. /\ session[c].state = "serving" /\ session[c].reply = None
        /\ session[c].request \in Requests
    BY <1>2 DEF Turns, Sessions
  <1>4. op \in {"LOGIN_PASS"} \cup InsideRequests => session[c].user \in Accounts
    BY <1>1 DEF Good, AsksOfInside, Received
  <1>5. /\ None \notin {"SIGNUP_USER_ID_OK", "PASS_SHORT", "CONFIRM_PASS",
                        "CONFIRM_NOT_MATCH"}
    BY InputAssumption DEF Replies
  <1>6. op \notin {"SIGNUP_PASS", "CONFIRM_PASS"} => session[c].retry < MAX_TRIES
    BY <1>1, <1>3, <1>5 DEF Good, Chooses, Received
  <1> QED
    BY <1>2, <1>3, <1>4, <1>6
LEMMA SameFileSameAccounts == database' = database => Accounts' = Accounts
  BY DEF Accounts, IsFirst

-----------------------------------------------------------------------------
(***************************************************************************)
(* The handlers, one by one.                                               *)
(***************************************************************************)
LEMMA SelectIsTurn ==
  ASSUME IInv, NEW c \in Clients, Select_Work(c)
  PROVE  Turn(c)
  <1> DEFINE fresh == [session[c] EXCEPT !.retry = 0]
  <1>1. /\ session[c] \in Sessions /\ session[c].state = "serving"
        /\ session[c].retry < MAX_TRIES
    BY ServesWhatItReceived DEF Select_Work, InsideRequests
  <1>2. fresh \in Sessions /\ fresh.state = "serving" /\ fresh.retry < MAX_TRIES
    BY <1>1, RetryEdit, OneMore
  <1>3. \/ Send(c, fresh, "READY_LOGIN")
        \/ Send(c, fresh, "READY_SIGNUP")
        \/ Close(c)
        \/ WrongInput(c, session[c].retry + 1 < MAX_TRIES, "SELECT_ERROR")
    BY DEF Select_Work
  <1> HIDE DEF fresh
  <1>4. ASSUME NEW r \in {"READY_LOGIN", "READY_SIGNUP"}, Send(c, fresh, r)
        PROVE  Turn(c)
    <2>1. r \in Replies \ {"LOGIN_USER_ID_OK", "PASS_NOT_MATCH"}
      BY DEF Replies
    <2> QED
      BY <1>2, <1>4, <2>1, AnswerIsTurn
  <1>5. CASE WrongInput(c, session[c].retry + 1 < MAX_TRIES, "SELECT_ERROR")
    BY <1>1, <1>5, WrongChoiceIsTurn
  <1> QED
    BY <1>3, <1>4, <1>5, CloseIsTurn

LEMMA CheckUserIsTurn ==
  ASSUME IInv, NEW c \in Clients, Check_User(c)
  PROVE  Turn(c)
  <1>1. /\ session[c] \in Sessions /\ session[c].state = "serving"
        /\ session[c].retry < MAX_TRIES
    <2>1. Received(c, "LOGIN_USER")
      BY DEF Check_User
    <2> QED
      BY <2>1, ServesWhatItReceived DEF InsideRequests
  <1>2. /\ "LOGIN_USER_NOT_EXIST" \in
             Replies \ {"LOGIN_USER_ID_OK", "PASS_NOT_MATCH"}
        /\ "LOGIN_USER_ID_OK" \in Replies \cup InsideReplies
    BY DEF Replies
  <1>3. CASE Send(c, session[c], "LOGIN_USER_NOT_EXIST")
    BY <1>1, <1>2, <1>3, AnswerIsTurn
  <1>4. ASSUME NEW i \in DOMAIN database, Found(c, Typed(c), i),
               Send(c, [session[c] EXCEPT !.user = database[i],
                                          !.opened = session[c].opened + 1],
                    "LOGIN_USER_ID_OK")
        PROVE  Turn(c)
    <2> DEFINE u == database[i]
               n == session[c].opened + 1
               s == [session[c] EXCEPT !.user = u]
               t == [s EXCEPT !.opened = n]
    <2>1. u \in Records
      BY DEF IInv, TypeOK
    <2>2. n \in 0..MAX_FILES
      BY <1>1, <1>4, OneMore DEF Found, Readable
    <2>3. u \in Accounts'
      BY <1>4, FoundIsAccount, SameFileSameAccounts DEF Check_User
    <2>4. Send(c, t, "LOGIN_USER_ID_OK")
      BY <1>4
    <2> HIDE DEF u, n
    <2>5. /\ s \in Sessions /\ s.state = "serving"
          /\ s.user = u /\ s.retry = session[c].retry
      BY <1>1, <2>1, UserEdit
    <2> HIDE DEF s
    <2>6. /\ t \in Sessions /\ t.state = "serving"
          /\ t.user = u /\ t.retry = session[c].retry
      BY <2>2, <2>5, OpenedEdit
    <2> HIDE DEF t
    <2> QED
      BY <1>1, <1>2, <2>3, <2>4, <2>6, InsideAnswerIsTurn
  <1> QED
    BY <1>3, <1>4, CloseIsTurn DEF Check_User

LEMMA CheckLoginIsTurn ==
  ASSUME IInv, NEW c \in Clients, Check_Login_Pass(c)
  PROVE  Turn(c)
  <1>1. /\ session[c] \in Sessions /\ session[c].state = "serving"
        /\ session[c].retry < MAX_TRIES /\ session[c].user \in Accounts
    BY ServesWhatItReceived DEF Check_Login_Pass, InsideRequests
  <1>2. session[c].user \in Accounts'
    BY <1>1, SameFileSameAccounts DEF Check_Login_Pass
  <1>3. CASE Send(c, [session[c] EXCEPT !.retry = 0], "LOGIN_SUCCESS")
    <2> DEFINE t == [session[c] EXCEPT !.retry = 0]
    <2>1. /\ t \in Sessions /\ t.state = "serving" /\ t.retry < MAX_TRIES
          /\ t.user = session[c].user
      BY <1>1, RetryEdit, OneMore
    <2>2. Send(c, t, "LOGIN_SUCCESS") /\ "LOGIN_SUCCESS" \in InsideReplies
      BY <1>3 DEF InsideReplies
    <2> HIDE DEF t
    <2> QED
      BY <1>2, <2>1, <2>2, InsideAnswerIsTurn
  <1>4. CASE WrongInput(c, session[c].retry + 1 < MAX_TRIES, "PASS_NOT_MATCH")
    BY <1>1, <1>2, <1>4, WrongChoiceIsTurn
  <1> QED
    BY <1>3, <1>4 DEF Check_Login_Pass

LEMMA SignupUserIsTurn ==
  ASSUME IInv, NEW c \in Clients, Signup_User(c)
  PROVE  Turn(c)
  <1>1. /\ session[c] \in Sessions /\ session[c].state = "serving"
        /\ session[c].retry < MAX_TRIES
        /\ session[c].request \in Requests
        /\ session[c].request.op = "SIGNUP_USER"
    BY ServesWhatItReceived DEF Signup_User, InsideRequests, Received
  <1>2. "USER_ID_NOT_INVALID" \in Replies \ {"LOGIN_USER_ID_OK", "PASS_NOT_MATCH"}
    BY DEF Replies
  <1>3. CASE Send(c, session[c], "USER_ID_NOT_INVALID")
    BY <1>1, <1>2, <1>3, AnswerIsTurn
  <1>4. ASSUME NEW i, Found(c, Typed(c), i),
               Send(c, [session[c] EXCEPT !.opened = session[c].opened + 1],
                    "USER_ID_NOT_INVALID")
        PROVE  Turn(c)
    <2> DEFINE t == [session[c] EXCEPT !.opened = session[c].opened + 1]
    <2>1. session[c].opened + 1 \in 0..MAX_FILES
      BY <1>1, <1>4, OneMore DEF Found, Readable
    <2>2. t \in Sessions /\ t.state = "serving" /\ t.retry < MAX_TRIES
      BY <1>1, <2>1, OpenedEdit
    <2>3. Send(c, t, "USER_ID_NOT_INVALID")
      BY <1>4
    <2> HIDE DEF t
    <2> QED
      BY <1>2, <2>2, <2>3, AnswerIsTurn
  <1>5. ASSUME Typed(c) # Empty,
               Send(c, [session[c] EXCEPT !.user = [username |-> Typed(c),
                                                    password |-> Garbage]],
                    "SIGNUP_USER_ID_OK")
        PROVE  Turn(c)
    <2> DEFINE u == [username |-> Typed(c), password |-> Garbage]
               t == [session[c] EXCEPT !.user = u]
    <2>1. Typed(c) \in Names
      BY <1>1, <1>5 DEF Typed, Requests, InsideRequests
    <2>2. u \in Records
      BY <2>1 DEF Records
    <2>3. Send(c, t, "SIGNUP_USER_ID_OK")
      BY <1>5
    <2> HIDE DEF u
    <2>4. t \in Sessions /\ t.state = "serving"
      BY <1>1, <2>2, UserEdit
    <2> HIDE DEF t
    <2> QED
      BY <2>3, <2>4, ChoosingAnswerIsTurn
  <1> QED
    BY <1>3, <1>4, <1>5, CloseIsTurn DEF Signup_User

LEMMA SignupPassIsTurn ==
  ASSUME IInv, NEW c \in Clients, Signup_Pass(c)
  PROVE  Turn(c)
  <1>1. /\ session[c] \in Sessions /\ session[c].state = "serving"
        /\ session[c].request \in Requests
        /\ session[c].request.op = "SIGNUP_PASS"
    BY ServesWhatItReceived DEF Signup_Pass, InsideRequests, Received
  <1>2. CASE WrongInput(c, session[c].retry < MAX_TRIES, "PASS_SHORT")
    BY <1>1, <1>2, WrongPasswordIsTurn
  <1>3. ASSUME Typed(c) \notin Short \cup {Empty},
               NEW n \in {session[c].user.username, Garbage},
               Send(c, [session[c] EXCEPT !.user = [username |-> n,
                                                    password |-> Typed(c)],
                                          !.retry = 0], "CONFIRM_PASS")
        PROVE  Turn(c)
    <2> DEFINE u == [username |-> n, password |-> Typed(c)]
               t == [session[c] EXCEPT !.user = u, !.retry = 0]
    <2>1. Typed(c) \in Passwords
      BY <1>1, <1>3 DEF Typed, Requests, InsideRequests
    <2>2. n \in Names \cup {Garbage, Blank}
      BY <1>1 DEF Sessions, Records
    <2>3. u \in Records
      BY <2>1, <2>2 DEF Records
    <2>4. Send(c, t, "CONFIRM_PASS")
      BY <1>3
    <2> HIDE DEF u
    <2>5. t \in Sessions /\ t.state = "serving"
      BY <1>1, <2>3, OneMore, UserRetryEdit
    <2> HIDE DEF t
    <2> QED
      BY <2>4, <2>5, ChoosingAnswerIsTurn
  <1> QED
    BY <1>2, <1>3 DEF Signup_Pass

LEMMA LogoutIsTurn ==
  ASSUME IInv, NEW c \in Clients, Check_Logout(c)
  PROVE  Turn(c)
  <1> DEFINE t == [session[c] EXCEPT !.user = NoSession.user]
  <1>1. /\ session[c] \in Sessions /\ session[c].state = "serving"
        /\ session[c].retry < MAX_TRIES
    BY ServesWhatItReceived DEF Check_Logout, InsideRequests
  <1>2. NoSession.user \in Records
    BY DEF NoSession, Records
  <1>3. t \in Sessions /\ t.state = "serving" /\ t.retry < MAX_TRIES
    BY <1>1, <1>2, UserEdit
  <1>4. "LOGOUT_SUCCESS" \in Replies \ {"LOGIN_USER_ID_OK", "PASS_NOT_MATCH"}
    BY DEF Replies
  <1>5. Send(c, t, "LOGOUT_SUCCESS")
    BY DEF Check_Logout
  <1> HIDE DEF t
  <1> QED
    BY <1>3, <1>4, <1>5, AnswerIsTurn

\* What a client does once it is inside, but for logging out.
Plays(c) ==
  \/ Start_Game(c) \/ Check_Color(c) \/ Check_Run(c) \/ End_Game(c)
  \/ Send_Result(c) \/ NextLine(c)

LEMMA PlayIsTurn ==
  ASSUME IInv, NEW c \in Clients, Plays(c)
  PROVE  Turn(c)
  <1>1. PICK op \in InsideRequests : Received(c, op)
    BY DEF Plays, Start_Game, Check_Color, Check_Run, End_Game, Send_Result,
           NextLine, InsideRequests
  <1>2. op # "none" /\ op \notin {"SIGNUP_PASS", "CONFIRM_PASS"}
    BY DEF InsideRequests
  <1>3. /\ session[c] \in Sessions /\ session[c].state = "serving"
        /\ session[c].retry < MAX_TRIES /\ session[c].user \in Accounts
    BY <1>1, <1>2, ServesWhatItReceived
  <1>4. session[c].user \in Accounts'
    BY <1>3, SameFileSameAccounts
    DEF Plays, Start_Game, Check_Color, Check_Run, End_Game, Send_Result, NextLine
  <1>5. ASSUME NEW r \in InsideReplies, Send(c, session[c], r) PROVE Turn(c)
    BY <1>3, <1>4, <1>5, InsideAnswerIsTurn
  <1>6. ASSUME Send(c, [session[c] EXCEPT !.opened = session[c].opened + 1],
                    "FILE_LOG"),
               Readable(c)
        PROVE  Turn(c)
    <2> DEFINE t == [session[c] EXCEPT !.opened = session[c].opened + 1]
    <2>1. session[c].opened + 1 \in 0..MAX_FILES
      BY <1>3, <1>6, OneMore DEF Readable
    <2>2. /\ t \in Sessions /\ t.state = "serving" /\ t.user = session[c].user
          /\ t.retry < MAX_TRIES
      BY <1>3, <2>1, OpenedEdit
    <2>3. Send(c, t, "FILE_LOG") /\ "FILE_LOG" \in InsideReplies
      BY <1>6 DEF InsideReplies
    <2> HIDE DEF t
    <2> QED
      BY <1>4, <2>2, <2>3, InsideAnswerIsTurn
  <1>7. \/ \E r \in InsideReplies : Send(c, session[c], r)
        \/ /\ Readable(c)
           /\ Send(c, [session[c] EXCEPT !.opened = session[c].opened + 1],
                   "FILE_LOG")
        \/ Close(c)
        \/ Spin(c)
    BY DEF Plays, Start_Game, Check_Color, Check_Run, End_Game, Send_Result,
           NextLine, InsideReplies
  <1> QED
    BY <1>5, <1>6, <1>7, CloseIsTurn, SpinIsTurn
\* The handler that writes the file appends a record to it.
LEMMA ConfirmAppends ==
  ASSUME IInv, NEW c \in Clients, Confirm_Pass(c)
  PROVE  \/ database' = database
         \/ /\ \E r \in Records : database' = Append(database, r)
            /\ Send(c, [session[c] EXCEPT !.retry = 0], "SIGNUP_USER_SUCCESS")
  <1> DEFINE r == [username |-> session[c].user.username,
                   password |-> Kept[session[c].user.password]]
  <1>1. Received(c, "CONFIRM_PASS")
    BY DEF Confirm_Pass
  <1>2. /\ session[c] \in Sessions
        /\ session[c].request \in Requests
        /\ session[c].request.op = "CONFIRM_PASS"
    BY <1>1, ServesWhatItReceived DEF Received
  <1>3. CASE /\ Typed(c) # Empty
             /\ Typed(c) = session[c].user.password
             /\ database' = Append(database, r)
             /\ Send(c, [session[c] EXCEPT !.retry = 0], "SIGNUP_USER_SUCCESS")
    <2>1. session[c].user.password \in Passwords
      BY <1>2, <1>3 DEF Typed, Requests, InsideRequests
    <2>2. Kept[session[c].user.password] \in Passwords \cup {Empty}
      BY <2>1, InputAssumption
    <2>3. session[c].user.username \in Names \cup {Garbage, Blank}
      BY <1>2 DEF Sessions, Records
    <2>4. r \in Records
      BY <2>2, <2>3 DEF Records
    <2> HIDE DEF r
    <2> QED
      BY <1>3, <2>4
  <1> QED
    BY <1>3 DEF Confirm_Pass, Update_Database

(***************************************************************************)
(* The handler that writes the file leaves every other session good, and   *)
(* its own.                                                                *)
(***************************************************************************)
LEMMA ConfirmIsTurn ==
  ASSUME IInv, NEW c \in Clients, Confirm_Pass(c)
  PROVE  /\ Turn(c)
         /\ database' \in Seq(Records)
         /\ Accounts \subseteq Accounts'
  <1>1. Received(c, "CONFIRM_PASS")
    BY DEF Confirm_Pass
  <1>2. /\ session[c] \in Sessions /\ session[c].state = "serving"
        /\ session[c].request \in Requests
        /\ session[c].request.op = "CONFIRM_PASS"
    BY <1>1, ServesWhatItReceived DEF Received
  <1>3. database \in Seq(Records)
    BY DEF IInv, TypeOK
  <1>4. CASE database' = database
    <2>1. \/ Close(c)
          \/ WrongInput(c, session[c].retry < MAX_TRIES, "CONFIRM_NOT_MATCH")
          \/ Send(c, [session[c] EXCEPT !.retry = 0], "SIGNUP_USER_SUCCESS")
      BY DEF Confirm_Pass
    <2>2. ASSUME WrongInput(c, session[c].retry < MAX_TRIES, "CONFIRM_NOT_MATCH")
          PROVE  Turn(c)
      BY <1>2, <2>2, WrongPasswordIsTurn
    <2> DEFINE t == [session[c] EXCEPT !.retry = 0]
    <2>3. t \in Sessions /\ t.state = "serving" /\ t.retry < MAX_TRIES
      BY <1>2, OneMore, RetryEdit
    <2>4. "SIGNUP_USER_SUCCESS" \in
            Replies \ {"LOGIN_USER_ID_OK", "PASS_NOT_MATCH"}
      BY DEF Replies
    <2> HIDE DEF t
    <2>5. ASSUME Send(c, t, "SIGNUP_USER_SUCCESS") PROVE Turn(c)
      BY <2>3, <2>4, <2>5, AnswerIsTurn
    <2>6. Turn(c)
      BY <2>1, <2>2, <2>5, CloseIsTurn DEF t
    <2> QED
      BY <1>3, <1>4, <2>6, SameFileSameAccounts
  <1>5. ASSUME NEW r \in Records, database' = Append(database, r),
               Send(c, [session[c] EXCEPT !.retry = 0], "SIGNUP_USER_SUCCESS")
        PROVE  /\ Turn(c)
               /\ database' \in Seq(Records)
               /\ Accounts \subseteq Accounts'
    <2> DEFINE t == [session[c] EXCEPT !.retry = 0]
    <2>1. database' \in Seq(Records) /\ Accounts \subseteq Accounts'
      BY <1>3, <1>5, AppendKeepsAccounts
    <2>2. t \in Sessions /\ t.state = "serving" /\ t.retry < MAX_TRIES
      BY <1>2, OneMore, RetryEdit
    <2>3. "SIGNUP_USER_SUCCESS" \in
            Replies \ {"LOGIN_USER_ID_OK", "PASS_NOT_MATCH"}
      BY DEF Replies
    <2>4. Send(c, t, "SIGNUP_USER_SUCCESS")
      BY <1>5
    <2> HIDE DEF t
    <2> QED
      BY <2>1, <2>2, <2>3, <2>4, AnswerIsTurn
  <1> QED
    BY <1>4, <1>5, ConfirmAppends

\* A turn of a child.
LEMMA ChildTakesTurn ==
  ASSUME IInv, NEW c \in Clients, Check_Mess(c)
  PROVE  /\ Turn(c)
         /\ database' \in Seq(Records)
         /\ Accounts \subseteq Accounts'
  <1>1. CASE Confirm_Pass(c)
    BY <1>1, ConfirmIsTurn
  <1>2. CASE ~Confirm_Pass(c)
    <2>1. Turn(c)
      BY <1>2, SelectIsTurn, CheckUserIsTurn, CheckLoginIsTurn, SignupUserIsTurn,
         SignupPassIsTurn, LogoutIsTurn, PlayIsTurn, CloseIsTurn, Zenon
      DEF Check_Mess, Plays, Exit_Connect
    <2>2. database' = database
      BY <1>2
      DEF Check_Mess, Select_Work, Check_User, Check_Login_Pass, Signup_User,
          Signup_Pass, Check_Logout, Start_Game, Check_Color, Check_Run,
          End_Game, Send_Result, NextLine, Exit_Connect
    <2> QED
      BY <2>1, <2>2, SameFileSameAccounts DEF IInv, TypeOK
  <1> QED
    BY <1>1, <1>2

-----------------------------------------------------------------------------
(***************************************************************************)
(* The clients' answers, and what comes and goes.                          *)
(***************************************************************************)
LEMMA AskIsTurn ==
  ASSUME IInv, NEW c \in Clients, NEW op, NEW S, NEW R, Replied(c, R),
         Ask(c, op, S), None \notin R, [op : {op}, arg : S] \subseteq Requests,
         op \in {"LOGIN_PASS"} \cup InsideRequests =>
           R \subseteq {"LOGIN_USER_ID_OK", "PASS_NOT_MATCH"} \cup InsideReplies,
         \/ op \in {"SIGNUP_PASS", "CONFIRM_PASS"}
         \/ R \cap {"SIGNUP_USER_ID_OK", "PASS_SHORT", "CONFIRM_PASS",
                    "CONFIRM_NOT_MATCH"} = {}
  PROVE  Turn(c)
  <1>1. PICK a \in S :
          session' = [session EXCEPT ![c].reply = None,
                                     ![c].request = [op |-> op, arg |-> a]]
    BY DEF Ask
  <1> DEFINE q == [op |-> op, arg |-> a]
             t == [session[c] EXCEPT !.reply = None, !.request = q]
  <1>2. session' = [session EXCEPT ![c] = t]
    <2>1. session \in [Clients -> Sessions]
      BY DEF IInv, TypeOK
    <2> QED
      BY <1>1, <2>1
  <1>3. q \in Requests /\ q.op = op
    <2>1. q \in [op : {op}, arg : S]
      BY <1>1
    <2> QED
      BY <2>1
  <1>4. Good(session[c], Accounts)
    BY IInvIsGood
  <1>5. session[c].reply \in R /\ session[c].reply # None
    BY DEF Replied
  <1>6. Accounts' = Accounts
    BY SameFileSameAccounts DEF Ask
  <1> HIDE DEF q
  <1>7. Good(t, Accounts)
    BY <1>3, <1>4, <1>5, AskGood
  <1> HIDE DEF t
  <1> QED
    BY <1>2, <1>6, <1>7 DEF Turn

LEMMA ClientTakesTurn ==
  ASSUME IInv, NEW c \in Clients, check_buff(c)
  PROVE  Turn(c) /\ database' = database
  <1>1. None \notin Replies \cup InsideReplies
    BY InputAssumption
  <1> USE <1>1
  <1>2. CASE menu(c)
    <2>1. Replied(c, {"HELLO", "SELECT_ERROR", "SIGNUP_USER_SUCCESS", "LOGOUT_SUCCESS"}) /\ Ask(c, "SELECT_WORK", Choices)
      BY <1>2 DEF menu
    <2> QED
      BY <2>1, AskIsTurn DEF Requests, InsideRequests, Replies, InsideReplies, Ask
  <1>3. CASE lg_user(c)
    <2>1. Replied(c, {"READY_LOGIN", "LOGIN_USER_NOT_EXIST"}) /\ Ask(c, "LOGIN_USER", Names \cup {Empty})
      BY <1>3 DEF lg_user
    <2> QED
      BY <2>1, AskIsTurn DEF Requests, InsideRequests, Replies, InsideReplies, Ask
  <1>4. CASE sgup_user(c)
    <2>1. Replied(c, {"READY_SIGNUP", "USER_ID_NOT_INVALID", "LOGIN_USER_NOT_EXIST"}) /\ Ask(c, "SIGNUP_USER", Names \cup {Empty})
      BY <1>4 DEF sgup_user
    <2> QED
      BY <2>1, AskIsTurn DEF Requests, InsideRequests, Replies, InsideReplies, Ask
  <1>5. CASE lg_pass(c)
    <2>1. Replied(c, {"LOGIN_USER_ID_OK", "PASS_NOT_MATCH"}) /\ Ask(c, "LOGIN_PASS", Passwords \cup {Empty})
      BY <1>5 DEF lg_pass
    <2> QED
      BY <2>1, AskIsTurn DEF Requests, InsideRequests, Replies, InsideReplies, Ask
  <1>6. CASE sgup_pass(c)
    <2>1. Replied(c, {"SIGNUP_USER_ID_OK", "PASS_SHORT"}) /\ Ask(c, "SIGNUP_PASS", Passwords \cup {Empty})
      BY <1>6 DEF sgup_pass
    <2> QED
      BY <2>1, AskIsTurn DEF Requests, InsideRequests, Replies, InsideReplies, Ask
  <1>7. CASE confirm_pass(c)
    <2>1. Replied(c, {"CONFIRM_PASS", "CONFIRM_NOT_MATCH"}) /\ Ask(c, "CONFIRM_PASS", Passwords \cup {Empty})
      BY <1>7 DEF confirm_pass
    <2> QED
      BY <2>1, AskIsTurn DEF Requests, InsideRequests, Replies, InsideReplies, Ask
  <1>8. CASE leave(c)
    <2>1. Replied(c, {"LOGIN_USER_NOT_EXIST", "LOGIN_SUCCESS", "EXIT_FILE_LOG"}) /\ Ask(c, "EXIT", {None})
      BY <1>8 DEF leave
    <2> QED
      BY <2>1, AskIsTurn DEF Requests, InsideRequests, Replies, InsideReplies, Ask
  <1>9. CASE game_ready(c)
    <2>1. Replied(c, {"READY_GAME"}) /\ Ask(c, "COLOR", {"1", "2"})
      BY <1>9 DEF game_ready
    <2> QED
      BY <2>1, AskIsTurn DEF Requests, InsideRequests, Replies, InsideReplies, Ask
  <1>10. CASE select_run(c)
    <2>1. Replied(c, {"COLOR_OK", "RUN", "RUN_W", "RUN_ERROR"}) /\ Ask(c, "RUN", {None})
      BY <1>10 DEF select_run
    <2> QED
      BY <2>1, AskIsTurn DEF Requests, InsideRequests, Replies, InsideReplies, Ask
  <1>11. CASE select_warning(c)
    <2>1. Replied(c, {"RUN_W"}) /\ Ask(c, "END_RUN", {None})
      BY <1>11 DEF select_warning
    <2> QED
      BY <2>1, AskIsTurn DEF Requests, InsideRequests, Replies, InsideReplies, Ask
  <1>12. CASE you_win(c)
    <2>1. Replied(c, {"YOU_WIN", "COMPUTER_WIN"}) /\ Ask(c, "RESULT", {None})
      BY <1>12 DEF you_win
    <2> QED
      BY <2>1, AskIsTurn DEF Requests, InsideRequests, Replies, InsideReplies, Ask
  <1>13. CASE printf_log(c)
    <2>1. Replied(c, {"FILE_LOG"}) /\ Ask(c, "RECV_OK", {None})
      BY <1>13 DEF printf_log
    <2> QED
      BY <2>1, AskIsTurn DEF Requests, InsideRequests, Replies, InsideReplies, Ask
  <1>14. CASE authenticated_menu(c)
    <2>1. PICK op \in {"START_GAME", "LOGOUT"} : Ask(c, op, {None})
      BY <1>14 DEF authenticated_menu
    <2>2. Replied(c, {"LOGIN_SUCCESS", "EXIT_FILE_LOG"})
      BY <1>14 DEF authenticated_menu
    <2> QED
      BY <2>1, <2>2, AskIsTurn DEF Requests, InsideRequests, Replies, InsideReplies, Ask
  <1> QED
    BY <1>2, <1>3, <1>4, <1>5, <1>6, <1>7, <1>8, <1>9, <1>10, <1>11, <1>12, <1>13, <1>14 DEF check_buff

LEMMA StepIsTurn ==
  ASSUME IInv, NEW c \in Clients,
         Connect(c) \/ Check_Mess(c) \/ check_buff(c) \/ Vanish(c)
  PROVE  /\ Turn(c)
         /\ database' \in Seq(Records)
         /\ Accounts \subseteq Accounts'
  <1>1. database \in Seq(Records)
    BY DEF IInv, TypeOK
  <1>2. CASE Connect(c)
    <2>1. Turn(c)
      BY <1>2, GreetedGood, Zenon DEF Connect, Turn
    <2> QED
      BY <1>1, <1>2, <2>1, SameFileSameAccounts DEF Connect
  <1>3. CASE Check_Mess(c)
    BY <1>3, ChildTakesTurn
  <1>4. CASE check_buff(c)
    BY <1>1, <1>4, ClientTakesTurn, SameFileSameAccounts
  <1>5. CASE Vanish(c)
    <2>1. Turn(c)
      BY <1>5, CloseIsTurn, SpinIsTurn DEF Vanish
    <2> QED
      BY <1>1, <1>5, <2>1, SameFileSameAccounts DEF Vanish
  <1> QED
    BY <1>2, <1>3, <1>4, <1>5

-----------------------------------------------------------------------------
(***************************************************************************)
(* The invariant.                                                          *)
(***************************************************************************)
\* A session stays good when the accounts grow.
LEMMA GoodStays ==
  ASSUME NEW s, NEW A, NEW B, A \subseteq B, Good(s, A)
  PROVE  Good(s, B)
  BY DEF Good

LEMMA IInvInit == Init => IInv
  <1> SUFFICES ASSUME Init PROVE IInv
    OBVIOUS
  <1>1. \A c \in Clients : session[c] = NoSession
    BY DEF Init
  <1>2. \A c \in Clients : Good(session[c], Accounts)
    BY <1>1, NoSessionGood
  <1>3. NoSession \in Sessions
    BY NoSessionGood DEF Good
  <1>4. session \in [Clients -> Sessions] /\ database \in Seq(Records)
    BY <1>3, FileAssumption DEF Init
  <1> QED
    BY <1>2, <1>4, IInvIsGood

LEMMA IInvNext == IInv /\ [Next]_vars => IInv'
  <1> SUFFICES ASSUME IInv, [Next]_vars PROVE IInv'
    OBVIOUS
  <1>1. /\ session \in [Clients -> Sessions]
        /\ \A d \in Clients : Good(session[d], Accounts)
    BY IInvIsGood
  <1>2. CASE Next
    <2>1. PICK c \in Clients :
            Connect(c) \/ Check_Mess(c) \/ check_buff(c) \/ Vanish(c)
      BY <1>2 DEF Next
    <2>2. /\ Turn(c)
          /\ database' \in Seq(Records)
          /\ Accounts \subseteq Accounts'
      BY <2>1, StepIsTurn
    <2>3. PICK t : session' = [session EXCEPT ![c] = t] /\ Good(t, Accounts')
      BY <2>2 DEF Turn
    <2>4. t \in Sessions
      BY <2>3 DEF Good
    <2>5. session' \in [Clients -> Sessions]
      BY <1>1, <2>3, <2>4
    <2>6. ASSUME NEW d \in Clients PROVE Good(session'[d], Accounts')
      <3>1. CASE d = c
        BY <1>1, <2>3, <3>1
      <3>2. CASE d # c
        <4>1. session'[d] = session[d]
          BY <1>1, <2>3, <3>2
        <4> QED
          BY <1>1, <2>2, <4>1, GoodStays
      <3> QED
        BY <3>1, <3>2
    <2>7. /\ session' \in [Clients -> Sessions]
          /\ database' \in Seq(Records)
          /\ \A d \in Clients : Good(session'[d], Accounts')
      BY <2>2, <2>5, <2>6
    <2>8. IInv' <=> /\ session' \in [Clients -> Sessions]
                    /\ database' \in Seq(Records)
                    /\ \A d \in Clients : Good(session'[d], Accounts')
      BY DEF IInv, TypeOK, TakeTurns, UserIsAnAccount, CountsDoNotLeak, Good, Turns,
             AsksOfInside, Chooses, AskedForPassword, Inside, ChoosingPassword
    <2> QED
      BY <2>7, <2>8
  <1>3. CASE UNCHANGED vars
    BY <1>3
    DEF vars, IInv, TypeOK, TakeTurns, UserIsAnAccount, CountsDoNotLeak,
        AskedForPassword, Inside, ChoosingPassword, Accounts, IsFirst
  <1> QED
    BY <1>2, <1>3
-----------------------------------------------------------------------------
(***************************************************************************)
(* Every reachable state satisfies IInv: the properties TypeOK, TakeTurns, *)
(* UserIsAnAccount and CountsDoNotLeak hold together, for each needs the   *)
(* others (the limit of a count depends on whose turn it is, whose turn it *)
(* is on the type of a message).                                           *)
(***************************************************************************)
THEOREM Invariance == Spec => []IInv
  BY IInvInit, IInvNext, PTL DEF Spec

\* Messages are the protocol's, counters and lines of the file well formed.
THEOREM TypeCorrect == Spec => []TypeOK
  <1>1. IInv => TypeOK
    BY DEF IInv
  <1> QED
    BY <1>1, Invariance, PTL

\* Neither side ever waits for the other in vain, or speaks out of turn.
THEOREM TurnsAreTaken == Spec => []TakeTurns
  <1>1. IInv => TakeTurns
    BY DEF IInv
  <1> QED
    BY <1>1, Invariance, PTL

\* The password asked for, and the player inside, are an account's.
THEOREM PlaysAsAnAccount == Spec => []UserIsAnAccount
  <1>1. IInv => UserIsAnAccount
    BY DEF IInv
  <1> QED
    BY <1>1, Invariance, PTL

\* No dialogue starts with a count that is over the limit of another.
THEOREM CountsStayApart == Spec => []CountsDoNotLeak
  <1>1. IInv => CountsDoNotLeak
    BY DEF IInv
  <1> QED
    BY <1>1, Invariance, PTL
-----------------------------------------------------------------------------
(***************************************************************************)
(* The sessions implement Gatekeeper.  Most turns leave the client where   *)
(* it is, or take it out.                                                  *)
(***************************************************************************)
IsInside(t) == t.request.op \in InsideRequests \/ t.reply \in InsideReplies

Stays(c) ==
  \E t : /\ session' = [session EXCEPT ![c] = t]
         /\ IsInside(t) => IsInside(session[c]) /\ t.user = session[c].user

LEMMA CloseStays == ASSUME NEW c \in Clients, Close(c) PROVE Stays(c)
  <1>1. ~IsInside(NoSession)
    BY InputAssumption DEF IsInside, NoSession, NoRequest, InsideRequests
  <1> QED
    BY <1>1 DEF Close, Stays

LEMMA SpinStays == ASSUME NEW c \in Clients, Spin(c) PROVE Stays(c)
  <1> DEFINE t == [NoSession EXCEPT !.state = "spinning"]
  <1>1. ~IsInside(t)
    BY InputAssumption DEF IsInside, NoSession, NoRequest, InsideRequests
  <1>2. session' = [session EXCEPT ![c] = t]
    BY DEF Spin
  <1> HIDE DEF t
  <1> QED
    BY <1>1, <1>2 DEF Stays

LEMMA SendStays ==
  ASSUME NEW c \in Clients, NEW s \in Sessions, NEW r, Send(c, s, r),
         r \in InsideReplies =>
           IsInside(session[c]) /\ s.user = session[c].user
  PROVE  Stays(c)
  <1> DEFINE t == [s EXCEPT !.reply = r, !.request = NoRequest]
  <1>1. t.reply = r /\ t.request = NoRequest /\ t.user = s.user
    BY DEF Sessions
  <1>2. session' = [session EXCEPT ![c] = t]
    BY DEF Send
  <1> HIDE DEF t
  <1>3. IsInside(t) => r \in InsideReplies
    BY <1>1 DEF IsInside, NoRequest, InsideRequests
  <1> QED
    BY <1>1, <1>2, <1>3 DEF Stays

LEMMA WrongInputStays ==
  ASSUME NEW c \in Clients, NEW r \in Replies, session[c] \in Sessions,
         \/ WrongInput(c, session[c].retry < MAX_TRIES, r)
         \/ WrongInput(c, session[c].retry + 1 < MAX_TRIES, r)
  PROVE  Stays(c)
  <1> DEFINE n == session[c].retry + 1
             t == [session[c] EXCEPT !.retry = n]
  <1>1. (session[c].retry < MAX_TRIES /\ Send(c, t, r)) \/ Close(c)
    <2>1. n < MAX_TRIES => session[c].retry < MAX_TRIES
      BY OneMore, LimitAssumption
    <2> QED
      BY <2>1 DEF WrongInput
  <1>2. r \notin InsideReplies
    BY DEF Replies, InsideReplies
  <1>3. session[c].retry < MAX_TRIES => n \in 0..MAX_TRIES
    BY OneMore
  <1> HIDE DEF n
  <1>4. session[c].retry < MAX_TRIES => t \in Sessions
    BY <1>3, RetryEdit
  <1> HIDE DEF t
  <1>5. ASSUME t \in Sessions, Send(c, t, r) PROVE Stays(c)
    BY <1>2, <1>5, SendStays
  <1> QED
    BY <1>1, <1>4, <1>5, CloseStays

LEMMA AskStays ==
  ASSUME NEW c \in Clients, NEW op, NEW S, Ask(c, op, S),
         session \in [Clients -> Sessions],
         op \in InsideRequests => IsInside(session[c])
  PROVE  Stays(c)
  <1>1. PICK a \in S :
          session' = [session EXCEPT ![c].reply = None,
                                     ![c].request = [op |-> op, arg |-> a]]
    BY DEF Ask
  <1> DEFINE q == [op |-> op, arg |-> a]
             t == [session[c] EXCEPT !.reply = None, !.request = q]
  <1>2. session' = [session EXCEPT ![c] = t]
    BY <1>1
  <1>3. q.op = op
    OBVIOUS
  <1> HIDE DEF q
  <1>4. t.reply = None /\ t.request = q /\ t.user = session[c].user
    BY DEF Sessions
  <1>5. None \notin InsideReplies
    BY InputAssumption
  <1> HIDE DEF t
  <1>6. IsInside(t) => op \in InsideRequests
    BY <1>3, <1>4, <1>5 DEF IsInside
  <1> QED
    BY <1>2, <1>4, <1>6 DEF Stays

\* The password of the account was given.
GivesPassword(c) ==
  /\ Received(c, "LOGIN_PASS")
  /\ Typed(c) = session[c].user.password
  /\ Send(c, [session[c] EXCEPT !.retry = 0], "LOGIN_SUCCESS")

\* A line of the file is somebody's who is not inside.
Registers(c) ==
  /\ Received(c, "CONFIRM_PASS")
  /\ Stays(c)
  /\ \E r \in Records : database' = Append(database, r)

LEMMA SigningStays ==
  ASSUME IInv, NEW c \in Clients, Check_User(c) \/ Signup_User(c) \/ Signup_Pass(c)
  PROVE  Stays(c)
  <1>1. PICK op \in {"LOGIN_USER", "SIGNUP_USER", "SIGNUP_PASS"} : Received(c, op)
    BY DEF Check_User, Signup_User, Signup_Pass
  <1>2. session[c] \in Sessions /\ session[c].request \in Requests
    BY <1>1, ServesWhatItReceived
  <1>3. database \in Seq(Records)
    BY DEF IInv, TypeOK
  <1>4. {"LOGIN_USER_NOT_EXIST", "USER_ID_NOT_INVALID", "LOGIN_USER_ID_OK",
         "SIGNUP_USER_ID_OK", "CONFIRM_PASS", "PASS_SHORT"}
          \subseteq Replies \ InsideReplies
    BY DEF Replies, InsideReplies
  <1>5. ASSUME NEW r \in {"LOGIN_USER_NOT_EXIST", "USER_ID_NOT_INVALID"},
               Send(c, session[c], r)
        PROVE  Stays(c)
    BY <1>2, <1>4, <1>5, SendStays
  <1>6. ASSUME NEW i \in DOMAIN database, Found(c, Typed(c), i),
               \/ Send(c, [session[c] EXCEPT !.user = database[i],
                                             !.opened = session[c].opened + 1],
                       "LOGIN_USER_ID_OK")
               \/ Send(c, [session[c] EXCEPT !.opened = session[c].opened + 1],
                       "USER_ID_NOT_INVALID")
        PROVE  Stays(c)
    <2> DEFINE u == database[i]
               n == session[c].opened + 1
               s == [session[c] EXCEPT !.user = u]
               t == [s EXCEPT !.opened = n]
               v == [session[c] EXCEPT !.opened = n]
    <2>1. u \in Records
      BY <1>3
    <2>2. n \in 0..MAX_FILES
      BY <1>2, <1>6, OneMore DEF Found, Readable
    <2>3. Send(c, t, "LOGIN_USER_ID_OK") \/ Send(c, v, "USER_ID_NOT_INVALID")
      BY <1>6
    <2> HIDE DEF u, n
    <2>4. s \in Sessions
      BY <1>2, <2>1, UserEdit
    <2> HIDE DEF s
    <2>5. t \in Sessions /\ v \in Sessions
      BY <1>2, <2>2, <2>4, OpenedEdit
    <2> HIDE DEF t, v
    <2> QED
      BY <1>4, <2>3, <2>5, SendStays
  <1>7. ASSUME NEW n \in {session[c].user.username, Garbage}, NEW p,
               \/ /\ p = Garbage /\ n = Garbage
                  /\ Received(c, "SIGNUP_USER") /\ Typed(c) # Empty
                  /\ Send(c, [session[c] EXCEPT
                                !.user = [username |-> Typed(c), password |-> p]],
                          "SIGNUP_USER_ID_OK")
               \/ /\ p = Typed(c)
                  /\ Received(c, "SIGNUP_PASS") /\ Typed(c) # Empty
                  /\ Send(c, [session[c] EXCEPT
                                !.user = [username |-> n, password |-> p],
                                !.retry = 0], "CONFIRM_PASS")
        PROVE  Stays(c)
    <2> DEFINE u == [username |-> Typed(c), password |-> p]
               w == [username |-> n, password |-> p]
               s == [session[c] EXCEPT !.user = u]
               t == [session[c] EXCEPT !.user = w, !.retry = 0]
    <2>1. n \in Names \cup {Garbage, Blank}
      BY <1>2 DEF Sessions, Records
    <2>2. CASE Received(c, "SIGNUP_USER")
      <3>1. u \in Records
        BY <1>2, <1>7, <2>2 DEF Typed, Received, Requests, InsideRequests, Records
      <3>2. Send(c, s, "SIGNUP_USER_ID_OK")
        BY <1>7, <2>2 DEF Received
      <3> HIDE DEF u
      <3>3. s \in Sessions
        BY <1>2, <3>1, UserEdit
      <3> HIDE DEF s
      <3> QED
        BY <1>4, <3>2, <3>3, SendStays
    <2>3. CASE Received(c, "SIGNUP_PASS")
      <3>1. w \in Records
        BY <1>2, <1>7, <2>1, <2>3
        DEF Typed, Received, Requests, InsideRequests, Records
      <3>2. Send(c, t, "CONFIRM_PASS")
        BY <1>7, <2>3 DEF Received
      <3> HIDE DEF w
      <3>3. t \in Sessions
        BY <1>2, <3>1, OneMore, UserRetryEdit
      <3> HIDE DEF t
      <3> QED
        BY <1>4, <3>2, <3>3, SendStays
    <2> QED
      BY <1>7, <2>2, <2>3
  <1>8. ASSUME WrongInput(c, session[c].retry < MAX_TRIES, "PASS_SHORT")
        PROVE  Stays(c)
    BY <1>2, <1>4, <1>8, WrongInputStays
  <1>9. CASE Check_User(c)
    BY <1>5, <1>6, <1>9, CloseStays DEF Check_User
  <1>10. CASE Signup_User(c)
    BY <1>5, <1>6, <1>7, <1>10, CloseStays DEF Signup_User
  <1>11. CASE Signup_Pass(c)
    BY <1>7, <1>8, <1>11 DEF Signup_Pass
  <1> QED
    BY <1>9, <1>10, <1>11
LEMMA ChildStaysOrMoves ==
  ASSUME IInv, NEW c \in Clients, Check_Mess(c)
  PROVE  \/ Stays(c) /\ database' = database
         \/ GivesPassword(c) /\ database' = database
         \/ Registers(c)
  <1>1. session[c] \in Sessions /\ database \in Seq(Records)
    BY DEF IInv, TypeOK
  <1> DEFINE fresh == [session[c] EXCEPT !.retry = 0]
             blank == [session[c] EXCEPT !.user = NoSession.user]
             more  == [session[c] EXCEPT !.opened = session[c].opened + 1]
  <1>2. fresh \in Sessions
    BY <1>1, RetryEdit, OneMore
  <1>3. blank \in Sessions
    <2>1. NoSession.user \in Records
      BY DEF NoSession, Records
    <2> QED
      BY <1>1, <2>1, UserEdit
  <1>4. /\ Readable(c) => more \in Sessions
        /\ more.user = session[c].user
    BY <1>1, OneMore, OpenedEdit DEF Readable, Sessions
  <1>5. CASE Select_Work(c)
    <2>1. \/ Send(c, fresh, "READY_LOGIN")
          \/ Send(c, fresh, "READY_SIGNUP")
          \/ Close(c)
          \/ WrongInput(c, session[c].retry + 1 < MAX_TRIES, "SELECT_ERROR")
      BY <1>5 DEF Select_Work
    <2>2. /\ "READY_LOGIN" \notin InsideReplies /\ "READY_SIGNUP" \notin InsideReplies
          /\ "SELECT_ERROR" \in Replies
      BY DEF Replies, InsideReplies
    <2> HIDE DEF fresh
    <2>3. Stays(c)
      BY <1>1, <1>2, <2>1, <2>2, SendStays, WrongInputStays, CloseStays
    <2> QED
      BY <1>5, <2>3 DEF Select_Work
  <1>6. CASE Exit_Connect(c)
    BY <1>6, CloseStays DEF Exit_Connect
  <1>7. CASE Check_User(c) \/ Signup_User(c) \/ Signup_Pass(c)
    BY <1>7, SigningStays DEF Check_User, Signup_User, Signup_Pass
  <1>8. CASE Check_Login_Pass(c)
    <2>1. \/ GivesPassword(c)
          \/ WrongInput(c, session[c].retry + 1 < MAX_TRIES, "PASS_NOT_MATCH")
      BY <1>8 DEF Check_Login_Pass, GivesPassword
    <2>2. "PASS_NOT_MATCH" \in Replies
      BY DEF Replies
    <2>3. GivesPassword(c) \/ Stays(c)
      BY <1>1, <2>1, <2>2, WrongInputStays
    <2> QED
      BY <1>8, <2>3 DEF Check_Login_Pass
  <1>9. CASE Check_Logout(c)
    <2>1. Send(c, blank, "LOGOUT_SUCCESS") /\ "LOGOUT_SUCCESS" \notin InsideReplies
      BY <1>9 DEF Check_Logout, InsideReplies
    <2> HIDE DEF blank
    <2> QED
      BY <1>3, <1>9, <2>1, SendStays DEF Check_Logout
  <1>10. CASE Confirm_Pass(c)
    <2>1. {"CONFIRM_NOT_MATCH", "SIGNUP_USER_SUCCESS"} \subseteq Replies \ InsideReplies
      BY DEF Replies, InsideReplies
    <2>2. \/ Send(c, fresh, "SIGNUP_USER_SUCCESS")
          \/ Close(c)
          \/ WrongInput(c, session[c].retry < MAX_TRIES, "CONFIRM_NOT_MATCH")
      BY <1>10 DEF Confirm_Pass
    <2> HIDE DEF fresh
    <2>3. Stays(c)
      BY <1>1, <1>2, <2>1, <2>2, SendStays, WrongInputStays, CloseStays
    <2>4. \/ database' = database
          \/ \E r \in Records : database' = Append(database, r)
      BY <1>10, ConfirmAppends
    <2> QED
      BY <1>10, <2>3, <2>4 DEF Registers, Confirm_Pass
  <1>11. CASE Plays(c)
    <2>1. IsInside(session[c])
      BY <1>11 DEF Plays, Start_Game, Check_Color, Check_Run, End_Game,
                   Send_Result, NextLine, Received, IsInside, InsideRequests
    <2>2. \/ \E r \in InsideReplies : Send(c, session[c], r)
          \/ Readable(c) /\ Send(c, more, "FILE_LOG")
          \/ Close(c)
          \/ Spin(c)
      BY <1>11 DEF Plays, Start_Game, Check_Color, Check_Run, End_Game,
                   Send_Result, NextLine, InsideReplies
    <2> HIDE DEF more
    <2>3. Stays(c)
      BY <1>1, <1>4, <2>1, <2>2, SendStays, CloseStays, SpinStays
    <2> QED
      BY <1>11, <2>3 DEF Plays, Start_Game, Check_Color, Check_Run, End_Game,
                         Send_Result, NextLine
  <1> QED
    BY <1>5, <1>6, <1>7, <1>8, <1>9, <1>10, <1>11 DEF Check_Mess, Plays

LEMMA ClientStays ==
  ASSUME IInv, NEW c \in Clients, check_buff(c)
  PROVE  Stays(c)
  <1>1. PICK op, S : Ask(c, op, S) /\ (op \in InsideRequests => IsInside(session[c]))
    BY DEF check_buff, menu, leave, authenticated_menu, lg_user, lg_pass, sgup_user,
           sgup_pass, confirm_pass, game_ready, select_run, select_warning, you_win,
           printf_log, Replied, IsInside, InsideRequests, InsideReplies
  <1>2. session \in [Clients -> Sessions]
    BY DEF IInv, TypeOK
  <1> QED
    BY <1>1, <1>2, AskStays

-----------------------------------------------------------------------------
\* Of two first lines of a name, neither is before the other.
LEMMA OneAccountPerName ==
  ASSUME database \in Seq(Records) PROVE Gate!OneEach(Accounts)
  <1> SUFFICES ASSUME NEW a \in Accounts, NEW b \in Accounts,
                      a.username = b.username
               PROVE  a = b
    BY DEF Gate!OneEach
  <1>1. DOMAIN database = 1..Len(database) /\ Len(database) \in Nat
    OBVIOUS
  <1>2. PICK i \in DOMAIN database : a = database[i] /\ IsFirst(i, a.username)
    BY DEF Accounts
  <1>3. PICK j \in DOMAIN database : b = database[j] /\ IsFirst(j, b.username)
    BY DEF Accounts
  <1>4. ~(i < j) /\ ~(j < i)
    BY <1>1, <1>2, <1>3 DEF IsFirst
  <1> QED
    BY <1>1, <1>2, <1>3, <1>4

\* Where a client is, as the abstract specification sees it.
Place(d) == IF Inside(d) THEN session[d].user ELSE None

LEMMA StayingIsLeaving ==
  ASSUME NEW c \in Clients, session \in [Clients -> Sessions], Stays(c)
  PROVE  LET inside == [d \in Clients |-> Place(d)]
         IN inside' = inside \/ inside' = [inside EXCEPT ![c] = None]
  <1>1. PICK t : /\ session' = [session EXCEPT ![c] = t]
                 /\ IsInside(t) => IsInside(session[c]) /\ t.user = session[c].user
    BY DEF Stays
  <1>2. \A d \in Clients : session'[d] = IF d = c THEN t ELSE session[d]
    BY <1>1
  <1>3. \A d \in Clients : d # c => Place(d)' = Place(d)
    BY <1>2 DEF Place, Inside
  <1>4. Place(c)' = None \/ Place(c)' = Place(c)
    BY <1>1, <1>2 DEF Place, Inside, IsInside
  <1>5. CASE Place(c)' = None
    BY <1>3, <1>5
  <1>6. CASE Place(c)' = Place(c)
    BY <1>3, <1>6
  <1> QED
    BY <1>4, <1>5, <1>6

LEMMA StayingIsAllowed ==
  ASSUME IInv, NEW c \in Clients, Stays(c), Accounts' = Accounts
  PROVE  Gate!Next
  <1> DEFINE inside == [d \in Clients |-> Place(d)]
  <1>1. inside' = inside \/ inside' = [inside EXCEPT ![c] = None]
    BY StayingIsLeaving DEF IInv, TypeOK
  <1>2. CASE inside' = inside
    BY <1>2 DEF Gate!Next, Place
  <1>3. CASE inside' = [inside EXCEPT ![c] = None]
    BY <1>3 DEF Gate!Next, Gate!Leave, Place
  <1> QED
    BY <1>1, <1>2, <1>3

LEMMA RegisteringIsOpening ==
  ASSUME IInv, NEW c \in Clients, Registers(c)
  PROVE  Gate!Next
  <1> DEFINE inside == [d \in Clients |-> Place(d)]
  <1>1. session \in [Clients -> Sessions] /\ database \in Seq(Records)
    BY DEF IInv, TypeOK
  <1>2. session[c].reply = None
    BY ServesWhatItReceived DEF Registers
  <1>3. Place(c) = None
    <2>1. None \notin InsideReplies
      BY InputAssumption
    <2> QED
      BY <1>2, <2>1 DEF Place, Inside, Registers, Received, InsideRequests
  <1>4. inside' = inside \/ inside' = [inside EXCEPT ![c] = None]
    BY <1>1, StayingIsLeaving DEF Registers
  <1>5. inside' = inside
    BY <1>3, <1>4
  <1>6. PICK r \in Records : database' = Append(database, r)
    BY DEF Registers
  <1>7. /\ Accounts \subseteq Accounts'
        /\ Accounts' \subseteq Accounts \cup {r}
        /\ r \in Accounts' \ Accounts =>
             \A b \in Accounts : b.username # r.username
    BY <1>1, <1>6, AppendKeepsAccounts
  <1>8. CASE r \in Accounts' \ Accounts
    <2>1. Accounts' = Accounts \cup {r}
      BY <1>7, <1>8
    <2>2. Gate!Open
      BY <1>7, <1>8, <2>1 DEF Gate!Open
    <2> QED
      BY <1>5, <2>2 DEF Gate!Next, Place
  <1>9. CASE r \notin Accounts' \ Accounts
    <2>1. Accounts' = Accounts
      BY <1>7, <1>9
    <2> QED
      BY <1>5, <2>1 DEF Gate!Next, Place
  <1> QED
    BY <1>8, <1>9

LEMMA GivingIsEntering ==
  ASSUME IInv, NEW c \in Clients, GivesPassword(c), database' = database
  PROVE  Gate!Next
  <1> DEFINE inside == [d \in Clients |-> Place(d)]
             given  == [d \in Clients |-> Given(d)]
             s      == [session[c] EXCEPT !.retry = 0]
             t      == [s EXCEPT !.reply = "LOGIN_SUCCESS", !.request = NoRequest]
  <1>1. session \in [Clients -> Sessions] /\ session[c] \in Sessions
    BY DEF IInv, TypeOK
  <1>2. session[c].reply = None /\ session[c].user \in Accounts
    BY ServesWhatItReceived DEF GivesPassword
  <1>3. Place(c) = None
    <2>1. None \notin InsideReplies
      BY InputAssumption
    <2> QED
      BY <1>2, <2>1 DEF Place, Inside, GivesPassword, Received, InsideRequests
  <1>4. Given(c) = session[c].user.password
    BY DEF Given, GivesPassword, Received, Typed
  <1>5. session' = [session EXCEPT ![c] = t]
    BY DEF GivesPassword, Send
  <1>6. t.reply = "LOGIN_SUCCESS" /\ t.user = session[c].user
    BY <1>1 DEF Sessions
  <1> HIDE DEF t
  <1>7. \A d \in Clients : Place(d)' = IF d = c THEN session[c].user ELSE Place(d)
    BY <1>1, <1>5, <1>6 DEF Place, Inside, InsideReplies
  <1>8. inside' = [inside EXCEPT ![c] = session[c].user]
    BY <1>7
  <1>9. Accounts' = Accounts
    BY SameFileSameAccounts
  <1>10. inside[c] = None /\ given[c] = session[c].user.password
    BY <1>3, <1>4
  <1>11. Gate!Enter(c)
    BY <1>2, <1>8, <1>10 DEF Gate!Enter, Place
  <1> QED
    BY <1>9, <1>11 DEF Gate!Next

\* Every step of the sessions is one of the gatekeeper, or leaves it alone.
LEMMA GateInit == Init => Gate!Init
  <1> SUFFICES ASSUME Init PROVE Gate!Init
    OBVIOUS
  <1>1. Gate!OneEach(Accounts)
    BY FileAssumption, OneAccountPerName DEF Init
  <1>2. \A c \in Clients : ~Inside(c) /\ Given(c) = None
    BY InputAssumption
    DEF Init, NoSession, NoRequest, Inside, Given, InsideRequests
  <1> QED
    BY <1>1, <1>2 DEF Gate!Init

LEMMA GateNext == IInv /\ [Next]_vars => [Gate!Next]_Gate!vars
  <1> SUFFICES ASSUME IInv, [Next]_vars PROVE [Gate!Next]_Gate!vars
    OBVIOUS
  <1>1. CASE Next
    <2>1. PICK c \in Clients :
            Connect(c) \/ Check_Mess(c) \/ check_buff(c) \/ Vanish(c)
      BY <1>1 DEF Next
    <2>2. CASE Connect(c)
      <3> DEFINE t == [NoSession EXCEPT !.state = "serving", !.reply = "HELLO"]
      <3>1. t.reply = "HELLO" /\ t.request = NoRequest
        BY DEF NoSession
      <3>2. session' = [session EXCEPT ![c] = t]
        BY <2>2 DEF Connect
      <3> HIDE DEF t
      <3>3. ~IsInside(t)
        BY <3>1 DEF IsInside, NoRequest, InsideRequests, InsideReplies
      <3>4. Stays(c)
        BY <3>2, <3>3 DEF Stays
      <3> QED
        BY <2>2, <3>4, StayingIsAllowed, SameFileSameAccounts DEF Connect
    <2>3. CASE Check_Mess(c)
      BY <2>3, ChildStaysOrMoves, StayingIsAllowed, RegisteringIsOpening,
         GivingIsEntering, SameFileSameAccounts
    <2>4. CASE check_buff(c)
      BY <2>4, ClientStays, ClientTakesTurn, StayingIsAllowed, SameFileSameAccounts
    <2>5. CASE Vanish(c)
      BY <2>5, CloseStays, SpinStays, StayingIsAllowed, SameFileSameAccounts
      DEF Vanish
    <2> QED
      BY <2>1, <2>2, <2>3, <2>4, <2>5
  <1>2. CASE UNCHANGED vars
    BY <1>2 DEF vars, Gate!vars, Accounts, IsFirst, Inside, Given
  <1> QED
    BY <1>1, <1>2

\* Nobody is inside without an account's password, and no account is ever
\* taken over by a second line of its name.
THEOREM ImplementsGatekeeper == Spec => KeepsGate
  BY GateInit, GateNext, Invariance, PTL DEF Spec, KeepsGate, Gate!Spec

-----------------------------------------------------------------------------
(***************************************************************************)
(* One line for a name.  A child that may still write a line has looked    *)
(* for its name, and while it is the only child nobody else writes one; a  *)
(* child that has run out of files has not looked, and cannot write.       *)
(***************************************************************************)
Pending(t) == Chooses(t) /\ t.opened < MAX_FILES /\ t.user.username \in Names

NewName(c) ==
  Pending(session[c]) =>
    \A i \in DOMAIN database : database[i].username # session[c].user.username

ChoosingReplies == {"SIGNUP_USER_ID_OK", "PASS_SHORT", "CONFIRM_PASS", "CONFIRM_NOT_MATCH"}

\* A turn that makes no name pending.
KeepsName(c) ==
  \E t : /\ session' = [session EXCEPT ![c] = t]
         /\ Pending(t) => /\ Pending(session[c])
                          /\ t.user.username = session[c].user.username

LEMMA CloseKeepsName == ASSUME NEW c \in Clients, Close(c) PROVE KeepsName(c)
  <1>1. ~Chooses(NoSession)
    BY InputAssumption DEF Chooses, NoSession, NoRequest, Replies
  <1> QED
    BY <1>1 DEF Close, KeepsName, Pending

LEMMA SpinKeepsName == ASSUME NEW c \in Clients, Spin(c) PROVE KeepsName(c)
  <1> DEFINE t == [NoSession EXCEPT !.state = "spinning"]
  <1>1. ~Chooses(t)
    BY InputAssumption DEF Chooses, NoSession, NoRequest, Replies
  <1>2. session' = [session EXCEPT ![c] = t]
    BY DEF Spin
  <1> HIDE DEF t
  <1> QED
    BY <1>1, <1>2 DEF KeepsName, Pending

LEMMA SendKeepsName ==
  ASSUME NEW c \in Clients, NEW s \in Sessions, NEW r, Send(c, s, r),
         r \in ChoosingReplies =>
           /\ Chooses(session[c]) /\ s.opened = session[c].opened
           /\ s.user.username \in {session[c].user.username, Garbage}
  PROVE  KeepsName(c)
  <1> DEFINE t == [s EXCEPT !.reply = r, !.request = NoRequest]
  <1>1. /\ t.reply = r /\ t.request = NoRequest /\ t.user = s.user
        /\ t.opened = s.opened
    BY DEF Sessions
  <1>2. session' = [session EXCEPT ![c] = t]
    BY DEF Send
  <1> HIDE DEF t
  <1>3. Chooses(t) => r \in ChoosingReplies
    BY <1>1 DEF Chooses, NoRequest, ChoosingReplies
  <1>4. Garbage \notin Names
    BY InputAssumption
  <1> QED
    BY <1>1, <1>2, <1>3, <1>4 DEF KeepsName, Pending

LEMMA WrongInputKeepsName ==
  ASSUME NEW c \in Clients, NEW r, session[c] \in Sessions,
         r \in ChoosingReplies => Chooses(session[c]),
         \/ WrongInput(c, session[c].retry < MAX_TRIES, r)
         \/ WrongInput(c, session[c].retry + 1 < MAX_TRIES, r)
  PROVE  KeepsName(c)
  <1> DEFINE n == session[c].retry + 1
             t == [session[c] EXCEPT !.retry = n]
  <1>1. (session[c].retry < MAX_TRIES /\ Send(c, t, r)) \/ Close(c)
    <2>1. n < MAX_TRIES => session[c].retry < MAX_TRIES
      BY OneMore, LimitAssumption
    <2> QED
      BY <2>1 DEF WrongInput
  <1>2. session[c].retry < MAX_TRIES => n \in 0..MAX_TRIES
    BY OneMore
  <1> HIDE DEF n
  <1>3. session[c].retry < MAX_TRIES => t \in Sessions
    BY <1>2, RetryEdit
  <1>4. t.user = session[c].user /\ t.opened = session[c].opened
    BY DEF Sessions
  <1> HIDE DEF t
  <1>5. ASSUME t \in Sessions, Send(c, t, r) PROVE KeepsName(c)
    BY <1>4, <1>5, SendKeepsName
  <1> QED
    BY <1>1, <1>3, <1>5, CloseKeepsName

LEMMA AskKeepsName ==
  ASSUME NEW c \in Clients, NEW op, NEW S, Ask(c, op, S),
         session \in [Clients -> Sessions],
         op \in {"SIGNUP_PASS", "CONFIRM_PASS"} => Chooses(session[c])
  PROVE  KeepsName(c)
  <1>1. PICK a \in S :
          session' = [session EXCEPT ![c].reply = None,
                                     ![c].request = [op |-> op, arg |-> a]]
    BY DEF Ask
  <1> DEFINE q == [op |-> op, arg |-> a]
             t == [session[c] EXCEPT !.reply = None, !.request = q]
  <1>2. session' = [session EXCEPT ![c] = t]
    BY <1>1
  <1>3. q.op = op
    OBVIOUS
  <1> HIDE DEF q
  <1>4. /\ t.reply = None /\ t.request = q /\ t.user = session[c].user
        /\ t.opened = session[c].opened
    BY DEF Sessions
  <1>5. None \notin ChoosingReplies
    BY InputAssumption DEF ChoosingReplies, Replies
  <1> HIDE DEF t
  <1>6. Chooses(t) => op \in {"SIGNUP_PASS", "CONFIRM_PASS"}
    BY <1>3, <1>4, <1>5 DEF Chooses, ChoosingReplies
  <1> QED
    BY <1>2, <1>4, <1>6 DEF KeepsName, Pending

LEMMA ClientKeepsName ==
  ASSUME IInv, NEW c \in Clients, check_buff(c)
  PROVE  KeepsName(c)
  <1>1. PICK op, S :
          Ask(c, op, S) /\ (op \in {"SIGNUP_PASS", "CONFIRM_PASS"} => Chooses(session[c]))
    BY DEF check_buff, menu, leave, authenticated_menu, lg_user, lg_pass, sgup_user,
           sgup_pass, confirm_pass, game_ready, select_run, select_warning, you_win,
           printf_log, Replied, Chooses
  <1>2. session \in [Clients -> Sessions]
    BY DEF IInv, TypeOK
  <1> QED
    BY <1>1, <1>2, AskKeepsName

\* The name that was looked for becomes pending, or the pending one is written.
TakesName(c) ==
  /\ database' = database
  /\ NotFound(c, Typed(c))
  /\ \E t : /\ session' = [session EXCEPT ![c] = t]
            /\ t.user.username = Typed(c) /\ t.opened = session[c].opened

WritesName(c) ==
  /\ KeepsName(c) /\ ~Chooses(session'[c])
  /\ Chooses(session[c]) /\ Readable(c)
  /\ \E r \in Records : /\ database' = Append(database, r)
                        /\ r.username = session[c].user.username

LEMMA SignupUserNames ==
  ASSUME IInv, NEW c \in Clients, Signup_User(c)
  PROVE  KeepsName(c) \/ TakesName(c)
  <1>1. /\ session[c] \in Sessions /\ session[c].request \in Requests
        /\ database' = database
    BY ServesWhatItReceived DEF Signup_User, Received
  <1>2. "USER_ID_NOT_INVALID" \notin ChoosingReplies
    BY DEF ChoosingReplies
  <1>3. CASE Send(c, session[c], "USER_ID_NOT_INVALID")
    BY <1>1, <1>2, <1>3, SendKeepsName
  <1>4. CASE \E i \in DOMAIN database :
               /\ Found(c, Typed(c), i)
               /\ Send(c, [session[c] EXCEPT !.opened = session[c].opened + 1],
                       "USER_ID_NOT_INVALID")
    <2> DEFINE n == session[c].opened + 1
               t == [session[c] EXCEPT !.opened = n]
    <2>1. n \in 0..MAX_FILES
      BY <1>1, <1>4, OneMore DEF Found, Readable
    <2>2. Send(c, t, "USER_ID_NOT_INVALID")
      BY <1>4
    <2> HIDE DEF n
    <2>3. t \in Sessions
      BY <1>1, <2>1, OpenedEdit
    <2> HIDE DEF t
    <2> QED
      BY <1>2, <2>2, <2>3, SendKeepsName
  <1>5. CASE /\ NotFound(c, Typed(c))
             /\ Send(c, [session[c] EXCEPT !.user = [username |-> Typed(c),
                                                     password |-> Garbage]],
                     "SIGNUP_USER_ID_OK")
    <2> DEFINE u == [username |-> Typed(c), password |-> Garbage]
               s == [session[c] EXCEPT !.user = u]
               t == [s EXCEPT !.reply = "SIGNUP_USER_ID_OK", !.request = NoRequest]
    <2>1. session' = [session EXCEPT ![c] = t]
      BY <1>5 DEF Send
    <2>2. u.username = Typed(c)
      OBVIOUS
    <2> HIDE DEF u
    <2>3. t.user = u /\ t.opened = session[c].opened
      BY <1>1 DEF Sessions
    <2> HIDE DEF t
    <2> QED
      BY <1>1, <1>5, <2>1, <2>2, <2>3 DEF TakesName
  <1> QED
    BY <1>3, <1>4, <1>5, CloseKeepsName DEF Signup_User

LEMMA SignupPassNames ==
  ASSUME IInv, NEW c \in Clients, Signup_Pass(c)
  PROVE  KeepsName(c)
  <1>1. /\ session[c] \in Sessions /\ session[c].request \in Requests
        /\ session[c].request.op = "SIGNUP_PASS"
    BY ServesWhatItReceived DEF Signup_Pass, Received
  <1>2. Chooses(session[c])
    BY <1>1 DEF Chooses
  <1>3. CASE WrongInput(c, session[c].retry < MAX_TRIES, "PASS_SHORT")
    BY <1>1, <1>2, <1>3, WrongInputKeepsName
  <1>4. ASSUME Typed(c) \notin Short \cup {Empty},
               NEW n \in {session[c].user.username, Garbage},
               Send(c, [session[c] EXCEPT !.user = [username |-> n,
                                                    password |-> Typed(c)],
                                          !.retry = 0], "CONFIRM_PASS")
        PROVE  KeepsName(c)
    <2> DEFINE u == [username |-> n, password |-> Typed(c)]
               t == [session[c] EXCEPT !.user = u, !.retry = 0]
    <2>1. Typed(c) \in Passwords
      BY <1>1, <1>4 DEF Typed, Requests, InsideRequests
    <2>2. n \in Names \cup {Garbage, Blank}
      BY <1>1 DEF Sessions, Records
    <2>3. u \in Records /\ u.username = n
      BY <2>1, <2>2 DEF Records
    <2>4. Send(c, t, "CONFIRM_PASS")
      BY <1>4
    <2> HIDE DEF u
    <2>5. t \in Sessions
      BY <1>1, <2>3, OneMore, UserRetryEdit
    <2>6. t.user = u /\ t.opened = session[c].opened
      BY <1>1 DEF Sessions
    <2> HIDE DEF t
    <2> QED
      BY <1>2, <1>4, <2>3, <2>4, <2>5, <2>6, SendKeepsName
  <1> QED
    BY <1>3, <1>4 DEF Signup_Pass

LEMMA ConfirmNames ==
  ASSUME IInv, NEW c \in Clients, Confirm_Pass(c)
  PROVE  (KeepsName(c) /\ database' = database) \/ WritesName(c)
  <1>1. /\ session[c] \in Sessions /\ session[c].request \in Requests
        /\ session[c].request.op = "CONFIRM_PASS" /\ session \in [Clients -> Sessions]
    BY ServesWhatItReceived DEF Confirm_Pass, Received, IInv, TypeOK
  <1>2. Chooses(session[c])
    BY <1>1 DEF Chooses
  <1>3. CASE WrongInput(c, session[c].retry < MAX_TRIES, "CONFIRM_NOT_MATCH")
             /\ database' = database
    BY <1>1, <1>2, <1>3, WrongInputKeepsName
  <1>4. CASE Close(c) /\ database' = database
    BY <1>4, CloseKeepsName
  <1>5. CASE /\ Typed(c) # Empty /\ Typed(c) = session[c].user.password /\ Readable(c)
             /\ Update_Database(session[c].user.username, session[c].user.password)
             /\ Send(c, [session[c] EXCEPT !.retry = 0], "SIGNUP_USER_SUCCESS")
    <2> DEFINE r == [username |-> session[c].user.username,
                     password |-> Kept[session[c].user.password]]
               fresh == [session[c] EXCEPT !.retry = 0]
               t == [fresh EXCEPT !.reply = "SIGNUP_USER_SUCCESS", !.request = NoRequest]
    <2>1. session[c].user.password \in Passwords
      BY <1>1, <1>5 DEF Typed, Requests, InsideRequests
    <2>2. Kept[session[c].user.password] \in Passwords \cup {Empty}
      BY <2>1, InputAssumption
    <2>3. session[c].user.username \in Names \cup {Garbage, Blank}
      BY <1>1 DEF Sessions, Records
    <2>4. r \in Records /\ r.username = session[c].user.username
      BY <2>2, <2>3 DEF Records
    <2>5. database' = Append(database, r)
      BY <1>5 DEF Update_Database
    <2> HIDE DEF r
    <2>6. fresh \in Sessions
      BY <1>1, RetryEdit, OneMore
    <2>7. Send(c, fresh, "SIGNUP_USER_SUCCESS")
      BY <1>5
    <2> HIDE DEF fresh
    <2>8. session' = [session EXCEPT ![c] = t]
      BY <2>7 DEF Send
    <2>9. t.reply = "SIGNUP_USER_SUCCESS" /\ t.request = NoRequest
      BY <2>6 DEF Sessions
    <2> HIDE DEF t
    <2>10. session'[c] = t
      BY <1>1, <2>8
    <2>11. ~Chooses(t)
      BY <2>9 DEF Chooses, NoRequest
    <2>12. KeepsName(c)
      BY <2>8, <2>11 DEF KeepsName, Pending
    <2> QED
      BY <1>2, <1>5, <2>4, <2>5, <2>10, <2>11, <2>12 DEF WritesName
  <1> QED
    BY <1>3, <1>4, <1>5 DEF Confirm_Pass

LEMMA ChildNames ==
  ASSUME IInv, NEW c \in Clients, Check_Mess(c)
  PROVE  (KeepsName(c) /\ database' = database) \/ TakesName(c) \/ WritesName(c)
  <1>1. session[c] \in Sessions /\ database \in Seq(Records)
    BY DEF IInv, TypeOK
  <1> DEFINE fresh == [session[c] EXCEPT !.retry = 0]
             blank == [session[c] EXCEPT !.user = NoSession.user]
             more  == [session[c] EXCEPT !.opened = session[c].opened + 1]
  <1>2. fresh \in Sessions
    BY <1>1, RetryEdit, OneMore
  <1>3. blank \in Sessions
    <2>1. NoSession.user \in Records
      BY DEF NoSession, Records
    <2> QED
      BY <1>1, <2>1, UserEdit
  <1>4. Readable(c) => more \in Sessions
    BY <1>1, OneMore, OpenedEdit DEF Readable
  <1>5. CASE Select_Work(c)
    <2>1. \/ Send(c, fresh, "READY_LOGIN")
          \/ Send(c, fresh, "READY_SIGNUP")
          \/ Close(c)
          \/ WrongInput(c, session[c].retry + 1 < MAX_TRIES, "SELECT_ERROR")
      BY <1>5 DEF Select_Work
    <2>2. {"READY_LOGIN", "READY_SIGNUP", "SELECT_ERROR"} \cap ChoosingReplies = {}
      BY DEF ChoosingReplies
    <2> HIDE DEF fresh
    <2>3. KeepsName(c)
      BY <1>1, <1>2, <2>1, <2>2, SendKeepsName, WrongInputKeepsName, CloseKeepsName
    <2> QED
      BY <1>5, <2>3 DEF Select_Work
  <1>6. CASE Exit_Connect(c)
    BY <1>6, CloseKeepsName DEF Exit_Connect
  <1>7. CASE Check_User(c)
    <2>1. ASSUME Send(c, session[c], "LOGIN_USER_NOT_EXIST") PROVE KeepsName(c)
      <3>1. "LOGIN_USER_NOT_EXIST" \notin ChoosingReplies
        BY DEF ChoosingReplies
      <3> QED
        BY <1>1, <2>1, <3>1, SendKeepsName
    <2>2. ASSUME NEW i \in DOMAIN database, Found(c, Typed(c), i),
                 Send(c, [session[c] EXCEPT !.user = database[i],
                                            !.opened = session[c].opened + 1],
                      "LOGIN_USER_ID_OK")
          PROVE  KeepsName(c)
      <3> DEFINE u == database[i]
                 n == session[c].opened + 1
                 s == [session[c] EXCEPT !.user = u]
                 t == [s EXCEPT !.opened = n]
      <3>1. u \in Records
        BY <1>1
      <3>2. n \in 0..MAX_FILES
        BY <1>1, <2>2, OneMore DEF Found, Readable
      <3>3. Send(c, t, "LOGIN_USER_ID_OK")
        BY <2>2
      <3> HIDE DEF u, n
      <3>4. s \in Sessions
        BY <1>1, <3>1, UserEdit
      <3> HIDE DEF s
      <3>5. t \in Sessions
        BY <3>2, <3>4, OpenedEdit
      <3>6. "LOGIN_USER_ID_OK" \notin ChoosingReplies
        BY DEF ChoosingReplies
      <3> HIDE DEF t
      <3> QED
        BY <3>3, <3>5, <3>6, SendKeepsName
    <2>3. KeepsName(c)
      BY <1>7, <2>1, <2>2, CloseKeepsName DEF Check_User
    <2> QED
      BY <1>7, <2>3 DEF Check_User
  <1>8. CASE Check_Login_Pass(c)
    <2>1. \/ Send(c, fresh, "LOGIN_SUCCESS")
          \/ WrongInput(c, session[c].retry + 1 < MAX_TRIES, "PASS_NOT_MATCH")
      BY <1>8 DEF Check_Login_Pass
    <2>2. "LOGIN_SUCCESS" \notin ChoosingReplies /\ "PASS_NOT_MATCH" \notin ChoosingReplies
      BY DEF ChoosingReplies
    <2> HIDE DEF fresh
    <2>3. ASSUME Send(c, fresh, "LOGIN_SUCCESS") PROVE KeepsName(c)
      BY <1>2, <2>2, <2>3, SendKeepsName
    <2>4. ASSUME WrongInput(c, session[c].retry + 1 < MAX_TRIES, "PASS_NOT_MATCH")
          PROVE  KeepsName(c)
      BY <1>1, <2>2, <2>4, WrongInputKeepsName
    <2> QED
      BY <1>8, <2>1, <2>3, <2>4 DEF Check_Login_Pass
  <1>9. CASE Check_Logout(c)
    <2>1. Send(c, blank, "LOGOUT_SUCCESS") /\ "LOGOUT_SUCCESS" \notin ChoosingReplies
      BY <1>9 DEF Check_Logout, ChoosingReplies
    <2> HIDE DEF blank
    <2> QED
      BY <1>3, <1>9, <2>1, SendKeepsName DEF Check_Logout
  <1>10. CASE Signup_User(c) \/ Signup_Pass(c)
    <2>1. database' = database
      BY <1>10 DEF Signup_User, Signup_Pass
    <2> QED
      BY <1>10, <2>1, SignupUserNames, SignupPassNames
  <1>11. CASE Confirm_Pass(c)
    BY <1>11, ConfirmNames
  <1>12. CASE Plays(c)
    <2>1. \/ \E r \in InsideReplies : Send(c, session[c], r)
          \/ Readable(c) /\ Send(c, more, "FILE_LOG")
          \/ Close(c)
          \/ Spin(c)
      BY <1>12 DEF Plays, Start_Game, Check_Color, Check_Run, End_Game,
                   Send_Result, NextLine, InsideReplies
    <2>2. InsideReplies \cap ChoosingReplies = {} /\ "FILE_LOG" \in InsideReplies
      BY DEF InsideReplies, ChoosingReplies
    <2> HIDE DEF more
    <2>3. KeepsName(c)
      BY <1>1, <1>4, <2>1, <2>2, SendKeepsName, CloseKeepsName, SpinKeepsName
    <2> QED
      BY <1>12, <2>3 DEF Plays, Start_Game, Check_Color, Check_Run, End_Game,
                         Send_Result, NextLine
  <1> QED
    BY <1>5, <1>6, <1>7, <1>8, <1>9, <1>10, <1>11, <1>12 DEF Check_Mess, Plays

\* What a turn does to the one client's pending name, and to the file.
LEMMA StepNames ==
  ASSUME IInv, NEW c \in Clients,
         Connect(c) \/ Check_Mess(c) \/ check_buff(c) \/ Vanish(c)
  PROVE  (KeepsName(c) /\ database' = database) \/ TakesName(c) \/ WritesName(c)
  <1>1. CASE Connect(c)
    <2> DEFINE t == [NoSession EXCEPT !.state = "serving", !.reply = "HELLO"]
    <2>1. ~Chooses(t)
      BY DEF Chooses, NoSession, NoRequest
    <2>2. session' = [session EXCEPT ![c] = t]
      BY <1>1 DEF Connect
    <2> HIDE DEF t
    <2> QED
      BY <1>1, <2>1, <2>2 DEF KeepsName, Pending, Connect
  <1>2. CASE Check_Mess(c)
    BY <1>2, ChildNames
  <1>3. CASE check_buff(c)
    <2>1. database' = database
      BY <1>3 DEF check_buff, menu, leave, authenticated_menu, lg_user, lg_pass, sgup_user,
             sgup_pass, confirm_pass, game_ready, select_run, select_warning, you_win,
             printf_log, Ask
    <2> QED
      BY <1>3, <2>1, ClientKeepsName
  <1>4. CASE Vanish(c)
    BY <1>4, CloseKeepsName, SpinKeepsName DEF Vanish
  <1> QED
    BY <1>1, <1>2, <1>3, <1>4

LEMMA NamesNext ==
  ASSUME \A d, e \in Clients : d = e,
         IInv, OneLinePerName, \A d \in Clients : NewName(d), [Next]_vars
  PROVE  OneLinePerName' /\ \A d \in Clients : NewName(d)'
  <1>1. CASE UNCHANGED vars
    BY <1>1 DEF vars, OneLinePerName, NewName
  <1>2. ASSUME NEW c \in Clients, Connect(c) \/ Check_Mess(c) \/ check_buff(c) \/ Vanish(c)
        PROVE  OneLinePerName' /\ NewName(c)'
    <2>1. session \in [Clients -> Sessions] /\ database \in Seq(Records)
      BY DEF IInv, TypeOK
    <2>2. NewName(c)
      OBVIOUS
    <2>3. CASE KeepsName(c) /\ database' = database
      <3>1. PICK t : /\ session' = [session EXCEPT ![c] = t]
                     /\ Pending(t) => /\ Pending(session[c])
                                      /\ t.user.username = session[c].user.username
        BY <2>3 DEF KeepsName
      <3>2. session'[c] = t
        BY <2>1, <3>1
      <3> QED
        BY <2>2, <2>3, <3>1, <3>2 DEF OneLinePerName, NewName
    <2>4. CASE TakesName(c)
      <3>1. PICK t : /\ session' = [session EXCEPT ![c] = t]
                     /\ t.user.username = Typed(c) /\ t.opened = session[c].opened
        BY <2>4 DEF TakesName
      <3>2. session'[c] = t
        BY <2>1, <3>1
      <3>3. Pending(t) => \A i \in DOMAIN database : database[i].username # t.user.username
        BY <2>4, <3>1 DEF TakesName, NotFound, Readable, Pending
      <3> QED
        BY <2>4, <3>2, <3>3 DEF TakesName, OneLinePerName, NewName
    <2>5. CASE WritesName(c)
      <3>1. PICK r \in Records : /\ database' = Append(database, r)
                                 /\ r.username = session[c].user.username
        BY <2>5 DEF WritesName
      <3> DEFINE n == Len(database)
      <3>2. /\ n \in Nat /\ DOMAIN database = 1..n /\ DOMAIN database' = 1..(n + 1)
            /\ \A i \in 1..n : database'[i] = database[i]
            /\ database'[n + 1] = r
        BY <2>1, <3>1
      <3> HIDE DEF n
      <3>3. r.username \in Names => \A i \in 1..n : database[i].username # r.username
        BY <2>2, <2>5, <3>1, <3>2 DEF WritesName, NewName, Pending, Readable
      <3>4. \A i, j \in 1..n : database[i].username \in Names
                               /\ database[i].username = database[j].username => i = j
        BY <3>2 DEF OneLinePerName
      <3>5. ASSUME NEW i \in 1..(n + 1), NEW j \in 1..(n + 1),
                   database'[i].username \in Names,
                   database'[i].username = database'[j].username
            PROVE  i = j
        <4>1. (i \in 1..n \/ i = n + 1) /\ (j \in 1..n \/ j = n + 1)
          BY <3>2
        <4> QED
          BY <3>2, <3>3, <3>4, <3>5, <4>1
      <3>6. OneLinePerName'
        BY <3>2, <3>5 DEF OneLinePerName
      <3> QED
        BY <2>5, <3>6 DEF WritesName, NewName, Pending
    <2> QED
      BY <1>2, <2>3, <2>4, <2>5, StepNames
  <1> QED
    BY <1>1, <1>2 DEF Next

(***************************************************************************)
(* While the server has one client at a time, no name typed gets a second  *)
(* line, however often it signs up (check_signup.h:37-42), and also when a *)
(* child has run out of files.  With two clients the run doc_one_line      *)
(* shows how it does.                                                      *)
(***************************************************************************)
THEOREM OneClientOneLine ==
  ASSUME \A d, e \in Clients : d = e,
         \A i, j \in DOMAIN InitialDatabase :
           InitialDatabase[i].username \in Names
           /\ InitialDatabase[i].username = InitialDatabase[j].username => i = j
  PROVE  Spec => []OneLinePerName
  <1> DEFINE Looked == \A d \in Clients : NewName(d)
  <1>1. Init => OneLinePerName /\ Looked
    <2>1. ~Chooses(NoSession)
      BY InputAssumption DEF Chooses, NoSession, NoRequest, Replies
    <2> QED
      BY <2>1 DEF Init, OneLinePerName, NewName, Pending
  <1>2. IInv /\ OneLinePerName /\ Looked /\ [Next]_vars => (OneLinePerName /\ Looked)'
    BY NamesNext
  <1> QED
    BY <1>1, <1>2, IInvInit, IInvNext, PTL DEF Spec

-----------------------------------------------------------------------------
(***************************************************************************)
(* BlockedAtTheLast: while a client is asked for a password, the child's   *)
(* `retry` is what the client got wrong, because every dialogue that leads *)
(* to the question starts it at 0.                                         *)
(***************************************************************************)
Asking(t) ==
  t.request.op = "LOGIN_PASS" \/ t.reply \in {"LOGIN_USER_ID_OK", "PASS_NOT_MATCH"}

Looking(t) ==
  \/ t.request.op \in {"LOGIN_USER", "SIGNUP_USER"}
  \/ t.reply \in {"READY_LOGIN", "READY_SIGNUP", "LOGIN_USER_NOT_EXIST", "USER_ID_NOT_INVALID"}

CountsWrong(c) ==
  /\ Looking(session[c]) => session[c].retry = 0
  /\ wrong[c] = IF Asking(session[c]) THEN session[c].retry ELSE 0
  /\ wrong[c] \in Nat

\* What a turn of the child leaves of session c, as far as the counts go.
Told(c, r, n) ==
  /\ session'[c].reply = r /\ session'[c].request = NoRequest
  /\ session'[c].retry = n /\ session'[c].state = "serving"
Left(c) ==
  /\ session'[c].reply = None /\ session'[c].request = NoRequest
  /\ session'[c].state # "serving"

LEMMA CloseLeaves ==
  ASSUME session \in [Clients -> Sessions], NEW c \in Clients, Close(c) \/ Spin(c)
  PROVE  Left(c)
  <1>1. CASE Close(c)
    BY <1>1 DEF Close, Left, NoSession
  <1>2. CASE Spin(c)
    BY <1>2 DEF Spin, Left, NoSession
  <1> QED
    BY <1>1, <1>2

LEMMA SendTells ==
  ASSUME session \in [Clients -> Sessions], NEW c \in Clients, NEW s \in Sessions, NEW r,
         Send(c, s, r), s.state = "serving"
  PROVE  Told(c, r, s.retry)
  BY DEF Send, Told, Sessions

LEMMA WrongInputTells ==
  ASSUME session \in [Clients -> Sessions], NEW c \in Clients, NEW r, NEW patient,
         WrongInput(c, patient, r), session[c].state = "serving",
         patient => session[c].retry < MAX_TRIES
  PROVE  \/ patient /\ Told(c, r, session[c].retry + 1)
         \/ ~patient /\ Left(c)
  <1> DEFINE n == session[c].retry + 1
             t == [session[c] EXCEPT !.retry = n]
  <1>1. \/ patient /\ Send(c, t, r)
        \/ ~patient /\ Close(c)
    BY DEF WrongInput
  <1>2. session[c] \in Sessions
    OBVIOUS
  <1>3. patient => n \in 0..MAX_TRIES
    BY <1>2, OneMore
  <1> HIDE DEF n
  <1>4. patient => t \in Sessions /\ t.retry = n /\ t.state = "serving"
    BY <1>2, <1>3, RetryEdit
  <1> HIDE DEF t
  <1>5. ASSUME patient, Send(c, t, r) PROVE Told(c, r, n)
    <2>1. t \in Sessions /\ t.retry = n /\ t.state = "serving"
      BY <1>4, <1>5
    <2>2. Told(c, r, t.retry)
      BY <1>5, <2>1, SendTells
    <2> QED
      BY <2>1, <2>2
  <1> QED
    BY <1>1, <1>5, CloseLeaves DEF n

\* The replies that neither ask for a password nor for a name.
Quiet == (Replies \cup InsideReplies)
           \ {"LOGIN_USER_ID_OK", "PASS_NOT_MATCH", "READY_LOGIN", "READY_SIGNUP",
              "LOGIN_USER_NOT_EXIST", "USER_ID_NOT_INVALID"}

LEMMA SelectTells ==
  ASSUME IInv, NEW c \in Clients, Select_Work(c)
  PROVE  \/ Told(c, "READY_LOGIN", 0) \/ Told(c, "READY_SIGNUP", 0)
         \/ \E r \in Quiet : \E n : Told(c, r, n)
         \/ Left(c)
  <1> DEFINE fresh == [session[c] EXCEPT !.retry = 0]
  <1>1. /\ session[c] \in Sessions /\ session[c].state = "serving"
        /\ session \in [Clients -> Sessions]
    BY ServesWhatItReceived DEF Select_Work, IInv, TypeOK
  <1>2. fresh \in Sessions /\ fresh.state = "serving" /\ fresh.retry = 0
    BY <1>1, RetryEdit, OneMore
  <1>3. \/ Send(c, fresh, "READY_LOGIN")
        \/ Send(c, fresh, "READY_SIGNUP")
        \/ Close(c)
        \/ WrongInput(c, session[c].retry + 1 < MAX_TRIES, "SELECT_ERROR")
    BY DEF Select_Work
  <1> HIDE DEF fresh
  <1>4. ASSUME NEW r \in {"READY_LOGIN", "READY_SIGNUP"}, Send(c, fresh, r)
        PROVE  Told(c, r, 0)
    <2>1. Told(c, r, fresh.retry)
      BY <1>1, <1>2, <1>4, SendTells
    <2> QED
      BY <1>2, <2>1
  <1>5. ASSUME WrongInput(c, session[c].retry + 1 < MAX_TRIES, "SELECT_ERROR")
        PROVE  Told(c, "SELECT_ERROR", session[c].retry + 1) \/ Left(c)
    <2>1. session[c].retry + 1 < MAX_TRIES => session[c].retry < MAX_TRIES
      BY <1>1, OneMore, LimitAssumption
    <2> QED
      BY <1>1, <1>5, <2>1, WrongInputTells
  <1>6. "SELECT_ERROR" \in Quiet
    BY DEF Quiet, Replies, InsideReplies
  <1> QED
    BY <1>1, <1>3, <1>4, <1>5, <1>6, CloseLeaves

LEMMA CheckUserTells ==
  ASSUME IInv, NEW c \in Clients, Check_User(c)
  PROVE  \/ \E r \in {"LOGIN_USER_NOT_EXIST", "LOGIN_USER_ID_OK"} : Told(c, r, session[c].retry)
         \/ Left(c)
  <1>1. /\ session[c] \in Sessions /\ session[c].state = "serving"
        /\ session \in [Clients -> Sessions] /\ database \in Seq(Records)
    BY ServesWhatItReceived DEF Check_User, IInv, TypeOK
  <1>2. CASE Send(c, session[c], "LOGIN_USER_NOT_EXIST")
    BY <1>1, <1>2, SendTells
  <1>3. ASSUME NEW i \in DOMAIN database, Found(c, Typed(c), i),
               Send(c, [session[c] EXCEPT !.user = database[i],
                                          !.opened = session[c].opened + 1],
                    "LOGIN_USER_ID_OK")
        PROVE  Told(c, "LOGIN_USER_ID_OK", session[c].retry)
    <2> DEFINE u == database[i]
               n == session[c].opened + 1
               s == [session[c] EXCEPT !.user = u]
               t == [s EXCEPT !.opened = n]
    <2>1. u \in Records
      BY <1>1
    <2>2. n \in 0..MAX_FILES
      BY <1>1, <1>3, OneMore DEF Found, Readable
    <2>3. Send(c, t, "LOGIN_USER_ID_OK")
      BY <1>3
    <2> HIDE DEF u, n
    <2>4. s \in Sessions /\ s.retry = session[c].retry /\ s.state = "serving"
      BY <1>1, <2>1, UserEdit
    <2> HIDE DEF s
    <2>5. t \in Sessions /\ t.retry = session[c].retry /\ t.state = "serving"
      BY <2>2, <2>4, OpenedEdit
    <2> HIDE DEF t
    <2>6. Told(c, "LOGIN_USER_ID_OK", t.retry)
      BY <1>1, <2>3, <2>5, SendTells
    <2> QED
      BY <2>5, <2>6
  <1> QED
    BY <1>1, <1>2, <1>3, CloseLeaves DEF Check_User

LEMMA CheckLoginTells ==
  ASSUME IInv, NEW c \in Clients, Check_Login_Pass(c)
  PROVE  \/ Told(c, "LOGIN_SUCCESS", 0)
         \/ session[c].retry + 1 < MAX_TRIES /\ Told(c, "PASS_NOT_MATCH", session[c].retry + 1)
         \/ ~(session[c].retry + 1 < MAX_TRIES) /\ Left(c)
  <1> DEFINE fresh == [session[c] EXCEPT !.retry = 0]
  <1>1. /\ session[c] \in Sessions /\ session[c].state = "serving"
        /\ session \in [Clients -> Sessions]
    BY ServesWhatItReceived DEF Check_Login_Pass, IInv, TypeOK
  <1>2. fresh \in Sessions /\ fresh.state = "serving" /\ fresh.retry = 0
    BY <1>1, RetryEdit, OneMore
  <1>3. \/ Send(c, fresh, "LOGIN_SUCCESS")
        \/ WrongInput(c, session[c].retry + 1 < MAX_TRIES, "PASS_NOT_MATCH")
    BY DEF Check_Login_Pass
  <1> HIDE DEF fresh
  <1>4. ASSUME Send(c, fresh, "LOGIN_SUCCESS") PROVE Told(c, "LOGIN_SUCCESS", 0)
    <2>1. Told(c, "LOGIN_SUCCESS", fresh.retry)
      BY <1>1, <1>2, <1>4, SendTells
    <2> QED
      BY <1>2, <2>1
  <1>5. session[c].retry + 1 < MAX_TRIES => session[c].retry < MAX_TRIES
    BY <1>1, OneMore, LimitAssumption
  <1> QED
    BY <1>1, <1>3, <1>4, <1>5, WrongInputTells

LEMMA SignupUserTells ==
  ASSUME IInv, NEW c \in Clients, Signup_User(c)
  PROVE  \/ \E r \in {"USER_ID_NOT_INVALID", "SIGNUP_USER_ID_OK"} : Told(c, r, session[c].retry)
         \/ Left(c)
  <1>1. /\ session[c] \in Sessions /\ session[c].state = "serving"
        /\ session[c].request \in Requests /\ session[c].request.op = "SIGNUP_USER"
        /\ session \in [Clients -> Sessions]
    BY ServesWhatItReceived DEF Signup_User, Received, IInv, TypeOK
  <1>2. CASE Send(c, session[c], "USER_ID_NOT_INVALID")
    BY <1>1, <1>2, SendTells
  <1>3. CASE Readable(c) /\ Send(c, [session[c] EXCEPT !.opened = session[c].opened + 1],
                                 "USER_ID_NOT_INVALID")
    <2> DEFINE n == session[c].opened + 1
               t == [session[c] EXCEPT !.opened = n]
    <2>1. n \in 0..MAX_FILES
      BY <1>1, <1>3, OneMore DEF Readable
    <2>2. Send(c, t, "USER_ID_NOT_INVALID")
      BY <1>3
    <2> HIDE DEF n
    <2>3. t \in Sessions /\ t.retry = session[c].retry /\ t.state = "serving"
      BY <1>1, <2>1, OpenedEdit
    <2> HIDE DEF t
    <2>4. Told(c, "USER_ID_NOT_INVALID", t.retry)
      BY <1>1, <2>2, <2>3, SendTells
    <2> QED
      BY <2>3, <2>4
  <1>4. CASE Typed(c) # Empty /\ Send(c, [session[c] EXCEPT !.user = [username |-> Typed(c),
                                                     password |-> Garbage]],
                     "SIGNUP_USER_ID_OK")
    <2> DEFINE u == [username |-> Typed(c), password |-> Garbage]
               s == [session[c] EXCEPT !.user = u]
    <2>1. u \in Records
      BY <1>1, <1>4 DEF Typed, Requests, InsideRequests, Records
    <2>2. Send(c, s, "SIGNUP_USER_ID_OK")
      BY <1>4
    <2> HIDE DEF u
    <2>3. s \in Sessions /\ s.retry = session[c].retry /\ s.state = "serving"
      BY <1>1, <2>1, UserEdit
    <2> HIDE DEF s
    <2>4. Told(c, "SIGNUP_USER_ID_OK", s.retry)
      BY <1>1, <2>2, <2>3, SendTells
    <2> QED
      BY <2>3, <2>4
  <1> QED
    BY <1>1, <1>2, <1>3, <1>4, CloseLeaves DEF Signup_User, Found

\* The other handlers answer quietly, or the child is gone.
LEMMA OthersTell ==
  ASSUME IInv, NEW c \in Clients,
         \/ Exit_Connect(c) \/ Check_Logout(c) \/ Signup_Pass(c) \/ Confirm_Pass(c) \/ Plays(c)
  PROVE  Left(c) \/ \E r \in Quiet : \E n : Told(c, r, n)
  <1>1. PICK op : Received(c, op) /\ op # "none"
    BY DEF Exit_Connect, Check_Logout, Signup_Pass, Confirm_Pass, Plays, Start_Game, Check_Color,
           Check_Run, End_Game, Send_Result, NextLine
  <1>2. /\ session[c] \in Sessions /\ session[c].state = "serving"
        /\ session[c].request \in Requests
        /\ session \in [Clients -> Sessions]
    BY <1>1, ServesWhatItReceived DEF IInv, TypeOK
  <1> DEFINE fresh == [session[c] EXCEPT !.retry = 0]
             blank == [session[c] EXCEPT !.user = NoSession.user]
             more  == [session[c] EXCEPT !.opened = session[c].opened + 1]
  <1>3. fresh \in Sessions /\ fresh.state = "serving"
    BY <1>2, RetryEdit, OneMore
  <1>4. blank \in Sessions /\ blank.state = "serving"
    <2>1. NoSession.user \in Records
      BY DEF NoSession, Records
    <2> QED
      BY <1>2, <2>1, UserEdit
  <1>5. Readable(c) => more \in Sessions /\ more.state = "serving"
    BY <1>2, OneMore, OpenedEdit DEF Readable
  <1>6. /\ InsideReplies \subseteq Quiet /\ "FILE_LOG" \in Quiet
        /\ {"LOGOUT_SUCCESS", "PASS_SHORT", "CONFIRM_PASS", "CONFIRM_NOT_MATCH",
            "SIGNUP_USER_SUCCESS"} \subseteq Quiet
    BY DEF Quiet, Replies, InsideReplies
  <1>7. ASSUME NEW r \in Quiet, NEW s \in Sessions, s.state = "serving", Send(c, s, r)
        PROVE  \E n : Told(c, r, n)
    BY <1>2, <1>7, SendTells
  <1>8. ASSUME NEW r \in Quiet, WrongInput(c, session[c].retry < MAX_TRIES, r)
        PROVE  Left(c) \/ \E n : Told(c, r, n)
    BY <1>2, <1>8, WrongInputTells
  <1>9. CASE Exit_Connect(c)
    BY <1>2, <1>9, CloseLeaves DEF Exit_Connect
  <1>10. CASE Check_Logout(c)
    <2>1. Send(c, blank, "LOGOUT_SUCCESS")
      BY <1>10 DEF Check_Logout
    <2> HIDE DEF blank
    <2> QED
      BY <1>4, <1>6, <1>7, <2>1
  <1>11. CASE Signup_Pass(c)
    <2>1. ASSUME NEW n \in {session[c].user.username, Garbage}, Typed(c) \notin Short \cup {Empty},
                 Send(c, [session[c] EXCEPT !.user = [username |-> n,
                                                      password |-> Typed(c)],
                                            !.retry = 0], "CONFIRM_PASS")
          PROVE  \E m : Told(c, "CONFIRM_PASS", m)
      <3> DEFINE u == [username |-> n, password |-> Typed(c)]
                 t == [session[c] EXCEPT !.user = u, !.retry = 0]
      <3>1. Typed(c) \in Passwords
        BY <1>2, <1>11, <2>1 DEF Signup_Pass, Received, Typed, Requests, InsideRequests
      <3>2. n \in Names \cup {Garbage, Blank}
        BY <1>2 DEF Sessions, Records
      <3>3. u \in Records
        BY <3>1, <3>2 DEF Records
      <3>4. Send(c, t, "CONFIRM_PASS")
        BY <2>1
      <3> HIDE DEF u
      <3>5. t \in Sessions /\ t.state = "serving"
        BY <1>2, <3>3, OneMore, UserRetryEdit
      <3> HIDE DEF t
      <3> QED
        BY <1>6, <1>7, <3>4, <3>5
    <2> QED
      BY <1>6, <1>8, <1>11, <2>1 DEF Signup_Pass
  <1>12. CASE Confirm_Pass(c)
    <2>1. \/ Send(c, fresh, "SIGNUP_USER_SUCCESS")
          \/ Close(c)
          \/ WrongInput(c, session[c].retry < MAX_TRIES, "CONFIRM_NOT_MATCH")
      BY <1>12 DEF Confirm_Pass
    <2> HIDE DEF fresh
    <2> QED
      BY <1>2, <1>3, <1>6, <1>7, <1>8, <2>1, CloseLeaves
  <1>13. CASE Plays(c)
    <2>1. \/ \E r \in InsideReplies : Send(c, session[c], r)
          \/ Readable(c) /\ Send(c, more, "FILE_LOG")
          \/ Close(c)
          \/ Spin(c)
      BY <1>13 DEF Plays, Start_Game, Check_Color, Check_Run, End_Game,
                   Send_Result, NextLine, InsideReplies
    <2> HIDE DEF more
    <2> QED
      BY <1>2, <1>5, <1>6, <1>7, <2>1, CloseLeaves
  <1> QED
    BY <1>9, <1>10, <1>11, <1>12, <1>13

\* What an answer of the client's user leaves of it.
Asks(c) ==
  /\ session[c].request = NoRequest /\ session'[c].reply = None
  /\ session'[c].retry = session[c].retry /\ session'[c].state = "serving"
  /\ session'[c].request.op = "LOGIN_PASS"
       <=> session[c].reply \in {"LOGIN_USER_ID_OK", "PASS_NOT_MATCH"}
  /\ session'[c].request.op \in {"LOGIN_USER", "SIGNUP_USER"} => Looking(session[c])

LEMMA AskAsks ==
  ASSUME IInv, NEW c \in Clients, NEW op, NEW S, NEW R,
         Replied(c, R), Ask(c, op, S), None \notin R,
         op = "LOGIN_PASS" => R \subseteq {"LOGIN_USER_ID_OK", "PASS_NOT_MATCH"},
         op # "LOGIN_PASS" => R \cap {"LOGIN_USER_ID_OK", "PASS_NOT_MATCH"} = {},
         op \in {"LOGIN_USER", "SIGNUP_USER"} =>
           R \subseteq {"READY_LOGIN", "READY_SIGNUP", "LOGIN_USER_NOT_EXIST",
                        "USER_ID_NOT_INVALID"}
  PROVE  Asks(c)
  <1>1. PICK a \in S :
          session' = [session EXCEPT ![c].reply = None,
                                     ![c].request = [op |-> op, arg |-> a]]
    BY DEF Ask
  <1> DEFINE q == [op |-> op, arg |-> a]
  <1>2. session \in [Clients -> Sessions]
    BY DEF IInv, TypeOK
  <1>3. q.op = op
    OBVIOUS
  <1>4. session' = [session EXCEPT ![c].reply = None, ![c].request = q]
    BY <1>1
  <1> HIDE DEF q
  <1>5. /\ session'[c].reply = None /\ session'[c].request = q
        /\ session'[c].retry = session[c].retry /\ session'[c].state = session[c].state
    BY <1>2, <1>4 DEF Sessions
  <1>6. session[c].reply \in R /\ session[c].reply # None
    BY DEF Replied
  <1>7. session[c].state = "serving" /\ session[c].request = NoRequest
    BY <1>6 DEF IInv, TakeTurns
  <1> QED
    BY <1>3, <1>5, <1>6, <1>7 DEF Asks, Looking

LEMMA ClientAsks ==
  ASSUME IInv, NEW c \in Clients, check_buff(c)
  PROVE  Asks(c)
  <1>1. None \notin Replies \cup InsideReplies
    BY InputAssumption
  <1> USE <1>1
  <1>2. CASE menu(c)
    <2>1. Replied(c, {"HELLO", "SELECT_ERROR", "SIGNUP_USER_SUCCESS", "LOGOUT_SUCCESS"}) /\ Ask(c, "SELECT_WORK", Choices)
      BY <1>2 DEF menu
    <2> QED
      BY <2>1, AskAsks DEF Replies, InsideReplies
  <1>3. CASE lg_user(c)
    <2>1. Replied(c, {"READY_LOGIN", "LOGIN_USER_NOT_EXIST"}) /\ Ask(c, "LOGIN_USER", Names \cup {Empty})
      BY <1>3 DEF lg_user
    <2> QED
      BY <2>1, AskAsks DEF Replies, InsideReplies
  <1>4. CASE sgup_user(c)
    <2>1. Replied(c, {"READY_SIGNUP", "USER_ID_NOT_INVALID", "LOGIN_USER_NOT_EXIST"}) /\ Ask(c, "SIGNUP_USER", Names \cup {Empty})
      BY <1>4 DEF sgup_user
    <2> QED
      BY <2>1, AskAsks DEF Replies, InsideReplies
  <1>5. CASE lg_pass(c)
    <2>1. Replied(c, {"LOGIN_USER_ID_OK", "PASS_NOT_MATCH"}) /\ Ask(c, "LOGIN_PASS", Passwords \cup {Empty})
      BY <1>5 DEF lg_pass
    <2> QED
      BY <2>1, AskAsks DEF Replies, InsideReplies
  <1>6. CASE sgup_pass(c)
    <2>1. Replied(c, {"SIGNUP_USER_ID_OK", "PASS_SHORT"}) /\ Ask(c, "SIGNUP_PASS", Passwords \cup {Empty})
      BY <1>6 DEF sgup_pass
    <2> QED
      BY <2>1, AskAsks DEF Replies, InsideReplies
  <1>7. CASE confirm_pass(c)
    <2>1. Replied(c, {"CONFIRM_PASS", "CONFIRM_NOT_MATCH"}) /\ Ask(c, "CONFIRM_PASS", Passwords \cup {Empty})
      BY <1>7 DEF confirm_pass
    <2> QED
      BY <2>1, AskAsks DEF Replies, InsideReplies
  <1>8. CASE leave(c)
    <2>1. Replied(c, {"LOGIN_USER_NOT_EXIST", "LOGIN_SUCCESS", "EXIT_FILE_LOG"}) /\ Ask(c, "EXIT", {None})
      BY <1>8 DEF leave
    <2> QED
      BY <2>1, AskAsks DEF Replies, InsideReplies
  <1>9. CASE game_ready(c)
    <2>1. Replied(c, {"READY_GAME"}) /\ Ask(c, "COLOR", {"1", "2"})
      BY <1>9 DEF game_ready
    <2> QED
      BY <2>1, AskAsks DEF Replies, InsideReplies
  <1>10. CASE select_run(c)
    <2>1. Replied(c, {"COLOR_OK", "RUN", "RUN_W", "RUN_ERROR"}) /\ Ask(c, "RUN", {None})
      BY <1>10 DEF select_run
    <2> QED
      BY <2>1, AskAsks DEF Replies, InsideReplies
  <1>11. CASE select_warning(c)
    <2>1. Replied(c, {"RUN_W"}) /\ Ask(c, "END_RUN", {None})
      BY <1>11 DEF select_warning
    <2> QED
      BY <2>1, AskAsks DEF Replies, InsideReplies
  <1>12. CASE you_win(c)
    <2>1. Replied(c, {"YOU_WIN", "COMPUTER_WIN"}) /\ Ask(c, "RESULT", {None})
      BY <1>12 DEF you_win
    <2> QED
      BY <2>1, AskAsks DEF Replies, InsideReplies
  <1>13. CASE printf_log(c)
    <2>1. Replied(c, {"FILE_LOG"}) /\ Ask(c, "RECV_OK", {None})
      BY <1>13 DEF printf_log
    <2> QED
      BY <2>1, AskAsks DEF Replies, InsideReplies
  <1>14. CASE authenticated_menu(c)
    <2>1. PICK op \in {"START_GAME", "LOGOUT"} : Ask(c, op, {None})
      BY <1>14 DEF authenticated_menu
    <2>2. Replied(c, {"LOGIN_SUCCESS", "EXIT_FILE_LOG"})
      BY <1>14 DEF authenticated_menu
    <2> QED
      BY <2>1, <2>2, AskAsks DEF Replies, InsideReplies
  <1> QED
    BY <1>2, <1>3, <1>4, <1>5, <1>6, <1>7, <1>8, <1>9, <1>10, <1>11, <1>12, <1>13, <1>14 DEF check_buff

\* CountWrong for c, and what the step owes: the count of the next state, and
\* the verdict of BlockedAtTheLast.
Tally(c) ==
  wrong'[c] = IF Missed(c) /\ session'[c].state = "serving" THEN wrong[c] + 1
              ELSE IF Tried(c) \/ session'[c].state # "serving" THEN 0
              ELSE wrong[c]

InTime(c) ==
  Missed(c) => (session'[c].state # "serving") = (wrong[c] + 1 = MAX_TRIES)

LEMMA NobodyAskedCounts ==
  ASSUME NEW c \in Clients, CountsWrong(c), Tally(c),
         session[c].request.op # "LOGIN_PASS",
         session'[c].state = "serving" => ~Asking(session[c])
  PROVE  wrong'[c] = 0 /\ InTime(c)
  BY DEF CountsWrong, Tally, Tried, Missed, InTime

LEMMA ToldCounts ==
  ASSUME NEW c \in Clients, CountsWrong(c), Tally(c), ~Asking(session[c]),
         NEW r \in Replies \cup InsideReplies, NEW n, Told(c, r, n),
         r # "PASS_NOT_MATCH", r \notin Quiet => n = 0
  PROVE  CountsWrong(c)' /\ InTime(c)
  <1>1. wrong'[c] = 0 /\ InTime(c)
    BY NobodyAskedCounts DEF Asking
  <1>2. Asking(session'[c]) => r = "LOGIN_USER_ID_OK"
    BY DEF Told, NoRequest, Asking
  <1>3. Looking(session'[c]) => r \notin Quiet
    BY DEF Told, NoRequest, Looking, Quiet
  <1>4. r = "LOGIN_USER_ID_OK" => r \notin Quiet
    BY DEF Quiet
  <1> QED
    BY <1>1, <1>2, <1>3, <1>4 DEF CountsWrong, Told

LEMMA LeftCounts ==
  ASSUME NEW c \in Clients, CountsWrong(c), Tally(c), Left(c),
         session[c].request.op # "LOGIN_PASS"
  PROVE  CountsWrong(c)' /\ InTime(c)
  <1>1. wrong'[c] = 0 /\ InTime(c)
    BY NobodyAskedCounts DEF Left
  <1>2. ~Asking(session'[c]) /\ ~Looking(session'[c])
    BY InputAssumption DEF Left, NoRequest, Asking, Looking, Replies
  <1> QED
    BY <1>1, <1>2 DEF CountsWrong

LEMMA LoginCounts ==
  ASSUME IInv, NEW c \in Clients, CountsWrong(c), Tally(c), Check_Login_Pass(c)
  PROVE  CountsWrong(c)' /\ InTime(c)
  <1>1. session[c].request.op = "LOGIN_PASS"
    BY DEF Check_Login_Pass, Received
  <1>2. session[c].retry \in Nat /\ session[c].retry < MAX_TRIES
    BY <1>1, ServesWhatItReceived DEF Received, Sessions
  <1>3. wrong[c] = session[c].retry
    BY <1>1 DEF CountsWrong, Asking
  <1>4. CASE Told(c, "LOGIN_SUCCESS", 0)
    <2>1. Tried(c) /\ ~Missed(c)
      BY <1>1, <1>4 DEF Tried, Missed, Told, NoRequest
    <2>2. wrong'[c] = 0 /\ InTime(c)
      BY <2>1 DEF Tally, InTime
    <2>3. ~Asking(session'[c]) /\ ~Looking(session'[c])
      BY <1>4 DEF Told, NoRequest, Asking, Looking
    <2> QED
      BY <2>2, <2>3 DEF CountsWrong
  <1>5. CASE session[c].retry + 1 < MAX_TRIES /\ Told(c, "PASS_NOT_MATCH", session[c].retry + 1)
    <2>1. Missed(c) /\ session'[c].state = "serving"
      BY <1>1, <1>5 DEF Tried, Missed, Told, NoRequest
    <2>2. wrong'[c] = wrong[c] + 1
      BY <2>1 DEF Tally
    <2>3. session[c].retry + 1 # MAX_TRIES
      BY <1>2, <1>5, LimitAssumption
    <2>4. InTime(c)
      BY <1>3, <2>1, <2>3 DEF InTime
    <2>5. Asking(session'[c]) /\ ~Looking(session'[c]) /\ session'[c].retry = session[c].retry + 1
      BY <1>5 DEF Told, NoRequest, Asking, Looking
    <2>6. wrong'[c] \in Nat
      BY <1>2, <1>3, <2>2
    <2> QED
      BY <1>3, <2>2, <2>4, <2>5, <2>6 DEF CountsWrong
  <1>6. CASE ~(session[c].retry + 1 < MAX_TRIES) /\ Left(c)
    <2>1. session'[c].state # "serving"
      BY <1>6 DEF Left
    <2>2. wrong'[c] = 0
      BY <2>1 DEF Tally
    <2>3. session[c].retry + 1 = MAX_TRIES
      BY <1>2, <1>6, LimitAssumption
    <2>4. InTime(c)
      BY <1>3, <2>1, <2>3 DEF InTime
    <2>5. ~Asking(session'[c]) /\ ~Looking(session'[c])
      BY <1>6, InputAssumption DEF Left, NoRequest, Asking, Looking, Replies
    <2> QED
      BY <2>2, <2>4, <2>5 DEF CountsWrong
  <1> QED
    BY <1>4, <1>5, <1>6, CheckLoginTells

LEMMA ClientCounts ==
  ASSUME IInv, NEW c \in Clients, CountsWrong(c), Tally(c), check_buff(c)
  PROVE  CountsWrong(c)' /\ InTime(c)
  <1>1. Asks(c)
    BY ClientAsks
  <1>2. ~Tried(c)
    BY <1>1 DEF Asks, Tried, NoRequest
  <1>3. wrong'[c] = wrong[c] /\ InTime(c)
    BY <1>1, <1>2 DEF Tally, Missed, InTime, Asks
  <1>4. Asking(session'[c]) <=> Asking(session[c])
    BY <1>1, InputAssumption DEF Asks, Asking, NoRequest, Replies
  <1>5. Looking(session'[c]) => Looking(session[c])
    BY <1>1, InputAssumption DEF Asks, Looking, Replies
  <1> QED
    BY <1>1, <1>3, <1>4, <1>5 DEF CountsWrong, Asks

LEMMA ChildCounts ==
  ASSUME IInv, NEW c \in Clients, CountsWrong(c), Tally(c), Check_Mess(c)
  PROVE  CountsWrong(c)' /\ InTime(c)
  <1>1. CASE Check_Login_Pass(c)
    BY <1>1, LoginCounts
  <1>2. CASE ~Check_Login_Pass(c)
    <2>0. /\ Check_User(c) => Received(c, "LOGIN_USER")
          /\ Signup_User(c) => Received(c, "SIGNUP_USER")
      <3>1. Check_User(c) => Received(c, "LOGIN_USER")
        BY Zenon DEF Check_User
      <3>2. Signup_User(c) => Received(c, "SIGNUP_USER")
        BY Zenon DEF Signup_User
      <3> QED
        BY <3>1, <3>2
    <2>1. PICK op : Received(c, op) /\ op \notin {"none", "LOGIN_PASS"}
      <3>1. CASE Select_Work(c) \/ Check_User(c) \/ Signup_User(c)
        BY <2>0, <3>1 DEF Select_Work
      <3>2. CASE Exit_Connect(c) \/ Check_Logout(c) \/ Signup_Pass(c) \/ Confirm_Pass(c)
        BY <3>2 DEF Exit_Connect, Check_Logout, Signup_Pass, Confirm_Pass
      <3>3. CASE Plays(c)
        BY <3>3 DEF Plays, Start_Game, Check_Color, Check_Run, End_Game, Send_Result, NextLine
      <3> QED
        BY <1>2, <3>1, <3>2, <3>3 DEF Check_Mess, Plays
    <2>2. session[c].reply = None /\ session[c].request.op = op
      BY <2>1, ServesWhatItReceived DEF Received
    <2>3. ~Asking(session[c])
      BY <2>1, <2>2, InputAssumption DEF Asking, Replies
    <2>4. ASSUME Left(c) PROVE CountsWrong(c)' /\ InTime(c)
      BY <2>1, <2>2, <2>4, LeftCounts
    <2>5. ASSUME NEW r \in Quiet, NEW n, Told(c, r, n) PROVE CountsWrong(c)' /\ InTime(c)
      <3>1. r \in Replies \cup InsideReplies /\ r # "PASS_NOT_MATCH"
        BY DEF Quiet
      <3> QED
        BY <2>3, <2>5, <3>1, ToldCounts
    <2>6. {"READY_LOGIN", "READY_SIGNUP", "LOGIN_USER_NOT_EXIST", "LOGIN_USER_ID_OK",
           "USER_ID_NOT_INVALID", "SIGNUP_USER_ID_OK"} \subseteq Replies
      BY DEF Replies
    <2>7. CASE Select_Work(c)
      BY <2>3, <2>4, <2>5, <2>6, <2>7, SelectTells, ToldCounts
    <2>8. ASSUME Check_User(c) \/ Signup_User(c) PROVE session[c].retry = 0
      BY <2>0, <2>8 DEF Received, CountsWrong, Looking
    <2>9. CASE Check_User(c)
      BY <2>3, <2>4, <2>6, <2>8, <2>9, CheckUserTells, ToldCounts
    <2>10. CASE Signup_User(c)
      BY <2>3, <2>4, <2>6, <2>8, <2>10, SignupUserTells, ToldCounts
    <2>11. CASE \/ Exit_Connect(c) \/ Check_Logout(c) \/ Signup_Pass(c) \/ Confirm_Pass(c)
                \/ Plays(c)
      BY <2>4, <2>5, <2>11, OthersTell
    <2> QED
      BY <1>2, <2>7, <2>9, <2>10, <2>11 DEF Check_Mess, Plays
  <1> QED
    BY <1>1, <1>2

LEMMA TurnCounts ==
  ASSUME IInv, NEW c \in Clients, CountsWrong(c), Tally(c),
         Connect(c) \/ Check_Mess(c) \/ check_buff(c) \/ Vanish(c)
  PROVE  CountsWrong(c)' /\ InTime(c)
  <1>1. session \in [Clients -> Sessions]
    BY DEF IInv, TypeOK
  <1>2. CASE Connect(c)
    <2>1. session[c].reply = None /\ session[c].request = NoRequest
      BY <1>2 DEF Connect, IInv, TakeTurns
    <2>2. ~Asking(session[c])
      BY <2>1, InputAssumption DEF Asking, NoRequest, Replies
    <2>3. Told(c, "HELLO", 0)
      BY <1>1, <1>2 DEF Connect, Told, NoSession
    <2>4. "HELLO" \in Replies
      BY DEF Replies
    <2> QED
      BY <2>2, <2>3, <2>4, ToldCounts
  <1>3. CASE Check_Mess(c)
    BY <1>3, ChildCounts
  <1>4. CASE check_buff(c)
    BY <1>4, ClientCounts
  <1>5. CASE Vanish(c)
    <2>1. session[c].request = NoRequest
      BY <1>5 DEF Vanish, IInv, TakeTurns
    <2>2. session[c].request.op # "LOGIN_PASS"
      BY <2>1 DEF NoRequest
    <2>3. Left(c)
      BY <1>1, <1>5, CloseLeaves DEF Vanish
    <2> QED
      BY <2>2, <2>3, LeftCounts
  <1> QED
    BY <1>2, <1>3, <1>4, <1>5

\* A client whose session nobody touches keeps its count.
LEMMA RestCounts ==
  ASSUME IInv, NEW c \in Clients, CountsWrong(c), Tally(c), session'[c] = session[c]
  PROVE  CountsWrong(c)' /\ InTime(c)
  <1>1. ~Tried(c)
    BY DEF Tried
  <1>2. session[c].state # "serving" => ~Asking(session[c])
    BY InputAssumption DEF IInv, TakeTurns, NoRequest, Asking, Replies
  <1>3. wrong'[c] = wrong[c] /\ InTime(c)
    BY <1>1, <1>2 DEF Tally, Missed, InTime, CountsWrong
  <1> QED
    BY <1>3 DEF CountsWrong

Counts == \A c \in Clients : CountsWrong(c)

LEMMA CountsNext ==
  ASSUME IInv, Counts, [BoundedNext /\ CountWrong]_<<vars, wrong>>
  PROVE  Counts' /\ \A c \in Clients : InTime(c)
  <1>1. ASSUME BoundedNext, CountWrong, NEW d \in Clients
        PROVE  CountsWrong(d)' /\ InTime(d)
    <2>1. PICK c \in Clients :
            Connect(c) \/ Check_Mess(c) \/ check_buff(c) \/ Vanish(c)
      BY <1>1 DEF BoundedNext, Next
    <2>2. PICK t : session' = [session EXCEPT ![c] = t]
      BY <2>1, StepIsTurn DEF Turn
    <2>3. session \in [Clients -> Sessions]
      BY DEF IInv, TypeOK
    <2>4. d # c => session'[d] = session[d]
      BY <2>2, <2>3
    <2>5. CountsWrong(d) /\ Tally(d)
      BY <1>1 DEF Counts, CountWrong, Tally
    <2>6. CASE d = c
      BY <2>1, <2>5, <2>6, TurnCounts
    <2> QED
      BY <2>4, <2>5, <2>6, RestCounts
  <1>2. CASE UNCHANGED <<vars, wrong>>
    <2>1. ASSUME NEW d \in Clients PROVE CountsWrong(d)' /\ InTime(d)
      <3>1. session' = session /\ wrong' = wrong
        BY <1>2 DEF vars
      <3>2. ~Missed(d)
        BY <3>1 DEF Missed, Tried
      <3> QED
        BY <3>1, <3>2 DEF Counts, CountsWrong, InTime
    <2> QED
      BY <2>1 DEF Counts
  <1> QED
    BY <1>1, <1>2 DEF Counts

(***************************************************************************)
(* Whatever menus, names and sign-ups a connection has gone through before *)
(* (they share `retry`), the fifth wrong password in a row closes it and   *)
(* no earlier one does.                                                    *)
(***************************************************************************)
THEOREM BlockedInTime == CountedSpec => BlockedAtTheLast
  <1>1. Init /\ wrong = [c \in Clients |-> 0] => IInv /\ Counts
    <2> SUFFICES ASSUME Init, wrong = [c \in Clients |-> 0] PROVE IInv /\ Counts
      OBVIOUS
    <2>1. ~Asking(NoSession)
      BY InputAssumption DEF Asking, NoSession, NoRequest, Replies
    <2> QED
      BY <2>1, IInvInit DEF Init, Counts, CountsWrong, NoSession
  <1>2. IInv /\ Counts /\ [BoundedNext /\ CountWrong]_<<vars, wrong>> => (IInv /\ Counts)'
    <2>1. [BoundedNext /\ CountWrong]_<<vars, wrong>> => [Next]_vars
      BY DEF BoundedNext
    <2> QED
      BY <2>1, CountsNext, IInvNext
  <1>3. IInv /\ Counts /\ [BoundedNext /\ CountWrong]_<<vars, wrong>>
        => [\A c \in Clients : Missed(c) => (session'[c].state # "serving")
                                              = (wrong[c] + 1 = MAX_TRIES)]_<<vars, wrong>>
    BY CountsNext DEF InTime
  <1> QED
    BY <1>1, <1>2, <1>3, PTL DEF CountedSpec, BlockedAtTheLast
=============================================================================
