---------------------------- MODULE Lobby_proofs ----------------------------
(***************************************************************************)
(* Proofs about Lobby, for any number of clients, teams and castles, and   *)
(* any links.                                                              *)
(***************************************************************************)
EXTENDS Lobby, FiniteSetTheorems, TLAPS

Matters == Teams \cup {Nobody, None} \cup Castles

\* What the argument needs of the variables' types.
LobbyShape ==
  /\ phase \in [Clients -> {"off", "hello", "start", "play", "gone"}]
  /\ team \in [Clients -> Matters]
  /\ waits \in [Clients -> Requests \cup {None}]
  /\ window \in [Clients -> [castle : Matters, question : Matters] \cup {None}]
  /\ late \in [Clients -> BOOLEAN]
  /\ up \in [Clients -> Seq(Requests)]
  /\ down \in [Clients -> Seq(Replies)]
  /\ admitted \in [Clients -> SUBSET Teams]
  /\ members \in [Teams -> Nat]

\* A reply to a request: about the same, and a welcome only from a team that has let in.
AnswerTo(r, mes, teams) ==
  /\ r.op = mes.op /\ r.arg = mes.arg
  /\ r.op = "join" /\ r.ok => r.arg \in teams

\* The link of a client that has not given up on anything: nothing is on its way, or the
\* request it waits for, or that one's reply -- unless it has been lost.
Exchange(c) ==
  \/ waits[c] = None /\ up[c] = <<>> /\ down[c] = <<>>
  \/ waits[c] # None /\ up[c] = <<waits[c]>> /\ down[c] = <<>>
  \/ waits[c] # None /\ up[c] = <<>> /\ down[c] = <<>>
  \/ /\ waits[c] # None /\ up[c] = <<>>
     /\ \E r \in Replies : down[c] = <<r>> /\ AnswerTo(r, waits[c], admitted[c])

Steady(c) ==
  ~late[c] =>
    /\ phase[c] \in {"off", "hello"} => waits[c] = None /\ up[c] = <<>> /\ window[c] = None
    /\ phase[c] = "off" => down[c] = <<>>
    /\ phase[c] = "hello" => Len(down[c]) = 1
    /\ phase[c] \in {"start", "play"} => Exchange(c)
    /\ phase[c] = "play" => team[c] \in admitted[c]
    /\ window[c] # None => window[c].castle = window[c].question

LobbyInv == LobbyShape /\ \A c \in Clients : Steady(c)

\* What belongs to a client is left alone.
Alone(c) ==
  /\ phase'[c] = phase[c] /\ team'[c] = team[c] /\ waits'[c] = waits[c]
  /\ window'[c] = window[c] /\ late'[c] = late[c] /\ up'[c] = up[c]
  /\ down'[c] = down[c] /\ admitted'[c] = admitted[c]

LEMMA AloneIsSteady ==
  ASSUME NEW c \in Clients, Steady(c), Alone(c) PROVE Steady(c)'
  <1>1. Exchange(c) => Exchange(c)'
    BY DEF Alone, Exchange
  <1> QED
    BY <1>1 DEF Alone, Steady

\* A step of one client's, or of the server's with it.
Touches(c) == \A d \in Clients \ {c} : Alone(d)

LEMMA OneAtATime ==
  ASSUME LobbyInv, NEW c \in Clients, Touches(c), LobbyShape', Steady(c)'
  PROVE  LobbyInv'
  BY AloneIsSteady DEF LobbyInv, Touches

LEMMA Unbroken ==
  ASSUME NEW s \in Seq(Replies), NEW n \in 1..Len(s), Len(s) = 1
  PROVE  SubSeq(s, n + 1, Len(s)) = <<>>
  OBVIOUS

LEMMA AcceptInv == ASSUME LobbyInv, NEW c \in Clients, accept(c) PROVE LobbyInv'
  <1> USE DEF LobbyInv, accept
  <1>1. Touches(c)
    BY DEF Touches, Alone, LobbyShape
  <1>2. LobbyShape'
    BY DEF LobbyShape, Replies
  <1>3. Steady(c)'
    BY DEF Steady, LobbyShape
  <1> QED
    BY <1>1, <1>2, <1>3, OneAtATime

LEMMA GreetedInv == ASSUME LobbyInv, NEW c \in Clients, greeted(c) PROVE LobbyInv'
  <1> USE DEF LobbyInv, greeted
  <1>1. Touches(c)
    BY DEF Touches, Alone, LobbyShape
  <1>2. LobbyShape'
    <2>1. phase' \in [Clients -> {"off", "hello", "start", "play", "gone"}]
      BY DEF LobbyShape
    <2>2. <<>> \in Seq(Replies)
      OBVIOUS
    <2>3. down' = down \/ down' = [down EXCEPT ![c] = <<>>]
      OBVIOUS
    <2>4. down' \in [Clients -> Seq(Replies)]
      BY <2>2, <2>3, Zenon DEF LobbyShape
    <2> QED
      BY <2>1, <2>4 DEF LobbyShape
  <1>3. Steady(c)'
    BY DEF Steady, LobbyShape, Exchange
  <1> QED
    BY <1>1, <1>2, <1>3, OneAtATime

\* A request goes out; the window a player looked at has been closed.
LEMMA AsksInv ==
  ASSUME LobbyInv, NEW c \in Clients, NEW op, NEW arg, [op |-> op, arg |-> arg] \in Requests,
         Asks(c, op, arg), phase[c] \in {"start", "play"},
         window' = window \/ window' = [window EXCEPT ![c] = None]
  PROVE  LobbyInv'
  <1> USE DEF LobbyInv, Asks
  <1>1. Touches(c)
    BY DEF Touches, Alone, LobbyShape
  <1>2. LobbyShape'
    <2>1. Append(up[c], [op |-> op, arg |-> arg]) \in Seq(Requests)
      BY DEF LobbyShape
    <2>2. up' \in [Clients -> Seq(Requests)]
      BY <2>1, Zenon DEF LobbyShape
    <2>3. waits' \in [Clients -> Requests \cup {None}]
      BY Zenon DEF LobbyShape
    <2>4. window' \in [Clients -> [castle : Matters, question : Matters] \cup {None}]
      BY Zenon DEF LobbyShape
    <2> QED
      BY <2>2, <2>3, <2>4, Zenon DEF LobbyShape
  <1>3. ASSUME ~late[c] PROVE up'[c] = <<waits'[c]>> /\ down'[c] = <<>> /\ waits'[c] # None
    <2>1. up[c] = <<>> /\ down[c] = <<>>
      BY <1>3 DEF Steady, Exchange
    <2> QED
      BY <2>1, NoneAssumption DEF LobbyShape
  <1>4. ~late[c] => Exchange(c)'
    BY <1>3 DEF Exchange
  <1>5. Steady(c)'
    BY <1>4 DEF Steady, LobbyShape
  <1> QED
    BY <1>1, <1>2, <1>5, OneAtATime

\* What a client in step reads is the reply to its request, and then nothing is left.
LEMMA ReadsItsReply ==
  ASSUME LobbyInv, NEW c \in Clients, NEW n, Reads(c, n), ~late[c], waits[c] # None,
         phase[c] \in {"start", "play"}
  PROVE  /\ up[c] = <<>> /\ down'[c] = <<>>
         /\ AnswerTo(Head(down[c]), waits[c], admitted[c])
  <1>1. PICK r \in Replies : /\ down[c] = <<r>> /\ up[c] = <<>>
                             /\ AnswerTo(r, waits[c], admitted[c])
    BY DEF LobbyInv, LobbyShape, Steady, Exchange, Reads
  <1>2. down'[c] = SubSeq(down[c], n + 1, Len(down[c])) /\ n \in 1..Len(down[c])
    BY DEF LobbyInv, LobbyShape, Reads
  <1>3. down'[c] = <<>>
    BY <1>1, <1>2, Unbroken DEF LobbyInv, LobbyShape
  <1> QED
    BY <1>1, <1>3

LEMMA ReadsType ==
  ASSUME LobbyInv, NEW c \in Clients, NEW n, Reads(c, n)
  PROVE  down' \in [Clients -> Seq(Replies)] /\ \A d \in Clients \ {c} : down'[d] = down[d]
  <1>1. SubSeq(down[c], n + 1, Len(down[c])) \in Seq(Replies)
    BY DEF LobbyInv, LobbyShape, Reads
  <1> QED
    BY <1>1 DEF LobbyInv, LobbyShape, Reads

LEMMA JoinsInv == ASSUME LobbyInv, NEW c \in Clients, NEW n, joins(c, n) PROVE LobbyInv'
  <1> USE DEF LobbyInv, joins
  <1>1. Touches(c)
    BY ReadsType DEF Touches, Alone, LobbyShape
  <1>2. waits[c].arg \in Matters
    BY DEF LobbyShape, Requests, Matters
  <1>3. LobbyShape'
    BY <1>2, ReadsType DEF LobbyShape
  <1>4. ASSUME ~late[c] PROVE /\ up'[c] = <<>> /\ down'[c] = <<>> /\ waits'[c] = None
                              /\ phase'[c] = "play" => team'[c] \in admitted'[c]
    BY <1>4, ReadsItsReply DEF LobbyShape, AnswerTo
  <1>5. ~late[c] => Exchange(c)'
    BY <1>4 DEF Exchange
  <1>6. Steady(c)'
    BY <1>4, <1>5 DEF Steady, LobbyShape
  <1> QED
    BY <1>1, <1>3, <1>6, OneAtATime

LEMMA ShowsInv == ASSUME LobbyInv, NEW c \in Clients, NEW n, shows(c, n) PROVE LobbyInv'
  <1> USE DEF LobbyInv, shows
  <1>1. Touches(c)
    BY ReadsType DEF Touches, Alone, LobbyShape
  <1>2. LobbyShape'
    <2>1. down[c] # <<>> /\ down[c] \in Seq(Replies)
      BY DEF LobbyShape, Reads
    <2>2. waits[c].arg \in Matters /\ Head(down[c]).arg \in Matters
      BY <2>1 DEF LobbyShape, Requests, Replies, Matters
    <2>3. window' \in [Clients -> [castle : Matters, question : Matters] \cup {None}]
      BY <2>2 DEF LobbyShape
    <2> QED
      BY <2>3, ReadsType DEF LobbyShape
  <1>3. ASSUME ~late[c]
        PROVE  /\ up'[c] = <<>> /\ down'[c] = <<>> /\ waits'[c] = None
               /\ window'[c] # None => window'[c].castle = window'[c].question
    <2>1. AnswerTo(Head(down[c]), waits[c], admitted[c]) /\ up[c] = <<>> /\ down'[c] = <<>>
      BY <1>3, ReadsItsReply
    <2>2. window[c] # None => window[c].castle = window[c].question
      BY <1>3 DEF Steady
    <2> QED
      BY <2>1, <2>2 DEF LobbyShape, AnswerTo
  <1>4. ~late[c] => Exchange(c)'
    BY <1>3 DEF Exchange
  <1>5. Steady(c)'
    BY <1>3, <1>4 DEF Steady, LobbyShape
  <1> QED
    BY <1>1, <1>2, <1>5, OneAtATime

LEMMA TimeoutInv == ASSUME LobbyInv, NEW c \in Clients, timeout(c) PROVE LobbyInv'
  <1> USE DEF LobbyInv, timeout
  <1>1. Touches(c)
    BY DEF Touches, Alone, LobbyShape
  <1>2. LobbyShape'
    BY DEF LobbyShape
  <1>3. Steady(c)'
    BY DEF Steady, LobbyShape
  <1> QED
    BY <1>1, <1>2, <1>3, OneAtATime

LEMMA QuitInv == ASSUME LobbyInv, NEW c \in Clients, quit(c) PROVE LobbyInv'
  <1> USE DEF LobbyInv, quit
  <1>1. Touches(c)
    BY DEF Touches, Alone, LobbyShape
  <1>2. LobbyShape'
    <2>1. /\ phase' \in [Clients -> {"off", "hello", "start", "play", "gone"}]
          /\ team' \in [Clients -> Matters]
      BY DEF LobbyShape, Matters
    <2>2. window' \in [Clients -> [castle : Matters, question : Matters] \cup {None}]
      BY DEF LobbyShape
    <2>3. down' \in [Clients -> Seq(Replies)]
      BY DEF LobbyShape
    <2> QED
      BY <2>1, <2>2, <2>3 DEF LobbyShape
  <1>3. Steady(c)'
    BY DEF Steady, LobbyShape
  <1> QED
    BY <1>1, <1>2, <1>3, OneAtATime

LEMMA JoiningAdmits ==
  ASSUME LobbyInv, NEW c \in Clients, NEW t, join_team(c, t)
  PROVE  /\ admitted' \in [Clients -> SUBSET Teams]
         /\ admitted[c] \subseteq admitted'[c]
         /\ \A d \in Clients \ {c} : admitted'[d] = admitted[d]
         /\ t \in Teams /\ members[t] < MaxMembers => t \in admitted'[c]
         /\ members' \in [Teams -> Nat]
  <1>0. admitted \in [Clients -> SUBSET Teams] /\ members \in [Teams -> Nat]
    BY DEF LobbyInv, LobbyShape
  <1>1. CASE t \in Teams /\ members[t] < MaxMembers
    <2>1. /\ admitted' = [admitted EXCEPT ![c] = @ \cup {t}]
          /\ members' = [members EXCEPT ![t] = @ + 1]
      BY <1>1 DEF join_team, add_member
    <2>2. members' \in [Teams -> Nat]
      BY <1>0, <1>1, <2>1
    <2> QED
      BY <1>0, <1>1, <2>1, <2>2
  <1>2. CASE ~(t \in Teams /\ members[t] < MaxMembers)
    <2>1. admitted' = admitted /\ members' = members
      BY <1>2 DEF join_team
    <2> QED
      BY <1>0, <1>2, <2>1
  <1> QED
    BY <1>1, <1>2

\* The server's reply answers the request, and says yes only if the team has let in.
LEMMA ReplyAnswers ==
  ASSUME LobbyInv, NEW c \in Clients, NEW n, process_mess(c, n)
  PROVE  \E r \in Replies : /\ Answer(c, r) /\ AnswerTo(r, Head(up[c]), admitted'[c])
  <1> DEFINE mes == Head(up[c])
  <1>1. mes \in Requests
    BY DEF LobbyInv, LobbyShape, process_mess
  <1>2. CASE mes.op = "join"
    <2> DEFINE let == mes.arg \in Teams /\ members[mes.arg] < MaxMembers
               r == [op |-> "join", arg |-> mes.arg, ok |-> let]
    <2>1. Answer(c, r) /\ join_team(c, mes.arg)
      BY <1>2 DEF process_mess
    <2>2. mes.arg \in Teams \cup {Nobody} /\ let \in BOOLEAN
      BY <1>1, <1>2 DEF Requests
    <2>3. let => mes.arg \in admitted'[c]
      BY <2>1, JoiningAdmits
    <2> HIDE DEF let, mes
    <2>4. r \in Replies
      BY <2>2 DEF Replies
    <2> QED
      BY <1>2, <2>1, <2>3, <2>4 DEF AnswerTo, mes
  <1>3. CASE mes.op = "attack"
    <2>1. PICK ok \in BOOLEAN : Answer(c, [op |-> "attack", arg |-> mes.arg, ok |-> ok])
      BY <1>3 DEF process_mess
    <2>2. [op |-> "attack", arg |-> mes.arg, ok |-> ok] \in Replies
      BY <1>1, <1>3 DEF Replies, Requests
    <2> QED
      BY <1>3, <2>1, <2>2 DEF AnswerTo
  <1> QED
    BY <1>2, <1>3 DEF process_mess

LEMMA AdmittedGrows ==
  ASSUME LobbyInv, NEW c \in Clients, NEW n, process_mess(c, n)
  PROVE  /\ admitted' \in [Clients -> SUBSET Teams]
         /\ admitted[c] \subseteq admitted'[c]
         /\ \A d \in Clients \ {c} : admitted'[d] = admitted[d]
         /\ members' \in [Teams -> Nat]
  <1>1. join_team(c, Head(up[c]).arg) \/ UNCHANGED <<members, admitted>>
    BY DEF process_mess
  <1>2. CASE UNCHANGED <<members, admitted>>
    BY <1>2 DEF LobbyInv, LobbyShape
  <1> QED
    BY <1>1, <1>2, JoiningAdmits

LEMMA ServesInv == ASSUME LobbyInv, NEW c \in Clients, NEW n, process_mess(c, n) PROVE LobbyInv'
  <1> USE DEF LobbyInv
  <1>1. PICK r \in Replies : Answer(c, r) /\ AnswerTo(r, Head(up[c]), admitted'[c])
    BY ReplyAnswers
  <1>2. /\ n \in 1..Len(up[c]) /\ up' = [up EXCEPT ![c] = SubSeq(@, n + 1, Len(@))]
        /\ UNCHANGED <<phase, team, waits, window, late>>
    BY DEF process_mess
  <1>3. SubSeq(up[c], n + 1, Len(up[c])) \in Seq(Requests)
    BY <1>2 DEF LobbyShape
  <1>4. Touches(c)
    BY <1>1, <1>2, AdmittedGrows DEF Touches, Alone, LobbyShape, Answer
  <1>5. LobbyShape'
    <2>1. Append(down[c], r) \in Seq(Replies)
      BY DEF LobbyShape
    <2> QED
      BY <1>1, <1>2, <1>3, <2>1, AdmittedGrows DEF LobbyShape, Answer
  <1>6. Steady(c)'
    <2> SUFFICES ASSUME ~late[c] PROVE Steady(c)'
      BY <1>2 DEF Steady
    <2>1. CASE phase[c] \in {"start", "play"}
      <3>1. up[c] = <<waits[c]>> /\ down[c] = <<>> /\ waits[c] # None
        BY <1>2, <2>1 DEF Steady, Exchange
      <3>2. up'[c] = <<>>
        BY <1>2, <3>1 DEF LobbyShape
      <3>3. down'[c] = <<>> \/ down'[c] = <<r>>
        BY <1>1, <3>1 DEF Answer, LobbyShape
      <3>4. AnswerTo(r, waits[c], admitted'[c])
        BY <1>1, <3>1
      <3>5. Exchange(c)'
        BY <1>2, <3>1, <3>2, <3>3, <3>4 DEF Exchange
      <3> QED
        BY <1>2, <2>1, <3>5, AdmittedGrows DEF Steady
    <2>2. CASE phase[c] \in {"off", "hello"}
      BY <1>2, <2>2 DEF Steady
    <2>3. CASE phase[c] = "gone"
      BY <1>2, <2>3 DEF Steady
    <2> QED
      BY <2>1, <2>2, <2>3 DEF LobbyShape
  <1> QED
    BY <1>4, <1>5, <1>6, OneAtATime

LEMMA LobbyInvInit == LobbyInit => LobbyInv
  BY DEF LobbyInit, LobbyInv, LobbyShape, Steady, Matters

LEMMA LobbyInvNext == LobbyInv /\ [LobbyNext]_lobby => LobbyInv'
  <1> SUFFICES ASSUME LobbyInv, [LobbyNext]_lobby PROVE LobbyInv'
    OBVIOUS
  <1>1. ASSUME NEW c \in Clients, NEW t \in Teams \cup {Nobody}, playGame(c, t)
        PROVE  LobbyInv'
    BY <1>1, AsksInv DEF playGame, Requests
  <1>2. ASSUME NEW c \in Clients, NEW k \in Castles, Attack(c, k) PROVE LobbyInv'
    BY <1>2, AsksInv DEF Attack, Requests
  <1>3. CASE UNCHANGED lobby
    BY <1>3 DEF lobby, LobbyInv, LobbyShape, Steady, Exchange
  <1> QED
    BY <1>1, <1>2, <1>3, AcceptInv, GreetedInv, TimeoutInv, QuitInv, ServesInv, JoinsInv,
       ShowsInv
    DEF LobbyNext, serves

\* However slow the server is with the others, and however requests and replies are lost
\* among several that come together, a client that has never given up on a reply plays for
\* a team that has let it in, and shows the question of the castle it attacks.
THEOREM PatientStayInStep == LobbySpec => []InStep
  <1>1. LobbyInv => InStep
    BY DEF LobbyInv, Steady, InStep
  <1> QED
    BY <1>1, LobbyInvInit, LobbyInvNext, PTL DEF LobbySpec

(***************************************************************************)
(* Nobody plays without having been counted.  A welcome on its way to a    *)
(* client is as good as a game it plays: each holds a seat of its own, and *)
(* there are as many seats as the teams have counted members.              *)
(***************************************************************************)

Holds(c, i) ==
  \/ i = 0 /\ phase[c] = "play"
  \/ i \in DOMAIN down[c] /\ down[c][i].op = "join" /\ down[c][i].ok

IsSeat(s) == s[1] \in Teams /\ s[2] \in 1..members[s[1]]

Seating(f) ==
  /\ \A c \in Clients, i \in Nat : Holds(c, i) => IsSeat(f[c][i])
  /\ \A c, d \in Clients, i, j \in Nat :
       Holds(c, i) /\ Holds(d, j) /\ f[c][i] = f[d][j] => c = d /\ i = j

Places == [Clients -> [Nat -> (Teams \cup {None}) \X Nat]]
Seated == \E f \in Places : Seating(f)

\* Whoever still holds something takes over the seat of what it held before.
LEMMA SameSeats ==
  ASSUME Seated, NEW c \in Clients, NEW g \in [Nat -> Nat],
         UNCHANGED members,
         \A d \in Clients \ {c}, i \in Nat : Holds(d, i)' => Holds(d, i),
         \A i \in Nat : Holds(c, i)' => Holds(c, g[i]),
         \A i, j \in Nat : Holds(c, i)' /\ Holds(c, j)' /\ g[i] = g[j] => i = j
  PROVE  Seated'
  <1>1. PICK f \in Places : Seating(f)
    BY DEF Seated
  <1> DEFINE h == [f EXCEPT ![c] = [i \in Nat |-> f[c][g[i]]]]
  <1>2. /\ h \in Places
        /\ \A i \in Nat : h[c][i] = f[c][g[i]]
        /\ \A d \in Clients \ {c} : h[d] = f[d]
    BY <1>1 DEF Places
  <1> HIDE DEF h
  <1>3. ASSUME NEW d \in Clients, NEW i \in Nat, Holds(d, i)' PROVE IsSeat(h[d][i])'
    <2>1. IsSeat(h[d][i])
      BY <1>1, <1>2, <1>3 DEF Seating
    <2> QED
      BY <2>1 DEF IsSeat
  <1>4. ASSUME NEW d \in Clients, NEW e \in Clients, NEW i \in Nat, NEW j \in Nat,
               Holds(d, i)', Holds(e, j)', h[d][i] = h[e][j]
        PROVE  d = e /\ i = j
    <2>1. CASE d = c /\ e = c
      BY <1>1, <1>2, <1>4, <2>1 DEF Seating
    <2>2. CASE d = c /\ e # c
      BY <1>1, <1>2, <1>4, <2>2 DEF Seating
    <2>3. CASE d # c /\ e = c
      BY <1>1, <1>2, <1>4, <2>3 DEF Seating
    <2>4. CASE d # c /\ e # c
      BY <1>1, <1>2, <1>4, <2>4 DEF Seating
    <2> QED
      BY <2>1, <2>2, <2>3, <2>4
  <1>5. Seating(h)'
    BY <1>3, <1>4 DEF Seating
  <1> QED
    BY <1>2, <1>5 DEF Seated, Places

\* A new member's seat goes to the welcome that is sent, if one is.
LEMMA NewSeat ==
  ASSUME LobbyShape, Seated, NEW c \in Clients, NEW t \in Teams, NEW k \in Nat,
         members' = [members EXCEPT ![t] = @ + 1],
         \A d \in Clients \ {c}, i \in Nat : Holds(d, i)' => Holds(d, i),
         \A i \in Nat \ {k} : Holds(c, i)' => Holds(c, i)
  PROVE  Seated'
  <1>1. PICK f \in Places : Seating(f)
    BY DEF Seated
  <1>9. PICK new : new = <<t, members[t] + 1>>
    OBVIOUS
  <1> DEFINE h == [f EXCEPT ![c] = [@ EXCEPT ![k] = new]]
  <1>0. members \in [Teams -> Nat]
    BY DEF LobbyShape
  <1>2. /\ h \in Places
        /\ h[c][k] = new
        /\ \A d \in Clients, i \in Nat : d # c \/ i # k => h[d][i] = f[d][i]
    <2>1. new \in (Teams \cup {None}) \X Nat
      BY <1>0, <1>9
    <2> QED
      BY <1>1, <2>1 DEF Places
  <1>3. \A s : IsSeat(s) => s # new /\ IsSeat(s)'
    BY <1>0, <1>9 DEF IsSeat
  <1>4. IsSeat(new)'
    BY <1>0, <1>9 DEF IsSeat
  <1> HIDE DEF h
  <1>5. ASSUME NEW d \in Clients, NEW i \in Nat, Holds(d, i)', d # c \/ i # k
        PROVE  Holds(d, i) /\ IsSeat(f[d][i]) /\ h[d][i] = f[d][i]
    BY <1>1, <1>2, <1>5 DEF Seating
  <1>6. ASSUME NEW d \in Clients, NEW i \in Nat, Holds(d, i)' PROVE IsSeat(h[d][i])'
    <2>1. CASE d = c /\ i = k
      BY <1>2, <1>4, <2>1
    <2>2. CASE d # c \/ i # k
      BY <1>3, <1>5, <1>6, <2>2
    <2> QED
      BY <2>1, <2>2
  <1>7. ASSUME NEW d \in Clients, NEW e \in Clients, NEW i \in Nat, NEW j \in Nat,
               Holds(d, i)', Holds(e, j)', h[d][i] = h[e][j]
        PROVE  d = e /\ i = j
    <2>1. CASE (d = c /\ i = k) /\ (e = c /\ j = k)
      BY <2>1
    <2>2. CASE (d = c /\ i = k) /\ (e # c \/ j # k)
      BY <1>2, <1>3, <1>5, <1>7, <2>2
    <2>3. CASE (d # c \/ i # k) /\ (e = c /\ j = k)
      BY <1>2, <1>3, <1>5, <1>7, <2>3
    <2>4. CASE (d # c \/ i # k) /\ (e # c \/ j # k)
      BY <1>1, <1>5, <1>7, <2>4 DEF Seating
    <2> QED
      BY <2>1, <2>2, <2>3, <2>4
  <1>8. Seating(h)'
    BY <1>6, <1>7 DEF Seating
  <1> QED
    BY <1>2, <1>8 DEF Seated, Places

\* A step after which nobody holds more than before.
LEMMA NothingNew ==
  ASSUME Seated, UNCHANGED members,
         \A d \in Clients, i \in Nat : Holds(d, i)' => Holds(d, i)
  PROVE  Seated'
  <1>1. PICK f \in Places : Seating(f)
    BY DEF Seated
  <1>2. Seating(f)'
    BY <1>1 DEF Seating, IsSeat
  <1> QED
    BY <1>2 DEF Seated, Places

\* Reading n replies moves the others n places up.
LEMMA Shift ==
  ASSUME LobbyShape, NEW c \in Clients, NEW n, Reads(c, n), NEW i \in Nat,
         i \in DOMAIN (down'[c])
  PROVE  /\ n \in Nat \ {0} /\ i # 0 /\ i + n \in DOMAIN down[c]
         /\ down'[c][i] = down[c][i + n]
  <1>1. /\ down[c] \in Seq(Replies) /\ n \in 1..Len(down[c])
        /\ down'[c] = SubSeq(down[c], n + 1, Len(down[c]))
    BY DEF LobbyShape, Reads
  <1> QED
    BY <1>1

LEMMA OthersHold ==
  ASSUME LobbyShape, NEW c \in Clients, NEW n, Reads(c, n), NEW d \in Clients \ {c}, NEW i \in Nat,
         phase'[d] = phase[d], Holds(d, i)'
  PROVE  Holds(d, i)
  <1>1. down'[d] = down[d]
    BY DEF LobbyShape, Reads
  <1> QED
    BY <1>1 DEF Holds

LEMMA JoinsSeats ==
  ASSUME LobbyShape, Seated, NEW c \in Clients, NEW n, joins(c, n) PROVE Seated'
  <1> DEFINE g == [i \in Nat |-> IF i = 0 THEN 1 ELSE i + n]
  <1>1. /\ Reads(c, n) /\ n \in Nat \ {0} /\ down[c] \in Seq(Replies) /\ 1 \in DOMAIN down[c]
        /\ phase[c] = "start" /\ UNCHANGED members
    BY DEF joins, Reads, LobbyShape
  <1>2. g \in [Nat -> Nat]
    BY <1>1
  <1>3. phase'[c] = "play" => down[c][1].op = "join" /\ down[c][1].ok
    BY <1>1 DEF joins, LobbyShape
  <1>4. ASSUME NEW d \in Clients \ {c}, NEW i \in Nat, Holds(d, i)' PROVE Holds(d, i)
    BY <1>1, <1>4, OthersHold DEF joins, LobbyShape
  <1>5. ASSUME NEW i \in Nat, Holds(c, i)' PROVE Holds(c, g[i])
    <2>1. CASE i = 0 /\ phase'[c] = "play"
      BY <1>1, <1>3, <2>1 DEF Holds
    <2>2. CASE i \in DOMAIN (down'[c]) /\ down'[c][i].op = "join" /\ down'[c][i].ok
      BY <1>1, <2>2, Shift DEF Holds
    <2> QED
      BY <1>5, <2>1, <2>2 DEF Holds
  <1>6. \A i, j \in Nat : g[i] = g[j] => i = j
    BY <1>1
  <1> HIDE DEF g
  <1> QED
    BY <1>1, <1>2, <1>4, <1>5, <1>6, SameSeats

LEMMA ShowsSeats ==
  ASSUME LobbyShape, Seated, NEW c \in Clients, NEW n, shows(c, n) PROVE Seated'
  <1> DEFINE g == [i \in Nat |-> IF i = 0 THEN 0 ELSE i + n]
  <1>1. /\ Reads(c, n) /\ n \in Nat \ {0} /\ phase[c] = "play" /\ UNCHANGED members
        /\ UNCHANGED phase
    BY DEF shows, Reads, LobbyShape
  <1>2. g \in [Nat -> Nat]
    BY <1>1
  <1>4. ASSUME NEW d \in Clients \ {c}, NEW i \in Nat, Holds(d, i)' PROVE Holds(d, i)
    BY <1>1, <1>4, OthersHold
  <1>5. ASSUME NEW i \in Nat, Holds(c, i)' PROVE Holds(c, g[i])
    <2>1. CASE i = 0
      BY <1>1, <2>1 DEF Holds
    <2>2. CASE i \in DOMAIN (down'[c]) /\ down'[c][i].op = "join" /\ down'[c][i].ok
      BY <1>1, <2>2, Shift DEF Holds
    <2> QED
      BY <1>5, <2>1, <2>2 DEF Holds
  <1>6. \A i, j \in Nat : g[i] = g[j] => i = j
    BY <1>1
  <1> HIDE DEF g
  <1> QED
    BY <1>1, <1>2, <1>4, <1>5, <1>6, SameSeats

\* What a reply adds to what its client holds.
LEMMA Received ==
  ASSUME LobbyShape, NEW c \in Clients, NEW r, Answer(c, r), UNCHANGED phase,
         NEW d \in Clients, NEW i \in Nat, Holds(d, i)'
  PROVE  \/ Holds(d, i)
         \/ d = c /\ i = Len(down[c]) + 1 /\ r.op = "join" /\ r.ok
  <1>1. down[c] \in Seq(Replies) /\ down \in [Clients -> Seq(Replies)]
    BY DEF LobbyShape
  <1>2. \/ down'[d] = down[d]
        \/ d = c /\ down'[d] = Append(down[c], r)
    BY <1>1 DEF Answer
  <1>3. CASE down'[d] = down[d]
    BY <1>3 DEF Holds
  <1>4. CASE d = c /\ down'[d] = Append(down[c], r)
    <2>1. /\ DOMAIN down[c] = 1..Len(down[c]) /\ Len(down[c]) \in Nat
          /\ DOMAIN (down'[d]) = 1..(Len(down[c]) + 1)
          /\ \A j \in 1..Len(down[c]) : down'[d][j] = down[c][j]
          /\ down'[d][Len(down[c]) + 1] = r
      BY <1>1, <1>4
    <2> QED
      BY <1>4, <2>1 DEF Holds
  <1> QED
    BY <1>2, <1>3, <1>4

LEMMA ServesSeats ==
  ASSUME LobbyShape, Seated, NEW c \in Clients, NEW n, process_mess(c, n) PROVE Seated'
  <1> DEFINE mes == Head(up[c])
             let == mes.arg \in Teams /\ members[mes.arg] < MaxMembers
             r == [op |-> "join", arg |-> mes.arg, ok |-> let]
  <1>1. UNCHANGED phase /\ Len(down[c]) + 1 \in Nat
    BY DEF process_mess, LobbyShape
  <1>2. CASE Answer(c, r) /\ join_team(c, mes.arg) /\ let
    <2>1. members' = [members EXCEPT ![mes.arg] = @ + 1] /\ mes.arg \in Teams
      BY <1>2 DEF join_team, add_member
    <2>2. \A d \in Clients \ {c}, i \in Nat : Holds(d, i)' => Holds(d, i)
      BY <1>1, <1>2, Received
    <2>3. \A i \in Nat \ {Len(down[c]) + 1} : Holds(c, i)' => Holds(c, i)
      BY <1>1, <1>2, Received
    <2> HIDE DEF mes
    <2> QED
      BY <1>1, <2>1, <2>2, <2>3, NewSeat
  <1>3. CASE Answer(c, r) /\ join_team(c, mes.arg) /\ ~let
    <2>1. UNCHANGED members
      BY <1>3 DEF join_team
    <2>3. ~r.ok /\ Answer(c, r)
      BY <1>3
    <2> HIDE DEF r
    <2>2. \A d \in Clients, i \in Nat : Holds(d, i)' => Holds(d, i)
      BY <1>1, <2>3, Received
    <2> QED
      BY <2>1, <2>2, NothingNew
  <1>4. ASSUME NEW ok \in BOOLEAN, Answer(c, [op |-> "attack", arg |-> mes.arg, ok |-> ok]),
               UNCHANGED members
        PROVE  Seated'
    <2>1. \A d \in Clients, i \in Nat : Holds(d, i)' => Holds(d, i)
      BY <1>1, <1>4, Received
    <2> QED
      BY <1>4, <2>1, NothingNew
  <1>5. \/ Answer(c, r) /\ join_team(c, mes.arg)
        \/ UNCHANGED members /\ \E ok \in BOOLEAN :
             Answer(c, [op |-> "attack", arg |-> mes.arg, ok |-> ok])
    BY DEF process_mess
  <1> QED
    BY <1>2, <1>3, <1>4, <1>5

LEMMA SeatedInit == LobbyInit => Seated
  <1> SUFFICES ASSUME LobbyInit PROVE Seated
    OBVIOUS
  <1> DEFINE f == [c \in Clients |-> [i \in Nat |-> <<None, 0>>]]
  <1>1. f \in Places
    BY DEF Places
  <1>2. \A c \in Clients, i \in Nat : ~Holds(c, i)
    BY DEF LobbyInit, Holds
  <1>3. Seating(f)
    BY <1>2 DEF Seating
  <1> QED
    BY <1>1, <1>3 DEF Seated

LEMMA SeatedNext == LobbyInv /\ Seated /\ [LobbyNext]_lobby => Seated'
  <1> SUFFICES ASSUME LobbyInv, Seated, [LobbyNext]_lobby PROVE Seated'
    OBVIOUS
  <1>0. LobbyShape
    BY DEF LobbyInv
  <1>1. ASSUME NEW c \in Clients, accept(c) PROVE Seated'
    <2>1. \A d \in Clients, i \in Nat : Holds(d, i)' => Holds(d, i)
      BY <1>0, <1>1 DEF accept, Holds, LobbyShape
    <2> QED
      BY <1>1, <2>1, NothingNew DEF accept
  <1>2. ASSUME NEW c \in Clients, greeted(c) PROVE Seated'
    <2>1. \A d \in Clients, i \in Nat : Holds(d, i)' => Holds(d, i)
      BY <1>0, <1>2 DEF greeted, Holds, LobbyShape
    <2> QED
      BY <1>2, <2>1, NothingNew DEF greeted
  <1>3. ASSUME NEW c \in Clients, quit(c) PROVE Seated'
    <2>1. \A d \in Clients, i \in Nat : Holds(d, i)' => Holds(d, i)
      BY <1>0, <1>3 DEF quit, Holds, LobbyShape
    <2> QED
      BY <1>3, <2>1, NothingNew DEF quit
  <1>4. ASSUME UNCHANGED <<phase, down, members>> PROVE Seated'
    BY <1>4, NothingNew DEF Holds
  <1>5. ASSUME NEW c \in Clients,
               \/ timeout(c)
               \/ \E t \in Teams \cup {Nobody} : playGame(c, t)
               \/ \E k \in Castles : Attack(c, k)
        PROVE  Seated'
    BY <1>4, <1>5 DEF timeout, playGame, Attack, Asks
  <1> QED
    BY <1>0, <1>1, <1>2, <1>3, <1>4, <1>5, JoinsSeats, ShowsSeats, ServesSeats
    DEF LobbyNext, serves, lobby

LEMMA SeatsAreMembers == Seated /\ LobbyShape => PlayersAreCounted
  <1> SUFFICES ASSUME Seated, LobbyShape PROVE PlayersAreCounted
    OBVIOUS
  <1> DEFINE Players == {c \in Clients : phase[c] = "play"}
  <1>1. PICK f \in Places : Seating(f)
    BY DEF Seated
  <1> DEFINE place == [c \in Players |-> f[c][0][1]]
  <1>2. \A c \in Players : IsSeat(f[c][0])
    BY <1>1 DEF Seating, Holds
  <1>3. place \in [Players -> Teams]
    BY <1>2 DEF IsSeat
  <1>4. ASSUME NEW t \in Teams
        PROVE  Cardinality({c \in Players : place[c] = t}) <= members[t]
    <2> DEFINE S == {c \in Players : place[c] = t}
               number == [c \in S |-> f[c][0][2]]
    <2>1. members[t] \in Nat
      BY DEF LobbyShape
    <2>2. number \in [S -> 1..members[t]]
      BY <1>2 DEF IsSeat
    <2>3. ASSUME NEW c \in S, NEW d \in S, number[c] = number[d] PROVE c = d
      <3>1. f[c][0] \in (Teams \cup {None}) \X Nat /\ f[d][0] \in (Teams \cup {None}) \X Nat
        BY <1>1 DEF Places
      <3>2. f[c][0][1] = f[d][0][1] /\ f[c][0][2] = f[d][0][2]
        BY <2>3
      <3>3. f[c][0] = f[d][0]
        BY <3>1, <3>2
      <3>4. Holds(c, 0) /\ Holds(d, 0)
        BY DEF Holds
      <3> QED
        BY <1>1, <3>3, <3>4 DEF Seating
    <2>4. number \in Injection(S, 1..members[t])
      BY <2>2, <2>3 DEF Injection, IsInjective
    <2>5. IsFiniteSet(1..members[t]) /\ Cardinality(1..members[t]) = members[t]
      BY <2>1, FS_Interval
    <2> HIDE DEF S, number
    <2>6. Cardinality(S) <= members[t]
      BY <2>4, <2>5, FS_Injection
    <2> QED
      BY <2>6 DEF S
  <1> HIDE DEF place
  <1> QED
    BY <1>3, <1>4 DEF PlayersAreCounted

\* However replies are delayed, lost or taken for others, and whatever is asked for, no
\* more games are played than the teams have counted members.
THEOREM NobodyPlaysUncounted == LobbySpec => []PlayersAreCounted
  <1>1. LobbyInv /\ Seated => PlayersAreCounted
    BY SeatsAreMembers DEF LobbyInv
  <1> QED
    BY <1>1, LobbyInvInit, LobbyInvNext, SeatedInit, SeatedNext, PTL DEF LobbySpec
----------------------------------------------------------------------------
(* The type invariant: no link holds more than its size, no team more than *)
(* its places, and every message is one of the protocol's.                 *)

LEMMA MessageTypes ==
  /\ \A s \in Seq(Requests) : Len(s) \in Nat /\ \A i \in DOMAIN s : s[i] \in Requests
  /\ \A s \in Seq(Replies) : Len(s) \in Nat /\ \A i \in DOMAIN s : s[i] \in Replies
  OBVIOUS

\* What one client waits for and plays for, and how much is on its link.
Within(c) ==
  /\ Len(up[c]) <= LinkSize /\ Len(down[c]) <= LinkSize
  /\ team[c] \in Teams \cup {Nobody, None}
  /\ phase[c] \in {"off", "hello"} => waits[c] = None
  /\ phase[c] = "start" /\ waits[c] # None => waits[c].op = "join"

Bounds == members \in [Teams -> 0..MaxMembers] /\ \A c \in Clients : Within(c)

LEMMA BoundsAreTypes == LobbyShape /\ Bounds => LobbyTypeOK
  BY MessageTypes DEF LobbyShape, Bounds, Within, LobbyTypeOK

LEMMA BoundsInit == LobbyInit => Bounds
  BY LobbyAssumption DEF LobbyInit, Bounds, Within

LEMMA OneInBounds ==
  ASSUME Bounds, NEW c \in Clients, Touches(c), Within(c)', members' \in [Teams -> 0..MaxMembers]
  PROVE  Bounds'
  BY DEF Bounds, Touches, Alone, Within

\* What a request asks for is a team's number, or nobody's.
LEMMA AsksBounds ==
  ASSUME LobbyInv, Bounds, NEW c \in Clients, NEW op, NEW arg, Asks(c, op, arg),
         phase[c] = "start" => op = "join",
         phase[c] \in {"start", "play"}, UNCHANGED window \/ window' = [window EXCEPT ![c] = None]
  PROVE  Bounds'
  <1> USE DEF LobbyInv
  <1>1. Touches(c)
    BY DEF Touches, Alone, LobbyShape, Asks
  <1>2. up[c] \in Seq(Requests) /\ down[c] \in Seq(Replies) /\ LinkSize \in Nat
    BY LobbyAssumption DEF LobbyShape
  <1>3. Len(up'[c]) <= LinkSize
    <2>1. up'[c] = Append(up[c], [op |-> op, arg |-> arg])
      BY DEF LobbyShape, Asks
    <2>2. Len(up'[c]) = Len(up[c]) + 1 /\ Len(up[c]) \in Nat /\ Len(down[c]) \in Nat
      BY <1>2, <2>1
    <2>3. Len(up[c]) + Len(down[c]) < LinkSize
      BY DEF Asks
    <2>4. \A a, b, l \in Nat : a + b < l => a + 1 <= l
      OBVIOUS
    <2>5. Len(up[c]) + 1 <= LinkSize
      BY <1>2, <2>2, <2>3, <2>4, Zenon
    <2> QED
      BY <2>2, <2>5, Zenon
  <1>4. waits'[c] = [op |-> op, arg |-> arg]
    BY DEF LobbyShape, Asks
  <1>5. Within(c)'
    BY <1>3, <1>4 DEF Within, Bounds, Asks
  <1> QED
    BY <1>1, <1>5, OneInBounds DEF Bounds, Asks

LEMMA ReadsBounds ==
  ASSUME LobbyInv, Bounds, NEW c \in Clients, NEW n, joins(c, n) \/ shows(c, n)
  PROVE  Bounds'
  <1> USE DEF LobbyInv
  <1>0. Reads(c, n)
    BY DEF joins, shows
  <1>1. Touches(c)
    BY <1>0, ReadsType DEF Touches, Alone, LobbyShape, joins, shows
  <1>2. Len(down'[c]) <= LinkSize
    <2>1. /\ down[c] \in Seq(Replies) /\ n \in 1..Len(down[c])
          /\ down'[c] = SubSeq(down[c], n + 1, Len(down[c])) /\ Len(down[c]) <= LinkSize
      BY <1>0 DEF LobbyShape, Reads, Bounds, Within
    <2> QED
      BY <2>1, LobbyAssumption
  <1>3. waits'[c] = None
    BY DEF LobbyShape, joins, shows
  <1>4. team'[c] \in Teams \cup {Nobody, None}
    <2>1. CASE joins(c, n)
      <3>1. waits[c].op = "join" /\ waits[c] \in Requests
        BY <2>1 DEF joins, Bounds, Within, LobbyShape
      <3>2. waits[c].arg \in Teams \cup {Nobody}
        BY <3>1 DEF Requests
      <3>3. team'[c] = team[c] \/ team'[c] = waits[c].arg
        BY <2>1 DEF joins, LobbyShape
      <3> QED
        BY <3>2, <3>3 DEF Bounds, Within
    <2>2. CASE shows(c, n)
      BY <2>2 DEF shows, Bounds, Within
    <2> QED
      BY <2>1, <2>2
  <1>5. UNCHANGED <<up, members>>
    BY DEF joins, shows
  <1>6. Within(c)'
    BY <1>2, <1>3, <1>4, <1>5 DEF Within, Bounds
  <1> QED
    BY <1>1, <1>5, <1>6, OneInBounds DEF Bounds

\* A reply that does not fit is lost, and a full team lets nobody in.
LEMMA ServesBounds ==
  ASSUME LobbyInv, Bounds, NEW c \in Clients, NEW n, process_mess(c, n) PROVE Bounds'
  <1> USE DEF LobbyInv
  <1>1. PICK r \in Replies : Answer(c, r)
    BY ReplyAnswers
  <1>2. /\ n \in 1..Len(up[c]) /\ up' = [up EXCEPT ![c] = SubSeq(@, n + 1, Len(@))]
        /\ UNCHANGED <<phase, team, waits, window, late>>
    BY DEF process_mess
  <1>3. /\ up[c] \in Seq(Requests) /\ down[c] \in Seq(Replies)
        /\ LinkSize \in Nat /\ MaxMembers \in Nat
    BY LobbyAssumption DEF LobbyShape
  <1>4. Touches(c)
    BY <1>1, <1>2, AdmittedGrows DEF Touches, Alone, LobbyShape, Answer
  <1>5. Len(up'[c]) <= LinkSize
    <2>1. up'[c] = SubSeq(up[c], n + 1, Len(up[c])) /\ Len(up[c]) <= LinkSize
      BY <1>2 DEF LobbyShape, Bounds, Within
    <2> QED
      BY <1>2, <1>3, <2>1
  <1>6. Len(down'[c]) <= LinkSize
    <2>1. \/ down'[c] = down[c]
          \/ Len(down[c]) # LinkSize /\ down'[c] = Append(down[c], r)
      BY <1>1 DEF LobbyShape, Answer
    <2>2. Len(down[c]) <= LinkSize /\ Len(down[c]) \in Nat
      BY <1>3 DEF Bounds, Within
    <2>3. Len(Append(down[c], r)) = Len(down[c]) + 1
      BY <1>3
    <2> QED
      BY <1>3, <2>1, <2>2, <2>3
  <1>7. members' \in [Teams -> 0..MaxMembers]
    <2>0. members \in [Teams -> 0..MaxMembers]
      BY DEF Bounds
    <2>1. join_team(c, Head(up[c]).arg) \/ UNCHANGED <<members, admitted>>
      BY DEF process_mess
    <2>2. \/ members' = members
          \/ \E t \in Teams : members[t] < MaxMembers /\ members' = [members EXCEPT ![t] = @ + 1]
      BY <2>1 DEF join_team, add_member
    <2> QED
      BY <1>3, <2>0, <2>2
  <1>8. Within(c)'
    BY <1>2, <1>5, <1>6 DEF Within, Bounds
  <1> QED
    BY <1>4, <1>7, <1>8, OneInBounds

LEMMA BoundsNext == LobbyInv /\ Bounds /\ [LobbyNext]_lobby => Bounds'
  <1> SUFFICES ASSUME LobbyInv, Bounds, [LobbyNext]_lobby PROVE Bounds'
    OBVIOUS
  <1>0. LobbyShape /\ LinkSize \in Nat /\ 1 <= LinkSize
    BY LobbyAssumption DEF LobbyInv
  <1>1. ASSUME NEW c \in Clients, accept(c) \/ greeted(c) \/ quit(c) \/ timeout(c) PROVE Bounds'
    <2>1. Touches(c)
      BY <1>0, <1>1 DEF Touches, Alone, LobbyShape, accept, greeted, quit, timeout
    <2>2. /\ UNCHANGED <<up, members>> /\ team'[c] \in {team[c], None}
          /\ waits'[c] \in {waits[c], None}
          /\ phase'[c] = phase[c] \/ (waits[c] = None /\ waits'[c] = None)
      BY <1>0, <1>1 DEF accept, greeted, quit, timeout, LobbyShape, Bounds, Within
    <2>3. Len(down'[c]) <= LinkSize
      <3>1. \/ down'[c] = down[c] \/ down'[c] = <<>>
            \/ down'[c] = <<[op |-> "teams", arg |-> None, ok |-> TRUE]>>
        BY <1>0, <1>1 DEF accept, greeted, quit, timeout, LobbyShape
      <3>2. Len(<<>>) = 0 /\ \A r : Len(<<r>>) = 1
        OBVIOUS
      <3>3. Len(down[c]) <= LinkSize
        BY DEF Bounds, Within
      <3>4. 0 <= LinkSize
        BY <1>0
      <3> QED
        BY <1>0, <3>1, <3>2, <3>3, <3>4, Zenon
    <2>4. Within(c)'
      BY <2>2, <2>3 DEF Within, Bounds
    <2> QED
      BY <2>1, <2>2, <2>4, OneInBounds DEF Bounds
  <1>2. ASSUME NEW c \in Clients, NEW t \in Teams \cup {Nobody}, playGame(c, t) PROVE Bounds'
    BY <1>2, AsksBounds DEF playGame
  <1>3. ASSUME NEW c \in Clients, NEW k \in Castles, Attack(c, k) PROVE Bounds'
    BY <1>3, AsksBounds DEF Attack
  <1>4. CASE UNCHANGED lobby
    BY <1>4 DEF lobby, Bounds, Within
  <1> QED
    BY <1>1, <1>2, <1>3, <1>4, ReadsBounds, ServesBounds DEF LobbyNext, serves

\* For any number of clients and any links, no link and no team ever holds more than it may.
THEOREM LobbyTypeCorrect == LobbySpec => []LobbyTypeOK
  <1>1. LobbyInv /\ Bounds => LobbyTypeOK
    BY BoundsAreTypes DEF LobbyInv
  <1> QED
    BY <1>1, LobbyInvInit, LobbyInvNext, BoundsInit, BoundsNext, PTL DEF LobbySpec
=============================================================================
