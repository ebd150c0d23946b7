-------------------------------- MODULE Lobby --------------------------------
(***************************************************************************)
(* The strategy game's clients and the server's main thread: joining a     *)
(* team, and the link on which every request of the game travels.          *)
(*                                                                         *)
(* A client sends a request and waits two seconds for the reply.  When     *)
(* they are over it gives up, but the reply still comes and lies in the    *)
(* socket for the next request to read.  Both sides recv() what has come   *)
(* so far and unpickle the first message of it: messages that have come    *)
(* together with another are lost.  What the requests of a player do to    *)
(* castles, mines and resources is in StrategyGame; here they only carry   *)
(* what they are about.                                                    *)
(***************************************************************************)
EXTENDS Integers, Sequences, FiniteSets

CONSTANTS Clients,
          Teams,
          Nobody,      \* the team id of an entry that is not a number
          Castles,
          None,
          MaxMembers,  \* players to a team: four
          LinkSize     \* bound: messages on a client's link

ASSUME LobbyAssumption == Nobody \notin Teams /\ MaxMembers \in Nat /\ LinkSize \in Nat \ {0}

VARIABLES
  phase,    \* each client: off, hello (connected), start (asks for a team), play, gone
  team,     \* the team it plays for
  waits,    \* the request it waits for
  window,   \* the question it shows: of a castle, as the answer to an attack on one
  late,     \* history: it has given up on a reply
  up, down, \* requests and replies on its link
  members,  \* len(team.members)
  admitted  \* history: the teams that have let each client in

lobby == <<phase, team, waits, window, late, up, down, members, admitted>>

Requests == [op : {"join"}, arg : Teams \cup {Nobody}] \cup [op : {"attack"}, arg : Castles]
Replies  == [op : {"join", "attack"}, arg : Teams \cup {Nobody} \cup Castles, ok : BOOLEAN]
            \cup {[op |-> "teams", arg |-> None, ok |-> TRUE]}

ASSUME NoneAssumption == None \notin Requests

LobbyInit ==
  /\ phase = [c \in Clients |-> "off"]
  /\ team = [c \in Clients |-> None]
  /\ waits = [c \in Clients |-> None] /\ window = [c \in Clients |-> None]
  /\ late = [c \in Clients |-> FALSE]
  /\ up = [c \in Clients |-> <<>>] /\ down = [c \in Clients |-> <<>>]
  /\ members = [t \in Teams |-> 0]
  /\ admitted = [c \in Clients |-> {}]

\* the server accepts and sends the table of the teams, message 0x0802
accept(c) ==
  /\ phase[c] = "off"
  /\ phase' = [phase EXCEPT ![c] = "hello"]
  /\ down' = [down EXCEPT ![c] = <<[op |-> "teams", arg |-> None, ok |-> TRUE]>>]
  /\ UNCHANGED <<team, waits, window, late, up, members, admitted>>

\* client.main(): the start frame opens when the table has come; a client that has
\* waited for it in vain stops
greeted(c) ==
  /\ phase[c] = "hello"
  /\ \/ /\ down[c] # <<>> /\ Head(down[c]).op = "teams"
        /\ phase' = [phase EXCEPT ![c] = "start"]
        /\ down' = [down EXCEPT ![c] = <<>>]
     \/ phase' = [phase EXCEPT ![c] = "gone"] /\ UNCHANGED down
  /\ UNCHANGED <<team, waits, window, late, up, members, admitted>>

\* dumps() and send() of a request
Asks(c, op, arg) ==
  /\ waits[c] = None /\ Len(up[c]) + Len(down[c]) < LinkSize
  /\ waits' = [waits EXCEPT ![c] = [op |-> op, arg |-> arg]]
  /\ up' = [up EXCEPT ![c] = Append(@, [op |-> op, arg |-> arg])]
  /\ UNCHANGED <<phase, team, late, down, members, admitted>>

\* startFrame.playGame()
playGame(c, t) == phase[c] = "start" /\ Asks(c, "join", t) /\ UNCHANGED window
\* mainPlay.Attack().  The question of the last one has been answered or closed.
Attack(c, k) ==
  phase[c] = "play" /\ Asks(c, "attack", k) /\ window' = [window EXCEPT ![c] = None]

\* recv() and loads(): of n replies that have come the first is taken
Reads(c, n) == n \in 1..Len(down[c]) /\ down' = [down EXCEPT ![c] = SubSeq(@, n + 1, Len(@))]

\* Fault: any reply lets the player in.
joins_unasked(c, n) ==
  /\ phase[c] = "start" /\ waits[c] # None /\ Reads(c, n)
  /\ phase' = [phase EXCEPT ![c] = "play"]
  /\ team' = [team EXCEPT ![c] = waits[c].arg]
  /\ waits' = [waits EXCEPT ![c] = None]
  /\ UNCHANGED <<window, late, up, members, admitted>>

\* playGame(): the reply's opcode is looked at, but not what it is the reply to
joins(c, n) ==
  LET reply == Head(down[c])
      in == reply.op = "join" /\ reply.ok
  IN
  /\ phase[c] = "start" /\ waits[c] # None /\ Reads(c, n)
  /\ phase' = [phase EXCEPT ![c] = IF in THEN "play" ELSE @]
  /\ team' = [team EXCEPT ![c] = IF in THEN waits[c].arg ELSE @]
  /\ waits' = [waits EXCEPT ![c] = None]
  /\ UNCHANGED <<window, late, up, members, admitted>>

\* Attack(): so with the question to be shown for the castle
shows(c, n) ==
  LET reply == Head(down[c])
  IN
  /\ phase[c] = "play" /\ waits[c] # None /\ Reads(c, n)
  /\ window' = [window EXCEPT ![c] =
       IF reply.op = "attack" /\ reply.ok
       THEN [castle |-> waits[c].arg, question |-> reply.arg] ELSE @]
  /\ waits' = [waits EXCEPT ![c] = None]
  /\ UNCHANGED <<phase, team, late, up, members, admitted>>

\* settimeout(2.0): "Cannot connect to server!"
timeout(c) ==
  /\ waits[c] # None
  /\ waits' = [waits EXCEPT ![c] = None]
  /\ late' = [late EXCEPT ![c] = TRUE]
  /\ UNCHANGED <<phase, team, window, up, down, members, admitted>>

\* the window is closed and with it the socket
quit(c) ==
  /\ phase[c] \in {"start", "play"} /\ waits[c] = None
  /\ phase' = [phase EXCEPT ![c] = "gone"]
  /\ team' = [team EXCEPT ![c] = None] /\ window' = [window EXCEPT ![c] = None]
  /\ down' = [down EXCEPT ![c] = <<>>]
  /\ UNCHANGED <<waits, late, up, members, admitted>>

\* Fault: the member is not noted
add_member_nobody(t) == members[t] < MaxMembers /\ UNCHANGED members

\* Team.add_member()
add_member(t) ==
  members[t] < MaxMembers /\ members' = [members EXCEPT ![t] = @ + 1]

\* Fault: off by one.
join_team_one_more(c, t) ==
  IF t \in Teams /\ members[t] <= MaxMembers
  THEN members' = [members EXCEPT ![t] = @ + 1] /\ admitted' = [admitted EXCEPT ![c] = @ \cup {t}]
  ELSE UNCHANGED <<members, admitted>>

\* controller.join_team(), and process_mess()'s reply
join_team(c, t) ==
  IF t \in Teams /\ members[t] < MaxMembers
  THEN add_member(t) /\ admitted' = [admitted EXCEPT ![c] = @ \cup {t}]
  ELSE UNCHANGED <<members, admitted>>

\* client.send(): the socket does not block, and what does not fit is lost
Answer(c, reply) ==
  down' = [down EXCEPT ![c] = IF phase[c] = "gone" \/ Len(@) = LinkSize THEN @
                              ELSE Append(@, reply)]

\* Fault: the reply waits until the client has read the last one
process_mess_blocking(c, n) ==
  LET mes == Head(up[c])
  IN
  /\ n \in 1..Len(up[c]) /\ down[c] = <<>>
  /\ up' = [up EXCEPT ![c] = SubSeq(@, n + 1, Len(@))]
  /\ UNCHANGED <<phase, team, waits, window, late, members, admitted>>
  /\ Answer(c, [op |-> mes.op, arg |-> mes.arg, ok |-> FALSE])

\* main(), process_mess(): of n requests that have come the first is served
process_mess(c, n) ==
  LET mes == Head(up[c])
  IN
  /\ n \in 1..Len(up[c])
  /\ up' = [up EXCEPT ![c] = SubSeq(@, n + 1, Len(@))]
  /\ \/ /\ mes.op = "join" /\ join_team(c, mes.arg)
        /\ Answer(c, [op |-> "join", arg |-> mes.arg,
                      ok |-> mes.arg \in Teams /\ members[mes.arg] < MaxMembers])
     \/ /\ mes.op = "attack"
        /\ \E ok \in BOOLEAN : Answer(c, [op |-> "attack", arg |-> mes.arg, ok |-> ok])
        /\ UNCHANGED <<members, admitted>>
  /\ UNCHANGED <<phase, team, waits, window, late>>

serves(c) == \E n \in 1..LinkSize : process_mess(c, n)

LobbyNext ==
  \E c \in Clients :
    \/ accept(c) \/ greeted(c) \/ timeout(c) \/ quit(c) \/ serves(c)
    \/ \E t \in Teams \cup {Nobody} : playGame(c, t)
    \/ \E k \in Castles : Attack(c, k)
    \/ \E n \in 1..LinkSize : joins(c, n) \/ shows(c, n)

LobbySpec == LobbyInit /\ [][LobbyNext]_lobby
----------------------------------------------------------------------------
(* Properties. *)

\* Type invariant.
LobbyTypeOK ==
  /\ phase \in [Clients -> {"off", "hello", "start", "play", "gone"}]
  /\ \A c \in Clients :
       /\ team[c] \in Teams \cup {Nobody, None}
       /\ waits[c] \in Requests \cup {None}
       /\ Len(up[c]) <= LinkSize /\ \A i \in DOMAIN up[c] : up[c][i] \in Requests
       /\ Len(down[c]) <= LinkSize /\ \A i \in DOMAIN down[c] : down[c][i] \in Replies
  /\ members \in [Teams -> 0..MaxMembers]

\* However replies are delayed, lost or taken for others, there are never more players
\* than the teams have counted: every game that opens has used up an admission.
PlayersAreCounted ==
  LET Players == {c \in Clients : phase[c] = "play"}
  IN \E place \in [Players -> Teams] :
       \A t \in Teams : Cardinality({c \in Players : place[c] = t}) <= members[t]

\* A client that has never given up on a reply is in step with the server: it plays for
\* a team that has let it in, and a question it shows is that of the castle it attacks.
InStep ==
  \A c \in Clients : ~late[c] =>
    /\ phase[c] = "play" => team[c] \in admitted[c]
    /\ window[c] # None => window[c].castle = window[c].question

\* Requests go on being taken off a link until it is empty, whatever its client and the
\* others do, whether replies are read or not, and also after the end of the game.
EveryRequestIsTaken ==
  \A c \in Clients : []<>(up[c] = <<>>) \/ []<><<Len(up[c]') < Len(up[c])>>_up
=============================================================================
