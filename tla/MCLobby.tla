------------------------------ MODULE MCLobby ------------------------------
(***************************************************************************)
(* The server's main thread with its clients, and its broadcast.  They     *)
(* share nothing but the end of the game, so a behaviour is one of either. *)
(***************************************************************************)
EXTENDS Lobby, Broadcast

VARIABLE part
vars == <<part, lobby, broadcast>>

Init == part \in {"link", "feed"} /\ LobbyInit /\ BroadcastInit

Link == part = "link" /\ LobbyNext /\ UNCHANGED <<part, broadcast>>
End  == part = "link" /\ setFinish /\ UNCHANGED <<part, lobby>>
Feed == part = "feed" /\ BroadcastNext /\ UNCHANGED <<part, lobby>>

\* The main thread gets to every connection that is readable; the broadcast runs as long as
\* its client lets it, and the updating threads of running clients run.
Fairness ==
  /\ \A c \in Clients : WF_vars(part = "link" /\ serves(c) /\ UNCHANGED <<part, broadcast>>)
  /\ WF_vars(part = "feed" /\ sendData /\ UNCHANGED <<part, lobby>>)
  /\ \A c \in Listeners :
       WF_vars(part = "feed" /\ (listen(c) \/ updateData(c)) /\ UNCHANGED <<part, lobby>>)

Spec == Init /\ [][Link \/ End \/ Feed]_vars /\ Fairness

\* Type invariant of both parts.
TypeOK == LobbyTypeOK /\ BroadcastTypeOK
=============================================================================
