--------------------------- MODULE MCLobby_proofs ---------------------------
(***************************************************************************)
(* The main thread with its clients and the broadcast, running in one      *)
(* process: a behaviour of the composition is a behaviour of either part,  *)
(* so what is proved of the parts holds of it.                             *)
(***************************************************************************)
EXTENDS MCLobby, Lobby_proofs, Broadcast_proofs

LEMMA StepOfEither == [Link \/ End \/ Feed]_vars => [LobbyNext]_lobby /\ [BroadcastNext]_broadcast
  <1>1. ASSUME Link PROVE LobbyNext /\ UNCHANGED broadcast
    BY <1>1 DEF Link
  <1>2. ASSUME End PROVE BroadcastNext /\ UNCHANGED lobby
    BY <1>2 DEF End, BroadcastNext
  <1>3. ASSUME Feed PROVE BroadcastNext /\ UNCHANGED lobby
    BY <1>3 DEF Feed
  <1>4. ASSUME UNCHANGED vars PROVE UNCHANGED <<lobby, broadcast>>
    BY <1>4 DEF vars
  <1> QED
    BY <1>1, <1>2, <1>3, <1>4

\* The composition implements each part: what one does is a step or a stutter of the other.
THEOREM PartsKept == Spec => LobbySpec /\ BroadcastSpec
  BY StepOfEither, PTL DEF Spec, Init, LobbySpec, BroadcastSpec

\* For any number of clients, teams and castles and any links and buffers, requests, replies
\* and members of the main thread's and the list, buffers and counters of the broadcast keep
\* their types and their bounds.
THEOREM TypeCorrect == Spec => []TypeOK
  BY PartsKept, LobbyTypeCorrect, BroadcastTypeCorrect, PTL DEF TypeOK

\* So the two safety properties of the link and the broadcast's hold of the program, too.
THEOREM SafetyOfBoth == Spec => [](PlayersAreCounted /\ InStep /\ SkippedAtMostRemoved)
  BY PartsKept, NobodyPlaysUncounted, PatientStayInStep, FewAreSkipped, PTL
=============================================================================
