------------------------------ MODULE Broadcast ------------------------------
(***************************************************************************)
(* The strategy game's second port: the thread listen() collects           *)
(* connections in list_client, the thread sendData() sends the tables to   *)
(* them every second, and each client's updateData() thread shows them.    *)
(*                                                                         *)
(* send() blocks while a client's buffer is full.  A message is some 250   *)
(* bytes and updateData() receives 2048 at a time, of which it unpickles   *)
(* the first message: a client that has fallen further behind reads on     *)
(* from the middle of a message, its thread ends with an exception, and    *)
(* its socket with the thread.                                             *)
(***************************************************************************)
EXTENDS Integers, Sequences, FiniteSets, SequencesExt

CONSTANTS Listeners,
          BufferSize,  \* messages that fit into a client's buffer
          RecvMax      \* messages that fit into the client's 2048 bytes

ASSUME BroadcastAssumption ==
  IsFiniteSet(Listeners) /\ BufferSize \in Nat \ {0} /\ RecvMax \in Nat \ {0}

VARIABLES
  is_finished,
  list_client,  \* the connections the rounds go through
  feed,         \* each client's end: none, backlog, reading, stalled, closed
  queue,        \* messages in its buffer
  at,           \* the sender: sleep, round, ended
  index,        \* of the loop over list_client: clients it has passed
  began, sent,  \* history: list_client as the round began, and those sent to in it
  removed,      \* history: clients removed in the round
  skipped       \* history: clients of the last round that stayed and got nothing

broadcast == <<is_finished, list_client, feed, queue, at, index, began, sent, removed, skipped>>
loop == <<at, index, began, sent, removed, skipped>>

BroadcastInit ==
  /\ is_finished = FALSE
  /\ list_client = <<>>
  /\ feed = [c \in Listeners |-> "none"]
  /\ queue = [c \in Listeners |-> 0]
  /\ at = "sleep" /\ index = 0
  /\ began = {} /\ sent = {} /\ removed = 0 /\ skipped = {}

\* timer_game has run out
setFinish ==
  /\ ~is_finished /\ is_finished' = TRUE
  /\ UNCHANGED <<list_client, feed, queue, loop>>

\* updateData() connects
connect(c) ==
  /\ feed[c] = "none" /\ feed' = [feed EXCEPT ![c] = "backlog"]
  /\ UNCHANGED <<is_finished, list_client, queue, loop>>

\* a round may be at work while listen() appends
listen(c) ==
  /\ feed[c] = "backlog" /\ feed' = [feed EXCEPT ![c] = "reading"]
  /\ list_client' = Append(list_client, c)
  /\ UNCHANGED <<is_finished, queue, loop>>

\* updateData(): what has come is read at once and the first message shown
updateData(c) ==
  /\ feed[c] = "reading" /\ queue[c] > 0
  /\ queue' = [queue EXCEPT ![c] = 0]
  /\ feed' = [feed EXCEPT ![c] = IF queue[c] > RecvMax THEN "closed" ELSE @]
  /\ UNCHANGED <<is_finished, list_client, loop>>

\* the client's machine stops and goes on, or the game is left
stall(c) ==
  /\ \/ feed[c] = "reading" /\ feed' = [feed EXCEPT ![c] = "stalled"]
     \/ feed[c] = "stalled" /\ feed' = [feed EXCEPT ![c] = "reading"]
  /\ UNCHANGED <<is_finished, list_client, queue, loop>>
leave(c) ==
  /\ feed[c] \in {"reading", "stalled"}
  /\ feed' = [feed EXCEPT ![c] = "closed"] /\ queue' = [queue EXCEPT ![c] = 0]
  /\ UNCHANGED <<is_finished, list_client, loop>>

\* sendData(): a second is over
wake ==
  /\ at = "sleep"
  /\ at' = IF is_finished THEN "ended" ELSE "round"
  /\ index' = 0 /\ began' = ToSet(list_client) /\ sent' = {} /\ removed' = 0
  /\ UNCHANGED <<is_finished, list_client, feed, queue, skipped>>

Next_Client == list_client[index + 1]

\* sendData(): waits while the client's buffer is full
send ==
  /\ at = "round" /\ index < Len(list_client)
  /\ LET c == Next_Client IN
       /\ feed[c] # "closed" /\ queue[c] < BufferSize
       /\ queue' = [queue EXCEPT ![c] = @ + 1]
       /\ sent' = sent \cup {c}
  /\ index' = index + 1
  /\ UNCHANGED <<is_finished, list_client, feed, at, began, removed, skipped>>

\* the same to a client that has gone, which does not fail at first: only the reset that
\* comes back does
unheard ==
  /\ at = "round" /\ index < Len(list_client) /\ feed[Next_Client] = "closed"
  /\ queue[Next_Client] = 0
  /\ queue' = [queue EXCEPT ![Next_Client] = 1]
  /\ sent' = sent \cup {Next_Client}
  /\ index' = index + 1
  /\ UNCHANGED <<is_finished, list_client, feed, at, began, removed, skipped>>

\* Fault: the exception leaves the loop, and nobody is removed.
leave_round ==
  /\ at = "round" /\ index < Len(list_client) /\ feed[Next_Client] = "closed"
  /\ at' = "sleep"
  /\ skipped' = (began \cap ToSet(list_client)) \ sent
  /\ UNCHANGED <<is_finished, list_client, feed, queue, index, began, sent, removed>>

\* sendData(): the connection is reset.  The iterator counts on, so the client that moves
\* into the removed one's place is passed over.
remove ==
  /\ at = "round" /\ index < Len(list_client) /\ feed[Next_Client] = "closed"
  /\ list_client' = RemoveAt(list_client, index + 1)
  /\ index' = index + 1 /\ removed' = removed + 1
  /\ UNCHANGED <<is_finished, feed, queue, at, began, sent, skipped>>

\* the loop over list_client ends
round_ends ==
  /\ at = "round" /\ index >= Len(list_client)
  /\ at' = "sleep"
  /\ skipped' = (began \cap ToSet(list_client)) \ sent
  /\ UNCHANGED <<is_finished, list_client, feed, queue, index, began, sent, removed>>

sendData == wake \/ send \/ unheard \/ remove \/ round_ends

BroadcastNext ==
  \/ setFinish \/ sendData
  \/ \E c \in Listeners : connect(c) \/ listen(c) \/ updateData(c) \/ stall(c) \/ leave(c)

BroadcastSpec == BroadcastInit /\ [][BroadcastNext]_broadcast
----------------------------------------------------------------------------
(* Properties. *)

\* Type invariant.
BroadcastTypeOK ==
  /\ is_finished \in BOOLEAN
  /\ feed \in [Listeners -> {"none", "backlog", "reading", "stalled", "closed"}]
  /\ queue \in [Listeners -> 0..BufferSize]
  /\ IsInjective(list_client) /\ ToSet(list_client) \subseteq Listeners
  /\ at \in {"sleep", "round", "ended"} /\ index \in 0..Cardinality(Listeners)
  /\ began \cup sent \cup skipped \subseteq Listeners
  /\ removed \in 0..Cardinality(Listeners)

\* Although clients are removed from the list in the middle of the loop over it, a removal
\* costs at most one other client the second's tables.
SkippedAtMostRemoved == at = "sleep" => Cardinality(skipped) <= removed

\* Until the end of the game a client that goes on reading is sent the tables again and
\* again, whoever else has come, left or been skipped, unless the thread waits for a
\* client that has stopped reading.
KeepsBeingShown ==
  \A c \in Listeners :
    \/ []<>(c \in sent) \/ <>is_finished
    \/ []<>(feed[c] # "reading") \/ \E d \in Listeners : []<>(feed[d] = "stalled")
=============================================================================
