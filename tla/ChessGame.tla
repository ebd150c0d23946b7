------------------------------ MODULE ChessGame ------------------------------
(***************************************************************************)
(* One client playing the computer: the board, the ChessStatus and the     *)
(* handlers of the server process that serves it (check_game.h,            *)
(* folk_server.c) and the client's copy of the board (tcp_client.c).  A    *)
(* request and its reply alternate on the wire.  The account dialogue and  *)
(* the transfer of the log are in ChessSession; here the client is signed  *)
(* in and the transfer is one step.                                        *)
(*                                                                         *)
(* The first moves of every game follow a line of Book, so that the free   *)
(* play begins in positions a real game takes many moves to reach; each    *)
(* move of a line still goes through the handlers.                         *)
(***************************************************************************)
EXTENDS ChessRules, Sequences, FiniteSets

CONSTANTS Book,  \* openings: sequences of games [color, moves, free]; free is the
                 \* number of plies that may follow the moves of the line
          Typos  \* pairs of squares a player may also type

ASSUME BookAssumption ==
  \A o \in Book :
    o \in Seq([color : {1, 2}, moves : Seq(Squares \X Squares), free : Nat])

VARIABLES
  board,    \* chess[][] of the server process
  status,   \* its chess_status
  color,    \* its color: the client's side
  wire,     \* the request or the reply under way, or Idle
  prompt,   \* what the client's user is asked, when the wire is idle
  view,     \* chess[][] of the client
  demo,     \* run_demo: the move the client sent last
  first,    \* first_run
  opening,  \* the opening of this behaviour and how far it has come
  ghost     \* history: what has parted the two boards, which kings' places
            \* went wrong, which kings and rooks have left home

vars == <<board, status, color, wire, prompt, view, demo, first, opening, ghost>>

Idle == [to |-> "nobody", op |-> "idle"]
Spinning == [to |-> "nobody", op |-> "spin"]  \* find_way's loop without an end
Request(op, arg) == [to |-> "server", op |-> op, arg |-> arg]
Reply(op, arg)   == [to |-> "client", op |-> op, arg |-> arg]
Asked(op)    == wire.to = "server" /\ wire.op = op
Answered(op) == wire.to = "client" /\ wire.op = op
Moves == {"RUN", "RUN_W", "RUN_C_SERVER", "RUN_C_CLIENT", "RUN_C_SERVER_CLIENT"}
NoArg == <<>>

Init ==
  /\ board = make_chess /\ view = make_chess
  /\ status = [at |-> [c \in {1, 2} |-> <<0, 0>>], king |-> [c \in {1, 2} |-> FALSE],
               rook |-> [k \in Corners |-> FALSE]]
  /\ color = 1
  /\ wire = Idle
  /\ prompt = "menu"
  /\ demo = <<<<0, 0>>, <<0, 0>>>> /\ first = TRUE
  /\ opening \in {[games |-> o, game |-> 0, ply |-> 0] : o \in Book}
  /\ ghost = [parted |-> {}, lost |-> {}, left |-> {}]

----------------------------------------------------------------------------
(* The line a game follows, and the free play after it *)

Game     == opening.games[opening.game]
Scripted == opening.ply < Len(Game.moves)
MayMove  == opening.ply < Len(Game.moves) + Game.free
\* the n-th move from here is the one the line says, or the line has ended
Follows(n, m) ==
  opening.ply + n <= Len(Game.moves) => m = Game.moves[opening.ply + n]
Played(n) == [opening EXCEPT !.ply = @ + n]

\* The history: a king or a rook that leaves its home square
Leaves(b, s) ==
  IF \E c \in {1, 2} :
       \/ b[s] = Rook(c) /\ s \in {<<HomeRow(c), 0>>, <<HomeRow(c), 7>>}
       \/ b[s] = King(c) /\ s = <<HomeRow(c), 4>>
  THEN {s} ELSE {}

----------------------------------------------------------------------------
(* The client's user *)

\* authenticated_menu(), choice 1
Ask_Start ==
  /\ wire = Idle /\ prompt = "menu" /\ opening.game < Len(opening.games)
  /\ wire' = Request("START_GAME", NoArg)
  /\ opening' = [opening EXCEPT !.game = @ + 1, !.ply = 0]
  /\ prompt' = "none"
  /\ UNCHANGED <<board, status, color, view, demo, first, ghost>>

\* game_ready(): a new board and the choice of a side
game_ready ==
  /\ Answered("READY_GAME")
  /\ view' = make_chess
  /\ wire' = Request("COLOR", Game.color)
  /\ ghost' = IF Game.color = 2 /\ ~first
              THEN [ghost EXCEPT !.parted = @ \cup {"stale move"}] ELSE ghost
  /\ UNCHANGED <<board, status, color, prompt, demo, first, opening>>

\* select_run(): the user types the two squares.
select_run ==
  /\ wire = Idle /\ prompt = "move"
  /\ first' = FALSE
  /\ MayMove
  /\ \E m \in (IF Scripted THEN {Game.moves[opening.ply + 1]}
                ELSE Tries(view, color) \cup Typos) :
       /\ demo' = m
       /\ wire' = Request("RUN", m)
  /\ prompt' = "none"
  /\ UNCHANGED <<board, status, color, view, opening, ghost>>

\* select_warning(): give up, or go on to select_run(), whose first gets() finds
\* the rest of the line of the answer and takes it for the row.  What it then writes into
\* run_demo is no square; the RUN_ERROR that follows leads to select_run(), which writes
\* it again before it is read.
select_warning ==
  /\ wire = Idle /\ prompt = "warning"
  /\ prompt' = "none"
  /\ \/ wire' = Request("END_RUN", NoArg) /\ ~Scripted /\ first' = first
     \/ wire' = Request("RUN", NoMove) /\ first' = FALSE
  /\ UNCHANGED <<board, status, color, view, demo, opening, ghost>>

----------------------------------------------------------------------------
(* The client's answers to the server's messages *)

\* update_castling_client()
WithRook(b, t) == Put(b, update_castling(t).from, update_castling(t).to)

\* what server_run() draws: the client's own move, only now, unless first_run says
\* that there is none; then the server's, then the rooks of castlings.
Drawn ==
  LET own  == IF first THEN view ELSE Put(view, demo[1], demo[2])
      both == Put(own, wire.arg[1], wire.arg[2])
      mine == IF wire.op \in {"RUN_C_CLIENT", "RUN_C_SERVER_CLIENT"}
              THEN WithRook(both, demo[2]) ELSE both
  IN IF wire.op \in {"RUN_C_SERVER", "RUN_C_SERVER_CLIENT"}
     THEN WithRook(mine, wire.arg[2]) ELSE mine

\* server_run()
server_run ==
  /\ wire.to = "client" /\ wire.op \in Moves
  /\ view' = Drawn
  /\ first' = FALSE
  /\ prompt' = IF wire.op = "RUN_W" THEN "warning" ELSE "move"
  /\ wire' = Idle
  /\ UNCHANGED <<board, status, color, demo, opening, ghost>>

\* COLOR_OK and run_error(): straight to the next move
Next_Move ==
  /\ Answered("COLOR_OK") \/ Answered("RUN_ERROR")
  /\ prompt' = "move" /\ wire' = Idle
  /\ UNCHANGED <<board, status, color, view, demo, first, opening, ghost>>

\* you_win(), computer_win(): RESULT, the log's lines, back to the menu
Result ==
  /\ Answered("YOU_WIN") \/ Answered("COMPUTER_WIN")
  /\ prompt' = "menu" /\ wire' = Idle
  /\ UNCHANGED <<board, status, color, view, demo, first, opening, ghost>>

----------------------------------------------------------------------------
(* The server's handlers: Check_Mess of folk_server.c and check_game.h *)

START_GAME ==
  /\ Asked("START_GAME")
  /\ board' = make_chess
  /\ status' = [status EXCEPT !.at = [c \in {1, 2} |-> <<HomeRow(c), 4>>]]
  /\ wire' = Reply("READY_GAME", NoArg)
  /\ ghost' = [ghost EXCEPT !.parted = {}, !.lost = {}]
  /\ UNCHANGED <<color, prompt, view, demo, first, opening>>

\* Check_Color(): as black the client waits for the computer's first move.
Check_Color ==
  /\ Asked("COLOR")
  /\ color' = wire.arg
  /\ \/ /\ wire.arg = 1
        /\ wire' = Reply("COLOR_OK", NoArg)
        /\ UNCHANGED <<board, status, opening>>
     \/ /\ wire.arg = 2
        /\ \E run \in find_way(board, 2, status, FALSE, 0) :
             /\ Follows(1, run.move)
             /\ board' = Put(board, run.move[1], run.move[2])
             /\ status' = run.cs
             /\ wire' = Reply("RUN", run.move)
             /\ opening' = Played(1)
  /\ UNCHANGED <<prompt, view, demo, first, ghost>>

\* Check_Run() on a row or column missing, or a move check_chess_run refuses
Check_Run_Error ==
  /\ Asked("RUN")
  /\ wire.arg # NoMove =>
       check_chess_run(board, color, wire.arg[1], wire.arg[2], status, 0).code <= 0
  /\ wire' = Reply("RUN_ERROR", NoArg)
  /\ UNCHANGED <<board, status, color, prompt, view, demo, first, opening, ghost>>

\* the king's place noted after the computer's move: for the white king the
\* column goes to king_x_black
NoteKing(cs, b, t) ==
  CASE b[t] = "w" -> [cs EXCEPT !.at[2] = t]
    [] b[t] = "W" -> [cs EXCEPT !.at[1][1] = t[1], !.at[2][1] = t[2]]
    [] OTHER -> cs

\* Fault: a message the client does not know
MessageMisspelt(code, run) ==
  IF run.status = 2 THEN "RUN_W"
  ELSE IF Castled(run.code) /\ Castled(code) THEN "RUN_C_CLIENT_SERVER"
  ELSE IF Castled(run.code) THEN "RUN_C_SERVER" ELSE IF Castled(code) THEN "RUN_C_CLIENT" ELSE "RUN"

\* the message for the computer's move; code is the client's, run the computer's
Message(code, run) ==
  CASE run.status = 2 -> "RUN_W"
    [] run.status = 1 /\ Castled(run.code) /\ Castled(code)  -> "RUN_C_SERVER_CLIENT"
    [] run.status = 1 /\ Castled(run.code) /\ ~Castled(code) -> "RUN_C_SERVER"
    [] run.status = 1 /\ ~Castled(run.code) /\ Castled(code) -> "RUN_C_CLIENT"
    [] OTHER -> "RUN"

\* Fault: the rook of the client's castling stays in its corner
AcceptedKingOnly(r, m) == [b |-> Put(board, m[1], m[2]), cs |-> r.cs]

\* the board and the ChessStatus after the client's move, its rook included
Accepted(r, m) ==
  LET b == Put(board, m[1], m[2])
  IN IF Castled(r.code)
     THEN [b |-> WithRook(b, m[2]), cs |-> [r.cs EXCEPT !.rook[update_castling(m[2]).from] = TRUE]]
     ELSE [b |-> b, cs |-> r.cs]

\* The computer's move lands on the square the rook of the client's castling left, or on
\* the one it went to: the client draws that move before it draws the rook's.
LandsOnCastling(m, r, run) ==
  /\ Castled(r.code) /\ run.status # 0
  /\ run.move[2] \in {update_castling(m[2]).from, update_castling(m[2]).to}

\* what the history keeps of an exchange: m and r of the client, run of the computer
Remembered(m, r, a, warned, run, op, b) ==
  [parted |-> ghost.parted
     \cup (IF op \in {"RUN_C_SERVER", "RUN_C_SERVER_CLIENT"} THEN {"server castled"} ELSE {})
     \cup (IF op = "RUN_W" /\ Castled(r.code) THEN {"castled with check"} ELSE {})
     \cup (IF LandsOnCastling(m, r, run) THEN {"castled rook met"} ELSE {}),
   lost |-> ghost.lost
     \cup (IF warned THEN {3 - color} ELSE {})
     \cup (IF run.status # 0 /\ b[run.move[2]] = "W" THEN {2} ELSE {}),
   left |-> ghost.left \cup Leaves(board, m[1])
     \cup (IF Castled(r.code) THEN {update_castling(m[2]).from} ELSE {})
     \cup (IF run.status = 0 THEN {} ELSE Leaves(a.b, run.move[1]))]

\* the computer has no move, and looks for one for ever
Spin(a) ==
  /\ board' = a.b /\ status' = a.cs
  /\ wire' = Spinning
  /\ UNCHANGED <<opening, ghost>>

\* the computer's move: played, its king's place noted, and sent
Answer(m, r, a, warned, run) ==
  LET b  == IF run.status = 0 THEN a.b ELSE Put(a.b, run.move[1], run.move[2])
      op == IF run.status = 0 \/ ~check_endgame(b, 3 - color)
            THEN "YOU_WIN" ELSE Message(r.code, run)
  IN /\ board' = b
     /\ status' = IF run.status = 0 THEN run.cs ELSE NoteKing(run.cs, b, run.move[2])
     /\ wire' = Reply(op, run.move)
     /\ opening' = Played(2)
     /\ ghost' = Remembered(m, r, a, warned, run, op, b)

\* Check_Run() on a move it accepts: the client's move, then the computer's
Check_Run ==
  /\ Asked("RUN") /\ wire.arg # NoMove
  /\ \E ub \in Leftover(board, color, status) :
       LET m == wire.arg
           r == check_chess_run(board, color, m[1], m[2], status, ub)
           a == Accepted(r, m)
           warned == check_checkmate_reverse(a.b, color, a.cs)
       IN /\ r.code > 0
          /\ \E left \in Leftover(a.b, 3 - color, a.cs) :
               LET runs == find_way(a.b, color, a.cs, warned, left)
               IN \/ runs = {} /\ Spin(a)
                  \/ \E run \in {w \in runs : warned \/ Follows(2, w.move)} :
                       Answer(m, r, a, warned, run)
  /\ UNCHANGED <<color, prompt, view, demo, first>>

\* End_Game()
End_Game ==
  /\ Asked("END_RUN")
  /\ wire' = Reply("COMPUTER_WIN", NoArg)
  /\ UNCHANGED <<board, status, color, prompt, view, demo, first, opening, ghost>>

----------------------------------------------------------------------------
Client == game_ready \/ server_run \/ Next_Move \/ Result
Server == START_GAME \/ Check_Color \/ Check_Run_Error \/ Check_Run \/ End_Game
User   == Ask_Start \/ select_run \/ select_warning
Next == Client \/ Server \/ User

Spec == Init /\ [][Next]_vars

----------------------------------------------------------------------------
(* What the game promises *)

\* Type invariant.
Messages == {"idle", "spin", "START_GAME", "COLOR", "RUN", "END_RUN", "READY_GAME",
             "COLOR_OK", "RUN_ERROR", "YOU_WIN", "COMPUTER_WIN"} \cup Moves
TypeOK ==
  /\ board \in [Squares -> White \cup Black \cup {Empty}]
  /\ view \in [Squares -> White \cup Black \cup {Empty}]
  /\ status \in Status
  /\ color \in {1, 2} /\ first \in BOOLEAN
  /\ wire.to \in {"nobody", "server", "client"} /\ wire.op \in Messages
  /\ prompt \in {"menu", "move", "warning", "none"}
  /\ opening.games \in Book /\ opening.game \in 0..Len(opening.games) /\ opening.ply \in Nat
  /\ ghost.lost \subseteq {1, 2}

\* When the user is asked for a move, the board on the screen is the server's,
\* the castlings included -- but for four ways the code lets them part: the
\* computer's castling (its rook stays on the server's board), a castling
\* answered by RUN_W (the client's rook stays on the client's board), one answered
\* by a move to a square its rook left or went to (on the client's board the rook moves
\* last), and the stale move of run_demo at the start of a later game as black.
BoardsAgree ==
  wire = Idle /\ prompt \in {"move", "warning"} /\ ghost.parted = {} => view = board

\* Every test of check goes by the places in ChessStatus: as long as no scan of
\* find_way and no move of a white computer's king has overwritten it, the place
\* noted for a king is where that king stands, if it still stands.
KingsKnown ==
  wire = Idle /\ prompt \in {"move", "warning"} =>
    \A c \in {1, 2} \ ghost.lost :
      check_endgame(board, c) => board[status.at[c]] = King(c)

\* A king or a rook that has left its home square has lost its right to castle,
\* whoever moved it and whatever the move was.
RightsLost ==
  \A s \in ghost.left :
    IF s \in Corners THEN status.rook[s] ELSE status.king[IF s[1] = 7 THEN 1 ELSE 2]

\* YOU_WIN is never unearned: the computer's king has been taken, or it stands
\* attacked after the client's move.
WinIsEarned ==
  [][wire'.op = "YOU_WIN" /\ 3 - color \notin ghost.lost /\ ~UNCHANGED wire =>
       \/ \A k \in Squares : board'[k] # King(3 - color)
       \/ \E k \in Squares : /\ board'[k] = King(3 - color)
                             /\ check_checkmate(board', 3 - color, k)]_vars

\* An exchange of moves takes at most one piece from each side, and no side gains
\* one, on either board: a piece moved leaves the square it came from.
Count(b, S) == Cardinality({s \in Squares : b[s] \in S})
TakesOnePieceEach ==
  [][wire'.op # "READY_GAME" /\ wire.op # "READY_GAME" =>
       \A S \in {White, Black} :
         /\ Count(board', S) \in (Count(board, S) - 1)..Count(board, S)
         /\ ghost.parted = {} =>
              Count(view', S) \in (Count(view, S) - 1)..Count(view, S)]_vars

\* ai.h:318 and check_game.h:292 call RUN_W the message of a move that gives
\* check: the client's king, whose player is asked to save it, is attacked.
WarningIsCheck ==
  Answered("RUN_W") /\ ghost.lost = {} =>
    \E k \in Squares : board[k] = King(color) /\ check_checkmate(board, color, k)

\* my_type.h:24, "0: may het co-> may:thua": a computer that has no move left has lost.
\* So one that has no piece left does not go on looking for its move.
NoPieceLoses ==
  (\A s \in Squares : board[s] \notin Own(3 - color)) => wire # Spinning
=============================================================================
