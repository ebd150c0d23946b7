----------------------------- MODULE MCChessGame -----------------------------
(***************************************************************************)
(* ChessGame for TLC: the openings, and the rules of chess the move        *)
(* checks are compared with.                                               *)
(***************************************************************************)
EXTENDS ChessGame

\* A move is written as four digits: row and column from, row and column to.
Move(n) == <<<<n \div 1000, (n \div 100) % 10>>, <<(n \div 10) % 10, n % 10>>>>
Line(ns) == [i \in DOMAIN ns |-> Move(ns[i])]
AsWhite(ns, f) == [color |-> 1, moves |-> Line(ns), free |-> f]
AsBlack(ns, f) == [color |-> 2, moves |-> Line(ns), free |-> f]

\* The king's side cleared for white; for both sides; for the computer, which castles.
Castle        == AsWhite(<<7655, 1020, 6656, 2030, 7566, 3040>>, 2)
BothCastle    == AsWhite(<<7655, 0625, 6656, 1626, 7566, 0516, 7476, 0406>>, 2)
ServerCastles == AsWhite(<<6050, 0625, 5040, 1626, 6151, 0516, 5141, 0406>>, 2)
\* Black may castle on the queen's side, its target attacked, or its rook shut in.
QueenSide     == AsBlack(<<6757, 0122, 6353, 1333, 7257, 0234, 6050, 0313, 5040>>, 2)
\* The computer is in check; its king walks into an attack; it is mated.
Check         == AsWhite(<<6444, 1434, 7337, 1020, 3715>>, 0)
KingTaken     == AsWhite(<<6444, 1434, 7337, 0414, 6050, 1424, 6151, 2435>>, 2)
WhiteKing     == AsBlack(<<6444, 1434, 7464, 1020>>, 0)
Mate          == AsBlack(<<6555, 1434, 6646, 0347>>, 0)
\* A castling that gives check and is parried.
CastleCheck   == AsWhite(<<6545, 1434, 4534, 1525, 3425, 0415, 2516, 1020, 7657,
                           2030, 6656, 3040, 7566, 1727, 7476>>, 2)
\* A castling whose rook is taken at once, by a bishop.
RookTaken     == AsWhite(<<7655, 1121, 6656, 0220, 7566, 1727, 6444, 1626, 7476, 2075>>, 1)
\* The client takes piece after piece until the computer has none.
Massacre      == AsWhite(<<7655, 1434, 5534, 0541, 3415, 0120, 1503, 4152, 0311,
                           2032, 1132, 0001, 6352, 0151, 6051, 1636, 7010, 0627,
                           1012, 0211, 7236, 1144, 1213, 4455, 1317, 5511, 3211,
                           0415, 1707, 1504, 0727, 0414, 3614>>, 0)

Openings == {<<AsWhite(<<>>, 2)>>, <<AsBlack(<<>>, 0)>>, <<Castle>>, <<BothCastle>>,
             <<ServerCastles>>, <<QueenSide>>, <<Check>>, <<KingTaken>>, <<WhiteKing>>,
             <<CastleCheck>>, <<RookTaken>>, <<Massacre>>,
             <<Mate, AsBlack(<<>>, 0)>>, <<Mate, AsWhite(<<>>, 0)>>}

\* A rook through its pawn, a king's leap, the other side's pawn, off the board.
MCTypos == {Move(7040), Move(7472), Move(1020), <<<<9, 1>>, <<1, 1>>>>}

----------------------------------------------------------------------------
(* The rules of chess, castling apart, by the lines a piece moves along *)

Plus(s, d, k) == <<s[1] + k * d[1], s[2] + k * d[2]>>
Ray(b, s, d) == {Plus(s, d, k) : k \in {n \in 1..7 :
                   /\ Plus(s, d, n) \in Squares
                   /\ \A j \in 1..(n - 1) : b[Plus(s, d, j)] = Empty}}
Straight == {<<0, 1>>, <<0, -1>>, <<1, 0>>, <<-1, 0>>}
Diagonal == {<<1, 1>>, <<1, -1>>, <<-1, 1>>, <<-1, -1>>}
Leaps    == {d \in (-2..2) \X (-2..2) : Abs(d[1]) + Abs(d[2]) = 3}
Steps(s, D) == {Plus(s, d, 1) : d \in D} \cap Squares
PawnGoes(b, c, s) ==
  LET f == IF c = 1 THEN -1 ELSE 1
      one == Steps(s, {<<f, 0>>})
      two == IF s[1] = HomeRow(c) + f
             THEN {<<s[1] + 2 * f, s[2]>>} ELSE {}
      push == {t \in one : b[t] = Empty}
  IN push \cup {t \in two : push # {} /\ b[t] = Empty}
          \cup {t \in Steps(s, {<<f, 1>>, <<f, -1>>}) : b[t] \in Own(3 - c)}
Goes(b, c, s) ==
  CASE b[s] \in {"o", "O"} -> PawnGoes(b, c, s)
    [] b[s] \in {"m", "M"} -> Steps(s, Leaps)
    [] b[s] \in {"w", "W"} -> Steps(s, Straight \cup Diagonal)
    [] b[s] \in {"x", "X"} -> UNION {Ray(b, s, d) : d \in Straight}
    [] b[s] \in {"t", "T"} -> UNION {Ray(b, s, d) : d \in Diagonal}
    [] b[s] \in {"h", "H"} -> UNION {Ray(b, s, d) : d \in Straight \cup Diagonal}

\* In every position of the game check_chess_run accepts for either side exactly
\* the moves the rules of chess give its pieces (castling apart, and kings may
\* move into check).
RulesOfChess ==
  wire = Idle /\ prompt = "move" =>
    \A c \in {1, 2} : \A s \in {q \in Squares : board[q] \in Own(c)} :
      {t \in Squares : /\ ~(board[s] = King(c) /\ TwoAside(s, t))
                       /\ check_chess_run(board, c, s, t, status, 0).code > 0}
      = {t \in Goes(board, c, s) : board[t] \notin Own(c)}

\* find_way loops for ever only where the rules of chess leave the computer no
\* move: its loop over random squares misses none of the moves it has.
StuckOnlyWithoutMove ==
  wire = Spinning =>
    \A s \in {q \in Squares : board[q] \in Own(3 - color)} :
      {t \in Goes(board, 3 - color, s) : board[t] \notin Own(3 - color)} = {}
=============================================================================
