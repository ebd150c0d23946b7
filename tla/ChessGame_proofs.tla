-------------------------- MODULE ChessGame_proofs --------------------------
(***************************************************************************)
(* Proofs about ChessGame, for any openings -- so for any games of any     *)
(* length -- and whatever a player types.                                  *)
(***************************************************************************)
EXTENDS ChessGame, FiniteSetTheorems, SequenceTheorems, TLAPS

Pieces == White \cup Black \cup {Empty}
Boards == [Squares -> Pieces]
Colors == {1, 2}

\* A ChessStatus as far as its marks go.
Marks(cs) ==
  /\ cs = [at |-> cs.at, king |-> cs.king, rook |-> cs.rook]
  /\ cs.king \in [Colors -> BOOLEAN]
  /\ cs.rook \in [Corners -> BOOLEAN]

\* Marks are never taken back.
Grown(cs, after) ==
  /\ \A c \in Colors : cs.king[c] => after.king[c]
  /\ \A k \in Corners : cs.rook[k] => after.rook[k]

\* Who has left square s must have lost its right.
Lost(cs, s) == IF s \in Corners THEN cs.rook[s] ELSE cs.king[IF s[1] = 7 THEN 1 ELSE 2]
Homes == Corners \cup {<<0, 4>>, <<7, 4>>}

\* A king without a mark has not moved.
KingsAtHome(b, cs) ==
  \A c \in Colors : ~cs.king[c] => \A s \in Squares : b[s] = King(c) => s = <<HomeRow(c), 4>>

----------------------------------------------------------------------------
(* The operators of ChessRules *)

LEMMA MarkedMarks ==
  ASSUME NEW b, NEW c \in Colors, NEW cs, NEW M, Marks(cs)
  PROVE  /\ Marks(Marked(b, c, cs, M)) /\ Grown(cs, Marked(b, c, cs, M))
         /\ \A m \in M : b[m[1]] = King(c) => Marked(b, c, cs, M).king[c]
         /\ \A m \in M : m[1] \in Corners /\ m[1][1] = HomeRow(c) /\ b[m[1]] = Rook(c)
              => Marked(b, c, cs, M).rook[m[1]]
  <1> DEFINE K == {m \in M : b[m[1]] = King(c)}
             r == Marked(b, c, cs, M)
  <1>1. /\ r = [at |-> r.at, king |-> r.king, rook |-> r.rook]
        /\ r.king = [cs.king EXCEPT ![c] = @ \/ K # {}]
        /\ r.rook = [k \in Corners |->
             \/ cs.rook[k]
             \/ k[1] = HomeRow(c) /\ b[k] = Rook(c) /\ \E m \in M : m[1] = k]
    BY DEF Marked
  <1> HIDE DEF r
  <1>2. r.king \in [Colors -> BOOLEAN] /\ \A d \in Colors : cs.king[d] => r.king[d]
    BY <1>1 DEF Marks
  <1>3. r.rook \in [Corners -> BOOLEAN] /\ \A k \in Corners : cs.rook[k] => r.rook[k]
    BY <1>1
  <1>4. \A m \in M : b[m[1]] = King(c) => r.king[c]
    BY <1>1 DEF Marks
  <1>5. \A m \in M : m[1] \in Corners /\ m[1][1] = HomeRow(c) /\ b[m[1]] = Rook(c)
              => r.rook[m[1]]
    BY <1>1
  <1> QED
    BY <1>1, <1>2, <1>3, <1>4, <1>5 DEF r, Marks, Grown

LEMMA PutBoard ==
  ASSUME NEW b \in Boards, NEW s \in Squares, NEW t \in Squares
  PROVE  /\ Put(b, s, t) \in Boards
         /\ \A u \in Squares : Put(b, s, t)[u] = IF u = s THEN Empty
                                                 ELSE IF u = t THEN b[s] ELSE b[u]
  BY DEF Put, Boards, Pieces

LEMMA KingFacts ==
  /\ \A c \in Colors : King(c) # Empty /\ Rook(c) # Empty /\ King(c) \in Own(c) /\ Rook(c) \in Own(c)
  /\ \A c \in Colors, d \in Colors : King(c) # Rook(d) /\ (King(c) \in Own(d) => d = c)
                                     /\ (Rook(c) \in Own(d) => d = c)
  BY DEF Colors, King, Rook, Own, White, Black, Empty

\* A piece of c's that is moved, with its mark, from s to t.
LEMMA MoveKeepsKings ==
  ASSUME NEW b \in Boards, NEW c \in Colors, NEW cs, NEW after,
         KingsAtHome(b, cs), Grown(cs, after), NEW s \in Squares, NEW t \in Squares,
         \A d \in Colors : b[s] = King(d) => after.king[d]
  PROVE  KingsAtHome(Put(b, s, t), after)
  <1> SUFFICES ASSUME NEW d \in Colors, ~after.king[d], NEW u \in Squares,
                      Put(b, s, t)[u] = King(d)
               PROVE  u = <<HomeRow(d), 4>>
    BY DEF KingsAtHome
  <1>1. ~cs.king[d]
    BY DEF Grown
  <1>2. b[s] # King(d) /\ King(d) # Empty
    BY KingFacts
  <1>3. b[u] = King(d)
    <2>1. Put(b, s, t)[u] = IF u = s THEN Empty ELSE IF u = t THEN b[s] ELSE b[u]
      <3>1. \A v \in Squares : Put(b, s, t)[v] = IF v = s THEN Empty ELSE IF v = t THEN b[s] ELSE b[v]
        BY PutBoard
      <3> QED
        BY <3>1
    <2> QED
      BY <1>2, <2>1
  <1> QED
    BY <1>1, <1>3 DEF KingsAtHome

\* The mark that check_game.h sets for a rook that castles.
LEMMA MarkRook ==
  ASSUME NEW cs, Marks(cs), NEW k \in Corners
  PROVE  /\ Marks([cs EXCEPT !.rook[k] = TRUE]) /\ Grown(cs, [cs EXCEPT !.rook[k] = TRUE])
         /\ [cs EXCEPT !.rook[k] = TRUE].rook[k]
  <1>1. PICK at, king, rook : cs = [at |-> at, king |-> king, rook |-> rook]
    BY DEF Marks
  <1>2. [cs EXCEPT !.rook[k] = TRUE] = [at |-> at, king |-> king, rook |-> [rook EXCEPT ![k] = TRUE]]
    <2>1. [cs EXCEPT !.rook[k] = TRUE] = [cs EXCEPT !.rook = [cs.rook EXCEPT ![k] = TRUE]]
      OBVIOUS
    <2> DEFINE more == [cs.rook EXCEPT ![k] = TRUE]
    <2>2. more = [rook EXCEPT ![k] = TRUE]
      BY <1>1
    <2> HIDE DEF more
    <2>3. [cs EXCEPT !.rook = more] = [at |-> at, king |-> king, rook |-> more]
      BY <1>1
    <2> QED
      BY <2>1, <2>2, <2>3 DEF more
  <1>3. king \in [Colors -> BOOLEAN] /\ rook \in [Corners -> BOOLEAN]
    BY <1>1 DEF Marks
  <1> QED
    BY <1>1, <1>2, <1>3 DEF Marks, Grown

LEMMA LeavesHomes == ASSUME NEW b, NEW s PROVE Leaves(b, s) \subseteq Homes
  BY DEF Leaves, Homes, HomeRow, Corners

\* A move of c's whose marks are set keeps kings and history right.
LEMMA MarkedMove ==
  ASSUME NEW b \in Boards, NEW c \in Colors, NEW cs, Marks(cs), KingsAtHome(b, cs),
         NEW M, NEW m \in M, m \in Squares \X Squares, b[m[1]] \in Own(c)
  PROVE  /\ KingsAtHome(Put(b, m[1], m[2]), Marked(b, c, cs, M))
         /\ \A s \in Leaves(b, m[1]) : Lost(Marked(b, c, cs, M), s)
  <1> DEFINE after == Marked(b, c, cs, M)
  <1>1. /\ Marks(after) /\ Grown(cs, after)
        /\ b[m[1]] = King(c) => after.king[c]
        /\ m[1] \in Corners /\ m[1][1] = HomeRow(c) /\ b[m[1]] = Rook(c) => after.rook[m[1]]
    BY MarkedMarks
  <1> HIDE DEF after
  <1>2. \A d \in Colors : b[m[1]] = King(d) => d = c
    BY KingFacts
  <1>3. \A d \in Colors : b[m[1]] = Rook(d) => d = c
    BY KingFacts
  <1>4. m[1] \in Squares /\ m[2] \in Squares
    OBVIOUS
  <1>5. KingsAtHome(Put(b, m[1], m[2]), after)
    BY <1>1, <1>2, <1>4, MoveKeepsKings
  <1>6. ASSUME NEW s \in Leaves(b, m[1]) PROVE Lost(after, s)
    <2>1. /\ s = m[1]
          /\ \/ b[s] = Rook(c) /\ s \in {<<HomeRow(c), 0>>, <<HomeRow(c), 7>>}
             \/ b[s] = King(c) /\ s = <<HomeRow(c), 4>>
      BY <1>2, <1>3, <1>6 DEF Leaves, Colors
    <2>2. CASE b[s] = Rook(c) /\ s \in {<<HomeRow(c), 0>>, <<HomeRow(c), 7>>}
      <3>1. s \in Corners /\ s[1] = HomeRow(c)
        BY <2>2 DEF Corners, HomeRow
      <3> QED
        BY <1>1, <2>1, <2>2, <3>1 DEF Lost
    <2>3. CASE b[s] = King(c) /\ s = <<HomeRow(c), 4>>
      <3>1. s \notin Corners /\ s[1] = HomeRow(c)
        BY <2>3 DEF Corners
      <3>2. c = IF s[1] = 7 THEN 1 ELSE 2
        BY <3>1 DEF HomeRow, Colors
      <3> QED
        BY <1>1, <2>1, <2>3, <3>1, <3>2 DEF Lost
    <2> QED
      BY <2>1, <2>2, <2>3
  <1> QED
    BY <1>5, <1>6 DEF after

LEMMA GrownKeeps ==
  ASSUME NEW cs, NEW after, Grown(cs, after), NEW s \in Homes, Lost(cs, s)
  PROVE  Lost(after, s)
  BY DEF Grown, Lost, Homes, Colors

LEMMA GrownKings ==
  ASSUME NEW b, NEW cs, NEW after, Grown(cs, after), KingsAtHome(b, cs)
  PROVE  KingsAtHome(b, after)
  BY DEF Grown, KingsAtHome

LEMMA GrownTwice ==
  ASSUME NEW x, NEW y, NEW z, Grown(x, y), Grown(y, z) PROVE Grown(x, z)
  BY DEF Grown

----------------------------------------------------------------------------
(* The moves of the two players *)

\* The board and the ChessStatus of a game, and what has left home in it.
Sound(b, cs, left) ==
  /\ b \in Boards /\ Marks(cs) /\ KingsAtHome(b, cs)
  /\ left \subseteq Homes /\ \A s \in left : Lost(cs, s)

LEMMA SoundAfterMove ==
  ASSUME NEW b, NEW cs, NEW left, Sound(b, cs, left), NEW c \in Colors,
         NEW M, NEW m \in M, m \in Squares \X Squares, b[m[1]] \in Own(c)
  PROVE  Sound(Put(b, m[1], m[2]), Marked(b, c, cs, M), left \cup Leaves(b, m[1]))
  <1>1. b \in Boards /\ Marks(cs) /\ KingsAtHome(b, cs) /\ m[1] \in Squares /\ m[2] \in Squares
    BY DEF Sound
  <1> DEFINE after == Marked(b, c, cs, M)
  <1>2. Marks(after) /\ Grown(cs, after)
    BY <1>1, MarkedMarks
  <1>3. /\ KingsAtHome(Put(b, m[1], m[2]), after)
        /\ \A s \in Leaves(b, m[1]) : Lost(after, s)
    BY <1>1, MarkedMove
  <1>4. Put(b, m[1], m[2]) \in Boards
    BY <1>1, PutBoard
  <1> HIDE DEF after
  <1>5. left \cup Leaves(b, m[1]) \subseteq Homes
    BY LeavesHomes DEF Sound
  <1>6. \A s \in left : Lost(after, s)
    BY <1>2, GrownKeeps DEF Sound
  <1>7. Sound(Put(b, m[1], m[2]), after, left \cup Leaves(b, m[1]))
    BY <1>2, <1>3, <1>4, <1>5, <1>6 DEF Sound
  <1> QED
    BY <1>7 DEF after

LEMMA SoundWithoutMove ==
  ASSUME NEW b, NEW cs, NEW left, Sound(b, cs, left), NEW c \in Colors, NEW M
  PROVE  Sound(b, Marked(b, c, cs, M), left)
  <1>1. Marks(Marked(b, c, cs, M)) /\ Grown(cs, Marked(b, c, cs, M))
    BY MarkedMarks DEF Sound
  <1> QED
    BY <1>1, GrownKings, GrownKeeps DEF Sound

LEMMA CodeIsANumber ==
  ASSUME NEW b, NEW c \in Colors, NEW s, NEW t, NEW cs, NEW ub \in {0, 1}
  PROVE  check_chess_run(b, c, s, t, cs, ub).code \in Int
  <1>1. Corner(c, s, t) \in {<<0, 0>>, <<0, 7>>, <<7, 0>>, <<7, 7>>}
    BY DEF Corner, HomeRow
  <1>2. CastlingCode(Corner(c, s, t)) \in Int
    BY <1>1 DEF CastlingCode
  <1>3. castling(b, c, s, t, cs, ub) \in Int
    BY <1>2 DEF castling
  <1> QED
    BY <1>3 DEF check_chess_run

\* What check_chess_run accepts, and what it does to the ChessStatus.
LEMMA Accepts ==
  ASSUME NEW b, NEW c \in Colors, NEW s, NEW t, NEW cs, NEW ub \in {0, 1},
         check_chess_run(b, c, s, t, cs, ub).code > 0
  PROVE  /\ s \in Squares /\ t \in Squares /\ b[s] \in Own(c) /\ b[t] \notin Own(c)
         /\ check_chess_run(b, c, s, t, cs, ub).cs = Marked(b, c, cs, {<<s, t>>})
  BY DEF check_chess_run, check_color

\* A code above 20 is that of a castling: the king steps two aside from where it stands,
\* and a rook of its own, not moved yet, stands in the corner.
LEMMA CastlesFrom ==
  ASSUME NEW b, NEW c \in Colors, NEW s, NEW t, NEW cs, NEW ub \in {0, 1},
         Castled(check_chess_run(b, c, s, t, cs, ub).code)
  PROVE  /\ b[s] = King(c) /\ TwoAside(s, t) /\ Entitled(b, c, s, t, cs)
         /\ s \in Squares /\ t \in Squares
  BY DEF check_chess_run, check_color, castling, Castled, CastlingCode

LEMMA TriesAreMoves ==
  ASSUME NEW b, NEW c, NEW m \in Tries(b, c)
  PROVE  m \in Squares \X Squares /\ b[m[1]] \in Own(c)
  BY DEF Tries

\* The computer's answer: a move of its own, or none, and the marks.
LEMMA AnswerIsSound ==
  ASSUME NEW b, NEW cs, NEW left, Sound(b, cs, left), NEW side \in Colors,
         NEW warned \in BOOLEAN, NEW ub \in {0, 1},
         NEW run \in find_way(b, side, cs, warned, ub)
  PROVE  /\ run.status = 0 => Sound(b, run.cs, left)
         /\ run.status # 0 =>
              Sound(Put(b, run.move[1], run.move[2]), run.cs, left \cup Leaves(b, run.move[1]))
  <1> DEFINE c == 3 - side
  <1>1. c \in Colors
    BY DEF Colors
  <1>2. CASE ~warned
    <2>1. PICK m \in Tries(b, c) :
            /\ run.move = m /\ run.cs = check_chess_run(b, c, m[1], m[2], cs, ub).cs
            /\ check_chess_run(b, c, m[1], m[2], cs, ub).code >= 1
            /\ run.status = RunStatus(b, side, run.cs)
      BY <1>2 DEF find_way, Random
    <2>2. m \in Squares \X Squares /\ b[m[1]] \in Own(c) /\ m = <<m[1], m[2]>>
      BY TriesAreMoves
    <2>3. run.cs = Marked(b, c, cs, {m})
      <3>1. check_chess_run(b, c, m[1], m[2], cs, ub).code > 0
        BY <1>1, <2>1, CodeIsANumber
      <3> QED
        BY <1>1, <2>1, <2>2, <3>1, Accepts
    <2>4. run.status # 0
      BY <2>1 DEF RunStatus
    <2> HIDE DEF c
    <2> QED
      BY <1>1, <2>1, <2>2, <2>3, <2>4, SoundAfterMove
  <1>3. CASE warned
    <2> DEFINE tried == Scanned(b, c, cs, ub)
    <2>1. run.cs = Marked(b, c, cs, tried)
      BY <1>3 DEF find_way, Counter
    <2>2. run.status # 0 => run.move \in tried
      BY <1>3 DEF find_way, Counter
    <2>3. tried \subseteq Tries(b, c)
      BY DEF Scanned
    <2> HIDE DEF tried, c
    <2>4. run.status = 0 => Sound(b, run.cs, left)
      BY <1>1, <2>1, SoundWithoutMove
    <2>5. ASSUME run.status # 0
          PROVE  Sound(Put(b, run.move[1], run.move[2]), run.cs, left \cup Leaves(b, run.move[1]))
      <3>1. run.move \in tried /\ run.move \in Squares \X Squares /\ b[run.move[1]] \in Own(c)
        BY <2>2, <2>3, <2>5, TriesAreMoves
      <3> QED
        BY <1>1, <2>1, <3>1, SoundAfterMove
    <2> QED
      BY <2>4, <2>5
  <1> QED
    BY <1>2, <1>3

LEMMA LeftoverIsABit == \A b, c, cs : Leftover(b, c, cs) \subseteq {0, 1}
  BY DEF Leftover

\* Does a move of the client's take a rook along?
CastledRook(r, m) == IF Castled(r.code) THEN {update_castling(m[2]).from} ELSE {}

\* A castling is made from home, with an own rook from its corner.
LEMMA CastlingSquares ==
  ASSUME NEW left, Sound(board, status, left), color \in Colors, NEW m, NEW ub \in {0, 1}, NEW r,
         r = check_chess_run(board, color, m[1], m[2], status, ub), Castled(r.code)
  PROVE  /\ m[1] \in Squares /\ m[2] \in Squares
         /\ update_castling(m[2]).from \in Squares /\ update_castling(m[2]).to \in Squares
         /\ update_castling(m[2]).from # update_castling(m[2]).to
         /\ update_castling(m[2]).from # m[1] /\ update_castling(m[2]).from # m[2]
         /\ board[update_castling(m[2]).from] = Rook(color)
         /\ update_castling(m[2]).from \in Corners
  <1> DEFINE s == m[1]
             t == m[2]
             from == update_castling(t).from
             to == update_castling(t).to
  <1>1. /\ board[s] = King(color) /\ TwoAside(s, t) /\ Entitled(board, color, s, t, status)
        /\ s \in Squares /\ t \in Squares /\ board[t] \notin Own(color)
    <2>1. Castled(check_chess_run(board, color, s, t, status, ub).code)
      OBVIOUS
    <2> HIDE DEF s, t, from, to
    <2> QED
      BY <2>1 DEF check_chess_run, check_color, castling, Castled, CastlingCode
  <1> HIDE DEF s, t
  <1>2. s = <<HomeRow(color), 4>>
    BY <1>1 DEF Entitled, Sound, KingsAtHome
  <1>3. t[1] = HomeRow(color) /\ t[2] \in {2, 6}
    BY <1>1, <1>2 DEF TwoAside, Squares, Abs
  <1>4. /\ from = Corner(color, s, t) /\ from \in Corners
        /\ from \in Squares /\ to \in Squares /\ from # to
    BY <1>2, <1>3 DEF update_castling, Corner, Corners, HomeRow, Squares
  <1>5. board[from] = Rook(color)
    BY <1>1, <1>4, Zenon DEF Entitled
  <1>6. from # s /\ from # t
    BY <1>1, <1>5, KingFacts
  <1> QED
    BY <1>1, <1>4, <1>5, <1>6 DEF s, t

\* The client's move, its rook included.
LEMMA AcceptedIsSound ==
  ASSUME NEW left, Sound(board, status, left), color \in Colors, NEW m, NEW ub \in {0, 1}, NEW r,
         r = check_chess_run(board, color, m[1], m[2], status, ub), r.code > 0
  PROVE  Sound(Accepted(r, m).b, Accepted(r, m).cs,
               left \cup Leaves(board, m[1]) \cup CastledRook(r, m))
  <1> DEFINE s == m[1]
             t == m[2]
             b == Put(board, s, t)
  <1>1. /\ s \in Squares /\ t \in Squares /\ board[s] \in Own(color) /\ board[t] \notin Own(color)
        /\ r.cs = Marked(board, color, status, {<<s, t>>})
    <2>1. r = check_chess_run(board, color, s, t, status, ub)
      OBVIOUS
    <2> HIDE DEF s, t, b
    <2> QED
      BY <2>1 DEF check_chess_run, check_color
  <1>2. Sound(b, r.cs, left \cup Leaves(board, s))
    <2> DEFINE p == <<s, t>>
    <2>1. p \in {p} /\ p \in Squares \X Squares /\ p[1] = s /\ p[2] = t
      BY <1>1
    <2> HIDE DEF p
    <2>2. r.cs = Marked(board, color, status, {p})
      BY <1>1 DEF p
    <2> QED
      BY <1>1, <2>1, <2>2, SoundAfterMove
  <1>3. CASE ~Castled(r.code)
    BY <1>2, <1>3 DEF Accepted, CastledRook
  <1>4. CASE Castled(r.code)
    <2> DEFINE from == update_castling(t).from
               to == update_castling(t).to
               after == [r.cs EXCEPT !.rook[from] = TRUE]
    <2>1. /\ from \in Squares /\ to \in Squares /\ from # s /\ from # t
          /\ board[from] = Rook(color) /\ from \in Corners
      BY <1>4, CastlingSquares
    <2>2. b \in Boards /\ b[from] = Rook(color)
      <3>1. board \in Boards /\ from \in Squares
        BY <2>1 DEF Sound
      <3> HIDE DEF from, s, t
      <3>2. /\ b \in Boards
            /\ \A v \in Squares : b[v] = IF v = s THEN Empty ELSE IF v = t THEN board[s] ELSE board[v]
        BY <1>1, <3>1, PutBoard
      <3> QED
        BY <2>1, <3>1, <3>2
    <2> HIDE DEF b
    <2>3. Marks(after) /\ Grown(r.cs, after) /\ after.rook[from]
      <3>1. Marks(r.cs) /\ from \in Corners
        BY <1>2, <2>1 DEF Sound
      <3> HIDE DEF from
      <3> QED
        BY <3>1, MarkRook
    <2> HIDE DEF after, from, to
    <2>4. \A d \in Colors : b[from] # King(d)
      BY <2>2, KingFacts
    <2>5. KingsAtHome(Put(b, from, to), after) /\ Put(b, from, to) \in Boards
      BY <1>2, <2>1, <2>2, <2>3, <2>4, MoveKeepsKings, PutBoard DEF Sound
    <2>6. \A k \in left \cup Leaves(board, s) : Lost(after, k)
      BY <1>2, <2>3, GrownKeeps DEF Sound
    <2>7. Lost(after, from) /\ from \in Homes
      BY <2>1, <2>3 DEF Lost, Homes
    <2>8. Sound(Put(b, from, to), after, left \cup Leaves(board, s) \cup {from})
      BY <1>2, <2>3, <2>5, <2>6, <2>7 DEF Sound
    <2> QED
      BY <1>4, <2>8 DEF Accepted, WithRook, CastledRook, from, to, after, b
  <1> QED
    BY <1>3, <1>4

----------------------------------------------------------------------------
(* The game *)

Shapes ==
  /\ color \in Colors
  /\ opening = [games |-> opening.games, game |-> opening.game, ply |-> opening.ply]
  /\ opening.games \in Book /\ opening.game \in 0..Len(opening.games)
  /\ wire.op \in {"START_GAME", "READY_GAME", "COLOR"} => opening.game # 0
  /\ wire.op = "COLOR" => wire.arg \in Colors
  /\ ghost = [parted |-> ghost.parted, lost |-> ghost.lost, left |-> ghost.left]

GameInv == Shapes /\ Sound(board, status, ghost.left)

LEMMA FirstBoard ==
  /\ make_chess \in Boards
  /\ \A c \in Colors, s \in Squares : make_chess[s] = King(c) => s = <<HomeRow(c), 4>>
  <1> DEFINE officers == <<"m", "t", "h", "w", "t", "m">>
             OFFICERS == <<"M", "T", "H", "W", "T", "M">>
  <1>1. ASSUME NEW s \in Squares
        PROVE  /\ make_chess[s] \in Pieces
               /\ \A c \in Colors : make_chess[s] = King(c) => s = <<HomeRow(c), 4>>
    <2>0. s[1] \in 0..7 /\ s[2] \in 0..7 /\ s = <<s[1], s[2]>>
      BY DEF Squares
    <2>1. CASE s[1] \in 1..6
      <3>1. make_chess[s] \in {"o", "O", Empty}
        BY <2>0, <2>1 DEF make_chess, Corners
      <3> QED
        BY <3>1 DEF Pieces, White, Black, King, Empty
    <2>2. CASE s \in Corners
      <3>1. make_chess[s] \in {"x", "X"}
        BY <2>0, <2>2 DEF make_chess, Corners
      <3> QED
        BY <3>1 DEF Pieces, White, Black, King
    <2>3. CASE s[1] = 0 /\ s \notin Corners
      <3>1. make_chess[s] = officers[s[2]] /\ s[2] \in 1..6
        BY <2>0, <2>3 DEF make_chess, Corners
      <3> QED
        BY <2>0, <2>3, <3>1 DEF Pieces, Black, White, King, HomeRow, Colors
    <2>4. CASE s[1] = 7 /\ s \notin Corners
      <3>1. make_chess[s] = OFFICERS[s[2]] /\ s[2] \in 1..6
        BY <2>0, <2>4 DEF make_chess, Corners
      <3> QED
        BY <2>0, <2>4, <3>1 DEF Pieces, Black, White, King, HomeRow, Colors
    <2> QED
      BY <2>0, <2>1, <2>2, <2>3, <2>4
  <1>2. make_chess \in Boards
    BY <1>1 DEF make_chess, Boards
  <1> QED
    BY <1>1, <1>2

LEMMA GameInvInit == Init => GameInv
  <1> SUFFICES ASSUME Init PROVE GameInv
    OBVIOUS
  <1>1. Shapes
    BY DEF Init, Shapes, Colors, Idle
  <1>2. Sound(board, status, ghost.left)
    BY FirstBoard DEF Init, Sound, Marks, Colors, KingsAtHome
  <1> QED
    BY <1>1, <1>2 DEF GameInv

\* Steps that leave the server's game alone.
LEMMA ElsewhereInv ==
  ASSUME GameInv, Shapes', UNCHANGED <<board, status>>, ghost'.left = ghost.left
  PROVE  GameInv'
  BY DEF GameInv, Sound

LEMMA StartInv == ASSUME GameInv, START_GAME PROVE GameInv'
  <1>1. Shapes'
    BY DEF GameInv, Shapes, START_GAME, Asked, Reply
  <1>2. /\ status' = [status EXCEPT !.at = [c \in {1, 2} |-> <<HomeRow(c), 4>>]]
        /\ board' = make_chess /\ ghost'.left = ghost.left
    BY DEF START_GAME, GameInv, Shapes
  <1>3. Marks(status') /\ Grown(status, status')
    BY <1>2 DEF GameInv, Sound, Marks, Grown
  <1>4. KingsAtHome(board', status')
    BY <1>2, FirstBoard DEF KingsAtHome
  <1>5. \A s \in ghost.left : Lost(status', s)
    BY <1>3, GrownKeeps DEF GameInv, Sound
  <1> QED
    BY <1>1, <1>2, <1>3, <1>4, <1>5, FirstBoard DEF GameInv, Sound

LEMMA ColorInv == ASSUME GameInv, Check_Color PROVE GameInv'
  <1>1. wire.arg \in Colors /\ wire.op = "COLOR"
    BY DEF GameInv, Shapes, Check_Color, Asked
  <1>2. CASE wire.arg = 1 /\ UNCHANGED <<board, status, opening>> /\ wire' = Reply("COLOR_OK", NoArg)
    <2>1. Shapes'
      BY <1>1, <1>2 DEF GameInv, Shapes, Check_Color, Reply
    <2> QED
      BY <1>2, <2>1, ElsewhereInv DEF Check_Color
  <1>3. ASSUME NEW run \in find_way(board, 2, status, FALSE, 0),
               board' = Put(board, run.move[1], run.move[2]), status' = run.cs,
               wire' = Reply("RUN", run.move), opening' = Played(1)
        PROVE  GameInv'
    <2>1. Shapes'
      BY <1>1, <1>3 DEF GameInv, Shapes, Check_Color, Reply, Played
    <2>2. Sound(board, status, ghost.left)
      BY DEF GameInv
    <2>3. run.status # 0
      BY <1>3 DEF find_way, Random, RunStatus
    <2>4. Sound(board', status', ghost.left \cup Leaves(board, run.move[1]))
      BY <1>3, <2>2, <2>3, AnswerIsSound DEF Colors
    <2> QED
      BY <2>1, <2>4 DEF GameInv, Sound, Check_Color
  <1> QED
    BY <1>2, <1>3 DEF Check_Color

LEMMA RunInv == ASSUME GameInv, Check_Run PROVE GameInv'
  <1>1. color \in Colors /\ UNCHANGED color
    BY DEF GameInv, Shapes, Check_Run
  <1> DEFINE m == wire.arg
  <1>2. PICK ub \in Leftover(board, color, status) :
          LET r == check_chess_run(board, color, m[1], m[2], status, ub)
              a == Accepted(r, m)
              warned == check_checkmate_reverse(a.b, color, a.cs)
          IN /\ r.code > 0
             /\ \E left \in Leftover(a.b, 3 - color, a.cs) :
                  LET runs == find_way(a.b, color, a.cs, warned, left)
                  IN \/ runs = {} /\ Spin(a)
                     \/ \E run \in {w \in runs : warned \/ Follows(2, w.move)} :
                          Answer(m, r, a, warned, run)
    BY DEF Check_Run
  <1> DEFINE r == check_chess_run(board, color, m[1], m[2], status, ub)
             a == Accepted(r, m)
             warned == check_checkmate_reverse(a.b, color, a.cs)
             gone == ghost.left \cup Leaves(board, m[1]) \cup CastledRook(r, m)
  <1>3. Sound(a.b, a.cs, gone)
    <2>1. ub \in {0, 1}
      BY LeftoverIsABit
    <2>2. r.code > 0
      BY <1>2
    <2> HIDE DEF r, m
    <2>3. r = check_chess_run(board, color, m[1], m[2], status, ub)
      BY DEF r
    <2> QED
      BY <1>1, <2>1, <2>2, <2>3, AcceptedIsSound DEF GameInv
  <1>4. warned \in BOOLEAN
    BY DEF check_checkmate_reverse, check_checkmate
  <1>5. CASE Spin(a)
    <2>1. Shapes'
      BY <1>1, <1>5 DEF GameInv, Shapes, Spin, Spinning
    <2>2. board' = a.b /\ status' = a.cs /\ ghost' = ghost
      BY <1>5 DEF Spin
    <2> QED
      BY <1>3, <2>1, <2>2 DEF GameInv, Sound
  <1>6. ASSUME NEW left \in {0, 1}, NEW run \in find_way(a.b, color, a.cs, warned, left),
               Answer(m, r, a, warned, run)
        PROVE  GameInv'
    <2> HIDE DEF a, r, warned, m
    <2> DEFINE b == IF run.status = 0 THEN a.b ELSE Put(a.b, run.move[1], run.move[2])
               cs == IF run.status = 0 THEN run.cs ELSE NoteKing(run.cs, b, run.move[2])
               more == IF run.status = 0 THEN {} ELSE Leaves(a.b, run.move[1])
    <2>1. Sound(b, run.cs, gone \cup more)
      <3>1. CASE run.status = 0
        BY <1>1, <1>3, <1>4, <1>6, <3>1, AnswerIsSound
      <3>2. CASE run.status # 0
        BY <1>1, <1>3, <1>4, <1>6, <3>2, AnswerIsSound
      <3> QED
        BY <3>1, <3>2
    <2>2. Marks(cs) /\ cs.king = run.cs.king /\ cs.rook = run.cs.rook
      BY <2>1 DEF NoteKing, Marks, Sound
    <2>3. Sound(b, cs, gone \cup more)
      BY <2>1, <2>2 DEF Sound, KingsAtHome, Lost
    <2>4. board' = b /\ status' = cs /\ ghost'.left = gone \cup more
      BY <1>6 DEF Answer, Remembered, CastledRook
    <2>5. Shapes'
      BY <1>1, <1>6 DEF GameInv, Shapes, Answer, Reply, Played, Remembered, Message
    <2> QED
      BY <2>3, <2>4, <2>5 DEF GameInv
  <1> QED
    BY <1>2, <1>5, <1>6, LeftoverIsABit

LEMMA ReadyInv == ASSUME GameInv, game_ready PROVE GameInv'
  <1>1. opening.game \in DOMAIN opening.games /\ Game.color \in Colors
    <2>1. opening.games \in Seq([color : {1, 2}, moves : Seq(Squares \X Squares), free : Nat])
      BY BookAssumption DEF GameInv, Shapes
    <2>2. Len(opening.games) \in Nat /\ DOMAIN opening.games = 1..Len(opening.games)
      BY <2>1
    <2>3. opening.game \in 0..Len(opening.games) /\ opening.game # 0
      BY DEF GameInv, Shapes, game_ready, Answered
    <2>4. opening.game \in 1..Len(opening.games)
      BY <2>2, <2>3
    <2>5. Game \in [color : {1, 2}, moves : Seq(Squares \X Squares), free : Nat]
      BY <2>1, <2>4, ElementOfSeq DEF Game
    <2> QED
      BY <2>2, <2>4, <2>5 DEF Colors
  <1>2. ghost'.left = ghost.left
     /\ ghost' = [parted |-> ghost'.parted, lost |-> ghost'.lost, left |-> ghost'.left]
    BY DEF GameInv, Shapes, game_ready
  <1>3. Shapes'
    BY <1>1, <1>2 DEF GameInv, Shapes, game_ready, Request, Answered
  <1> QED
    BY <1>2, <1>3, ElsewhereInv DEF game_ready

LEMMA AskInv == ASSUME GameInv, Ask_Start PROVE GameInv'
  <1>1. Shapes'
    <2>1. opening.games \in Seq([color : {1, 2}, moves : Seq(Squares \X Squares), free : Nat])
      BY BookAssumption DEF GameInv, Shapes
    <2>2. Len(opening.games) \in Nat /\ opening.game + 1 \in 1..Len(opening.games)
      BY <2>1 DEF GameInv, Shapes, Ask_Start
    <2>3. /\ opening'.games = opening.games /\ opening'.game = opening.game + 1
          /\ opening' = [games |-> opening'.games, game |-> opening'.game, ply |-> opening'.ply]
      BY DEF GameInv, Shapes, Ask_Start
    <2> QED
      BY <2>2, <2>3 DEF GameInv, Shapes, Ask_Start, Request
  <1> QED
    BY <1>1, ElsewhereInv DEF Ask_Start

\* The other messages and the user.
LEMMA OtherInv ==
  ASSUME GameInv, \/ server_run \/ Next_Move \/ Result \/ Check_Run_Error \/ End_Game
                  \/ select_run \/ select_warning \/ UNCHANGED vars
  PROVE  GameInv'
  <1>1. UNCHANGED <<board, status, color, ghost, opening>>
    BY DEF server_run, Next_Move, Result, Check_Run_Error, End_Game, select_run,
           select_warning, vars
  <1>2. UNCHANGED wire \/ wire'.op \in {"idle", "RUN_ERROR", "COMPUTER_WIN", "RUN", "END_RUN"}
    BY DEF server_run, Next_Move, Result, Check_Run_Error, End_Game, select_run,
           select_warning, vars, Idle, Reply, Request
  <1>3. Shapes'
    BY <1>1, <1>2 DEF GameInv, Shapes
  <1> QED
    BY <1>1, <1>3, ElsewhereInv

LEMMA GameInvNext == GameInv /\ [Next]_vars => GameInv'
  BY StartInv, ColorInv, RunInv, ReadyInv, AskInv, OtherInv DEF Next, Client, Server, User

\* In games of any length, by whatever messages they are played and however many the
\* process serves, a king or a rook that has left home has lost its right to castle.
THEOREM RightsAreLost == Spec => []RightsLost
  <1>1. GameInv => RightsLost
    BY DEF GameInv, Sound, Lost, RightsLost
  <1> QED
    BY <1>1, GameInvInit, GameInvNext, PTL DEF Spec

----------------------------------------------------------------------------
(* The place noted for a king *)

LEMMA PutAt ==
  ASSUME NEW b \in Boards, NEW s \in Squares, NEW t \in Squares, NEW u \in Squares
  PROVE  Put(b, s, t)[u] = IF u = s THEN Empty ELSE IF u = t THEN b[s] ELSE b[u]
  BY DEF Put, Boards

LEMMA PutIsABoard ==
  ASSUME NEW b \in Boards, NEW s \in Squares, NEW t \in Squares PROVE Put(b, s, t) \in Boards
  BY PutBoard

LEMMA GreatestDigit ==
  ASSUME NEW D \in SUBSET (0..7), D # {}
  PROVE  \E d \in D : \A e \in D : e <= d
  <1>1. SUFFICES ASSUME \A d \in D : \E e \in D : ~(e <= d) PROVE FALSE
    OBVIOUS
  <1>2. \A d \in D : d \in 0..7
    OBVIOUS
  <1>3. 7 \notin D
    BY <1>1, <1>2
  <1>4. 6 \notin D
    BY <1>1, <1>2, <1>3
  <1>5. 5 \notin D
    BY <1>1, <1>2, <1>3, <1>4
  <1>6. 4 \notin D
    BY <1>1, <1>2, <1>3, <1>4, <1>5
  <1>7. 3 \notin D
    BY <1>1, <1>2, <1>3, <1>4, <1>5, <1>6
  <1>8. 2 \notin D
    BY <1>1, <1>2, <1>3, <1>4, <1>5, <1>6, <1>7
  <1>9. 1 \notin D
    BY <1>1, <1>2, <1>3, <1>4, <1>5, <1>6, <1>7, <1>8
  <1>10. 0 \notin D
    BY <1>1, <1>2, <1>3, <1>4, <1>5, <1>6, <1>7, <1>8, <1>9
  <1>11. PICK d \in 0..7 : d \in D
    BY <1>2
  <1>12. d \in {0, 1, 2, 3, 4, 5, 6, 7}
    BY <1>11
  <1> QED
    BY <1>11, <1>12, <1>3, <1>4, <1>5, <1>6, <1>7, <1>8, <1>9, <1>10

\* Moves are ranked by four digits, so a set of moves has a last one.
LEMMA LastOfAll ==
  ASSUME NEW K \in SUBSET (Squares \X Squares), K # {}
  PROVE  \E m \in K : \A n \in K : Rank(n) <= Rank(m)
  <1>0. \A m \in K : /\ m[1][1] \in 0..7 /\ m[1][2] \in 0..7
                     /\ m[2][1] \in 0..7 /\ m[2][2] \in 0..7
    BY DEF Squares
  <1>1. PICK a \in 0..7 : /\ \E m \in K : m[1][1] = a
                          /\ \A m \in K : m[1][1] <= a
    <2> DEFINE D == {m[1][1] : m \in K}
    <2>1. D \in SUBSET (0..7) /\ D # {}
      BY <1>0
    <2>2. \E d \in D : \A e \in D : e <= d
      BY <2>1, GreatestDigit
    <2> QED
      BY <2>1, <2>2
  <1>2. PICK b \in 0..7 : /\ \E m \in K : m[1][1] = a /\ m[1][2] = b
                          /\ \A m \in K : m[1][1] = a => m[1][2] <= b
    <2> DEFINE D == {m[1][2] : m \in {n \in K : n[1][1] = a}}
    <2>1. D \in SUBSET (0..7) /\ D # {}
      BY <1>0, <1>1
    <2>2. \E d \in D : \A e \in D : e <= d
      BY <2>1, GreatestDigit
    <2> QED
      BY <2>1, <2>2
  <1>3. PICK c \in 0..7 : /\ \E m \in K : m[1][1] = a /\ m[1][2] = b /\ m[2][1] = c
                          /\ \A m \in K : m[1][1] = a /\ m[1][2] = b => m[2][1] <= c
    <2> DEFINE D == {m[2][1] : m \in {n \in K : n[1][1] = a /\ n[1][2] = b}}
    <2>1. D \in SUBSET (0..7) /\ D # {}
      BY <1>0, <1>2
    <2>2. \E d \in D : \A e \in D : e <= d
      BY <2>1, GreatestDigit
    <2> QED
      BY <2>1, <2>2
  <1>4. PICK d \in 0..7 :
          /\ \E m \in K : m[1][1] = a /\ m[1][2] = b /\ m[2][1] = c /\ m[2][2] = d
          /\ \A m \in K : m[1][1] = a /\ m[1][2] = b /\ m[2][1] = c => m[2][2] <= d
    <2> DEFINE D == {m[2][2] : m \in {n \in K : n[1][1] = a /\ n[1][2] = b /\ n[2][1] = c}}
    <2>1. D \in SUBSET (0..7) /\ D # {}
      BY <1>0, <1>3
    <2>2. \E e \in D : \A f \in D : f <= e
      BY <2>1, GreatestDigit
    <2> QED
      BY <2>1, <2>2
  <1>5. PICK m \in K : m[1][1] = a /\ m[1][2] = b /\ m[2][1] = c /\ m[2][2] = d
    BY <1>4
  <1>6. ASSUME NEW n \in K PROVE Rank(n) <= Rank(m)
    <2> DEFINE e == n[1][1]
               f == n[1][2]
               g == n[2][1]
               h == n[2][2]
    <2>1. /\ e <= a
          /\ e = a => f <= b
          /\ e = a /\ f = b => g <= c
          /\ e = a /\ f = b /\ g = c => h <= d
      BY <1>1, <1>2, <1>3, <1>4
    <2>2. e \in 0..7 /\ f \in 0..7 /\ g \in 0..7 /\ h \in 0..7
      BY <1>0
    <2>3. Rank(n) = 512 * e + 64 * f + 8 * g + h
      BY DEF Rank
    <2>4. Rank(m) = 512 * a + 64 * b + 8 * c + d
      BY <1>5 DEF Rank
    <2> HIDE DEF e, f, g, h
    <2>5. 512 * e + 64 * f + 8 * g + h <= 512 * a + 64 * b + 8 * c + d
      <3>1. CASE e < a
        BY <2>2, <3>1
      <3>2. CASE e = a /\ f < b
        BY <2>2, <3>2
      <3>3. CASE e = a /\ f = b /\ g < c
        BY <2>2, <3>3
      <3>4. CASE e = a /\ f = b /\ g = c
        BY <2>1, <2>2, <3>4
      <3> QED
        BY <2>1, <2>2, <3>1, <3>2, <3>3, <3>4
    <2> QED
      BY <2>3, <2>4, <2>5
  <1> QED
    BY <1>6

LEMMA LastIsAMove ==
  ASSUME NEW K \in SUBSET (Squares \X Squares), K # {} PROVE LastOf(K) \in K
  BY LastOfAll DEF LastOf

LEMMA TriesSquares == ASSUME NEW b, NEW c PROVE Tries(b, c) \subseteq Squares \X Squares
  BY TriesAreMoves

LEMMA ScannedSquares ==
  ASSUME NEW b, NEW c, NEW cs, NEW ub PROVE Scanned(b, c, cs, ub) \subseteq Tries(b, c)
  BY DEF Scanned

\* The places are squares, whatever moves leave their marks.
Places(cs) == cs.at \in [Colors -> Squares]

LEMMA MarkedPlaces ==
  ASSUME NEW b, NEW c \in Colors, NEW cs, Places(cs), NEW M \in SUBSET (Squares \X Squares)
  PROVE  Places(Marked(b, c, cs, M))
  <1> DEFINE K == {m \in M : b[m[1]] = King(c)}
  <1>1. Marked(b, c, cs, M).at = IF K = {} THEN cs.at ELSE [cs.at EXCEPT ![c] = LastOf(K)[2]]
    BY DEF Marked
  <1>2. CASE K = {}
    BY <1>1, <1>2 DEF Places
  <1>3. CASE K # {}
    <2>1. LastOf(K) \in K
      BY <1>3, LastIsAMove
    <2>2. LastOf(K)[2] \in Squares
      BY <2>1
    <2> HIDE DEF K
    <2> QED
      BY <1>1, <1>3, <2>2 DEF Places
  <1> QED
    BY <1>2, <1>3

\* One move: it is the last one.
LEMMA MarkedOne ==
  ASSUME NEW b, NEW c \in Colors, NEW cs, NEW m \in Squares \X Squares
  PROVE  Marked(b, c, cs, {m}).at
           = IF b[m[1]] = King(c) THEN [cs.at EXCEPT ![c] = m[2]] ELSE cs.at
  <1> DEFINE K == {n \in {m} : b[n[1]] = King(c)}
  <1>1. Marked(b, c, cs, {m}).at = IF K = {} THEN cs.at ELSE [cs.at EXCEPT ![c] = LastOf(K)[2]]
    BY DEF Marked
  <1>2. CASE b[m[1]] = King(c)
    <2>1. K = {m}
      BY <1>2
    <2>2. LastOf(K) \in K
      BY <2>1, LastIsAMove
    <2>3. LastOf(K) = m /\ K # {}
      BY <2>1, <2>2
    <2> HIDE DEF K
    <2> QED
      BY <1>1, <1>2, <2>3
  <1>3. CASE b[m[1]] # King(c)
    <2>1. K = {}
      BY <1>3
    <2> HIDE DEF K
    <2> QED
      BY <1>1, <1>3, <2>1
  <1> QED
    BY <1>2, <1>3

\* The other side's place is not touched.
LEMMA MarkedOther ==
  ASSUME NEW b, NEW c \in Colors, NEW cs, Places(cs), NEW M, NEW d \in Colors, d # c
  PROVE  Marked(b, c, cs, M).at[d] = cs.at[d]
  BY DEF Marked, Places

\* A king stands where it is noted, if its place has not been spoilt.
KingsAt(b, cs, lost) ==
  \A c \in Colors \ lost : \A s \in Squares : b[s] = King(c) => s = cs.at[c]

LEMMA KingsDiffer == \A c \in Colors, d \in Colors : c # d => King(c) # King(d)
  BY DEF Colors, King

\* A piece of c's moves from s to t.
LEMMA PutKings ==
  ASSUME NEW b \in Boards, NEW c \in Colors, NEW s \in Squares, NEW t \in Squares,
         b[s] \in Own(c), NEW d \in Colors, NEW u \in Squares, Put(b, s, t)[u] = King(d)
  PROVE  \/ u = t /\ d = c /\ b[s] = King(c)
         \/ u # t /\ u # s /\ b[u] = King(d)
  <1>1. Put(b, s, t)[u] = IF u = s THEN Empty ELSE IF u = t THEN b[s] ELSE b[u]
    BY PutAt
  <1>2. King(d) # Empty /\ (King(d) \in Own(c) => d = c)
    BY KingFacts
  <1> QED
    BY <1>1, <1>2

LEMMA KingsAfterScan ==
  ASSUME NEW b \in Boards, NEW c \in Colors, NEW cs, Places(cs), NEW M, NEW lost,
         KingsAt(b, cs, lost), NEW s \in Squares, NEW t \in Squares, b[s] \in Own(c), c \in lost
  PROVE  KingsAt(Put(b, s, t), Marked(b, c, cs, M), lost)
  <1> SUFFICES ASSUME NEW d \in Colors \ lost, NEW u \in Squares, Put(b, s, t)[u] = King(d)
               PROVE  u = Marked(b, c, cs, M).at[d]
    BY DEF KingsAt
  <1>1. d # c /\ b[u] = King(d)
    BY PutKings
  <1>2. Marked(b, c, cs, M).at[d] = cs.at[d]
    BY <1>1, MarkedOther
  <1> QED
    BY <1>1, <1>2 DEF KingsAt

LEMMA KingsAfterMove ==
  ASSUME NEW b \in Boards, NEW c \in Colors, NEW cs, Places(cs), NEW lost,
         KingsAt(b, cs, lost), NEW m \in Squares \X Squares, b[m[1]] \in Own(c)
  PROVE  KingsAt(Put(b, m[1], m[2]), Marked(b, c, cs, {m}), lost)
  <1> DEFINE after == Marked(b, c, cs, {m})
  <1> SUFFICES ASSUME NEW d \in Colors \ lost, NEW u \in Squares, Put(b, m[1], m[2])[u] = King(d)
               PROVE  u = after.at[d]
    BY DEF KingsAt
  <1>0. m[1] \in Squares /\ m[2] \in Squares
    OBVIOUS
  <1>1. \/ u = m[2] /\ d = c /\ b[m[1]] = King(c)
        \/ u # m[2] /\ u # m[1] /\ b[u] = King(d)
    BY <1>0, PutKings
  <1>2. after.at = IF b[m[1]] = King(c) THEN [cs.at EXCEPT ![c] = m[2]] ELSE cs.at
    BY MarkedOne
  <1>3. cs.at \in [Colors -> Squares]
    BY DEF Places
  <1> HIDE DEF after
  <1>4. CASE u = m[2] /\ d = c /\ b[m[1]] = King(c)
    BY <1>2, <1>3, <1>4
  <1>5. CASE u # m[1] /\ b[u] = King(d)
    <2>1. u = cs.at[d]
      BY <1>5 DEF KingsAt
    <2>2. CASE d = c
      <3>1. b[m[1]] # King(c)
        BY <1>0, <1>5, <2>1, <2>2 DEF KingsAt
      <3> QED
        BY <1>2, <2>1, <3>1
    <2>3. CASE d # c
      BY <1>2, <1>3, <2>1, <2>3
    <2> QED
      BY <2>2, <2>3
  <1> QED
    BY <1>1, <1>4, <1>5

\* A piece that is no king moves.
LEMMA KingsAfterOther ==
  ASSUME NEW b \in Boards, NEW cs, NEW lost, KingsAt(b, cs, lost),
         NEW s \in Squares, NEW t \in Squares, \A d \in Colors : b[s] # King(d)
  PROVE  KingsAt(Put(b, s, t), cs, lost)
  <1> SUFFICES ASSUME NEW d \in Colors \ lost, NEW u \in Squares, Put(b, s, t)[u] = King(d)
               PROVE  u = cs.at[d]
    BY DEF KingsAt
  <1>1. Put(b, s, t)[u] = IF u = s THEN Empty ELSE IF u = t THEN b[s] ELSE b[u]
    BY PutAt
  <1>2. King(d) # Empty
    BY KingFacts
  <1>3. b[u] = King(d)
    BY <1>1, <1>2
  <1> QED
    BY <1>3 DEF KingsAt

----------------------------------------------------------------------------
(* The places and the rook's squares in an exchange of moves *)

\* The client's move, its rook included, leaves the places right.
LEMMA AcceptedPlaces ==
  ASSUME NEW left, Sound(board, status, left), color \in Colors, NEW m, NEW ub \in {0, 1}, NEW r,
         r = check_chess_run(board, color, m[1], m[2], status, ub), r.code > 0,
         Places(status), NEW lost, KingsAt(board, status, lost)
  PROVE  /\ Places(Accepted(r, m).cs) /\ KingsAt(Accepted(r, m).b, Accepted(r, m).cs, lost)
         /\ m[1] \in Squares /\ m[2] \in Squares
  <1> DEFINE s == m[1]
             t == m[2]
             b == Put(board, s, t)
             p == <<s, t>>
  <1>1. /\ s \in Squares /\ t \in Squares /\ board[s] \in Own(color)
        /\ r.cs = Marked(board, color, status, {p})
    <2>1. r = check_chess_run(board, color, s, t, status, ub)
      OBVIOUS
    <2> HIDE DEF s, t, b
    <2> QED
      BY <2>1 DEF check_chess_run, check_color
  <1>2. p \in Squares \X Squares /\ p[1] = s /\ p[2] = t /\ board[p[1]] \in Own(color)
    BY <1>1
  <1>3. board \in Boards
    BY DEF Sound
  <1> HIDE DEF s, t, p
  <1>4. Places(r.cs) /\ KingsAt(b, r.cs, lost)
    <2>1. KingsAt(Put(board, p[1], p[2]), Marked(board, color, status, {p}), lost)
      BY <1>2, <1>3, KingsAfterMove
    <2>2. Places(Marked(board, color, status, {p}))
      BY <1>2, MarkedPlaces
    <2> QED
      BY <1>1, <1>2, <2>1, <2>2
  <1>5. b \in Boards
    BY <1>1, <1>3, PutBoard
  <1>6. CASE ~Castled(r.code)
    BY <1>1, <1>4, <1>6 DEF Accepted, s, t
  <1>7. CASE Castled(r.code)
    <2> DEFINE from == update_castling(t).from
               to == update_castling(t).to
               after == [r.cs EXCEPT !.rook[from] = TRUE]
    <2>1. /\ from \in Squares /\ to \in Squares /\ from # s /\ from # t
          /\ board[from] = Rook(color)
      BY <1>7, CastlingSquares DEF s, t
    <2> HIDE DEF from, to
    <2>2. b[from] = Rook(color)
      <3>1. \A v \in Squares : b[v] = IF v = s THEN Empty ELSE IF v = t THEN board[s] ELSE board[v]
        BY <1>1, <1>3, PutBoard
      <3> QED
        BY <2>1, <3>1
    <2>3. \A d \in Colors : b[from] # King(d)
      BY <2>2, KingFacts
    <2> HIDE DEF b
    <2>4. after.at = r.cs.at
      <3>1. r.cs = [at |-> r.cs.at, king |-> r.cs.king, rook |-> r.cs.rook]
        BY <1>1 DEF Marked
      <3> QED
        BY <3>1
    <2> HIDE DEF after
    <2>5. KingsAt(Put(b, from, to), r.cs, lost)
      BY <1>4, <1>5, <2>1, <2>3, KingsAfterOther
    <2>6. KingsAt(Put(b, from, to), after, lost) /\ Places(after)
      BY <1>4, <2>4, <2>5 DEF KingsAt, Places
    <2>7. Accepted(r, m).b = Put(b, from, to) /\ Accepted(r, m).cs = after
      BY <1>7 DEF Accepted, WithRook, from, to, after, b, s, t
    <2> QED
      BY <1>1, <2>6, <2>7 DEF s, t
  <1> QED
    BY <1>6, <1>7

\* The computer's answer, before its king is noted.
LEMMA AnswerPlaces ==
  ASSUME NEW b \in Boards, NEW cs, Places(cs), NEW lost, KingsAt(b, cs, lost), NEW side \in Colors,
         NEW warned \in BOOLEAN, NEW ub \in {0, 1}, NEW run \in find_way(b, side, cs, warned, ub),
         NEW more, more = lost \cup (IF warned THEN {3 - side} ELSE {})
  PROVE  /\ Places(run.cs)
         /\ run.status = 0 => KingsAt(b, run.cs, more)
         /\ run.status # 0 => KingsAt(Put(b, run.move[1], run.move[2]), run.cs, more)
  <1> DEFINE c == 3 - side
  <1>1. c \in Colors
    BY DEF Colors
  <1>2. CASE ~warned
    <2>1. PICK m \in Tries(b, c) :
            /\ run.move = m /\ run.cs = check_chess_run(b, c, m[1], m[2], cs, ub).cs
            /\ check_chess_run(b, c, m[1], m[2], cs, ub).code >= 1
            /\ run.status = RunStatus(b, side, run.cs)
      BY <1>2 DEF find_way, Random
    <2>2. m \in Squares \X Squares /\ b[m[1]] \in Own(c) /\ m = <<m[1], m[2]>>
      BY TriesAreMoves
    <2>3. run.cs = Marked(b, c, cs, {m})
      <3>1. check_chess_run(b, c, m[1], m[2], cs, ub).code > 0
        BY <1>1, <2>1, CodeIsANumber
      <3> QED
        BY <1>1, <2>1, <2>2, <3>1, Accepts
    <2>4. run.status # 0
      BY <2>1 DEF RunStatus
    <2>5. more = lost
      BY <1>2
    <2> HIDE DEF c
    <2>6. Places(run.cs)
      BY <1>1, <2>2, <2>3, MarkedPlaces
    <2> QED
      BY <1>1, <2>1, <2>2, <2>3, <2>4, <2>5, <2>6, KingsAfterMove
  <1>3. CASE warned
    <2> DEFINE tried == Scanned(b, c, cs, ub)
    <2>1. run.cs = Marked(b, c, cs, tried)
      BY <1>3 DEF find_way, Counter
    <2>2. run.status # 0 => run.move \in tried
      BY <1>3 DEF find_way, Counter
    <2>3. tried \subseteq Tries(b, c) /\ tried \in SUBSET (Squares \X Squares)
      BY ScannedSquares, TriesSquares
    <2>4. c \in more /\ KingsAt(b, cs, more)
      BY <1>3 DEF KingsAt
    <2> HIDE DEF tried, c
    <2>5. Places(run.cs)
      BY <1>1, <2>1, <2>3, MarkedPlaces
    <2>6. KingsAt(b, run.cs, more)
      <3>1. ASSUME NEW d \in Colors \ more PROVE run.cs.at[d] = cs.at[d]
        BY <1>1, <2>1, <2>4, MarkedOther
      <3> QED
        BY <2>4, <3>1 DEF KingsAt
    <2>7. ASSUME run.status # 0
          PROVE  KingsAt(Put(b, run.move[1], run.move[2]), run.cs, more)
      <3>1. run.move \in tried /\ b[run.move[1]] \in Own(c)
            /\ run.move[1] \in Squares /\ run.move[2] \in Squares
        BY <2>2, <2>3, <2>7, TriesAreMoves
      <3> QED
        BY <1>1, <2>1, <2>4, <3>1, KingsAfterScan
    <2> QED
      BY <2>5, <2>6, <2>7
  <1> QED
    BY <1>2, <1>3

\* What find_way returns besides.
LEMMA AnswerIsTried ==
  ASSUME NEW b, NEW cs, NEW side \in Colors, NEW warned \in BOOLEAN, NEW ub \in {0, 1},
         NEW run \in find_way(b, side, cs, warned, ub)
  PROVE  run.status # 0 => run.move \in Tries(b, 3 - side)
  <1>1. CASE warned
    <2>1. run.status # 0 => run.move \in Scanned(b, 3 - side, cs, ub)
      BY <1>1 DEF find_way, Counter
    <2> QED
      BY <2>1, ScannedSquares
  <1>2. CASE ~warned
    BY <1>2 DEF find_way, Random
  <1> QED
    BY <1>1, <1>2

LEMMA AnswerShape ==
  ASSUME NEW b, NEW cs, NEW side \in Colors, NEW warned \in BOOLEAN, NEW ub \in {0, 1},
         NEW run \in find_way(b, side, cs, warned, ub)
  PROVE  /\ run.status \in {0, 1, 2}
         /\ run.status # 0 => run.move \in Squares \X Squares /\ b[run.move[1]] \in Own(3 - side)
  <1>1. run.status \in {0, 1, 2}
    BY DEF find_way, Random, Counter, RunStatus
  <1> QED
    BY <1>1, AnswerIsTried, TriesAreMoves

\* Noting a white king of the computer's spoils the place of the black one only.
LEMMA NoteKingPlaces ==
  ASSUME NEW b, NEW cs, Marks(cs), Places(cs), NEW lost, KingsAt(b, cs, lost),
         NEW t \in Squares, b[t] = "W" => 2 \in lost
  PROVE  Places(NoteKing(cs, b, t)) /\ KingsAt(b, NoteKing(cs, b, t), lost)
  <1> DEFINE at == NoteKing(cs, b, t).at
  <1>0. PICK x, y, king, rook :
          /\ x \in Squares /\ y \in Squares /\ cs.at[1] = x /\ cs.at[2] = y
          /\ cs = [at |-> cs.at, king |-> king, rook |-> rook]
    BY DEF Marks, Places, Colors
  <1>1. CASE b[t] = "w"
    <2>1. at = [cs.at EXCEPT ![2] = t]
      BY <1>0, <1>1 DEF NoteKing
    <2>2. 2 \notin lost => t = cs.at[2]
      BY <1>1 DEF KingsAt, Colors, King
    <2> HIDE DEF at
    <2>3. at \in [Colors -> Squares] /\ \A c \in Colors \ lost : at[c] = cs.at[c]
      BY <2>1, <2>2 DEF Places, Colors
    <2> QED
      BY <2>3 DEF Places, KingsAt, at
  <1>2. CASE b[t] = "W"
    <2>1. at = [[cs.at EXCEPT ![1] = [cs.at[1] EXCEPT ![1] = t[1]]]
                          EXCEPT ![2] = [cs.at[2] EXCEPT ![1] = t[2]]]
      BY <1>0, <1>2 DEF NoteKing, Places, Colors
    <2>2. 1 \notin lost => t = cs.at[1]
      BY <1>2 DEF KingsAt, Colors, King
    <2>3. [x EXCEPT ![1] = t[1]] \in Squares /\ [y EXCEPT ![1] = t[2]] \in Squares
      BY <1>0 DEF Squares
    <2>4. t = cs.at[1] => [x EXCEPT ![1] = t[1]] = x
      BY <1>0 DEF Squares
    <2> HIDE DEF at
    <2>5. at \in [Colors -> Squares]
      BY <1>0, <2>1, <2>3 DEF Places, Colors
    <2>6. \A c \in Colors \ lost : at[c] = cs.at[c]
      BY <1>0, <1>2, <2>1, <2>2, <2>4 DEF Places, Colors
    <2> QED
      BY <2>5, <2>6 DEF Places, KingsAt, at
  <1>3. CASE b[t] \notin {"w", "W"}
    BY <1>3 DEF NoteKing
  <1> QED
    BY <1>1, <1>2, <1>3

----------------------------------------------------------------------------
(* The types, the kings and the two boards of the game *)

Playing == prompt # "menu" /\ wire.op # "START_GAME"
Drawing == wire.to = "client" /\ wire.op \in Moves

\* What the client sent last is a move, but while a move typed at random is refused.
Refused == Asked("RUN") \/ Answered("RUN_ERROR") \/ (wire = Idle /\ prompt = "move")

TypesInv ==
  /\ view \in Boards /\ first \in BOOLEAN /\ Places(status)
  /\ wire.to \in {"nobody", "server", "client"} /\ wire.op \in Messages
  /\ prompt \in {"menu", "move", "warning", "none"}
  /\ wire.op # "idle" => prompt = "none"
  /\ opening.ply \in Nat /\ ghost.lost \subseteq Colors
  /\ ~Refused => demo[1] \in Squares /\ demo[2] \in Squares
  /\ Asked("RUN") /\ wire.arg # NoMove => demo = wire.arg
  /\ Drawing => wire.arg \in Squares \X Squares

KingsInv == Playing => KingsAt(board, status, ghost.lost)

\* When the client's board is the server's: whenever no move is under way that one of
\* them has not made.
Same ==
  \/ wire = Idle /\ prompt \in {"move", "warning"}
  \/ Asked("RUN") \/ Answered("RUN_ERROR") \/ Answered("COLOR_OK") \/ Asked("COLOR")

BoardsInv ==
  /\ Answered("READY_GAME") => board = make_chess
  /\ ghost.parted = {} =>
       /\ Same => view = board
       /\ Asked("RUN") => ~first
       /\ Asked("COLOR") /\ wire.arg = 2 => first
       /\ Drawing => board = Drawn

PlayInv == GameInv /\ TypesInv /\ KingsInv /\ BoardsInv

LEMMA WithRookBoard ==
  ASSUME NEW b \in Boards, NEW t \in Squares PROVE WithRook(b, t) \in Boards
  <1>1. update_castling(t).from \in Squares /\ update_castling(t).to \in Squares
    BY DEF update_castling, Squares
  <1> QED
    BY <1>1, PutIsABoard DEF WithRook

LEMMA DrawnIsABoard == ASSUME TypesInv, Drawing PROVE Drawn \in Boards
  <1> DEFINE own  == IF first THEN view ELSE Put(view, demo[1], demo[2])
             both == Put(own, wire.arg[1], wire.arg[2])
             mine == IF wire.op \in {"RUN_C_CLIENT", "RUN_C_SERVER_CLIENT"}
                     THEN WithRook(both, demo[2]) ELSE both
  <1>1. ~Refused
    BY DEF Drawing, Refused, Asked, Answered, Moves, Idle
  <1>2. /\ demo[1] \in Squares /\ demo[2] \in Squares
        /\ wire.arg[1] \in Squares /\ wire.arg[2] \in Squares /\ view \in Boards
    BY <1>1 DEF TypesInv
  <1>3. own \in Boards
    BY <1>2, PutIsABoard
  <1> HIDE DEF own
  <1>4. both \in Boards
    BY <1>2, <1>3, PutIsABoard
  <1> HIDE DEF both
  <1>5. mine \in Boards
    BY <1>2, <1>4, WithRookBoard
  <1> HIDE DEF mine
  <1>6. Drawn = IF wire.op \in {"RUN_C_SERVER", "RUN_C_SERVER_CLIENT"}
                THEN WithRook(mine, wire.arg[2]) ELSE mine
    BY DEF Drawn, mine, both, own
  <1> QED
    BY <1>2, <1>5, <1>6, WithRookBoard

LEMMA PlayInvInit == Init => PlayInv
  <1> SUFFICES ASSUME Init PROVE PlayInv
    OBVIOUS
  <1>1. TypesInv
    BY FirstBoard DEF Init, TypesInv, Places, Colors, Squares, Idle, Messages, Moves, Asked,
       Drawing
  <1>2. KingsInv /\ BoardsInv
    BY DEF Init, KingsInv, Playing, BoardsInv, Same, Asked, Answered, Drawing, Idle
  <1> QED
    BY <1>1, <1>2, GameInvInit DEF PlayInv

\* A request or an answer that moves nothing.
LEMMA QuietPlay ==
  ASSUME PlayInv, GameInv', ghost' = ghost,
         \/ Ask_Start \/ select_run \/ select_warning \/ Next_Move \/ Result
         \/ Check_Run_Error \/ End_Game \/ UNCHANGED vars
  PROVE  PlayInv'
  <1>1. UNCHANGED <<board, status, view, ghost>>
    BY DEF Ask_Start, select_run, select_warning, Next_Move, Result, Check_Run_Error, End_Game,
           vars
  <1>2. TypesInv'
    <2>1. opening'.ply \in Nat
      <3>1. CASE Ask_Start
        BY <3>1 DEF PlayInv, GameInv, Shapes, Ask_Start
      <3>2. CASE ~Ask_Start
        BY <3>2 DEF PlayInv, TypesInv, select_run, select_warning, Next_Move, Result,
           Check_Run_Error, End_Game, vars
      <3> QED
        BY <3>1, <3>2
    <2>2. CASE Ask_Start
      BY <1>1, <2>1, <2>2 DEF PlayInv, TypesInv, Ask_Start, Places, Request, Idle, Messages, Moves,
         Refused, Asked, Answered, Drawing
    <2>3. CASE select_run
      <3>1. first' = FALSE /\ prompt' = "none" /\ wire' = Request("RUN", demo')
        BY <2>3 DEF select_run
      <3> QED
        BY <1>1, <2>1, <3>1 DEF PlayInv, TypesInv, Places, Request, Messages, Moves, Refused, Asked,
           Answered, Drawing, Idle
    <2>4. CASE select_warning
      <3>1. demo[1] \in Squares /\ demo[2] \in Squares
        BY <2>4 DEF PlayInv, TypesInv, select_warning, Refused, Asked, Answered, Idle
      <3>2. /\ first' \in BOOLEAN /\ prompt' = "none" /\ demo' = demo
            /\ wire' = Request("END_RUN", NoArg) \/ wire' = Request("RUN", NoMove)
        BY <2>4 DEF PlayInv, TypesInv, select_warning
      <3> QED
        BY <1>1, <2>1, <3>1, <3>2 DEF PlayInv, TypesInv, Places, Request, Messages, Moves, Refused,
           Asked, Answered, Drawing, Idle
    <2>5. CASE Next_Move
      BY <1>1, <2>1, <2>5 DEF PlayInv, TypesInv, Next_Move, Places, Request, Idle, Messages, Moves,
         Refused, Asked, Answered, Drawing
    <2>6. CASE Result
      BY <1>1, <2>1, <2>6 DEF PlayInv, TypesInv, Result, Places, Request, Idle, Messages, Moves,
         Refused, Asked, Answered, Drawing
    <2>7. CASE Check_Run_Error
      BY <1>1, <2>1, <2>7 DEF PlayInv, TypesInv, Check_Run_Error, Places, Reply, Idle, Messages,
         Moves, Refused, Asked, Answered, Drawing
    <2>8. CASE End_Game
      BY <1>1, <2>1, <2>8 DEF PlayInv, TypesInv, End_Game, Places, Reply, Idle, Messages, Moves,
         Refused, Asked, Answered, Drawing
    <2>9. CASE UNCHANGED vars
      BY <2>9 DEF PlayInv, TypesInv, vars, Places, Refused, Asked, Answered, Drawing
    <2> QED
      BY <2>2, <2>3, <2>4, <2>5, <2>6, <2>7, <2>8, <2>9
  <1>3. KingsInv'
    <2>1. Playing' => Playing
      BY DEF Playing, PlayInv, TypesInv, Ask_Start, select_run, select_warning, Next_Move, Result,
             Check_Run_Error, End_Game, vars, Asked, Answered, Request, Idle
    <2> QED
      BY <1>1, <2>1 DEF PlayInv, KingsInv, KingsAt
  <1>4. BoardsInv'
    <2>1. CASE Ask_Start
      BY <1>1, <2>1 DEF PlayInv, BoardsInv, Ask_Start, Same, Asked, Answered, Drawing, Idle, Request
    <2>2. CASE select_run
      BY <1>1, <2>2 DEF PlayInv, BoardsInv, select_run, Same, Asked, Answered, Drawing, Idle, Request
    <2>3. CASE select_warning
      BY <1>1, <2>3 DEF PlayInv, BoardsInv, select_warning, Same, Asked, Answered, Drawing, Idle,
         Request
    <2>4. CASE Next_Move
      BY <1>1, <2>4 DEF PlayInv, BoardsInv, Next_Move, Same, Asked, Answered, Drawing, Idle
    <2>5. CASE Result
      BY <1>1, <2>5 DEF PlayInv, BoardsInv, Result, Same, Asked, Answered, Drawing, Idle
    <2>6. CASE Check_Run_Error
      BY <1>1, <2>6 DEF PlayInv, BoardsInv, Check_Run_Error, Same, Asked, Answered, Drawing, Idle,
         Reply, Moves
    <2>7. CASE End_Game
      BY <1>1, <2>7 DEF PlayInv, BoardsInv, End_Game, Same, Asked, Answered, Drawing, Idle, Reply,
         Moves
    <2>8. CASE UNCHANGED vars
      BY <2>8 DEF PlayInv, BoardsInv, vars, Same, Asked, Answered, Drawing, Drawn
    <2> QED
      BY <2>1, <2>2, <2>3, <2>4, <2>5, <2>6, <2>7, <2>8
  <1> QED
    BY <1>2, <1>3, <1>4 DEF PlayInv

LEMMA ReadyPlay == ASSUME PlayInv, GameInv', game_ready PROVE PlayInv'
  <1>1. TypesInv'
    BY FirstBoard DEF PlayInv, GameInv, Shapes, TypesInv, game_ready, Places, Request, Messages,
       Moves, Refused, Asked, Answered, Drawing, Idle
  <1>2. ghost'.lost = ghost.lost /\ (ghost'.parted = {} /\ Game.color = 2 => first)
    BY DEF PlayInv, GameInv, Shapes, game_ready
  <1>3. KingsInv'
    <2>1. Playing
      BY DEF PlayInv, TypesInv, Messages, Playing, game_ready, Answered
    <2> QED
      BY <1>2, <2>1 DEF PlayInv, KingsInv, KingsAt, game_ready
  <1>4. BoardsInv'
    BY <1>2 DEF PlayInv, BoardsInv, game_ready, Same, Asked, Answered, Drawing, Idle, Request
  <1> QED
    BY <1>1, <1>3, <1>4 DEF PlayInv

LEMMA DrawPlay == ASSUME PlayInv, GameInv', server_run PROVE PlayInv'
  <1>0. Drawing
    BY DEF Drawing, server_run
  <1>1. TypesInv'
    <2>1. view' \in Boards
      BY <1>0, DrawnIsABoard DEF PlayInv, server_run
    <2>2. ~Refused
      BY <1>0 DEF Drawing, Refused, Asked, Answered, Moves, Idle
    <2> QED
      BY <2>1, <2>2 DEF PlayInv, TypesInv, server_run, Places, Messages, Moves, Refused, Asked,
         Answered, Drawing, Idle
  <1>2. KingsInv'
    <2>1. Playing
      BY <1>0 DEF PlayInv, TypesInv, Messages, Moves, Playing, Drawing
    <2> QED
      BY <2>1 DEF PlayInv, KingsInv, KingsAt, server_run
  <1>3. BoardsInv'
    BY <1>0 DEF PlayInv, BoardsInv, server_run, Same, Asked, Answered, Drawing, Idle
  <1> QED
    BY <1>1, <1>2, <1>3 DEF PlayInv

LEMMA StartPlay == ASSUME PlayInv, GameInv', START_GAME PROVE PlayInv'
  <1>1. status'.at = [c \in {1, 2} |-> <<HomeRow(c), 4>>] /\ ghost'.lost = {}
    BY DEF PlayInv, GameInv, Shapes, Sound, Marks, START_GAME
  <1>2. TypesInv'
    <2>1. Places(status')
      BY <1>1 DEF Places, HomeRow, Squares, Colors
    <2> QED
      BY <1>1, <2>1 DEF PlayInv, TypesInv, START_GAME, Messages, Moves, Refused, Asked, Answered,
         Drawing, Idle, Reply
  <1>3. KingsInv'
    BY <1>1, FirstBoard DEF KingsInv, KingsAt, START_GAME, Colors
  <1>4. BoardsInv'
    BY DEF BoardsInv, START_GAME, Same, Asked, Answered, Drawing, Idle, Reply, Moves
  <1> QED
    BY <1>2, <1>3, <1>4 DEF PlayInv

LEMMA ColorPlay == ASSUME PlayInv, GameInv', Check_Color PROVE PlayInv'
  <1>0. /\ Asked("COLOR") /\ Playing /\ Same /\ ~Refused
        /\ board \in Boards /\ Places(status) /\ KingsAt(board, status, ghost.lost)
    <2>1. Asked("COLOR") /\ Same
      BY DEF Check_Color, Same
    <2>2. Playing /\ ~Refused
      BY <2>1 DEF PlayInv, TypesInv, Messages, Asked, Answered, Playing, Refused, Idle
    <2> QED
      BY <2>1, <2>2 DEF PlayInv, GameInv, Sound, TypesInv, KingsInv
  <1>1. CASE /\ wire.arg = 1 /\ UNCHANGED <<board, status, opening>>
             /\ wire' = Reply("COLOR_OK", NoArg)
    <2>1. TypesInv'
      BY <1>0, <1>1 DEF PlayInv, TypesInv, Check_Color, Places, Reply, Messages, Moves, Refused,
         Asked, Answered, Drawing, Idle
    <2>2. KingsInv'
      BY <1>0, <1>1 DEF KingsInv, KingsAt, Check_Color
    <2>3. BoardsInv'
      BY <1>0, <1>1 DEF PlayInv, BoardsInv, Check_Color, Same, Asked, Answered, Drawing, Idle, Reply,
         Moves
    <2> QED
      BY <2>1, <2>2, <2>3 DEF PlayInv
  <1>2. ASSUME NEW run \in find_way(board, 2, status, FALSE, 0), wire.arg = 2,
               board' = Put(board, run.move[1], run.move[2]), status' = run.cs,
               wire' = Reply("RUN", run.move), opening' = Played(1)
        PROVE  PlayInv'
    <2>1. 2 \in Colors /\ FALSE \in BOOLEAN /\ 0 \in {0, 1}
          /\ ghost.lost = ghost.lost \cup (IF FALSE THEN {3 - 2} ELSE {})
      BY DEF Colors
    <2>2. run.status # 0 /\ run.move \in Squares \X Squares
      <3>1. run.status # 0
        BY <1>2 DEF find_way, Random, RunStatus
      <3> QED
        BY <1>2, <2>1, <3>1, AnswerShape
    <2>3. Places(status') /\ KingsAt(board', status', ghost.lost)
      BY <1>0, <1>2, <2>1, <2>2, AnswerPlaces
    <2>4. TypesInv'
      <3>1. opening'.ply \in Nat
        BY <1>2 DEF PlayInv, GameInv, Shapes, TypesInv, Played
      <3> QED
        BY <1>0, <1>2, <2>2, <2>3, <3>1 DEF PlayInv, TypesInv, Check_Color, Reply, Messages, Moves,
           Refused, Asked, Answered, Drawing, Idle
    <2>5. KingsInv'
      BY <2>3 DEF KingsInv, KingsAt, Check_Color
    <2>6. BoardsInv'
      <3>1. UNCHANGED <<view, demo, first, ghost>>
        BY DEF Check_Color
      <3>2. wire'.op = "RUN" /\ wire'.arg = run.move /\ wire'.to = "client"
        BY <1>2 DEF Reply
      <3>3. first /\ view = board => board' = Drawn'
        BY <1>2, <3>1, <3>2 DEF Drawn
      <3>4. ghost.parted = {} => first /\ view = board
        BY <1>0, <1>2 DEF PlayInv, BoardsInv
      <3> QED
        BY <3>1, <3>2, <3>3, <3>4 DEF BoardsInv, Same, Asked, Answered, Drawing, Idle
    <2> QED
      BY <2>4, <2>5, <2>6 DEF PlayInv
  <1> QED
    BY <1>1, <1>2 DEF Check_Color

\* A rook and another piece that move from and to four different squares may move in
\* either order.
LEMMA PutsCommute ==
  ASSUME NEW b \in Boards, NEW s \in Squares, NEW t \in Squares, NEW from \in Squares,
         NEW to \in Squares, s \notin {from, to}, t \notin {from, to}
  PROVE  Put(Put(b, from, to), s, t) = Put(Put(b, s, t), from, to)
  <1> DEFINE x == Put(b, from, to)
             y == Put(b, s, t)
             xx == Put(x, s, t)
             yy == Put(y, from, to)
  <1>1. /\ x \in Boards
        /\ \A u \in Squares : x[u] = IF u = from THEN Empty ELSE IF u = to THEN b[from] ELSE b[u]
    BY PutBoard
  <1>2. /\ y \in Boards
        /\ \A u \in Squares : y[u] = IF u = s THEN Empty ELSE IF u = t THEN b[s] ELSE b[u]
    BY PutBoard
  <1> HIDE DEF x, y
  <1>3. /\ xx \in Boards
        /\ \A u \in Squares : xx[u] = IF u = s THEN Empty ELSE IF u = t THEN x[s] ELSE x[u]
    BY <1>1, PutBoard
  <1>4. /\ yy \in Boards
        /\ \A u \in Squares : yy[u] = IF u = from THEN Empty ELSE IF u = to THEN y[from] ELSE y[u]
    BY <1>2, PutBoard
  <1> HIDE DEF xx, yy
  <1>5. ASSUME NEW u \in Squares PROVE xx[u] = yy[u]
    BY <1>1, <1>2, <1>3, <1>4
  <1>6. xx = yy
    BY <1>3, <1>4, <1>5 DEF Boards
  <1> QED
    BY <1>6 DEF xx, yy, x, y

\* What the client will draw is the board the server keeps, but for what has parted them.
LEMMA AnswerIsDrawn ==
  ASSUME NEW gone, Sound(board, status, gone), color \in Colors, NEW m, NEW ub \in {0, 1}, NEW r,
         r = check_chess_run(board, color, m[1], m[2], status, ub),
         m[1] \in Squares, m[2] \in Squares, board[m[1]] \in Own(color),
         NEW a, a = Accepted(r, m), a.b \in Boards,
         NEW run, run.status \in {0, 1, 2},
         run.status # 0 => run.move \in Squares \X Squares /\ a.b[run.move[1]] \in Own(3 - color),
         NEW warned \in BOOLEAN, Answer(m, r, a, warned, run),
         ghost'.parted = {}, view' = board, demo' = m, ~first', Drawing'
  PROVE  board' = Drawn'
  <1> DEFINE s == run.move[1]
             t == run.move[2]
             b == Put(board, m[1], m[2])
             from == update_castling(m[2]).from
             to == update_castling(m[2]).to
  <1>1. wire'.op # "YOU_WIN" /\ wire'.arg = run.move
    BY DEF Answer, Reply, Drawing, Moves
  <1>2. run.status # 0 /\ wire'.op = Message(r.code, run)
    BY <1>1 DEF Answer, Reply
  <1>3. board' = Put(a.b, s, t)
    BY <1>2 DEF Answer
  <1>4. /\ wire'.op \notin {"RUN_C_SERVER", "RUN_C_SERVER_CLIENT"}
        /\ wire'.op = "RUN_W" => ~Castled(r.code)
        /\ ~LandsOnCastling(m, r, run)
    <2>1. ghost' = Remembered(m, r, a, warned, run, wire'.op, board')
      BY <1>2, <1>3 DEF Answer, Reply
    <2> QED
      BY <2>1 DEF Remembered
  <1>5. ~Castled(r.code) => wire'.op \in {"RUN", "RUN_W"}
    BY <1>2, <1>4 DEF Message
  <1>6. Castled(r.code) => wire'.op = "RUN_C_CLIENT"
    BY <1>2, <1>4 DEF Message
  <1>7. CASE ~Castled(r.code)
    <2>1. a.b = b
      BY <1>7 DEF Accepted
    <2>2. Drawn' = Put(b, s, t)
      BY <1>1, <1>5, <1>7 DEF Drawn
    <2> QED
      BY <1>3, <2>1, <2>2
  <1>8. CASE Castled(r.code)
    <2>1. a.b = Put(b, from, to)
      BY <1>8 DEF Accepted, WithRook
    <2>2. Drawn' = Put(Put(b, s, t), from, to)
      BY <1>1, <1>6, <1>8 DEF Drawn, WithRook
    <2>3. /\ from \in Squares /\ to \in Squares /\ from # to /\ from # m[1] /\ from # m[2]
          /\ board[from] = Rook(color)
      BY <1>8, CastlingSquares
    <2>4. s \in Squares /\ t \in Squares /\ a.b[s] \in Own(3 - color)
      BY <1>2
    <2>5. t \notin {from, to}
      BY <1>2, <1>4, <1>8 DEF LandsOnCastling
    <2> HIDE DEF s, t, from, to, b
    <2>6. board \in Boards
      BY DEF Sound
    <2>7. b \in Boards /\ b[from] = Rook(color)
      <3>1. b \in Boards
        BY <2>6, PutIsABoard DEF b
      <3>2. b[from] = IF from = m[1] THEN Empty ELSE IF from = m[2] THEN board[m[1]] ELSE board[from]
        BY <2>3, <2>6, PutAt DEF b
      <3> QED
        BY <2>3, <3>1, <3>2
    <2>8. a.b[from] = Empty /\ a.b[to] = Rook(color)
      <3>1. Put(b, from, to)[from] = Empty
        BY <2>3, <2>7, PutAt
      <3>2. Put(b, from, to)[to] = b[from]
        BY <2>3, <2>7, PutAt
      <3> QED
        BY <2>1, <2>7, <3>1, <3>2
    <2>9. Empty \notin Own(3 - color) /\ Rook(color) \notin Own(3 - color)
      BY DEF Own, Rook, White, Black, Empty, Colors
    <2>10. s \notin {from, to}
      BY <2>4, <2>8, <2>9
    <2>11. Put(Put(b, from, to), s, t) = Put(Put(b, s, t), from, to)
      BY <2>3, <2>4, <2>5, <2>7, <2>10, PutsCommute
    <2> QED
      BY <1>3, <2>1, <2>2, <2>11
  <1> QED
    BY <1>7, <1>8

\* An accepted move: what it leaves, and the two ways it goes on.
AcceptedRun(m, ub, warned, r, a, gone) ==
  /\ ub \in {0, 1} /\ warned \in BOOLEAN
  /\ r = check_chess_run(board, color, m[1], m[2], status, ub)
  /\ r.code > 0 /\ a = Accepted(r, m)
  /\ warned = check_checkmate_reverse(a.b, color, a.cs)
  /\ Sound(a.b, a.cs, gone) /\ Places(a.cs) /\ KingsAt(a.b, a.cs, ghost.lost)
  /\ m[1] \in Squares /\ m[2] \in Squares
  /\ \/ Spin(a)
     \/ \E left \in {0, 1} : \E run \in find_way(a.b, color, a.cs, warned, left) :
          Answer(m, r, a, warned, run)

\* Every step of Check_Run is one.
LEMMA RunCases ==
  ASSUME PlayInv, Check_Run
  PROVE  \E ub, warned, r, a, gone : AcceptedRun(wire.arg, ub, warned, r, a, gone)
  <1> DEFINE m == wire.arg
  <1>0. /\ color \in Colors /\ Sound(board, status, ghost.left)
        /\ Places(status) /\ KingsAt(board, status, ghost.lost)
    <2>1. Playing
      BY DEF PlayInv, TypesInv, Messages, Asked, Playing, Check_Run
    <2> QED
      BY <2>1 DEF PlayInv, GameInv, Shapes, TypesInv, KingsInv
  <1>1. PICK ub \in Leftover(board, color, status) :
          LET r == check_chess_run(board, color, m[1], m[2], status, ub)
              a == Accepted(r, m)
              warned == check_checkmate_reverse(a.b, color, a.cs)
          IN /\ r.code > 0
             /\ \E left \in Leftover(a.b, 3 - color, a.cs) :
                  LET runs == find_way(a.b, color, a.cs, warned, left)
                  IN \/ runs = {} /\ Spin(a)
                     \/ \E run \in {w \in runs : warned \/ Follows(2, w.move)} :
                          Answer(m, r, a, warned, run)
    BY DEF Check_Run
  <1> DEFINE r == check_chess_run(board, color, m[1], m[2], status, ub)
             a == Accepted(r, m)
             warned == check_checkmate_reverse(a.b, color, a.cs)
             gone == ghost.left \cup Leaves(board, m[1]) \cup CastledRook(r, m)
  <1>2. ub \in {0, 1} /\ r.code > 0
    BY <1>1, LeftoverIsABit
  <1>3. \/ Spin(a)
        \/ \E left \in {0, 1} : \E run \in find_way(a.b, color, a.cs, warned, left) :
             Answer(m, r, a, warned, run)
    BY <1>1, LeftoverIsABit
  <1>4. warned \in BOOLEAN
    BY DEF check_checkmate_reverse, check_checkmate
  <1> HIDE DEF r, m
  <1>5. r = check_chess_run(board, color, m[1], m[2], status, ub)
    BY DEF r
  <1>6. Sound(a.b, a.cs, gone)
    BY <1>0, <1>2, <1>5, AcceptedIsSound
  <1>7. /\ Places(a.cs) /\ KingsAt(a.b, a.cs, ghost.lost)
        /\ m[1] \in Squares /\ m[2] \in Squares
    BY <1>0, <1>2, <1>5, AcceptedPlaces
  <1> HIDE DEF warned, gone
  <1>8. a = Accepted(r, m) /\ warned = check_checkmate_reverse(a.b, color, a.cs)
    BY DEF warned
  <1> HIDE DEF a
  <1>9. AcceptedRun(m, ub, warned, r, a, gone)
    BY <1>2, <1>3, <1>4, <1>5, <1>6, <1>7, <1>8 DEF AcceptedRun
  <1> QED
    BY <1>9 DEF m

LEMMA RunPlay == ASSUME PlayInv, GameInv', Check_Run PROVE PlayInv'
  <1> DEFINE m == wire.arg
  <1>0. /\ Asked("RUN") /\ m # NoMove /\ Playing /\ Same /\ demo = m
        /\ color \in Colors /\ Sound(board, status, ghost.left)
        /\ UNCHANGED <<color, prompt, view, demo, first>>
    <2>1. Asked("RUN") /\ m # NoMove /\ Same
      BY DEF Check_Run, Same
    <2>2. Playing /\ demo = m
      BY <2>1 DEF PlayInv, TypesInv, Messages, Asked, Playing
    <2>3. UNCHANGED <<color, prompt, view, demo, first>>
      BY DEF Check_Run
    <2> QED
      BY <2>1, <2>2, <2>3 DEF PlayInv, GameInv, Shapes
  <1>1. PICK ub, warned, r, a, gone : AcceptedRun(m, ub, warned, r, a, gone)
    BY RunCases
  <1> HIDE DEF m
  <1>2. /\ Sound(a.b, a.cs, gone) /\ Places(a.cs) /\ KingsAt(a.b, a.cs, ghost.lost)
        /\ m[1] \in Squares /\ m[2] \in Squares
    BY <1>1 DEF AcceptedRun
  <1>3. a.b \in Boards
    BY <1>2 DEF Sound
  <1>4. board[m[1]] \in Own(color)
    <2>1. /\ r = check_chess_run(board, color, m[1], m[2], status, ub)
          /\ r.code > 0
      BY <1>1 DEF AcceptedRun
    <2> QED
      BY <2>1 DEF check_chess_run, check_color
  <1>5. CASE Spin(a)
    <2>1. /\ board' = a.b /\ status' = a.cs /\ wire' = Spinning /\ ghost' = ghost
          /\ opening' = opening
      BY <1>5 DEF Spin
    <2>2. TypesInv'
      BY <1>0, <1>2, <2>1 DEF PlayInv, TypesInv, Spinning, Messages, Moves, Refused, Asked, Answered,
         Drawing, Idle
    <2>3. KingsInv'
      BY <1>2, <2>1 DEF KingsInv, KingsAt
    <2>4. BoardsInv'
      BY <2>1 DEF BoardsInv, Same, Asked, Answered, Drawing, Idle, Spinning
    <2> QED
      BY <2>2, <2>3, <2>4 DEF PlayInv
  <1>6. ASSUME NEW left \in {0, 1}, NEW run \in find_way(a.b, color, a.cs, warned, left),
               Answer(m, r, a, warned, run)
        PROVE  PlayInv'
    <2>0. /\ r = check_chess_run(board, color, m[1], m[2], status, ub) /\ a = Accepted(r, m)
          /\ ub \in {0, 1}
      BY <1>1 DEF AcceptedRun
    <2>1. color \in Colors
      BY <1>0
    <2>2. Sound(a.b, a.cs, gone)
      BY <1>2
    <2>3. Places(a.cs)
      BY <1>2
    <2>4. KingsAt(a.b, a.cs, ghost.lost)
      BY <1>2
    <2>5. warned \in BOOLEAN
      BY <1>1 DEF AcceptedRun
    <2>6. a.b \in Boards
      BY <1>3
    <2> DEFINE b == IF run.status = 0 THEN a.b ELSE Put(a.b, run.move[1], run.move[2])
               cs == IF run.status = 0 THEN run.cs ELSE NoteKing(run.cs, b, run.move[2])
               more == ghost.lost \cup (IF warned THEN {3 - color} ELSE {})
    <2>7. /\ run.status \in {0, 1, 2}
          /\ run.status # 0 => run.move \in Squares \X Squares /\ a.b[run.move[1]] \in Own(3 - color)
      BY <1>0, <1>6, <2>5, AnswerShape
    <2>8. Marks(run.cs)
      <3>1. run.status = 0 => Sound(a.b, run.cs, gone)
        BY <1>6, <2>1, <2>2, <2>5, AnswerIsSound
      <3>2. run.status # 0 =>
              Sound(Put(a.b, run.move[1], run.move[2]), run.cs, gone \cup Leaves(a.b, run.move[1]))
        BY <1>6, <2>1, <2>2, <2>5, AnswerIsSound
      <3> QED
        BY <3>1, <3>2 DEF Sound
    <2>9. Places(run.cs) /\ KingsAt(b, run.cs, more)
      <3>1. more = ghost.lost \cup (IF warned THEN {3 - color} ELSE {})
        OBVIOUS
      <3> HIDE DEF more, b, cs
      <3>2. Places(run.cs)
        BY <1>6, <2>1, <2>3, <2>4, <2>5, <2>6, <3>1, AnswerPlaces
      <3>3. run.status = 0 => KingsAt(a.b, run.cs, more)
        BY <1>6, <2>1, <2>3, <2>4, <2>5, <2>6, <3>1, AnswerPlaces
      <3>4. run.status # 0 => KingsAt(Put(a.b, run.move[1], run.move[2]), run.cs, more)
        BY <1>6, <2>1, <2>3, <2>4, <2>5, <2>6, <3>1, AnswerPlaces
      <3> QED
        BY <3>2, <3>3, <3>4 DEF b
    <2>10. /\ board' = b /\ status' = cs /\ wire'.to = "client"
           /\ wire'.op \in {"YOU_WIN"} \cup Moves /\ wire'.arg = run.move
           /\ wire'.op # "YOU_WIN" => run.status # 0
           /\ opening' = Played(2)
      BY <1>6 DEF Answer, Reply, Message, Moves
    <2>11. ghost'.lost = more \cup (IF run.status # 0 /\ b[run.move[2]] = "W" THEN {2} ELSE {})
      BY <1>6 DEF Answer, Remembered
    <2>12. KingsAt(b, run.cs, ghost'.lost) /\ ghost'.lost \subseteq Colors
      <3>1. more \subseteq Colors
        BY <1>0 DEF PlayInv, TypesInv, Colors
      <3> HIDE DEF b, more
      <3> QED
        BY <2>9, <2>11, <3>1 DEF KingsAt, Colors
    <2>13. Places(cs) /\ KingsAt(b, cs, ghost'.lost)
      <3>1. CASE run.status = 0
        BY <2>9, <2>12, <3>1
      <3>2. CASE run.status # 0
        <4>1. run.move[2] \in Squares /\ (b[run.move[2]] = "W" => 2 \in ghost'.lost)
          BY <2>7, <2>11, <3>2
        <4>2. cs = NoteKing(run.cs, b, run.move[2])
          BY <3>2
        <4> HIDE DEF b, cs
        <4> QED
          BY <2>8, <2>9, <2>12, <4>1, <4>2, NoteKingPlaces
      <3> QED
        BY <3>1, <3>2
    <2> HIDE DEF b, cs, more
    <2>14. TypesInv'
      <3>1. opening'.ply \in Nat
        BY <2>10 DEF PlayInv, GameInv, Shapes, TypesInv, Played
      <3>2. wire'.op # "idle" /\ wire.op # "idle" /\ wire'.op \in Messages /\ wire'.to = "client"
        BY <1>0, <2>10 DEF Messages, Moves, Asked
      <3>3. Drawing' => wire'.arg \in Squares \X Squares
        BY <2>7, <2>10 DEF Drawing, Moves
      <3> QED
        BY <1>0, <1>2, <2>10, <2>12, <2>13, <3>1, <3>2, <3>3 DEF PlayInv, TypesInv, Asked, Drawing
    <2>15. KingsInv'
      BY <2>10, <2>13 DEF KingsInv
    <2>16. BoardsInv'
      <3>1. ~Same' /\ ~Answered("READY_GAME")' /\ ~Asked("RUN")' /\ ~Asked("COLOR")'
        BY <2>10 DEF Same, Asked, Answered, Moves, Idle
      <3>2. ASSUME ghost'.parted = {}, Drawing' PROVE board' = Drawn'
        <4>1. ghost.parted = {}
          BY <1>6, <3>2 DEF Answer, Remembered
        <4>2. view' = board /\ demo' = m /\ ~first'
          BY <1>0, <4>1 DEF PlayInv, BoardsInv
        <4>3. Sound(board, status, ghost.left) /\ color \in Colors
          BY <1>0
        <4>4. m[1] \in Squares /\ m[2] \in Squares /\ a.b \in Boards
          BY <1>2, <1>3
        <4>5. Answer(m, r, a, warned, run) /\ ub \in {0, 1} /\ a = Accepted(r, m)
          BY <1>6, <2>0
        <4>6. ghost'.parted = {} /\ Drawing'
          BY <3>2
        <4>7. r = check_chess_run(board, color, m[1], m[2], status, ub)
          BY <2>0
        <4> QED
          BY <1>4, <2>5, <2>7, <4>2, <4>3, <4>4, <4>5, <4>6, <4>7, AnswerIsDrawn
      <3> QED
        BY <3>1, <3>2 DEF BoardsInv
    <2> QED
      BY <2>14, <2>15, <2>16 DEF PlayInv
  <1> QED
    BY <1>1, <1>5, <1>6 DEF AcceptedRun

LEMMA PlayInvNext == PlayInv /\ [Next]_vars => PlayInv'
  <1> SUFFICES ASSUME PlayInv, [Next]_vars PROVE PlayInv'
    OBVIOUS
  <1>1. GameInv'
    BY GameInvNext DEF PlayInv
  <1>2. \/ game_ready \/ server_run \/ START_GAME \/ Check_Color \/ Check_Run
        \/ /\ Ask_Start \/ select_run \/ select_warning \/ Next_Move \/ Result
              \/ Check_Run_Error \/ End_Game \/ UNCHANGED vars
           /\ ghost' = ghost
    BY DEF Next, Client, Server, User, vars, Ask_Start, select_run, select_warning, Next_Move, Result,
       Check_Run_Error, End_Game
  <1> QED
    BY <1>1, <1>2, ReadyPlay, DrawPlay, StartPlay, ColorPlay, RunPlay, QuietPlay

\* Boards, squares, messages and marks stay what they are declared to be, whatever a
\* player types: the squares that check_chess_run, find_way and server_run index the
\* boards with are on the board.
THEOREM TypesAreKept == Spec => []TypeOK
  <1>1. PlayInv => TypeOK
    BY DEF PlayInv, GameInv, Shapes, Sound, Boards, Pieces, Marks, TypesInv, Places, TypeOK, Status,
       Colors
  <1> QED
    BY <1>1, PlayInvInit, PlayInvNext, PTL DEF Spec

\* As long as no scan of find_way and no move of a white computer's king has spoilt it, the
\* ChessStatus says where a king stands, so check is tested at the right square.
THEOREM KingsAreKnown == Spec => []KingsKnown
  <1>1. PlayInv => KingsKnown
    <2> SUFFICES ASSUME PlayInv, wire = Idle, prompt \in {"move", "warning"},
                        NEW c \in Colors \ ghost.lost, check_endgame(board, c)
                 PROVE  board[status.at[c]] = King(c)
      BY DEF KingsKnown, Colors
    <2>1. PICK s \in Squares : board[s] = King(c)
      BY DEF check_endgame
    <2>2. s = status.at[c]
      BY <2>1 DEF PlayInv, KingsInv, KingsAt, Playing, Idle
    <2> QED
      BY <2>1, <2>2
  <1> QED
    BY <1>1, PlayInvInit, PlayInvNext, PTL DEF Spec

\* The player is shown the board the server plays on, in every game whose castlings and
\* first moves are none of the four that the code draws differently.
THEOREM BoardsAreSame == Spec => []BoardsAgree
  <1>1. PlayInv => BoardsAgree
    BY DEF PlayInv, BoardsInv, Same, BoardsAgree
  <1> QED
    BY <1>1, PlayInvInit, PlayInvNext, PTL DEF Spec

\* What a step sends, if it is not the answer to a move.
LEMMA WhatIsSent ==
  ASSUME Next
  PROVE  \/ Check_Run
         \/ Check_Color /\ (wire' = Reply("COLOR_OK", NoArg) \/ \E m : wire' = Reply("RUN", m))
         \/ wire' = Idle
         \/ \E op \in {"START_GAME", "COLOR", "RUN", "END_RUN"} : \E arg :
              wire' = Request(op, arg)
         \/ \E op \in {"READY_GAME", "RUN_ERROR", "COMPUTER_WIN"} : wire' = Reply(op, NoArg)
  <1>1. server_run \/ Next_Move \/ Result => wire' = Idle
    BY DEF server_run, Next_Move, Result
  <1>2. /\ game_ready => wire' = Request("COLOR", Game.color)
        /\ Ask_Start => wire' = Request("START_GAME", NoArg)
        /\ select_run => \E m : wire' = Request("RUN", m)
        /\ select_warning => wire' = Request("END_RUN", NoArg) \/ wire' = Request("RUN", NoMove)
    BY DEF game_ready, Ask_Start, select_run, select_warning
  <1>3. /\ START_GAME => wire' = Reply("READY_GAME", NoArg)
        /\ Check_Color => \/ wire' = Reply("COLOR_OK", NoArg)
                         \/ \E m : wire' = Reply("RUN", m)
        /\ Check_Run_Error => wire' = Reply("RUN_ERROR", NoArg)
        /\ End_Game => wire' = Reply("COMPUTER_WIN", NoArg)
    BY DEF START_GAME, Check_Color, Check_Run_Error, End_Game
  <1> QED
    BY <1>1, <1>2, <1>3 DEF Next, Client, Server, User

\* YOU_WIN is never unearned: the computer's king is off the board, or it stands attacked
\* where the code looks for it, unless its place had been spoilt before.
THEOREM WinsAreEarned == Spec => WinIsEarned
  <1> DEFINE Won == wire'.op = "YOU_WIN" /\ 3 - color \notin ghost.lost /\ ~UNCHANGED wire =>
                      \/ \A k \in Squares : board'[k] # King(3 - color)
                      \/ \E k \in Squares : /\ board'[k] = King(3 - color)
                                            /\ check_checkmate(board', 3 - color, k)
  <1>1. PlayInv /\ [Next]_vars => [Won]_vars
    <2> SUFFICES ASSUME PlayInv, Next, wire'.op = "YOU_WIN", 3 - color \notin ghost.lost,
                        NEW k \in Squares, board'[k] = King(3 - color)
                 PROVE  check_checkmate(board', 3 - color, k)
      BY Zenon
    <2>1. Check_Run
      <3>1. /\ \A op, arg : Request(op, arg).op = op /\ Reply(op, arg).op = op
            /\ Idle.op = "idle"
        BY DEF Request, Reply, Idle
      <3> QED
        BY <3>1, WhatIsSent
    <2>2. PICK ub, warned, r, a, gone : AcceptedRun(wire.arg, ub, warned, r, a, gone)
      BY <2>1, RunCases
    <2>3. ~Spin(a)
      BY DEF Spin, Spinning
    <2>4. PICK left \in {0, 1} : \E run \in find_way(a.b, color, a.cs, warned, left) :
            Answer(wire.arg, r, a, warned, run)
      BY <2>2, <2>3 DEF AcceptedRun
    <2>5. PICK run \in find_way(a.b, color, a.cs, warned, left) : Answer(wire.arg, r, a, warned, run)
      BY <2>4
    <2>6. run.status = 0
      <3>1. run.status = 0 \/ ~check_endgame(board', 3 - color)
        BY <2>5 DEF Answer, Reply, Message
      <3>2. check_endgame(board', 3 - color)
        BY DEF check_endgame
      <3> QED
        BY <3>1, <3>2
    <2>7. board' = a.b
      BY <2>5, <2>6 DEF Answer
    <2>8. warned
      BY <2>5, <2>6 DEF find_way, Random, RunStatus
    <2>9. 3 - color \in Colors
      BY DEF PlayInv, GameInv, Shapes, Colors
    <2>10. k = a.cs.at[3 - color]
      <3>1. KingsAt(a.b, a.cs, ghost.lost)
        BY <2>2 DEF AcceptedRun
      <3> QED
        BY <2>7, <2>9, <3>1 DEF KingsAt
    <2>11. check_checkmate_reverse(a.b, color, a.cs)
      BY <2>2, <2>8 DEF AcceptedRun
    <2> QED
      BY <2>7, <2>10, <2>11 DEF check_checkmate_reverse
  <1> QED
    BY <1>1, PlayInvInit, PlayInvNext, PTL DEF Spec, WinIsEarned

----------------------------------------------------------------------------
(* TakesOnePieceEach: the pieces on the boards are counted. *)

Sides == {White, Black}
TakesOne(b, after) == \A S \in Sides : Count(after, S) \in (Count(b, S) - 1)..Count(b, S)

LEMMA Holders ==
  ASSUME NEW b, NEW S
  PROVE  IsFiniteSet({s \in Squares : b[s] \in S}) /\ Count(b, S) \in Nat
  <1>1. IsFiniteSet(0..7)
    <2>1. 0 \in Int /\ 7 \in Int
      OBVIOUS
    <2> QED
      BY ONLY <2>1, FS_Interval
  <1>2. IsFiniteSet(Squares)
    BY <1>1, FS_Product DEF Squares
  <1>3. IsFiniteSet({s \in Squares : b[s] \in S})
    BY <1>2, FS_Subset
  <1> QED
    BY <1>3, FS_CardinalityType DEF Count

\* A piece moved takes what stands on its target, and nothing else.
LEMMA PutCounts ==
  ASSUME NEW b \in Boards, NEW s \in Squares, NEW t \in Squares, s # t,
         NEW S \in Sides
  PROVE  Count(Put(b, s, t), S) = IF b[t] \in S THEN Count(b, S) - 1 ELSE Count(b, S)
  <1> DEFINE H == {u \in Squares : b[u] \in S}
             A == {u \in Squares : Put(b, s, t)[u] \in S}
             R == H \ {t}
             Q == R \ {s}
  <1>1. Empty \notin S
    <2>1. S = White \/ S = Black
      BY DEF Sides
    <2>2. Empty \notin White /\ Empty \notin Black
      BY DEF White, Black, Empty
    <2> QED
      BY <2>1, <2>2
  <1>2. A = IF b[s] \in S THEN Q \cup {t} ELSE R
    BY <1>1, PutAt
  <1>3. IsFiniteSet(H) /\ Cardinality(H) = Count(b, S) /\ Cardinality(H) \in Nat
    BY Holders DEF Count
  <1>4. (s \in H <=> b[s] \in S) /\ (t \in H <=> b[t] \in S)
    OBVIOUS
  <1>5. Cardinality(A) = Count(Put(b, s, t), S)
    BY DEF Count
  <1> HIDE DEF H, A
  <1>6. /\ IsFiniteSet(R)
        /\ Cardinality(R) = IF t \in H THEN Cardinality(H) - 1 ELSE Cardinality(H)
    BY <1>3, FS_RemoveElement
  <1>7. s \in R <=> s \in H
    OBVIOUS
  <1>8. t \notin Q
    OBVIOUS
  <1> HIDE DEF R
  <1>9. /\ IsFiniteSet(Q)
        /\ Cardinality(Q) = IF s \in R THEN Cardinality(R) - 1 ELSE Cardinality(R)
    BY <1>6, FS_RemoveElement
  <1> HIDE DEF Q
  <1>10. Cardinality(Q \cup {t}) = Cardinality(Q) + 1
    BY <1>8, <1>9, FS_AddElement
  <1>11. Cardinality(R) \in Int
    BY <1>3, <1>6
  <1>12. Cardinality(A) = Cardinality(R)
    BY <1>2, <1>4, <1>7, <1>9, <1>10, <1>11
  <1> QED
    BY <1>3, <1>4, <1>5, <1>6, <1>12

\* The sides hold different pieces.
LEMMA SidesDiffer ==
  /\ \A c \in Colors : Own(c) \in Sides /\ Own(3 - c) \in Sides /\ Own(c) # Own(3 - c)
  /\ \A c \in Colors : Sides = {Own(c), Own(3 - c)}
  /\ \A c \in Colors : \A p \in Own(c) : p \notin Own(3 - c)
  /\ \A c \in Colors : Empty \notin Own(c)
  BY DEF Colors, Sides, Own, White, Black, Empty

\* The rook of a client's castling goes to a square that holds no piece of the client's,
\* and the king takes nothing: its target is one the rook has passed.
LEMMA CastlingTargets ==
  ASSUME NEW left, Sound(board, status, left), color \in Colors, NEW m, NEW ub \in {0, 1}, NEW r,
         r = check_chess_run(board, color, m[1], m[2], status, ub), Castled(r.code)
  PROVE  /\ board[m[2]] = Empty
         /\ board[update_castling(m[2]).to] \notin Own(color)
         /\ update_castling(m[2]).to \notin {m[1], m[2]}
  <1> DEFINE s == m[1]
             t == m[2]
             k == Corner(color, s, t)
             beside == <<HomeRow(color), IF t[2] < s[2] THEN 3 ELSE 5>>
  <1>1. /\ board[s] = King(color) /\ TwoAside(s, t) /\ Entitled(board, color, s, t, status)
        /\ s \in Squares /\ t \in Squares /\ check_rock(board, color, k, beside)
    <2>1. Castled(check_chess_run(board, color, s, t, status, ub).code)
      OBVIOUS
    <2> HIDE DEF s, t
    <2> QED
      BY <2>1 DEF check_chess_run, check_color, castling, Castled, CastlingCode
  <1> HIDE DEF s, t
  <1>2. s = <<HomeRow(color), 4>>
    BY <1>1 DEF Entitled, Sound, KingsAtHome
  <1>3. t = <<HomeRow(color), 2>> \/ t = <<HomeRow(color), 6>>
    BY <1>1, <1>2 DEF TwoAside, Squares, Abs
  <1>4. update_castling(t).to = beside /\ beside # s /\ beside # t
    BY <1>2, <1>3 DEF update_castling
  <1>5. t \in Between(k, beside)
    <2>1. HomeRow(color) \in Int
      BY DEF HomeRow
    <2>2. CASE t = <<HomeRow(color), 2>>
      <3>1. k = <<HomeRow(color), 0>> /\ beside = <<HomeRow(color), 3>>
        BY <1>2, <2>2 DEF Corner
      <3>2. Between(k, beside) = {<<HomeRow(color) + n * 0, 0 + n * 1>> : n \in 1..2}
        BY <2>1, <3>1 DEF Between, Abs, Sgn
      <3>3. t = <<HomeRow(color) + 2 * 0, 0 + 2 * 1>> /\ 2 \in 1..2
        BY <2>1, <2>2
      <3> QED
        BY ONLY <3>2, <3>3
    <2>3. CASE t = <<HomeRow(color), 6>>
      <3>1. k = <<HomeRow(color), 7>> /\ beside = <<HomeRow(color), 5>>
        BY <1>2, <2>3 DEF Corner
      <3>2. Between(k, beside) = {<<HomeRow(color) + n * 0, 7 + n * (-1)>> : n \in 1..1}
        BY <2>1, <3>1 DEF Between, Abs, Sgn
      <3>3. t = <<HomeRow(color) + 1 * 0, 7 + 1 * (-1)>> /\ 1 \in 1..1
        BY <2>1, <2>3
      <3> QED
        BY ONLY <3>2, <3>3
    <2> QED
      BY <1>3, <2>2, <2>3
  <1>6. board[t] = Empty /\ board[beside] \notin Own(color)
    BY <1>1, <1>5, SidesDiffer DEF check_rock, Lands
  <1> QED
    BY <1>4, <1>6 DEF s, t

\* A move of c's takes at most one piece of the other side's, and none of its own.
LEMMA MoveTakes ==
  ASSUME NEW b \in Boards, NEW c \in Colors, NEW s \in Squares, NEW t \in Squares,
         b[s] \in Own(c), b[t] \notin Own(c)
  PROVE  /\ Count(Put(b, s, t), Own(c)) = Count(b, Own(c))
         /\ Count(Put(b, s, t), Own(3 - c)) \in (Count(b, Own(3 - c)) - 1)..Count(b, Own(3 - c))
  <1>1. s # t
    OBVIOUS
  <1>2. Own(c) \in Sides /\ Own(3 - c) \in Sides
    BY SidesDiffer
  <1>3. Count(Put(b, s, t), Own(c)) = Count(b, Own(c))
    BY <1>1, <1>2, PutCounts
  <1>4. \/ Count(Put(b, s, t), Own(3 - c)) = Count(b, Own(3 - c)) - 1
        \/ Count(Put(b, s, t), Own(3 - c)) = Count(b, Own(3 - c))
    BY <1>1, <1>2, PutCounts
  <1>5. Count(b, Own(3 - c)) \in Nat
    BY Holders
  <1> QED
    BY <1>3, <1>4, <1>5

\* So does a move of the client's that is accepted, its rook's included.
LEMMA AcceptedTakes ==
  ASSUME NEW left, Sound(board, status, left), color \in Colors, NEW m, NEW ub \in {0, 1}, NEW r,
         r = check_chess_run(board, color, m[1], m[2], status, ub), r.code > 0,
         m[1] \in Squares, m[2] \in Squares, NEW a, a = Accepted(r, m)
  PROVE  /\ Count(a.b, Own(color)) = Count(board, Own(color))
         /\ Count(a.b, Own(3 - color)) \in (Count(board, Own(3 - color)) - 1)..Count(board, Own(3 - color))
  <1> DEFINE s == m[1]
             t == m[2]
             b == Put(board, s, t)
             from == update_castling(t).from
             to == update_castling(t).to
  <1>1. board \in Boards /\ b \in Boards
    BY PutIsABoard DEF Sound
  <1>2. board[s] \in Own(color) /\ board[t] \notin Own(color)
    <2>1. check_chess_run(board, color, s, t, status, ub).code > 0
      OBVIOUS
    <2> HIDE DEF s, t
    <2> QED
      BY <2>1 DEF check_chess_run, check_color
  <1>3. CASE ~Castled(r.code)
    <2>1. a.b = b
      BY <1>3 DEF Accepted
    <2> QED
      BY <1>1, <1>2, <2>1, MoveTakes
  <1>4. CASE Castled(r.code)
    <2>1. /\ from \in Squares /\ to \in Squares /\ from # to /\ from # s /\ from # t
          /\ board[from] = Rook(color)
      BY <1>4, CastlingSquares
    <2>2. board[t] = Empty /\ board[to] \notin Own(color) /\ to # s /\ to # t
      BY <1>4, CastlingTargets
    <2>3. a.b = Put(b, from, to)
      BY <1>4 DEF Accepted, WithRook
    <2> HIDE DEF s, t, from, to
    <2>4. b[from] = Rook(color) /\ b[to] = board[to]
      BY <1>1, <2>1, <2>2, PutAt DEF s, t
    <2>5. b[from] \in Own(color) /\ b[to] \notin Own(color)
      BY <2>2, <2>4, KingFacts
    <2>6. s \in Squares /\ t \in Squares /\ s # t
      BY <1>2 DEF s, t
    <2>7. /\ Count(b, Own(color)) = Count(board, Own(color))
          /\ Count(b, Own(3 - color)) = Count(board, Own(3 - color))
      <3>1. Own(color) \in Sides /\ Own(3 - color) \in Sides
        BY SidesDiffer
      <3>2. board[t] \notin Own(color) /\ board[t] \notin Own(3 - color)
        BY <2>2, SidesDiffer DEF Colors
      <3> QED
        BY <1>1, <2>6, <3>1, <3>2, PutCounts
    <2> HIDE DEF b
    <2>8. /\ Count(a.b, Own(color)) = Count(b, Own(color))
          /\ Count(a.b, Own(3 - color)) \in (Count(b, Own(3 - color)) - 1)..Count(b, Own(3 - color))
      BY <1>1, <2>1, <2>3, <2>5, MoveTakes
    <2> QED
      BY <2>7, <2>8
  <1> QED
    BY <1>3, <1>4

\* An exchange of moves takes at most one piece from each side.
LEMMA ExchangeTakes ==
  ASSUME NEW gone, Sound(board, status, gone), color \in Colors, NEW m, NEW ub \in {0, 1}, NEW r,
         r = check_chess_run(board, color, m[1], m[2], status, ub), r.code > 0,
         m[1] \in Squares, m[2] \in Squares, NEW a, a = Accepted(r, m), a.b \in Boards,
         NEW warned \in BOOLEAN, NEW left \in {0, 1},
         NEW run \in find_way(a.b, color, a.cs, warned, left),
         Answer(m, r, a, warned, run)
  PROVE  TakesOne(board, board')
  <1> DEFINE mine == Own(color)
             its == Own(3 - color)
  <1>1. /\ Count(a.b, mine) = Count(board, mine)
        /\ Count(a.b, its) \in (Count(board, its) - 1)..Count(board, its)
    BY AcceptedTakes
  <1>2. /\ Count(board', its) = Count(a.b, its)
        /\ Count(board', mine) \in (Count(a.b, mine) - 1)..Count(a.b, mine)
    <2>1. CASE run.status = 0
      <3>1. board' = a.b
        BY <2>1 DEF Answer
      <3>2. Count(a.b, mine) \in Nat
        BY Holders
      <3> QED
        BY <3>1, <3>2
    <2>2. CASE run.status # 0
      <3>1. board' = Put(a.b, run.move[1], run.move[2])
        BY <2>2 DEF Answer
      <3>2. run.move \in Tries(a.b, 3 - color)
        BY <2>2, AnswerIsTried
      <3>3. /\ run.move[1] \in Squares /\ run.move[2] \in Squares
            /\ a.b[run.move[1]] \in its /\ a.b[run.move[2]] \notin its
        BY <3>2 DEF Tries
      <3>4. 3 - color \in Colors /\ 3 - (3 - color) = color
        BY DEF Colors
      <3>5. /\ Count(Put(a.b, run.move[1], run.move[2]), Own(3 - color)) = Count(a.b, Own(3 - color))
            /\ Count(Put(a.b, run.move[1], run.move[2]), Own(3 - (3 - color)))
                 \in (Count(a.b, Own(3 - (3 - color))) - 1)..Count(a.b, Own(3 - (3 - color)))
        BY <3>3, <3>4, MoveTakes
      <3> QED
        BY <3>1, <3>4, <3>5
    <2> QED
      BY <2>1, <2>2
  <1>3. Count(board, mine) \in Nat /\ Count(board, its) \in Nat
    BY Holders
  <1>4. Sides = {mine, its}
    BY SidesDiffer
  <1> QED
    BY <1>1, <1>2, <1>3, <1>4 DEF TakesOne

\* A reply under way takes at most one piece from each side of the client's board.
TakenInv == Drawing /\ ghost.parted = {} => TakesOne(view, board)

LEMMA NothingTaken == \A b : TakesOne(b, b)
  <1> SUFFICES ASSUME NEW b, NEW S \in Sides
               PROVE  Count(b, S) \in (Count(b, S) - 1)..Count(b, S)
    BY DEF TakesOne
  <1>1. Count(b, S) \in Nat
    BY Holders
  <1> QED
    BY <1>1

\* The steps that play on the server's board.
LEMMA RunTakes == ASSUME PlayInv, Check_Run PROVE TakesOne(board, board')
  <1>1. PICK ub, warned, r, a, gone : AcceptedRun(wire.arg, ub, warned, r, a, gone)
    BY RunCases
  <1>2. color \in Colors /\ Sound(board, status, ghost.left)
    BY DEF PlayInv, GameInv, Shapes, Check_Run, Asked, Playing, TypesInv, Messages
  <1> DEFINE m == wire.arg
  <1> HIDE DEF m
  <1>3. /\ ub \in {0, 1} /\ warned \in BOOLEAN
        /\ r = check_chess_run(board, color, m[1], m[2], status, ub)
        /\ r.code > 0 /\ a = Accepted(r, m)
        /\ Sound(a.b, a.cs, gone)
        /\ m[1] \in Squares /\ m[2] \in Squares
    BY <1>1 DEF AcceptedRun, m
  <1>4. \/ Spin(a)
        \/ \E left \in {0, 1} : \E run \in find_way(a.b, color, a.cs, warned, left) :
             Answer(m, r, a, warned, run)
    BY <1>1 DEF AcceptedRun, m
  <1>5. a.b \in Boards
    BY <1>3 DEF Sound
  <1>6. CASE Spin(a)
    <2>1. board' = a.b
      BY <1>6 DEF Spin
    <2>2. /\ Count(a.b, Own(color)) = Count(board, Own(color))
          /\ Count(a.b, Own(3 - color)) \in (Count(board, Own(3 - color)) - 1)..Count(board, Own(3 - color))
      BY <1>2, <1>3, AcceptedTakes
    <2>3. Count(board, Own(color)) \in Nat /\ Sides = {Own(color), Own(3 - color)}
      BY <1>2, Holders, SidesDiffer
    <2> QED
      BY <2>1, <2>2, <2>3 DEF TakesOne
  <1>7. ASSUME NEW left \in {0, 1}, NEW run \in find_way(a.b, color, a.cs, warned, left),
               Answer(m, r, a, warned, run)
        PROVE  TakesOne(board, board')
    BY <1>2, <1>3, <1>5, <1>7, ExchangeTakes
  <1> QED
    BY <1>4, <1>6, <1>7

LEMMA ColorTakes == ASSUME PlayInv, Check_Color PROVE TakesOne(board, board')
  <1>1. CASE board' = board
    BY <1>1, NothingTaken
  <1>2. ASSUME NEW run \in find_way(board, 2, status, FALSE, 0),
               board' = Put(board, run.move[1], run.move[2])
        PROVE  TakesOne(board, board')
    <2>1. board \in Boards
      BY DEF PlayInv, GameInv, Check_Color, Asked, Playing, Sound, TypesInv, Messages
    <2>2. run.move \in Tries(board, 1)
      BY DEF find_way, Random
    <2>3. /\ run.move[1] \in Squares /\ run.move[2] \in Squares
          /\ board[run.move[1]] \in Own(1) /\ board[run.move[2]] \notin Own(1)
      BY <2>2 DEF Tries
    <2>4. /\ Count(board', Own(1)) = Count(board, Own(1))
          /\ Count(board', Own(3 - 1)) \in (Count(board, Own(3 - 1)) - 1)..Count(board, Own(3 - 1))
      BY <1>2, <2>1, <2>3, MoveTakes DEF Colors
    <2>5. Count(board, Own(1)) \in Nat /\ Sides = {Own(1), Own(3 - 1)}
      BY Holders, SidesDiffer DEF Colors
    <2> QED
      BY <2>4, <2>5 DEF TakesOne
  <1> QED
    BY <1>1, <1>2 DEF Check_Color

LEMMA TakenNext == ASSUME PlayInv, TakenInv, [Next]_vars PROVE TakenInv'
  <1>1. CASE UNCHANGED vars
    BY <1>1 DEF TakenInv, vars, Drawing
  <1>2. CASE Check_Run
    <2> SUFFICES ASSUME ghost'.parted = {}, Drawing' PROVE TakesOne(view', board')
      BY DEF TakenInv
    <2>1. ghost.parted = {}
      <3>1. PICK ub, warned, r, a, gone : AcceptedRun(wire.arg, ub, warned, r, a, gone)
        BY <1>2, RunCases
      <3>2. CASE Spin(a)
        BY <3>2 DEF Spin
      <3>3. ASSUME NEW run, Answer(wire.arg, r, a, warned, run) PROVE ghost.parted = {}
        BY <3>3 DEF Answer, Remembered
      <3> QED
        BY <3>1, <3>2, <3>3 DEF AcceptedRun
    <2>2. view' = view /\ Asked("RUN")
      BY <1>2 DEF Check_Run
    <2>3. view' = board
      BY <2>1, <2>2 DEF PlayInv, BoardsInv, Same
    <2> QED
      BY <1>2, <2>3, RunTakes
  <1>3. CASE Check_Color
    <2> SUFFICES ASSUME ghost'.parted = {}, Drawing' PROVE TakesOne(view', board')
      BY DEF TakenInv
    <2>1. view' = view /\ Asked("COLOR") /\ ghost.parted = {}
      BY <1>3 DEF Check_Color
    <2>2. view' = board
      BY <2>1 DEF PlayInv, BoardsInv, Same
    <2> QED
      BY <1>3, <2>2, ColorTakes
  <1>4. CASE Next /\ ~Check_Run /\ ~Check_Color
    <2>1. \/ wire' = Idle
          \/ \E op \in {"START_GAME", "COLOR", "RUN", "END_RUN"} : \E arg : wire' = Request(op, arg)
          \/ \E op \in {"READY_GAME", "RUN_ERROR", "COMPUTER_WIN"} : wire' = Reply(op, NoArg)
      BY <1>4, WhatIsSent
    <2>2. /\ \A op, arg : Request(op, arg).to = "server" /\ Reply(op, arg).op = op
          /\ Idle.to = "nobody"
      BY DEF Request, Reply, Idle
    <2>3. ~Drawing'
      BY <2>1, <2>2 DEF Drawing, Moves
    <2> QED
      BY <2>3 DEF TakenInv
  <1> QED
    BY <1>1, <1>2, <1>3, <1>4

\* An exchange of moves takes at most one piece from each side, and no side gains one, on
\* the server's board (check_game.h:149 and 216) and on the client's (tcp_client.c:413, 428),
\* the client's as long as nothing has parted the two.
THEOREM OnePieceEachIsTaken == Spec => TakesOnePieceEach
  <1> DEFINE Takes == wire'.op # "READY_GAME" /\ wire.op # "READY_GAME" =>
                        \A S \in {White, Black} :
                          /\ Count(board', S) \in (Count(board, S) - 1)..Count(board, S)
                          /\ ghost.parted = {} =>
                               Count(view', S) \in (Count(view, S) - 1)..Count(view, S)
  <1>1. Init => TakenInv
    BY DEF Init, TakenInv, Drawing, Idle
  <1>2. PlayInv /\ TakenInv /\ [Next]_vars => TakenInv'
    BY TakenNext
  <1>3. PlayInv /\ TakenInv /\ [Next]_vars => [Takes]_vars
    <2> SUFFICES ASSUME PlayInv, TakenInv, Next,
                        wire'.op # "READY_GAME", wire.op # "READY_GAME"
                 PROVE  TakesOne(board, board') /\ (ghost.parted = {} => TakesOne(view, view'))
      BY DEF TakesOne, Sides
    <2>1. TakesOne(board, board')
      <3>1. ~START_GAME
        BY DEF START_GAME, Reply
      <3>2. CASE Check_Run \/ Check_Color
        BY <3>2, RunTakes, ColorTakes
      <3>3. CASE ~(Check_Run \/ Check_Color)
        <4>1. board' = board
          BY <3>1, <3>3 DEF Next, Client, Server, User, game_ready, server_run, Next_Move, Result,
             Check_Run_Error, End_Game, Ask_Start, select_run, select_warning
        <4> QED
          BY <4>1, NothingTaken
      <3> QED
        BY <3>2, <3>3
    <2>2. ASSUME ghost.parted = {} PROVE TakesOne(view, view')
      <3>1. ~game_ready
        BY DEF game_ready, Answered
      <3>2. CASE server_run
        <4>1. Drawing /\ view' = Drawn
          BY <3>2 DEF server_run, Drawing
        <4>2. TakesOne(view, board) /\ board = Drawn
          BY <2>2, <4>1 DEF TakenInv, PlayInv, BoardsInv
        <4> QED
          BY <4>1, <4>2
      <3>3. CASE ~server_run
        <4>1. view' = view
          BY <3>1, <3>3 DEF Next, Client, Server, User, Next_Move, Result, START_GAME, Check_Color,
             Check_Run_Error, Check_Run, End_Game, Ask_Start, select_run, select_warning
        <4> QED
          BY <4>1, NothingTaken
      <3> QED
        BY <3>2, <3>3
    <2> QED
      BY <2>1, <2>2
  <1> QED
    BY <1>1, <1>2, <1>3, PlayInvInit, PlayInvNext, PTL DEF Spec, TakesOnePieceEach
=============================================================================
