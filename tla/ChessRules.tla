----------------------------- MODULE ChessRules -----------------------------
(***************************************************************************)
(* The board, the moves and the computer player of src/project:            *)
(* interface.h, check_chess_run.h, ai.h, update_castling.h.  Nothing here  *)
(* has state: the operators take the board b (a function from squares to   *)
(* pieces) and the record cs for the C struct ChessStatus, and return what *)
(* the C functions return or write through their pointers.  A square is    *)
(* <<row, column>>, a colour is 1 (white) or 2 (black) as in the source.   *)
(***************************************************************************)
EXTENDS Integers

Squares == (0..7) \X (0..7)
Empty   == "_"
White   == {"X", "M", "T", "H", "W", "O"}
Black   == {"x", "m", "t", "h", "w", "o"}
Own(c)  == IF c = 1 THEN White ELSE Black
King(c) == IF c = 1 THEN "W" ELSE "w"
Rook(c) == IF c = 1 THEN "X" ELSE "x"
HomeRow(c) == IF c = 1 THEN 7 ELSE 0
Corners == {0, 7} \X {0, 7}

Abs(n) == IF n < 0 THEN -n ELSE n
Sgn(n) == IF n < 0 THEN -1 ELSE IF n = 0 THEN 0 ELSE 1

\* Fault: the piece stays where it was
PutCopies(b, s, t) == [b EXCEPT ![t] = b[s]]

\* chess[x1][y1] = chess[x][y]; chess[x][y] = '_';
Put(b, s, t) == [b EXCEPT ![t] = b[s], ![s] = Empty]

\* make_chess() of interface.h
make_chess ==
  LET officers == <<"m", "t", "h", "w", "t", "m">>
      OFFICERS == <<"M", "T", "H", "W", "T", "M">>
  IN [s \in Squares |->
        CASE s[1] = 1 -> "o"
          [] s[1] = 6 -> "O"
          [] s \in Corners -> IF s[1] = 0 THEN "x" ELSE "X"
          [] s[1] = 0 /\ s \notin Corners -> officers[s[2]]
          [] s[1] = 7 /\ s \notin Corners -> OFFICERS[s[2]]
          [] OTHER -> Empty]

----------------------------------------------------------------------------
(* How the pieces move.  The squares passed over are those of the C loops. *)

Lands(b, c, t) == b[t] \in Own(3 - c) \cup {Empty}

\* the squares strictly between s and t on a row, a column or a diagonal
Between(s, t) ==
  LET dx == t[1] - s[1]
      dy == t[2] - s[2]
      far == IF Abs(dx) > Abs(dy) THEN Abs(dx) ELSE Abs(dy)
  IN {<<s[1] + k * Sgn(dx), s[2] + k * Sgn(dy)>> : k \in 1..(far - 1)}

check_knight(s, t) == {Abs(t[1] - s[1]), Abs(t[2] - s[2])} = {1, 2}

\* Fault: the first long step leaps over what stands in front of the pawn
check_pawnLeaps(b, c, s, t) ==
  LET ahead == IF c = 2 THEN t[1] - s[1] ELSE s[1] - t[1]
      aside == Abs(t[2] - s[2])
  IN \/ aside = 0 /\ b[t] = Empty /\ ahead \in {1, IF s[1] \in {1, 6} THEN 2 ELSE 1}
     \/ aside = 1 /\ b[t] \in Own(3 - c) /\ ahead = 1

check_pawn(b, c, s, t) ==
  LET ahead == IF c = 2 THEN t[1] - s[1] ELSE s[1] - t[1]
      aside == Abs(t[2] - s[2])
  IN \/ /\ ahead = 2 /\ aside = 0
        /\ s[1] = IF c = 2 THEN 1 ELSE 6
        /\ b[t] = Empty /\ \A m \in Between(s, t) : b[m] = Empty
     \/ ahead = 1 /\ aside = 0 /\ b[t] = Empty
     \/ ahead = 1 /\ aside = 1 /\ b[t] \in Own(3 - c)

check_rock(b, c, s, t) ==
  /\ s[1] = t[1] \/ s[2] = t[2]
  /\ \A m \in Between(s, t) : b[m] = Empty
  /\ Lands(b, c, t)

check_king(b, c, s, t) ==
  /\ Abs(t[1] - s[1]) <= 1 /\ Abs(t[2] - s[2]) <= 1
  /\ Lands(b, c, t)

check_bishop(b, c, s, t) ==
  /\ s[1] # t[1] /\ Abs(t[1] - s[1]) = Abs(t[2] - s[2])
  /\ \A m \in Between(s, t) : b[m] = Empty
  /\ Lands(b, c, t)

check_queen(b, c, s, t) ==
  IF s[1] = t[1] \/ s[2] = t[2] THEN check_rock(b, c, s, t)
                                ELSE check_bishop(b, c, s, t)

\* the switch on the piece, shared by check_checkmate and check_chess_run
Reaches(b, c, s, t) ==
  CASE b[s] \in {"m", "M"} -> check_knight(s, t)
    [] b[s] \in {"o", "O"} -> check_pawn(b, c, s, t)
    [] b[s] \in {"x", "X"} -> check_rock(b, c, s, t)
    [] b[s] \in {"t", "T"} -> check_bishop(b, c, s, t)
    [] b[s] \in {"h", "H"} -> check_queen(b, c, s, t)
    [] b[s] \in {"w", "W"} -> check_king(b, c, s, t)
    [] OTHER -> FALSE

\* Is a king of colour c on square k attacked?  A pawn is asked for the move it
\* could make to k, so on an empty k its step ahead counts and its capture does
\* not.
check_checkmate(b, c, k) ==
  \E s \in Squares : b[s] \in Own(3 - c) /\ Reaches(b, 3 - c, s, k)

\* Is the king of the other side attacked where cs says that it stands?
check_checkmate_reverse(b, c, cs) == check_checkmate(b, 3 - c, cs.at[3 - c])

check_endgame(b, c) == \E s \in Squares : b[s] = King(c)

----------------------------------------------------------------------------
(* ChessStatus: where the kings stand, and which kings and rooks have moved *)

Status == [at : [{1, 2} -> Squares], king : [{1, 2} -> BOOLEAN],
           rook : [Corners -> BOOLEAN]]

\* the order of the four nested loops of find_way's scan
Rank(m) == 512 * m[1][1] + 64 * m[1][2] + 8 * m[2][1] + m[2][2]
LastOf(M) == CHOOSE m \in M : \A n \in M : Rank(n) <= Rank(m)

\* Fault: the place of the king is not noted
MarkedInPlace(b, c, cs, M) ==
  [cs EXCEPT !.king[c] = @ \/ \E m \in M : b[m[1]] = King(c),
             !.rook = [k \in Corners |-> @[k] \/ \E m \in M : m[1] = k]]

\* what accepting the moves M of c, in that order, leaves in the ChessStatus: the
\* king's last target as its place, and a mark for the king and for each rook
Marked(b, c, cs, M) ==
  LET K == {m \in M : b[m[1]] = King(c)}
  IN [at   |-> IF K = {} THEN cs.at ELSE [cs.at EXCEPT ![c] = LastOf(K)[2]],
      king |-> [cs.king EXCEPT ![c] = @ \/ K # {}],
      rook |-> [k \in Corners |->
                  \/ cs.rook[k]
                  \/ k[1] = HomeRow(c) /\ b[k] = Rook(c) /\ \E m \in M : m[1] = k]]

\* what castling() returns for a corner
CastlingCode(k) == CASE k = <<0, 0>> -> 21 [] k = <<0, 7>> -> 22
                     [] k = <<7, 7>> -> 23 [] k = <<7, 0>> -> 24
Castled(code) == code > 20

\* A castling that castling() considers: king and rook unmoved, the rook there.
Corner(c, s, t) == <<HomeRow(c), IF t[2] < s[2] THEN 0 ELSE 7>>
Entitled(b, c, s, t, cs) ==
  LET k == Corner(c, s, t) IN ~cs.king[c] /\ b[k] = Rook(c) /\ ~cs.rook[k]

\* castling(): the code of the corner, or 0.  For black the function ends
\* without a return when the rook is there but its way or the king's target is
\* not free: what the caller then reads, 0 or the 1 of the last call, is ub.
castling(b, c, s, t, cs, ub) ==
  LET k      == Corner(c, s, t)
      beside == <<HomeRow(c), IF t[2] < s[2] THEN 3 ELSE 5>>
  IN IF ~Entitled(b, c, s, t, cs) THEN 0
     ELSE IF check_rock(b, c, k, beside) /\ ~check_checkmate(b, c, t)
     THEN CastlingCode(k)
     ELSE IF c = 2 THEN ub ELSE 0

\* Own piece taken up, no own piece captured, both squares on the board.
check_color(b, c, s, t) ==
  s \in Squares /\ t \in Squares /\ b[s] \in Own(c) /\ b[t] \notin Own(c)

TwoAside(s, t) == s[1] = t[1] /\ Abs(t[2] - s[2]) = 2

\* check_chess_run(): the code of the move (0 or less: not a move) and the
\* ChessStatus it leaves.
check_chess_run(b, c, s, t, cs, ub) ==
  LET code == IF ~check_color(b, c, s, t) THEN -1
              ELSE IF b[s] = King(c) /\ TwoAside(s, t) THEN castling(b, c, s, t, cs, ub)
              ELSE IF Reaches(b, c, s, t) THEN 1 ELSE 0
  IN [code |-> code, cs |-> IF code > 0 THEN Marked(b, c, cs, {<<s, t>>}) ELSE cs]

\* The moves worth asking check_chess_run about: every other pair is refused.
Tries(b, c) ==
  {m \in {s \in Squares : b[s] \in Own(c)} \X Squares :
     /\ b[m[2]] \notin Own(c)
     /\ \/ Reaches(b, c, m[1], m[2])
        \/ b[m[1]] = King(c) /\ TwoAside(m[1], m[2])}

\* the values castling() can have left to its caller, where c may try to castle
Leftover(b, c, cs) ==
  IF /\ c = 2
     /\ \E s \in {q \in Squares : b[q] = "w"} : \E t \in Squares :
          TwoAside(s, t) /\ check_color(b, c, s, t) /\ Entitled(b, c, s, t, cs)
  THEN {0, 1} ELSE {0}

\* update_castling(): the rook's move that belongs to a castling king on t
update_castling(t) ==
  [from |-> <<t[1], IF t[2] = 2 THEN 0 ELSE 7>>,
   to   |-> <<t[1], IF t[2] = 2 THEN 3 ELSE 5>>]

----------------------------------------------------------------------------
(* find_way(): the computer's answer to the client who plays color.  A     *)
(* result has the move, the code that goes to check_castling, the status   *)
(* of the run and the ChessStatus written back.                            *)

NoMove == <<>>

\* Fault: a king in check is reported as a game lost
RunStatusLost(b, color, cs) == IF check_checkmate_reverse(b, color, cs) THEN 0 ELSE 1

\* run_type.status when a move was found: 2 if the computer's own king is
\* attacked on the board as it is before that move.
RunStatus(b, color, cs) == IF check_checkmate_reverse(b, color, cs) THEN 2 ELSE 1

\* Fault: while(dd <= 1)
RandomStrict(b, color, cs, ub) ==
  LET c == 3 - color
      tried == {<<m, check_chess_run(b, c, m[1], m[2], cs, ub)>> : m \in Tries(b, c)}
  IN {[move |-> d[1], code |-> d[2].code, cs |-> d[2].cs,
       status |-> RunStatus(b, color, d[2].cs)] : d \in {e \in tried : e[2].code > 1}}

\* Not in check: Random(7) until check_chess_run accepts, so any move it accepts;
\* with none the result is the empty set and the loop has no end.
Random(b, color, cs, ub) ==
  LET c == 3 - color
      tried == {<<m, check_chess_run(b, c, m[1], m[2], cs, ub)>> : m \in Tries(b, c)}
  IN {[move |-> d[1], code |-> d[2].code, cs |-> d[2].cs,
       status |-> RunStatus(b, color, d[2].cs)] : d \in {e \in tried : e[2].code >= 1}}

\* In check: all moves are tried in order.  A castling finds the marks of the
\* moves accepted before it; with one accepted, no later castling is.
Scanned(b, c, cs, ub) ==
  LET plain  == {m \in Tries(b, c) : Reaches(b, c, m[1], m[2])}
      before(m) == Marked(b, c, cs, {n \in plain : Rank(n) < Rank(m)})
      castles == {m \in Tries(b, c) \ plain : castling(b, c, m[1], m[2], before(m), ub) > 0}
  IN plain \cup {m \in castles : \A n \in castles : Rank(m) <= Rank(n)}

\* Every move accepted leaves its mark, and the last after which the square of
\* the king before the scan is not attacked is the answer.
Counter(b, color, cs, ub) ==
  LET c     == 3 - color
      tried == Scanned(b, c, cs, ub)
      found == {m \in tried : ~check_checkmate(Put(b, m[1], m[2]), c, cs.at[c])}
      after == Marked(b, c, cs, tried)
  IN IF found = {} THEN {[move |-> NoMove, code |-> 0, cs |-> after, status |-> 0]}
     ELSE {[move |-> m, code |-> 0, cs |-> after, status |-> RunStatus(b, color, after)] :
             m \in {n \in found : \A o \in found : Rank(o) <= Rank(n)}}

find_way(b, color, cs, warned, ub) ==
  IF warned THEN Counter(b, color, cs, ub) ELSE Random(b, color, cs, ub)
=============================================================================
