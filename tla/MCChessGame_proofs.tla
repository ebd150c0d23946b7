-------------------------- MODULE MCChessGame_proofs --------------------------
(***************************************************************************)
(* The move tests of check_chess_run.h against the rules of chess, on      *)
(* every board and from every square, and find_way's search for a move.    *)
(***************************************************************************)
EXTENDS MCChessGame, ChessGame_proofs

----------------------------------------------------------------------------
(* Lines of squares *)

Directions == Straight \cup Diagonal

\* The eight directions, one by one.
LEMMA EightDirections ==
  ASSUME NEW d \in Directions
  PROVE  /\ d[1] \in {-1, 0, 1} /\ d[2] \in {-1, 0, 1} /\ d = <<d[1], d[2]>>
         /\ d[1] # 0 \/ d[2] # 0
  BY DEF Directions, Straight, Diagonal

\* The squares the C loops pass over are those of the line.
LEMMA BetweenOnLine ==
  ASSUME NEW s \in Squares, NEW d \in Directions, NEW k \in 1..7, NEW t, t = Plus(s, d, k)
  PROVE  Between(s, t) = {Plus(s, d, j) : j \in 1..(k - 1)}
  <1> DEFINE dx == t[1] - s[1]
             dy == t[2] - s[2]
             far == IF Abs(dx) > Abs(dy) THEN Abs(dx) ELSE Abs(dy)
  <1>1. s[1] \in Int /\ s[2] \in Int /\ k \in Int
    BY DEF Squares
  <1>2. t = <<s[1] + k * d[1], s[2] + k * d[2]>>
    BY DEF Plus
  <1>3. /\ d[1] \in {-1, 0, 1} /\ d[2] \in {-1, 0, 1}
        /\ d[1] # 0 \/ d[2] # 0
    BY EightDirections
  <1>4. t[1] = s[1] + k * d[1] /\ t[2] = s[2] + k * d[2]
    BY <1>2
  <1>5. dx = k * d[1] /\ dy = k * d[2]
    BY <1>1, <1>3, <1>4
  <1> HIDE DEF dx, dy
  <1>6. Sgn(dx) = d[1] /\ Abs(dx) = IF d[1] = 0 THEN 0 ELSE k
    BY <1>1, <1>3, <1>5 DEF Sgn, Abs
  <1>7. Sgn(dy) = d[2] /\ Abs(dy) = IF d[2] = 0 THEN 0 ELSE k
    BY <1>1, <1>3, <1>5 DEF Sgn, Abs
  <1>8. far = k
    BY <1>1, <1>3, <1>6, <1>7
  <1>9. Between(s, t) = {<<s[1] + j * Sgn(dx), s[2] + j * Sgn(dy)>> : j \in 1..(far - 1)}
    BY DEF Between, dx, dy
  <1> HIDE DEF far
  <1> QED
    BY <1>6, <1>7, <1>8, <1>9 DEF Plus

\* Two squares on a row, a column or a diagonal are joined by a line.
LEMMA LineBetween ==
  ASSUME NEW s \in Squares, NEW t \in Squares, s # t,
         \/ s[1] = t[1] \/ s[2] = t[2]
         \/ Abs(t[1] - s[1]) = Abs(t[2] - s[2])
  PROVE  \E d \in Directions, k \in 1..7 :
           /\ t = Plus(s, d, k)
           /\ d \in Straight <=> (s[1] = t[1] \/ s[2] = t[2])
  <1> DEFINE dx == t[1] - s[1]
             dy == t[2] - s[2]
             d == <<Sgn(dx), Sgn(dy)>>
             k == IF Abs(dx) > Abs(dy) THEN Abs(dx) ELSE Abs(dy)
  <1>1. /\ s[1] \in 0..7 /\ s[2] \in 0..7 /\ t[1] \in 0..7 /\ t[2] \in 0..7
        /\ s = <<s[1], s[2]>> /\ t = <<t[1], t[2]>>
    BY DEF Squares
  <1>2. dx \in -7..7 /\ dy \in -7..7 /\ (dx # 0 \/ dy # 0)
    BY <1>1
  <1>3. dx = 0 \/ dy = 0 \/ dx = dy \/ dx = -dy
    BY <1>1 DEF Abs
  <1>4. t[1] = s[1] + dx /\ t[2] = s[2] + dy
    BY <1>1
  <1>5. (dx = 0) = (s[1] = t[1]) /\ (dy = 0) = (s[2] = t[2])
    BY <1>1
  <1> HIDE DEF dx, dy
  <1>6. k \in 1..7 /\ k * Sgn(dx) = dx /\ k * Sgn(dy) = dy
    BY <1>2, <1>3 DEF Sgn, Abs
  <1>7. Sgn(dx) \in {-1, 0, 1} /\ Sgn(dy) \in {-1, 0, 1}
        /\ (Sgn(dx) = 0) = (dx = 0) /\ (Sgn(dy) = 0) = (dy = 0)
    BY <1>2 DEF Sgn
  <1> HIDE DEF k
  <1>8. d \in Directions
    BY <1>2, <1>7 DEF Directions, Straight, Diagonal
  <1>9. d \in Straight <=> (dx = 0 \/ dy = 0)
    BY <1>2, <1>7 DEF Straight
  <1>10. t = Plus(s, d, k)
    BY <1>1, <1>4, <1>6 DEF Plus
  <1> HIDE DEF d
  <1> QED
    BY <1>5, <1>6, <1>8, <1>9, <1>10

\* And such squares only.
LEMMA OnLine ==
  ASSUME NEW s \in Squares, NEW d \in Directions, NEW k \in 1..7
  PROVE  /\ Plus(s, d, k) # s
         /\ d \in Straight => Plus(s, d, k)[1] = s[1] \/ Plus(s, d, k)[2] = s[2]
         /\ d \in Diagonal => /\ Plus(s, d, k)[1] # s[1] /\ Plus(s, d, k)[2] # s[2]
                              /\ Abs(Plus(s, d, k)[1] - s[1]) = Abs(Plus(s, d, k)[2] - s[2])
  <1>1. s[1] \in Int /\ s[2] \in Int /\ k \in Int /\ k > 0
    BY DEF Squares
  <1>2. Plus(s, d, k)[1] = s[1] + k * d[1] /\ Plus(s, d, k)[2] = s[2] + k * d[2]
    BY DEF Plus
  <1>3. /\ d[1] \in {-1, 0, 1} /\ d[2] \in {-1, 0, 1}
        /\ d[1] # 0 \/ d[2] # 0
    BY EightDirections
  <1>4. d \in Straight => d[1] = 0 \/ d[2] = 0
    BY DEF Straight
  <1>5. d \in Diagonal => d[1] # 0 /\ d[2] # 0
    BY DEF Diagonal
  <1> QED
    BY <1>1, <1>2, <1>3, <1>4, <1>5 DEF Abs

\* The rays of D, as the tests see them.
LEMMA RayIsFree ==
  ASSUME NEW b, NEW s \in Squares, NEW t \in Squares, NEW D \in SUBSET Directions
  PROVE  t \in UNION {Ray(b, s, d) : d \in D}
           <=> \E d \in D, k \in 1..7 : /\ t = Plus(s, d, k)
                                       /\ \A m \in Between(s, t) : b[m] = Empty
  <1>1. ASSUME NEW d \in D
        PROVE  t \in Ray(b, s, d)
                 <=> \E k \in 1..7 : t = Plus(s, d, k) /\ \A m \in Between(s, t) : b[m] = Empty
    <2>1. t \in Ray(b, s, d)
            <=> \E k \in 1..7 : t = Plus(s, d, k) /\ \A j \in 1..(k - 1) : b[Plus(s, d, j)] = Empty
      BY DEF Ray
    <2>2. ASSUME NEW k \in 1..7, t = Plus(s, d, k)
          PROVE  (\A m \in Between(s, t) : b[m] = Empty)
                   <=> \A j \in 1..(k - 1) : b[Plus(s, d, j)] = Empty
      <3>1. Between(s, t) = {Plus(s, d, j) : j \in 1..(k - 1)}
        BY <2>2, BetweenOnLine
      <3> QED
        BY <3>1
    <2> QED
      BY <2>1, <2>2
  <1> QED
    BY <1>1

----------------------------------------------------------------------------
(* The pieces, one by one *)

\* A board, a piece of c's on s, and a square t that holds none of them.
LEMMA LandsFreely ==
  ASSUME NEW b \in Boards, NEW c \in Colors, NEW t \in Squares, b[t] \notin Own(c)
  PROVE  Lands(b, c, t)
  BY DEF Boards, Pieces, Colors, Own, Lands

LEMMA RookRules ==
  ASSUME NEW b \in Boards, NEW c \in Colors, NEW s \in Squares, NEW t \in Squares,
         s # t, b[t] \notin Own(c)
  PROVE  check_rock(b, c, s, t) <=> t \in UNION {Ray(b, s, d) : d \in Straight}
  <1>0. Straight \in SUBSET Directions /\ Lands(b, c, t)
    BY LandsFreely DEF Directions
  <1>1. t \in UNION {Ray(b, s, d) : d \in Straight}
          <=> \E d \in Straight, k \in 1..7 : t = Plus(s, d, k) /\ \A m \in Between(s, t) : b[m] = Empty
    BY <1>0, RayIsFree
  <1>2. (\E d \in Straight, k \in 1..7 : t = Plus(s, d, k)) <=> s[1] = t[1] \/ s[2] = t[2]
    <2>1. ASSUME NEW d \in Straight, NEW k \in 1..7, t = Plus(s, d, k)
          PROVE  s[1] = t[1] \/ s[2] = t[2]
      BY <1>0, <2>1, OnLine
    <2>2. ASSUME s[1] = t[1] \/ s[2] = t[2]
          PROVE  \E d \in Straight, k \in 1..7 : t = Plus(s, d, k)
      BY <2>2, LineBetween
    <2> QED
      BY <2>1, <2>2
  <1> QED
    BY <1>0, <1>1, <1>2 DEF check_rock

LEMMA BishopRules ==
  ASSUME NEW b \in Boards, NEW c \in Colors, NEW s \in Squares, NEW t \in Squares,
         s # t, b[t] \notin Own(c)
  PROVE  check_bishop(b, c, s, t) <=> t \in UNION {Ray(b, s, d) : d \in Diagonal}
  <1> DEFINE aslant == s[1] # t[1] /\ Abs(t[1] - s[1]) = Abs(t[2] - s[2])
  <1>0. Diagonal \in SUBSET Directions /\ Lands(b, c, t)
    BY LandsFreely DEF Directions
  <1>1. t \in UNION {Ray(b, s, d) : d \in Diagonal}
          <=> \E d \in Diagonal, k \in 1..7 : t = Plus(s, d, k) /\ \A m \in Between(s, t) : b[m] = Empty
    BY <1>0, RayIsFree
  <1>2. (\E d \in Diagonal, k \in 1..7 : t = Plus(s, d, k)) <=> aslant
    <2>1. ASSUME NEW d \in Diagonal, NEW k \in 1..7, t = Plus(s, d, k)
          PROVE  aslant
      BY <1>0, <2>1, OnLine
    <2>2. ASSUME aslant
          PROVE  \E d \in Diagonal, k \in 1..7 : t = Plus(s, d, k)
      <3>1. s[1] # t[1] /\ s[2] # t[2]
        BY <2>2 DEF Squares, Abs
      <3>2. PICK d \in Directions, k \in 1..7 : t = Plus(s, d, k) /\ d \notin Straight
        BY <2>2, <3>1, LineBetween
      <3> QED
        BY <3>2 DEF Directions
    <2> QED
      BY <2>1, <2>2
  <1> QED
    BY <1>0, <1>1, <1>2 DEF check_bishop

LEMMA QueenRules ==
  ASSUME NEW b \in Boards, NEW c \in Colors, NEW s \in Squares, NEW t \in Squares,
         s # t, b[t] \notin Own(c)
  PROVE  check_queen(b, c, s, t) <=> t \in UNION {Ray(b, s, d) : d \in Straight \cup Diagonal}
  <1>1. t \in UNION {Ray(b, s, d) : d \in Straight \cup Diagonal}
          <=> \/ t \in UNION {Ray(b, s, d) : d \in Straight}
              \/ t \in UNION {Ray(b, s, d) : d \in Diagonal}
    OBVIOUS
  <1>2. check_rock(b, c, s, t) => s[1] = t[1] \/ s[2] = t[2]
    BY DEF check_rock
  <1>3. check_bishop(b, c, s, t) => ~(s[1] = t[1] \/ s[2] = t[2])
    BY DEF check_bishop, Squares, Abs
  <1> QED
    BY <1>1, <1>2, <1>3, RookRules, BishopRules DEF check_queen

LEMMA KingRules ==
  ASSUME NEW b \in Boards, NEW c \in Colors, NEW s \in Squares, NEW t \in Squares,
         s # t, b[t] \notin Own(c)
  PROVE  check_king(b, c, s, t) <=> t \in Steps(s, Straight \cup Diagonal)
  <1>1. /\ s[1] \in 0..7 /\ s[2] \in 0..7 /\ t[1] \in 0..7 /\ t[2] \in 0..7
        /\ s = <<s[1], s[2]>> /\ t = <<t[1], t[2]>>
    BY DEF Squares
  <1>2. Lands(b, c, t)
    BY LandsFreely
  <1>3. t \in Steps(s, Straight \cup Diagonal) <=> \E d \in Straight \cup Diagonal : t = Plus(s, d, 1)
    BY DEF Steps
  <1>4. ASSUME NEW d \in Straight \cup Diagonal, t = Plus(s, d, 1)
        PROVE  Abs(t[1] - s[1]) <= 1 /\ Abs(t[2] - s[2]) <= 1
    <2>1. d[1] \in {-1, 0, 1} /\ d[2] \in {-1, 0, 1}
      BY EightDirections DEF Directions
    <2>2. t[1] = s[1] + 1 * d[1] /\ t[2] = s[2] + 1 * d[2]
      BY <1>4 DEF Plus
    <2> QED
      BY <1>1, <2>1, <2>2 DEF Abs
  <1>5. ASSUME Abs(t[1] - s[1]) <= 1, Abs(t[2] - s[2]) <= 1
        PROVE  \E d \in Straight \cup Diagonal : t = Plus(s, d, 1)
    <2> DEFINE d == <<t[1] - s[1], t[2] - s[2]>>
    <2>1. t[1] - s[1] \in {-1, 0, 1} /\ t[2] - s[2] \in {-1, 0, 1}
      BY <1>1, <1>5 DEF Abs
    <2>2. t[1] - s[1] # 0 \/ t[2] - s[2] # 0
      BY <1>1
    <2>3. d \in Straight \cup Diagonal
      BY <2>1, <2>2 DEF Straight, Diagonal
    <2>4. t = Plus(s, d, 1)
      BY <1>1 DEF Plus
    <2> QED
      BY <2>3, <2>4
  <1> QED
    BY <1>2, <1>3, <1>4, <1>5 DEF check_king

LEMMA KnightRules ==
  ASSUME NEW s \in Squares, NEW t \in Squares
  PROVE  check_knight(s, t) <=> t \in Steps(s, Leaps)
  <1> DEFINE d == <<t[1] - s[1], t[2] - s[2]>>
  <1>1. /\ s[1] \in 0..7 /\ s[2] \in 0..7 /\ t[1] \in 0..7 /\ t[2] \in 0..7
        /\ s = <<s[1], s[2]>> /\ t = <<t[1], t[2]>>
    BY DEF Squares
  <1>2. check_knight(s, t) <=>
          \/ Abs(t[1] - s[1]) = 1 /\ Abs(t[2] - s[2]) = 2
          \/ Abs(t[1] - s[1]) = 2 /\ Abs(t[2] - s[2]) = 1
    BY DEF check_knight
  <1>3. t \in Steps(s, Leaps) <=> \E e \in Leaps : t = Plus(s, e, 1)
    BY DEF Steps
  <1>4. ASSUME NEW e \in Leaps, t = Plus(s, e, 1) PROVE check_knight(s, t)
    <2>1. e[1] \in -2..2 /\ e[2] \in -2..2 /\ Abs(e[1]) + Abs(e[2]) = 3
      BY DEF Leaps
    <2>2. t[1] = s[1] + 1 * e[1] /\ t[2] = s[2] + 1 * e[2]
      BY <1>4 DEF Plus
    <2>3. t[1] - s[1] = e[1] /\ t[2] - s[2] = e[2]
      BY <1>1, <2>1, <2>2
    <2> QED
      BY <1>2, <2>1, <2>3 DEF Abs
  <1>5. ASSUME check_knight(s, t) PROVE \E e \in Leaps : t = Plus(s, e, 1)
    <2>1. t[1] - s[1] \in -2..2 /\ t[2] - s[2] \in -2..2
      BY <1>1, <1>2, <1>5 DEF Abs
    <2>2. Abs(t[1] - s[1]) + Abs(t[2] - s[2]) = 3
      BY <1>2, <1>5
    <2>3. d \in Leaps
      BY <2>1, <2>2 DEF Leaps
    <2>4. t = Plus(s, d, 1)
      BY <1>1 DEF Plus
    <2> QED
      BY <2>3, <2>4
  <1> QED
    BY <1>3, <1>4, <1>5

\* The square a pawn's long step passes over.
LEMMA PassedOver ==
  ASSUME NEW s \in Squares, NEW t \in Squares, NEW f \in {-1, 1}, t[1] = s[1] + 2 * f, t[2] = s[2]
  PROVE  Between(s, t) = {<<s[1] + f, s[2]>>}
  <1> DEFINE d == <<f, 0>>
  <1>1. d \in Directions /\ d[1] = f /\ d[2] = 0
    BY DEF Directions, Straight
  <1>2. s[1] \in Int /\ s[2] \in Int /\ t = <<t[1], t[2]>>
    BY DEF Squares
  <1> HIDE DEF d
  <1>3. t = Plus(s, d, 2) /\ Plus(s, d, 1) = <<s[1] + f, s[2]>>
    BY <1>1, <1>2 DEF Plus
  <1>4. Between(s, t) = {Plus(s, d, j) : j \in 1..(2 - 1)}
    BY <1>1, <1>3, BetweenOnLine
  <1>5. 1..(2 - 1) = {1}
    OBVIOUS
  <1> QED
    BY <1>3, <1>4, <1>5

LEMMA PawnRules ==
  ASSUME NEW b \in Boards, NEW c \in Colors, NEW s \in Squares, NEW t \in Squares
  PROVE  check_pawn(b, c, s, t) <=> t \in PawnGoes(b, c, s)
  <1> DEFINE f == IF c = 1 THEN -1 ELSE 1
             ahead == IF c = 2 THEN t[1] - s[1] ELSE s[1] - t[1]
             aside == Abs(t[2] - s[2])
             front == <<s[1] + f, s[2]>>
             push == {u \in Steps(s, {<<f, 0>>}) : b[u] = Empty}
             two == IF s[1] = HomeRow(c) + f THEN {<<s[1] + 2 * f, s[2]>>} ELSE {}
  <1>1. /\ s[1] \in 0..7 /\ s[2] \in 0..7 /\ t[1] \in 0..7 /\ t[2] \in 0..7
        /\ s = <<s[1], s[2]>> /\ t = <<t[1], t[2]>>
    BY DEF Squares
  <1>2. f \in {-1, 1} /\ \A n \in 1..2 : ahead = n <=> t[1] = s[1] + n * f
    BY <1>1 DEF Colors
  <1>3. s[1] = HomeRow(c) + f <=> s[1] = IF c = 2 THEN 1 ELSE 6
    BY DEF HomeRow, Colors
  <1>4. aside = 0 <=> t[2] = s[2]
    BY <1>1 DEF Abs
  <1>5. aside = 1 <=> t[2] = s[2] + 1 \/ t[2] = s[2] - 1
    BY <1>1 DEF Abs
  <1> HIDE DEF f, ahead, aside
  <1>6. t \in push <=> ahead = 1 /\ aside = 0 /\ b[t] = Empty
    <2>1. Plus(s, <<f, 0>>, 1) = <<s[1] + f, s[2]>>
      BY <1>1, <1>2 DEF Plus
    <2>2. Steps(s, {<<f, 0>>}) = {<<s[1] + f, s[2]>>} \cap Squares
      BY <2>1 DEF Steps
    <2> QED
      BY <1>1, <1>2, <1>4, <2>2
  <1>7. t \in Steps(s, {<<f, 1>>, <<f, -1>>}) <=> ahead = 1 /\ aside = 1
    <2>1. Plus(s, <<f, 1>>, 1) = <<s[1] + f, s[2] + 1>> /\ Plus(s, <<f, -1>>, 1) = <<s[1] + f, s[2] - 1>>
      BY <1>1, <1>2 DEF Plus
    <2>2. Steps(s, {<<f, 1>>, <<f, -1>>})
            = {<<s[1] + f, s[2] + 1>>, <<s[1] + f, s[2] - 1>>} \cap Squares
      BY <2>1 DEF Steps
    <2> QED
      BY <1>1, <1>2, <1>5, <2>2
  <1>8. t \in two /\ push # {} <=>
          /\ ahead = 2 /\ aside = 0 /\ s[1] = IF c = 2 THEN 1 ELSE 6
          /\ \A m \in Between(s, t) : b[m] = Empty
    <2>1. t \in two <=> ahead = 2 /\ aside = 0 /\ s[1] = IF c = 2 THEN 1 ELSE 6
      BY <1>1, <1>2, <1>3, <1>4
    <2>2. ASSUME ahead = 2, aside = 0
          PROVE  push # {} <=> \A m \in Between(s, t) : b[m] = Empty
      <3>1. t[1] = s[1] + 2 * f /\ t[2] = s[2]
        BY <1>2, <1>4, <2>2
      <3>2. Between(s, t) = {front}
        BY <1>2, <3>1, PassedOver
      <3>3. front \in Squares
        BY <1>1, <1>2, <3>1 DEF Squares
      <3>4. Plus(s, <<f, 0>>, 1) = front
        BY <1>1, <1>2 DEF Plus
      <3>5. Steps(s, {<<f, 0>>}) = {front}
        BY <3>3, <3>4 DEF Steps
      <3> QED
        BY <3>2, <3>5
    <2> HIDE DEF push, two
    <2> QED
      BY <2>1, <2>2
  <1>9. PawnGoes(b, c, s) = push \cup {u \in two : push # {} /\ b[u] = Empty}
          \cup {u \in Steps(s, {<<f, 1>>, <<f, -1>>}) : b[u] \in Own(3 - c)}
    BY DEF PawnGoes, f
  <1>10. check_pawn(b, c, s, t) <=>
           \/ /\ ahead = 2 /\ aside = 0 /\ s[1] = IF c = 2 THEN 1 ELSE 6
              /\ b[t] = Empty /\ \A m \in Between(s, t) : b[m] = Empty
           \/ ahead = 1 /\ aside = 0 /\ b[t] = Empty
           \/ ahead = 1 /\ aside = 1 /\ b[t] \in Own(3 - c)
    BY DEF check_pawn, ahead, aside
  <1> HIDE DEF push, two
  <1> QED
    BY <1>6, <1>7, <1>8, <1>9, <1>10

\* The pieces go to squares of the board.
LEMMA GoesOnBoard ==
  ASSUME NEW b \in Boards, NEW c \in Colors, NEW s \in Squares, b[s] \in Own(c)
  PROVE  Goes(b, c, s) \subseteq Squares
  <1>1. \A D : Steps(s, D) \subseteq Squares
    BY DEF Steps
  <1>2. \A d : Ray(b, s, d) \subseteq Squares
    BY DEF Ray
  <1>3. PawnGoes(b, c, s) \subseteq Squares
    <2> DEFINE f == IF c = 1 THEN -1 ELSE 1
    <2>1. s[1] = HomeRow(c) + f => <<s[1] + 2 * f, s[2]>> \in Squares
      BY DEF HomeRow, Squares, Colors
    <2> QED
      BY <1>1, <2>1 DEF PawnGoes
  <1>4. CASE b[s] \in {"o", "O"}
    BY <1>3, <1>4 DEF Goes
  <1>5. CASE b[s] \in {"m", "M", "w", "W"}
    BY <1>1, <1>5 DEF Goes
  <1>6. CASE b[s] \in {"x", "X"}
    <2>1. Goes(b, c, s) = UNION {Ray(b, s, d) : d \in Straight}
      BY <1>6 DEF Goes
    <2> QED
      BY <1>2, <2>1
  <1>7. CASE b[s] \in {"t", "T"}
    <2>1. Goes(b, c, s) = UNION {Ray(b, s, d) : d \in Diagonal}
      BY <1>7 DEF Goes
    <2> QED
      BY <1>2, <2>1
  <1>8. CASE b[s] \in {"h", "H"}
    <2>1. Goes(b, c, s) = UNION {Ray(b, s, d) : d \in Straight \cup Diagonal}
      BY <1>8 DEF Goes
    <2> QED
      BY <1>2, <2>1
  <1> QED
    BY <1>4, <1>5, <1>6, <1>7, <1>8 DEF Own, White, Black

\* The switch of check_chess_run sends every piece where the rules of chess let it go.
LEMMA ReachesByTheRules ==
  ASSUME NEW b \in Boards, NEW c \in Colors, NEW s \in Squares, NEW t \in Squares,
         b[s] \in Own(c), b[t] \notin Own(c)
  PROVE  Reaches(b, c, s, t) <=> t \in Goes(b, c, s)
  <1>0. s # t
    OBVIOUS
  <1>1. CASE b[s] \in {"o", "O"}
    <2>1. Reaches(b, c, s, t) = check_pawn(b, c, s, t) /\ Goes(b, c, s) = PawnGoes(b, c, s)
      BY <1>1 DEF Reaches, Goes
    <2> QED
      BY <2>1, PawnRules
  <1>2. CASE b[s] \in {"m", "M"}
    <2>1. Reaches(b, c, s, t) = check_knight(s, t) /\ Goes(b, c, s) = Steps(s, Leaps)
      BY <1>2 DEF Reaches, Goes
    <2> QED
      BY <2>1, KnightRules
  <1>3. CASE b[s] \in {"w", "W"}
    <2>1. Reaches(b, c, s, t) = check_king(b, c, s, t) /\ Goes(b, c, s) = Steps(s, Straight \cup Diagonal)
      BY <1>3 DEF Reaches, Goes
    <2> QED
      BY <1>0, <2>1, KingRules
  <1>4. CASE b[s] \in {"x", "X"}
    <2>1. Reaches(b, c, s, t) = check_rock(b, c, s, t) /\ Goes(b, c, s) = UNION {Ray(b, s, d) : d \in Straight}
      BY <1>4 DEF Reaches, Goes
    <2> QED
      BY <1>0, <2>1, RookRules
  <1>5. CASE b[s] \in {"t", "T"}
    <2>1. Reaches(b, c, s, t) = check_bishop(b, c, s, t) /\ Goes(b, c, s) = UNION {Ray(b, s, d) : d \in Diagonal}
      BY <1>5 DEF Reaches, Goes
    <2> QED
      BY <1>0, <2>1, BishopRules
  <1>6. CASE b[s] \in {"h", "H"}
    <2>1. Reaches(b, c, s, t) = check_queen(b, c, s, t)
          /\ Goes(b, c, s) = UNION {Ray(b, s, d) : d \in Straight \cup Diagonal}
      BY <1>6 DEF Reaches, Goes
    <2> QED
      BY <1>0, <2>1, QueenRules
  <1> QED
    BY <1>1, <1>2, <1>3, <1>4, <1>5, <1>6 DEF Own, White, Black

\* A king does not go two squares aside.
LEMMA KingsStep ==
  ASSUME NEW b \in Boards, NEW c \in Colors, NEW s \in Squares, NEW t \in Squares,
         b[s] = King(c), b[t] \notin Own(c), t \in Goes(b, c, s)
  PROVE  ~TwoAside(s, t)
  <1>1. b[s] \in Own(c) /\ b[s] \in {"w", "W"}
    BY DEF King, Own, White, Black, Colors
  <1>2. Goes(b, c, s) = Steps(s, Straight \cup Diagonal)
    BY <1>1 DEF Goes
  <1>3. check_king(b, c, s, t)
    BY <1>1, <1>2, KingRules
  <1>4. Abs(t[2] - s[2]) <= 1 /\ Abs(t[2] - s[2]) \in Int
    BY <1>3 DEF check_king, Abs, Squares
  <1> QED
    BY <1>4 DEF TwoAside

\* What check_chess_run accepts, castling apart, is what the rules of chess allow.
LEMMA AcceptsByTheRules ==
  ASSUME NEW b \in Boards, NEW c \in Colors, NEW s \in Squares, b[s] \in Own(c), NEW cs,
         NEW ub \in {0, 1}
  PROVE  {t \in Squares : /\ ~(b[s] = King(c) /\ TwoAside(s, t))
                          /\ check_chess_run(b, c, s, t, cs, ub).code > 0}
         = {t \in Goes(b, c, s) : b[t] \notin Own(c)}
  <1>1. ASSUME NEW t \in Squares, b[t] \notin Own(c), ~(b[s] = King(c) /\ TwoAside(s, t))
        PROVE  check_chess_run(b, c, s, t, cs, ub).code > 0 <=> Reaches(b, c, s, t)
    BY <1>1 DEF check_chess_run, check_color
  <1>2. ASSUME NEW t \in Squares, check_chess_run(b, c, s, t, cs, ub).code > 0
        PROVE  b[t] \notin Own(c)
    BY <1>2 DEF check_chess_run, check_color
  <1>3. ASSUME NEW t \in Squares, ~(b[s] = King(c) /\ TwoAside(s, t)),
               check_chess_run(b, c, s, t, cs, ub).code > 0
        PROVE  t \in Goes(b, c, s) /\ b[t] \notin Own(c)
    <2>1. b[t] \notin Own(c)
      BY <1>2, <1>3
    <2> QED
      BY <1>1, <1>3, <2>1, ReachesByTheRules
  <1>4. ASSUME NEW t \in Goes(b, c, s), b[t] \notin Own(c)
        PROVE  /\ t \in Squares /\ ~(b[s] = King(c) /\ TwoAside(s, t))
               /\ check_chess_run(b, c, s, t, cs, ub).code > 0
    <2>1. t \in Squares
      BY <1>4, GoesOnBoard
    <2>2. ~(b[s] = King(c) /\ TwoAside(s, t))
      BY <1>4, <2>1, KingsStep
    <2>3. Reaches(b, c, s, t)
      BY <1>4, <2>1, ReachesByTheRules
    <2> QED
      BY <1>1, <1>4, <2>1, <2>2, <2>3
  <1> QED
    BY <1>3, <1>4

\* In every position of every game check_chess_run accepts for either side exactly the
\* moves the rules of chess give its pieces, castling apart.
THEOREM MovesAreByTheRules == Spec => []RulesOfChess
  <1>1. GameInv => RulesOfChess
    <2> SUFFICES ASSUME GameInv, NEW c \in Colors, NEW s \in Squares, board[s] \in Own(c)
                 PROVE  {t \in Squares : /\ ~(board[s] = King(c) /\ TwoAside(s, t))
                                         /\ check_chess_run(board, c, s, t, status, 0).code > 0}
                        = {t \in Goes(board, c, s) : board[t] \notin Own(c)}
      BY DEF RulesOfChess, Colors
    <2>1. board \in Boards
      BY DEF GameInv, Sound
    <2> QED
      BY <2>1, AcceptsByTheRules
  <1> QED
    BY <1>1, GameInvInit, GameInvNext, PTL DEF Spec

----------------------------------------------------------------------------
(* The loop of find_way without an end *)

\* A scan always ends, with an answer or without.
LEMMA ScansEnd ==
  ASSUME NEW b, NEW side \in Colors, NEW cs, NEW ub PROVE Counter(b, side, cs, ub) # {}
  <1> DEFINE c == 3 - side
             tried == Scanned(b, c, cs, ub)
             found == {m \in tried : ~check_checkmate(Put(b, m[1], m[2]), c, cs.at[c])}
             after == Marked(b, c, cs, tried)
             last == {n \in found : \A o \in found : Rank(o) <= Rank(n)}
  <1>1. Counter(b, side, cs, ub)
          = IF found = {} THEN {[move |-> NoMove, code |-> 0, cs |-> after, status |-> 0]}
            ELSE {[move |-> m, code |-> 0, cs |-> after, status |-> RunStatus(b, side, after)] :
                    m \in last}
    BY DEF Counter
  <1>2. found \in SUBSET (Squares \X Squares)
    BY ScannedSquares, TriesSquares
  <1> HIDE DEF found, after
  <1>3. found # {} => last # {}
    BY <1>2, LastOfAll
  <1> HIDE DEF last
  <1> QED
    BY <1>1, <1>3

\* A draw of squares that never ends has no move to find.
LEMMA DrawsMissNothing ==
  ASSUME NEW b \in Boards, NEW side \in Colors, NEW cs, NEW ub \in {0, 1},
         Random(b, side, cs, ub) = {}, NEW s \in Squares, b[s] \in Own(3 - side)
  PROVE  {t \in Goes(b, 3 - side, s) : b[t] \notin Own(3 - side)} = {}
  <1> DEFINE c == 3 - side
  <1>0. c \in Colors
    BY DEF Colors
  <1> SUFFICES ASSUME NEW t \in Goes(b, c, s), b[t] \notin Own(c) PROVE FALSE
    OBVIOUS
  <1>1. t \in {u \in Squares : /\ ~(b[s] = King(c) /\ TwoAside(s, u))
                               /\ check_chess_run(b, c, s, u, cs, ub).code > 0}
    BY <1>0, AcceptsByTheRules
  <1>2. Reaches(b, c, s, t)
    BY <1>0, <1>1, ReachesByTheRules
  <1> DEFINE m == <<s, t>>
             r == check_chess_run(b, c, m[1], m[2], cs, ub)
  <1>3. m \in Tries(b, c)
    BY <1>1, <1>2 DEF Tries
  <1>4. r.code >= 1
    <2>1. r.code > 0
      BY <1>1
    <2>2. r.code \in Int
      BY <1>0, CodeIsANumber
    <2> HIDE DEF r
    <2> QED
      BY <2>1, <2>2
  <1>5. [move |-> m, code |-> r.code, cs |-> r.cs, status |-> RunStatus(b, side, r.cs)]
          \in Random(b, side, cs, ub)
    <2> DEFINE tried == {<<n, check_chess_run(b, c, n[1], n[2], cs, ub)>> : n \in Tries(b, c)}
               e == <<m, r>>
    <2>1. e \in tried
      BY <1>3
    <2>2. e[1] = m /\ e[2] = r
      OBVIOUS
    <2>3. Random(b, side, cs, ub)
            = {[move |-> d[1], code |-> d[2].code, cs |-> d[2].cs,
                status |-> RunStatus(b, side, d[2].cs)] : d \in {g \in tried : g[2].code >= 1}}
      BY DEF Random
    <2> HIDE DEF tried, e, m, r
    <2> QED
      BY <1>4, <2>1, <2>2, <2>3
  <1> QED
    BY <1>5

\* find_way looks for a move for ever only where the rules of chess leave none.
THEOREM StuckWithoutMove == Spec => []StuckOnlyWithoutMove
  <1> DEFINE Stuck == GameInv /\ StuckOnlyWithoutMove
  <1>1. Init => Stuck
    BY GameInvInit DEF Init, StuckOnlyWithoutMove, Idle, Spinning
  <1>2. Stuck /\ [Next]_vars => Stuck'
    <2> SUFFICES ASSUME GameInv, StuckOnlyWithoutMove, [Next]_vars, wire' = Spinning
                 PROVE  StuckOnlyWithoutMove'
      BY GameInvNext DEF StuckOnlyWithoutMove
    <2>1. CASE UNCHANGED vars
      BY <2>1 DEF vars, StuckOnlyWithoutMove
    <2>2. CASE Check_Run
      <3>0. color \in Colors /\ color' = color /\ board' \in Boards
        BY <2>2, GameInvNext DEF GameInv, Shapes, Sound, Check_Run
      <3> DEFINE m == wire.arg
      <3>1. PICK ub \in Leftover(board, color, status) :
              LET r == check_chess_run(board, color, m[1], m[2], status, ub)
                  a == Accepted(r, m)
                  warned == check_checkmate_reverse(a.b, color, a.cs)
              IN /\ r.code > 0
                 /\ \E left \in Leftover(a.b, 3 - color, a.cs) :
                      LET runs == find_way(a.b, color, a.cs, warned, left)
                      IN \/ runs = {} /\ Spin(a)
                         \/ \E run \in {w \in runs : warned \/ Follows(2, w.move)} :
                              Answer(m, r, a, warned, run)
        BY <2>2 DEF Check_Run
      <3> DEFINE r == check_chess_run(board, color, m[1], m[2], status, ub)
                 a == Accepted(r, m)
                 warned == check_checkmate_reverse(a.b, color, a.cs)
      <3>2. \A run : ~Answer(m, r, a, warned, run)
        BY DEF Answer, Reply, Spinning
      <3>3. PICK left \in {0, 1} : find_way(a.b, color, a.cs, warned, left) = {} /\ Spin(a)
        BY <3>1, <3>2, LeftoverIsABit
      <3> HIDE DEF r, a, warned, m
      <3>4. board' = a.b
        BY <3>3 DEF Spin
      <3>5. Random(a.b, color, a.cs, left) = {}
        BY <3>0, <3>3, ScansEnd DEF find_way
      <3> QED
        BY <3>0, <3>4, <3>5, DrawsMissNothing DEF StuckOnlyWithoutMove
    <2>3. CASE Next /\ ~Check_Run
      BY <2>3 DEF Next, Client, Server, User, game_ready, server_run, Next_Move, Result, START_GAME,
         Check_Color, Check_Run_Error, End_Game, Ask_Start, select_run, select_warning, Request,
         Reply, Idle, Spinning
    <2> QED
      BY <2>1, <2>2, <2>3
  <1>3. Stuck => StuckOnlyWithoutMove
    OBVIOUS
  <1> QED
    BY <1>1, <1>2, <1>3, PTL DEF Spec
=============================================================================
