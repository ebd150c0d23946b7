------------------------ MODULE StrategyGame_proofs ------------------------
(***************************************************************************)
(* Proofs about StrategyGame, for any number of teams, players, castles,   *)
(* fields and overlapping ticks and for any prices, delays and questions.  *)
(***************************************************************************)
EXTENDS StrategyGame, TLAPS

LEMMA TypeInit == Init => TypeOK
  <1>1. [t \in {} |-> 0] \in Counters
    BY DEF Counters
  <1> QED
    BY <1>1, BoardAssumption, AmountAssumption
    DEF Init, TypeOK, NoJob, NoTick, Jobs, Ticks, JobSteps, TickSteps

\* The places a tick goes to are places a tick can be in.
LEMMA AtCastleType == ASSUME NEW c \in Nat PROVE AtCastle(c) \in Ticks
  BY DEF AtCastle, NoTick, Ticks, TickSteps

LEMMA AfterMineType ==
  ASSUME NEW f \in Fields, NEW r \in {"wood", "stone"}
  PROVE  AfterMine(f, r) \in Ticks
  <1>1. AtMine(f, "stone") \in Ticks /\ AtMine(f + 1, "wood") \in Ticks
    BY DEF AtMine, NoTick, Ticks, TickSteps, Fields
  <1> QED
    BY <1>1, AtCastleType, BoardAssumption DEF AfterMine, Fields

\* What the steps of a tick do to its record keeps the record's type.
LEMMA TickEdits ==
  ASSUME NEW v \in Ticks
  PROVE  /\ \A pc \in TickSteps : [v EXCEPT !.pc = pc] \in Ticks
         /\ \A due \in SUBSET (Teams \cup {None}) :
              /\ [v EXCEPT !.due = due] \in Ticks
              /\ \A pc \in TickSteps :
                   [v EXCEPT !.pc = pc, !.due = due] \in Ticks
         /\ \A pc \in TickSteps, n \in Nat :
              [v EXCEPT !.pc = pc, !.saved = n] \in Ticks
  BY DEF Ticks

\* Counting down and starting again keeps a counter in its range.
LEMMA CountDown ==
  ASSUME NEW S, NEW s \in [S -> 0..MINE_DELAY]
  PROVE  [t \in DOMAIN s |->
            IF t \in {u \in DOMAIN s : s[u] = 0} THEN MINE_DELAY
                                                ELSE s[t] - 1]
           \in [S -> 0..MINE_DELAY]
  BY AmountAssumption

LEMMA CountersOf ==
  ASSUME NEW s \in Counters
  PROVE  \E S \in SUBSET Teams : s \in [S -> 0..MINE_DELAY]
  BY DEF Counters

LEMMA TypeNext ==
  ASSUME TypeOK, JobShape, TickShape, PayeeExists, [Next]_vars
  PROVE  TypeOK'
  <1> USE PeopleAssumption, ItemAssumption, AmountAssumption
  <1> USE DEF TypeOK, castleVars, teamVars, vars
  <1>1. ASSUME NEW p \in Players, NEW c \in Castles, AttackEmpty(p, c)
        PROVE  TypeOK'
    BY <1>1 DEF AttackEmpty, CanAttack, set_block, ShowQuestion
  <1>2. ASSUME NEW p \in Players, NEW c \in Castles, AttackOwned(p, c)
        PROVE  TypeOK'
    BY <1>2 DEF AttackOwned, CanAttack, set_block, Begin, Jobs, JobSteps
  <1>3. ASSUME NEW p \in Players, NEW c \in Castles, CloseDialog(p, c)
        PROVE  TypeOK'
    BY <1>3 DEF CloseDialog
  <1>4. ASSUME NEW p \in Players, NEW c \in Castles, NEW a \in Answers,
               AnswerRight(p, c, a)
        PROVE  TypeOK'
    <2>1. owner_id' \in [Castles -> Teams \cup {None}]
      <3>1. TeamOf[p] \in Teams
        OBVIOUS
      <3>2. \/ owner_id' = owner_id
            \/ owner_id' = [owner_id EXCEPT ![c] = TeamOf[p]]
        BY <1>4 DEF AnswerRight, change_owner
      <3> QED
        BY <3>1, <3>2
    <2>2. gold_delay' \in [Castles -> 0..GOLD_DELAY]
      BY <1>4 DEF AnswerRight, change_owner
    <2>3. question_id' \in [Castles -> Nat]
      BY <1>4 DEF AnswerRight, change_question
    <2>4. dialogs' \in [Players -> [Castles -> Nat]]
      BY <1>4 DEF AnswerRight, AnswerCastle
    <2> QED
      BY <1>4, <2>1, <2>2, <2>3, <2>4 DEF AnswerRight
  <1>5. ASSUME NEW p \in Players, NEW c \in Castles, NEW a \in Answers,
               AnswerWrong(p, c, a)
        PROVE  TypeOK'
    BY <1>5 DEF AnswerWrong, AnswerCastle, remove_block
  <1>6. ASSUME NEW p \in Players, NEW c \in Castles, NEW i \in DefenceItems,
               BuyDefence(p, c, i)
        PROVE  TypeOK'
    BY <1>6 DEF BuyDefence, Begin, Jobs, JobSteps, Items
  <1>7. ASSUME NEW p \in Players, NEW f \in Fields, NEW r \in MineKinds,
               NEW a \in Answers, AnswerMine(p, f, r, a)
        PROVE  TypeOK'
    <2> DEFINE t == TeamOf[p]
               S == DOMAIN solvers[f][r] \cup {t}
               new == [u \in S |-> IF u = t THEN MINE_DELAY
                                           ELSE solvers[f][r][u]]
    <2>1. solvers[f][r] \in Counters
      OBVIOUS
    <2>2. PICK T \in SUBSET Teams : solvers[f][r] \in [T -> 0..MINE_DELAY]
      BY <2>1, CountersOf, Zenon
    <2>3. S \in SUBSET Teams /\ new \in [S -> 0..MINE_DELAY]
      BY <2>2
    <2>4. new \in Counters
      BY <2>3 DEF Counters
    <2>5. solvers' = [solvers EXCEPT ![f][r] = new]
      BY <1>7 DEF AnswerMine
    <2>6. solvers' \in [Fields -> [MineKinds -> Counters]]
      BY <2>4, <2>5
    <2> QED
      BY <1>7, <2>6 DEF AnswerMine
  <1>8. ASSUME NEW p \in Players, NEW i \in AttackItems, BuyAttack(p, i)
        PROVE  TypeOK'
    BY <1>8 DEF BuyAttack, Begin, Jobs, JobSteps, Items
  <1>9. CASE ExtendRead
    BY <1>9 DEF ExtendRead, Jobs, JobSteps, JobShape, AttackSteps
  <1>10. CASE ExtendWrite
    <2>1. job.castle \in Castles
      BY <1>10 DEF ExtendWrite, JobShape, AttackSteps
    <2>2. block_time' \in [Castles -> Nat]
      BY <1>10, <2>1 DEF ExtendWrite, Jobs
    <2>3. job' \in Jobs
      BY <1>10 DEF ExtendWrite, Jobs, JobSteps
    <2> QED
      BY <1>10, <2>2, <2>3 DEF ExtendWrite
  <1>11. CASE Attacked
    <2>1. job.castle \in Castles /\ job.player \in Players
      BY <1>11 DEF Attacked, JobShape, AttackSteps
    <2>2. /\ is_blocked' \in [Castles -> BOOLEAN]
          /\ block_time' \in [Castles -> Nat]
          /\ team_attacking' \in [Castles -> Teams \cup {None}]
      <3>1. TeamOf[job.player] \in Teams
        BY <2>1
      <3>2. CASE is_blocked[job.castle]
        BY <1>11, <3>2 DEF Attacked
      <3>3. CASE ~is_blocked[job.castle]
        <4>1. /\ block_time' = [block_time EXCEPT ![job.castle] = BLOCK_TIME]
              /\ is_blocked' = [is_blocked EXCEPT ![job.castle] = TRUE]
              /\ team_attacking' = [team_attacking EXCEPT
                                     ![job.castle] = TeamOf[job.player]]
          BY <1>11, <3>3 DEF Attacked, set_block, JobTeam
        <4> QED
          BY <4>1, <3>1
      <3> QED
        BY <3>2, <3>3
    <2>3. dialogs' \in [Players -> [Castles -> Nat]]
      BY <1>11, <2>1 DEF Attacked, ShowQuestion
    <2>4. job' \in Jobs
      BY <1>11 DEF Attacked, Jobs, JobSteps, NoJob
    <2> QED
      BY <1>11, <2>2, <2>3, <2>4 DEF Attacked
  <1>12. CASE Repelled
    BY <1>12 DEF Repelled, Jobs, JobSteps, JobShape, remove_block, NoJob
  <1>13. CASE PayAttack
    BY <1>13 DEF PayAttack, Charge, Jobs, JobSteps, JobShape, NoJob, Items,
                 JobTeam
  <1>14. CASE PayDefence
    <2>1. job.player \in Players /\ job.item \in Items
      BY <1>14 DEF PayDefence, JobShape, Items
    <2>2. resources' \in [Teams -> [Resources -> Nat]]
      BY <1>14, <2>1 DEF PayDefence, Charge, JobTeam
    <2>3. job' \in Jobs
      BY <1>14 DEF PayDefence, Jobs, JobSteps
    <2> QED
      BY <1>14, <2>2, <2>3 DEF PayDefence
  <1>15. CASE Fortify
    BY <1>15 DEF Fortify, Jobs, JobSteps, JobShape, NoJob, Items
  <1>16. ASSUME NEW k \in TickThreads, StartTick(k)
         PROVE  TypeOK'
    BY <1>16 DEF StartTick, AtMine, AtCastle, NoTick, Ticks, TickSteps,
                 Castles
  <1>17. ASSUME NEW k \in TickThreads, MineTick(k)
         PROVE  TypeOK'
    <2> DEFINE f == tick[k].at
               r == tick[k].res
               due == {t \in DOMAIN solvers[f][r] : solvers[f][r][t] = 0}
               new == [t \in DOMAIN solvers[f][r] |->
                         IF t \in due THEN MINE_DELAY
                                       ELSE solvers[f][r][t] - 1]
    <2>1. f \in Fields /\ r \in {"wood", "stone"} /\ r \in MineKinds
      BY <1>17 DEF MineTick, TickShape, MineKinds
    <2>2. PICK S \in SUBSET Teams : solvers[f][r] \in [S -> 0..MINE_DELAY]
      <3>1. solvers[f][r] \in Counters
        BY <2>1
      <3> QED
        BY <3>1, CountersOf, Zenon
    <2>3. new \in [S -> 0..MINE_DELAY] /\ due \in SUBSET Teams
      <3>1. \A s \in [S -> 0..MINE_DELAY] :
              [t \in DOMAIN s |->
                 IF t \in {u \in DOMAIN s : s[u] = 0} THEN MINE_DELAY
                                                     ELSE s[t] - 1]
                \in [S -> 0..MINE_DELAY]
        BY CountDown, Zenon
      <3>2. DOMAIN solvers[f][r] = S
        BY <2>2
      <3> QED
        BY <2>2, <3>1, <3>2, Zenon
    <2>4. solvers' = [solvers EXCEPT ![f][r] = new]
      BY <1>17 DEF MineTick
    <2>5. solvers' \in [Fields -> [MineKinds -> Counters]]
      <3>1. new \in Counters
        BY <2>3 DEF Counters
      <3> QED
        BY <2>1, <2>4, <3>1
    <2>6. AfterMine(f, r) \in Ticks
      BY <2>1, AfterMineType
    <2>7. [tick[k] EXCEPT !.pc = "pay_mine", !.due = due] \in Ticks
      BY <2>3, TickEdits, tick[k] \in Ticks DEF TickSteps
    <2>8. tick' \in [TickThreads -> Ticks]
      BY <1>17, <2>6, <2>7 DEF MineTick
    <2> QED
      BY <1>17, <2>5, <2>8 DEF MineTick
  <1>18. ASSUME NEW k \in TickThreads, PayMine(k)
         PROVE  TypeOK'
    <2>1. tick[k].at \in Fields /\ tick[k].res \in {"wood", "stone"}
      BY <1>18 DEF PayMine, TickShape
    <2>2. PICK t \in tick[k].due :
            /\ add_resource(t, tick[k].res)
            /\ tick' = [tick EXCEPT ![k] =
                 IF @.due = {t} THEN AfterMine(@.at, @.res)
                                ELSE [@ EXCEPT !.due = tick[k].due \ {t}]]
      BY <1>18 DEF PayMine
    <2>3. t \in Teams
      BY <2>2 DEF PayeeExists
    <2>4. resources' \in [Teams -> [Resources -> Nat]]
      BY <2>1, <2>2, <2>3 DEF add_resource, Resources
    <2>5. AfterMine(tick[k].at, tick[k].res) \in Ticks
      BY <2>1, AfterMineType
    <2>6. [tick[k] EXCEPT !.due = tick[k].due \ {t}] \in Ticks
      <3>1. tick[k].due \ {t} \in SUBSET (Teams \cup {None})
        BY DEF Ticks
      <3>2. [tick[k] EXCEPT !.due = tick[k].due \ {t}] \in Ticks
        BY <3>1, TickEdits, tick[k] \in Ticks
      <3> QED
        BY <3>2
    <2>7. tick' \in [TickThreads -> Ticks]
      <3>1. CASE tick[k].due = {t}
        BY <2>2, <2>5, <3>1
      <3>2. CASE tick[k].due # {t}
        <4>1. tick' = [tick EXCEPT ![k] =
                        [tick[k] EXCEPT !.due = tick[k].due \ {t}]]
          BY <2>2, <3>2
        <4> QED
          BY <2>6, <4>1
      <3> QED
        BY <3>1, <3>2
    <2> QED
      BY <1>18, <2>4, <2>7 DEF PayMine
  <1>19. ASSUME NEW k \in TickThreads, LookAtOwner(k)
         PROVE  TypeOK'
    <2>1. \A pc \in TickSteps : [tick[k] EXCEPT !.pc = pc] \in Ticks
      BY TickEdits, tick[k] \in Ticks
    <2>2. tick' \in [TickThreads -> Ticks]
      BY <1>19, <2>1 DEF LookAtOwner, TickSteps
    <2> QED
      BY <1>19, <2>2 DEF LookAtOwner
  <1>20. ASSUME NEW k \in TickThreads, reduce_gold_delay(k)
         PROVE  TypeOK'
    <2>1. \A pc \in TickSteps : [tick[k] EXCEPT !.pc = pc] \in Ticks
      BY TickEdits, tick[k] \in Ticks
    <2>2. tick' \in [TickThreads -> Ticks]
      BY <1>20, <2>1 DEF reduce_gold_delay, TickSteps
    <2>3. gold_delay' \in [Castles -> 0..GOLD_DELAY]
      BY <1>20 DEF reduce_gold_delay, TickShape
    <2> QED
      BY <1>20, <2>2, <2>3 DEF reduce_gold_delay
  <1>21. ASSUME NEW k \in TickThreads, LookUpPayee(k)
         PROVE  TypeOK'
    <2>1. owner_id[tick[k].at] \in Teams \cup {None}
      BY <1>21 DEF LookUpPayee, TickShape
    <2>2. [tick[k] EXCEPT !.pc = "pay_gold", !.due = {owner_id[tick[k].at]}]
            \in Ticks
      BY <2>1, TickEdits, tick[k] \in Ticks DEF TickSteps
    <2>3. tick' \in [TickThreads -> Ticks]
      BY <1>21, <2>2 DEF LookUpPayee
    <2> QED
      BY <1>21, <2>3 DEF LookUpPayee
  <1>22. ASSUME NEW k \in TickThreads, PayGold(k)
         PROVE  TypeOK'
    <2>1. PICK t \in tick[k].due : add_resource(t, "gold")
      BY <1>22 DEF PayGold
    <2>2. t \in Teams
      BY <2>1 DEF PayeeExists
    <2>3. resources' \in [Teams -> [Resources -> Nat]]
      BY <2>1, <2>2 DEF add_resource, Resources
    <2>4. [tick[k] EXCEPT !.pc = "block_read", !.due = {}] \in Ticks
      BY TickEdits, tick[k] \in Ticks DEF TickSteps
    <2>5. tick' \in [TickThreads -> Ticks]
      BY <1>22, <2>4 DEF PayGold
    <2> QED
      BY <1>22, <2>3, <2>5 DEF PayGold
  <1>23. ASSUME NEW k \in TickThreads, BlockRead(k)
         PROVE  TypeOK'
    <2>1. block_time[tick[k].at] \in Nat
      BY <1>23 DEF BlockRead, TickShape
    <2>2. [tick[k] EXCEPT !.pc = "block_write",
                          !.saved = block_time[tick[k].at]] \in Ticks
      BY <2>1, TickEdits, tick[k] \in Ticks DEF TickSteps
    <2>3. tick' \in [TickThreads -> Ticks]
      BY <1>23, <2>2 DEF BlockRead
    <2> QED
      BY <1>23, <2>3 DEF BlockRead
  <1>24. ASSUME NEW k \in TickThreads, BlockWrite(k)
         PROVE  TypeOK'
    <2>1. tick[k].saved \in Nat /\ tick[k].at \in Castles
      BY <1>24 DEF BlockWrite, TickShape, Ticks
    <2>2. /\ block_time' \in [Castles -> Nat]
          /\ is_blocked' \in [Castles -> BOOLEAN]
      <3>1. CASE tick[k].saved > 0
        <4>1. tick[k].saved - 1 \in Nat
          BY <2>1, <3>1
        <4>2. /\ block_time' = [block_time EXCEPT ![tick[k].at] =
                                 tick[k].saved - 1]
              /\ is_blocked' = is_blocked
          BY <1>24, <3>1 DEF BlockWrite
        <4> QED
          BY <4>1, <4>2
      <3>2. CASE ~(tick[k].saved > 0)
        BY <1>24, <2>1, <3>2 DEF BlockWrite
      <3> QED
        BY <3>1, <3>2
    <2>3. AtCastle(tick[k].at + 1) \in Ticks
      BY <2>1, AtCastleType DEF Castles
    <2>4. tick' \in [TickThreads -> Ticks]
      BY <1>24, <2>3 DEF BlockWrite
    <2> QED
      BY <1>24, <2>2, <2>4 DEF BlockWrite
  <1>25. CASE UNCHANGED vars
    BY <1>25
  <1> QED
    BY <1>1, <1>2, <1>3, <1>4, <1>5, <1>6, <1>7, <1>8, <1>9, <1>10, <1>11,
       <1>12, <1>13, <1>14, <1>15, <1>16, <1>17, <1>18, <1>19, <1>20, <1>21,
       <1>22, <1>23, <1>24, <1>25
    DEF Next, Message, Handler, Tick
-----------------------------------------------------------------------------
\* What a handler works on stays fixed from its first step to its last.
LEMMA JobShapeNext ==
  ASSUME TypeOK, JobShape, [Next]_vars
  PROVE  JobShape'
  <1> USE PeopleAssumption DEF JobShape, AttackSteps
  <1>1. ASSUME UNCHANGED job
        PROVE  JobShape'
    BY <1>1
  <1>2. ASSUME NEW p \in Players, NEW c \in Castles, AttackOwned(p, c)
        PROVE  JobShape'
    BY <1>2 DEF AttackOwned, Begin
  <1>3. ASSUME NEW p \in Players, NEW c \in Castles, NEW i \in DefenceItems,
               BuyDefence(p, c, i)
        PROVE  JobShape'
    BY <1>3 DEF BuyDefence, Begin
  <1>4. ASSUME NEW p \in Players, NEW i \in AttackItems, BuyAttack(p, i)
        PROVE  JobShape'
    BY <1>4 DEF BuyAttack, Begin
  <1>5. CASE ExtendRead
    BY <1>5 DEF ExtendRead, TypeOK, Jobs
  <1>6. CASE ExtendWrite
    BY <1>6 DEF ExtendWrite, TypeOK, Jobs
  <1>7. CASE PayDefence
    BY <1>7 DEF PayDefence, TypeOK, Jobs
  <1>8. CASE Attacked \/ Repelled \/ PayAttack \/ Fortify
    BY <1>8 DEF Attacked, Repelled, PayAttack, Fortify, NoJob
  <1>9. CASE Message
    <2>1. ASSUME NEW p \in Players, NEW c \in Castles, NEW a \in Answers,
                 AnswerRight(p, c, a) \/ AnswerWrong(p, c, a)
          PROVE  UNCHANGED job
      BY <2>1 DEF AnswerRight, AnswerWrong
    <2>2. ASSUME NEW p \in Players, NEW c \in Castles,
                 AttackEmpty(p, c) \/ CloseDialog(p, c)
          PROVE  UNCHANGED job
      BY <2>2 DEF AttackEmpty, CloseDialog
    <2>3. ASSUME NEW p \in Players, NEW f \in Fields, NEW r \in MineKinds,
                 NEW a \in Answers, AnswerMine(p, f, r, a)
          PROVE  UNCHANGED job
      BY <2>3 DEF AnswerMine
    <2> QED
      BY <1>1, <1>2, <1>3, <1>4, <1>9, <2>1, <2>2, <2>3 DEF Message
  <1>10. ASSUME NEW k \in TickThreads, Tick(k)
         PROVE  UNCHANGED job
    BY <1>10 DEF Tick, StartTick, MineTick, PayMine, LookAtOwner,
       reduce_gold_delay, LookUpPayee, PayGold, BlockRead, BlockWrite
  <1>11. CASE UNCHANGED vars
    BY <1>1, <1>11 DEF vars
  <1> QED
    BY <1>1, <1>5, <1>6, <1>7, <1>8, <1>9, <1>10, <1>11 DEF Next, Handler

\* The steps of a tick are at a field or at a castle.
TickAtHome(v) ==
  /\ v.pc = "idle" => v = NoTick
  /\ v.pc \in {"mine", "pay_mine"} =>
       v.at \in Fields /\ v.res \in {"wood", "stone"}
  /\ v.pc \in {"castle", "gold", "gold_owner", "pay_gold",
               "block_read", "block_write"} => v.at \in Castles

LEMMA AtCastleShape == \A c : TickAtHome(AtCastle(c))
  BY DEF TickAtHome, AtCastle, NoTick

LEMMA AfterMineShape ==
  ASSUME NEW f \in Fields, NEW r \in {"wood", "stone"}
  PROVE  TickAtHome(AfterMine(f, r))
  <1>1. CASE r = "wood"
    BY <1>1 DEF AfterMine, AtMine, TickAtHome
  <1>2. CASE r # "wood" /\ f < NumFields
    <2>1. f + 1 \in Fields
      BY <1>2, BoardAssumption DEF Fields
    <2> QED
      BY <1>2, <2>1 DEF AfterMine, AtMine, TickAtHome
  <1>3. CASE r # "wood" /\ ~(f < NumFields)
    BY <1>3, AtCastleShape DEF AfterMine
  <1> QED
    BY <1>1, <1>2, <1>3

LEMMA TickShapeNext ==
  ASSUME TypeOK, TickShape, PayeeExists, [Next]_vars
  PROVE  TickShape'
  <1>1. /\ TickShape <=> \A k \in TickThreads : TickAtHome(tick[k])
        /\ TickShape' <=> \A k \in TickThreads : TickAtHome(tick'[k])
    BY DEF TickShape, TickAtHome
  <1>2. ASSUME NEW k \in TickThreads, NEW v, TickAtHome(v),
               tick' = [tick EXCEPT ![k] = v]
        PROVE  TickShape'
    BY <1>1, <1>2 DEF TypeOK
  <1>3. ASSUME UNCHANGED tick
        PROVE  TickShape'
    BY <1>1, <1>3
  <1>4. ASSUME NEW k \in TickThreads, StartTick(k)
        PROVE  TickShape'
    <2>1. CASE NumFields > 0
      <3>1. TickAtHome(AtMine(1, "wood"))
        BY <2>1, BoardAssumption DEF AtMine, TickAtHome, Fields
      <3> QED
        BY <1>2, <1>4, <2>1, <3>1 DEF StartTick
    <2>2. CASE ~(NumFields > 0)
      BY <1>2, <1>4, <2>2, AtCastleShape DEF StartTick
    <2> QED
      BY <2>1, <2>2
  <1>5. ASSUME NEW k \in TickThreads, tick[k].pc # "idle"
        PROVE  tick[k] \in Ticks /\ TickAtHome(tick[k])
    BY <1>1, <1>5 DEF TypeOK
  <1>6. ASSUME NEW k \in TickThreads, MineTick(k)
        PROVE  TickShape'
    <2>1. tick[k].at \in Fields /\ tick[k].res \in {"wood", "stone"}
      BY <1>6 DEF TickShape, MineTick
    <2>2. \/ tick' = [tick EXCEPT ![k] = AfterMine(tick[k].at, tick[k].res)]
          \/ \E d : tick' = [tick EXCEPT ![k] =
                               [tick[k] EXCEPT !.pc = "pay_mine", !.due = d]]
      BY <1>6 DEF MineTick
    <2>3. \A d : TickAtHome([tick[k] EXCEPT !.pc = "pay_mine", !.due = d])
      BY <2>1, <1>6, <1>5 DEF MineTick, TickAtHome, Ticks
    <2> QED
      BY <1>2, <2>1, <2>2, <2>3, AfterMineShape
  <1>7. ASSUME NEW k \in TickThreads, PayMine(k)
        PROVE  TickShape'
    <2>1. /\ tick[k].at \in Fields /\ tick[k].res \in {"wood", "stone"}
          /\ tick[k].pc = "pay_mine"
      BY <1>7 DEF TickShape, PayMine
    <2>2. \/ tick' = [tick EXCEPT ![k] = AfterMine(tick[k].at, tick[k].res)]
          \/ \E d : tick' = [tick EXCEPT ![k] = [tick[k] EXCEPT !.due = d]]
      BY <1>7 DEF PayMine
    <2>3. \A d : TickAtHome([tick[k] EXCEPT !.due = d])
      BY <2>1, <1>5 DEF TickAtHome, Ticks
    <2> QED
      BY <1>2, <2>1, <2>2, <2>3, AfterMineShape
  <1>8. ASSUME NEW k \in TickThreads,
               \/ LookAtOwner(k) \/ reduce_gold_delay(k)
               \/ LookUpPayee(k) \/ PayGold(k) \/ BlockRead(k)
        PROVE  TickShape'
    <2> DEFINE AtCastleSteps == {"castle", "gold", "gold_owner", "pay_gold",
                                 "block_read", "block_write"}
    <2>1. tick[k].pc \in AtCastleSteps
      BY <1>8 DEF LookAtOwner, reduce_gold_delay, LookUpPayee, PayGold,
         BlockRead
    <2>2. tick[k].at \in Castles
      BY <2>1 DEF TickShape
    <2> DEFINE v == tick[k]
    <2>3. ASSUME NEW pc \in AtCastleSteps
          PROVE  /\ TickAtHome([v EXCEPT !.pc = pc])
                 /\ \A d : TickAtHome([v EXCEPT !.pc = pc, !.due = d])
                 /\ \A n : TickAtHome([v EXCEPT !.pc = pc, !.saved = n])
      BY <2>1, <2>2, <1>5 DEF TickAtHome, Ticks
    <2>4. CASE LookAtOwner(k)
      <3>1. PICK pc \in AtCastleSteps :
              tick' = [tick EXCEPT ![k] = [v EXCEPT !.pc = pc]]
        BY <2>4 DEF LookAtOwner, TypeOK
      <3> QED
        BY <1>2, <2>3, <3>1
    <2>5. CASE reduce_gold_delay(k)
      <3>1. PICK pc \in AtCastleSteps :
              tick' = [tick EXCEPT ![k] = [v EXCEPT !.pc = pc]]
        BY <2>5 DEF reduce_gold_delay, TypeOK
      <3> QED
        BY <1>2, <2>3, <3>1
    <2>6. CASE LookUpPayee(k)
      <3>1. tick' = [tick EXCEPT ![k] =
                      [v EXCEPT !.pc = "pay_gold", !.due = {owner_id[v.at]}]]
        BY <2>6 DEF LookUpPayee, TypeOK
      <3> QED
        BY <1>2, <2>3, <3>1
    <2>7. CASE PayGold(k)
      <3>1. tick' = [tick EXCEPT ![k] =
                      [v EXCEPT !.pc = "block_read", !.due = {}]]
        BY <2>7 DEF PayGold, TypeOK
      <3> QED
        BY <1>2, <2>3, <3>1
    <2>8. CASE BlockRead(k)
      <3>1. tick' = [tick EXCEPT ![k] =
                      [v EXCEPT !.pc = "block_write", !.saved = block_time[v.at]]]
        BY <2>8 DEF BlockRead, TypeOK
      <3> QED
        BY <1>2, <2>3, <3>1
    <2> QED
      BY <1>8, <2>4, <2>5, <2>6, <2>7, <2>8
  <1>9. ASSUME NEW k \in TickThreads, BlockWrite(k)
        PROVE  TickShape'
    BY <1>2, <1>9, AtCastleShape DEF BlockWrite
  <1>10. CASE Message \/ Handler
    BY <1>3, <1>10 DEF Message, Handler, AttackEmpty, AttackOwned, CloseDialog,
       AnswerRight, AnswerWrong, BuyDefence, AnswerMine, BuyAttack, ExtendRead,
       ExtendWrite, Attacked, Repelled, PayAttack, PayDefence, Fortify
  <1>11. CASE UNCHANGED vars
    BY <1>3, <1>11 DEF vars
  <1> QED
    BY <1>4, <1>6, <1>7, <1>8, <1>9, <1>10, <1>11 DEF Next, Tick
-----------------------------------------------------------------------------
\* Payouts only add to a stock, so a price that could be paid still can.
LEMMA FactsNext ==
  ASSUME TypeOK, JobShape, TickShape, PayeeExists, HandlerFactsHold,
         [Next]_vars
  PROVE  HandlerFactsHold'
  <1> USE DEF HandlerFactsHold, AttackSteps, JobTeam
  <1>1. ASSUME UNCHANGED <<owner_id, defence, resources, job>>
        PROVE  HandlerFactsHold'
    BY <1>1 DEF is_enough
  <1>2. ASSUME job'.step = "idle"
        PROVE  HandlerFactsHold'
    BY <1>2
  <1>3. ASSUME NEW p \in Players, NEW c \in Castles, AttackOwned(p, c)
        PROVE  HandlerFactsHold'
    BY <1>3 DEF AttackOwned, Begin
  <1>4. ASSUME NEW p \in Players, NEW c \in Castles, NEW a \in Answers,
               AnswerRight(p, c, a)
        PROVE  HandlerFactsHold'
    BY <1>2, <1>4 DEF AnswerRight, AnswerCastle, NoJob
  <1>5. ASSUME NEW p \in Players, NEW c \in Castles, NEW i \in DefenceItems,
               BuyDefence(p, c, i)
        PROVE  HandlerFactsHold'
    BY <1>5 DEF BuyDefence, Begin, is_enough, teamVars, castleVars
  <1>6. ASSUME NEW p \in Players, NEW i \in AttackItems, BuyAttack(p, i)
        PROVE  HandlerFactsHold'
    BY <1>6 DEF BuyAttack, Begin, is_enough, teamVars
  <1>7. ASSUME NEW p \in Players, NEW c \in Castles,
               \/ AttackEmpty(p, c) \/ CloseDialog(p, c)
               \/ \E a \in Answers : AnswerWrong(p, c, a)
        PROVE  HandlerFactsHold'
    BY <1>1, <1>7 DEF AttackEmpty, CloseDialog, AnswerWrong, castleVars,
       teamVars
  <1>8. ASSUME NEW p \in Players, NEW f \in Fields, NEW r \in MineKinds,
               NEW a \in Answers, AnswerMine(p, f, r, a)
        PROVE  HandlerFactsHold'
    BY <1>1, <1>8 DEF AnswerMine, castleVars, teamVars
  <1>9. CASE ExtendRead
    BY <1>9 DEF ExtendRead, castleVars, TypeOK, Jobs
  <1>10. CASE ExtendWrite
    BY <1>10 DEF ExtendWrite, TypeOK, Jobs
  <1>11. CASE PayDefence
    BY <1>11 DEF PayDefence, castleVars, TypeOK, Jobs
  <1>12. CASE Attacked \/ Repelled \/ PayAttack \/ Fortify
    BY <1>2, <1>12 DEF Attacked, Repelled, PayAttack, Fortify, NoJob
  <1>13. ASSUME NEW t \in Teams, NEW r \in Resources, add_resource(t, r),
                UNCHANGED <<owner_id, defence, job>>
         PROVE  HandlerFactsHold'
    <2>1. \A u \in Teams, s \in Resources : resources'[u][s] >= resources[u][s]
      BY <1>13, AmountAssumption DEF add_resource, TypeOK
    <2>2. ASSUME job.step \in {"pay_attack", "pay_defence"}
          PROVE  is_enough(JobTeam, job.item)'
      <3>1. JobTeam \in Teams /\ job.item \in Items
        BY <2>2, PeopleAssumption DEF JobShape, Items
      <3>2. is_enough(JobTeam, job.item)
        BY <2>2
      <3>3. \A s \in Resources : /\ Price[job.item][s] \in Nat
                                 /\ resources[JobTeam][s] \in Nat
                                 /\ resources'[JobTeam][s] \in Nat
        <4>1. resources' \in [Teams -> [Resources -> Nat]]
          BY <1>13, AmountAssumption DEF add_resource, TypeOK
        <4> QED
          BY <3>1, <4>1, ItemAssumption DEF TypeOK
      <3> QED
        BY <1>13, <2>1, <3>1, <3>2, <3>3 DEF is_enough
    <2> QED
      BY <1>13, <2>2
  <1>14. ASSUME NEW k \in TickThreads, PayMine(k)
         PROVE  HandlerFactsHold'
    <2>1. tick[k].res \in Resources
      BY <1>14 DEF PayMine, TickShape, Resources
    <2>2. PICK t \in tick[k].due : add_resource(t, tick[k].res)
      BY <1>14 DEF PayMine
    <2>3. t \in Teams
      BY <2>2 DEF PayeeExists
    <2> QED
      BY <1>13, <1>14, <2>1, <2>2, <2>3 DEF PayMine, castleVars
  <1>15. ASSUME NEW k \in TickThreads, PayGold(k)
         PROVE  HandlerFactsHold'
    <2>1. PICK t \in tick[k].due : add_resource(t, "gold")
      BY <1>15 DEF PayGold
    <2>2. t \in Teams
      BY <2>1 DEF PayeeExists
    <2> QED
      BY <1>13, <1>15, <2>1, <2>2 DEF PayGold, castleVars, Resources
  <1>16. ASSUME NEW k \in TickThreads,
                \/ StartTick(k) \/ MineTick(k) \/ LookAtOwner(k)
                \/ reduce_gold_delay(k) \/ LookUpPayee(k) \/ BlockRead(k)
                \/ BlockWrite(k)
         PROVE  HandlerFactsHold'
    BY <1>1, <1>16 DEF StartTick, MineTick, LookAtOwner, reduce_gold_delay,
       LookUpPayee, BlockRead, BlockWrite, castleVars, teamVars
  <1>17. CASE UNCHANGED vars
    BY <1>1, <1>17 DEF vars, castleVars, teamVars
  <1> QED
    BY <1>3, <1>4, <1>5, <1>6, <1>7, <1>8, <1>9, <1>10, <1>11, <1>12, <1>14,
       <1>15, <1>16, <1>17
    DEF Next, Message, Handler, Tick

\* A castle never goes back to nobody, so the second read of its owner finds
\* a team.
LEMMA PayeeNext ==
  ASSUME TypeOK, TickShape, PayeeExists, [Next]_vars
  PROVE  PayeeExists'
  <1> DEFINE Payable(v) ==
        /\ v.pc \in {"gold", "gold_owner"} => owner_id[v.at] # None
        /\ v.due \subseteq Teams
  <1>1. PayeeExists <=> \A k \in TickThreads : Payable(tick[k])
    BY DEF PayeeExists
  <1>2. ASSUME \A c \in Castles : owner_id[c] # None => owner_id'[c] # None,
               NEW k \in TickThreads, NEW v, Payable(v),
               v.pc \in {"gold", "gold_owner"} => v.at \in Castles,
               tick' = [tick EXCEPT ![k] = v]
        PROVE  PayeeExists'
    BY <1>2 DEF PayeeExists, TickShape, TypeOK
  <1>3. ASSUME \A c \in Castles : owner_id[c] # None => owner_id'[c] # None,
               UNCHANGED tick
        PROVE  PayeeExists'
    BY <1>3 DEF PayeeExists, TickShape
  <1>4. ASSUME NEW p \in Players, NEW c \in Castles, NEW a \in Answers,
               AnswerRight(p, c, a)
        PROVE  PayeeExists'
    <2>1. TeamOf[p] # None
      BY PeopleAssumption
    <2> QED
      BY <1>3, <1>4, <2>1 DEF AnswerRight, change_owner, TypeOK
  <1>5. ASSUME NEW p \in Players,
               \/ \E c \in Castles :
                    \/ AttackEmpty(p, c) \/ AttackOwned(p, c)
                    \/ CloseDialog(p, c)
                    \/ \E a \in Answers : AnswerWrong(p, c, a)
                    \/ \E i \in DefenceItems : BuyDefence(p, c, i)
               \/ \E f \in Fields, r \in MineKinds, a \in Answers :
                    AnswerMine(p, f, r, a)
               \/ \E i \in AttackItems : BuyAttack(p, i)
        PROVE  PayeeExists'
    BY <1>3, <1>5 DEF AttackEmpty, AttackOwned, CloseDialog, AnswerWrong,
       BuyDefence, AnswerMine, BuyAttack, castleVars
  <1>6. CASE Handler
    BY <1>3, <1>6 DEF Handler, ExtendRead, ExtendWrite, Attacked, Repelled,
       PayAttack, PayDefence, Fortify, castleVars
  <1>7. \A c : Payable(AtCastle(c)) /\ AtCastle(c).pc \in {"castle", "idle"}
    BY DEF AtCastle, NoTick
  <1>8. \A f, r : /\ Payable(AfterMine(f, r))
                  /\ AfterMine(f, r).pc \in {"mine", "castle", "idle"}
    BY <1>7 DEF AfterMine, AtMine
  <1>9. ASSUME NEW k \in TickThreads, StartTick(k)
        PROVE  PayeeExists'
    <2>1. PICK v : /\ v \in {AtMine(1, "wood"), AtCastle(1)}
                   /\ tick' = [tick EXCEPT ![k] = v]
      BY <1>9 DEF StartTick
    <2>2. Payable(v) /\ v.pc \in {"mine", "castle", "idle"}
      BY <1>7, <2>1 DEF AtMine
    <2> QED
      BY <1>2, <1>9, <2>1, <2>2 DEF StartTick, castleVars
  <1>10. ASSUME NEW k \in TickThreads, MineTick(k)
         PROVE  PayeeExists'
    <2> DEFINE f == tick[k].at
               r == tick[k].res
               due == {t \in DOMAIN solvers[f][r] : solvers[f][r][t] = 0}
    <2>1. solvers[f][r] \in Counters
      <3>1. f \in Fields /\ r \in MineKinds
        BY <1>10 DEF MineTick, TickShape, MineKinds
      <3> QED
        BY <3>1 DEF TypeOK
    <2>2. due \subseteq Teams
      BY <2>1 DEF Counters
    <2>3. \/ tick' = [tick EXCEPT ![k] = AfterMine(f, r)]
          \/ tick' = [tick EXCEPT ![k] =
                       [tick[k] EXCEPT !.pc = "pay_mine", !.due = due]]
      BY <1>10 DEF MineTick
    <2>4. \A d \in SUBSET Teams :
            /\ Payable([tick[k] EXCEPT !.pc = "pay_mine", !.due = d])
            /\ [tick[k] EXCEPT !.pc = "pay_mine", !.due = d].pc = "pay_mine"
      BY DEF TypeOK, Ticks
    <2> QED
      BY <1>2, <1>8, <1>10, <2>2, <2>3, <2>4 DEF MineTick, castleVars
  <1>11. ASSUME NEW k \in TickThreads, PayMine(k)
         PROVE  PayeeExists'
    <2>1. PICK t : \/ tick' = [tick EXCEPT ![k] =
                                AfterMine(tick[k].at, tick[k].res)]
                   \/ tick' = [tick EXCEPT ![k] =
                                [tick[k] EXCEPT !.due = tick[k].due \ {t}]]
      BY <1>11 DEF PayMine
    <2>2. /\ Payable([tick[k] EXCEPT !.due = tick[k].due \ {t}])
          /\ [tick[k] EXCEPT !.due = tick[k].due \ {t}].pc = "pay_mine"
      BY <1>11 DEF TypeOK, Ticks, PayMine, PayeeExists
    <2> QED
      BY <1>2, <1>8, <1>11, <2>1, <2>2 DEF PayMine, castleVars
  <1>12. ASSUME NEW k \in TickThreads, LookAtOwner(k)
         PROVE  PayeeExists'
    <2> DEFINE v == [tick[k] EXCEPT !.pc =
                      IF owner_id[tick[k].at] = None THEN "block_read"
                                                     ELSE "gold"]
    <2>1. tick' = [tick EXCEPT ![k] = v]
      BY <1>12 DEF LookAtOwner, TypeOK
    <2>2. Payable(v) /\ v.at \in Castles
      BY <1>12 DEF TypeOK, Ticks, LookAtOwner, PayeeExists, TickShape
    <2> QED
      BY <1>2, <1>12, <2>1, <2>2 DEF LookAtOwner, castleVars
  <1>13. ASSUME NEW k \in TickThreads, reduce_gold_delay(k)
         PROVE  PayeeExists'
    <2> DEFINE v == [tick[k] EXCEPT !.pc =
                      IF gold_delay[tick[k].at] = 0 THEN "gold_owner"
                                                    ELSE "block_read"]
    <2>1. tick' = [tick EXCEPT ![k] = v]
      BY <1>13 DEF reduce_gold_delay, TypeOK
    <2>2. Payable(v) /\ v.at \in Castles
      BY <1>13 DEF TypeOK, Ticks, reduce_gold_delay, PayeeExists, TickShape
    <2> QED
      BY <1>2, <1>13, <2>1, <2>2 DEF reduce_gold_delay
  <1>14. ASSUME NEW k \in TickThreads, LookUpPayee(k)
         PROVE  PayeeExists'
    <2> DEFINE v == [tick[k] EXCEPT !.pc = "pay_gold",
                                    !.due = {owner_id[tick[k].at]}]
    <2>1. tick' = [tick EXCEPT ![k] = v]
      BY <1>14 DEF LookUpPayee, TypeOK
    <2>2. owner_id[tick[k].at] \in Teams
      BY <1>14 DEF LookUpPayee, TypeOK, PayeeExists, TickShape
    <2>3. Payable(v) /\ v.pc = "pay_gold"
      BY <2>2 DEF TypeOK, Ticks
    <2> QED
      BY <1>2, <1>14, <2>1, <2>3 DEF LookUpPayee, castleVars
  <1>15. ASSUME NEW k \in TickThreads, PayGold(k)
         PROVE  PayeeExists'
    <2> DEFINE v == [tick[k] EXCEPT !.pc = "block_read", !.due = {}]
    <2>1. tick' = [tick EXCEPT ![k] = v]
      BY <1>15 DEF PayGold, TypeOK
    <2>2. Payable(v) /\ v.pc = "block_read"
      BY DEF TypeOK, Ticks
    <2> QED
      BY <1>2, <1>15, <2>1, <2>2 DEF PayGold, castleVars
  <1>16. ASSUME NEW k \in TickThreads, BlockRead(k)
         PROVE  PayeeExists'
    <2> DEFINE v == [tick[k] EXCEPT !.pc = "block_write",
                                    !.saved = block_time[tick[k].at]]
    <2>1. tick' = [tick EXCEPT ![k] = v]
      BY <1>16 DEF BlockRead, TypeOK
    <2>2. Payable(v) /\ v.pc = "block_write"
      BY DEF TypeOK, Ticks, PayeeExists
    <2> QED
      BY <1>2, <1>16, <2>1, <2>2 DEF BlockRead, castleVars
  <1>17. ASSUME NEW k \in TickThreads, BlockWrite(k)
         PROVE  PayeeExists'
    BY <1>2, <1>7, <1>17 DEF BlockWrite
  <1>18. CASE UNCHANGED vars
    BY <1>3, <1>18 DEF vars, castleVars
  <1> QED
    BY <1>4, <1>5, <1>6, <1>9, <1>10, <1>11, <1>12, <1>13, <1>14, <1>15,
       <1>16, <1>17, <1>18
    DEF Next, Message, Tick
-----------------------------------------------------------------------------
\* A castle's block: what is left of it, the flag, and the two steps of
\* reduce_block and of the extension that work on it.
BlockFacts ==
  /\ TimeLeftMeansBlocked
  /\ BlockIsBounded
  /\ LockHolderKnows
  /\ ExtensionFacts

\* Tick k is inside reduce_block of castle c.
Inside(k, c) == tick[k].pc = "block_write" /\ tick[k].at = c

\* BlockFacts, one castle at a time.
BlockFactsAt(c) ==
  /\ block_time[c] > 0 =>
       is_blocked[c] \/ (job.step = "attacked" /\ job.castle = c)
  /\ block_time[c] <= 2 * BLOCK_TIME
  /\ \A k \in TickThreads : Inside(k, c) =>
       /\ \A l \in TickThreads : Inside(l, c) => l = k
       /\ tick[k].saved <= 2 * BLOCK_TIME
       /\ \/ job.step = "attacked" /\ job.castle = c
          \/ IF tick[k].saved = 0 THEN block_time[c] = 0 ELSE is_blocked[c]
  /\ job.castle = c /\ job.step = "extend_read" =>
       /\ block_time[c] <= BLOCK_TIME
       /\ \A k \in TickThreads : Inside(k, c) => tick[k].saved <= BLOCK_TIME
  /\ job.castle = c /\ job.step = "extend_write" => job.saved <= BLOCK_TIME

LEMMA BlockFactsSplit ==
  ASSUME JobShape, TickShape
  PROVE  BlockFacts <=> \A c \in Castles : BlockFactsAt(c)
  BY DEF BlockFacts, BlockFactsAt, Inside, TimeLeftMeansBlocked,
     BlockIsBounded, LockHolderKnows, ExtensionFacts, JobShape, TickShape,
     AttackSteps

\* A step of the main thread on castle c finds no tick inside its
\* reduce_block.
LEMMA Unlocked ==
  ASSUME NEW c, ~CastleLocked(c)
  PROVE  \A k \in TickThreads : ~Inside(k, c)
  BY DEF CastleLocked, Inside

LEMMA BlockFactsNext ==
  ASSUME TypeOK, JobShape, TickShape, JobShape', TickShape', BlockFacts,
         [Next]_vars
  PROVE  BlockFacts'
  <1>1. \A c \in Castles : BlockFactsAt(c)
    BY BlockFactsSplit
  <1>2. ASSUME \A c \in Castles : BlockFactsAt(c)'
        PROVE  BlockFacts'
    BY <1>2 DEF BlockFacts, BlockFactsAt, Inside, TimeLeftMeansBlocked,
     BlockIsBounded, LockHolderKnows, ExtensionFacts, JobShape, TickShape,
     AttackSteps
  <1> SUFFICES ASSUME NEW d \in Castles
               PROVE  BlockFactsAt(d)'
    BY <1>2
  <1> USE AmountAssumption
  <1>3. BlockFactsAt(d)
    BY <1>1
  <1>4. /\ block_time[d] \in Nat
        /\ \A k \in TickThreads : tick[k].saved \in Nat
        /\ job.saved \in Nat
    BY DEF TypeOK, Ticks, Jobs
  \* Steps that leave castle d's block alone.
  <1>5. ASSUME block_time'[d] = block_time[d], is_blocked'[d] = is_blocked[d],
               \A k \in TickThreads : Inside(k, d)' =>
                 Inside(k, d) /\ tick'[k].saved = tick[k].saved,
               \/ UNCHANGED job
               \/ /\ job'.castle = d =>
                       job'.step \notin {"extend_read", "extend_write"}
                  /\ ~(job.step = "attacked" /\ job.castle = d)
        PROVE  BlockFactsAt(d)'
    BY <1>3, <1>5 DEF BlockFactsAt
  <1>6. ASSUME UNCHANGED <<block_time, is_blocked, tick>>,
               job.step # "attacked",
               job'.step \notin {"extend_read", "extend_write"}
        PROVE  BlockFactsAt(d)'
    BY <1>5, <1>6 DEF Inside
  \* set_block or remove_block on the unlocked castle d.
  <1>7. ASSUME \A k \in TickThreads : ~Inside(k, d), UNCHANGED tick,
               \/ block_time'[d] = BLOCK_TIME /\ is_blocked'[d]
               \/ block_time'[d] = 0,
               job'.step # "extend_write"
        PROVE  BlockFactsAt(d)'
    BY <1>7 DEF BlockFactsAt, Inside
  <1>8. ASSUME NEW p \in Players, NEW c \in Castles, AttackEmpty(p, c)
        PROVE  BlockFactsAt(d)'
    <2>1. CASE c = d
      <3>1. \A k \in TickThreads : ~Inside(k, d)
        BY <1>8, <2>1, Unlocked DEF AttackEmpty, CanAttack
      <3>2. block_time'[d] = BLOCK_TIME /\ is_blocked'[d]
        BY <1>8, <2>1 DEF AttackEmpty, set_block, TypeOK
      <3> QED
        BY <1>7, <1>8, <3>1, <3>2 DEF AttackEmpty, CanAttack, NoJob
    <2>2. CASE c # d
      BY <1>5, <1>8, <2>2 DEF AttackEmpty, set_block, Inside, TypeOK
    <2> QED
      BY <2>1, <2>2
  <1>9. ASSUME NEW p \in Players, NEW c \in Castles, AttackOwned(p, c)
        PROVE  BlockFactsAt(d)'
    <2>1. CASE c = d
      <3>1. \A k \in TickThreads : ~Inside(k, d)
        BY <1>9, <2>1, Unlocked DEF AttackOwned, CanAttack
      <3>2. block_time'[d] = BLOCK_TIME /\ is_blocked'[d]
        BY <1>9, <2>1 DEF AttackOwned, set_block, TypeOK
      <3>3. job'.step # "extend_write"
        BY <1>9 DEF AttackOwned, Begin
      <3> QED
        BY <1>7, <1>9, <3>1, <3>2, <3>3 DEF AttackOwned
    <2>2. CASE c # d
      <3>1. job'.castle # d /\ job.step = "idle"
        BY <1>9, <2>2 DEF AttackOwned, CanAttack, Begin, NoJob
      <3> QED
        BY <1>5, <1>9, <2>2, <3>1 DEF AttackOwned, set_block, Inside, TypeOK
    <2> QED
      BY <2>1, <2>2
  <1>10. ASSUME NEW p \in Players, NEW c \in Castles, NEW a \in Answers,
                AnswerWrong(p, c, a)
         PROVE  BlockFactsAt(d)'
    <2>1. CASE c = d
      <3>1. \A k \in TickThreads : ~Inside(k, d)
        BY <1>10, <2>1, Unlocked DEF AnswerWrong, AnswerCastle
      <3>2. block_time'[d] = 0
        BY <1>10, <2>1 DEF AnswerWrong, remove_block, TypeOK
      <3> QED
        BY <1>7, <1>10, <3>1, <3>2 DEF AnswerWrong, AnswerCastle, NoJob
    <2>2. CASE c # d
      BY <1>5, <1>10, <2>2 DEF AnswerWrong, remove_block, Inside, TypeOK
    <2> QED
      BY <2>1, <2>2
  <1>11. ASSUME NEW p \in Players, NEW c \in Castles,
                \/ CloseDialog(p, c)
                \/ \E a \in Answers : AnswerRight(p, c, a)
         PROVE  BlockFactsAt(d)'
    BY <1>5, <1>11 DEF CloseDialog, AnswerRight, castleVars, Inside
  <1>12. ASSUME NEW p \in Players, NEW c \in Castles, NEW i \in DefenceItems,
                BuyDefence(p, c, i)
         PROVE  BlockFactsAt(d)'
    BY <1>6, <1>12 DEF BuyDefence, Begin, NoJob, castleVars
  <1>13. ASSUME NEW p \in Players, NEW i \in AttackItems, BuyAttack(p, i)
         PROVE  BlockFactsAt(d)'
    BY <1>6, <1>13 DEF BuyAttack, Begin, NoJob, castleVars
  <1>14. ASSUME NEW p \in Players, NEW f \in Fields, NEW r \in MineKinds,
                NEW a \in Answers, AnswerMine(p, f, r, a)
         PROVE  BlockFactsAt(d)'
    BY <1>5, <1>14 DEF AnswerMine, castleVars, Inside
  <1>15. CASE ExtendRead
    <2>1. /\ job'.castle = job.castle /\ job'.step = "extend_write"
          /\ job'.saved = block_time[job.castle]
          /\ job.step = "extend_read"
          /\ UNCHANGED <<block_time, is_blocked, tick>>
      BY <1>15 DEF ExtendRead, TypeOK, Jobs, castleVars
    <2> QED
      BY <1>3, <2>1 DEF BlockFactsAt, Inside
  <1>16. CASE ExtendWrite
    <2>1. /\ job'.castle = job.castle /\ job'.step = "attacked"
          /\ job.step = "extend_write"
          /\ UNCHANGED <<is_blocked, tick>>
      BY <1>16 DEF ExtendWrite, TypeOK, Jobs
    <2>2. CASE job.castle = d
      <3>1. block_time'[d] = job.saved + BLOCK_TIME
        BY <1>16, <2>2 DEF ExtendWrite, TypeOK
      <3> QED
        BY <1>3, <1>4, <2>1, <2>2, <3>1 DEF BlockFactsAt, Inside
    <2>3. CASE job.castle # d
      <3>1. block_time'[d] = block_time[d]
        BY <1>16, <2>3 DEF ExtendWrite, TypeOK
      <3> QED
        BY <1>5, <2>1, <2>3, <3>1 DEF Inside
    <2> QED
      BY <2>2, <2>3
  <1>17. CASE Attacked
    <2>1. job' = NoJob /\ job'.step = "idle" /\ UNCHANGED tick
      BY <1>17 DEF Attacked, NoJob
    <2>2. CASE job.castle = d
      <3>1. \A k \in TickThreads : ~Inside(k, d)
        BY <1>17, <2>2, Unlocked DEF Attacked
      <3>2. CASE is_blocked[d]
        <4>1. UNCHANGED <<block_time, is_blocked>>
          BY <1>17, <2>2, <3>2 DEF Attacked
        <4> QED
          BY <1>3, <2>1, <3>1, <3>2, <4>1 DEF BlockFactsAt, Inside
      <3>3. CASE ~is_blocked[d]
        <4>1. block_time'[d] = BLOCK_TIME /\ is_blocked'[d]
          BY <1>17, <2>2, <3>3 DEF Attacked, set_block, TypeOK
        <4> QED
          BY <1>7, <2>1, <3>1, <4>1
      <3> QED
        BY <3>2, <3>3
    <2>3. CASE job.castle # d
      <3>1. block_time'[d] = block_time[d] /\ is_blocked'[d] = is_blocked[d]
        BY <1>17, <2>3 DEF Attacked, set_block, TypeOK
      <3> QED
        BY <1>5, <2>1, <2>3, <3>1 DEF Inside
    <2> QED
      BY <2>2, <2>3
  <1>18. CASE Repelled
    <2>1. job'.step = "idle" /\ job.step = "repelled" /\ UNCHANGED tick
      BY <1>18 DEF Repelled, NoJob
    <2>2. CASE job.castle = d
      <3>1. \A k \in TickThreads : ~Inside(k, d)
        BY <1>18, <2>2, Unlocked DEF Repelled
      <3>2. block_time'[d] = 0
        BY <1>18, <2>2 DEF Repelled, remove_block, TypeOK
      <3> QED
        BY <1>7, <2>1, <3>1, <3>2
    <2>3. CASE job.castle # d
      <3>1. block_time'[d] = block_time[d] /\ is_blocked'[d] = is_blocked[d]
        BY <1>18, <2>3 DEF Repelled, remove_block, TypeOK
      <3> QED
        BY <1>5, <2>1, <3>1 DEF Inside
    <2> QED
      BY <2>2, <2>3
  <1>19. CASE PayAttack \/ PayDefence \/ Fortify
    <2>1. /\ job.step # "attacked"
          /\ job'.step \notin {"extend_read", "extend_write"}
      BY <1>19 DEF PayAttack, PayDefence, Fortify, NoJob, TypeOK, Jobs
    <2> QED
      BY <1>6, <1>19, <2>1 DEF PayAttack, PayDefence, Fortify, castleVars
  \* Steps of a tick outside reduce_block.
  <1>20. ASSUME NEW k \in TickThreads, NEW v, v.pc # "block_write",
                tick' = [tick EXCEPT ![k] = v],
                UNCHANGED <<block_time, is_blocked, job>>
         PROVE  BlockFactsAt(d)'
    BY <1>5, <1>20 DEF Inside, TypeOK
  <1>21. ASSUME NEW c PROVE AtCastle(c).pc # "block_write"
    BY DEF AtCastle, NoTick
  <1>22. ASSUME NEW f, NEW r PROVE AfterMine(f, r).pc # "block_write"
    BY <1>21 DEF AfterMine, AtMine
  <1>23. ASSUME NEW k \in TickThreads, StartTick(k)
         PROVE  BlockFactsAt(d)'
    <2>1. PICK v : /\ v \in {AtMine(1, "wood"), AtCastle(1)}
                   /\ tick' = [tick EXCEPT ![k] = v]
      BY <1>23 DEF StartTick
    <2>2. v.pc # "block_write"
      BY <1>21, <2>1 DEF AtMine
    <2> QED
      BY <1>20, <1>23, <2>1, <2>2 DEF StartTick, castleVars
  <1>24. ASSUME NEW k \in TickThreads, MineTick(k) \/ PayMine(k)
         PROVE  BlockFactsAt(d)'
    <2>1. PICK due :
            \/ tick' = [tick EXCEPT ![k] = AfterMine(tick[k].at, tick[k].res)]
            \/ tick' = [tick EXCEPT ![k] =
                         [tick[k] EXCEPT !.pc = "pay_mine", !.due = due]]
            \/ tick' = [tick EXCEPT ![k] = [tick[k] EXCEPT !.due = due]]
      BY <1>24 DEF MineTick, PayMine
    <2>2. /\ [tick[k] EXCEPT !.pc = "pay_mine", !.due = due].pc = "pay_mine"
          /\ [tick[k] EXCEPT !.due = due].pc = tick[k].pc
      BY DEF TypeOK, Ticks
    <2>3. tick[k].pc # "block_write"
      BY <1>24 DEF MineTick, PayMine
    <2>4. UNCHANGED <<block_time, is_blocked, job>>
      BY <1>24 DEF MineTick, PayMine, castleVars
    <2>5. PICK v : v.pc # "block_write" /\ tick' = [tick EXCEPT ![k] = v]
      BY <1>22, <2>1, <2>2, <2>3
    <2> QED
      BY <1>20, <2>4, <2>5
  <1>25. ASSUME NEW k \in TickThreads, NEW pc \in TickSteps \ {"block_write"}
         PROVE  /\ [tick[k] EXCEPT !.pc = pc].pc # "block_write"
                /\ \A due : [tick[k] EXCEPT !.pc = pc, !.due = due].pc
                              # "block_write"
    BY <1>25 DEF TypeOK, Ticks
  <1>26. ASSUME NEW k \in TickThreads,
                LookAtOwner(k) \/ reduce_gold_delay(k)
         PROVE  BlockFactsAt(d)'
    <2>1. PICK pc \in {"gold", "gold_owner", "block_read"} :
            tick' = [tick EXCEPT ![k] = [tick[k] EXCEPT !.pc = pc]]
      BY <1>26 DEF LookAtOwner, reduce_gold_delay, TypeOK
    <2>2. [tick[k] EXCEPT !.pc = pc].pc # "block_write"
      BY <1>25 DEF TickSteps
    <2> QED
      BY <1>20, <1>26, <2>1, <2>2 DEF LookAtOwner, reduce_gold_delay, castleVars
  <1>27. ASSUME NEW k \in TickThreads, LookUpPayee(k) \/ PayGold(k)
         PROVE  BlockFactsAt(d)'
    <2>1. \E pc \in {"pay_gold", "block_read"} : \E due :
            tick' = [tick EXCEPT ![k] = [tick[k] EXCEPT !.pc = pc, !.due = due]]
      BY <1>27 DEF LookUpPayee, PayGold, TypeOK
    <2>2. \A pc \in {"pay_gold", "block_read"} : \A due :
            [tick[k] EXCEPT !.pc = pc, !.due = due].pc # "block_write"
      BY <1>25 DEF TickSteps
    <2> QED
      BY <1>20, <1>27, <2>1, <2>2 DEF LookUpPayee, PayGold, castleVars
  <1>28. ASSUME NEW k \in TickThreads, BlockRead(k)
         PROVE  BlockFactsAt(d)'
    <2>1. /\ \A l \in TickThreads : l # k => tick'[l] = tick[l]
          /\ Inside(k, tick[k].at)'
          /\ tick'[k].at = tick[k].at
          /\ tick'[k].saved = block_time[tick[k].at]
          /\ UNCHANGED <<block_time, is_blocked, job>>
          /\ \A l \in TickThreads : ~Inside(l, tick[k].at)
      BY <1>28, Unlocked DEF BlockRead, TypeOK, Ticks, castleVars, Inside
    <2>2. CASE tick[k].at = d
      BY <1>3, <1>4, <2>1, <2>2 DEF BlockFactsAt, Inside
    <2>3. CASE tick[k].at # d
      BY <1>5, <2>1, <2>3 DEF Inside
    <2> QED
      BY <2>2, <2>3
  <1>29. ASSUME NEW k \in TickThreads, BlockWrite(k)
         PROVE  BlockFactsAt(d)'
    <2> DEFINE c == tick[k].at
    <2>1. /\ \A l \in TickThreads : l # k => tick'[l] = tick[l]
          /\ ~Inside(k, d)'
          /\ Inside(k, c)
          /\ UNCHANGED job
      BY <1>21, <1>29 DEF BlockWrite, TypeOK, Inside
    <2>2. CASE c = d
      <3>1. \A l \in TickThreads : ~Inside(l, d)'
        BY <1>3, <2>1, <2>2 DEF BlockFactsAt, Inside
      <3>2. CASE tick[k].saved > 0
        <4>1. /\ block_time'[d] = tick[k].saved - 1
              /\ is_blocked'[d] = is_blocked[d]
          BY <1>29, <2>2, <3>2 DEF BlockWrite, TypeOK
        <4> QED
          BY <1>3, <1>4, <2>1, <2>2, <3>1, <3>2, <4>1 DEF BlockFactsAt
      <3>3. CASE ~(tick[k].saved > 0)
        <4>1. /\ block_time'[d] = block_time[d]
              /\ tick[k].saved = 0
          BY <1>4, <1>29, <2>2, <3>3 DEF BlockWrite, TypeOK
        <4> QED
          BY <1>3, <1>4, <2>1, <2>2, <3>1, <4>1 DEF BlockFactsAt
      <3> QED
        BY <3>2, <3>3
    <2>3. CASE c # d
      <3>1. block_time'[d] = block_time[d] /\ is_blocked'[d] = is_blocked[d]
        BY <1>29, <2>3 DEF BlockWrite, TypeOK
      <3> QED
        BY <1>5, <2>1, <3>1 DEF Inside
    <2> QED
      BY <2>2, <2>3
  <1>30. CASE UNCHANGED vars
    BY <1>5, <1>30 DEF vars, castleVars, Inside
  <1> QED
    BY <1>8, <1>9, <1>10, <1>11, <1>12, <1>13, <1>14, <1>15, <1>16, <1>17,
       <1>18, <1>19, <1>23, <1>24, <1>26, <1>27, <1>28, <1>29, <1>30
    DEF Next, Message, Handler, Tick
-----------------------------------------------------------------------------
LEMMA IInvInit == Init => IInv
  <1> SUFFICES ASSUME Init PROVE IInv
    OBVIOUS
  <1>1. TypeOK
    BY TypeInit
  <1>2. /\ job = NoJob
        /\ \A c \in Castles : block_time[c] = 0
        /\ \A k \in TickThreads : tick[k] = NoTick
    BY DEF Init
  <1>3. JobShape /\ HandlerFactsHold /\ ExtensionFacts
    BY <1>2 DEF JobShape, HandlerFactsHold, ExtensionFacts, NoJob, AttackSteps
  <1>4. TickShape /\ PayeeExists /\ LockHolderKnows
    BY <1>2 DEF TickShape, PayeeExists, LockHolderKnows, NoTick
  <1>5. TimeLeftMeansBlocked /\ BlockIsBounded
    BY <1>2, AmountAssumption DEF TimeLeftMeansBlocked, BlockIsBounded
  <1> QED
    BY <1>1, <1>3, <1>4, <1>5 DEF IInv

LEMMA IInvNext == IInv /\ [Next]_vars => IInv'
  <1> SUFFICES ASSUME IInv, [Next]_vars PROVE IInv'
    OBVIOUS
  <1>1. TypeOK'
    BY TypeNext DEF IInv
  <1>2. JobShape'
    BY JobShapeNext DEF IInv
  <1>3. TickShape'
    BY TickShapeNext DEF IInv
  <1>4. HandlerFactsHold'
    BY FactsNext DEF IInv
  <1>5. PayeeExists'
    BY PayeeNext DEF IInv
  <1>6. BlockFacts'
    <2>1. BlockFacts
      BY DEF IInv, BlockFacts
    <2> QED
      BY <1>2, <1>3, <2>1, BlockFactsNext DEF IInv
  <1> QED
    BY <1>1, <1>2, <1>3, <1>4, <1>5, <1>6 DEF IInv, BlockFacts

\* The inductive invariant holds in every run of the server, with any number
\* of overlapping check_data threads.
THEOREM Invariance == Spec => []IInv
  BY IInvInit, IInvNext, PTL DEF Spec

\* Type correctness: the countdowns of reduce_time and reduce_gold_delay stay
\* in the range that lets their test for -1 fire.
THEOREM TypeCorrect == Spec => []TypeOK
  <1>1. IInv => TypeOK
    BY DEF IInv
  <1> QED
    BY <1>1, Invariance, PTL

\* What buy_attack, buy_defense and attack_castle tested before they went on
\* still holds when they use it, whatever ticks ran between.
THEOREM HandlersActOnFacts == Spec => []HandlerFactsHold
  <1>1. IInv => HandlerFactsHold
    BY DEF IInv
  <1> QED
    BY <1>1, Invariance, PTL

\* check_data never looks up team number None - 1.
THEOREM PayoutsFindATeam == Spec => []PayeeExists
  <1>1. IInv => PayeeExists
    BY DEF IInv
  <1> QED
    BY <1>1, Invariance, PTL

\* The unlocked `block_time += 60*5` of attack_castle and reduce_block leave
\* no castle with time on its block that can be attacked.
THEOREM BlocksHold == Spec => []TimeLeftMeansBlocked
  <1>1. IInv => TimeLeftMeansBlocked
    BY DEF IInv
  <1> QED
    BY <1>1, Invariance, PTL

\* ... nor with more than two blocks' time.
THEOREM BlocksAreBounded == Spec => []BlockIsBounded
  <1>1. IInv => BlockIsBounded
    BY DEF IInv
  <1> QED
    BY <1>1, Invariance, PTL
-----------------------------------------------------------------------------
\* A castle without a question left keeps its owner: check_answer's
\* "Not_found_question" is no right answer to a castle.
THEOREM ExhaustedCastlesStay == Spec => ExhaustedCastleStays
  <1> DEFINE Stays == \A c \in Castles :
                        question_id[c] \notin Questions =>
                          owner_id'[c] = owner_id[c]
  <1>1. TypeOK /\ [Next]_vars => Stays
    <2> SUFFICES ASSUME TypeOK, [Next]_vars PROVE Stays
      OBVIOUS
    <2>1. ASSUME NEW p \in Players, NEW c \in Castles, NEW a \in Answers,
                 AnswerRight(p, c, a)
          PROVE  Stays
      BY <2>1 DEF AnswerRight, CorrectAnswer, change_owner, TypeOK
    <2>2. ASSUME UNCHANGED owner_id
          PROVE  Stays
      BY <2>2
    <2>3. ASSUME NEW p \in Players,
                 \/ \E c \in Castles :
                      \/ AttackEmpty(p, c) \/ AttackOwned(p, c)
                      \/ CloseDialog(p, c)
                      \/ \E a \in Answers : AnswerWrong(p, c, a)
                      \/ \E i \in DefenceItems : BuyDefence(p, c, i)
                 \/ \E f \in Fields, r \in MineKinds, a \in Answers :
                      AnswerMine(p, f, r, a)
                 \/ \E i \in AttackItems : BuyAttack(p, i)
          PROVE  Stays
      BY <2>2, <2>3 DEF AttackEmpty, AttackOwned, CloseDialog, AnswerWrong,
         BuyDefence, AnswerMine, BuyAttack, castleVars
    <2>4. CASE Handler
      BY <2>2, <2>4 DEF Handler, ExtendRead, ExtendWrite, Attacked, Repelled,
         PayAttack, PayDefence, Fortify, castleVars
    <2>5. ASSUME NEW k \in TickThreads, Tick(k)
          PROVE  Stays
      BY <2>2, <2>5 DEF Tick, StartTick, MineTick, PayMine, LookAtOwner,
         reduce_gold_delay, LookUpPayee, PayGold, BlockRead, BlockWrite,
         castleVars
    <2>6. CASE UNCHANGED vars
      BY <2>2, <2>6 DEF vars, castleVars
    <2> QED
      BY <2>1, <2>3, <2>4, <2>5, <2>6 DEF Next, Message
  <1>2. TypeOK /\ [Next]_vars => [Stays]_vars
    BY <1>1
  <1> QED
    BY <1>2, TypeCorrect, PTL DEF Spec, ExhaustedCastleStays

-----------------------------------------------------------------------------
\* A step of the server is a purchase, a payout or a stutter of the ledger.
LEMMA BooksNext ==
  ASSUME IInv, [Next]_vars
  PROVE  [Books!Next]_resources
  <1> USE DEF Books!Next
  <1>1. ASSUME NEW t \in Teams, NEW r \in Resources, add_resource(t, r)
        PROVE  Books!Next
    BY <1>1 DEF add_resource, Books!Earn
  <1>2. ASSUME NEW t \in Teams, NEW i \in Items, is_enough(t, i), Charge(t, i)
        PROVE  Books!Next
    <2>1. resources' = [resources EXCEPT ![t] =
                         [r \in Resources |-> resources[t][r] - Price[i][r]]]
      BY <1>2 DEF is_enough, Charge
    <2> QED
      BY <1>2, <2>1 DEF is_enough, Books!Buy
  <1>3. ASSUME PayAttack \/ PayDefence
        PROVE  Books!Next
    <2>1. JobTeam \in Teams /\ job.item \in Items
      BY <1>3, PeopleAssumption
      DEF PayAttack, PayDefence, IInv, JobShape, JobTeam, Items
    <2>2. is_enough(JobTeam, job.item) /\ Charge(JobTeam, job.item)
      BY <1>3 DEF PayAttack, PayDefence, IInv, HandlerFactsHold
    <2> QED
      BY <1>2, <2>1, <2>2
  <1>4. ASSUME NEW k \in TickThreads, PayMine(k)
        PROVE  Books!Next
    <2>1. tick[k].res \in Resources
      BY <1>4 DEF PayMine, IInv, TickShape, Resources
    <2>2. PICK t \in tick[k].due : add_resource(t, tick[k].res)
      BY <1>4 DEF PayMine
    <2> QED
      BY <1>1, <2>1, <2>2 DEF IInv, PayeeExists
  <1>5. ASSUME NEW k \in TickThreads, PayGold(k)
        PROVE  Books!Next
    <2>1. PICK t \in tick[k].due : add_resource(t, "gold")
      BY <1>5 DEF PayGold
    <2> QED
      BY <1>1, <2>1 DEF IInv, PayeeExists, Resources
  <1>6. CASE Message
    <2>1. UNCHANGED resources
      BY <1>6 DEF Message, AttackEmpty, AttackOwned, CloseDialog, AnswerRight,
         AnswerWrong, BuyDefence, AnswerMine, BuyAttack, teamVars
    <2> QED
      BY <2>1
  <1>7. ASSUME ExtendRead \/ ExtendWrite \/ Attacked \/ Repelled \/ Fortify
        PROVE  UNCHANGED resources
    BY <1>7 DEF ExtendRead, ExtendWrite, Attacked, Repelled, Fortify, teamVars
  <1>8. ASSUME NEW k \in TickThreads,
               \/ StartTick(k) \/ MineTick(k) \/ LookAtOwner(k)
               \/ reduce_gold_delay(k) \/ LookUpPayee(k) \/ BlockRead(k)
               \/ BlockWrite(k)
        PROVE  UNCHANGED resources
    BY <1>8 DEF StartTick, MineTick, LookAtOwner, reduce_gold_delay,
       LookUpPayee, BlockRead, BlockWrite, teamVars
  <1>9. CASE UNCHANGED vars
    BY <1>9 DEF vars, teamVars
  <1> QED
    BY <1>3, <1>4, <1>5, <1>6, <1>7, <1>8, <1>9 DEF Next, Handler, Tick

\* buy_item and add_resource keep the teams' books, although buy_item tests
\* for the price outside the lock under which it takes it.
THEOREM BooksAreKept == Spec => KeepsBooks
  <1>1. Init => Books!Init
    BY DEF Init, Books!Init
  <1>2. IInv /\ [Next]_vars => [Books!Next]_resources
    BY BooksNext
  <1> QED
    BY <1>1, <1>2, Invariance, PTL DEF Spec, KeepsBooks, Books!Spec

-----------------------------------------------------------------------------
\* A step of the server is a challenge, an answer, a wall or a stutter of the
\* rules.
LEMMA RulesNext ==
  ASSUME IInv, [Next]_vars
  PROVE  [Rules!Next]_(Rules!vars)
  <1> USE DEF Rules!Next, Rules!vars
  <1>1. ASSUME UNCHANGED <<owner_id, question_id, defence, dialogs>>
        PROVE  [Rules!Next]_(Rules!vars)
    BY <1>1
  <1>2. ASSUME NEW p \in Players, NEW c \in Castles, ShowQuestion(p, c),
               owner_id[c] # TeamOf[p],
               UNCHANGED <<owner_id, question_id, defence>>
        PROVE  [Rules!Next]_(Rules!vars)
    <2>1. CASE question_id[c] \in Questions
      BY <1>2, <2>1 DEF ShowQuestion, Rules!Challenge
    <2>2. CASE question_id[c] \notin Questions
      <3>1. dialogs' = dialogs
        BY <1>2, <2>2 DEF ShowQuestion, IInv, TypeOK
      <3> QED
        BY <1>1, <1>2, <3>1
    <2> QED
      BY <2>1, <2>2
  <1>3. ASSUME NEW p \in Players, NEW c \in Castles, AttackEmpty(p, c)
        PROVE  [Rules!Next]_(Rules!vars)
    <2>1. owner_id[c] # TeamOf[p]
      BY <1>3, PeopleAssumption DEF AttackEmpty
    <2> QED
      BY <1>2, <1>3, <2>1 DEF AttackEmpty
  <1>4. CASE Attacked
    <2>1. /\ job.player \in Players /\ job.castle \in Castles
          /\ owner_id[job.castle] # TeamOf[job.player]
      BY <1>4 DEF Attacked, IInv, JobShape, HandlerFactsHold, AttackSteps,
         JobTeam
    <2> QED
      BY <1>2, <1>4, <2>1 DEF Attacked
  <1>5. ASSUME NEW p \in Players, NEW c \in Castles, NEW a \in Answers,
               AnswerRight(p, c, a)
        PROVE  [Rules!Next]_(Rules!vars)
    <2>1. owner_id' = [owner_id EXCEPT ![c] = TeamOf[p]]
      BY <1>5 DEF AnswerRight, change_owner, IInv, TypeOK
    <2> QED
      BY <1>5, <2>1 DEF AnswerRight, AnswerCastle, CorrectAnswer,
         change_question, Rules!Win, Rules!UseChallenge
  <1>6. ASSUME NEW p \in Players, NEW c \in Castles,
               CloseDialog(p, c) \/ \E a \in Answers : AnswerWrong(p, c, a)
        PROVE  [Rules!Next]_(Rules!vars)
    BY <1>6 DEF CloseDialog, AnswerWrong, AnswerCastle, castleVars,
       Rules!Lose, Rules!UseChallenge
  <1>7. CASE Fortify
    <2>1. /\ job.castle \in Castles /\ job.item \in DefenceItems
          /\ owner_id[job.castle] \in Teams
          /\ ItemValue[job.item] > defence[job.castle]
      BY <1>7, PeopleAssumption
      DEF Fortify, IInv, JobShape, HandlerFactsHold, JobTeam
    <2> QED
      BY <1>7, <2>1 DEF Fortify, Rules!Raise
  <1>8. ASSUME NEW p \in Players,
               \/ \E c \in Castles : AttackOwned(p, c)
               \/ \E c \in Castles, i \in DefenceItems : BuyDefence(p, c, i)
               \/ \E f \in Fields, r \in MineKinds, a \in Answers :
                    AnswerMine(p, f, r, a)
               \/ \E i \in AttackItems : BuyAttack(p, i)
        PROVE  [Rules!Next]_(Rules!vars)
    BY <1>1, <1>8 DEF AttackOwned, BuyDefence, AnswerMine, BuyAttack,
       castleVars
  <1>9. CASE ExtendRead \/ ExtendWrite \/ Repelled \/ PayAttack \/ PayDefence
    BY <1>1, <1>9 DEF ExtendRead, ExtendWrite, Repelled, PayAttack,
       PayDefence, castleVars
  <1>10. ASSUME NEW k \in TickThreads, Tick(k)
         PROVE  [Rules!Next]_(Rules!vars)
    BY <1>1, <1>10 DEF Tick, StartTick, MineTick, PayMine, LookAtOwner,
       reduce_gold_delay, LookUpPayee, PayGold, BlockRead, BlockWrite,
       castleVars
  <1>11. CASE UNCHANGED vars
    BY <1>1, <1>11 DEF vars, castleVars
  <1> QED
    BY <1>3, <1>4, <1>5, <1>6, <1>7, <1>8, <1>9, <1>10, <1>11
    DEF Next, Message, Handler

\* Attacks, answers, purchases and ticks together implement the rules of
\* conquest.
THEOREM ConquestImplemented == Spec => ConquestRules
  <1>1. Init => Rules!Init
    BY DEF Init, Rules!Init
  <1>2. IInv /\ [Next]_vars => [Rules!Next]_(Rules!vars)
    BY RulesNext
  <1> QED
    BY <1>1, <1>2, Invariance, PTL DEF Spec, ConquestRules, Rules!Spec
=============================================================================
