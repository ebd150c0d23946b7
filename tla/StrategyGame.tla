---------------------------- MODULE StrategyGame ----------------------------
(***************************************************************************)
(* The server of the multiplayer strategy game                             *)
(* (src/simple-multiplayer-strategy-game-master/src/server).               *)
(*                                                                         *)
(* Two kinds of threads share the teams, the fields and the castles:       *)
(*                                                                         *)
(*  - the main thread takes one client message at a time (process_mess in  *)
(*    server.py) and runs the controller's handler for it;                 *)
(*  - every second a Timer thread runs check_data (model/scheduler.py).    *)
(*    A tick starts its successor before it does its own work, so ticks    *)
(*    may overlap: TickThreads bounds how many are at work at once.        *)
(*                                                                         *)
(* An action is the longest piece of a handler or of a tick that no other  *)
(* thread can see the middle of: code under one lock, or reads of data     *)
(* that only the reading thread writes.  The unlocked                      *)
(* `castle.block_time += 60*5` of attack_castle is a read and a write, and *)
(* so is the locked `self.block_time -= 1` of reduce_block it races with.  *)
(* Nothing bounds how many ticks pass between two steps of a handler.      *)
(*                                                                         *)
(* A handler that changes nothing (castle blocked, wrong mine answer, not  *)
(* enough resources...) is a stuttering step and has no action.            *)
(***************************************************************************)
EXTENDS Naturals

CONSTANTS
  Teams,           (* team ids                                              *)
  Players,         (* clients that have joined a team                       *)
  TeamOf,          (* the team each player joined                           *)
  NumCastles,      (* castles have ids 1..NumCastles                        *)
  NumFields,       (* fields have ids 1..NumFields                          *)
  TickThreads,     (* bound: ticks at work at the same time                 *)
  MaxDialogs,      (* bound: question windows a player has open per castle  *)
  Questions,       (* ids in question.csv                                   *)
  Answers,         (* what a player can tick in the question window         *)
  Key,             (* the answer column of question.csv                     *)
  CastleQuestion,  (* castles.csv: a castle's first question                *)
  FieldQuestion,   (* fields.csv: the question of each resource of a field  *)
  AttackItems,     (* ITEM['attack']                                        *)
  DefenceItems,    (* ITEM['defence']                                       *)
  ItemValue,       (* 'value' of an item                                    *)
  Price,           (* 'resources' of an item, 0 where it names no amount    *)
  Value,           (* VALUE of interval.py                                  *)
  InitialStock,    (* a team's resources when the game starts               *)
  BLOCK_TIME,      (* 5 * 60                                                *)
  GOLD_DELAY,      (* 30                                                    *)
  MINE_DELAY,      (* 30                                                    *)
  None             (* Python's None                                         *)

Castles   == 1..NumCastles
Fields    == 1..NumFields
Items     == AttackItems \cup DefenceItems
Resources == {"wood", "stone", "iron", "gold"}
MineKinds == {"wood", "stone", "iron"}

ASSUME PeopleAssumption ==
  /\ None \notin Teams \cup Players \cup Items
  /\ TeamOf \in [Players -> Teams]

ASSUME BoardAssumption ==
  /\ NumCastles \in Nat
  /\ NumFields \in Nat
  /\ Questions \subseteq Nat
  /\ CastleQuestion \in [Castles -> Nat]
  /\ FieldQuestion \in [Fields -> [MineKinds -> Nat]]

ASSUME ItemAssumption ==
  /\ ItemValue \in [Items -> Nat \ {0}]
  /\ Price \in [Items -> [Resources -> Nat]]

ASSUME AmountAssumption ==
  /\ Value \in [Resources -> Nat]
  /\ InitialStock \in [Resources -> Nat]
  /\ BLOCK_TIME \in Nat
  /\ GOLD_DELAY \in Nat
  /\ MINE_DELAY \in Nat
  /\ MaxDialogs \in Nat

VARIABLES
  owner_id,        (* Castle: the team that holds it, or None               *)
  defence,         (* Castle: strength of its wall                          *)
  is_blocked,      (* Castle: refuses attacks                               *)
  block_time,      (* Castle: ticks until the block is lifted               *)
  team_attacking,  (* Castle: set by attacked()                             *)
  question_id,     (* Castle: the question an attacker must answer          *)
  gold_delay,      (* Castle: ticks until its owner is paid                 *)
  resources,       (* Team: amount of each resource                         *)
  inventory,       (* Team: the one attack item it has, or None             *)
  solvers,         (* Field: the solving teams' counters, per resource      *)
  dialogs,         (* clients: open question windows per castle             *)
  job,             (* main thread: the handler at work                      *)
  tick             (* timer threads: the tick each has at work              *)

castleVars == <<owner_id, defence, is_blocked, block_time, team_attacking,
                question_id, gold_delay>>
teamVars   == <<resources, inventory>>
vars       == <<castleVars, teamVars, solvers, dialogs, job, tick>>

NoJob  == [step |-> "idle", player |-> None, castle |-> 0, item |-> None,
           saved |-> 0]
NoTick == [pc |-> "idle", at |-> 0, res |-> "none", saved |-> 0, due |-> {}]

Init ==
  /\ owner_id       = [c \in Castles |-> None]
  /\ defence        = [c \in Castles |-> 0]
  /\ is_blocked     = [c \in Castles |-> FALSE]
  /\ block_time     = [c \in Castles |-> 0]
  /\ team_attacking = [c \in Castles |-> None]
  /\ question_id    = CastleQuestion
  /\ gold_delay     = [c \in Castles |-> GOLD_DELAY]
  /\ resources      = [t \in Teams |-> InitialStock]
  /\ inventory      = [t \in Teams |-> None]
  /\ solvers        = [f \in Fields |-> [r \in MineKinds |-> [t \in {} |-> 0]]]
  /\ dialogs        = [p \in Players |-> [c \in Castles |-> 0]]
  /\ job            = NoJob
  /\ tick           = [k \in TickThreads |-> NoTick]

-----------------------------------------------------------------------------
(***************************************************************************)
(* What the handlers are built from.                                       *)
(***************************************************************************)

\* Each operator whose comment begins with "Fault:" is the definition after
\* it with one plausible slip: a property that cannot tell the two apart
\* would say nothing about the code.

\* Only reduce_block holds a castle's lock for longer than one action.
CastleLocked(c) ==
  \E k \in TickThreads : tick[k].pc = "block_write" /\ tick[k].at = c

\* Fault: the block is added to what is left, not set.
set_block_adds(c) ==
  /\ block_time' = [block_time EXCEPT ![c] = @ + BLOCK_TIME]
  /\ is_blocked' = [is_blocked EXCEPT ![c] = TRUE]

set_block(c) ==
  /\ block_time' = [block_time EXCEPT ![c] = BLOCK_TIME]
  /\ is_blocked' = [is_blocked EXCEPT ![c] = TRUE]

remove_block(c) ==
  /\ block_time' = [block_time EXCEPT ![c] = 0]
  /\ is_blocked' = [is_blocked EXCEPT ![c] = FALSE]

\* None is no key of ITEM['attack'], so an unarmed team beats no wall.
is_attack_success(c, item) ==
  \/ defence[c] = 0
  \/ item # None /\ defence[c] <= ItemValue[item]

\* Fault: the last resource in the price decides alone.
is_enough_of_gold(t, i) == resources[t]["gold"] >= Price[i]["gold"]

is_enough(t, i) == \A r \in Resources : resources[t][r] >= Price[i][r]

\* buy_item under the team's lock: a resource there is too little of is left.
Charge(t, i) ==
  resources' = [resources EXCEPT ![t] =
    [r \in Resources |-> IF @[r] >= Price[i][r] THEN @[r] - Price[i][r]
                                                ELSE @[r]]]

\* Fault: any true value counts, "Not_found_question" among them.
AnyTruthyAnswer(q, a) == q \in Questions => Key[q] = a

\* check_answer, for a castle: only True counts.
CorrectAnswer(q, a) == q \in Questions /\ Key[q] = a

\* check_answer, for a mine: "Not_found_question" counts as true.
AcceptedAnswer(q, a) == q \in Questions => Key[q] = a

\* The reply to an attack holds the castle's question.  Without a question
\* the client's window is never drawn and there is nothing to answer.
ShowQuestion(p, c) ==
  dialogs' = [dialogs EXCEPT ![p][c] =
                IF question_id[c] \in Questions THEN @ + 1 ELSE @]

Begin(step, p, c, i) ==
  job' = [step |-> step, player |-> p, castle |-> c, item |-> i, saved |-> 0]

JobTeam == TeamOf[job.player]

-----------------------------------------------------------------------------
(***************************************************************************)
(* Main thread: attacking a castle (0x0501).                               *)
(***************************************************************************)

\* A player presses Attack on a castle the server does not report blocked.
CanAttack(p, c) ==
  /\ job = NoJob
  /\ dialogs[p][c] < MaxDialogs
  /\ ~is_blocked[c]
  /\ ~CastleLocked(c)

\* check_castle blocks a castle nobody owns; the question follows.
AttackEmpty(p, c) ==
  /\ CanAttack(p, c)
  /\ owner_id[c] = None
  /\ set_block(c)
  /\ ShowQuestion(p, c)
  /\ UNCHANGED <<owner_id, defence, team_attacking, question_id, gold_delay,
                 teamVars, solvers, job, tick>>

\* Fault: "our_castle" is not told apart.
AttackAnyOwned(p, c) ==
  /\ CanAttack(p, c)
  /\ owner_id[c] # None
  /\ set_block(c)
  /\ Begin(IF is_attack_success(c, inventory[TeamOf[p]])
             THEN "extend_read" ELSE "repelled", p, c, None)
  /\ UNCHANGED <<owner_id, defence, team_attacking, question_id, gold_delay,
                 teamVars, solvers, dialogs, tick>>

\* attack_castle blocks another team's castle, then compares item and wall.
AttackOwned(p, c) ==
  /\ CanAttack(p, c)
  /\ owner_id[c] \notin {None, TeamOf[p]}
  /\ set_block(c)
  /\ Begin(IF is_attack_success(c, inventory[TeamOf[p]])
             THEN "extend_read" ELSE "repelled", p, c, None)
  /\ UNCHANGED <<owner_id, defence, team_attacking, question_id, gold_delay,
                 teamVars, solvers, dialogs, tick>>

\* castle.block_time += 60*5, without the lock: the read ...
ExtendRead ==
  /\ job.step = "extend_read"
  /\ job' = [job EXCEPT !.step = "extend_write",
                        !.saved = block_time[job.castle]]
  /\ UNCHANGED <<castleVars, teamVars, solvers, dialogs, tick>>

\* ... and the write.
ExtendWrite ==
  /\ job.step = "extend_write"
  /\ block_time' = [block_time EXCEPT ![job.castle] = job.saved + BLOCK_TIME]
  /\ job' = [job EXCEPT !.step = "attacked", !.saved = 0]
  /\ UNCHANGED <<owner_id, defence, is_blocked, team_attacking, question_id,
                 gold_delay, teamVars, solvers, dialogs, tick>>

\* Fault: attacked calls set_block, which waits for the lock it holds.
AttackedWaits ==
  LET c == job.castle IN
  /\ job.step = "attacked"
  /\ ~CastleLocked(c)
  /\ is_blocked[c]
  /\ ShowQuestion(job.player, c)
  /\ job' = NoJob
  /\ UNCHANGED <<owner_id, defence, is_blocked, block_time, team_attacking,
                 question_id, gold_delay, teamVars, solvers, tick>>

\* attacked() does nothing to a castle that is still blocked.
Attacked ==
  LET c == job.castle IN
  /\ job.step = "attacked"
  /\ ~CastleLocked(c)
  /\ IF is_blocked[c]
       THEN UNCHANGED <<is_blocked, block_time, team_attacking>>
       ELSE /\ set_block(c)
            /\ team_attacking' = [team_attacking EXCEPT ![c] = JobTeam]
  /\ ShowQuestion(job.player, c)
  /\ job' = NoJob
  /\ UNCHANGED <<owner_id, defence, question_id, gold_delay, teamVars,
                 solvers, tick>>

\* A failed attack lifts the block and costs the attacker its item.
Repelled ==
  /\ job.step = "repelled"
  /\ ~CastleLocked(job.castle)
  /\ remove_block(job.castle)
  /\ inventory' = [inventory EXCEPT ![JobTeam] = None]
  /\ job' = NoJob
  /\ UNCHANGED <<owner_id, defence, team_attacking, question_id, gold_delay,
                 resources, solvers, dialogs, tick>>

-----------------------------------------------------------------------------
(***************************************************************************)
(* Main thread: answering a castle's question (0x0701).                    *)
(***************************************************************************)

\* The window closes when its answer is sent.  The server judges the answer
\* by the question the castle has now, and asks neither who blocked the
\* castle nor whether it is still blocked.
AnswerCastle(p, c) ==
  /\ job = NoJob
  /\ dialogs[p][c] > 0
  /\ ~CastleLocked(c)
  /\ dialogs' = [dialogs EXCEPT ![p][c] = @ - 1]

change_owner(c, t) ==
  IF owner_id[c] = t
    THEN UNCHANGED <<owner_id, gold_delay>>
    ELSE /\ owner_id' = [owner_id EXCEPT ![c] = t]
         /\ gold_delay' = [gold_delay EXCEPT ![c] = GOLD_DELAY]

change_question(c) == question_id' = [question_id EXCEPT ![c] = @ + 3]

AnswerRight(p, c, a) ==
  /\ AnswerCastle(p, c)
  /\ CorrectAnswer(question_id[c], a)
  /\ change_owner(c, TeamOf[p])
  /\ change_question(c)
  /\ UNCHANGED <<defence, is_blocked, block_time, team_attacking, teamVars,
                 solvers, job, tick>>

AnswerWrong(p, c, a) ==
  /\ AnswerCastle(p, c)
  /\ ~CorrectAnswer(question_id[c], a)
  /\ remove_block(c)
  /\ UNCHANGED <<owner_id, defence, team_attacking, question_id, gold_delay,
                 teamVars, solvers, job, tick>>

\* The player closes a question window without answering.
CloseDialog(p, c) ==
  /\ dialogs[p][c] > 0
  /\ dialogs' = [dialogs EXCEPT ![p][c] = @ - 1]
  /\ UNCHANGED <<castleVars, teamVars, solvers, job, tick>>

-----------------------------------------------------------------------------
(***************************************************************************)
(* Main thread: mines and purchases (0x0301, 0x0401, 0x0601).              *)
(***************************************************************************)

\* check_answer_mine.  Asking for the question (0x0201) changes nothing.
AnswerMine(p, f, r, a) ==
  LET t == TeamOf[p] IN
  /\ job = NoJob
  /\ t \notin DOMAIN solvers[f][r]
  /\ AcceptedAnswer(FieldQuestion[f][r], a)
  /\ solvers' = [solvers EXCEPT ![f][r] =
       [u \in DOMAIN @ \cup {t} |-> IF u = t THEN MINE_DELAY ELSE @[u]]]
  /\ UNCHANGED <<castleVars, teamVars, dialogs, job, tick>>

\* Fault: the price is not tested before it is taken.
BuyAttackUnchecked(p, i) ==
  LET t == TeamOf[p] IN
  /\ job = NoJob
  /\ inventory[t] # None => ItemValue[i] > ItemValue[inventory[t]]
  /\ Begin("pay_attack", p, 0, i)
  /\ UNCHANGED <<castleVars, teamVars, solvers, dialogs, tick>>

\* buy_attack up to the unlocked test of buy_item.
BuyAttack(p, i) ==
  LET t == TeamOf[p] IN
  /\ job = NoJob
  /\ inventory[t] # None => ItemValue[i] > ItemValue[inventory[t]]
  /\ is_enough(t, i)
  /\ Begin("pay_attack", p, 0, i)
  /\ UNCHANGED <<castleVars, teamVars, solvers, dialogs, tick>>

PayAttack ==
  /\ job.step = "pay_attack"
  /\ Charge(JobTeam, job.item)
  /\ inventory' = [inventory EXCEPT ![JobTeam] = job.item]
  /\ job' = NoJob
  /\ UNCHANGED <<castleVars, solvers, dialogs, tick>>

\* Fault: anybody may wall a castle.
BuyDefenceAnywhere(p, c, i) ==
  LET t == TeamOf[p] IN
  /\ job = NoJob
  /\ ItemValue[i] > defence[c]
  /\ is_enough(t, i)
  /\ Begin("pay_defence", p, c, i)
  /\ UNCHANGED <<castleVars, teamVars, solvers, dialogs, tick>>

\* Fault: the price of a wall is not tested before it is taken.
BuyDefenceUnchecked(p, c, i) ==
  LET t == TeamOf[p] IN
  /\ job = NoJob
  /\ owner_id[c] = t
  /\ ItemValue[i] > defence[c]
  /\ Begin("pay_defence", p, c, i)
  /\ UNCHANGED <<castleVars, teamVars, solvers, dialogs, tick>>

\* buy_defense up to the unlocked test of buy_item.  An unwalled castle has
\* defence 0, which any wall exceeds.
BuyDefence(p, c, i) ==
  LET t == TeamOf[p] IN
  /\ job = NoJob
  /\ owner_id[c] = t
  /\ ItemValue[i] > defence[c]
  /\ is_enough(t, i)
  /\ Begin("pay_defence", p, c, i)
  /\ UNCHANGED <<castleVars, teamVars, solvers, dialogs, tick>>

PayDefence ==
  /\ job.step = "pay_defence"
  /\ Charge(JobTeam, job.item)
  /\ job' = [job EXCEPT !.step = "fortify"]
  /\ UNCHANGED <<castleVars, inventory, solvers, dialogs, tick>>

Fortify ==
  /\ job.step = "fortify"
  /\ defence' = [defence EXCEPT ![job.castle] = ItemValue[job.item]]
  /\ job' = NoJob
  /\ UNCHANGED <<owner_id, is_blocked, block_time, team_attacking,
                 question_id, gold_delay, teamVars, solvers, dialogs, tick>>

-----------------------------------------------------------------------------
(***************************************************************************)
(* A tick: check_data.                                                     *)
(***************************************************************************)

AtMine(f, r) ==
  [pc |-> "mine", at |-> f, res |-> r, saved |-> 0, due |-> {}]

\* The loop `for castle in castles`, from castle c on.
AtCastle(c) ==
  IF c \in Castles THEN [NoTick EXCEPT !.pc = "castle", !.at = c] ELSE NoTick

\* The loops over fields and RESOURCES[:2], that is wood and stone.
AfterMine(f, r) ==
  CASE r = "wood"                   -> AtMine(f, "stone")
    [] r # "wood" /\ f < NumFields  -> AtMine(f + 1, "wood")
    [] OTHER                        -> AtCastle(1)

StartTick(k) ==
  /\ tick[k] = NoTick
  /\ tick' = [tick EXCEPT ![k] =
                IF NumFields > 0 THEN AtMine(1, "wood") ELSE AtCastle(1)]
  /\ UNCHANGED <<castleVars, teamVars, solvers, dialogs, job>>

\* Fault: a counter stops at 0, so the test for -1 never succeeds.
MineTickStops(k) ==
  LET f == tick[k].at
      r == tick[k].res
  IN
  /\ tick[k].pc = "mine"
  /\ solvers' = [solvers EXCEPT ![f][r] =
       [t \in DOMAIN @ |-> IF @[t] = 0 THEN 0 ELSE @[t] - 1]]
  /\ tick' = [tick EXCEPT ![k] = AfterMine(f, r)]
  /\ UNCHANGED <<castleVars, teamVars, dialogs, job>>

\* reduce_time: a counter that falls to -1 starts again and its team is due.
MineTick(k) ==
  LET f   == tick[k].at
      r   == tick[k].res
      due == {t \in DOMAIN solvers[f][r] : solvers[f][r][t] = 0}
  IN
  /\ tick[k].pc = "mine"
  /\ solvers' = [solvers EXCEPT ![f][r] =
       [t \in DOMAIN @ |-> IF t \in due THEN MINE_DELAY ELSE @[t] - 1]]
  /\ tick' = [tick EXCEPT ![k] =
       IF due = {} THEN AfterMine(f, r)
                   ELSE [@ EXCEPT !.pc = "pay_mine", !.due = due]]
  /\ UNCHANGED <<castleVars, teamVars, dialogs, job>>

add_resource(t, r) ==
  resources' = [resources EXCEPT ![t][r] = @ + Value[r]]

\* The teams that are due are paid one by one.
PayMine(k) ==
  /\ tick[k].pc = "pay_mine"
  /\ \E t \in tick[k].due :
       /\ add_resource(t, tick[k].res)
       /\ tick' = [tick EXCEPT ![k] =
            IF @.due = {t} THEN AfterMine(@.at, @.res)
                           ELSE [@ EXCEPT !.due = tick[k].due \ {t}]]
  /\ UNCHANGED <<castleVars, inventory, solvers, dialogs, job>>

\* Fault: no test for an owner.
LookAtNoOwner(k) ==
  /\ tick[k].pc = "castle"
  /\ tick' = [tick EXCEPT ![k].pc = "gold"]
  /\ UNCHANGED <<castleVars, teamVars, solvers, dialogs, job>>

\* if castle.owner_id is not None, without the lock.
LookAtOwner(k) ==
  /\ tick[k].pc = "castle"
  /\ tick' = [tick EXCEPT ![k].pc =
       IF owner_id[tick[k].at] = None THEN "block_read" ELSE "gold"]
  /\ UNCHANGED <<castleVars, teamVars, solvers, dialogs, job>>

\* Fault: the counter is not started again.
gold_delay_runs_out(k) ==
  LET c == tick[k].at IN
  /\ tick[k].pc = "gold"
  /\ ~CastleLocked(c)
  /\ gold_delay' = [gold_delay EXCEPT ![c] = IF @ = 0 THEN GOLD_DELAY + 1
                                                      ELSE @ - 1]
  /\ tick' = [tick EXCEPT ![k].pc =
                IF gold_delay[c] = 0 THEN "gold_owner" ELSE "block_read"]
  /\ UNCHANGED <<owner_id, defence, is_blocked, block_time, team_attacking,
                 question_id, teamVars, solvers, dialogs, job>>

\* Fault: the counter starts again but the caller is not told.
gold_delay_unnoticed(k) ==
  LET c == tick[k].at IN
  /\ tick[k].pc = "gold"
  /\ ~CastleLocked(c)
  /\ gold_delay' = [gold_delay EXCEPT ![c] =
                      IF @ = 0 THEN GOLD_DELAY ELSE @ - 1]
  /\ tick' = [tick EXCEPT ![k].pc = "block_read"]
  /\ UNCHANGED <<owner_id, defence, is_blocked, block_time, team_attacking,
                 question_id, teamVars, solvers, dialogs, job>>

reduce_gold_delay(k) ==
  LET c == tick[k].at IN
  /\ tick[k].pc = "gold"
  /\ ~CastleLocked(c)
  /\ gold_delay' = [gold_delay EXCEPT ![c] =
                      IF @ = 0 THEN GOLD_DELAY ELSE @ - 1]
  /\ tick' = [tick EXCEPT ![k].pc =
                IF gold_delay[c] = 0 THEN "gold_owner" ELSE "block_read"]
  /\ UNCHANGED <<owner_id, defence, is_blocked, block_time, team_attacking,
                 question_id, teamVars, solvers, dialogs, job>>

\* teams[castle.owner_id - 1]: the owner is read a second time.
LookUpPayee(k) ==
  /\ tick[k].pc = "gold_owner"
  /\ tick' = [tick EXCEPT ![k].pc = "pay_gold",
                          ![k].due = {owner_id[tick[k].at]}]
  /\ UNCHANGED <<castleVars, teamVars, solvers, dialogs, job>>

PayGold(k) ==
  /\ tick[k].pc = "pay_gold"
  /\ \E t \in tick[k].due : add_resource(t, "gold")
  /\ tick' = [tick EXCEPT ![k].pc = "block_read", ![k].due = {}]
  /\ UNCHANGED <<castleVars, inventory, solvers, dialogs, job>>

\* reduce_block takes the lock and reads block_time ...
BlockRead(k) ==
  LET c == tick[k].at IN
  /\ tick[k].pc = "block_read"
  /\ ~CastleLocked(c)
  /\ tick' = [tick EXCEPT ![k].pc = "block_write", ![k].saved = block_time[c]]
  /\ UNCHANGED <<castleVars, teamVars, solvers, dialogs, job>>

\* Fault: off by one, the block is lifted with a second left.
BlockWriteEarly(k) ==
  LET c == tick[k].at IN
  /\ tick[k].pc = "block_write"
  /\ IF tick[k].saved > 1
       THEN /\ block_time' = [block_time EXCEPT ![c] = tick[k].saved - 1]
            /\ UNCHANGED is_blocked
       ELSE /\ is_blocked' = [is_blocked EXCEPT ![c] = FALSE]
            /\ UNCHANGED block_time
  /\ tick' = [tick EXCEPT ![k] = AtCastle(c + 1)]
  /\ UNCHANGED <<owner_id, defence, team_attacking, question_id, gold_delay,
                 teamVars, solvers, dialogs, job>>

\* Fault: the flag is not cleared when the time is over.
BlockWriteKeeps(k) ==
  LET c == tick[k].at IN
  /\ tick[k].pc = "block_write"
  /\ block_time' = [block_time EXCEPT ![c] =
                      IF tick[k].saved > 0 THEN tick[k].saved - 1 ELSE @]
  /\ tick' = [tick EXCEPT ![k] = AtCastle(c + 1)]
  /\ UNCHANGED <<owner_id, defence, is_blocked, team_attacking, question_id,
                 gold_delay, teamVars, solvers, dialogs, job>>

\* ... and writes what the value it read calls for, and releases the lock.
BlockWrite(k) ==
  LET c == tick[k].at IN
  /\ tick[k].pc = "block_write"
  /\ IF tick[k].saved > 0
       THEN /\ block_time' = [block_time EXCEPT ![c] = tick[k].saved - 1]
            /\ UNCHANGED is_blocked
       ELSE /\ is_blocked' = [is_blocked EXCEPT ![c] = FALSE]
            /\ UNCHANGED block_time
  /\ tick' = [tick EXCEPT ![k] = AtCastle(c + 1)]
  /\ UNCHANGED <<owner_id, defence, team_attacking, question_id, gold_delay,
                 teamVars, solvers, dialogs, job>>

-----------------------------------------------------------------------------
\* What the players' messages make the main thread begin.
Message ==
  \E p \in Players :
    \/ \E c \in Castles :
         \/ AttackEmpty(p, c)
         \/ AttackOwned(p, c)
         \/ CloseDialog(p, c)
         \/ \E a \in Answers : AnswerRight(p, c, a) \/ AnswerWrong(p, c, a)
         \/ \E i \in DefenceItems : BuyDefence(p, c, i)
    \/ \E f \in Fields, r \in MineKinds, a \in Answers : AnswerMine(p, f, r, a)
    \/ \E i \in AttackItems : BuyAttack(p, i)

\* The rest of the handler at work.
Handler ==
  \/ ExtendRead
  \/ ExtendWrite
  \/ Attacked
  \/ Repelled
  \/ PayAttack
  \/ PayDefence
  \/ Fortify

Tick(k) ==
  \/ StartTick(k)
  \/ MineTick(k)
  \/ PayMine(k)
  \/ LookAtOwner(k)
  \/ reduce_gold_delay(k)
  \/ LookUpPayee(k)
  \/ PayGold(k)
  \/ BlockRead(k)
  \/ BlockWrite(k)

Next ==
  \/ Message
  \/ Handler
  \/ \E k \in TickThreads : Tick(k)

Spec == Init /\ [][Next]_vars

(***************************************************************************)
(* The timers go on for as long as the server runs and a tick that started *)
(* goes on to its end.  A handler goes on too; it waits for a castle's     *)
(* lock at most while one tick writes one counter, so a lock it waits for  *)
(* is free again and again and one of those times it gets it.              *)
(***************************************************************************)
Fairness ==
  /\ \A k \in TickThreads : WF_vars(Tick(k))
  /\ SF_vars(Handler)

FairSpec == Spec /\ Fairness
-----------------------------------------------------------------------------
(***************************************************************************)
(* Properties.                                                             *)
(***************************************************************************)

JobSteps == {"idle", "extend_read", "extend_write", "attacked", "repelled",
             "pay_attack", "pay_defence", "fortify"}

TickSteps == {"idle", "mine", "pay_mine", "castle", "gold", "gold_owner",
              "pay_gold", "block_read", "block_write"}

Jobs  == [step : JobSteps, player : Players \cup {None},
          castle : Castles \cup {0}, item : Items \cup {None}, saved : Nat]

Ticks == [pc : TickSteps, at : Nat, res : {"none", "wood", "stone"},
          saved : Nat, due : SUBSET (Teams \cup {None})]

Counters == UNION {[S -> 0..MINE_DELAY] : S \in SUBSET Teams}

\* Every variable has its type; the counters the ticks count down stay in
\* the range their periods give them, so the test for -1 never misses.
TypeOK ==
  /\ owner_id \in [Castles -> Teams \cup {None}]
  /\ defence \in [Castles -> Nat]
  /\ is_blocked \in [Castles -> BOOLEAN]
  /\ block_time \in [Castles -> Nat]
  /\ team_attacking \in [Castles -> Teams \cup {None}]
  /\ question_id \in [Castles -> Nat]
  /\ gold_delay \in [Castles -> 0..GOLD_DELAY]
  /\ resources \in [Teams -> [Resources -> Nat]]
  /\ inventory \in [Teams -> AttackItems \cup {None}]
  /\ solvers \in [Fields -> [MineKinds -> Counters]]
  /\ dialogs \in [Players -> [Castles -> Nat]]
  /\ job \in Jobs
  /\ tick \in [TickThreads -> Ticks]

AttackSteps   == {"extend_read", "extend_write", "attacked", "repelled"}
PurchaseSteps == {"pay_attack", "pay_defence", "fortify"}

\* What a handler found before it let ticks run is still so when it goes on:
\* the castle attacked is another team's, the castle walled is the buyer's
\* and its wall weaker, and the price is still there when it is taken.
HandlerFactsHold ==
  LET c == job.castle
      i == job.item
  IN
  /\ job.step \in AttackSteps => owner_id[c] \notin {None, JobTeam}
  /\ job.step \in {"pay_defence", "fortify"} =>
       owner_id[c] = JobTeam /\ ItemValue[i] > defence[c]
  /\ job.step \in {"pay_attack", "pay_defence"} => is_enough(JobTeam, i)

\* A tick that decided to pay for a castle finds a team to pay: an owner_id
\* that went back to None would end the thread in the middle of the tick.
PayeeExists ==
  \A k \in TickThreads :
    /\ tick[k].pc \in {"gold", "gold_owner"} => owner_id[tick[k].at] # None
    /\ tick[k].due \subseteq Teams

\* A castle that has time left on its block refuses attacks, whichever way
\* ticks and the unlocked extension interleave: only the attack that is
\* about to call attacked() can find its block lifted early.
TimeLeftMeansBlocked ==
  \A c \in Castles :
    block_time[c] > 0 =>
      is_blocked[c] \/ (job.step = "attacked" /\ job.castle = c)

\* No interleaving of the extension with ticks blocks a castle for longer
\* than two blocks.
BlockIsBounded == \A c \in Castles : block_time[c] <= 2 * BLOCK_TIME

\* The inductive invariant behind the properties above: what the steps of a
\* handler and of a tick work on, and what a tick inside reduce_block knows.
JobShape ==
  /\ job.step = "idle" => job = NoJob
  /\ job.step # "idle" => job.player \in Players
  /\ job.step \in AttackSteps \cup {"pay_defence", "fortify"} =>
       job.castle \in Castles
  /\ job.step = "pay_attack" => job.item \in AttackItems
  /\ job.step \in {"pay_defence", "fortify"} => job.item \in DefenceItems

TickShape ==
  \A k \in TickThreads :
    /\ tick[k].pc = "idle" => tick[k] = NoTick
    /\ tick[k].pc \in {"mine", "pay_mine"} =>
         tick[k].at \in Fields /\ tick[k].res \in {"wood", "stone"}
    /\ tick[k].pc \in {"castle", "gold", "gold_owner", "pay_gold",
                      "block_read", "block_write"} => tick[k].at \in Castles

\* The tick that lifts a castle's block holds its lock alone; the time it has
\* read is all there is, unless attacked() is about to put things right.
LockHolderKnows ==
  \A k \in TickThreads :
    tick[k].pc = "block_write" =>
      LET c == tick[k].at IN
      /\ \A l \in TickThreads :
           tick[l].pc = "block_write" /\ tick[l].at = c => l = k
      /\ tick[k].saved <= 2 * BLOCK_TIME
      /\ \/ job.step = "attacked" /\ job.castle = c
         \/ IF tick[k].saved = 0 THEN block_time[c] = 0 ELSE is_blocked[c]

\* The extension starts from one block at most.
ExtensionFacts ==
  LET c == job.castle IN
  /\ job.step = "extend_read" =>
       /\ block_time[c] <= BLOCK_TIME
       /\ \A k \in TickThreads :
            tick[k].pc = "block_write" /\ tick[k].at = c =>
              tick[k].saved <= BLOCK_TIME
  /\ job.step = "extend_write" => job.saved <= BLOCK_TIME

IInv ==
  /\ TypeOK
  /\ JobShape
  /\ TickShape
  /\ HandlerFactsHold
  /\ PayeeExists
  /\ TimeLeftMeansBlocked
  /\ BlockIsBounded
  /\ LockHolderKnows
  /\ ExtensionFacts

\* A castle whose questions are used up stays with its owner for good, even
\* when players still have windows open with earlier questions.
ExhaustedCastleStays ==
  [][\A c \in Castles :
       question_id[c] \notin Questions => owner_id'[c] = owner_id[c]]_vars

\* The game keeps the rules of conquest: owners, questions and walls change
\* only as Conquest says (answer_castles_success, buy_defense).
Rules == INSTANCE Conquest WITH
           owner <- owner_id, question <- question_id, wall <- defence,
           challenges <- dialogs, FirstQuestion <- CastleQuestion,
           Strengths <- {ItemValue[i] : i \in DefenceItems}

ConquestRules == Rules!Spec

\* Purchases of the main thread and payouts of the ticks keep the books of
\* Ledger, although buy_item tests for the price before it takes the lock.
Books == INSTANCE Ledger WITH
           stock <- resources, Goods <- Items, Cost <- Price,
           Yield <- Value, Stock0 <- InitialStock

KeepsBooks == Books!Spec

\* Every block ends: players cannot keep a castle blocked by attacking it.
EveryBlockEnds == \A c \in Castles : is_blocked[c] ~> ~is_blocked[c]

\* Every handler returns and the main thread takes its next message.
EveryHandlerReturns == (job # NoJob) ~> (job = NoJob)

\* Some tick owes team t for resource r of field f.
Due(t, f, r) ==
  \E k \in TickThreads :
    /\ tick[k].pc = "pay_mine" /\ tick[k].at = f /\ tick[k].res = r
    /\ t \in tick[k].due

\* A team that has solved a wood or stone mine is paid again and again.
SolversArePaid ==
  \A t \in Teams, f \in Fields, r \in {"wood", "stone"} :
    (t \in DOMAIN solvers[f][r]) ~> Due(t, f, r)

\* A team that goes on holding a castle is paid gold for it.
OwnersArePaid ==
  \A t \in Teams, c \in Castles :
    (owner_id[c] = t) ~>
      \/ owner_id[c] # t
      \/ \E k \in TickThreads :
           tick[k].pc = "pay_gold" /\ tick[k].at = c /\ tick[k].due = {t}
=============================================================================
