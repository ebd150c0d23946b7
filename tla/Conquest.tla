------------------------------ MODULE Conquest ------------------------------
(***************************************************************************)
(* What the strategy game promises about its castles, whatever the         *)
(* threads, blocks, timers and purchases do: the rules of the game that    *)
(* StrategyGame is shown to implement.                                     *)
(*                                                                         *)
(* A player is challenged by a castle that another team, or nobody, holds; *)
(* a challenge is good for one answer; a right answer wins the castle and  *)
(* moves it on to its next question; a wall only ever grows, and only      *)
(* under an owner.                                                         *)
(***************************************************************************)
EXTENDS Naturals

CONSTANTS Teams, Players, TeamOf, Castles, Questions, FirstQuestion,
          Strengths,   (* what a wall can be made of                        *)
          None

VARIABLES owner,       (* the team that holds each castle                   *)
          question,    (* the question each castle asks                     *)
          wall,        (* the strength of each castle's wall                *)
          challenges   (* answers each player may still give each castle    *)

vars == <<owner, question, wall, challenges>>

Init ==
  /\ owner      = [c \in Castles |-> None]
  /\ question   = FirstQuestion
  /\ wall       = [c \in Castles |-> 0]
  /\ challenges = [p \in Players |-> [c \in Castles |-> 0]]

Challenge(p, c) ==
  /\ owner[c] # TeamOf[p]
  /\ question[c] \in Questions
  /\ challenges' = [challenges EXCEPT ![p][c] = @ + 1]
  /\ UNCHANGED <<owner, question, wall>>

UseChallenge(p, c) ==
  /\ challenges[p][c] > 0
  /\ challenges' = [challenges EXCEPT ![p][c] = @ - 1]

\* A team that wins a castle a second time only uses up its question.
Win(p, c) ==
  /\ UseChallenge(p, c)
  /\ question[c] \in Questions
  /\ owner' = [owner EXCEPT ![c] = TeamOf[p]]
  /\ question' = [question EXCEPT ![c] = @ + 3]
  /\ UNCHANGED wall

Lose(p, c) ==
  /\ UseChallenge(p, c)
  /\ UNCHANGED <<owner, question, wall>>

Raise(c) ==
  /\ owner[c] \in Teams
  /\ \E s \in Strengths : s > wall[c] /\ wall' = [wall EXCEPT ![c] = s]
  /\ UNCHANGED <<owner, question, challenges>>

Next ==
  \/ \E p \in Players, c \in Castles :
       Challenge(p, c) \/ Win(p, c) \/ Lose(p, c)
  \/ \E c \in Castles : Raise(c)

Spec == Init /\ [][Next]_vars
=============================================================================
