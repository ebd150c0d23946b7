--------------------------- MODULE MCStrategyGame ---------------------------
(***************************************************************************)
(* Instances of StrategyGame for TLC, with one player to a team.           *)
(***************************************************************************)
EXTENDS StrategyGame, TLC

\* Each team has the player of the same name.
MCTeamOf == [p \in Players |-> p]

\* Two questions per castle: ids c and c+3, then none.
MCCastleQuestion == [c \in Castles |-> c]
MCQuestions      == UNION {{c, c + 3} : c \in 1..NumCastles} \cup {17}
MCKey            == [q \in Questions |-> IF q > 3 THEN 2 ELSE 1]
MCFieldQuestion  == [f \in Fields |-> [r \in MineKinds |-> 17]]

\* balista breaks a fence and not the legend wall.
MCItemValue == [i \in Items |-> CASE i = "fence"   -> 1
                                  [] i = "balista" -> 2
                                  [] i = "legend"  -> 3
                                  [] i = "cannon"  -> 4]

\* Games in which nothing costs or yields anything.
Nothing == [r \in Resources |-> 0]
FreeOfCharge == [i \in Items |-> Nothing]

\* Games in which money matters: an attack item takes wood and iron, a wall
\* wood and gold; a period yields one unit of wood or of gold.
PriceList == [i \in Items |-> [r \in Resources |->
                IF \/ r = "wood"
                   \/ r = "iron" /\ i \in AttackItems
                   \/ r = "gold" /\ i \in DefenceItems
                THEN 1 ELSE 0]]
WoodAndGold == [r \in Resources |-> IF r \in {"wood", "gold"} THEN 1 ELSE 0]
WoodAndIron == [r \in Resources |-> IF r \in {"wood", "iron"} THEN 1 ELSE 0]

\* Ticks are interchangeable.
Symmetry == Permutations(TickThreads)

\* Stops the growth of the teams' resources: no tick starts once a team has
\* MaxStock of a resource.
CONSTANT MaxStock

BoundedNext ==
  /\ Next
  /\ \A k \in TickThreads :
       tick[k] = NoTick /\ tick'[k] # NoTick =>
         \A t \in Teams, r \in Resources : resources[t][r] < MaxStock

BoundedSpec == Init /\ [][BoundedNext]_vars
=============================================================================
