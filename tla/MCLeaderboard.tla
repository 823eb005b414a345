---------------------------- MODULE MCLeaderboard ----------------------------
EXTENDS Leaderboard, Sequences, TLC
CONSTANTS u1, u2, u3, u4

VARIABLE instance

MCvars == <<rankVars, instance>>

S(trades, pnl, winRate) ==
  [trades |-> trades, pnl |-> pnl, days |-> AtMost(trades, 20), age |-> 30,
   winRate |-> winRate, factor |-> IF pnl > 0 THEN 160 ELSE 80, reward |-> 100, streak |-> 2]

Few == {S(0, 0, 0), S(1000, 40, 600), S(12000, 300, 520), S(12000, -20, 490)}
MCStatistics == Few \cup {S(30, 5, 500), S(5200, -30, 480), S(15000, 350, 530), S(26000, 600, 560)}
MCFirst == <<1, 2, 4, 6, 8>>
MCBase == (u1 :> "ana") @@ (u2 :> "ana") @@ (u3 :> "rui") @@ (u4 :> "ana2")
MCName(b, n) == IF n = 1 THEN b ELSE b \o ToString(n)

Some == (u1 :> S(1000, 40, 600)) @@ (u2 :> S(12000, 300, 520)) @@ (u3 :> S(1000, 40, 600)) @@ (u4 :> S(0, 0, 0))

\* One run over any statistics; runs that never overlap, with all that may
\* happen between them, and runs that overlap: of users two of whom share a
\* name, or one of whom is called what another comes to be called.
MCInit ==
  /\ RankInit
  /\ \/ instance = "one" /\ stats[u4] = Some[u4] /\ active = {u1, u2, u3}
     \/ instance \in {"alone", "together", "called"} /\ stats = Some
        /\ active = IF instance = "together" THEN {u1, u2, u3} ELSE {u1, u2, u4}

MCNext ==
  /\ RankNext
  /\ instance' = instance
  /\ Cardinality(active') <= 3
  /\ instance # "one" => stats' \in [Users -> Few]
  /\ instance = "one" => starts' = 1 /\ changes' = 0
  /\ instance = "alone" => Cardinality(Busy') <= 1 /\ changes' + crashes' <= 2
  /\ instance \in {"together", "called"} => starts' <= 2 /\ crashes' = 0
  /\ instance = "together" => changes' <= 1
  /\ instance = "called" => changes' = 0

MCSpec == MCInit /\ [][MCNext]_MCvars

Symmetry == Permutations(Runs)
=============================================================================
