-------------------------- MODULE MCTrackerWindow --------------------------
(***************************************************************************)
(* Two items and a currency.  The first item sells both ways, the second   *)
(* nowhere; both have a name.                                              *)
(***************************************************************************)
EXTENDS TrackerWindow

MCInfo ==
  [id \in Stat |->
    [loaded |-> TRUE, name |-> IF id = 1 THEN 2 ELSE 1, rarity |-> "Fine",
     noSell |-> id # 1, soulbound |-> FALSE,
     vendor |-> 1, tpSell |-> IF id = 1 THEN 4 ELSE -1, tpBuy |-> -1]]

\* The first item is gained, the second used up.
MCCount == [id \in Stat |-> IF id = 1 THEN {0, 1} ELSE IF id = 2 THEN {-1, 0} ELSE {1}]

MCSortings == {Defaults.sorting, [key |-> "name", descending |-> FALSE]}
=============================================================================
