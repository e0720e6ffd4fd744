------------------------------ MODULE ItemView ------------------------------
(***************************************************************************)
(* How an item is valued, filtered and sorted: Profit.cpp and the pure     *)
(* helpers of the window in main.cpp.                                      *)
(*                                                                         *)
(* A name is its place in the alphabet, 0 when it is empty.  The filters   *)
(* are the set of what is hidden: kinds of stats and rarities.             *)
(***************************************************************************)
EXTENDS Integers

\* Gw2ItemInfo, as far as it is looked at here.
ItemInfo == [loaded : BOOLEAN, name : Nat, rarity : STRING, noSell : BOOLEAN,
             soulbound : BOOLEAN, vendor : Nat, tpSell : Int, tpBuy : Int]

\* TP_FEE_NUMERATOR and TP_FEE_DENOMINATOR.
FeeNumerator == 85
FeeDenominator == 100

Larger(a, b) == IF a >= b THEN a ELSE b

-----------------------------------------------------------------------------
(* Profit.cpp. *)

CanSellToVendor(info) == ~info.noSell /\ info.vendor > 0

CanSellOnTp(info) == ~info.soulbound /\ (info.tpSell > 0 \/ info.tpBuy > 0)

CanNotBeSold(info) == ~CanSellToVendor(info) /\ ~CanSellOnTp(info)

\* What is left of a trading post price, of which zero and less is none.
AfterFee(price) == IF price > 0 THEN (price * FeeNumerator) \div FeeDenominator ELSE 0

VendorProfit(info) == IF CanSellToVendor(info) THEN info.vendor ELSE 0

\* EstimateItemUnitValueInCopper()
UnitValue(info, instant) ==
  IF info.soulbound THEN VendorProfit(info)
  ELSE Larger(Larger(VendorProfit(info), AfterFee(info.tpBuy)),
              IF instant THEN 0 ELSE AfterFee(info.tpSell))

-----------------------------------------------------------------------------
(* The filters. *)

PassesSign(hidden, count) ==
  /\ ~("positive_count" \in hidden /\ count > 0)
  /\ ~("negative_count" \in hidden /\ count < 0)

PassesKnown(hidden, info) ==
  info.loaded => IF info.name # 0 THEN "known_by_api" \notin hidden
                                  ELSE "unknown_by_api" \notin hidden

PassesCurrencyFilters(hidden, info, count) ==
  /\ PassesSign(hidden, count)
  /\ PassesKnown(hidden, info)

\* An item that sells both ways counts as one for the trading post.
PassesItemFilters(hidden, info, count) ==
  /\ ~("vendor_sellable" \in hidden /\ CanSellToVendor(info) /\ ~CanSellOnTp(info))
  /\ ~("tp_sellable" \in hidden /\ CanSellOnTp(info))
  /\ ~("not_sellable" \in hidden /\ CanNotBeSold(info))
  /\ PassesSign(hidden, count)
  /\ PassesKnown(hidden, info)
  /\ info.rarity \notin hidden

-----------------------------------------------------------------------------
(* The rows and their order. *)

SortKey == {"name", "count", "profit_total"}
Sorting == [key : SortKey, descending : BOOLEAN]

\* ItemRow, with the count and the facts at the moment it was made.
Row(id, count, info, instant) ==
  [id |-> id, count |-> count, name |-> info.name, value |-> UnitValue(info, instant) * count]

Sign(n) == IF n > 0 THEN 1 ELSE IF n < 0 THEN -1 ELSE 0

\* Which of two different numbers comes first: two losses by their size.
AmountFirst(a, b, descending) ==
  IF (a < 0 /\ b < 0) = descending THEN a < b ELSE a > b

\* The same for two signs or two names.
PlainFirst(a, b, descending) == IF descending THEN a > b ELSE a < b

\* The comparison of SortItemRows().
Before(a, b, sorting) ==
  LET down == sorting.descending IN
  CASE sorting.key = "name" /\ a.name # b.name -> PlainFirst(a.name, b.name, down)
    [] sorting.key = "count" /\ a.count # b.count -> AmountFirst(a.count, b.count, down)
    [] sorting.key = "profit_total" /\ a.value # b.value -> AmountFirst(a.value, b.value, down)
    [] sorting.key = "profit_total" /\ a.value = b.value /\ a.count # b.count ->
         AmountFirst(a.count, b.count, down)
    [] OTHER -> PlainFirst(Sign(a.count), Sign(b.count), down)

-----------------------------------------------------------------------------
(* RenderCoin() and AppendCoinTileDrawers(): gold, silver and copper. *)

Magnitude(copper) == IF copper < 0 THEN -copper ELSE copper

Coins(copper) == [gold   |-> Magnitude(copper) \div 10000,
                  silver |-> (Magnitude(copper) \div 100) % 100,
                  bronze |-> Magnitude(copper) % 100]
=============================================================================
