------------------------- MODULE TrackerWindowProofs -------------------------
(***************************************************************************)
(* What holds of the valuation, the order of the rows and the window for   *)
(* all items, prices, counts and settings.                                 *)
(***************************************************************************)
EXTENDS TrackerWindow, FiniteSetTheorems, TLAPS

-----------------------------------------------------------------------------
(* Valuation (Profit.cpp). *)

\* The fee takes 15% of a price, rounded up to a whole coin, and never more
\* than all of it.
LEMMA AfterFeeBounds ==
  ASSUME NEW price \in Int
  PROVE  /\ AfterFee(price) \in Nat
         /\ price > 0 => 100 * AfterFee(price) <= 85 * price
         /\ 85 * price < 100 * AfterFee(price) + 100
         /\ price > 0 => AfterFee(price) < price
<1>1. CASE price > 0
  <2>1. (price * 85) \div 100 \in Int /\ 100 * ((price * 85) \div 100) <= price * 85
        /\ price * 85 < 100 * ((price * 85) \div 100) + 100
    BY <1>1, SMT
  <2>. QED  BY <1>1, <2>1, SMT DEF AfterFee, FeeNumerator, FeeDenominator
<1>2. CASE ~(price > 0)
  BY <1>2 DEF AfterFee
<1>. QED  BY <1>1, <1>2

LEMMA LargerIsOneOfThem ==
  ASSUME NEW a \in Nat, NEW b \in Nat
  PROVE  /\ Larger(a, b) \in Nat /\ Larger(a, b) >= a /\ Larger(a, b) >= b
         /\ Larger(a, b) = a \/ (Larger(a, b) = b /\ b > 0)
BY DEF Larger

\* An item is never worth a negative amount, nor more than the best of its
\* vendor value and its prices; selling it at once never pays more than the
\* estimate; and it is worth something only if it can be sold at all, so that
\* a soulbound item is worth its vendor value (EstimateItemUnitValueInCopper,
\* ClassifyItemSellMethod).
THEOREM UnitValueIsSound ==
  ASSUME NEW info \in ItemInfo, NEW instant \in BOOLEAN
  PROVE  /\ UnitValue(info, instant) \in Nat
         /\ UnitValue(info, TRUE) <= UnitValue(info, FALSE)
         /\ \/ UnitValue(info, instant) <= info.vendor
            \/ UnitValue(info, instant) < info.tpBuy
            \/ UnitValue(info, instant) < info.tpSell
         /\ UnitValue(info, instant) > 0 => ~CanNotBeSold(info)
         /\ info.soulbound => UnitValue(info, instant) <= info.vendor
<1> DEFINE vendor == VendorProfit(info)
           buy == AfterFee(info.tpBuy)
           sell == AfterFee(info.tpSell)
           quick == UnitValue(info, TRUE)
           best == UnitValue(info, FALSE)
           value == UnitValue(info, instant)
<1>1. info.vendor \in Nat /\ info.tpSell \in Int /\ info.tpBuy \in Int
  BY DEF ItemInfo
<1>2. vendor \in Nat /\ vendor <= info.vendor
  BY <1>1 DEF VendorProfit
<1>3. buy \in Nat /\ (buy > 0 => info.tpBuy > 0 /\ buy < info.tpBuy)
  BY <1>1, AfterFeeBounds DEF AfterFee
<1>4. sell \in Nat /\ (sell > 0 => info.tpSell > 0 /\ sell < info.tpSell)
  BY <1>1, AfterFeeBounds DEF AfterFee
<1>5. vendor > 0 => CanSellToVendor(info)
  BY DEF VendorProfit
<1>6. /\ info.soulbound => quick = vendor /\ best = vendor
      /\ ~info.soulbound => /\ quick = Larger(Larger(vendor, buy), 0)
                            /\ best = Larger(Larger(vendor, buy), sell)
  BY DEF UnitValue
<1>7. /\ buy > 0 /\ ~info.soulbound => CanSellOnTp(info)
      /\ sell > 0 /\ ~info.soulbound => CanSellOnTp(info)
  BY <1>3, <1>4 DEF CanSellOnTp
<1>8. value = quick \/ value = best
  OBVIOUS
<1> HIDE DEF vendor, buy, sell, quick, best, value
<1>9. ASSUME ~info.soulbound
      PROVE  /\ quick = vendor \/ (quick = buy /\ buy > 0)
             /\ best = vendor \/ (best = buy /\ buy > 0) \/ (best = sell /\ sell > 0)
             /\ quick <= best
  <2>1. PICK x \in Nat : x = Larger(vendor, buy) /\ x >= vendor /\ x >= buy
                         /\ (x = vendor \/ (x = buy /\ buy > 0))
    BY <1>2, <1>3, LargerIsOneOfThem
  <2>2. Larger(x, 0) = x
    <3>1. Larger(x, 0) >= x /\ (Larger(x, 0) = x \/ (Larger(x, 0) = 0 /\ 0 > 0))
      BY <2>1, LargerIsOneOfThem
    <3>. QED  BY <3>1
  <2>3. Larger(x, sell) >= x /\ (Larger(x, sell) = x \/ (Larger(x, sell) = sell /\ sell > 0))
    BY <1>4, LargerIsOneOfThem
  <2>4. quick = x /\ best = Larger(x, sell)
    BY <1>6, <1>9, <2>1, <2>2
  <2>. QED  BY <2>1, <2>3, <2>4
<1>10. quick <= best
  <2>1. CASE info.soulbound
    BY <1>2, <1>6, <2>1
  <2>. QED  BY <1>9, <2>1
<1>11. \/ value = vendor
       \/ ~info.soulbound /\ value = buy /\ buy > 0
       \/ ~info.soulbound /\ value = sell /\ sell > 0
  BY <1>6, <1>8, <1>9
<1>12. /\ value \in Nat
       /\ value <= info.vendor \/ value < info.tpBuy \/ value < info.tpSell
       /\ info.soulbound => value <= info.vendor
  BY <1>1, <1>2, <1>3, <1>4, <1>11
<1>13. value > 0 => ~CanNotBeSold(info)
  BY <1>5, <1>7, <1>11 DEF CanNotBeSold
<1>. QED  BY <1>10, <1>12, <1>13 DEF quick, best, value

\* Nor is anything overlooked: an item is worth at least each way it can be sold
\* in, where the fee costs less than one coin more than its 15%; so of what can
\* be sold only what is listed at a single copper is worth nothing
\* (EstimateItemUnitValueInCopper).
THEOREM UnitValueIsBest ==
  ASSUME NEW info \in ItemInfo, NEW instant \in BOOLEAN
  PROVE  /\ CanSellToVendor(info) => UnitValue(info, instant) >= info.vendor
         /\ ~info.soulbound => 85 * info.tpBuy < 100 * UnitValue(info, instant) + 100
         /\ ~info.soulbound /\ ~instant =>
              85 * info.tpSell < 100 * UnitValue(info, instant) + 100
         /\ UnitValue(info, FALSE) = 0 =>
              /\ ~CanSellToVendor(info)
              /\ CanSellOnTp(info) => info.tpBuy <= 1 /\ info.tpSell <= 1
<1> DEFINE vendor == VendorProfit(info)
           buy == AfterFee(info.tpBuy)
           sell == AfterFee(info.tpSell)
<1>1. /\ info.vendor \in Nat /\ info.tpSell \in Int /\ info.tpBuy \in Int
      /\ info.soulbound \in BOOLEAN
  BY DEF ItemInfo
<1>2. vendor \in Nat /\ (CanSellToVendor(info) => vendor = info.vendor /\ vendor > 0)
  BY <1>1 DEF VendorProfit, CanSellToVendor
<1>3. /\ buy \in Nat /\ 85 * info.tpBuy < 100 * buy + 100
      /\ sell \in Nat /\ 85 * info.tpSell < 100 * sell + 100
  BY <1>1, AfterFeeBounds
<1>4. /\ info.tpBuy > 1 => buy > 0
      /\ info.tpSell > 1 => sell > 0
  BY <1>1, <1>3
<1> HIDE DEF vendor, buy, sell
<1>5. ASSUME NEW quick \in BOOLEAN
      PROVE  /\ UnitValue(info, quick) \in Nat /\ UnitValue(info, quick) >= vendor
             /\ ~info.soulbound => UnitValue(info, quick) >= buy
             /\ ~info.soulbound /\ ~quick => UnitValue(info, quick) >= sell
  <2>1. CASE info.soulbound
    BY <1>2, <2>1 DEF UnitValue, vendor
  <2>2. CASE ~info.soulbound
    <3>1. UnitValue(info, quick) = Larger(Larger(vendor, buy), IF quick THEN 0 ELSE sell)
      BY <2>2 DEF UnitValue, vendor, buy, sell
    <3>. QED  BY <1>2, <1>3, <3>1 DEF Larger
  <2>. QED  BY <2>1, <2>2
<1>6. UnitValue(info, FALSE) = 0 => /\ ~CanSellToVendor(info)
                                    /\ ~info.soulbound => info.tpBuy <= 1 /\ info.tpSell <= 1
  <2> DEFINE best == UnitValue(info, FALSE)
  <2>1. /\ best \in Nat /\ best >= vendor
        /\ ~info.soulbound => best >= buy /\ best >= sell
    BY <1>5
  <2> HIDE DEF best
  <2>2. best = 0 => vendor = 0 /\ (~info.soulbound => buy = 0 /\ sell = 0)
    BY <1>2, <1>3, <2>1
  <2>3. best = 0 => /\ ~CanSellToVendor(info)
                    /\ ~info.soulbound => info.tpBuy <= 1 /\ info.tpSell <= 1
    BY <1>1, <1>2, <1>3, <1>4, <2>2
  <2>. QED  BY <2>3 DEF best
<1>7. /\ CanSellToVendor(info) => UnitValue(info, instant) >= info.vendor
      /\ ~info.soulbound => 85 * info.tpBuy < 100 * UnitValue(info, instant) + 100
      /\ ~info.soulbound /\ ~instant =>
           85 * info.tpSell < 100 * UnitValue(info, instant) + 100
  <2> DEFINE value == UnitValue(info, instant)
  <2>1. /\ value \in Nat /\ value >= vendor
        /\ ~info.soulbound => value >= buy
        /\ ~info.soulbound /\ ~instant => value >= sell
    BY <1>5
  <2> HIDE DEF value
  <2>2. /\ CanSellToVendor(info) => value >= info.vendor
        /\ ~info.soulbound => 85 * info.tpBuy < 100 * value + 100
        /\ ~info.soulbound /\ ~instant => 85 * info.tpSell < 100 * value + 100
    BY <1>1, <1>2, <1>3, <2>1
  <2>. QED  BY <2>2 DEF value
<1>. QED  BY <1>6, <1>7 DEF CanSellOnTp

\* Each checked box hides on its own, "independent of the others": whatever is
\* checked together passes what each part of it would pass, nothing checked
\* passes everything, and the three boxes about selling divide the items among
\* them, so that with all three checked nothing is left (PassesItemFilters,
\* PassesCurrencyFilters, ClassifyItemSellMethod).
THEOREM FiltersAreIndependent ==
  ASSUME NEW info \in ItemInfo, NEW count \in Int, NEW some, NEW others
  PROVE  /\ PassesItemFilters(some \cup others, info, count)
              <=> PassesItemFilters(some, info, count) /\ PassesItemFilters(others, info, count)
         /\ PassesCurrencyFilters(some \cup others, info, count)
              <=> /\ PassesCurrencyFilters(some, info, count)
                  /\ PassesCurrencyFilters(others, info, count)
         /\ PassesItemFilters({}, info, count) /\ PassesCurrencyFilters({}, info, count)
         /\ {"vendor_sellable", "tp_sellable", "not_sellable"} \subseteq some
              => ~PassesItemFilters(some, info, count)
  BY DEF PassesItemFilters, PassesCurrencyFilters, PassesSign, PassesKnown, CanNotBeSold

\* The comparison std::sort() is given is a strict weak order, whatever the
\* setting and the rows: nothing comes before itself, the order is transitive,
\* and so is being of equal rank.  Without that the behaviour of std::sort()
\* would be undefined (SortItemRows).
THEOREM BeforeIsStrictWeakOrder ==
  ASSUME NEW RowSet, NEW sorting \in Sorting,
         \A r \in RowSet : r.name \in Nat /\ r.count \in Int /\ r.value \in Int
  PROVE  \A a, b, c \in RowSet :
           /\ ~Before(a, a, sorting)
           /\ Before(a, b, sorting) => ~Before(b, a, sorting)
           /\ Before(a, b, sorting) /\ Before(b, c, sorting) => Before(a, c, sorting)
           /\ ~Before(a, b, sorting) /\ ~Before(b, a, sorting)
              /\ ~Before(b, c, sorting) /\ ~Before(c, b, sorting)
              => ~Before(a, c, sorting) /\ ~Before(c, a, sorting)
<1> SUFFICES ASSUME NEW a \in RowSet, NEW b \in RowSet, NEW c \in RowSet
    PROVE  /\ ~Before(a, a, sorting)
           /\ Before(a, b, sorting) => ~Before(b, a, sorting)
           /\ Before(a, b, sorting) /\ Before(b, c, sorting) => Before(a, c, sorting)
           /\ ~Before(a, b, sorting) /\ ~Before(b, a, sorting)
              /\ ~Before(b, c, sorting) /\ ~Before(c, b, sorting)
              => ~Before(a, c, sorting) /\ ~Before(c, a, sorting)
  OBVIOUS
<1>1. /\ sorting.key \in SortKey /\ sorting.descending \in BOOLEAN
      /\ a.name \in Nat /\ a.count \in Int /\ a.value \in Int
      /\ b.name \in Nat /\ b.count \in Int /\ b.value \in Int
      /\ c.name \in Nat /\ c.count \in Int /\ c.value \in Int
  BY DEF Sorting
<1>2. CASE sorting.key = "name" /\ sorting.descending = TRUE
  BY <1>1, <1>2, SMTT(60) DEF Before, PlainFirst, Sign
<1>3. CASE sorting.key = "name" /\ sorting.descending = FALSE
  BY <1>1, <1>3, SMTT(60) DEF Before, PlainFirst, Sign
<1>4. CASE sorting.key = "count" /\ sorting.descending = TRUE
  BY <1>1, <1>4, SMTT(60) DEF Before, PlainFirst, AmountFirst, Sign
<1>5. CASE sorting.key = "count" /\ sorting.descending = FALSE
  BY <1>1, <1>5, SMTT(60) DEF Before, PlainFirst, AmountFirst, Sign
<1>6. CASE sorting.key = "profit_total" /\ sorting.descending = TRUE
  BY <1>1, <1>6, SMTT(60) DEF Before, PlainFirst, AmountFirst, Sign
<1>7. CASE sorting.key = "profit_total" /\ sorting.descending = FALSE
  BY <1>1, <1>7, SMTT(60) DEF Before, PlainFirst, AmountFirst, Sign
<1>. QED  BY <1>1, <1>2, <1>3, <1>4, <1>5, <1>6, <1>7 DEF SortKey

\* The three coins of a tile or a tooltip add up to the amount, with less than
\* a hundred of the smaller ones (RenderCoin, AppendCoinTileDrawers).
THEOREM CoinsAddUp ==
  ASSUME NEW copper \in Int
  PROVE  LET c == Coins(copper) IN
         /\ c.gold \in Nat /\ c.silver \in 0 .. 99 /\ c.bronze \in 0 .. 99
         /\ 10000 * c.gold + 100 * c.silver + c.bronze = Magnitude(copper)
<1> DEFINE m == Magnitude(copper)
<1>1. m \in Nat
  BY DEF Magnitude
<1> HIDE DEF m
<1>2. /\ m \div 10000 \in Nat
      /\ (m \div 100) % 100 \in 0 .. 99
      /\ m % 100 \in 0 .. 99
      /\ 10000 * (m \div 10000) + 100 * ((m \div 100) % 100) + (m % 100) = m
  BY <1>1, SMTT(30)
<1>3. /\ Coins(copper).gold = m \div 10000
      /\ Coins(copper).silver = (m \div 100) % 100
      /\ Coins(copper).bronze = m % 100
  BY DEF Coins, m
<1>4. Magnitude(copper) = m
  BY DEF m
<1>. QED  BY <1>2, <1>3, <1>4

-----------------------------------------------------------------------------
(* The window. *)

Agrees(s) == s.favorites \cap s.ignored = {}

TypesOfSettings ==
  /\ settings \in Settings
  /\ file \in Settings \cup {Missing, Cut}
  /\ saving \in BOOLEAN
  /\ intact \in BOOLEAN
  /\ dirty \in BOOLEAN

\* A save that was written whole has left the settings in the file.
IntactFile ==
  intact => ~saving /\ (file = settings \/ (file = Missing /\ settings = Defaults))

SettingsInv == TypesOfSettings /\ FavoriteXorIgnored /\ IntactFile

\* The view accords with the settings unless it is marked, and no window is
\* drawn while it is.
ViewInv ==
  /\ ~dirty => ListsAgree
  /\ phase = "clicks" /\ settings.visible => ~dirty
  /\ phase = "unloaded" => dirty

LEMMA DefaultsAreSettings == Defaults \in Settings /\ Agrees(Defaults)
BY DefaultsAssumption DEF Defaults, Settings, Agrees, Stat

\* Whatever is saved, the invariant of the settings holds and the view is marked.
LEMMA SaveKeepsSettingsInv ==
  ASSUME SettingsInv, NEW new \in Settings, Agrees(new), SaveSettings(new)
  PROVE  SettingsInv' /\ dirty' = TRUE
BY FileAssumption
   DEF SettingsInv, TypesOfSettings, FavoriteXorIgnored, IntactFile, SaveSettings, Agrees

\* The automatic reset, with any totals.
LEMMA AutomaticResetKeeps ==
  ASSUME SettingsInv, NEW found, AutomaticReset(found)
  PROVE  /\ SettingsInv'
         /\ \/ dirty' = TRUE
            \/ totals' = found /\ UNCHANGED <<settings, dirty>>
<1>1. settings \in Settings /\ Agrees(settings)
  BY DEF SettingsInv, TypesOfSettings, FavoriteXorIgnored, Agrees
<1>2. CASE totals' = found /\ UNCHANGED <<settings, saving, file, intact, dirty>>
  BY <1>2 DEF SettingsInv, TypesOfSettings, FavoriteXorIgnored, IntactFile
<1>3. CASE totals' \in {found, <<>>} /\ SaveSettings(settings)
  BY <1>1, <1>3, SaveKeepsSettingsInv
<1>. QED  BY <1>2, <1>3 DEF AutomaticReset

LEMMA SettingsInvInit == Init => SettingsInv
BY DefaultsAreSettings, FileAssumption
   DEF Init, SettingsInv, TypesOfSettings, FavoriteXorIgnored, IntactFile, Agrees

LEMMA SettingsInvStep == SettingsInv /\ [Next]_vars => SettingsInv'
<1> SUFFICES ASSUME SettingsInv, [Next]_vars PROVE SettingsInv'
  OBVIOUS
<1> USE DEF SettingsInv
<1>1. settings \in Settings /\ Agrees(settings)
  BY DEF TypesOfSettings, FavoriteXorIgnored, Agrees
<1>2. CASE BeginFrame
  BY <1>2, AutomaticResetKeeps DEF BeginFrame
<1>3. CASE Refresh
  BY <1>3 DEF Refresh, Rebuild, TypesOfSettings, FavoriteXorIgnored, IntactFile
<1>4. CASE Click
  <2>1. CASE UNCHANGED <<settings, saving, file, intact, totals, dirty>>
    BY <2>1 DEF TypesOfSettings, FavoriteXorIgnored, IntactFile
  <2>2. ASSUME NEW id \in Stat, Favorite(id) PROVE SettingsInv'
    <3>1. [settings EXCEPT !.favorites = @ \cup {id}, !.ignored = @ \ {id}] \in Settings
          /\ Agrees([settings EXCEPT !.favorites = @ \cup {id}, !.ignored = @ \ {id}])
      BY <1>1 DEF Settings, Agrees
    <3>. QED  BY <2>2, <3>1, SaveKeepsSettingsInv DEF Favorite
  <2>3. ASSUME NEW id \in Stat, Unfavorite(id) PROVE SettingsInv'
    <3>1. [settings EXCEPT !.favorites = @ \ {id}] \in Settings
          /\ Agrees([settings EXCEPT !.favorites = @ \ {id}])
      BY <1>1 DEF Settings, Agrees
    <3>. QED  BY <2>3, <3>1, SaveKeepsSettingsInv DEF Unfavorite
  <2>4. ASSUME NEW id \in Stat, Ignore(id) PROVE SettingsInv'
    <3>1. [settings EXCEPT !.ignored = @ \cup {id}, !.favorites = @ \ {id}] \in Settings
          /\ Agrees([settings EXCEPT !.ignored = @ \cup {id}, !.favorites = @ \ {id}])
      BY <1>1 DEF Settings, Agrees
    <3>. QED  BY <2>4, <3>1, SaveKeepsSettingsInv DEF Ignore
  <2>5. ASSUME NEW id \in Stat, Restore(id) PROVE SettingsInv'
    <3>1. [settings EXCEPT !.ignored = @ \ {id}] \in Settings
          /\ Agrees([settings EXCEPT !.ignored = @ \ {id}])
      BY <1>1 DEF Settings, Agrees
    <3>. QED  BY <2>5, <3>1, SaveKeepsSettingsInv DEF Restore
  <2>6. ASSUME NEW sorting \in Sortings, SortBy(sorting) PROVE SettingsInv'
    <3>1. [settings EXCEPT !.sorting = sorting] \in Settings
          /\ Agrees([settings EXCEPT !.sorting = sorting])
      BY <1>1 DEF Settings, Agrees
    <3>. QED  BY <2>6, <3>1, SaveKeepsSettingsInv DEF SortBy
  <2>7. CASE Close
    <3>1. [settings EXCEPT !.visible = FALSE] \in Settings
          /\ Agrees([settings EXCEPT !.visible = FALSE])
      BY <1>1 DEF Settings, Agrees
    <3>. QED  BY <2>7, <3>1, SaveKeepsSettingsInv DEF Close
  <2>8. CASE ResetSession
    BY <2>8 DEF ResetSession, TypesOfSettings, FavoriteXorIgnored, IntactFile
  <2>9. CASE OptionsClick
    <3>1. [settings EXCEPT !.visible = ~@] \in Settings
          /\ Agrees([settings EXCEPT !.visible = ~@])
      BY <1>1 DEF Settings, Agrees
    <3>2. ASSUME NEW box \in Box
          PROVE  LET new == [settings EXCEPT !.checked =
                               IF box \in @ THEN @ \ {box} ELSE @ \cup {box}]
                 IN  new \in Settings /\ Agrees(new)
      BY <1>1 DEF Settings, Agrees
    <3>. QED  BY <2>9, <3>1, <3>2, SaveKeepsSettingsInv DEF OptionsClick
  <2>. QED  BY <1>4, <2>1, <2>2, <2>3, <2>4, <2>5, <2>6, <2>7, <2>8, <2>9 DEF Click, WindowClick
<1>5. CASE Load
  BY <1>5, DefaultsAreSettings, FileAssumption
  DEF Load, LoadFromFile, TypesOfSettings, FavoriteXorIgnored, IntactFile, Agrees
<1>6. CASE LoadReset
  BY <1>6, AutomaticResetKeeps DEF LoadReset
<1>7. CASE Unload
  BY <1>1, <1>7, SaveKeepsSettingsInv DEF Unload
<1>8. CASE EndSave
  <2>1. saving /\ ~intact /\ saving' = FALSE /\ UNCHANGED <<settings, dirty>>
    BY <1>8 DEF EndSave, IntactFile
  <2>2. CASE file' = settings /\ intact' = TRUE
    BY <1>1, <2>1, <2>2 DEF TypesOfSettings, FavoriteXorIgnored, IntactFile, Agrees
  <2>3. CASE UNCHANGED <<file, intact>>
    BY <2>1, <2>3 DEF TypesOfSettings, FavoriteXorIgnored, IntactFile
  <2>. QED  BY <1>8, <2>2, <2>3 DEF EndSave
<1>9. CASE Crash
  BY <1>9 DEF Crash, TypesOfSettings, FavoriteXorIgnored, IntactFile
<1>10. CASE ToggleWindow
  <2>1. [settings EXCEPT !.visible = ~@] \in Settings
        /\ Agrees([settings EXCEPT !.visible = ~@])
    BY <1>1 DEF Settings, Agrees
  <2>. QED  BY <1>10, <2>1, SaveKeepsSettingsInv DEF ToggleWindow
<1>11. CASE UNCHANGED vars
  BY <1>11 DEF vars, TypesOfSettings, FavoriteXorIgnored, IntactFile
<1>. QED  BY <1>2, <1>3, <1>4, <1>5, <1>6, <1>7, <1>8, <1>9, <1>10, <1>11 DEF Next, Frame

\* No stat is ever a favorite and ignored at once, in memory or in
\* settings.json (the menus of main.cpp, SaveToFile, LoadFromFile).
THEOREM FavoritesAreNotIgnored == Spec => []FavoriteXorIgnored
<1>1. SettingsInv => FavoriteXorIgnored
  BY DEF SettingsInv
<1>. QED  BY <1>1, SettingsInvInit, SettingsInvStep, PTL DEF Spec

\* The settings come back as they were after every last save that was written
\* whole, however the process ended (TrackerSettings, main.cpp).
THEOREM SettingsDoSurvive == Spec => SettingsSurvive
<1>1. SettingsInv /\ [Next]_vars
        => (phase = "unloaded" /\ phase' # "unloaded" /\ intact => settings' = settings)
  <2> SUFFICES ASSUME SettingsInv, Next, phase = "unloaded", phase' # "unloaded", intact
               PROVE  settings' = settings
    BY DEF vars
  <2>1. Load
    BY DEF Next, Frame, BeginFrame, Refresh, Click, LoadReset, Unload, EndSave, Crash,
           ToggleWindow
  <2>. QED  BY <2>1, FileAssumption DEF Load, LoadFromFile, SettingsInv, IntactFile, TypesOfSettings
<1>. QED  BY <1>1, SettingsInvInit, SettingsInvStep, PTL DEF Spec, SettingsSurvive

-----------------------------------------------------------------------------
(* What is drawn. *)

\* Whatever marks the view keeps its invariant, provided nothing is drawn yet.
LEMMA MarkedIsEnough ==
  ASSUME dirty' = TRUE, phase' # "clicks"
  PROVE  ViewInv'
BY DEF ViewInv

\* So does what leaves the view and the settings alone, if no id leaves the
\* totals.
LEMMA UntouchedIsEnough ==
  ASSUME ViewInv, UNCHANGED <<settings, view, dirty>>,
         DOMAIN totals \subseteq DOMAIN totals',
         phase' = phase \/ phase' \notin {"clicks", "unloaded"}
  PROVE  ViewInv'
<1>1. ListsAgree => ListsAgree'
  BY DEF ListsAgree
<1>. QED  BY <1>1 DEF ViewInv

\* Each list the refresh makes is of the rows it was asked for.
LEMMA RowsAreOfTheirItems ==
  ASSUME NEW ids, NEW rows \in Arrangements(ids)
  PROVE  \A row \in Range(rows) : \E id \in ids : row = NewRow(id)
BY DEF Arrangements, Range

LEMMA ViewInvStep == SettingsInv /\ ViewInv /\ [Next]_vars => ViewInv'
<1> SUFFICES ASSUME SettingsInv, ViewInv, [Next]_vars PROVE ViewInv'
  OBVIOUS
<1>1. CASE BeginFrame
  <2>1. \E found : AutomaticReset(found) /\ DOMAIN totals \subseteq DOMAIN found
    <3>1. CASE AutomaticReset(totals)
      BY <3>1
    <3>2. ASSUME NEW id \in Stat, NEW delta \in {-1, 1},
                 AutomaticReset([i \in DOMAIN totals \cup {id} |->
                                   IF i = id THEN Counted(id, delta) ELSE totals[i]])
          PROVE  \E found : AutomaticReset(found) /\ DOMAIN totals \subseteq DOMAIN found
      <4> DEFINE found == [i \in DOMAIN totals \cup {id} |->
                             IF i = id THEN Counted(id, delta) ELSE totals[i]]
      <4>1. AutomaticReset(found)
        BY <3>2
      <4>2. DOMAIN totals \subseteq DOMAIN found
        OBVIOUS
      <4> HIDE DEF found
      <4>. QED  BY <4>1, <4>2
    <3>. QED  BY <1>1, <3>1, <3>2, Zenon DEF BeginFrame
  <2>2. PICK found : /\ DOMAIN totals \subseteq DOMAIN found
                     /\ \/ dirty' = TRUE
                        \/ totals' = found /\ UNCHANGED <<settings, dirty>>
    BY <2>1, AutomaticResetKeeps
  <2>3. phase' = "refresh" /\ UNCHANGED view
    BY <1>1 DEF BeginFrame
  <2>. QED  BY <2>2, <2>3, MarkedIsEnough, UntouchedIsEnough
<1>2. CASE Refresh
  <2>1. CASE settings.visible /\ Stale
    <3>1. Rebuild /\ UNCHANGED <<settings, totals>>
      BY <1>2, <2>1 DEF Refresh
    <3> DEFINE favorites == Listable \cap settings.favorites
               shown == {id \in Listable \ favorites :
                           PassesItemFilters(settings.checked, Info[id], totals[id])}
    <3>2. view'.favorites \in SortedFavorites(favorites)
          /\ view'.items \in SortedItems(shown)
      BY <3>1 DEF Rebuild
    <3>3. \A row \in Range(view'.favorites) : \E id \in favorites : row = NewRow(id)
      BY <3>2, RowsAreOfTheirItems DEF SortedFavorites
    <3>4. \A row \in Range(view'.items) : \E id \in shown : row = NewRow(id)
      BY <3>2, RowsAreOfTheirItems DEF SortedItems
    <3>5. \A m, n \in DOMAIN view'.items :
            m < n => ~Before(view'.items[n], view'.items[m], settings.sorting)
      BY <3>2 DEF SortedItems
    <3>6. \A id : NewRow(id).id = id /\ NewRow(id).count = totals[id]
      BY DEF NewRow, Row
    <3>7. ListsAgree'
      BY <3>1, <3>3, <3>4, <3>5, <3>6 DEF ListsAgree, Listable
    <3>8. dirty' = FALSE /\ phase' = "clicks"
      BY <1>2, <2>1 DEF Refresh
    <3>. QED  BY <3>7, <3>8 DEF ViewInv
  <2>2. CASE ~(settings.visible /\ Stale)
    <3>1. UNCHANGED <<settings, totals, view, dirty>> /\ phase' = "clicks"
      BY <1>2, <2>2 DEF Refresh
    <3>2. ListsAgree => ListsAgree'
      BY <3>1 DEF ListsAgree
    <3>3. settings'.visible => ~dirty'
      BY <2>2, <3>1 DEF Stale
    <3>. QED  BY <3>1, <3>2, <3>3 DEF ViewInv
  <2>. QED  BY <2>1, <2>2
<1>3. CASE Click
  <2>1. phase' = "idle" /\ UNCHANGED view
    BY <1>3 DEF Click
  <2>2. dirty' = TRUE \/ UNCHANGED <<settings, totals, dirty>>
    BY <1>3 DEF Click, WindowClick, OptionsClick, Favorite, Unfavorite, Ignore, Restore, SortBy,
                Close, ResetSession, SaveSettings
  <2>. QED  BY <2>1, <2>2, MarkedIsEnough, UntouchedIsEnough
<1>4. CASE Load
  BY <1>4, MarkedIsEnough DEF Load, ViewInv, SettingsInv, TypesOfSettings
<1>5. CASE LoadReset
  <2>1. phase' = "idle" /\ UNCHANGED view
    BY <1>5 DEF LoadReset
  <2>2. dirty' = TRUE \/ (totals' = totals /\ UNCHANGED <<settings, dirty>>)
    BY <1>5, AutomaticResetKeeps DEF LoadReset
  <2>. QED  BY <2>1, <2>2, MarkedIsEnough, UntouchedIsEnough
<1>6. CASE Unload
  BY <1>6, MarkedIsEnough DEF Unload, SaveSettings
<1>7. CASE EndSave
  BY <1>7, UntouchedIsEnough DEF EndSave
<1>8. CASE Crash
  BY <1>8, MarkedIsEnough DEF Crash
<1>9. CASE ToggleWindow
  BY <1>9, MarkedIsEnough DEF ToggleWindow, SaveSettings
<1>10. CASE UNCHANGED vars
  BY <1>10, UntouchedIsEnough DEF vars
<1>. QED  BY <1>1, <1>2, <1>3, <1>4, <1>5, <1>6, <1>7, <1>8, <1>9, <1>10 DEF Next, Frame

\* What is drawn always accords with the settings and with the session since
\* its last reset (s_itemViewDirty and AddonRenderImpl).
THEOREM ListsDoFollowSettings == Spec => []ListsFollowSettings
<1>1. Init => ViewInv
  BY DEF Init, ViewInv
<1>2. ViewInv => ListsFollowSettings
  BY DEF ViewInv, ListsFollowSettings
<1>. QED  BY <1>1, <1>2, SettingsInvInit, SettingsInvStep, ViewInvStep, PTL DEF Spec

-----------------------------------------------------------------------------
(* Types of the totals and the rows. *)

TypesOfTotals ==
  /\ DOMAIN totals \subseteq Stat
  /\ \A id \in DOMAIN totals : totals[id] \in Count[id]

TypesOfView ==
  /\ phase \in {"unloaded", "load", "idle", "refresh", "clicks"}
  /\ view \in [favorites : Rows, items : Rows]
  /\ elapsed \in BOOLEAN

RowType == [id : Item, count : Int, name : Nat, value : Int]

LEMMA NewRowIsRow ==
  ASSUME TypesOfTotals, NEW id \in Listable
  PROVE  NewRow(id) \in RowType
<1>1. id \in Item /\ id \in DOMAIN totals /\ id \in Stat
  BY DEF Listable, Stat
<1>2. totals[id] \in Int
  BY <1>1, CountAssumption DEF TypesOfTotals
<1>3. Info[id] \in ItemInfo
  BY <1>1, InfoAssumption
<1>4. /\ Info[id].name \in Nat
      /\ \A instant \in BOOLEAN : UnitValue(Info[id], instant) \in Nat
  BY <1>3, UnitValueIsSound DEF ItemInfo
<1>5. UnitValue(Info[id], TRUE) * totals[id] \in Int /\ UnitValue(Info[id], FALSE) * totals[id] \in Int
  <2>1. \A m \in Nat, n \in Int : m * n \in Int
    OBVIOUS
  <2>. QED  BY <1>2, <1>4, <2>1, Zenon
<1>6. \/ NewRow(id) = Row(id, totals[id], Info[id], TRUE)
      \/ NewRow(id) = Row(id, totals[id], Info[id], FALSE)
  <2>1. (InstantBox \in settings.checked) \in BOOLEAN
    OBVIOUS
  <2>2. (InstantBox \in settings.checked) = TRUE \/ (InstantBox \in settings.checked) = FALSE
    BY <2>1
  <2>. QED  BY <2>2, Zenon DEF NewRow
<1>7. ASSUME NEW value \in Int
      PROVE  [id |-> id, count |-> totals[id], name |-> Info[id].name, value |-> value] \in RowType
  BY <1>1, <1>2, <1>4, <1>7 DEF RowType
<1>8. Row(id, totals[id], Info[id], TRUE) \in RowType
  BY <1>5, <1>7, Zenon DEF Row
<1>9. Row(id, totals[id], Info[id], FALSE) \in RowType
  BY <1>5, <1>7, Zenon DEF Row
<1>. QED  BY <1>6, <1>8, <1>9

LEMMA ArrangementsAreRows ==
  ASSUME TypesOfTotals, NEW ids \in SUBSET Listable
  PROVE  Arrangements(ids) \subseteq Rows
<1>1. IsFiniteSet(ids)
  BY ItemAssumption, FS_Subset DEF Listable
<1>2. Cardinality(ids) \in Nat
  BY <1>1, FS_CardinalityType
<1>3. {NewRow(id) : id \in ids} \subseteq RowType
  BY NewRowIsRow
<1>4. ASSUME NEW n \in Nat, NEW rows \in [1 .. n -> RowType]
      PROVE  rows \in Seq(RowType)
  OBVIOUS
<1>5. Arrangements(ids) \subseteq [1 .. Cardinality(ids) -> RowType]
  BY <1>3 DEF Arrangements
<1>6. Rows = Seq(RowType)
  BY DEF Rows, RowType
<1>. QED  BY <1>2, <1>4, <1>5, <1>6

LEMMA AutomaticResetTypes ==
  ASSUME NEW found, AutomaticReset(found)
  PROVE  totals' \in {found, <<>>}
BY DEF AutomaticReset

LEMMA TypesStep == SettingsInv /\ TypesOfTotals /\ TypesOfView /\ [Next]_vars
                     => TypesOfTotals' /\ TypesOfView'
<1> SUFFICES ASSUME SettingsInv, TypesOfTotals, TypesOfView, [Next]_vars
             PROVE  TypesOfTotals' /\ TypesOfView'
  OBVIOUS
<1>1. ASSUME totals' \in {totals, <<>>} PROVE TypesOfTotals'
  BY <1>1 DEF TypesOfTotals
<1>2. CASE BeginFrame
  <2>1. TypesOfView'
    BY <1>2 DEF BeginFrame, TypesOfView
  <2>2. ASSUME NEW id \in Stat, NEW delta \in {-1, 1}, Counted(id, delta) \in Count[id],
               AutomaticReset([i \in DOMAIN totals \cup {id} |->
                                 IF i = id THEN Counted(id, delta) ELSE totals[i]])
        PROVE  TypesOfTotals'
    <3> DEFINE found == [i \in DOMAIN totals \cup {id} |->
                           IF i = id THEN Counted(id, delta) ELSE totals[i]]
    <3>1. DOMAIN found \subseteq Stat /\ \A i \in DOMAIN found : found[i] \in Count[i]
      BY <2>2 DEF TypesOfTotals
    <3>2. AutomaticReset(found)
      BY <2>2
    <3> HIDE DEF found
    <3>. QED  BY <3>1, <3>2, AutomaticResetTypes DEF TypesOfTotals
  <2>3. CASE AutomaticReset(totals)
    <3>1. totals' \in {totals, <<>>}
      BY <2>3 DEF AutomaticReset
    <3>. QED  BY <1>1, <2>1, <3>1
  <2>4. \/ AutomaticReset(totals)
        \/ \E id \in Stat, delta \in {-1, 1} :
             /\ Counted(id, delta) \in Count[id]
             /\ AutomaticReset([i \in DOMAIN totals \cup {id} |->
                                 IF i = id THEN Counted(id, delta) ELSE totals[i]])
    BY <1>2, Zenon DEF BeginFrame
  <2>5. TypesOfTotals'
    BY <2>2, <2>3, <2>4, Zenon
  <2>. QED  BY <2>1, <2>5
<1>3. CASE Refresh
  <2>1. TypesOfTotals'
    BY <1>1, <1>3 DEF Refresh
  <2>2. CASE Rebuild
    <3> DEFINE favorites == Listable \cap settings.favorites
               shown == {id \in Listable \ favorites :
                           PassesItemFilters(settings.checked, Info[id], totals[id])}
    <3>1. view' \in [favorites : SortedFavorites(favorites), items : SortedItems(shown)]
      BY <2>2 DEF Rebuild
    <3>2. favorites \in SUBSET Listable /\ shown \in SUBSET Listable
      OBVIOUS
    <3> HIDE DEF favorites, shown
    <3>3. SortedFavorites(favorites) \subseteq Rows /\ SortedItems(shown) \subseteq Rows
      BY <3>2, ArrangementsAreRows DEF SortedFavorites, SortedItems
    <3>4. view' \in [favorites : Rows, items : Rows]
      BY <3>1, <3>3
    <3>. QED  BY <1>3, <2>1, <3>4 DEF Refresh, TypesOfView
  <2>3. CASE UNCHANGED view
    BY <1>3, <2>1, <2>3 DEF Refresh, TypesOfView
  <2>. QED  BY <1>3, <2>2, <2>3 DEF Refresh
<1>4. CASE Click
  <2>1. totals' \in {totals, <<>>}
    BY <1>4 DEF Click, WindowClick, OptionsClick, ResetSession
  <2>. QED  BY <1>1, <1>4, <2>1 DEF Click, TypesOfView
<1>5. CASE LoadReset
  BY <1>1, <1>5, AutomaticResetTypes DEF LoadReset, TypesOfView
<1>6. CASE Crash
  <2>1. view' \in [favorites : Rows, items : Rows]
    BY <1>6 DEF Crash, NoView, Rows
  <2>. QED  BY <1>1, <1>6, <2>1 DEF Crash, TypesOfView
<1>7. CASE Load \/ Unload \/ EndSave \/ ToggleWindow \/ UNCHANGED vars
  BY <1>1, <1>7 DEF Load, Unload, EndSave, ToggleWindow, vars, TypesOfView
<1>. QED  BY <1>2, <1>3, <1>4, <1>5, <1>6, <1>7 DEF Next, Frame

\* Every variable of the window keeps its type: the totals are of known stats
\* and the lists of typed rows, whatever the prices and the counts.
THEOREM TypesHold == Spec => []TypeOK
<1>1. Init => TypesOfTotals /\ TypesOfView
  <2> SUFFICES ASSUME Init PROVE TypesOfTotals /\ TypesOfView
    OBVIOUS
  <2>1. DOMAIN totals = {}
    BY DEF Init
  <2>2. NoView \in [favorites : Rows, items : Rows]
    BY DEF NoView, Rows
  <2>. QED  BY <2>1, <2>2 DEF Init, TypesOfTotals, TypesOfView
<1>2. SettingsInv /\ TypesOfTotals /\ TypesOfView => TypeOK
  BY DEF SettingsInv, TypesOfSettings, TypesOfTotals, TypesOfView, TypeOK
<1>. QED  BY <1>1, <1>2, SettingsInvInit, SettingsInvStep, TypesStep, PTL DEF Spec
=============================================================================
