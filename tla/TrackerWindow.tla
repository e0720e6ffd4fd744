--------------------------- MODULE TrackerWindow ---------------------------
(***************************************************************************)
(* The window and the options panel (main.cpp) with what they keep: the    *)
(* settings in memory and in settings.json (TrackerSettings), and the item *)
(* view, which is rebuilt when s_itemViewDirty says so or every 250 ms.    *)
(*                                                                         *)
(* A frame holds g_lifecycleMutex, so its steps only meet the clock and    *)
(* the end of the process.  The settings are those a click in the window   *)
(* or a filter changes; the token and the schedule are in DropFeed and     *)
(* AutoReset, and what only matters to the drawing is left out.            *)
(* SessionStore has the session's own file, so that here the totals        *)
(* outlive a crash, and PriceCache has how names and prices come to be     *)
(* known, so that here they are settled.                                   *)
(***************************************************************************)
EXTENDS ItemView, FiniteSets, Sequences, Functions

CONSTANTS
  Item,      \* the item ids
  Currency,  \* the currency ids
  Info,      \* what is known of each of them
  Box,       \* bound: the check boxes that are used: filters, and InstantBox
  Sortings,  \* bound: the sort orders that are used
  Count,     \* bound: the counts each of them can have
  Missing,   \* settings.json does not exist
  Cut        \* settings.json is empty or cut short

Stat == Item \cup Currency

\* estValueUseInstantSellPrice
InstantBox == "instant_sell_price"

Settings == [visible : BOOLEAN, checked : SUBSET Box, sorting : Sortings,
             favorites : SUBSET Stat, ignored : SUBSET Stat]

\* The defaults of struct TrackerSettings.
Defaults == [visible |-> TRUE, checked |-> {},
             sorting |-> [key |-> "profit_total", descending |-> TRUE],
             favorites |-> {}, ignored |-> {}]

ASSUME ItemAssumption == IsFiniteSet(Item)
ASSUME CurrencyAssumption == Item \cap Currency = {}
ASSUME InfoAssumption == Info \in [Stat -> ItemInfo]
ASSUME DefaultsAssumption == Defaults.sorting \in Sortings /\ Sortings \subseteq Sorting
ASSUME CountAssumption == Count \in [Stat -> SUBSET Int]
ASSUME FileAssumption == Missing # Cut /\ {Missing, Cut} \cap Settings = {}

VARIABLES
  phase,     \* where the holder of g_lifecycleMutex is
  settings,  \* g_settings; what it was, once the process has ended
  saving,    \* SaveToFile() has truncated the file
  file,      \* settings.json
  intact,    \* history: the last save has been written whole
  totals,    \* the totals of the session, of the ids that have any
  view,      \* g_itemView
  dirty,     \* s_itemViewDirty
  elapsed    \* the frame has found that kItemViewRefreshInterval has gone by

vars == <<phase, settings, saving, file, intact, totals, view, dirty, elapsed>>

NoView == [favorites |-> <<>>, items |-> <<>>]
Rows == Seq([id : Item, count : Int, name : Nat, value : Int])

TypeOK ==
  /\ phase \in {"unloaded", "load", "idle", "refresh", "clicks"}
  /\ settings \in Settings
  /\ saving \in BOOLEAN
  /\ file \in Settings \cup {Missing, Cut}
  /\ intact \in BOOLEAN
  /\ DOMAIN totals \subseteq Stat
  /\ \A id \in DOMAIN totals : totals[id] \in Count[id]
  /\ view \in [favorites : Rows, items : Rows]
  /\ dirty \in BOOLEAN
  /\ elapsed \in BOOLEAN

Init ==
  /\ phase = "unloaded"
  /\ settings = Defaults
  /\ saving = FALSE
  /\ file = Missing
  /\ intact = TRUE
  /\ totals = <<>>
  /\ view = NoView
  /\ dirty = TRUE
  /\ elapsed = FALSE

-----------------------------------------------------------------------------
(* Saving and loading the settings. *)

\* Bound: the file cannot be opened only after a save that went well.
MayNotOpen == intact

\* A change and its SaveSettings(), up to the truncating open.  Or the file
\* cannot be opened.
SaveSettings(new) ==
  /\ settings' = new
  /\ dirty' = TRUE
  /\ \/ saving' = TRUE /\ file' = Cut
     \/ MayNotOpen /\ UNCHANGED <<saving, file>>
  /\ intact' = FALSE

\* The file has been written; or the disk is full, which nothing looks at.
EndSave ==
  /\ saving
  /\ saving' = FALSE
  /\ \/ file' = settings /\ intact' = TRUE
     \/ UNCHANGED <<file, intact>>
  /\ UNCHANGED <<phase, settings, totals, view, dirty, elapsed>>

LoadFromFile == IF file \in {Missing, Cut} THEN Defaults ELSE file

Load ==
  /\ phase = "unloaded" /\ ~saving
  /\ phase' = "load"
  /\ settings' = LoadFromFile
  /\ UNCHANGED <<saving, file, intact, totals, view, dirty, elapsed>>

\* CheckAndApplyAutomaticReset() with the totals it finds: nothing, a first
\* schedule, or a reset and the next schedule.
AutomaticReset(found) ==
  \/ totals' = found /\ UNCHANGED <<settings, saving, file, intact, dirty>>
  \/ totals' \in {found, <<>>} /\ SaveSettings(settings)

LoadReset ==
  /\ phase = "load"
  /\ phase' = "idle"
  /\ AutomaticReset(totals)
  /\ UNCHANGED <<view, elapsed>>

\* Unload() saves the settings once more.
Unload ==
  /\ phase = "idle" /\ ~saving
  /\ phase' = "unloaded"
  /\ SaveSettings(settings)
  /\ UNCHANGED <<totals, view, elapsed>>

\* The end of the process, in a save or not.
Crash ==
  /\ phase' = "unloaded"
  /\ saving' = FALSE
  /\ view' = NoView
  /\ dirty' = TRUE
  /\ elapsed' = FALSE
  /\ UNCHANGED <<settings, file, intact, totals>>

\* Slip: the keybind does not save.
ToggleWindowUnsaved ==
  /\ phase = "idle" /\ ~saving
  /\ settings' = [settings EXCEPT !.visible = ~@]
  /\ UNCHANGED <<phase, saving, file, intact, totals, view, dirty, elapsed>>

\* ToggleWindowKeybindHandler(): only between frames, as it tries the lock.
ToggleWindow ==
  /\ phase = "idle" /\ ~saving
  /\ SaveSettings([settings EXCEPT !.visible = ~@])
  /\ UNCHANGED <<phase, totals, view, elapsed>>

-----------------------------------------------------------------------------
(* A frame. *)

Counted(id, delta) == delta + IF id \in DOMAIN totals THEN totals[id] ELSE 0

\* No drop, or one, which does not mark the view.
BeginFrame ==
  /\ phase = "idle" /\ ~saving
  /\ phase' = "refresh"
  /\ \/ AutomaticReset(totals)
     \/ \E id \in Stat, delta \in {-1, 1} :
          /\ Counted(id, delta) \in Count[id]
          /\ AutomaticReset([i \in DOMAIN totals \cup {id} |->
                               IF i = id THEN Counted(id, delta) ELSE totals[i]])
  /\ elapsed' \in BOOLEAN
  /\ UNCHANGED view

\* What BuildItemRows() makes of the totals, by id.
Listable == {id \in Item \cap DOMAIN totals : totals[id] # 0 /\ id \notin settings.ignored}

NewRow(id) == Row(id, totals[id], Info[id], InstantBox \in settings.checked)

Arrangements(ids) ==
  {rows \in [1 .. Cardinality(ids) -> {NewRow(id) : id \in ids}] : IsInjective(rows)}

\* The two std::sorts, which leave ties in any order: favorites by name, the
\* others as the settings say.
SortedFavorites(ids) ==
  {rows \in Arrangements(ids) :
     \A m, n \in DOMAIN rows : m < n => rows[m].name <= rows[n].name}
SortedItems(ids) ==
  {rows \in Arrangements(ids) :
     \A m, n \in DOMAIN rows : m < n => ~Before(rows[n], rows[m], settings.sorting)}

\* RefreshItemView()
Rebuild ==
  LET favorites == Listable \cap settings.favorites
      shown == {id \in Listable \ favorites :
                  PassesItemFilters(settings.checked, Info[id], totals[id])}
  IN view' \in [favorites : SortedFavorites(favorites), items : SortedItems(shown)]

\* Slip: only what marks the view has it rebuilt.
StaleIfDirty == dirty

Stale == dirty \/ elapsed

\* The rest of AddonRenderImpl() needs the window to be visible.
Refresh ==
  /\ phase = "refresh" /\ ~saving
  /\ phase' = "clicks"
  /\ IF settings.visible /\ Stale
       THEN Rebuild /\ dirty' = FALSE
       ELSE UNCHANGED <<view, dirty>>
  /\ elapsed' = FALSE
  /\ UNCHANGED <<settings, saving, file, intact, totals>>

\* What can be right-clicked: the rows of the view, and the currencies as
\* they are now.
Drawn ==
  {row.id : row \in Range(view.favorites) \cup Range(view.items)} \cup
  {id \in Currency \cap DOMAIN totals :
     /\ totals[id] # 0
     /\ \/ id \in settings.favorites
        \/ /\ id \notin settings.ignored
           /\ PassesCurrencyFilters(settings.checked, Info[id], totals[id])}

Favorite(id) ==
  /\ id \in Drawn \ settings.favorites
  /\ SaveSettings([settings EXCEPT !.favorites = @ \cup {id}, !.ignored = @ \ {id}])

Unfavorite(id) ==
  /\ id \in Drawn \cap settings.favorites
  /\ SaveSettings([settings EXCEPT !.favorites = @ \ {id}])

\* Slip: a favorite stays one.
IgnoreOnly(id) ==
  /\ id \in Drawn
  /\ SaveSettings([settings EXCEPT !.ignored = @ \cup {id}])

Ignore(id) ==
  /\ id \in Drawn
  /\ SaveSettings([settings EXCEPT !.ignored = @ \cup {id}, !.favorites = @ \ {id}])

Restore(id) ==
  /\ id \in settings.ignored
  /\ SaveSettings([settings EXCEPT !.ignored = @ \ {id}])

\* SyncSortFromTableHeaderClick()
SortBy(sorting) == SaveSettings([settings EXCEPT !.sorting = sorting])

Close == SaveSettings([settings EXCEPT !.visible = FALSE])

\* Slip: the rows of the session before the reset stay.
ResetSessionUnmarked ==
  /\ totals' = <<>>
  /\ UNCHANGED <<settings, saving, file, intact, dirty>>

ResetSession ==
  /\ totals' = <<>>
  /\ dirty' = TRUE
  /\ UNCHANGED <<settings, saving, file, intact>>

\* A click in the window ...
WindowClick ==
  /\ settings.visible
  /\ \/ /\ \/ \E id \in Stat : Favorite(id) \/ Unfavorite(id) \/ Ignore(id) \/ Restore(id)
           \/ \E sorting \in Sortings : SortBy(sorting)
           \/ Close
        /\ UNCHANGED totals
     \/ ResetSession

\* ... or in the options panel, which is drawn next.
OptionsClick ==
  /\ \/ SaveSettings([settings EXCEPT !.visible = ~@])
     \/ \E box \in Box :
          SaveSettings([settings EXCEPT !.checked =
            IF box \in @ THEN @ \ {box} ELSE @ \cup {box}])
  /\ UNCHANGED totals

\* One click, or none.
Click ==
  /\ phase = "clicks" /\ ~saving
  /\ phase' = "idle"
  /\ \/ UNCHANGED <<settings, saving, file, intact, totals, dirty>>
     \/ WindowClick
     \/ OptionsClick
  /\ UNCHANGED <<view, elapsed>>

-----------------------------------------------------------------------------

Frame == BeginFrame \/ Refresh \/ Click

Next ==
  \/ Frame
  \/ Load
  \/ LoadReset
  \/ Unload
  \/ EndSave
  \/ Crash
  \/ ToggleWindow

\* The game draws frames, a write and a Load() end, and time passes, so that
\* of the frames again and again one comes 250 ms after the last rebuild.
Spec ==
  /\ Init
  /\ [][Next]_vars
  /\ WF_vars(LoadReset)
  /\ WF_vars(Frame)
  /\ WF_vars(EndSave)
  /\ SF_vars(BeginFrame /\ elapsed')

-----------------------------------------------------------------------------
(* Safety. *)

\* No sequence of clicks, saves, crashes and loads makes a stat a favorite and
\* ignored at once: "Ignored and Favorite are mutually exclusive per stat"
\* (TrackerSettings, enforced by each of the five menus of main.cpp).
FavoriteXorIgnored ==
  /\ settings.favorites \cap settings.ignored = {}
  /\ file \in Settings => file.favorites \cap file.ignored = {}

\* Every row is in the list it belongs to, passes the filters and is of this
\* session, and the rows are in order.
ListsAgree ==
  /\ \A row \in Range(view.favorites) \cup Range(view.items) :
       row.id \in DOMAIN totals \ settings.ignored
  /\ \A row \in Range(view.favorites) : row.id \in settings.favorites
  /\ \A row \in Range(view.items) :
       /\ row.id \notin settings.favorites
       /\ PassesItemFilters(settings.checked, Info[row.id], row.count)
  /\ \A m, n \in DOMAIN view.items :
       m < n => ~Before(view.items[n], view.items[m], settings.sorting)

\* What is drawn is never behind the settings, nor behind a reset, although
\* the view may be behind the drops (s_itemViewDirty, which every place that
\* changes the settings or resets the session must set).
ListsFollowSettings == phase = "clicks" /\ settings.visible => ListsAgree

\* A Load() finds the settings as they last were, however the process ended;
\* only a save that was not written whole costs them.  Then the defaults
\* apply, or, when the file could not be opened, what it held
\* (SaveToFile, LoadFromFile, and every click that must save).
SettingsSurvive ==
  [][phase = "unloaded" /\ phase' # "unloaded" /\ intact => settings' = settings]_vars

(* Liveness. *)

\* What the list shows of an item is what has been counted of it.
Shows(id) ==
  LET rows == {row \in Range(view.favorites) \cup Range(view.items) : row.id = id} IN
  IF id \in Listable
    THEN \/ \E row \in rows : row.count = totals[id]
         \/ rows = {} /\ ~PassesItemFilters(settings.checked, Info[id], totals[id])
    ELSE rows = {}

\* While the window stays open the list catches up with the drops again and
\* again, although a drop does not mark the view: "a new drop just rides along
\* on the next periodic refresh" (AddonRenderImpl).
DropsComeIntoView ==
  <>[](phase # "unloaded" /\ settings.visible) => \A id \in Item : []<>Shows(id)
=============================================================================
