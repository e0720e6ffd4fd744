SPECIFICATION Spec
CONSTANTS
  Item = {1, 2}
  Currency = {3}
  Info <- MCInfo
  Box = {"positive_count"}
  Sortings <- MCSortings
  Count <- MCCount
  Missing = Missing
  Cut = Cut
INVARIANTS
  FavoriteXorIgnored
  ListsFollowSettings
PROPERTIES
  SettingsSurvive
  DropsComeIntoView
