SPECIFICATION Spec
CONSTANTS
  Token = {good, other, bad}
  BadToken = {bad}
  NoToken = NoToken
  Thread = {manager, renderer}
  MaxCalls = 2
INVARIANTS
  RunsAsLastCalled
  FrameSeesWholeAddon
  FeedIsAsTold
PROPERTIES
  RefinesOrder
  RefusalIsShown
