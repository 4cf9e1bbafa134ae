SPECIFICATION FairSpec
CONSTANTS
  Media = {m1, m2}
  Stored = {m1}
  TextMedia = {m2}
  Slots = {r1, r2}
  Names = {"a", "A"}
  TagLists <- MCTagLists
  Lower <- MCLower
  Texts = {t}
  Caption = caption
  NoText = noText
  NoRow = noRow
  NoTags = noTags
  NoSlot = noSlot
  Idle = idle
  MaxRequests = 2
  MaxMishaps = 1
INVARIANTS MediaTypeOK FilesMatchRows CaseTwinsOnlyByRace TagsAsWanted CommittedWereHandled
PROPERTY EveryEventIsTaken
CHECK_DEADLOCK FALSE
