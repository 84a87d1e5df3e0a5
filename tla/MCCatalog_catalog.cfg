\* Two requests at a time on a tree of up to four categories and two products.
CONSTANTS
  audio = audio
  video = video
  cables = cables
  leads = leads
  speaker = speaker
  radio = radio
  Workers = {w1, w2}
  Categories = {audio, video, cables, leads}
  Products = {speaker, radio}
  Lists = {"featured"}
  Prices = {10, 13, 14, 20, 30}
  InitialParents <- TwoRoots
  InitialProducts <- OneProduct
  Bodies <- SomeBodies
  Patches <- SomePatches
  MaxEdits = 2
  None = None
SPECIFICATION FairSpec
CHECK_DEADLOCK FALSE
INVARIANTS
  CatalogTypeOK
  ReferencesResolve
  ForestUnlessRaced
  DiscountUnlessRaced
  StaleOnlyByRace
PROPERTIES
  CacheConverges
