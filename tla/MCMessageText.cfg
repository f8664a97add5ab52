SPECIFICATION MCSpec
CONSTANTS
  Heads <- MCHeads
  Trailers <- MCTrailers
  Contents <- MCContents
  Limits <- MCLimits
  Pieces <- MCPieces
  Whitelist <- MCWhitelist
  MaxInt = 255
  Texts <- MCTexts
  Priorities <- MCPriorities
INVARIANTS
  PartsFit
  TrailersIntact
  RoomyNeverPanics
  Contiguous
  FewPartsCounted
  FieldsFound
CHECK_DEADLOCK FALSE
