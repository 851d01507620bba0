\* Four songs: every song but the first follows another, and most are followed by one.
SPECIFICATION FairSpec
CONSTANT MaxSongs = 4
INVARIANTS
  NoUseAfterFree
  CleanHandOver
  KeysReachTheSong
PROPERTY
  PlaySongReturns
