CONSTANTS
  Headers <- MCHeaders
  Extensions <- MCExtensions
  Profiles <- MCProfiles
  MaxAcceptCandidates = 3
  FullQuality = 2
  ContentTypes <- MCContentTypes
  RankOf <- MCRankOf
SPECIFICATION Spec
INVARIANTS
  SelectsPreferred
  SelectedIsReadable
