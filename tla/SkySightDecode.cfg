CONSTANTS
  Layers = {wind, rain}
  NoLayer = NoLayer
  MaxDownloads = 3
  StartMayFail = TRUE
SPECIFICATION FairDecodeSpec
INVARIANTS ResultsMatch CancelSuppresses DecodingIsTrue
PROPERTY DecodingEnds
