CONSTANTS
  Areas <- Views
  Near <- NearViews
  Files = {3}
  None = None
SPECIFICATION MapSpec
INVARIANTS IdleMeansLoaded IdleMeansScanned
PROPERTIES ViewGetsLoaded ViewGetsScanned ReplacementEnds
