CONSTANTS
  Areas <- MovedViews
  Near <- NearMovedViews
  Files = {3}
  None = None
INIT MapInit
NEXT MapNext
INVARIANT StillFresh
