SPECIFICATION Spec
CONSTANTS
  None = None  Junk = Junk
  MetresPerUnit = 3
  Documents <- MCDocuments
  Site <- MCSite
  FirstFiles <- MCFirstFiles
  Requests <- MCRequests
  Asking <- MCAsking
  Means <- MCMeans
  Frontends = {"cgi", "apache", "nginx"}
  MaxRequests = 2
  MaxEdits = 1
INVARIANTS TypeOK TilesShowTheirPlace MapsShowTheWorld MimeTellsTheBody NothingOutlivesItsTiles EditsAreNoticed
  BadEditsDoNoHarm ThreadsRenderForTheRest OnlyPicturesAreKept 
PROPERTIES ReadOnlyWorkers RequestsEnd
