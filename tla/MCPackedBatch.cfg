SPECIFICATION Spec
CONSTANTS
  x = x
  y = y
  short = short
  long = long
  cell = cell
  out = out
  cellView = cellView
  outView = outView
  outExporter = outExporter
  cellExporter = cellExporter
  other = other
  Garbage = Garbage
  Bytes = {short, long}
  ByteArrays = {cell, out}
  Views = {cellView, outView}
  Exporters = {cellExporter, outExporter}
  Others = {other}
  Data <- MCData
  Base <- MCBase
  DetachTotal = 3
  DetachItems = 3
  OwnerThreshold = 2
  Lists <- MCLists
  NewLists <- MCNewLists
  Contents <- MCContents
  MaxEvents = 2
INVARIANTS DigestsOfInputs OutputAsReturned FailureLeavesOutput NoPartialOutput
PROPERTIES NeverOverruns
