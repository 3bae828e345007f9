SPECIFICATION Spec
CONSTANTS
  x = x
  d = d
  e = e
  a = a
  dTail = dTail
  eView = eView
  dStrided = dStrided
  eExporter = eExporter
  aExporter = aExporter
  dText = dText
  hookText = hookText
  exact = exact
  long = long
  text = text
  other = other
  Bad = Bad
  Legacy = Legacy
  Bytes = {exact, long}
  Strings = {text}
  ByteArrays = {d, e, a}
  Views = {dTail, eView, dStrided}
  Exporters = {eExporter, aExporter}
  Texts = {dText, hookText}
  Reentrant = {hookText}
  Others = {other}
  Strided = {dStrided}
  Data <- MCData
  Base <- MCBase
  Offset <- MCOffset
  Size <- MCSize
  OwnerThreshold = 2
  Calls <- MCCalls
  Initial <- MCInitial
  Contents <- MCContents
  Blocks = {0, 1, 2, 3}
  BlockSize = 2
  MaxEvents = 2
INVARIANTS ConversionsOfInputs NoLiveAlias KnownHooksRunBeforeWrites OutputsAsReturned UnreachedUntouched
PROPERTIES KeepsSizes
