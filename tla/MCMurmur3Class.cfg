SPECIFICATION Spec
CONSTANTS
  a = a
  b = b
  NoFrame = NoFrame
  Hashers = {h1, h2}
  Frames = {t1, t2}
  Byte <- MCByte
  Zero = a
  BLOCK_SIZE = 3
  LengthModulus = 4
  FreeThreaded = TRUE
  Detach = 2
  Payloads <- MCPayloads
  Contents <- MCContents
  MaxMessage = 3
INVARIANTS DigestMatchesOneShot IInv
PROPERTIES RefinesStream

