SPECIFICATION Spec
CONSTANTS
  ByteBits = 4
  WordBytes = 2
  WordBlocks = 4
  BlockLen = 16
  Byte <- MCByte
  TopBit = 8
  Stream <- MCStream
  PieceLens <- MCPieceLens
  NULL = NULL
INVARIANT TypeOK
INVARIANT Represents
INVARIANT DigestOfInput
