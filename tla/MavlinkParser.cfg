CONSTANTS
  Byte <- MCByte
  STXV1 = 1
  STXV2 = 2
  HeaderSizeV1 = 2
  HeaderSizeV2 = 3
  ChecksumSize = 1
  SignatureSize = 1
  Checksum <- MCChecksum
  MaxBufferedBytes = 8
  MaxChunk = 3
  MaxStream = 8
SPECIFICATION Spec
INVARIANTS
  BytesAccounted
  CutsDoNotMatter
  InStreamOrder
