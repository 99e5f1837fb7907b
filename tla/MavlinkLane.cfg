CONSTANTS
  Byte <- MCByte
  STXV1 = 1
  STXV2 = 2
  HeaderSizeV1 = 2
  HeaderSizeV2 = 3
  ChecksumSize = 1
  SignatureSize = 1
  Checksum <- MCChecksum
  MaxBufferedBytes = 11
  Frames <- MCFrames
  Datagrams <- MCDatagrams
  MaxDatagramBytes <- MCMaxDatagramBytes
  MaxQueue = 1
  MaxDatagrams = 4
SPECIFICATION LaneSpec
CHECK_DEADLOCK FALSE
INVARIANTS
  LaneTypeOK
  ProjectedOnceInOrder
  InStep
  Recovers
