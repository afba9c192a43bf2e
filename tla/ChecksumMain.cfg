\* Bytes of two bits: every buffer, every place of the checksum in it.
SPECIFICATION MCSpec
CONSTANTS
  Byte = 4
  MaxLen = 6
  Addresses = {0, 1, 100, 240, 255}
  Protocols = {1, 3}
CHECK_DEADLOCK FALSE
INVARIANTS SumIsReference CorruptionDetected UdpVerifies
