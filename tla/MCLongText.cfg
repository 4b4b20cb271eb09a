\* Long texts around the length that marks an invalid short one.
SPECIFICATION CodecSpec
CONSTANTS
  ByteBits = 2
  Lengths = {0, 1, 2, 3, 4}
  ItemCounts = {0, 1}
  Types <- AllTypes
INVARIANT LongTextsArrive
CHECK_DEADLOCK FALSE
