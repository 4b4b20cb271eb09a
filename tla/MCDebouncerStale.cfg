\* Three objects that pass one after another.
SPECIFICATION DebouncerSpec
CONSTANTS
  Objects = {a, b, c}
  Windows = {2}
  MaxTime = 6
  MaxCalls = 2
INVARIANT HeldBackIsFresh
