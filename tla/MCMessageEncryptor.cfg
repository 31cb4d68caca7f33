SPECIFICATION EncSpec
CONSTANTS
  a = a
  b = b
  c = c
  emoji = emoji
  first = first
  second = second
  Zero = Zero
  CodePoint = {a, b, c, emoji, first, second, Zero}
  High = {first}
  Low = {second}
  HalvesOf <- MCHalvesOf
  Code = {1, 2, 3, 4, 5}
  Hash <- MCHash
  MaxText = 3
INVARIANTS
  EncTypeOK
  MapsInverse
  StaysReadable
