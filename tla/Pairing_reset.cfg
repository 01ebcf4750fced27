CONSTANTS
  Button = {b1}
  Device = {d1}
  Addr = {a1, a2}
  Movers = {}
  MaxNet = 1
  MaxList = 2
SPECIFICATION HistorySpec
INVARIANT ResetForgets
