CONSTANTS
  i1 = i1
  i2 = i2
  i3 = i3
  v1 = v1
  v2 = v2
  PageCount = 3
  Val <- MCVal
  Zeroed = Zeroed
  Blank = Blank
  Room = 4
  Id <- MCIds
  Size <- MCUneven
  HotIds = {}
  Torn <- MCTorn
SYMMETRY MCSymmetry
SPECIFICATION Spec
INVARIANT GuessSound
