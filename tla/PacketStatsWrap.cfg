SPECIFICATION Spec
CONSTANTS
  Half = 3
  Word = 36
  Units = 1
  MaxSeq = 7
INVARIANT DiffIsDistance
