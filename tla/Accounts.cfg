SPECIFICATION AccountsSpec
CONSTANTS
  Instances = {i1, i2}
  Creators = {c1, c2}
  Owners = {system, blank, ana}
  SystemOwner = system
  Blank = blank
  MaxStarts = 3
SYMMETRY MCSymmetry
INVARIANTS
  OneSystemAccount
  CreateAnswers
