SPECIFICATION Spec
CONSTANTS
  Clients = {c1, c2, c3}
  FileIds = {f}
  ShortIds = {s}
  FullIds = {t}
  NickHeads = {k, m, n}
  Others = 1021
  None = None
SYMMETRY Symmetry
INVARIANTS TypeOK Parsed ListHonest AddresseeReached Signed FileArrives
