SPECIFICATION Spec
CONSTANTS
  Savers = {s1, s2}
  Readers = {r1}
  Peers = {p1, p2}
  Created = FALSE
  Inodes = {i1, i2, i3, i4}
  NoFile = NoFile
  MaxSaves = 2
SYMMETRY StoreSymmetry
INVARIANTS NobodyFailsAlone StoreInv
PROPERTIES AtomicWithoutOverlap ReadsNeverGoBack
