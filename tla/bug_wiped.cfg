SPECIFICATION Spec
CONSTANTS
  Savers = {s1}
  Readers = {r1}
  Peers = {p1, p2}
  Created = FALSE
  Inodes = {i1, i2, i3}
  NoFile = NoFile
  MaxSaves = 2
PROPERTIES SavedRecordsPersist
