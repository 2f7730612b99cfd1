SPECIFICATION Spec
CONSTANTS
  c1 = c1  c2 = c2  m1 = m1  v1 = v1  v2 = v2
  Gates = {c1, c2, m1}
  Modes <- CommitOrManual
  Contents = {v1, v2}
  Diff <- Flip
  Heads = {h1, h2}
  First = h1
  HandsOff <- Always
  Fresh = 2
  Nothing = Nothing
  Nobody = Nobody
SYMMETRY Symmetry
INVARIANT TypeOK EvidenceFresh CommitTested FullRestsOnFull
