CONSTANTS
  u1 = u1  u2 = u2  c1 = c1  c2 = c2  c3 = c3  w1 = w1  w2 = w2
  Upstreams = {u1, u2}
  Conns = {c1, c2, c3}
  Workers = {w1, w2}
  Weights = {0, 1, 2}
  NoUpstream = NoUpstream
  NoConn = NoConn
SPECIFICATION Spec
SYMMETRY ConnSymmetry
INVARIANTS TypeOK Ownership
PROPERTIES LightestFirst CoolingPurges KeepsTrack
