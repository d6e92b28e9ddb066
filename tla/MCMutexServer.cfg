CONSTANTS
  u1 = u1  c1 = c1  c2 = c2  w1 = w1  w2 = w2  w3 = w3
  Upstreams = {u1}
  Conns = {c1, c2}
  Workers = {w1, w2, w3}
  Weights = {0}
  NoUpstream = NoUpstream
  NoConn = NoConn
  Permits = 2
  Retries = 1
SPECIFICATION ServerFairSpec
INVARIANTS ServerTypeOK PermitsConserved BorrowersAdmitted
PROPERTIES UsesPool KeepsPromise Answered
