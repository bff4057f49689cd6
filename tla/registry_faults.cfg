SPECIFICATION Spec
CONSTANTS
  f1 = f1  f2 = f2  i1 = i1  i2 = i2  r1 = r1  r2 = r2
  k1 = k1  k2 = k2  m1 = m1  h1 = h1
  Files = {f1, f2}
  Issuers = {i1, i2}
  Recipients = {r1, r2}
  Tokens = {k1, k2}
  Marks = {m1}
  Hashes = {h1}
  Requests <- Shared
  LoopKinds = {"http_img"}
  Loop = Loop
  Workers = {w1, w2}
  None = None
  MaxRequests = 3
  MaxCrashes = 1
  MaxDbErrors = 1
  MaxLogErrors = 1
INVARIANTS EventsAnchored BundleProvable BundleCoversManifest RepliesLogged
CHECK_DEADLOCK FALSE
