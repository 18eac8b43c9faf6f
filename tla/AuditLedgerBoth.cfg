SPECIFICATION FairSpec
CONSTANTS
  h1 = h1
  h2 = h2
  Backends = {"memory", "postgres"}
  Hulls = {h1, h2}
  Contents = {c1}
  Subjects = {s1}
  Actors = {p1, p2}
  Requests = {r1, r2, r3}
  Starts <- MCStarts
  Nobody = Nobody
  None = None
  Forged = Forged
INVARIANTS VerificationIsExact
PROPERTIES CommitInOrder EveryAppendEnds
CHECK_DEADLOCK FALSE
