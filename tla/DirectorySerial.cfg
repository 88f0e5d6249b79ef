SPECIFICATION Spec
CONSTANTS
  Requests = {q1, q2, q3}
  alice = alice
  bob = bob
  admin = admin
  Nil = Nil
  Entries <- MCEntries
  dnOf <- MCdnOf
  memberOf <- MCmemberOf
  Defaults <- MCDefaults
  Contains <- MCContains
  UserDN = "people"
  Ops <- AllOps
  Serial = TRUE
INVARIANTS
  UniqueDN
  NoPanic
PROPERTIES
  ChangeMatches
  SearchComplete
CHECK_DEADLOCK FALSE
