SPECIFICATION Spec
CONSTANTS
  Requests = {q1}
  alice = alice
  bob = bob
  admin = admin
  Nil = Nil
  Entries <- MCEntries
  dnOf <- MCdnOf
  memberOf <- MCmemberOf
  Defaults <- MCDefaults
  Contains <- MCContains
  UserDN = "people"
  Ops <- Modifies
  Serial = TRUE
INVARIANTS
  ReplaceTakesEffect
CHECK_DEADLOCK FALSE
