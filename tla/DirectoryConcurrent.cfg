SPECIFICATION FairSpec
CONSTANTS
  Requests = {q1, q2}
  alice = alice
  bob = bob
  admin = admin
  Nil = Nil
  Entries <- MCEntries
  dnOf <- MCdnOf
  memberOf <- MCmemberOf
  Defaults <- MCDefaults
  Contains <- MCContains
  UserDN = "people"
  Ops <- AllOps
  Serial = FALSE
INVARIANTS
  TypeOK
  EntriesIntact
  SliceStaysWhole
PROPERTIES
  EveryRequestAnswered
CHECK_DEADLOCK FALSE
