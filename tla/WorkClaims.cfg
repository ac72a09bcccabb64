\* Two holders: two overlapping calls on SQLite, one call after another on Postgres.
CONSTANTS
  Driver = "sqlite"
  Requests = {r1, r2}
  Holders = {h1, h2}
  TTLs = {1, 2}
  MaxClock = 2
  MaxRows = 3
SPECIFICATION ClaimsSpec
SYMMETRY Symmetry
CHECK_DEADLOCK FALSE
INVARIANTS TypeOK ClaimExclusive
PROPERTIES LiveClaimIsKept
