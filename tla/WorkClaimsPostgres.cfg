\* Two calls and two holders on Postgres.
CONSTANTS
  Driver = "postgres"
  Requests = {r1, r2}
  Holders = {h1, h2}
  TTLs = {1, 2}
  MaxClock = 2
  MaxRows = 3
SPECIFICATION ClaimsSpec
SYMMETRY Symmetry
CHECK_DEADLOCK FALSE
INVARIANTS ClaimExclusive
