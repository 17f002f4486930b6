SPECIFICATION CheckSpec
CONSTANTS
  Releases = {r1, r2}
  Modules = {m1, m2}
  Empty = Empty
INVARIANTS
  BehindOpensBump
