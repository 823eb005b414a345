CONSTANTS
  Plans = {s1, s2}
  Guarded = {r1, r2}
  Changes = {c1}
  Paid = {"PREMIUM"}
  Ttl = 2
  Term = 1
  Horizon = 4
  MaxFailures = 1
SPECIFICATION PlanSpec
SYMMETRY Alike
INVARIANTS BoundedStaleness
