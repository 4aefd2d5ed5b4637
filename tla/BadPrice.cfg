CONSTANTS
  None = None
  Service = {s1, s2}
  Category = {k1}
  Mine = {m1}
  IsExecutor = TRUE
  Others = {x1}
  Ticket = {t1}
  Charge = {p1}
  Call = {c1, c2}
  Depth = 3
SPECIFICATION Spec
INVARIANT PriceIsOfService
