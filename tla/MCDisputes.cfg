\* Payments, admin changes, disputes and deletions, two requests at a time.
CONSTANTS
  ann = ann
  bob = bob
  eve = eve
  s1 = s1
  s2 = s2
  Fresh = Fresh
  Deleted = Deleted
  None = None
  User = {bob}
  Service = {s1}
  Category = {k1}
  Order = {o1}
  Charge = {c1, c2}
  Offer = {}
  Ticket = {t1}
  Request = {r1, r2}
  Amount = {a1}
  ServiceOwner <- NoOwner
  CategoryOf <- OneCategory
  PrivateChat <- NoChats
SYMMETRY Symmetry
SPECIFICATION Spec
INVARIANTS
  TypeOK
  LedgerBalance
  SettledThroughTicket
PROPERTIES
  LedgerSpec
CHECK_DEADLOCK FALSE
