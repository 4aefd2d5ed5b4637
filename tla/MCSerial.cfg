\* Every operation, one request at a time.
CONSTANTS
  ann = ann
  bob = bob
  eve = eve
  s1 = s1
  s2 = s2
  Fresh = Fresh
  Deleted = Deleted
  None = None
  User = {ann, eve}
  Service = {s1}
  Category = {k1}
  Order = {o1, o2}
  Charge = {c1}
  Offer = {f1}
  Ticket = {t1}
  Request = {r1}
  Amount = {a1}
  ServiceOwner <- EveOwnsFirst
  CategoryOf <- OneCategory
  PrivateChat <- AnnAndEve
SYMMETRY Symmetry
SPECIFICATION Spec
INVARIANTS
  LedgerBalance
  ReferencesHold
  OneOrderPerOffer
PROPERTIES
  LedgerSpec
  SettlementMovesOrder
CHECK_DEADLOCK FALSE
