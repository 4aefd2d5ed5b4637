\* Custom offers of members and of a stranger, accepted by overlapping requests, paid, moved and deleted.
CONSTANTS
  ann = ann
  bob = bob
  eve = eve
  s1 = s1
  s2 = s2
  Fresh = Fresh
  Deleted = Deleted
  None = None
  User = {ann, bob, eve}
  Service = {s1}
  Category = {k1}
  Order = {o1, o2}
  Charge = {c1}
  Offer = {f1}
  Ticket = {}
  Request = {r1, r2}
  Amount = {a1}
  ServiceOwner <- NoOwner
  CategoryOf <- OneCategory
  PrivateChat <- AnnAndEveBoth
SYMMETRY MemberSymmetry
CONSTRAINT CatalogueOrdersAreBobs
SPECIFICATION Spec
INVARIANTS
  AwaitingIsUnpaid
  OfferOrderAgree
  ReferencesHold
CHECK_DEADLOCK FALSE
