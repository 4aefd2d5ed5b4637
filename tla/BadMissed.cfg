\* ann opens the chat in which eve is writing.
CONSTANTS
  ann = ann
  eve = eve
  p1 = p1
  p2 = p2
  d1 = d1
  Fresh = Fresh
  None = None
  Client = {ann, eve}
  OrderTopic = {d1}
  PrivateTopic = {p1}
  ChatId = {k1, k2}
  MessageId = {m1}
  Request = {r1, r2}
  Members <- AnnAndEve
  AcceptedFrom <- EveOffers
SYMMETRY Symmetry
SPECIFICATION Spec
INVARIANT InboxComplete
