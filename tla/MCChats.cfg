\* Two private chats and an order's chat on ann's client, one of them shared with eve.
CONSTANTS
  ann = ann
  eve = eve
  p1 = p1
  p2 = p2
  d1 = d1
  Fresh = Fresh
  None = None
  Client = {ann, eve}
  OrderTopic = {d1}
  PrivateTopic = {p1, p2}
  ChatId = {k1, k2}
  MessageId = {m1}
  Request = {r1, r2}
  Members <- MembersOf
  AcceptedFrom <- OfferedBy
SYMMETRY Symmetry
SPECIFICATION Spec
INVARIANTS
  TypeOK
  ShownInChat
  OnlyMembersSee
PROPERTY PrivateDelivery
