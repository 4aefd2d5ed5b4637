----------------------------- MODULE OrderEscrow -----------------------------
(***************************************************************************)
(* Orders, payments, escrows, custom offers and dispute tickets of the UIS *)
(* server: the rows the database keeps and the HTTP requests that read and *)
(* write them.                                                             *)
(*                                                                         *)
(* A request is a process.  Each awaited query is a step that copies what  *)
(* it read into the request's record; SaveChangesAsync is one step, because *)
(* Entity Framework sends all pending changes in one transaction.  Between *)
(* two steps any other request may run: the server takes no lock and no    *)
(* entity has a concurrency token.  A handler whose queries cannot change  *)
(* its outcome (it only inserts, or its write is the same whatever it read) *)
(* is a single step.                                                       *)
(***************************************************************************)
EXTENDS FiniteSets

CONSTANTS
  User,         \* everyone who ever has an account
  Service,      \* services of the catalogue
  Category,     \* categories of the catalogue
  Order,        \* identifiers of order rows: their number bounds the orders
  Charge,       \* one per payment transaction, bounds the payments
  Offer,        \* identifiers of custom offers, bounds the offers
  Ticket,       \* identifiers of tickets, bounds the tickets
  Request,      \* requests that can be in flight at the same time
  Amount,       \* prices and amounts a client may send
  ServiceOwner, \* the ExecutorId of each service, or None
  CategoryOf,   \* the category of each service
  PrivateChat,  \* pairs <<student, executor>> that share a private chat
  Fresh,        \* a row that was never inserted
  Deleted,      \* a row that was inserted and deleted (a Guid is not reused)
  None          \* a null column, or a request slot that is free

OrderStatus  == {"AwaitingPayment", "Pending", "In Progress", "Completed", "Cancelled"}
AdminStatus  == OrderStatus \ {"AwaitingPayment"}
EscrowStatus == {"Held", "Released", "Refunded"}
TicketStatus == {"Open", "Closed"}
OfferStatus  == {"Pending", "Accepted"}
Verdict      == {"refund", "release", "other"}

OrderRow   == [student : User, executor : User \cup {None}, service : Service,
               price : Amount, status : OrderStatus]
PaymentRow == [order : Order, amount : Amount]
EscrowRow  == [order : Order, amount : Amount, status : EscrowStatus]
OfferRow   == [student : User, executor : User, price : Amount, status : OfferStatus]
TicketRow  == [owner : User, order : Order \cup {None}, status : TicketStatus]

PayRequest     == [op : {"pay"}, order : Order, amount : Amount, seen : OrderStatus]
StatusRequest  == [op : {"status"}, order : Order, new : AdminStatus, seen : OrderStatus]
AcceptRequest  == [op : {"accept"}, offer : Offer, service : Service \cup {None}]
ResolveRequest == [op : {"resolve"}, ticket : Ticket, verdict : Verdict, order : Order,
                   ticketSeen : TicketStatus, charge : Charge \cup {None},
                   escrowSeen : EscrowStatus \cup {None}, orderSeen : OrderStatus \cup {None}]
RequestState   == PayRequest \cup StatusRequest \cup AcceptRequest \cup ResolveRequest

NoRow == {Fresh, Deleted}

\* The distinguished values are neither identifiers nor rows.
ASSUME SentinelsDiffer ==
  /\ Fresh # Deleted
  /\ NoRow \cap (OrderRow \cup PaymentRow \cup EscrowRow \cup OfferRow \cup TicketRow) = {}
  /\ None \notin User \cup Service \cup Order \cup Charge \cup Offer \cup OrderStatus
                  \cup EscrowStatus \cup RequestState

ASSUME CatalogueIsTyped ==
  /\ ServiceOwner \in [Service -> User \cup {None}]
  /\ CategoryOf \in [Service -> Category]
  /\ PrivateChat \subseteq User \X User

VARIABLES
  users,      \* accounts that exist
  services,   \* services that exist
  order,      \* the Orders table
  origin,     \* history: the offer each order was made from, or None
  payment,    \* the Payments table (every row has Status "Completed")
  escrow,     \* the Escrows table
  offer,      \* the CustomOffers table
  ticket,     \* the Tickets table
  orderChat,  \* orders that some row of Chats points to
  req         \* the requests in flight, with what they have read so far

accounts == <<users, services>>
orders   == <<order, origin>>
ledger   == <<payment, escrow>>
vars     == <<accounts, orders, ledger, offer, ticket, orderChat, req>>

Live(row) == row \notin NoRow

TypeOK ==
  /\ users \subseteq User
  /\ services \subseteq Service
  /\ order \in [Order -> OrderRow \cup NoRow]
  /\ origin \in [Order -> Offer \cup {None}]
  /\ payment \in [Charge -> PaymentRow \cup NoRow]
  /\ escrow \in [Charge -> EscrowRow \cup NoRow]
  /\ offer \in [Offer -> OfferRow \cup NoRow]
  /\ ticket \in [Ticket -> TicketRow \cup NoRow]
  /\ orderChat \subseteq Order
  /\ req \in [Request -> RequestState \cup {None}]

Init ==
  /\ users = User
  /\ services = Service
  /\ order = [o \in Order |-> Fresh]
  /\ origin = [o \in Order |-> None]
  /\ payment = [c \in Charge |-> Fresh]
  /\ escrow = [c \in Charge |-> Fresh]
  /\ offer = [f \in Offer |-> Fresh]
  /\ ticket = [t \in Ticket |-> Fresh]
  /\ orderChat = {}
  /\ req = [r \in Request |-> None]

-----------------------------------------------------------------------------
(* Entity Framework and PostgreSQL, as the handlers use them.              *)

\* An UPDATE is sent only for a property that differs from the value loaded,
\* whatever the row holds by now, and it fails when the row is gone.
Writes(seen, new) == seen # new

\* Mutant: the assignment to Status is missing.
SetStatusForgotten(table, id, seen, new) == table

SetStatus(table, id, seen, new) ==
  IF Writes(seen, new) THEN [table EXCEPT ![id].status = new] ELSE table

CanSet(table, id, seen, new) == Writes(seen, new) => Live(table[id])

\* The rows of a table that point to an order of O go with it (ON DELETE CASCADE).
WithoutOrders(table, O) ==
  [c \in DOMAIN table |->
     IF Live(table[c]) /\ table[c].order \in O THEN Deleted ELSE table[c]]

\* Mutant: only payments cascade.
DeleteOrdersKeepingEscrows(O) ==
  /\ O \cap orderChat = {}
  /\ order' = [o \in Order |-> IF o \in O THEN Deleted ELSE order[o]]
  /\ payment' = WithoutOrders(payment, O)
  /\ UNCHANGED escrow

\* Mutant: the chats of the orders do not hold the deletion up.
DeleteOrdersUnderChats(O) ==
  /\ order' = [o \in Order |-> IF o \in O THEN Deleted ELSE order[o]]
  /\ payment' = WithoutOrders(payment, O)
  /\ escrow' = WithoutOrders(escrow, O)

\* Deleting orders takes their payments and escrows along.  A chat that points
\* to an order (NO ACTION) makes the whole statement fail.
DeleteOrders(O) ==
  /\ O \cap orderChat = {}
  /\ order' = [o \in Order |-> IF o \in O THEN Deleted ELSE order[o]]
  /\ payment' = WithoutOrders(payment, O)
  /\ escrow' = WithoutOrders(escrow, O)

Arrives(r, state) ==
  /\ req[r] = None
  /\ req' = [req EXCEPT ![r] = state]

Handling(r, op) == req[r] # None /\ req[r].op = op

Ends(r) == req' = [req EXCEPT ![r] = None]

-----------------------------------------------------------------------------
\* The foreign key of Orders.ServiceId.
ServiceKey(s) == s \in services

(* OrdersController.Create.  The student is looked up first, but the row is *)
(* guarded by its foreign keys at the insert, and nothing comes back.      *)
CreateOrder(o, u, s, p) ==
  /\ order[o] = Fresh
  /\ u \in users /\ ServiceKey(s)
  /\ order' = [order EXCEPT ![o] = [student |-> u, executor |-> None, service |-> s,
                                    price |-> p, status |-> "Pending"]]
  /\ UNCHANGED <<accounts, origin, ledger, offer, ticket, orderChat, req>>

\* Mutant: the payment is recorded and the hold is left for later.
HoldFundsLater(c, o, a) == UNCHANGED escrow

(* EscrowService.HoldFundsAsync: the save it makes is the one that commits  *)
(* the payment and the order's status too.                                 *)
HoldFunds(c, o, a) ==
  /\ escrow[c] = Fresh
  /\ escrow' = [escrow EXCEPT ![c] = [order |-> o, amount |-> a, status |-> "Held"]]

\* Mutant: no foreign key.
OrderKeyUnchecked(o) == TRUE

\* The foreign key of Payments and Escrows.
OrderKey(o) == Live(order[o])

(* PaymentService.ProcessPaymentAsync: FindAsync the order, then one        *)
(* transaction with the payment, the escrow and the order's new status.    *)
PayLoad(r, o, a) ==
  /\ Live(order[o])
  /\ Arrives(r, [op |-> "pay", order |-> o, amount |-> a, seen |-> order[o].status])
  /\ UNCHANGED <<accounts, orders, ledger, offer, ticket, orderChat>>

PaySave(r, c) ==
  /\ Handling(r, "pay")
  /\ payment[c] = Fresh
  /\ LET o == req[r].order
         a == req[r].amount
     IN /\ OrderKey(o)
        /\ payment' = [payment EXCEPT ![c] = [order |-> o, amount |-> a]]
        /\ HoldFunds(c, o, a)
        /\ order' = SetStatus(order, o, req[r].seen, "Pending")
  /\ Ends(r)
  /\ UNCHANGED <<accounts, origin, offer, ticket, orderChat>>

-----------------------------------------------------------------------------
(* ChatService.SendCustomOfferAsync in a private chat.  Nobody asks whether *)
(* the sender is a member: whoever sends becomes the executor, and the      *)
(* student is the member who is not the sender, the first one for a         *)
(* stranger.                                                                *)
SendCustomOffer(f, pair, u, p) ==
  /\ offer[f] = Fresh
  /\ u \in users
  /\ offer' = [offer EXCEPT ![f] = [student |-> IF pair[1] = u THEN pair[2] ELSE pair[1],
                                    executor |-> u, price |-> p, status |-> "Pending"]]
  /\ UNCHANGED <<accounts, orders, ledger, ticket, orderChat, req>>

\* Mutant: the offer's status is not looked at.
AcceptLoadAnyOffer(r, f) ==
  /\ Live(offer[f])
  /\ Arrives(r, [op |-> "accept", offer |-> f, service |-> None])
  /\ UNCHANGED <<accounts, orders, ledger, offer, ticket, orderChat>>

(* ChatService.AcceptCustomOfferAsync, asked by the offer's student: find   *)
(* the pending offer, find a service to hang the order on, save both rows.  *)
(* Only the status of an offer ever changes, so the other columns are read  *)
(* from the row; when the row is gone the save fails, whatever was picked.  *)
AcceptLoad(r, f) ==
  /\ Live(offer[f]) /\ offer[f].status = "Pending"
  /\ Arrives(r, [op |-> "accept", offer |-> f, service |-> None])
  /\ UNCHANGED <<accounts, orders, ledger, offer, ticket, orderChat>>

\* A service of the executor if there is one, otherwise any service.
ServiceFor(executor) ==
  LET own == {s \in services : ServiceOwner[s] = executor}
  IN IF own # {} THEN own ELSE services

AcceptPickService(r) ==
  /\ Handling(r, "accept") /\ req[r].service = None
  /\ Live(offer[req[r].offer])
  /\ \E s \in ServiceFor(offer[req[r].offer].executor) :
       req' = [req EXCEPT ![r].service = s]
  /\ UNCHANGED <<accounts, orders, ledger, offer, ticket, orderChat>>

\* Mutant: the offer is saved on its own, and the order is never reached.
AcceptSaveOfferOnly(r, o) ==
  /\ Handling(r, "accept") /\ req[r].service \in services
  /\ Live(offer[req[r].offer]) /\ order[o] = Fresh
  /\ offer' = [offer EXCEPT ![req[r].offer].status = "Accepted"]
  /\ Ends(r)
  /\ UNCHANGED <<accounts, orders, ledger, ticket, orderChat>>

AcceptSave(r, o) ==
  /\ Handling(r, "accept") /\ ServiceKey(req[r].service)
  /\ Live(offer[req[r].offer]) /\ order[o] = Fresh
  /\ LET f == req[r].offer
     IN /\ offer' = [offer EXCEPT ![f].status = "Accepted"]
        /\ order' = [order EXCEPT ![o] =
                       [student |-> offer[f].student, executor |-> offer[f].executor,
                        service |-> req[r].service, price |-> offer[f].price,
                        status |-> "AwaitingPayment"]]
        /\ origin' = [origin EXCEPT ![o] = f]
  /\ Ends(r)
  /\ UNCHANGED <<accounts, ledger, ticket, orderChat>>

-----------------------------------------------------------------------------
(* AdminController.UpdateOrderStatus, with the statuses its form offers.    *)
StatusLoad(r, o, new) ==
  /\ Live(order[o])
  /\ Arrives(r, [op |-> "status", order |-> o, new |-> new, seen |-> order[o].status])
  /\ UNCHANGED <<accounts, orders, ledger, offer, ticket, orderChat>>

StatusSave(r) ==
  /\ Handling(r, "status")
  /\ CanSet(order, req[r].order, req[r].seen, req[r].new)
  /\ order' = SetStatus(order, req[r].order, req[r].seen, req[r].new)
  /\ Ends(r)
  /\ UNCHANGED <<accounts, origin, ledger, offer, ticket, orderChat>>

(* TicketController.Create: the ticket is linked to no order.              *)
CreateTicket(t, u) ==
  /\ ticket[t] = Fresh
  /\ u \in users
  /\ ticket' = [ticket EXCEPT ![t] = [owner |-> u, order |-> None, status |-> "Open"]]
  /\ UNCHANGED <<accounts, orders, ledger, offer, orderChat, req>>

(* No code fills Tickets.OrderId: an operator does, in the database.  The   *)
(* column has no foreign key.                                              *)
LinkTicket(t, o) ==
  /\ Live(ticket[t]) /\ ticket[t].order = None
  /\ Live(order[o])
  /\ ticket' = [ticket EXCEPT ![t].order = o]
  /\ UNCHANGED <<accounts, orders, ledger, offer, orderChat, req>>

(* AdminController.CloseTicket.                                             *)
CloseTicket(t) ==
  /\ Live(ticket[t])
  /\ ticket' = [ticket EXCEPT ![t].status = "Closed"]
  /\ UNCHANGED <<accounts, orders, ledger, offer, orderChat, req>>

(* AdminController.ResolveDispute: three queries, then one save of whatever *)
(* changed among the escrow, the order and the ticket.                     *)
ResolveLoadTicket(r, t, v) ==
  /\ Live(ticket[t]) /\ ticket[t].order # None
  /\ Arrives(r, [op |-> "resolve", ticket |-> t, verdict |-> v, order |-> ticket[t].order,
                 ticketSeen |-> ticket[t].status, charge |-> None,
                 escrowSeen |-> None, orderSeen |-> None])
  /\ UNCHANGED <<accounts, orders, ledger, offer, ticket, orderChat>>

ResolveLoadEscrow(r, c) ==
  /\ Handling(r, "resolve") /\ req[r].charge = None
  /\ Live(escrow[c]) /\ escrow[c].order = req[r].order
  /\ req' = [req EXCEPT ![r].charge = c, ![r].escrowSeen = escrow[c].status]
  /\ UNCHANGED <<accounts, orders, ledger, offer, ticket, orderChat>>

ResolveLoadOrder(r) ==
  /\ Handling(r, "resolve") /\ req[r].charge # None /\ req[r].orderSeen = None
  /\ Live(order[req[r].order])
  /\ req' = [req EXCEPT ![r].orderSeen = order[req[r].order].status]
  /\ UNCHANGED <<accounts, orders, ledger, offer, ticket, orderChat>>

\* What a verdict makes of the status that was read.
SettledEscrow(verdict, seen) ==
  CASE verdict = "refund"  -> "Refunded"
    [] verdict = "release" -> "Released"
    [] OTHER               -> seen

\* Mutant: the two outcomes are swapped.
SettledOrderSwapped(verdict, seen) ==
  CASE verdict = "refund"  -> "Completed"
    [] verdict = "release" -> "Cancelled"
    [] OTHER               -> seen

SettledOrder(verdict, seen) ==
  CASE verdict = "refund"  -> "Cancelled"
    [] verdict = "release" -> "Completed"
    [] OTHER               -> seen

\* Mutant: the ticket stays open.
ResolveSaveTicketOpen(r) ==
  /\ Handling(r, "resolve") /\ req[r].orderSeen # None
  /\ LET q == req[r]
         e == SettledEscrow(q.verdict, q.escrowSeen)
         s == SettledOrder(q.verdict, q.orderSeen)
     IN /\ CanSet(escrow, q.charge, q.escrowSeen, e)
        /\ CanSet(order, q.order, q.orderSeen, s)
        /\ escrow' = SetStatus(escrow, q.charge, q.escrowSeen, e)
        /\ order' = SetStatus(order, q.order, q.orderSeen, s)
  /\ Ends(r)
  /\ UNCHANGED <<accounts, origin, payment, offer, ticket, orderChat>>

ResolveSave(r) ==
  /\ Handling(r, "resolve") /\ req[r].orderSeen # None
  /\ LET q == req[r]
         e == SettledEscrow(q.verdict, q.escrowSeen)
         s == SettledOrder(q.verdict, q.orderSeen)
     IN /\ CanSet(escrow, q.charge, q.escrowSeen, e)
        /\ CanSet(order, q.order, q.orderSeen, s)
        /\ CanSet(ticket, q.ticket, q.ticketSeen, "Closed")
        /\ escrow' = SetStatus(escrow, q.charge, q.escrowSeen, e)
        /\ order' = SetStatus(order, q.order, q.orderSeen, s)
        /\ ticket' = SetStatus(ticket, q.ticket, q.ticketSeen, "Closed")
  /\ Ends(r)
  /\ UNCHANGED <<accounts, origin, payment, offer, orderChat>>

-----------------------------------------------------------------------------
(* ChatController.GetOrderChat inserts the order's chat on first use.       *)
OpenOrderChat(o) ==
  /\ Live(order[o])
  /\ orderChat' = orderChat \cup {o}
  /\ UNCHANGED <<accounts, orders, ledger, offer, ticket, req>>

\* The orders a deleted service, or a deleted student, takes along.
OrdersOfServices(S) == {o \in Order : Live(order[o]) /\ order[o].service \in S}
OrdersOfStudent(u)  == {o \in Order : Live(order[o]) /\ order[o].student = u}

RemoveServices(S) ==
  /\ services' = services \ S
  /\ DeleteOrders(OrdersOfServices(S))
  /\ UNCHANGED <<users, origin, offer, ticket, orderChat, req>>

(* AdminController.DeleteService and DeleteCategory.                        *)
DeleteService(s) == s \in services /\ RemoveServices({s})

DeleteCategory(k) ==
  LET S == {s \in services : CategoryOf[s] = k}
  IN S # {} /\ RemoveServices(S)

\* NO ACTION references that keep an account from being deleted.
Referenced(u) ==
  \/ \E pair \in PrivateChat : u \in {pair[1], pair[2]}
  \/ \E s \in services : ServiceOwner[s] = u
  \/ \E o \in Order : Live(order[o]) /\ order[o].executor = u /\ order[o].student # u

\* The offers and tickets that go with an account (ON DELETE CASCADE).
OffersOf(u)  == {f \in Offer : Live(offer[f]) /\ u \in {offer[f].student, offer[f].executor}}
TicketsOf(u) == {t \in Ticket : Live(ticket[t]) /\ ticket[t].owner = u}

\* Mutant: the tickets stay, without an owner.
DeleteUserKeepingTickets(u) ==
  /\ u \in users /\ ~Referenced(u)
  /\ users' = users \ {u}
  /\ DeleteOrders(OrdersOfStudent(u))
  /\ offer' = [f \in Offer |-> IF f \in OffersOf(u) THEN Deleted ELSE offer[f]]
  /\ ticket' = [t \in Ticket |->
                  IF t \in TicketsOf(u) THEN [ticket[t] EXCEPT !.owner = None] ELSE ticket[t]]
  /\ UNCHANGED <<services, origin, orderChat, req>>

\* Mutant: only the offers made to the account go with it.
DeleteUserKeepingItsOffers(u) ==
  /\ u \in users /\ ~Referenced(u)
  /\ users' = users \ {u}
  /\ DeleteOrders(OrdersOfStudent(u))
  /\ offer' = [f \in Offer |->
                 IF Live(offer[f]) /\ offer[f].student = u THEN Deleted ELSE offer[f]]
  /\ ticket' = [t \in Ticket |-> IF t \in TicketsOf(u) THEN Deleted ELSE ticket[t]]
  /\ UNCHANGED <<services, origin, orderChat, req>>

(* AdminController.DeleteUser.  The offers that go are those the account    *)
(* sent: the student of an offer is a member of the chat it was sent in.    *)
DeleteUser(u) ==
  /\ u \in users /\ ~Referenced(u)
  /\ users' = users \ {u}
  /\ DeleteOrders(OrdersOfStudent(u))
  /\ offer' = [f \in Offer |-> IF f \in OffersOf(u) THEN Deleted ELSE offer[f]]
  /\ ticket' = [t \in Ticket |-> IF t \in TicketsOf(u) THEN Deleted ELSE ticket[t]]
  /\ UNCHANGED <<services, origin, orderChat, req>>

(* A request that ends without a save: a row it needs is missing, an         *)
(* exception (foreign key, affected rows) rolls its save back, or the       *)
(* process dies.                                                            *)
Drop(r) ==
  /\ req[r] # None
  /\ Ends(r)
  /\ UNCHANGED <<accounts, orders, ledger, offer, ticket, orderChat>>

-----------------------------------------------------------------------------
StudentNext ==
  \/ \E o \in Order, u \in User, s \in Service, p \in Amount : CreateOrder(o, u, s, p)
  \/ \E r \in Request, o \in Order, a \in Amount : PayLoad(r, o, a)
  \/ \E r \in Request, c \in Charge : PaySave(r, c)
  \/ \E f \in Offer, pair \in PrivateChat, u \in User, p \in Amount :
       SendCustomOffer(f, pair, u, p)
  \/ \E r \in Request, f \in Offer : AcceptLoad(r, f)
  \/ \E r \in Request : AcceptPickService(r)
  \/ \E r \in Request, o \in Order : AcceptSave(r, o)
  \/ \E t \in Ticket, u \in User : CreateTicket(t, u)
  \/ \E o \in Order : OpenOrderChat(o)

AdminNext ==
  \/ \E r \in Request, o \in Order, new \in AdminStatus : StatusLoad(r, o, new)
  \/ \E r \in Request : StatusSave(r)
  \/ \E t \in Ticket, o \in Order : LinkTicket(t, o)
  \/ \E t \in Ticket : CloseTicket(t)
  \/ \E r \in Request, t \in Ticket, v \in Verdict : ResolveLoadTicket(r, t, v)
  \/ \E r \in Request, c \in Charge : ResolveLoadEscrow(r, c)
  \/ \E r \in Request : ResolveLoadOrder(r)
  \/ \E r \in Request : ResolveSave(r)
  \/ \E s \in Service : DeleteService(s)
  \/ \E k \in Category : DeleteCategory(k)
  \/ \E u \in User : DeleteUser(u)

Next ==
  \/ StudentNext
  \/ AdminNext
  \/ \E r \in Request : Drop(r)

Spec == Init /\ [][Next]_vars

-----------------------------------------------------------------------------
(* Properties that every interleaving of the requests keeps.               *)

\* A payment and its escrow are one fact: neither exists without the other,
\* both name the same order and amount, and the order still exists.  They are
\* written by two services (ProcessPaymentAsync, HoldFundsAsync) and removed by
\* two cascades.
LedgerBalance ==
  \A c \in Charge :
    /\ Live(payment[c]) <=> Live(escrow[c])
    /\ Live(escrow[c]) =>
         /\ escrow[c].order = payment[c].order
         /\ escrow[c].amount = payment[c].amount
         /\ Live(order[escrow[c].order])

\* An order that still awaits payment has no charge: paying and leaving
\* "AwaitingPayment" are one step, and a slow admin or payment request that
\* loaded the order earlier never puts the status back.
AwaitingIsUnpaid ==
  \A c \in Charge :
    Live(escrow[c]) => order[escrow[c].order].status # "AwaitingPayment"

\* An offer is accepted exactly when an order was made from it, and an order
\* has an executor only through an offer of the same two people at the same
\* price (AcceptCustomOfferAsync is the only code that sets ExecutorId), which is
\* there as long as the order is: the account of a stranger who sent an offer can
\* be deleted, and the offer with it, but not once an order names them.
OfferOrderAgree ==
  /\ \A f \in Offer :
       Live(offer[f]) => (offer[f].status = "Accepted" <=> \E o \in Order : origin[o] = f)
  /\ \A o \in Order :
       Live(order[o]) /\ order[o].executor # None =>
         /\ origin[o] # None /\ Live(offer[origin[o]])
         /\ order[o].student = offer[origin[o]].student
         /\ order[o].executor = offer[origin[o]].executor
         /\ order[o].price = offer[origin[o]].price

\* No cascade and no late insert leaves a row pointing to something deleted:
\* people and services of orders, people of offers, the order of a chat.
ReferencesHold ==
  /\ \A o \in Order :
       Live(order[o]) =>
         /\ order[o].student \in users
         /\ order[o].executor \in users \cup {None}
         /\ order[o].service \in services
  /\ \A f \in Offer : Live(offer[f]) => {offer[f].student, offer[f].executor} \subseteq users
  /\ \A o \in orderChat : Live(order[o])

\* Money that left "Held" has a dispute to show for it: a closed ticket linked
\* to the order (unless its owner's account was deleted since).
SettledThroughTicket ==
  \A c \in Charge :
    Live(escrow[c]) /\ escrow[c].status # "Held" =>
      \E t \in Ticket :
        \/ ticket[t] = Deleted
        \/ Live(ticket[t]) /\ ticket[t].order = escrow[c].order /\ ticket[t].status = "Closed"

\* The tables implement the ledger's promise.
Ledger == INSTANCE EscrowLedger WITH entry  <- escrow,
                                     erased <- {o \in Order : order[o] = Deleted}
LedgerSpec == Ledger!Spec

-----------------------------------------------------------------------------
(* Properties that hold when requests do not overlap, and are lost when they *)
(* do, because a handler acts on what it read before another one's save.   *)

\* An offer becomes at most one order.
OneOrderPerOffer ==
  \A o1, o2 \in Order : origin[o1] # None /\ origin[o1] = origin[o2] => o1 = o2

\* Escrow c leaves its status for the given one in this step.
BecomesSettled(c, status) ==
  /\ Live(escrow[c]) /\ Live(escrow'[c])
  /\ escrow[c].status # status /\ escrow'[c].status = status

\* The step that refunds an escrow leaves its order cancelled, and the step
\* that releases it leaves its order completed.
SettlementMovesOrder ==
  [][\A c \in Charge :
       /\ BecomesSettled(c, "Refunded") => order'[escrow[c].order].status = "Cancelled"
       /\ BecomesSettled(c, "Released") => order'[escrow[c].order].status = "Completed"]_vars

-----------------------------------------------------------------------------
(* What the documents say and the code does not do.                        *)

\* logic.md, 5: funds in escrow are released once, no double spending.
SettledOnce ==
  [][\A c \in Charge :
       Live(escrow[c]) /\ Live(escrow'[c]) /\ escrow[c].status # "Held" =>
         escrow'[c].status = escrow[c].status]_vars
=============================================================================
