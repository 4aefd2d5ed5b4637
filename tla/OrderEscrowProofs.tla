-------------------------- MODULE OrderEscrowProofs --------------------------
(***************************************************************************)
(* Proofs about OrderEscrow for every value of its constants: any number   *)
(* of orders, charges, offers, tickets, and overlapping requests.          *)
(***************************************************************************)
EXTENDS OrderEscrow, TLAPS

\* A row is neither of the two values that stand for a missing row.
LEMMA RowsAreLive ==
  /\ \A row \in OrderRow \cup PaymentRow \cup EscrowRow \cup OfferRow \cup TicketRow : Live(row)
  /\ ~Live(Fresh) /\ ~Live(Deleted) /\ Fresh # Deleted
BY SentinelsDiffer DEF Live, NoRow

\* A request that ends keeps the requests typed.
LEMMA EndsTyped ==
  ASSUME TypeOK, NEW r \in Request, Ends(r)
  PROVE  req' \in [Request -> RequestState \cup {None}]
BY DEF TypeOK, Ends

\* A request that arrives well formed keeps the requests typed.
LEMMA ArrivesTyped ==
  ASSUME TypeOK, NEW r \in Request, NEW state \in RequestState, Arrives(r, state)
  PROVE  req' \in [Request -> RequestState \cup {None}]
BY DEF TypeOK, Arrives

\* A request in flight has the shape its op says.
LEMMA HandlingTyped ==
  ASSUME TypeOK, NEW r \in Request
  PROVE  /\ Handling(r, "pay") => req[r] \in PayRequest
         /\ Handling(r, "status") => req[r] \in StatusRequest
         /\ Handling(r, "accept") => req[r] \in AcceptRequest
         /\ Handling(r, "resolve") => req[r] \in ResolveRequest
BY DEF TypeOK, Handling, RequestState, PayRequest, StatusRequest, AcceptRequest, ResolveRequest

\* Writing an order's status keeps the table typed: the row is there if it is written.
LEMMA SetOrderTyped ==
  ASSUME TypeOK, NEW o, NEW seen, NEW new, Writes(seen, new) => new \in OrderStatus,
         CanSet(order, o, seen, new)
  PROVE  SetStatus(order, o, seen, new) \in [Order -> OrderRow \cup NoRow]
BY DEF TypeOK, CanSet, SetStatus, Live, OrderRow

\* The same of an escrow's status.
LEMMA SetEscrowTyped ==
  ASSUME TypeOK, NEW c, NEW seen, NEW new, Writes(seen, new) => new \in EscrowStatus,
         CanSet(escrow, c, seen, new)
  PROVE  SetStatus(escrow, c, seen, new) \in [Charge -> EscrowRow \cup NoRow]
BY DEF TypeOK, CanSet, SetStatus, Live, EscrowRow

\* The same of a ticket's status.
LEMMA SetTicketTyped ==
  ASSUME TypeOK, NEW t, NEW seen, NEW new, Writes(seen, new) => new \in TicketStatus,
         CanSet(ticket, t, seen, new)
  PROVE  SetStatus(ticket, t, seen, new) \in [Ticket -> TicketRow \cup NoRow]
BY DEF TypeOK, CanSet, SetStatus, Live, TicketRow

\* The cascade from orders keeps the three tables typed.
LEMMA DeleteOrdersTyped ==
  ASSUME TypeOK, NEW O, DeleteOrders(O)
  PROVE  /\ order' \in [Order -> OrderRow \cup NoRow]
         /\ payment' \in [Charge -> PaymentRow \cup NoRow]
         /\ escrow' \in [Charge -> EscrowRow \cup NoRow]
BY DEF TypeOK, DeleteOrders, WithoutOrders, NoRow

\* The empty tables are typed.
LEMMA InitTyped == Init => TypeOK
BY SentinelsDiffer DEF Init, TypeOK, NoRow

\* Every handler step keeps the types, one step per action.
LEMMA NextTyped == TypeOK /\ [Next]_vars => TypeOK'
<1> SUFFICES ASSUME TypeOK, [Next]_vars PROVE TypeOK'
  OBVIOUS
<1> USE SentinelsDiffer
<1>1. ASSUME NEW o \in Order, NEW u \in User, NEW s \in Service, NEW p \in Amount,
             CreateOrder(o, u, s, p)
      PROVE  TypeOK'
  BY <1>1 DEF TypeOK, CreateOrder, accounts, ledger, OrderRow, OrderStatus
<1>2. ASSUME NEW r \in Request, NEW o \in Order, NEW a \in Amount, PayLoad(r, o, a)
      PROVE  TypeOK'
  <2>1. [op |-> "pay", order |-> o, amount |-> a, seen |-> order[o].status] \in RequestState
    BY <1>2 DEF TypeOK, PayLoad, Live, OrderRow, RequestState, PayRequest
  <2>2. QED
    BY <1>2, <2>1, ArrivesTyped DEF TypeOK, PayLoad, accounts, orders, ledger
<1>3. ASSUME NEW r \in Request, NEW c \in Charge, PaySave(r, c)
      PROVE  TypeOK'
  <2>1. req[r] \in PayRequest
    BY <1>3, HandlingTyped DEF PaySave
  <2>2. CanSet(order, req[r].order, req[r].seen, "Pending")
    BY <1>3 DEF PaySave, OrderKey, CanSet
  <2>3. order' \in [Order -> OrderRow \cup NoRow]
    BY <1>3, <2>1, <2>2, SetOrderTyped DEF PaySave, PayRequest, OrderStatus
  <2>4. payment' \in [Charge -> PaymentRow \cup NoRow]
    BY <1>3, <2>1 DEF TypeOK, PaySave, PayRequest, PaymentRow
  <2>5. escrow' \in [Charge -> EscrowRow \cup NoRow]
    BY <1>3, <2>1 DEF TypeOK, PaySave, HoldFunds, PayRequest, EscrowRow, EscrowStatus
  <2>6. QED
    BY <1>3, <2>3, <2>4, <2>5, EndsTyped DEF TypeOK, PaySave, accounts
<1>4. ASSUME NEW f \in Offer, NEW pair \in PrivateChat, NEW u \in User, NEW p \in Amount,
             SendCustomOffer(f, pair, u, p)
      PROVE  TypeOK'
  <2>1. pair[1] \in User /\ pair[2] \in User
    BY CatalogueIsTyped
  <2>2. offer' \in [Offer -> OfferRow \cup NoRow]
    BY <1>4, <2>1 DEF TypeOK, SendCustomOffer, OfferRow, OfferStatus
  <2>3. QED
    BY <1>4, <2>2 DEF TypeOK, SendCustomOffer, accounts, orders, ledger
<1>5. ASSUME NEW r \in Request, NEW f \in Offer, AcceptLoad(r, f)
      PROVE  TypeOK'
  <2>1. [op |-> "accept", offer |-> f, service |-> None] \in RequestState
    BY DEF RequestState, AcceptRequest
  <2>2. QED
    BY <1>5, <2>1, ArrivesTyped DEF TypeOK, AcceptLoad, accounts, orders, ledger
<1>6. ASSUME NEW r \in Request, AcceptPickService(r)
      PROVE  TypeOK'
  <2>1. PICK s \in ServiceFor(offer[req[r].offer].executor) :
               req' = [req EXCEPT ![r].service = s]
    BY <1>6 DEF AcceptPickService
  <2>2. s \in Service
    BY <2>1 DEF ServiceFor, TypeOK
  <2>3. req[r] \in AcceptRequest
    BY <1>6, HandlingTyped DEF AcceptPickService
  <2>4. [req[r] EXCEPT !.service = s] \in RequestState
    BY <2>2, <2>3 DEF AcceptRequest, RequestState
  <2>5. req' \in [Request -> RequestState \cup {None}]
    BY <2>1, <2>4 DEF TypeOK
  <2>6. QED
    BY <1>6, <2>5 DEF TypeOK, AcceptPickService, accounts, orders, ledger
<1>7. ASSUME NEW r \in Request, NEW o \in Order, AcceptSave(r, o)
      PROVE  TypeOK'
  <2>1. req[r] \in AcceptRequest
    BY <1>7, HandlingTyped DEF AcceptSave
  <2>2. req[r].service \in Service /\ req[r].offer \in Offer
    BY <1>7, <2>1 DEF AcceptSave, ServiceKey, TypeOK, AcceptRequest
  <2>3. offer[req[r].offer] \in OfferRow
    BY <1>7, <2>2 DEF AcceptSave, Live, TypeOK
  <2>4. offer' \in [Offer -> OfferRow \cup NoRow]
    BY <1>7, <2>2, <2>3 DEF AcceptSave, TypeOK, OfferRow, OfferStatus
  <2>5. order' \in [Order -> OrderRow \cup NoRow]
    BY <1>7, <2>2, <2>3 DEF AcceptSave, TypeOK, OfferRow, OrderRow, OrderStatus
  <2>6. origin' \in [Order -> Offer \cup {None}]
    BY <1>7, <2>2 DEF AcceptSave, TypeOK
  <2>7. QED
    BY <1>7, <2>4, <2>5, <2>6, EndsTyped DEF AcceptSave, TypeOK, accounts, ledger
<1>8. ASSUME NEW r \in Request, NEW o \in Order, NEW new \in AdminStatus,
             StatusLoad(r, o, new)
      PROVE  TypeOK'
  <2>1. [op |-> "status", order |-> o, new |-> new, seen |-> order[o].status] \in RequestState
    BY <1>8 DEF TypeOK, StatusLoad, Live, OrderRow, RequestState, StatusRequest
  <2>2. QED
    BY <1>8, <2>1, ArrivesTyped DEF TypeOK, StatusLoad, accounts, orders, ledger
<1>9. ASSUME NEW r \in Request, StatusSave(r)
      PROVE  TypeOK'
  <2>1. req[r] \in StatusRequest
    BY <1>9, HandlingTyped DEF StatusSave
  <2>2. order' \in [Order -> OrderRow \cup NoRow]
    BY <1>9, <2>1, SetOrderTyped DEF StatusSave, StatusRequest, AdminStatus
  <2>3. QED
    BY <1>9, <2>2, EndsTyped DEF TypeOK, StatusSave, accounts, ledger
<1>10. ASSUME NEW t \in Ticket, NEW u \in User, CreateTicket(t, u)
       PROVE  TypeOK'
  BY <1>10 DEF TypeOK, CreateTicket, accounts, orders, ledger, TicketRow, TicketStatus
<1>11. ASSUME NEW t \in Ticket, NEW o \in Order, LinkTicket(t, o)
       PROVE  TypeOK'
  BY <1>11 DEF TypeOK, LinkTicket, Live, accounts, orders, ledger, TicketRow
<1>12. ASSUME NEW t \in Ticket, CloseTicket(t)
       PROVE  TypeOK'
  BY <1>12 DEF TypeOK, CloseTicket, Live, accounts, orders, ledger, TicketRow, TicketStatus
<1>13. ASSUME NEW r \in Request, NEW t \in Ticket, NEW v \in Verdict,
              ResolveLoadTicket(r, t, v)
       PROVE  TypeOK'
  <2>1. [op |-> "resolve", ticket |-> t, verdict |-> v, order |-> ticket[t].order,
         ticketSeen |-> ticket[t].status, charge |-> None,
         escrowSeen |-> None, orderSeen |-> None] \in RequestState
    BY <1>13 DEF TypeOK, ResolveLoadTicket, Live, TicketRow, RequestState, ResolveRequest
  <2>2. QED
    BY <1>13, <2>1, ArrivesTyped DEF TypeOK, ResolveLoadTicket, accounts, orders, ledger
<1>14. ASSUME NEW r \in Request, NEW c \in Charge, ResolveLoadEscrow(r, c)
       PROVE  TypeOK'
  <2>1. req[r] \in ResolveRequest
    BY <1>14, HandlingTyped DEF ResolveLoadEscrow
  <2>2. escrow[c].status \in EscrowStatus
    BY <1>14 DEF TypeOK, ResolveLoadEscrow, Live, EscrowRow
  <2>3. [req[r] EXCEPT !.charge = c, !.escrowSeen = escrow[c].status] \in RequestState
    BY <2>1, <2>2 DEF ResolveRequest, RequestState
  <2>4. req' \in [Request -> RequestState \cup {None}]
    BY <1>14, <2>3 DEF TypeOK, ResolveLoadEscrow
  <2>5. QED
    BY <1>14, <2>4 DEF TypeOK, ResolveLoadEscrow, accounts, orders, ledger
<1>15. ASSUME NEW r \in Request, ResolveLoadOrder(r)
       PROVE  TypeOK'
  <2>1. req[r] \in ResolveRequest
    BY <1>15, HandlingTyped DEF ResolveLoadOrder
  <2>2. order[req[r].order].status \in OrderStatus
    BY <1>15, <2>1 DEF TypeOK, ResolveLoadOrder, Live, OrderRow, ResolveRequest
  <2>3. [req[r] EXCEPT !.orderSeen = order[req[r].order].status] \in RequestState
    BY <2>1, <2>2 DEF ResolveRequest, RequestState
  <2>4. req' \in [Request -> RequestState \cup {None}]
    BY <1>15, <2>3 DEF TypeOK, ResolveLoadOrder
  <2>5. QED
    BY <1>15, <2>4 DEF TypeOK, ResolveLoadOrder, accounts, orders, ledger
<1>16. ASSUME NEW r \in Request, ResolveSave(r)
       PROVE  TypeOK'
  <2> DEFINE q == req[r]
             e == SettledEscrow(q.verdict, q.escrowSeen)
             s == SettledOrder(q.verdict, q.orderSeen)
  <2>1. /\ Writes(q.escrowSeen, e) => e \in EscrowStatus
        /\ Writes(q.orderSeen, s) => s \in OrderStatus
    BY DEF Writes, SettledEscrow, SettledOrder, EscrowStatus, OrderStatus
  <2>2. escrow' \in [Charge -> EscrowRow \cup NoRow]
    BY <1>16, <2>1, SetEscrowTyped DEF ResolveSave
  <2>3. order' \in [Order -> OrderRow \cup NoRow]
    BY <1>16, <2>1, SetOrderTyped DEF ResolveSave
  <2>4. ticket' \in [Ticket -> TicketRow \cup NoRow]
    BY <1>16, SetTicketTyped DEF ResolveSave, TicketStatus
  <2>5. QED
    BY <1>16, <2>2, <2>3, <2>4, EndsTyped DEF TypeOK, ResolveSave, accounts
<1>17. ASSUME NEW o \in Order, OpenOrderChat(o)
       PROVE  TypeOK'
  BY <1>17 DEF TypeOK, OpenOrderChat, accounts, orders, ledger
<1>18. ASSUME NEW S, RemoveServices(S)
       PROVE  TypeOK'
  BY <1>18, DeleteOrdersTyped DEF TypeOK, RemoveServices
<1>19. ASSUME NEW u \in User, DeleteUser(u)
       PROVE  TypeOK'
  <2>1. ticket' \in [Ticket -> TicketRow \cup NoRow]
    BY <1>19 DEF TypeOK, DeleteUser, NoRow
  <2>2. offer' \in [Offer -> OfferRow \cup NoRow]
    BY <1>19 DEF TypeOK, DeleteUser, NoRow
  <2>3. QED
    BY <1>19, <2>1, <2>2, DeleteOrdersTyped DEF TypeOK, DeleteUser
<1>20. ASSUME NEW r \in Request, Drop(r)
       PROVE  TypeOK'
  BY <1>20, EndsTyped DEF TypeOK, Drop, accounts, orders, ledger
<1>21. CASE UNCHANGED vars
  BY <1>21 DEF TypeOK, vars, accounts, orders, ledger
<1>22. QED
  BY <1>1, <1>2, <1>3, <1>4, <1>5, <1>6, <1>7, <1>8, <1>9, <1>10, <1>11, <1>12, <1>13,
     <1>14, <1>15, <1>16, <1>17, <1>18, <1>19, <1>20, <1>21
  DEF Next, StudentNext, AdminNext, DeleteService, DeleteCategory

-----------------------------------------------------------------------------
\* How a step leaves request q: as it was, ended, just arrived, or one query on.
RequestStep(q) ==
  \/ req'[q] = req[q]
  \/ req'[q] = None
  \/ \E o \in Order, a \in Amount : PayLoad(q, o, a)
  \/ \E f \in Offer : AcceptLoad(q, f)
  \/ \E o \in Order, new \in AdminStatus : StatusLoad(q, o, new)
  \/ \E t \in Ticket, v \in Verdict : ResolveLoadTicket(q, t, v)
  \/ /\ Handling(q, "accept") /\ Handling(q, "accept")'
     /\ req'[q].offer = req[q].offer
     /\ UNCHANGED offer
  \/ /\ Handling(q, "resolve") /\ Handling(q, "resolve")'
     /\ req'[q].ticket = req[q].ticket
     /\ req'[q].order = req[q].order
     /\ req'[q].ticketSeen = req[q].ticketSeen
     /\ UNCHANGED <<order, escrow, ticket>>
     /\ \/ \E c \in Charge : /\ Live(escrow[c]) /\ escrow[c].order = req[q].order
                             /\ req[q].charge = None
                             /\ req'[q].charge = c
        \/ req'[q].charge = req[q].charge
     /\ \/ req'[q].orderSeen = req[q].orderSeen
        \/ Live(order[req[q].order]) /\ req'[q].orderSeen = order[req[q].order].status

\* Every step does to each request one of the things RequestStep lists.
LEMMA RequestSteps == TypeOK /\ [Next]_vars => \A q \in Request : RequestStep(q)
<1> SUFFICES ASSUME TypeOK, [Next]_vars, NEW q \in Request PROVE RequestStep(q)
  OBVIOUS
<1> USE SentinelsDiffer DEF RequestStep
<1>1. ASSUME UNCHANGED req PROVE RequestStep(q)
  BY <1>1
<1>2. ASSUME NEW r \in Request, Ends(r) PROVE RequestStep(q)
  BY <1>2 DEF Ends, TypeOK
<1>3. ASSUME NEW r \in Request, NEW state, Arrives(r, state), q # r PROVE RequestStep(q)
  BY <1>3 DEF Arrives, TypeOK
<1>4. ASSUME NEW r \in Request, AcceptPickService(r) PROVE RequestStep(q)
  <2>1. req[r] \in AcceptRequest /\ UNCHANGED offer
    BY <1>4, HandlingTyped DEF AcceptPickService
  <2>2. PICK s : req' = [req EXCEPT ![r].service = s]
    BY <1>4 DEF AcceptPickService
  <2>3. CASE q = r
    BY <1>4, <2>1, <2>2, <2>3 DEF AcceptPickService, AcceptRequest, Handling, TypeOK
  <2>4. CASE q # r
    BY <2>2, <2>4 DEF TypeOK
  <2>5. QED
    BY <2>3, <2>4
<1>5. ASSUME NEW r \in Request, NEW c \in Charge, ResolveLoadEscrow(r, c) PROVE RequestStep(q)
  <2>1. req[r] \in ResolveRequest
    BY <1>5, HandlingTyped DEF ResolveLoadEscrow
  <2>2. CASE q = r
    BY <1>5, <2>1, <2>2
    DEF ResolveLoadEscrow, ResolveRequest, Handling, TypeOK, orders, ledger
  <2>3. CASE q # r
    BY <1>5, <2>3 DEF TypeOK, ResolveLoadEscrow
  <2>4. QED
    BY <2>2, <2>3
<1>6. ASSUME NEW r \in Request, ResolveLoadOrder(r) PROVE RequestStep(q)
  <2>1. req[r] \in ResolveRequest
    BY <1>6, HandlingTyped DEF ResolveLoadOrder
  <2>2. CASE q = r
    BY <1>6, <2>1, <2>2
    DEF ResolveLoadOrder, ResolveRequest, Handling, TypeOK, orders, ledger
  <2>3. CASE q # r
    BY <1>6, <2>3 DEF TypeOK, ResolveLoadOrder
  <2>4. QED
    BY <2>2, <2>3
<1>7. ASSUME NEW r \in Request, NEW o \in Order, NEW a \in Amount, PayLoad(r, o, a)
      PROVE RequestStep(q)
  BY <1>3, <1>7 DEF PayLoad
<1>8. ASSUME NEW r \in Request, NEW f \in Offer, AcceptLoad(r, f) PROVE RequestStep(q)
  BY <1>3, <1>8 DEF AcceptLoad
<1>9. ASSUME NEW r \in Request, NEW o \in Order, NEW new \in AdminStatus, StatusLoad(r, o, new)
      PROVE RequestStep(q)
  BY <1>3, <1>9 DEF StatusLoad
<1>10. ASSUME NEW r \in Request, NEW t \in Ticket, NEW v \in Verdict, ResolveLoadTicket(r, t, v)
       PROVE RequestStep(q)
  BY <1>3, <1>10 DEF ResolveLoadTicket
<1>11. QED
  BY <1>1, <1>2, <1>4, <1>5, <1>6, <1>7, <1>8, <1>9, <1>10
  DEF Next, StudentNext, AdminNext, CreateOrder, PaySave, SendCustomOffer, AcceptSave,
      StatusSave, CreateTicket, LinkTicket, CloseTicket, ResolveSave, OpenOrderChat,
      DeleteService, DeleteCategory, RemoveServices, DeleteUser, Drop, vars

\* The steps that write offers.
LEMMA OfferWriters ==
  ASSUME [Next]_vars
  PROVE  \/ UNCHANGED offer
         \/ \E f \in Offer, pair \in PrivateChat, u \in User, p \in Amount :
              SendCustomOffer(f, pair, u, p)
         \/ \E r \in Request, o \in Order : AcceptSave(r, o)
         \/ \E u \in User : DeleteUser(u)
BY DEF Next, StudentNext, AdminNext, CreateOrder, PayLoad, PaySave, AcceptLoad,
       AcceptPickService, StatusLoad, StatusSave, CreateTicket, LinkTicket, CloseTicket,
       ResolveLoadTicket, ResolveLoadEscrow, ResolveLoadOrder, ResolveSave, OpenOrderChat,
       DeleteService, DeleteCategory, RemoveServices, Drop, vars

\* An offer that was sent is not sent again, and as long as it is there it keeps its terms.
LEMMA OffersStay ==
  ASSUME TypeOK, [Next]_vars, NEW f \in Offer, offer[f] # Fresh
  PROVE  /\ offer'[f] # Fresh
         /\ Live(offer'[f]) =>
              /\ Live(offer[f])
              /\ offer'[f].student = offer[f].student
              /\ offer'[f].executor = offer[f].executor
              /\ offer'[f].price = offer[f].price
              /\ offer[f].status = "Accepted" => offer'[f].status = "Accepted"
<1> USE RowsAreLive
<1>1. ASSUME NEW g \in Offer, NEW pair, NEW u, NEW p, SendCustomOffer(g, pair, u, p)
      PROVE  offer'[f] = offer[f]
  BY <1>1 DEF SendCustomOffer, TypeOK
<1>2. ASSUME NEW r \in Request, NEW o \in Order, AcceptSave(r, o)
      PROVE  \/ offer'[f] = offer[f]
             \/ Live(offer[f]) /\ offer'[f] = [offer[f] EXCEPT !.status = "Accepted"]
  BY <1>2 DEF AcceptSave, TypeOK
<1>3. ASSUME NEW u \in User, DeleteUser(u)
      PROVE  offer'[f] = offer[f] \/ offer'[f] = Deleted
  BY <1>3 DEF DeleteUser, TypeOK
<1>4. \/ offer'[f] = offer[f]
      \/ offer'[f] = Deleted
      \/ Live(offer[f]) /\ offer'[f] = [offer[f] EXCEPT !.status = "Accepted"]
  BY <1>1, <1>2, <1>3, OfferWriters
<1>5. offer[f] \in OfferRow \/ offer[f] = Deleted
  BY DEF TypeOK, NoRow
<1>6. CASE Live(offer[f]) /\ offer'[f] = [offer[f] EXCEPT !.status = "Accepted"]
  <2>1. offer[f] \in OfferRow
    BY <1>5, <1>6
  <2>2. offer'[f] \in OfferRow
    BY <1>6, <2>1 DEF OfferRow, OfferStatus
  <2>3. QED
    BY <1>6, <2>1, <2>2 DEF OfferRow
<1>7. QED
  BY <1>4, <1>5, <1>6

\* Whatever requests overlap, every table and every request keeps its type.
THEOREM TypeCorrect == Spec => []TypeOK
BY InitTyped, NextTyped, PTL DEF Spec

-----------------------------------------------------------------------------
\* A payment in flight has found its order.  If it read a status other than
\* "AwaitingPayment", the order has left that status for good, so the save that
\* then writes no status still leaves a paid order in another one.
PayersKnowOrder ==
  \A r \in Request :
    Handling(r, "pay") =>
      LET row == order[req[r].order]
      IN /\ row # Fresh
         /\ Live(row) /\ req[r].seen # "AwaitingPayment" => row.status # "AwaitingPayment"

MoneyInv == LedgerBalance /\ AwaitingIsUnpaid /\ PayersKnowOrder

\* The steps that write orders.
LEMMA OrderWriters ==
  ASSUME TypeOK, [Next]_vars
  PROVE  \/ UNCHANGED order
         \/ \E o \in Order, u \in User, s \in Service, p \in Amount : CreateOrder(o, u, s, p)
         \/ \E r \in Request, c \in Charge : PaySave(r, c)
         \/ \E r \in Request, o \in Order : AcceptSave(r, o)
         \/ \E r \in Request : StatusSave(r)
         \/ \E r \in Request : ResolveSave(r)
         \/ \E O : DeleteOrders(O)
BY DEF Next, StudentNext, AdminNext, PayLoad, SendCustomOffer, AcceptLoad, AcceptPickService,
       StatusLoad, CreateTicket, LinkTicket, CloseTicket, ResolveLoadTicket,
       ResolveLoadEscrow, ResolveLoadOrder, OpenOrderChat, DeleteService, DeleteCategory,
       RemoveServices, DeleteUser, Drop, vars, orders

\* Request r is a payment, a change of status or a verdict on order o.
OnOrder(r, o) == \E op \in {"pay", "status", "resolve"} : Handling(r, op) /\ req[r].order = o

\* How a step leaves an order's row: as it was, deleted, with another status than
\* "AwaitingPayment" that a request saved, or inserted.
LEMMA OrderSteps ==
  ASSUME TypeOK, [Next]_vars, NEW o \in Order
  PROVE  \/ order'[o] = order[o]
         \/ order'[o] = Deleted /\ \E O : DeleteOrders(O) /\ o \in O
         \/ /\ Live(order[o]) /\ \E st \in AdminStatus : order'[o] = [order[o] EXCEPT !.status = st]
            /\ \E r \in Request : OnOrder(r, o) /\ Ends(r)
         \/ \E u \in User, s \in Service, p \in Amount : CreateOrder(o, u, s, p)
         \/ \E r \in Request : AcceptSave(r, o)
<1> USE RowsAreLive
<1>1. ASSUME NEW x \in Order, NEW u \in User, NEW s \in Service, NEW p \in Amount,
             CreateOrder(x, u, s, p), x # o
      PROVE  order'[o] = order[o]
  BY <1>1 DEF CreateOrder, TypeOK
<1>2. ASSUME NEW r \in Request, NEW x \in Order, AcceptSave(r, x), x # o
      PROVE  order'[o] = order[o]
  BY <1>2 DEF AcceptSave, TypeOK
<1>3. ASSUME NEW O, DeleteOrders(O)
      PROVE  order'[o] = order[o] \/ (order'[o] = Deleted /\ o \in O)
  BY <1>3 DEF DeleteOrders, TypeOK
<1>4. ASSUME NEW x, NEW seen, NEW new, CanSet(order, x, seen, new),
             Writes(seen, new) => new \in AdminStatus,
             order' = SetStatus(order, x, seen, new)
      PROVE  \/ order'[o] = order[o]
             \/ /\ x = o /\ Live(order[o])
                /\ \E st \in AdminStatus : order'[o] = [order[o] EXCEPT !.status = st]
  BY <1>4 DEF CanSet, SetStatus, TypeOK
<1>5. ASSUME NEW r \in Request, NEW c \in Charge, PaySave(r, c)
      PROVE  \/ order'[o] = order[o]
             \/ /\ req[r].order = o /\ Live(order[o])
                /\ \E st \in AdminStatus : order'[o] = [order[o] EXCEPT !.status = st]
  BY <1>4, <1>5 DEF PaySave, OrderKey, CanSet, AdminStatus, OrderStatus
<1>6. ASSUME NEW r \in Request, StatusSave(r)
      PROVE  \/ order'[o] = order[o]
             \/ /\ req[r].order = o /\ Live(order[o])
                /\ \E st \in AdminStatus : order'[o] = [order[o] EXCEPT !.status = st]
  <2>1. req[r].new \in AdminStatus
    BY <1>6, HandlingTyped DEF StatusSave, StatusRequest
  <2>2. QED
    BY <1>4, <1>6, <2>1 DEF StatusSave
<1>7. ASSUME NEW r \in Request, ResolveSave(r)
      PROVE  \/ order'[o] = order[o]
             \/ /\ req[r].order = o /\ Live(order[o])
                /\ \E st \in AdminStatus : order'[o] = [order[o] EXCEPT !.status = st]
  <2> DEFINE s == SettledOrder(req[r].verdict, req[r].orderSeen)
  <2>1. Writes(req[r].orderSeen, s) => s \in AdminStatus
    BY DEF SettledOrder, Writes, AdminStatus, OrderStatus
  <2>2. CanSet(order, req[r].order, req[r].orderSeen, s)
    BY <1>7 DEF ResolveSave
  <2>3. order' = SetStatus(order, req[r].order, req[r].orderSeen, s)
    BY <1>7 DEF ResolveSave
  <2>4. QED
    BY <1>4, <2>1, <2>2, <2>3
<1>8. QED
  BY <1>1, <1>2, <1>3, <1>5, <1>6, <1>7, OrderWriters
  DEF OnOrder, PaySave, StatusSave, ResolveSave

\* An order's status never becomes "AwaitingPayment" again, and an order that
\* was deleted does not come back.
LEMMA OrdersMoveOn ==
  ASSUME TypeOK, [Next]_vars, NEW o \in Order, order[o] # Fresh
  PROVE  /\ order'[o] # Fresh
         /\ Live(order'[o]) =>
              /\ Live(order[o])
              /\ order[o].status # "AwaitingPayment" => order'[o].status # "AwaitingPayment"
<1> USE RowsAreLive
<1>1. \/ order'[o] = order[o]
      \/ order'[o] = Deleted
      \/ Live(order[o]) /\ \E st \in AdminStatus : order'[o] = [order[o] EXCEPT !.status = st]
  BY OrderSteps DEF CreateOrder, AcceptSave
<1>2. ASSUME NEW st \in AdminStatus, Live(order[o]), order'[o] = [order[o] EXCEPT !.status = st]
      PROVE  order'[o] \in OrderRow /\ order'[o].status # "AwaitingPayment"
  BY <1>2 DEF TypeOK, Live, OrderRow, AdminStatus
<1>3. order[o] \in OrderRow \/ order[o] = Deleted
  BY DEF TypeOK, NoRow
<1>4. QED
  BY <1>1, <1>2, <1>3 DEF Live, NoRow

\* What a payment learned stays true until it saves.
LEMMA NextPayersKnowOrder ==
  TypeOK /\ PayersKnowOrder /\ [Next]_vars => PayersKnowOrder'
<1> SUFFICES ASSUME TypeOK, PayersKnowOrder, [Next]_vars, NEW q \in Request,
                    Handling(q, "pay")'
             PROVE  /\ order'[req'[q].order] # Fresh
                    /\ Live(order'[req'[q].order]) /\ req'[q].seen # "AwaitingPayment"
                         => order'[req'[q].order].status # "AwaitingPayment"
  BY DEF PayersKnowOrder, Handling, Live
<1>1. CASE req'[q] = req[q]
  <2>1. Handling(q, "pay") /\ req[q].order \in Order
    BY <1>1, HandlingTyped DEF Handling, PayRequest
  <2>2. QED
    BY <1>1, <2>1, OrdersMoveOn DEF PayersKnowOrder
<1>2. ASSUME NEW o \in Order, NEW a \in Amount, PayLoad(q, o, a)
      PROVE  req'[q].order = o /\ req'[q].seen = order[o].status /\ Live(order[o])
             /\ order' = order
  BY <1>2 DEF PayLoad, Arrives, orders, TypeOK
<1>3. ASSUME NEW o \in Order, NEW a \in Amount, PayLoad(q, o, a)
      PROVE  /\ order'[req'[q].order] # Fresh
             /\ Live(order'[req'[q].order]) /\ req'[q].seen # "AwaitingPayment"
                  => order'[req'[q].order].status # "AwaitingPayment"
  BY <1>2, <1>3, RowsAreLive
<1>4. RequestStep(q)
  BY RequestSteps
<1>5. QED
  BY <1>1, <1>3, <1>4
  DEF RequestStep, Handling, AcceptLoad, StatusLoad, ResolveLoadTicket, Arrives, TypeOK

\* The ledger, charge by charge, at the end of a step.
Charged(c) ==
  /\ Live(payment[c]) <=> Live(escrow[c])
  /\ Live(escrow[c]) =>
       /\ escrow[c].order = payment[c].order
       /\ escrow[c].amount = payment[c].amount
       /\ Live(order[escrow[c].order])
       /\ order[escrow[c].order].status # "AwaitingPayment"

\* The two money invariants together say that every charge is right.
LEMMA ChargedIsInvariant == LedgerBalance /\ AwaitingIsUnpaid <=> \A c \in Charge : Charged(c)
BY DEF LedgerBalance, AwaitingIsUnpaid, Charged

\* A step that keeps a charge's rows, but for the escrow's status, and its order
\* alive keeps the charge right: the order never goes back to awaiting payment.
LEMMA ChargeKept ==
  ASSUME TypeOK, [Next]_vars, NEW c \in Charge, Charged(c),
         payment'[c] = payment[c],
         \/ escrow'[c] = escrow[c]
         \/ Live(escrow[c]) /\ \E st \in EscrowStatus : escrow'[c] = [escrow[c] EXCEPT !.status = st],
         Live(escrow[c]) => Live(order'[escrow[c].order])
  PROVE  Charged(c)'
<1> USE RowsAreLive
<1>1. CASE ~Live(escrow[c])
  BY <1>1 DEF Charged, Live
<1>2. CASE Live(escrow[c])
  <2>1. escrow[c] \in EscrowRow
    BY <1>2 DEF TypeOK, Live
  <2>2. /\ escrow'[c] \in EscrowRow
        /\ escrow'[c].order = escrow[c].order
        /\ escrow'[c].amount = escrow[c].amount
    BY <2>1 DEF EscrowRow
  <2>3. escrow[c].order \in Order /\ order[escrow[c].order] # Fresh
    BY <1>2, <2>1 DEF EscrowRow, Charged
  <2>4. order'[escrow[c].order].status # "AwaitingPayment"
    BY <1>2, <2>3, OrdersMoveOn DEF Charged
  <2>5. Live(escrow'[c]) /\ Live(payment'[c])
    BY <1>2, <2>2 DEF Charged
  <2>6. QED
    BY <1>2, <2>2, <2>4, <2>5 DEF Charged, Live
<1>3. QED
  BY <1>1, <1>2

\* Deleting orders takes whole charges, and only those of the deleted orders.
LEMMA ChargeDeleted ==
  ASSUME TypeOK, [Next]_vars, NEW O, DeleteOrders(O), NEW c \in Charge, Charged(c)
  PROVE  Charged(c)'
<1> USE RowsAreLive
<1>1. CASE Live(escrow[c]) /\ escrow[c].order \in O
  <2>1. escrow'[c] = Deleted /\ payment'[c] = Deleted
    BY <1>1 DEF DeleteOrders, WithoutOrders, TypeOK, Charged
  <2>2. QED
    BY <2>1 DEF Charged, Live
<1>2. CASE ~(Live(escrow[c]) /\ escrow[c].order \in O)
  <2>1. escrow'[c] = escrow[c] /\ payment'[c] = payment[c]
    BY <1>2 DEF DeleteOrders, WithoutOrders, TypeOK, Charged
  <2>2. ASSUME Live(escrow[c])
        PROVE  Live(order'[escrow[c].order])
    <3>1. escrow[c].order \in Order
      BY <2>2 DEF TypeOK, Live, EscrowRow
    <3>2. order'[escrow[c].order] = order[escrow[c].order]
      BY <1>2, <2>2, <3>1 DEF DeleteOrders
    <3>3. QED
      BY <2>2, <3>2 DEF Charged
  <2>3. QED
    BY <2>1, <2>2, ChargeKept
<1>3. QED
  BY <1>1, <1>2

\* Every step keeps the money invariants, one step per action.
LEMMA NextMoney ==
  TypeOK /\ MoneyInv /\ [Next]_vars => LedgerBalance' /\ AwaitingIsUnpaid'
<1> SUFFICES ASSUME TypeOK, PayersKnowOrder, [Next]_vars, \A x \in Charge : Charged(x),
                    NEW c \in Charge
             PROVE  Charged(c)'
  BY ChargedIsInvariant DEF MoneyInv, LedgerBalance, AwaitingIsUnpaid, Charged, Live
<1> USE RowsAreLive
<1>1. Live(escrow[c]) =>
        /\ escrow[c].order \in Order
        /\ Live(order[escrow[c].order])
  BY DEF Charged, TypeOK, Live, EscrowRow
<1>2. CASE UNCHANGED <<payment, escrow, order>>
  BY <1>1, <1>2, ChargeKept DEF Live
<1>3. ASSUME NEW o \in Order, NEW u \in User, NEW s \in Service, NEW p \in Amount,
             CreateOrder(o, u, s, p)
      PROVE  Charged(c)'
  <2>1. Live(escrow[c]) => escrow[c].order # o
    BY <1>1, <1>3 DEF CreateOrder
  <2>2. Live(escrow[c]) => order'[escrow[c].order] = order[escrow[c].order]
    BY <1>1, <1>3, <2>1 DEF CreateOrder, TypeOK
  <2>3. QED
    BY <1>1, <1>3, <2>2, ChargeKept DEF CreateOrder, ledger, Live
<1>4. ASSUME NEW r \in Request, NEW x \in Charge, PaySave(r, x)
      PROVE  Charged(c)'
  <2>1. req[r] \in PayRequest
    BY <1>4, HandlingTyped DEF PaySave
  <2> DEFINE o == req[r].order
  <2>2. o \in Order /\ Live(order[o]) /\ order[o] \in OrderRow
    BY <1>4, <2>1 DEF PaySave, OrderKey, PayRequest, TypeOK, Live
  <2>3. /\ Live(order'[o]) /\ order'[o].status # "AwaitingPayment"
        /\ \A y \in Order : y # o => order'[y] = order[y]
    <3>1. CASE req[r].seen = "Pending"
      <4>1. order' = order
        BY <1>4, <3>1 DEF PaySave, SetStatus, Writes
      <4>2. order[o].status # "AwaitingPayment"
        BY <1>4, <2>2, <3>1 DEF PayersKnowOrder, PaySave
      <4>3. QED
        BY <2>2, <4>1, <4>2 DEF Live
    <3>2. CASE req[r].seen # "Pending"
      <4>1. order' = [order EXCEPT ![o].status = "Pending"]
        BY <1>4, <3>2 DEF PaySave, SetStatus, Writes
      <4>2. order'[o] = [order[o] EXCEPT !.status = "Pending"]
        BY <2>2, <4>1 DEF TypeOK
      <4>3. order'[o] \in OrderRow /\ order'[o].status = "Pending"
        BY <2>2, <4>2 DEF OrderRow, OrderStatus
      <4>4. QED
        BY <4>1, <4>3 DEF TypeOK, Live
    <3>3. QED
      BY <3>1, <3>2
  <2>4. CASE c = x
    <3>1. /\ payment'[c] = [order |-> o, amount |-> req[r].amount]
          /\ escrow'[c] = [order |-> o, amount |-> req[r].amount, status |-> "Held"]
      BY <1>4, <2>4 DEF PaySave, HoldFunds, TypeOK
    <3>2. payment'[c] \in PaymentRow /\ escrow'[c] \in EscrowRow
      BY <2>1, <3>1 DEF PayRequest, PaymentRow, EscrowRow, EscrowStatus
    <3>3. Live(payment'[c]) /\ Live(escrow'[c])
      BY <3>2
    <3>4. QED
      BY <2>3, <3>1, <3>3 DEF Charged, Live
  <2>5. CASE c # x
    <3>1. payment'[c] = payment[c] /\ escrow'[c] = escrow[c]
      BY <1>4, <2>5 DEF PaySave, HoldFunds, TypeOK
    <3>2. Live(escrow[c]) => Live(order'[escrow[c].order])
      BY <1>1, <2>3 DEF Live
    <3>3. QED
      BY <3>1, <3>2, ChargeKept
  <2>6. QED
    BY <2>4, <2>5
<1>5. ASSUME NEW r \in Request, NEW o \in Order, AcceptSave(r, o)
      PROVE  Charged(c)'
  <2>1. Live(escrow[c]) => escrow[c].order # o
    BY <1>1, <1>5 DEF AcceptSave
  <2>2. Live(escrow[c]) => order'[escrow[c].order] = order[escrow[c].order]
    BY <1>1, <1>5, <2>1 DEF AcceptSave, TypeOK
  <2>3. QED
    BY <1>1, <1>5, <2>2, ChargeKept DEF AcceptSave, ledger, Live
<1>6. ASSUME NEW o, NEW seen, NEW new, CanSet(order, o, seen, new),
             Writes(seen, new) => new \in OrderStatus,
             order' = SetStatus(order, o, seen, new), NEW y \in Order, Live(order[y])
      PROVE  Live(order'[y])
  <2>1. order'[y] = order[y] \/ \E st \in OrderStatus : order'[y] = [order[y] EXCEPT !.status = st]
    BY <1>6 DEF CanSet, SetStatus, TypeOK
  <2>2. order[y] \in OrderRow
    BY <1>6 DEF TypeOK, Live
  <2>3. order'[y] \in OrderRow
    BY <2>1, <2>2 DEF OrderRow
  <2>4. QED
    BY <2>3 DEF Live
<1>7. ASSUME NEW r \in Request, StatusSave(r)
      PROVE  Charged(c)'
  <2>1. req[r].new \in OrderStatus
    BY <1>7, HandlingTyped DEF StatusSave, StatusRequest, AdminStatus
  <2>2. Live(escrow[c]) => Live(order'[escrow[c].order])
    BY <1>1, <1>6, <1>7, <2>1 DEF StatusSave
  <2>3. QED
    BY <1>7, <2>2, ChargeKept DEF StatusSave, ledger
<1>8. ASSUME NEW r \in Request, ResolveSave(r)
      PROVE  Charged(c)'
  <2> DEFINE q == req[r]
             e == SettledEscrow(q.verdict, q.escrowSeen)
             s == SettledOrder(q.verdict, q.orderSeen)
  <2>1. /\ Writes(q.escrowSeen, e) => e \in EscrowStatus
        /\ Writes(q.orderSeen, s) => s \in OrderStatus
    BY DEF Writes, SettledEscrow, SettledOrder, EscrowStatus, OrderStatus
  <2>2. /\ CanSet(order, q.order, q.orderSeen, s)
        /\ order' = SetStatus(order, q.order, q.orderSeen, s)
        /\ CanSet(escrow, q.charge, q.escrowSeen, e)
        /\ escrow' = SetStatus(escrow, q.charge, q.escrowSeen, e)
        /\ payment' = payment
    BY <1>8 DEF ResolveSave
  <2>3. Live(escrow[c]) => Live(order'[escrow[c].order])
    BY <1>1, <1>6, <2>1, <2>2
  <2>4. \/ escrow'[c] = escrow[c]
        \/ Live(escrow[c]) /\ \E st \in EscrowStatus : escrow'[c] = [escrow[c] EXCEPT !.status = st]
    BY <2>1, <2>2 DEF CanSet, SetStatus, TypeOK
  <2>5. QED
    BY <2>2, <2>3, <2>4, ChargeKept
<1>9. ASSUME NEW O, DeleteOrders(O)
      PROVE  Charged(c)'
  BY <1>9, ChargeDeleted
<1>10. QED
  BY <1>2, <1>3, <1>4, <1>5, <1>7, <1>8, <1>9
  DEF Next, StudentNext, AdminNext, PayLoad, SendCustomOffer, AcceptLoad, AcceptPickService,
      StatusLoad, CreateTicket, LinkTicket, CloseTicket, ResolveLoadTicket,
      ResolveLoadEscrow, ResolveLoadOrder, OpenOrderChat, DeleteService, DeleteCategory,
      RemoveServices, DeleteUser, Drop, vars, orders, ledger

\* The money invariants with their strengthening are inductive.
LEMMA MoneyInvariant == Spec => [](TypeOK /\ MoneyInv)
<1>1. Init => MoneyInv
  BY RowsAreLive
  DEF Init, MoneyInv, LedgerBalance, AwaitingIsUnpaid, PayersKnowOrder, Handling
<1>2. TypeOK /\ MoneyInv /\ [Next]_vars => MoneyInv'
  BY NextMoney, NextPayersKnowOrder DEF MoneyInv
<1>3. QED
  BY <1>1, <1>2, TypeCorrect, PTL DEF Spec

\* However payments, disputes and deletions overlap, a payment and its escrow
\* exist together, agree, and belong to an existing order.
THEOREM PaymentsAreEscrowed == Spec => []LedgerBalance
BY MoneyInvariant, PTL DEF MoneyInv

\* However payments and admin changes overlap, an order awaiting payment is unpaid.
THEOREM AwaitingOrdersAreUnpaid == Spec => []AwaitingIsUnpaid
BY MoneyInvariant, PTL DEF MoneyInv

-----------------------------------------------------------------------------
(* References.                                                              *)

\* Who shares a private chat keeps the account.  The student of an offer is such a member;
\* its executor need not be.
ChatsKeepAccounts ==
  \A pair \in PrivateChat : pair[1] \in users /\ pair[2] \in users

RefInv == ReferencesHold /\ ChatsKeepAccounts

\* What is said of one order's people and service.
OrderRefers(o) ==
  Live(order[o]) =>
    /\ order[o].student \in users
    /\ order[o].executor \in users \cup {None}
    /\ order[o].service \in services

\* The steps that remove accounts or services.
LEMMA AccountSteps ==
  ASSUME [Next]_vars
  PROVE  \/ UNCHANGED accounts
         \/ \E S : RemoveServices(S)
         \/ \E u \in User : DeleteUser(u)
BY DEF Next, StudentNext, AdminNext, CreateOrder, PayLoad, PaySave, SendCustomOffer, AcceptLoad,
       AcceptPickService, AcceptSave, StatusLoad, StatusSave, CreateTicket, LinkTicket, CloseTicket,
       ResolveLoadTicket, ResolveLoadEscrow, ResolveLoadOrder, ResolveSave, OpenOrderChat,
       DeleteService, DeleteCategory, Drop, vars

\* A private chat keeps both accounts.
LEMMA NextChatsKeepAccounts ==
  ASSUME TypeOK, ChatsKeepAccounts, [Next]_vars
  PROVE  ChatsKeepAccounts'
<1>1. CASE UNCHANGED accounts
  BY <1>1 DEF ChatsKeepAccounts, accounts
<1>2. ASSUME NEW S, RemoveServices(S)
      PROVE  ChatsKeepAccounts'
  BY <1>2 DEF ChatsKeepAccounts, RemoveServices
<1>3. ASSUME NEW u \in User, DeleteUser(u)
      PROVE  ChatsKeepAccounts'
  BY <1>3 DEF ChatsKeepAccounts, DeleteUser, Referenced
<1>4. QED
  BY <1>1, <1>2, <1>3, AccountSteps

\* What is said of one offer's people.
OfferRefers(f) == Live(offer[f]) => {offer[f].student, offer[f].executor} \subseteq users

\* An offer's people are there: a deleted account takes along the offers it is named in,
\* and an offer is sent by an account to a member of a private chat.
LEMMA OfferRefersOn ==
  ASSUME TypeOK, RefInv, [Next]_vars, NEW f \in Offer
  PROVE  OfferRefers(f)'
<1> USE RowsAreLive
<1>0. OfferRefers(f)
  BY DEF RefInv, ReferencesHold, OfferRefers
<1>1. CASE Live(offer'[f]) /\ Live(offer[f])
  <2>1. /\ offer'[f].student = offer[f].student
        /\ offer'[f].executor = offer[f].executor
    BY <1>1, OffersStay
  <2>2. ASSUME NEW u \in User, DeleteUser(u)
        PROVE  {offer[f].student, offer[f].executor} \subseteq users'
    <3>1. f \notin OffersOf(u)
      BY <1>1, <2>2 DEF DeleteUser
    <3>2. u \notin {offer[f].student, offer[f].executor} /\ users' = users \ {u}
      BY <1>1, <2>2, <3>1 DEF OffersOf, DeleteUser
    <3>3. QED
      BY <1>0, <1>1, <3>2 DEF OfferRefers
  <2>3. users' = users \/ \E u \in User : DeleteUser(u)
    BY AccountSteps DEF accounts, RemoveServices
  <2>4. QED
    BY <1>0, <1>1, <2>1, <2>2, <2>3 DEF OfferRefers, Live
<1>2. CASE Live(offer'[f]) /\ ~Live(offer[f])
  <2>1. PICK g \in Offer, pair \in PrivateChat, u \in User, p \in Amount :
               SendCustomOffer(g, pair, u, p)
    <3>1. ASSUME NEW r \in Request, NEW o \in Order, AcceptSave(r, o)
          PROVE  FALSE
      <4>1. CASE req[r].offer = f
        BY <1>2, <3>1, <4>1 DEF AcceptSave
      <4>2. CASE req[r].offer # f
        BY <1>2, <3>1, <4>2 DEF AcceptSave, TypeOK
      <4>3. QED
        BY <4>1, <4>2
    <3>2. ASSUME NEW u \in User, DeleteUser(u)
          PROVE  FALSE
      BY <1>2, <3>2 DEF DeleteUser, TypeOK
    <3>3. QED
      BY <1>2, <3>1, <3>2, OfferWriters
  <2>2. g = f
    BY <1>2, <2>1 DEF SendCustomOffer, TypeOK
  <2>3. /\ offer'[f].student = IF pair[1] = u THEN pair[2] ELSE pair[1]
        /\ offer'[f].executor = u
        /\ u \in users /\ users' = users
    BY <2>1, <2>2 DEF SendCustomOffer, accounts, TypeOK
  <2>4. pair[1] \in users /\ pair[2] \in users
    BY DEF RefInv, ChatsKeepAccounts
  <2>5. QED
    BY <2>3, <2>4 DEF OfferRefers
<1>3. CASE ~Live(offer'[f])
  BY <1>3 DEF OfferRefers, Live
<1>4. QED
  BY <1>1, <1>2, <1>3

\* An order keeps its people and its service: a deleted account or service would have been
\* held up by it, or has taken it along; an inserted one points to what exists.
LEMMA OrderRefersOn ==
  ASSUME TypeOK, RefInv, [Next]_vars, NEW o \in Order
  PROVE  OrderRefers(o)'
<1> USE RowsAreLive
<1>0. OrderRefers(o)
  BY DEF RefInv, ReferencesHold, OrderRefers
<1>1. CASE UNCHANGED accounts
  <2>1. ASSUME NEW u \in User, NEW s \in Service, NEW p \in Amount, CreateOrder(o, u, s, p)
        PROVE  OrderRefers(o)'
    BY <1>1, <2>1 DEF CreateOrder, ServiceKey, OrderRefers, accounts, TypeOK
  <2>2. ASSUME NEW r \in Request, AcceptSave(r, o)
        PROVE  OrderRefers(o)'
    <3>1. req[r].offer \in Offer /\ Live(offer[req[r].offer])
      BY <2>2, HandlingTyped DEF AcceptSave, AcceptRequest
    <3>2. {offer[req[r].offer].student, offer[req[r].offer].executor} \subseteq users
      BY <3>1 DEF RefInv, ReferencesHold
    <3>3. QED
      BY <1>1, <2>2, <3>2 DEF AcceptSave, ServiceKey, OrderRefers, accounts, TypeOK
  <2>3. ASSUME NEW st \in AdminStatus, Live(order[o]), order'[o] = [order[o] EXCEPT !.status = st]
        PROVE  OrderRefers(o)'
    <3>1. order[o] \in OrderRow
      BY <2>3 DEF TypeOK, Live
    <3>2. QED
      BY <1>0, <1>1, <2>3, <3>1 DEF OrderRefers, OrderRow, accounts, Live
  <2>4. QED
    BY <1>0, <1>1, <2>1, <2>2, <2>3, OrderSteps DEF OrderRefers, accounts, Live
<1>2. ASSUME NEW S, RemoveServices(S)
      PROVE  OrderRefers(o)'
  BY <1>0, <1>2 DEF RemoveServices, DeleteOrders, OrdersOfServices, OrderRefers, Live
<1>3. ASSUME NEW u \in User, DeleteUser(u)
      PROVE  OrderRefers(o)'
  <2>1. CASE Live(order[o]) /\ order[o].student = u
    BY <1>3, <2>1 DEF DeleteUser, DeleteOrders, OrdersOfStudent, OrderRefers, Live
  <2>2. CASE Live(order[o]) /\ order[o].student # u
    <3>1. order[o].executor # u
      BY <1>3, <2>2 DEF DeleteUser, Referenced
    <3>2. order'[o] = order[o] /\ users' = users \ {u} /\ services' = services
      BY <1>3, <2>2 DEF DeleteUser, DeleteOrders, OrdersOfStudent
    <3>3. QED
      BY <1>0, <2>2, <3>1, <3>2 DEF OrderRefers, Live
  <2>3. CASE ~Live(order[o])
    BY <1>3, <2>3 DEF DeleteUser, DeleteOrders, OrdersOfStudent, OrderRefers, Live
  <2>4. QED
    BY <2>1, <2>2, <2>3
<1>4. QED
  BY <1>1, <1>2, <1>3, AccountSteps

\* The order of a chat stays: the chat holds its deletion up.
LEMMA NextChatOrders ==
  ASSUME TypeOK, \A o \in orderChat : Live(order[o]), [Next]_vars
  PROVE  \A o \in orderChat' : Live(order'[o])
<1> USE RowsAreLive
<1>1. ASSUME NEW o \in orderChat
      PROVE  Live(order'[o])
  <2>1. o \in Order /\ order[o] \in OrderRow
    BY DEF TypeOK, Live
  <2>2. ~\E O : DeleteOrders(O) /\ o \in O
    BY DEF DeleteOrders
  <2>3. order'[o] = order[o] \/ \E st \in AdminStatus : order'[o] = [order[o] EXCEPT !.status = st]
    BY <2>1, <2>2, OrderSteps DEF CreateOrder, AcceptSave
  <2>4. order'[o] \in OrderRow
    BY <2>1, <2>3 DEF OrderRow, AdminStatus
  <2>5. QED
    BY <2>4
<1>2. ASSUME NEW x \in Order, OpenOrderChat(x)
      PROVE  orderChat' = orderChat \cup {x} /\ Live(order'[x])
  BY <1>2 DEF OpenOrderChat, orders, Live
<1>3. orderChat' = orderChat \/ \E x \in Order : OpenOrderChat(x)
  BY DEF Next, StudentNext, AdminNext, CreateOrder, PayLoad, PaySave, SendCustomOffer, AcceptLoad,
         AcceptPickService, AcceptSave, StatusLoad, StatusSave, CreateTicket, LinkTicket, CloseTicket,
         ResolveLoadTicket, ResolveLoadEscrow, ResolveLoadOrder, ResolveSave,
         DeleteService, DeleteCategory, RemoveServices, DeleteUser, Drop, vars
<1>4. QED
  BY <1>1, <1>2, <1>3

\* The references and their strengthening are inductive.
LEMMA NextReferences == TypeOK /\ RefInv /\ [Next]_vars => RefInv'
<1> SUFFICES ASSUME TypeOK, RefInv, [Next]_vars PROVE RefInv'
  OBVIOUS
<1>1. ChatsKeepAccounts'
  BY NextChatsKeepAccounts DEF RefInv
<1>2. \A o \in Order : OrderRefers(o)'
  BY OrderRefersOn
<1>3. \A o \in orderChat' : Live(order'[o])
  BY NextChatOrders DEF RefInv, ReferencesHold
<1>4. \A f \in Offer : OfferRefers(f)'
  BY OfferRefersOn
<1>5. ReferencesHold'
  BY <1>2, <1>3, <1>4 DEF ReferencesHold, OrderRefers, OfferRefers, Live
<1>6. QED
  BY <1>1, <1>5 DEF RefInv

LEMMA InitReferences == Init => RefInv
<1> SUFFICES ASSUME Init PROVE RefInv
  OBVIOUS
<1>1. ChatsKeepAccounts
  BY CatalogueIsTyped DEF Init, ChatsKeepAccounts
<1>2. QED
  BY <1>1, RowsAreLive DEF Init, RefInv, ReferencesHold

\* However deletions, acceptances and late inserts overlap, no row points to an account, a
\* service or an order that is gone.
THEOREM RowsReferToWhatExists == Spec => []ReferencesHold
<1>1. RefInv => ReferencesHold
  BY DEF RefInv
<1>2. QED
  BY <1>1, InitReferences, NextReferences, TypeCorrect, PTL DEF Spec

-----------------------------------------------------------------------------
(* Offers and the orders made from them.                                    *)

\* The offer an order was made from had been sent, and only an order that is or was there was made
\* from one: an acceptance overwrites the origin of no other order.
OriginsKnown ==
  \A o \in Order :
    /\ origin[o] # None => offer[origin[o]] # Fresh
    /\ order[o] = Fresh => origin[o] = None

OfferInv == OfferOrderAgree /\ OriginsKnown

\* The two halves of OfferOrderAgree, offer by offer and order by order.
OfferAgrees(f) ==
  Live(offer[f]) => (offer[f].status = "Accepted" <=> \E o \in Order : origin[o] = f)

OrderAgrees(o) ==
  Live(order[o]) /\ order[o].executor # None =>
    /\ origin[o] # None /\ Live(offer[origin[o]])
    /\ order[o].student = offer[origin[o]].student
    /\ order[o].executor = offer[origin[o]].executor
    /\ order[o].price = offer[origin[o]].price

\* Only an acceptance sets an origin, and it sets that of the order it inserts.
LEMMA OriginWriters ==
  ASSUME [Next]_vars
  PROVE  origin' = origin \/ \E r \in Request, o \in Order : AcceptSave(r, o)
BY DEF Next, StudentNext, AdminNext, CreateOrder, PayLoad, PaySave, SendCustomOffer, AcceptLoad,
       AcceptPickService, StatusLoad, StatusSave, CreateTicket, LinkTicket, CloseTicket,
       ResolveLoadTicket, ResolveLoadEscrow, ResolveLoadOrder, ResolveSave, OpenOrderChat,
       DeleteService, DeleteCategory, RemoveServices, DeleteUser, Drop, vars, orders

\* What an acceptance saves.
LEMMA AcceptSaves ==
  ASSUME TypeOK, NEW r \in Request, NEW o \in Order, AcceptSave(r, o)
  PROVE  /\ req[r].offer \in Offer /\ req[r].offer # None /\ Live(offer[req[r].offer])
         /\ origin'[o] = req[r].offer
         /\ \A x \in Order : x # o => origin'[x] = origin[x]
         /\ Live(offer'[req[r].offer]) /\ offer'[req[r].offer].status = "Accepted"
         /\ \A f \in Offer : f # req[r].offer => offer'[f] = offer[f]
         /\ order[o] = Fresh /\ order'[o] \in OrderRow /\ order'[o] # Fresh
         /\ order'[o].student = offer[req[r].offer].student
         /\ order'[o].executor = offer[req[r].offer].executor
         /\ order'[o].price = offer[req[r].offer].price
<1>1. req[r] \in AcceptRequest
  BY HandlingTyped DEF AcceptSave
<1>2. req[r].offer \in Offer /\ offer[req[r].offer] \in OfferRow
  BY <1>1 DEF AcceptSave, AcceptRequest, Live, TypeOK
<1>3. /\ offer' = [offer EXCEPT ![req[r].offer].status = "Accepted"]
      /\ origin' = [origin EXCEPT ![o] = req[r].offer]
      /\ order[o] = Fresh
      /\ order'[o] = [student |-> offer[req[r].offer].student,
                      executor |-> offer[req[r].offer].executor,
                      service |-> req[r].service, price |-> offer[req[r].offer].price,
                      status |-> "AwaitingPayment"]
  BY DEF AcceptSave, TypeOK
<1>4. order'[o] \in OrderRow
  BY <1>1, <1>2, <1>3 DEF AcceptSave, ServiceKey, TypeOK, OfferRow, OrderRow, OrderStatus
<1>5. /\ offer'[req[r].offer].status = "Accepted" /\ offer'[req[r].offer] \in OfferRow
      /\ \A f \in Offer : f # req[r].offer => offer'[f] = offer[f]
  BY <1>2, <1>3 DEF TypeOK, OfferRow, OfferStatus
<1>6. Live(offer[req[r].offer]) /\ Live(offer'[req[r].offer]) /\ order'[o] # Fresh /\ req[r].offer # None
  BY <1>2, <1>4, <1>5, RowsAreLive, SentinelsDiffer
<1>7. origin'[o] = req[r].offer /\ \A x \in Order : x # o => origin'[x] = origin[x]
  BY <1>3 DEF TypeOK
<1>8. QED
  BY <1>2, <1>3, <1>4, <1>5, <1>6, <1>7

\* An origin stays known.
LEMMA NextOriginsKnown ==
  ASSUME TypeOK, OriginsKnown, [Next]_vars
  PROVE  OriginsKnown'
<1> SUFFICES ASSUME NEW o \in Order
             PROVE  /\ origin'[o] # None => offer'[origin'[o]] # Fresh
                    /\ order'[o] = Fresh => origin'[o] = None
  BY DEF OriginsKnown
<1>1. CASE origin'[o] = origin[o]
  <2>1. origin[o] # None => offer'[origin[o]] # Fresh
    BY OffersStay DEF OriginsKnown, TypeOK
  <2>2. order'[o] = Fresh => order[o] = Fresh
    BY OrdersMoveOn
  <2>3. QED
    BY <1>1, <2>1, <2>2 DEF OriginsKnown
<1>2. CASE origin'[o] # origin[o]
  <2>1. PICK r \in Request, x \in Order : AcceptSave(r, x)
    BY <1>2, OriginWriters
  <2>2. x = o
    BY <1>2, <2>1, AcceptSaves
  <2>3. origin'[o] = req[r].offer /\ order'[o] # Fresh
    BY <2>1, <2>2, AcceptSaves
  <2>4. offer'[req[r].offer] # Fresh
    BY <2>1, AcceptSaves, OffersStay, RowsAreLive
  <2>5. QED
    BY <2>3, <2>4
<1>3. QED
  BY <1>1, <1>2

\* An offer is accepted exactly when an order is made from it.
LEMMA NextOfferAgrees ==
  ASSUME TypeOK, OfferInv, [Next]_vars, NEW f \in Offer
  PROVE  OfferAgrees(f)'
<1>0. OfferAgrees(f) /\ OriginsKnown
  BY DEF OfferInv, OfferOrderAgree, OfferAgrees
<1>1. ASSUME NEW r \in Request, NEW o \in Order, AcceptSave(r, o)
      PROVE  OfferAgrees(f)'
  <2>1. CASE f = req[r].offer
    BY <1>1, <2>1, AcceptSaves DEF OfferAgrees
  <2>2. CASE f # req[r].offer
    <3>1. offer'[f] = offer[f]
      BY <1>1, <2>2, AcceptSaves
    <3>2. origin[o] = None
      BY <1>0, <1>1, AcceptSaves DEF OriginsKnown
    <3>3. \A x \in Order : origin'[x] = f <=> origin[x] = f
      BY <1>1, <2>2, <3>2, AcceptSaves, SentinelsDiffer
    <3>4. QED
      BY <1>0, <3>1, <3>3 DEF OfferAgrees
  <2>3. QED
    BY <2>1, <2>2
<1>2. ASSUME NEW g \in Offer, NEW pair, NEW u, NEW p, SendCustomOffer(g, pair, u, p)
      PROVE  OfferAgrees(f)'
  <2>1. origin' = origin
    BY <1>2 DEF SendCustomOffer, orders
  <2>2. CASE f = g
    <3>1. \A o \in Order : origin[o] # f
      BY <1>0, <1>2, <2>2, SentinelsDiffer DEF OriginsKnown, SendCustomOffer
    <3>2. offer'[f].status = "Pending"
      BY <1>2, <2>2 DEF SendCustomOffer, TypeOK
    <3>3. QED
      BY <2>1, <3>1, <3>2 DEF OfferAgrees
  <2>3. CASE f # g
    BY <1>0, <1>2, <2>1, <2>3 DEF OfferAgrees, SendCustomOffer, TypeOK
  <2>4. QED
    BY <2>2, <2>3
<1>3. ASSUME NEW u \in User, DeleteUser(u)
      PROVE  OfferAgrees(f)'
  <2>1. origin' = origin /\ (offer'[f] = offer[f] \/ offer'[f] = Deleted)
    BY <1>3 DEF DeleteUser, TypeOK
  <2>2. QED
    BY <1>0, <2>1, RowsAreLive DEF OfferAgrees, Live
<1>4. CASE UNCHANGED <<offer, origin>>
  BY <1>0, <1>4 DEF OfferAgrees, Live
<1>5. QED
  BY <1>1, <1>2, <1>3, <1>4, OfferWriters, OriginWriters

\* While an order names them, the account that sent its offer is not deleted, so the offer
\* stays: the order would hold the deletion up, or be deleted with its student.
LEMMA OrderKeepsOffer ==
  ASSUME TypeOK, [Next]_vars, NEW o \in Order, OrderAgrees(o),
         Live(order[o]), Live(order'[o]), order[o].executor # None
  PROVE  Live(offer'[origin[o]])
<1> USE RowsAreLive
<1>1. /\ origin[o] \in Offer /\ Live(offer[origin[o]])
      /\ order[o].student = offer[origin[o]].student
      /\ order[o].executor = offer[origin[o]].executor
  BY DEF OrderAgrees, TypeOK
<1>2. ASSUME NEW g \in Offer, NEW pair, NEW u, NEW p, SendCustomOffer(g, pair, u, p)
      PROVE  Live(offer'[origin[o]])
  BY <1>1, <1>2 DEF SendCustomOffer, TypeOK
<1>3. ASSUME NEW r \in Request, NEW x \in Order, AcceptSave(r, x)
      PROVE  Live(offer'[origin[o]])
  BY <1>1, <1>3, AcceptSaves
<1>4. ASSUME NEW u \in User, DeleteUser(u)
      PROVE  Live(offer'[origin[o]])
  <2>1. order[o].student # u
    BY <1>4 DEF DeleteUser, DeleteOrders, OrdersOfStudent
  <2>2. order[o].executor # u
    BY <1>4, <2>1 DEF DeleteUser, Referenced
  <2>3. origin[o] \notin OffersOf(u)
    BY <1>1, <2>1, <2>2 DEF OffersOf
  <2>4. offer'[origin[o]] = offer[origin[o]]
    BY <1>1, <1>4, <2>3 DEF DeleteUser
  <2>5. QED
    BY <1>1, <2>4
<1>5. QED
  BY <1>1, <1>2, <1>3, <1>4, OfferWriters DEF Live

\* An order with an executor has the terms of its offer.
LEMMA NextOrderAgrees ==
  ASSUME TypeOK, OfferInv, [Next]_vars, NEW o \in Order
  PROVE  OrderAgrees(o)'
<1>0. OrderAgrees(o) /\ OriginsKnown
  BY DEF OfferInv, OfferOrderAgree, OrderAgrees
<1>1. ASSUME NEW r \in Request, AcceptSave(r, o)
      PROVE  OrderAgrees(o)'
  <2>1. origin'[o] = req[r].offer /\ req[r].offer # None
    BY <1>1, AcceptSaves
  <2>2. QED
    BY <1>1, <2>1, AcceptSaves, OffersStay, RowsAreLive DEF OrderAgrees
<1>2. ASSUME NEW u \in User, NEW s \in Service, NEW p \in Amount, CreateOrder(o, u, s, p)
      PROVE  OrderAgrees(o)'
  BY <1>2 DEF CreateOrder, OrderAgrees, TypeOK
<1>3. ASSUME Live(order[o]), ~\E r \in Request : AcceptSave(r, o),
             \/ order'[o] = order[o]
             \/ \E st \in AdminStatus : order'[o] = [order[o] EXCEPT !.status = st]
      PROVE  OrderAgrees(o)'
  <2>1. order[o] \in OrderRow
    BY <1>3 DEF TypeOK, Live
  <2>2. /\ order'[o].student = order[o].student
        /\ order'[o].executor = order[o].executor
        /\ order'[o].price = order[o].price
    BY <1>3, <2>1 DEF OrderRow
  <2>3. origin'[o] = origin[o]
    BY <1>3, OriginWriters, AcceptSaves
  <2>4. ASSUME Live(order'[o]), order[o].executor # None
        PROVE  /\ Live(offer'[origin[o]])
               /\ offer'[origin[o]].student = offer[origin[o]].student
               /\ offer'[origin[o]].executor = offer[origin[o]].executor
               /\ offer'[origin[o]].price = offer[origin[o]].price
    <3>1. origin[o] \in Offer /\ Live(offer[origin[o]])
      BY <1>0, <1>3, <2>4 DEF OrderAgrees, TypeOK
    <3>2. Live(offer'[origin[o]])
      BY <1>3, <2>4, <3>1, OrderKeepsOffer, <1>0
    <3>3. QED
      BY <3>1, <3>2, OffersStay DEF Live, NoRow
  <2>5. QED
    BY <1>0, <1>3, <2>2, <2>3, <2>4 DEF OrderAgrees
<1>4. CASE ~Live(order'[o])
  BY <1>4 DEF OrderAgrees, Live
<1>5. QED
  BY <1>1, <1>2, <1>3, <1>4, RowsAreLive, OrderSteps

LEMMA NextOffers == TypeOK /\ OfferInv /\ [Next]_vars => OfferInv'
<1> SUFFICES ASSUME TypeOK, OfferInv, [Next]_vars PROVE OfferInv'
  OBVIOUS
<1>1. \A f \in Offer : OfferAgrees(f)'
  BY NextOfferAgrees
<1>2. \A o \in Order : OrderAgrees(o)'
  BY NextOrderAgrees
<1>3. OfferOrderAgree'
  BY <1>1, <1>2 DEF OfferOrderAgree, OfferAgrees, OrderAgrees, Live
<1>4. QED
  BY <1>3, NextOriginsKnown DEF OfferInv

LEMMA OfferInvariant == Spec => [](TypeOK /\ OfferInv)
<1>1. Init => OfferInv
  BY RowsAreLive DEF Init, OfferInv, OfferOrderAgree, OriginsKnown
<1>2. QED
  BY <1>1, NextOffers, TypeCorrect, PTL DEF Spec

\* However acceptances overlap, an offer is accepted exactly when an order was made from it,
\* and an order with an executor has the people and the price of its offer.
THEOREM OffersAndOrdersAgree == Spec => []OfferOrderAgree
<1>1. OfferInv => OfferOrderAgree
  BY DEF OfferInv
<1>2. QED
  BY <1>1, OfferInvariant, PTL

-----------------------------------------------------------------------------
(* The tables implement the ledger.                                         *)

\* Which orders are erased, as the ledger sees it.
Erased == {o \in Order : order[o] = Deleted}

\* No step but a deletion of orders erases one.
LEMMA NothingErased ==
  ASSUME TypeOK, [Next]_vars, ~\E O : DeleteOrders(O)
  PROVE  Erased' = Erased
<1> SUFFICES ASSUME NEW o \in Order PROVE order'[o] = Deleted <=> order[o] = Deleted
  BY DEF Erased
<1>1. CASE order[o] = Deleted
  BY <1>1, OrdersMoveOn, RowsAreLive, OrderSteps DEF CreateOrder, AcceptSave
<1>2. CASE order[o] # Deleted
  <2>1. order[o] \in OrderRow \cup {Fresh}
    BY <1>2 DEF TypeOK, NoRow
  <2>2. ASSUME NEW st \in AdminStatus, Live(order[o]), order'[o] = [order[o] EXCEPT !.status = st]
        PROVE  order'[o] # Deleted
    <3>1. order'[o] \in OrderRow
      BY <2>1, <2>2, RowsAreLive DEF OrderRow, AdminStatus
    <3>2. QED
      BY <3>1, RowsAreLive
  <2>3. ASSUME NEW u \in User, NEW s \in Service, NEW p \in Amount, CreateOrder(o, u, s, p)
        PROVE  order'[o] # Deleted
    <3>1. order'[o] \in OrderRow
      BY <2>3 DEF CreateOrder, TypeOK, OrderRow, OrderStatus
    <3>2. QED
      BY <3>1, RowsAreLive
  <2>4. ASSUME NEW r \in Request, AcceptSave(r, o)
        PROVE  order'[o] # Deleted
    BY <2>4, AcceptSaves, RowsAreLive
  <2>5. QED
    BY <1>2, <2>2, <2>3, <2>4, OrderSteps
<1>3. QED
  BY <1>1, <1>2

\* The steps that write escrows.
LEMMA EscrowWriters ==
  ASSUME [Next]_vars
  PROVE  \/ UNCHANGED escrow
         \/ \E r \in Request, c \in Charge : PaySave(r, c)
         \/ \E r \in Request : ResolveSave(r)
         \/ \E O : DeleteOrders(O)
BY DEF Next, StudentNext, AdminNext, CreateOrder, PayLoad, SendCustomOffer, AcceptLoad,
       AcceptPickService, AcceptSave, StatusLoad, StatusSave, CreateTicket, LinkTicket, CloseTicket,
       ResolveLoadTicket, ResolveLoadEscrow, ResolveLoadOrder, OpenOrderChat,
       DeleteService, DeleteCategory, RemoveServices, DeleteUser, Drop, vars, ledger

\* What a verdict saves of the escrow: nothing, or the outcome of its row.
LEMMA ResolveSaves ==
  ASSUME TypeOK, NEW r \in Request, ResolveSave(r)
  PROVE  \/ UNCHANGED escrow
         \/ /\ req[r].charge \in Charge /\ Live(escrow[req[r].charge])
            /\ \E st \in {"Released", "Refunded"} :
                 /\ escrow' = [escrow EXCEPT ![req[r].charge].status = st]
                 /\ st = "Refunded" => req[r].verdict = "refund"
                 /\ st = "Released" => req[r].verdict = "release"
<1> DEFINE q == req[r]
           e == SettledEscrow(q.verdict, q.escrowSeen)
<1>1. CanSet(escrow, q.charge, q.escrowSeen, e) /\ escrow' = SetStatus(escrow, q.charge, q.escrowSeen, e)
  BY DEF ResolveSave
<1>2. CASE ~Writes(q.escrowSeen, e)
  BY <1>1, <1>2 DEF SetStatus
<1>3. CASE Writes(q.escrowSeen, e)
  <2>1. Live(escrow[q.charge]) /\ escrow' = [escrow EXCEPT ![q.charge].status = e]
    BY <1>1, <1>3 DEF CanSet, SetStatus
  <2>2. \/ q.verdict = "refund" /\ e = "Refunded"
        \/ q.verdict = "release" /\ e = "Released"
    BY <1>3 DEF Writes, SettledEscrow
  <2>3. CASE q.charge \notin Charge
    <3>1. UNCHANGED escrow
      BY <2>1, <2>3 DEF TypeOK
    <3>2. QED
      BY <3>1
  <2>4. CASE q.charge \in Charge
    BY <2>1, <2>2, <2>4
  <2>5. QED
    BY <2>3, <2>4
<1>4. QED
  BY <1>2, <1>3

LEMMA InitLedger == Init => Ledger!Init
BY SentinelsDiffer DEF Init, Ledger!Init

\* Every step of the tables is a step of the ledger or leaves it alone.
LEMMA StepLedger ==
  ASSUME TypeOK, [Next]_vars
  PROVE  [Ledger!Next]_(Ledger!vars)
<1>1. ASSUME NEW O, DeleteOrders(O)
      PROVE  Ledger!Next
  <2> DEFINE P == O \cap Order
  <2>1. Erased' = Erased \cup P
    BY <1>1 DEF DeleteOrders, Erased
  <2>2. \A c \in Charge : Live(escrow[c]) => escrow[c].order \in Order
    BY DEF TypeOK, Live, EscrowRow
  <2>3. escrow' = [c \in Charge |->
                     IF Ledger!Recorded(c) /\ escrow[c].order \in P THEN Deleted ELSE escrow[c]]
    BY <1>1, <2>2 DEF DeleteOrders, WithoutOrders, TypeOK, Ledger!Recorded, Live, NoRow
  <2>4. Ledger!Erase(P)
    BY <2>1, <2>3 DEF Ledger!Erase, Erased
  <2>5. P \in SUBSET Order
    OBVIOUS
  <2>6. QED
    BY <2>4, <2>5 DEF Ledger!Next
<1>2. ASSUME NEW r \in Request, NEW c \in Charge, PaySave(r, c), Erased' = Erased
      PROVE  Ledger!Next
  <2>1. req[r].order \in Order /\ req[r].amount \in Amount
    BY <1>2, HandlingTyped DEF PaySave, PayRequest
  <2>2. req[r].order \notin Erased
    BY <1>2, RowsAreLive DEF PaySave, OrderKey, Erased
  <2>3. Ledger!Hold(c, req[r].order, req[r].amount)
    BY <1>2, <2>2 DEF PaySave, HoldFunds, Ledger!Hold, Erased
  <2>4. QED
    BY <2>1, <2>3 DEF Ledger!Next
<1>3. ASSUME NEW r \in Request, ResolveSave(r), Erased' = Erased
      PROVE  [Ledger!Next]_(Ledger!vars)
  <2>1. CASE UNCHANGED escrow
    BY <1>3, <2>1 DEF Ledger!vars, Erased
  <2>2. ASSUME NEW st \in {"Released", "Refunded"},
               req[r].charge \in Charge, Live(escrow[req[r].charge]),
               escrow' = [escrow EXCEPT ![req[r].charge].status = st]
        PROVE  Ledger!Settle(req[r].charge, st)
    BY <1>3, <2>2 DEF Ledger!Settle, Ledger!Recorded, Live, NoRow, Erased
  <2>3. QED
    BY <1>3, <2>1, <2>2, ResolveSaves DEF Ledger!Next
<1>4. CASE ~\E O : DeleteOrders(O)
  <2>1. Erased' = Erased
    BY <1>4, NothingErased
  <2>2. CASE UNCHANGED escrow
    BY <2>1, <2>2 DEF Ledger!vars, Erased
  <2>3. QED
    BY <1>2, <1>3, <1>4, <2>1, <2>2, EscrowWriters
<1>5. QED
  BY <1>1, <1>4

\* However requests overlap, the tables keep what EscrowLedger promises: a charge is recorded
\* whole on an order that exists, only its outcome changes, and it goes with its order.
THEOREM TablesImplementLedger == Spec => LedgerSpec
<1>1. TypeOK /\ [Next]_vars => [Ledger!Next]_(Ledger!vars)
  BY StepLedger
<1>2. QED
  BY <1>1, InitLedger, TypeCorrect, PTL DEF Spec, LedgerSpec, Ledger!Spec

-----------------------------------------------------------------------------
(* Settlements and their tickets.                                           *)

\* A dispute in flight keeps its ticket, unless the owner's account was deleted: the ticket stays
\* linked to its order, and closed if it was read so.  Its escrow, if there is one, is of the order.
ResolversKnowTicket ==
  \A r \in Request :
    Handling(r, "resolve") =>
      LET t == req[r].ticket
          c == req[r].charge
      IN /\ \/ ticket[t] = Deleted
            \/ /\ Live(ticket[t]) /\ ticket[t].order = req[r].order
               /\ req[r].ticketSeen = "Closed" => ticket[t].status = "Closed"
         /\ c # None => \/ escrow[c] = Deleted
                        \/ Live(escrow[c]) /\ escrow[c].order = req[r].order

SettleInv == SettledThroughTicket /\ ResolversKnowTicket

\* The steps that write tickets.
LEMMA TicketWriters ==
  ASSUME [Next]_vars
  PROVE  \/ UNCHANGED ticket
         \/ \E t \in Ticket, u \in User : CreateTicket(t, u)
         \/ \E t \in Ticket, o \in Order : LinkTicket(t, o)
         \/ \E t \in Ticket : CloseTicket(t)
         \/ \E r \in Request : ResolveSave(r)
         \/ \E u \in User : DeleteUser(u)
BY DEF Next, StudentNext, AdminNext, CreateOrder, PayLoad, PaySave, SendCustomOffer, AcceptLoad,
       AcceptPickService, AcceptSave, StatusLoad, StatusSave,
       ResolveLoadTicket, ResolveLoadEscrow, ResolveLoadOrder, OpenOrderChat,
       DeleteService, DeleteCategory, RemoveServices, Drop, vars

\* A ticket that was created is deleted for good, or keeps the order it is linked to and, once
\* closed, stays closed.
LEMMA TicketsStay ==
  ASSUME TypeOK, [Next]_vars, NEW t \in Ticket, ticket[t] # Fresh
  PROVE  \/ ticket'[t] = Deleted
         \/ /\ Live(ticket[t]) /\ Live(ticket'[t])
            /\ ticket[t].order # None => ticket'[t].order = ticket[t].order
            /\ ticket[t].status = "Closed" => ticket'[t].status = "Closed"
<1> DEFINE Stays == \/ ticket'[t] = ticket[t]
                    \/ ticket'[t] = Deleted
                    \/ Live(ticket[t]) /\ ticket'[t] = [ticket[t] EXCEPT !.status = "Closed"]
                    \/ \E o \in Order : /\ Live(ticket[t]) /\ ticket[t].order = None
                                        /\ ticket'[t] = [ticket[t] EXCEPT !.order = o]
<1>1. ASSUME NEW x \in Ticket, NEW u \in User, CreateTicket(x, u)
      PROVE  Stays
  BY <1>1 DEF CreateTicket, TypeOK
<1>2. ASSUME NEW x \in Ticket, NEW o \in Order, LinkTicket(x, o)
      PROVE  Stays
  BY <1>2 DEF LinkTicket, TypeOK
<1>3. ASSUME NEW x \in Ticket, CloseTicket(x)
      PROVE  Stays
  BY <1>3 DEF CloseTicket, TypeOK
<1>4. ASSUME NEW r \in Request, ResolveSave(r)
      PROVE  Stays
  BY <1>4 DEF ResolveSave, SetStatus, CanSet, TypeOK
<1>5. ASSUME NEW u \in User, DeleteUser(u)
      PROVE  Stays
  BY <1>5 DEF DeleteUser, TypeOK
<1>6. Stays
  BY <1>1, <1>2, <1>3, <1>4, <1>5, TicketWriters
<1>7. ticket[t] = Deleted \/ ticket[t] \in TicketRow
  BY DEF TypeOK, NoRow
<1>8. ASSUME ticket[t] \in TicketRow, ticket'[t] # ticket[t], ticket'[t] # Deleted
      PROVE  /\ ticket'[t] \in TicketRow
             /\ ticket[t].order # None => ticket'[t].order = ticket[t].order
             /\ ticket[t].status = "Closed" => ticket'[t].status = "Closed"
  BY <1>6, <1>8 DEF TicketRow, TicketStatus
<1>9. CASE ticket[t] = Deleted
  BY <1>6, <1>9, RowsAreLive
<1>10. CASE ticket[t] \in TicketRow
  BY <1>8, <1>10, RowsAreLive
<1>11. QED
  BY <1>7, <1>9, <1>10

\* An escrow's row is there for good or deleted with its order; only a verdict on it changes it.
LEMMA EscrowSteps ==
  ASSUME TypeOK, [Next]_vars, NEW c \in Charge
  PROVE  \/ escrow'[c] = escrow[c]
         \/ escrow'[c] = Deleted
         \/ escrow[c] = Fresh /\ escrow'[c].status = "Held"
         \/ \E r \in Request, st \in {"Released", "Refunded"} :
              /\ ResolveSave(r) /\ req[r].charge = c
              /\ st = "Refunded" => req[r].verdict = "refund"
              /\ st = "Released" => req[r].verdict = "release"
              /\ Live(escrow[c]) /\ escrow'[c] = [escrow[c] EXCEPT !.status = st]
<1>1. ASSUME NEW r \in Request, NEW x \in Charge, PaySave(r, x)
      PROVE  escrow'[c] = escrow[c] \/ (escrow[c] = Fresh /\ escrow'[c].status = "Held")
  BY <1>1 DEF PaySave, HoldFunds, TypeOK
<1>2. ASSUME NEW O, DeleteOrders(O)
      PROVE  escrow'[c] = escrow[c] \/ escrow'[c] = Deleted
  BY <1>2 DEF DeleteOrders, WithoutOrders, TypeOK
<1>3. ASSUME NEW r \in Request, ResolveSave(r)
      PROVE  \/ escrow'[c] = escrow[c]
             \/ \E st \in {"Released", "Refunded"} :
                  /\ req[r].charge = c
                  /\ st = "Refunded" => req[r].verdict = "refund"
                  /\ st = "Released" => req[r].verdict = "release"
                  /\ Live(escrow[c]) /\ escrow'[c] = [escrow[c] EXCEPT !.status = st]
  <2>1. ASSUME NEW st \in {"Released", "Refunded"}, Live(escrow[req[r].charge]),
               req[r].charge \in Charge, escrow' = [escrow EXCEPT ![req[r].charge].status = st]
        PROVE  \/ escrow'[c] = escrow[c]
               \/ req[r].charge = c /\ escrow'[c] = [escrow[c] EXCEPT !.status = st]
    BY <2>1 DEF TypeOK
  <2>2. QED
    BY <1>3, <2>1, ResolveSaves
<1>4. QED
  BY <1>1, <1>2, <1>3, EscrowWriters

\* An escrow that was inserted is deleted for good or keeps its order.
LEMMA EscrowsStay ==
  ASSUME TypeOK, [Next]_vars, NEW c \in Charge, escrow[c] # Fresh
  PROVE  \/ escrow'[c] = Deleted
         \/ /\ Live(escrow[c]) /\ Live(escrow'[c])
            /\ escrow'[c].order = escrow[c].order
<1>1. escrow[c] = Deleted \/ escrow[c] \in EscrowRow
  BY DEF TypeOK, NoRow
<1>2. ASSUME NEW st \in {"Released", "Refunded"}, Live(escrow[c]),
             escrow'[c] = [escrow[c] EXCEPT !.status = st]
      PROVE  escrow'[c] \in EscrowRow /\ escrow'[c].order = escrow[c].order
  BY <1>1, <1>2, RowsAreLive DEF EscrowRow, EscrowStatus
<1>3. QED
  BY <1>1, <1>2, EscrowSteps, RowsAreLive

\* What a dispute learned of its ticket and its escrow stays true until it saves.
LEMMA NextResolversKnowTicket ==
  ASSUME TypeOK, ResolversKnowTicket, [Next]_vars
  PROVE  ResolversKnowTicket'
<1> SUFFICES ASSUME NEW r \in Request, Handling(r, "resolve")'
             PROVE  LET t == req'[r].ticket
                        c == req'[r].charge
                    IN /\ \/ ticket'[t] = Deleted
                          \/ /\ Live(ticket'[t]) /\ ticket'[t].order = req'[r].order
                             /\ req'[r].ticketSeen = "Closed" => ticket'[t].status = "Closed"
                       /\ c # None => \/ escrow'[c] = Deleted
                                      \/ Live(escrow'[c]) /\ escrow'[c].order = req'[r].order
  BY DEF ResolversKnowTicket, Handling, Live
<1>1. CASE req'[r] = req[r]
  <2>1. Handling(r, "resolve") /\ req[r] \in ResolveRequest
    BY <1>1, HandlingTyped DEF Handling
  <2>2. /\ req[r].ticket \in Ticket /\ req[r].order # None
        /\ req[r].charge # None => req[r].charge \in Charge
    BY <2>1, SentinelsDiffer DEF ResolveRequest
  <2>3. ticket[req[r].ticket] # Fresh /\ (req[r].charge # None => escrow[req[r].charge] # Fresh)
    BY <2>1, RowsAreLive DEF ResolversKnowTicket
  <2>4. \/ ticket'[req[r].ticket] = Deleted
        \/ /\ Live(ticket'[req[r].ticket]) /\ ticket'[req[r].ticket].order = req[r].order
           /\ req[r].ticketSeen = "Closed" => ticket'[req[r].ticket].status = "Closed"
    BY <2>1, <2>2, <2>3, TicketsStay, RowsAreLive DEF ResolversKnowTicket
  <2>5. ASSUME req[r].charge # None
        PROVE  \/ escrow'[req[r].charge] = Deleted
               \/ Live(escrow'[req[r].charge]) /\ escrow'[req[r].charge].order = req[r].order
    BY <2>1, <2>2, <2>3, <2>5, EscrowsStay, RowsAreLive DEF ResolversKnowTicket
  <2>6. QED
    BY <1>1, <2>4, <2>5
<1>2. ASSUME NEW t \in Ticket, NEW v \in Verdict, ResolveLoadTicket(r, t, v)
      PROVE  /\ req'[r].ticket = t /\ req'[r].order = ticket[t].order /\ req'[r].charge = None
             /\ req'[r].ticketSeen = ticket[t].status
             /\ Live(ticket[t]) /\ ticket' = ticket
  BY <1>2 DEF ResolveLoadTicket, Arrives, TypeOK
<1>3. CASE /\ Handling(r, "resolve")
           /\ req'[r].ticket = req[r].ticket
           /\ req'[r].order = req[r].order
           /\ req'[r].ticketSeen = req[r].ticketSeen
           /\ UNCHANGED <<order, escrow, ticket>>
           /\ \/ \E c \in Charge : /\ Live(escrow[c]) /\ escrow[c].order = req[r].order
                                   /\ req[r].charge = None
                                   /\ req'[r].charge = c
              \/ req'[r].charge = req[r].charge
  BY <1>3 DEF ResolversKnowTicket
<1>4. RequestStep(r)
  BY RequestSteps
<1>5. QED
  BY <1>1, <1>2, <1>3, <1>4
  DEF RequestStep, Handling, PayLoad, AcceptLoad, StatusLoad, Arrives, TypeOK

\* A verdict leaves its ticket closed, linked to the order of the escrow it settles.
LEMMA NextSettledThroughTicket ==
  ASSUME TypeOK, SettleInv, [Next]_vars
  PROVE  SettledThroughTicket'
<1> SUFFICES ASSUME NEW c \in Charge, Live(escrow'[c]), escrow'[c].status # "Held"
             PROVE  \E t \in Ticket :
                      \/ ticket'[t] = Deleted
                      \/ /\ Live(ticket'[t]) /\ ticket'[t].order = escrow'[c].order
                         /\ ticket'[t].status = "Closed"
  BY DEF SettledThroughTicket, Live
<1>1. CASE escrow'[c] = escrow[c]
  <2>1. PICK t \in Ticket :
          \/ ticket[t] = Deleted
          \/ Live(ticket[t]) /\ ticket[t].order = escrow[c].order /\ ticket[t].status = "Closed"
    BY <1>1 DEF SettleInv, SettledThroughTicket, Live
  <2>2. escrow[c].order # None
    BY <1>1, SentinelsDiffer DEF TypeOK, Live, EscrowRow
  <2>3. QED
    BY <1>1, <2>1, <2>2, TicketsStay, RowsAreLive
<1>2. ASSUME NEW r \in Request, NEW st \in {"Released", "Refunded"},
             ResolveSave(r), req[r].charge = c,
             Live(escrow[c]), escrow'[c] = [escrow[c] EXCEPT !.status = st]
      PROVE  \E t \in Ticket :
               \/ ticket'[t] = Deleted
               \/ /\ Live(ticket'[t]) /\ ticket'[t].order = escrow'[c].order
                  /\ ticket'[t].status = "Closed"
  <2> DEFINE q == req[r]
             t == req[r].ticket
  <2>1. Handling(r, "resolve") /\ q \in ResolveRequest
    BY <1>2, HandlingTyped DEF ResolveSave
  <2>2. t \in Ticket /\ c # None /\ q.order # None
    BY <2>1, SentinelsDiffer DEF ResolveRequest
  <2>3. escrow'[c].order = q.order
    <3>1. escrow[c] \in EscrowRow /\ escrow[c].order = q.order
      BY <1>2, <2>1, <2>2, RowsAreLive DEF SettleInv, ResolversKnowTicket, TypeOK, Live
    <3>2. QED
      BY <1>2, <3>1 DEF EscrowRow
  <2>4. /\ Writes(q.ticketSeen, "Closed") => Live(ticket[t])
        /\ ticket' = IF Writes(q.ticketSeen, "Closed")
                       THEN [ticket EXCEPT ![t].status = "Closed"] ELSE ticket
    BY <1>2 DEF ResolveSave, CanSet, SetStatus
  <2>5. \/ ticket[t] = Deleted
        \/ /\ Live(ticket[t]) /\ ticket[t].order = q.order
           /\ q.ticketSeen = "Closed" => ticket[t].status = "Closed"
    BY <2>1 DEF SettleInv, ResolversKnowTicket
  <2>6. CASE ~Writes(q.ticketSeen, "Closed")
    BY <2>2, <2>3, <2>4, <2>5, <2>6 DEF Writes
  <2>7. CASE Writes(q.ticketSeen, "Closed")
    <3>1. ticket[t] \in TicketRow
      BY <2>2, <2>4, <2>7 DEF TypeOK, Live
    <3>2. ticket'[t] = [ticket[t] EXCEPT !.status = "Closed"]
      BY <2>2, <2>4, <2>7 DEF TypeOK
    <3>3. /\ ticket'[t] \in TicketRow /\ ticket'[t].order = ticket[t].order
          /\ ticket'[t].status = "Closed"
      BY <3>1, <3>2 DEF TicketRow, TicketStatus
    <3>4. QED
      BY <2>2, <2>3, <2>4, <2>5, <2>7, <3>3, RowsAreLive
  <2>8. QED
    BY <2>6, <2>7
<1>3. QED
  BY <1>1, <1>2, EscrowSteps, RowsAreLive

LEMMA SettleInvariant == Spec => [](TypeOK /\ SettleInv)
<1>1. Init => SettleInv
  BY RowsAreLive DEF Init, SettleInv, SettledThroughTicket, ResolversKnowTicket, Handling
<1>2. TypeOK /\ SettleInv /\ [Next]_vars => SettleInv'
  BY NextSettledThroughTicket, NextResolversKnowTicket DEF SettleInv
<1>3. QED
  BY <1>1, <1>2, TypeCorrect, PTL DEF Spec

\* However disputes, payments and deletions overlap, money that left "Held" has a closed ticket
\* of its order to show for it, unless that ticket went with its owner's account.
THEOREM SettledMoneyHasTicket == Spec => []SettledThroughTicket
<1>1. SettleInv => SettledThroughTicket
  BY DEF SettleInv
<1>2. QED
  BY <1>1, SettleInvariant, PTL

-----------------------------------------------------------------------------
(* What overlapping requests can break, and what keeping them apart saves.  *)

\* Two acceptances of one offer are never in flight together.
AcceptsApart ==
  \A r1, r2 \in Request :
    Handling(r1, "accept") /\ Handling(r2, "accept") /\ req[r1].offer = req[r2].offer => r1 = r2

\* An acceptance in flight would find its offer still pending, or deleted.
AcceptsPending ==
  \A r \in Request :
    Handling(r, "accept") /\ Live(offer[req[r].offer]) => offer[req[r].offer].status = "Pending"

LEMMA NextAcceptsPending ==
  ASSUME TypeOK, AcceptsApart, AcceptsPending, [Next]_vars
  PROVE  AcceptsPending'
<1> USE RowsAreLive
<1> SUFFICES ASSUME NEW q \in Request, Handling(q, "accept")', Live(offer'[req'[q].offer])
             PROVE  offer'[req'[q].offer].status = "Pending"
  BY DEF AcceptsPending, Handling, Live
<1>1. RequestStep(q)
  BY RequestSteps
<1>2. CASE req'[q] = req[q]
  <2> DEFINE f == req[q].offer
  <2>1. Handling(q, "accept") /\ f \in Offer
    BY <1>2, HandlingTyped DEF Handling, AcceptRequest
  <2>2. Live(offer[f]) => offer[f].status = "Pending"
    BY <2>1 DEF AcceptsPending
  <2>3. ASSUME NEW g \in Offer, NEW pair, NEW u, NEW p, SendCustomOffer(g, pair, u, p)
        PROVE  offer'[f] = offer[f] \/ offer'[f].status = "Pending"
    BY <2>1, <2>3 DEF SendCustomOffer, TypeOK
  <2>4. ASSUME NEW r \in Request, NEW o \in Order, AcceptSave(r, o)
        PROVE  offer'[f] = offer[f]
    <3>1. req[q] # None /\ req'[r] = None
      BY <2>1, <2>4 DEF AcceptSave, Ends, Handling, TypeOK
    <3>2. Handling(r, "accept") /\ r # q
      BY <1>2, <2>4, <3>1 DEF AcceptSave
    <3>3. req[r].offer # f
      BY <2>1, <3>2 DEF AcceptsApart
    <3>4. QED
      BY <2>1, <2>4, <3>3, AcceptSaves
  <2>5. ASSUME NEW u \in User, DeleteUser(u)
        PROVE  offer'[f] = offer[f] \/ offer'[f] = Deleted
    BY <2>1, <2>5 DEF DeleteUser, TypeOK
  <2>6. offer'[f] = offer[f] \/ offer'[f] = Deleted \/ offer'[f].status = "Pending"
    BY <2>3, <2>4, <2>5, OfferWriters
  <2>7. QED
    BY <1>2, <2>2, <2>6
<1>3. ASSUME NEW f \in Offer, AcceptLoad(q, f)
      PROVE  offer'[req'[q].offer].status = "Pending"
  BY <1>3 DEF AcceptLoad, Arrives, TypeOK
<1>4. CASE Handling(q, "accept") /\ req'[q].offer = req[q].offer /\ UNCHANGED offer
  BY <1>4 DEF AcceptsPending, Live
<1>5. QED
  BY <1>1, <1>2, <1>3, <1>4
  DEF RequestStep, Handling, PayLoad, StatusLoad, ResolveLoadTicket, Arrives, TypeOK

\* The order an acceptance inserts is the first one of its offer: the offer was pending.
LEMMA NextOneOrderPerOffer ==
  ASSUME TypeOK, OfferInv, AcceptsPending, OneOrderPerOffer, [Next]_vars
  PROVE  OneOrderPerOffer'
<1>1. CASE origin' = origin
  BY <1>1 DEF OneOrderPerOffer
<1>2. ASSUME NEW r \in Request, NEW o \in Order, AcceptSave(r, o)
      PROVE  OneOrderPerOffer'
  <2>1. offer[req[r].offer].status = "Pending"
    BY <1>2 DEF AcceptsPending, AcceptSave
  <2>2. \A x \in Order : origin[x] # req[r].offer
    BY <1>2, <2>1, AcceptSaves DEF OfferInv, OfferOrderAgree
  <2>3. QED
    BY <1>2, <2>2, AcceptSaves DEF OneOrderPerOffer
<1>3. QED
  BY <1>1, <1>2, OriginWriters

\* As long as no two acceptances of one offer overlap, an offer becomes at most one order,
\* whatever else runs at the same time.
THEOREM AcceptedOnceApart == Spec /\ []AcceptsApart => []OneOrderPerOffer
<1>1. Init => AcceptsPending /\ OneOrderPerOffer
  BY DEF Init, AcceptsPending, OneOrderPerOffer, Handling
<1>2. TypeOK /\ OfferInv /\ AcceptsApart /\ AcceptsPending /\ OneOrderPerOffer /\ [Next]_vars
        => AcceptsPending' /\ OneOrderPerOffer'
  BY NextAcceptsPending, NextOneOrderPerOffer
<1>3. QED
  BY <1>1, <1>2, OfferInvariant, PTL DEF Spec

\* No payment, change of status or other verdict on an order runs beside a verdict on it.
DisputesApart ==
  \A r1, r2 \in Request : Handling(r1, "resolve") /\ OnOrder(r2, req[r1].order) => r1 = r2

\* A verdict that read its order would read the same status now, if the order is still there.
SeenIsCurrent ==
  \A r \in Request :
    Handling(r, "resolve") /\ req[r].orderSeen # None =>
      LET row == order[req[r].order]
      IN row # Fresh /\ (Live(row) => row.status = req[r].orderSeen)

LEMMA NextSeenIsCurrent ==
  ASSUME TypeOK, DisputesApart, SeenIsCurrent, [Next]_vars
  PROVE  SeenIsCurrent'
<1> SUFFICES ASSUME NEW q \in Request, Handling(q, "resolve")', req'[q].orderSeen # None
             PROVE  /\ order'[req'[q].order] # Fresh
                    /\ Live(order'[req'[q].order]) =>
                         order'[req'[q].order].status = req'[q].orderSeen
  BY DEF SeenIsCurrent, Handling, Live
<1>1. RequestStep(q)
  BY RequestSteps
<1>2. CASE req'[q] = req[q]
  <2> DEFINE o == req[q].order
  <2>1. Handling(q, "resolve") /\ o \in Order
    BY <1>2, HandlingTyped DEF Handling, ResolveRequest
  <2>2. order[o] # Fresh /\ (Live(order[o]) => order[o].status = req[q].orderSeen)
    BY <1>2, <2>1 DEF SeenIsCurrent
  <2>3. ASSUME NEW r \in Request, OnOrder(r, o), Ends(r)
        PROVE  FALSE
    <3>1. r = q
      BY <2>1, <2>3 DEF DisputesApart
    <3>2. QED
      BY <1>2, <2>1, <2>3, <3>1 DEF Ends, Handling, TypeOK
  <2>4. order'[o] = order[o] \/ order'[o] = Deleted
    BY <2>1, <2>2, <2>3, OrderSteps DEF CreateOrder, AcceptSave
  <2>5. QED
    BY <1>2, <2>2, <2>4, RowsAreLive
<1>3. ASSUME NEW t \in Ticket, NEW v \in Verdict, ResolveLoadTicket(q, t, v)
      PROVE  req'[q].orderSeen = None
  BY <1>3 DEF ResolveLoadTicket, Arrives, TypeOK
<1>4. CASE /\ Handling(q, "resolve") /\ req'[q].order = req[q].order /\ UNCHANGED order
           /\ \/ req'[q].orderSeen = req[q].orderSeen
              \/ Live(order[req[q].order]) /\ req'[q].orderSeen = order[req[q].order].status
  BY <1>4, RowsAreLive DEF SeenIsCurrent
<1>5. QED
  BY <1>1, <1>2, <1>3, <1>4
  DEF RequestStep, Handling, PayLoad, AcceptLoad, StatusLoad, Arrives, TypeOK

\* The step that settles an escrow leaves its order where the verdict says.
LEMMA StepSettlementMovesOrder ==
  ASSUME TypeOK, LedgerBalance, ResolversKnowTicket, SeenIsCurrent, [Next]_vars,
         NEW c \in Charge
  PROVE  /\ BecomesSettled(c, "Refunded") => order'[escrow[c].order].status = "Cancelled"
         /\ BecomesSettled(c, "Released") => order'[escrow[c].order].status = "Completed"
<1> SUFFICES ASSUME NEW to \in {"Released", "Refunded"}, BecomesSettled(c, to)
             PROVE  order'[escrow[c].order].status
                      = IF to = "Refunded" THEN "Cancelled" ELSE "Completed"
  OBVIOUS
<1>1. escrow[c] \in EscrowRow /\ escrow[c] # Fresh
  BY RowsAreLive DEF BecomesSettled, TypeOK, Live
<1>2. PICK r \in Request, st \in {"Released", "Refunded"} :
             /\ ResolveSave(r) /\ req[r].charge = c
             /\ st = "Refunded" => req[r].verdict = "refund"
             /\ st = "Released" => req[r].verdict = "release"
             /\ escrow'[c] = [escrow[c] EXCEPT !.status = st]
  BY <1>1, EscrowSteps, RowsAreLive DEF BecomesSettled
<1>3. st = to
  BY <1>1, <1>2 DEF BecomesSettled, EscrowRow
<1> DEFINE o == req[r].order
           s == SettledOrder(req[r].verdict, req[r].orderSeen)
<1>4. Handling(r, "resolve") /\ req[r].orderSeen # None /\ req[r] \in ResolveRequest
  BY <1>2, HandlingTyped DEF ResolveSave
<1>5. escrow[c].order = o /\ o \in Order
  BY <1>1, <1>2, <1>4, RowsAreLive, SentinelsDiffer DEF ResolversKnowTicket, ResolveRequest
<1>6. Live(order[o]) /\ order[o] \in OrderRow
  BY <1>1, <1>5, RowsAreLive DEF LedgerBalance, TypeOK, Live
<1>7. order[o].status = req[r].orderSeen
  BY <1>4, <1>6 DEF SeenIsCurrent
<1>8. order' = IF Writes(req[r].orderSeen, s) THEN [order EXCEPT ![o].status = s] ELSE order
  BY <1>2 DEF ResolveSave, SetStatus
<1>9. order'[o].status = s
  BY <1>5, <1>6, <1>7, <1>8 DEF Writes, TypeOK, OrderRow
<1>10. s = IF to = "Refunded" THEN "Cancelled" ELSE "Completed"
  BY <1>2, <1>3 DEF SettledOrder
<1>11. QED
  BY <1>5, <1>9, <1>10

\* As long as nothing else handles a disputed order while the verdict on it is saved, a refund
\* leaves the order cancelled and a release leaves it completed.
THEOREM VerdictsMoveOrdersApart == Spec /\ []DisputesApart => SettlementMovesOrder
<1>1. Init => SeenIsCurrent
  BY DEF Init, SeenIsCurrent, Handling
<1>2. TypeOK /\ DisputesApart /\ SeenIsCurrent /\ [Next]_vars => SeenIsCurrent'
  BY NextSeenIsCurrent
<1>3. TypeOK /\ MoneyInv /\ SettleInv /\ SeenIsCurrent /\ [Next]_vars =>
        [\A c \in Charge :
           /\ BecomesSettled(c, "Refunded") => order'[escrow[c].order].status = "Cancelled"
           /\ BecomesSettled(c, "Released") => order'[escrow[c].order].status = "Completed"]_vars
  BY StepSettlementMovesOrder DEF MoneyInv, SettleInv
<1>4. QED
  BY <1>1, <1>2, <1>3, MoneyInvariant, SettleInvariant, PTL DEF Spec, SettlementMovesOrder

\* The server handles one request at a time, as escrow_serial has it.
OneAtATime == \A r1, r2 \in Request : r1 = r2

\* Then no two requests meet, an offer becomes one order and every verdict moves its order.
THEOREM SerialRequests ==
  ASSUME OneAtATime
  PROVE  Spec => []OneOrderPerOffer /\ SettlementMovesOrder
<1>1. AcceptsApart /\ DisputesApart
  BY DEF OneAtATime, AcceptsApart, DisputesApart
<1>2. QED
  BY <1>1, AcceptedOnceApart, VerdictsMoveOrdersApart, PTL
=============================================================================
