------------------------------- MODULE Browse -------------------------------
(***************************************************************************)
(* Walking through the client's screens: the tabs, the pages the router    *)
(* stacks over them, what each fetches into the catalogue, orders, tickets *)
(* and chat slices of the store, the checkout, and the new-ticket form.    *)
(*                                                                         *)
(* A slice keeps its lists, the one item its page shows (currentService,   *)
(* currentOrder, currentTicket) and one loading flag for all its fetches.  *)
(* A screen fetches when it is mounted and reads the slice, whatever the   *)
(* slice holds: an answer is not matched with the page that asked for it.  *)
(* The earnings screen has a state of its own that works the same way.     *)
(***************************************************************************)
EXTENDS Naturals, Sequences, SequencesExt, FiniteSets, Functions

CONSTANTS
  Service, Category, \* rows of the catalogue, by identifier
  Mine,    \* orders of this account, its student's or executor's
  Others,  \* pending orders of other people
  IsExecutor, \* user.isExecutor of the account
  Ticket,  \* identifiers of tickets, bounds their number
  Charge,  \* pressings of the checkout's button, bounds their number
  Call,    \* fetches that can be in flight at the same time
  Depth,   \* bound: how deep the stack of screens grows
  None     \* null: no item, a free call, no answer, nothing paid

Slice == {"catalog", "orders", "tickets", "chat", "earnings"}
List  == {"categories", "services", "myOrders", "available", "myTickets", "inbox", "earnings"}
Item  == Service \cup Category \cup Mine \cup Others \cup Ticket

VARIABLES
  walk,     \* bound: the slice whose screens this walk visits
  ticket,   \* the account's rows of Tickets
  pages,    \* the screens, stacked: tabs and pages over them, the top one last
  listed,   \* the store's lists
  current,  \* what each slice's page shows
  loading,  \* each slice's flag
  calls,    \* fetches and ticket submissions in flight
  charge    \* what became of each pressing of the checkout's button

store  == <<listed, current, loading>>
vars == <<walk, ticket, pages, store, calls, charge>>

\* The tabs of the bar; the categories are hidden from executors, but home leads there.
Tabs == {"home", "orders", "inbox", "chat", "profile", "categories"}
          \cup (IF IsExecutor THEN {"executor-orders", "executor-earnings"} ELSE {})

\* Pages that fetch their item, and pages of the shared route of the root Stack.
FetchingPage == {"service", "order", "ticket"}
SharedPage   == {"order", "ticket", "tickets", "new-ticket"}

\* The tab shown and the tabs mounted belong to an entry of tabs.  alone and got are history:
\* whether no fetch of another item of the slice was in flight when the page was opened and no
\* page that fetches one was opened over it, and whether the page's own fetch has been answered.
Page == [at : FetchingPage \cup SharedPage \cup {"tabs", "checkout", "result"},
         id : Item \cup {None}, tab : Tabs \cup {None}, visited : SUBSET Tabs,
         alone : BOOLEAN, got : BOOLEAN, busy : Charge \cup Call \cup {None}]
Reply  == [ok : BOOLEAN, items : SUBSET Item]
Fetch  == [what : List \cup Item \cup {"create"}, reply : Reply \cup {None}]
Pressed == [service : Service, price : Service, row : BOOLEAN, paid : Service \cup {None},
            stage : {"creating", "paying", "done", "failed"}]

\* Null is none of the values it stands beside, a screen has finitely many fetches in flight,
\* and an identifier (a Guid) belongs to one table.
ASSUME BrowseAssumption ==
  /\ Depth \in Nat \ {0} /\ IsExecutor \in BOOLEAN /\ IsFiniteSet(Call)
  /\ None \notin Item \cup Charge \cup Call \cup Reply \cup Fetch \cup Pressed
  /\ Item \cap (List \cup {"create"}) = {}
  /\ Service \cap Category = {} /\ (Mine \cup Others) \cap Ticket = {}
  /\ (Service \cup Category) \cap (Mine \cup Others \cup Ticket) = {}

SliceOf(what) ==
  CASE what \in {"categories", "services"} \cup Service \cup Category -> "catalog"
    [] what \in {"myOrders", "available"} \cup Mine \cup Others -> "orders"
    [] what \in {"myTickets"} \cup Ticket -> "tickets"
    [] what = "inbox" -> "chat"
    [] what = "earnings" -> "earnings"

\* A page that has nothing to fetch, and the tabs with t shown.
Screen(at) == [at |-> at, id |-> None, tab |-> None, visited |-> {},
               alone |-> TRUE, got |-> TRUE, busy |-> None]
NewTabs(t, visited) == [Screen("tabs") EXCEPT !.tab = t, !.visited = visited]

\* The walk starts at the profile.  The home tab, where the app opens, has been left; that it
\* is still to be mounted in the walk through the catalogue is a bound, to see what it fetches.
Init ==
  /\ walk \in Slice
  /\ ticket = {}
  /\ pages = <<NewTabs("profile", IF walk = "catalog" THEN {"profile"} ELSE {"profile", "home"})>>
  /\ listed = [l \in List |-> {}]
  /\ current = [s \in Slice |-> None]
  /\ loading = [s \in Slice |-> FALSE]
  /\ calls = [c \in Call |-> None]
  /\ charge = [p \in Charge |-> None]

(***************************************************************************)
(* What a screen fetches when it is mounted, and where its cards lead.     *)
(***************************************************************************)
Shows(fetches, links) == [fetches |-> fetches, links |-> links]
To(at, ids) == {[at |-> at, id |-> i] : i \in ids}

\* Category cards lead to the service page as well, with the category's identifier.
HomeScreen ==
  Shows({"categories", "services"}, To("service", listed["services"] \cup listed["categories"]))
CategoriesScreen == Shows({"categories"}, To("service", listed["categories"]))
OrdersScreen == Shows({"myOrders"}, To("order", listed["myOrders"]))
\* The orders again; its cards lead to the orders' chats.
ChatScreen == Shows({"myOrders"}, {})
InboxScreen == Shows({"inbox"}, {})
\* "Accept" leads to the order's page and does nothing else.
AvailableOrdersScreen == Shows({"available"}, To("order", listed["available"]))
EarningsScreen == Shows({"earnings"}, {})
ProfileMenu == Shows({}, To("tickets", {None}))

OnTab(t) ==
  CASE t = "home" -> HomeScreen
    [] t = "categories" -> CategoriesScreen
    [] t = "orders" -> OrdersScreen
    [] t = "chat" -> ChatScreen
    [] t = "inbox" -> InboxScreen
    [] t = "executor-orders" -> AvailableOrdersScreen
    [] t = "executor-earnings" -> EarningsScreen
    [] t = "profile" -> ProfileMenu

\* The order button takes the service that is shown, not the one the page was opened for.
ServiceScreen(id) ==
  Shows({id}, IF loading["catalog"] \/ current["catalog"] = None THEN {}
              ELSE To("checkout", {current["catalog"]}))
OrderScreen(id) == Shows({id}, {})
TicketsScreen ==
  Shows({"myTickets"}, To("ticket", listed["myTickets"]) \cup To("new-ticket", {None}))
TicketScreen(id) == Shows({id}, {})

OnPage(p) ==
  CASE p.at = "tabs" -> OnTab(p.tab)
    [] p.at = "service" -> ServiceScreen(p.id)
    [] p.at = "order" -> OrderScreen(p.id)
    [] p.at = "tickets" -> TicketsScreen
    [] p.at = "ticket" -> TicketScreen(p.id)
    [] OTHER -> Shows({}, {})

Top == pages[Len(pages)]

(***************************************************************************)
(* Moving around                                                           *)
(***************************************************************************)
Free == {c \in Call : calls[c] = None}
InFlight(s) ==
  \E c \in Call : calls[c] # None /\ calls[c].what \in Item /\ SliceOf(calls[c].what) = s

\* The fetches of a screen being mounted, in any free slots, and their pending reducers.
Dispatched(whats) ==
  /\ \A w \in whats : SliceOf(w) = walk
  /\ Cardinality(whats) <= Cardinality(Free)
  /\ LET slot == CHOOSE f \in [whats -> Free] : IsInjective(f)
     IN calls' = [c \in Call |-> IF \E w \in whats : slot[w] = c
                                  THEN [what |-> CHOOSE w \in whats : slot[w] = c, reply |-> None]
                                  ELSE calls[c]]
  /\ loading' = [s \in Slice |-> loading[s] \/ \E w \in whats : SliceOf(w) = s]

\* The screen on top becomes p.
Becomes(p) == [pages EXCEPT ![Len(pages)] = p]

\* A tab stays mounted once it has been shown.
Showing(p, t) == [p EXCEPT !.tab = t, !.visited = p.visited \cup {t}]
SwitchTab(t) ==
  /\ Top.at = "tabs" /\ t # Top.tab
  /\ pages' = Becomes(Showing(Top, t))
  /\ Dispatched(IF t \in Top.visited THEN {} ELSE OnTab(t).fetches)
  /\ UNCHANGED <<walk, ticket, listed, current, charge>>

Opened(l) ==
  [Screen(l.at) EXCEPT !.id = l.id, !.alone = l.id # None => ~InFlight(SliceOf(l.id)),
                       !.got = l.at \notin FetchingPage]

\* Beneath a page that fetches an item no page of an item is alone any more.
Covered(l) ==
  IF l.at \in FetchingPage
  THEN [i \in DOMAIN pages |-> [pages[i] EXCEPT !.alone = pages[i].alone /\ pages[i].id = None]]
  ELSE pages

\* Mutant: the order button passes on the identifier the page was opened for.
OpenPageById(l) ==
  /\ Len(pages) < Depth
  /\ LET o == IF l.at = "checkout" THEN [l EXCEPT !.id = Top.id] ELSE l
     IN /\ pages' = Append(Covered(o), Opened(o))
        /\ Dispatched(OnPage(Opened(o)).fetches)
  /\ UNCHANGED <<walk, ticket, listed, current, charge>>

OpenPage(l) ==
  /\ Len(pages) < Depth
  /\ pages' = Append(Covered(l), Opened(l))
  /\ Dispatched(OnPage(Opened(l)).fetches)
  /\ UNCHANGED <<walk, ticket, listed, current, charge>>

\* From another tab than home, going back is switching to home.
Back ==
  /\ Top.at = "tabs" => Top.tab = "home"
  /\ Len(pages) > 1
  /\ pages' = Front(pages)
  /\ UNCHANGED <<walk, ticket, store, calls, charge>>

\* The two buttons of the payment result replace it by new tabs; what is beneath stays.
LeaveResult(t) ==
  /\ Top.at = "result" /\ t \in {"home", "orders"}
  /\ pages' = Becomes(NewTabs(t, {t}))
  /\ Dispatched(OnTab(t).fetches)
  /\ UNCHANGED <<walk, ticket, listed, current, charge>>

(***************************************************************************)
(* The server's answers, and their reducers                                *)
(***************************************************************************)
Answer(what) ==
  CASE what = "categories" -> Category
    [] what = "services" -> Service
    [] what = "myOrders" -> Mine
    [] what = "available" -> Mine \cup Others
    [] what = "myTickets" -> ticket
    [] what \in Service \cup Mine \cup ticket -> {what}
    [] OTHER -> {}

\* GetById of the three controllers; an order only if it is the caller's.
Found(what) == what \notin Item \/ what \in Service \cup Mine \cup ticket

Waiting(c) == calls[c] # None /\ calls[c].reply = None
Replied(c, ok, items) == calls' = [calls EXCEPT ![c].reply = [ok |-> ok, items |-> items]]

ServeFetch(c) ==
  /\ Waiting(c) /\ calls[c].what # "create"
  /\ Replied(c, Found(calls[c].what), IF Found(calls[c].what) THEN Answer(calls[c].what) ELSE {})
  /\ UNCHANGED <<walk, ticket, pages, store, charge>>

ServeCreateTicket(c, t) ==
  /\ Waiting(c) /\ calls[c].what = "create"
  /\ t \in Ticket \ ticket
  /\ ticket' = ticket \cup {t}
  /\ Replied(c, TRUE, {t})
  /\ UNCHANGED <<walk, pages, store, charge>>

\* An error, or the request or its answer lost.
Fail(c) ==
  /\ calls[c] # None
  /\ calls[c].reply # None => calls[c].reply.ok
  /\ Replied(c, FALSE, {})
  /\ UNCHANGED <<walk, ticket, pages, store, charge>>

Settling(c, ok) ==
  /\ calls[c] # None /\ calls[c].reply # None /\ calls[c].reply.ok = ok
  /\ calls' = [calls EXCEPT ![c] = None]
  /\ UNCHANGED <<walk, ticket, charge>>

ListArrived(c) ==
  /\ Settling(c, TRUE) /\ calls[c].what \in List
  /\ listed' = [listed EXCEPT ![calls[c].what] = calls[c].reply.items]
  /\ loading' = [loading EXCEPT ![SliceOf(calls[c].what)] = FALSE]
  /\ UNCHANGED <<pages, current>>

\* Mutant: the answer is stored as it came, a list of one.
ItemInList(c) ==
  /\ Settling(c, TRUE) /\ calls[c].what \in Item
  /\ current' = [current EXCEPT ![SliceOf(calls[c].what)] = calls[c].reply.items]
  /\ loading' = [loading EXCEPT ![SliceOf(calls[c].what)] = FALSE]
  /\ UNCHANGED <<pages, listed>>

\* Whichever page is on top by now shows it.
ItemArrived(c) ==
  /\ Settling(c, TRUE) /\ calls[c].what \in Item
  /\ current' = [current EXCEPT ![SliceOf(calls[c].what)] = calls[c].what]
  /\ loading' = [loading EXCEPT ![SliceOf(calls[c].what)] = FALSE]
  /\ pages' = [i \in DOMAIN pages |->
                 [pages[i] EXCEPT !.got = pages[i].got \/ pages[i].id = calls[c].what]]
  /\ UNCHANGED listed

\* Mutant: a rejected fetch leaves the flag up.
RefusedLoading(c) ==
  /\ Settling(c, FALSE) /\ calls[c].what # "create"
  /\ UNCHANGED <<pages, store>>

Refused(c) ==
  /\ Settling(c, FALSE) /\ calls[c].what # "create"
  /\ loading' = [loading EXCEPT ![SliceOf(calls[c].what)] = FALSE]
  /\ UNCHANGED <<pages, listed, current>>

(***************************************************************************)
(* The new-ticket form                                                     *)
(***************************************************************************)
Idle(p) == [p EXCEPT !.busy = None]
\* setLoading(false) of the page that set it, if it is still there.
NoLonger(b, ps) == [i \in DOMAIN ps |-> IF ps[i].busy = b THEN Idle(ps[i]) ELSE ps[i]]

SubmitTicket(c) ==
  /\ Top.at = "new-ticket" /\ Top.busy = None
  /\ Free # {} /\ c = CHOOSE free \in Call : free \in Free
  /\ calls' = [calls EXCEPT ![c] = [what |-> "create", reply |-> None]]
  /\ pages' = Becomes([Top EXCEPT !.busy = c])
  /\ UNCHANGED <<walk, ticket, store, charge>>

\* router.back(): to the home tab, to the screen beneath, or nowhere.  What the home tab fetches
\* is of another walk.
GoingBack ==
  IF Top.at = "tabs" /\ Top.tab # "home" THEN Becomes(Showing(Top, "home"))
  ELSE IF Len(pages) > 1 THEN Front(pages)
  ELSE pages

\* Then back, from whatever screen is on top.
TicketCreated(c) ==
  /\ Settling(c, TRUE) /\ calls[c].what = "create"
  /\ pages' = NoLonger(c, GoingBack)
  /\ UNCHANGED store

\* Mutant: the button is shown again only if the ticket was opened.
TicketKeepsWaiting(c) ==
  /\ Settling(c, FALSE) /\ calls[c].what = "create"
  /\ UNCHANGED <<pages, store>>

TicketRefused(c) ==
  /\ Settling(c, FALSE) /\ calls[c].what = "create"
  /\ pages' = NoLonger(c, pages)
  /\ UNCHANGED store

(***************************************************************************)
(* The checkout                                                            *)
(***************************************************************************)
\* A price is named by the service it is the total of: the page computes it from the slice's
\* service, and the order is for the service of its parameter.
CheckoutScreen == [service |-> Top.id, price |-> current["catalog"]]

PressCheckout(p) ==
  /\ Top.at = "checkout" /\ Top.busy = None
  /\ charge[p] = None
  /\ charge' = [charge EXCEPT ![p] =
                  [service |-> CheckoutScreen.service, price |-> CheckoutScreen.price,
                   row |-> FALSE, paid |-> None, stage |-> "creating"]]
  /\ pages' = Becomes([Top EXCEPT !.busy = p])
  /\ UNCHANGED <<walk, ticket, store, calls>>

At(p, stage) == charge[p] # None /\ charge[p].stage = stage

ServeCreate(p) ==
  /\ At(p, "creating") /\ ~charge[p].row
  /\ charge' = [charge EXCEPT ![p].row = TRUE]
  /\ UNCHANGED <<walk, ticket, pages, store, calls>>

\* router.replace with the result: for the page on top or, if that is a shared one, for all of
\* the shared route.  n screens stay beneath it.
Stay(n) == IF Top.at \in SharedPage
           THEN n < Len(pages) /\ \A i \in DOMAIN pages : i > n <=> pages[i].at \in SharedPage
           ELSE n = Len(pages) - 1
ResultOver(n) == Append(SubSeq(pages, 1, n), Screen("result"))

\* Mutant: the result is shown as soon as the order is there.
ResultAtOnce(p) ==
  /\ At(p, "creating") /\ charge[p].row
  /\ charge' = [charge EXCEPT ![p].stage = "paying"]
  /\ pages' = ResultOver(Len(pages) - 1)
  /\ UNCHANGED <<walk, ticket, store, calls>>

CreateAnswered(p) ==
  /\ At(p, "creating") /\ charge[p].row
  /\ charge' = [charge EXCEPT ![p].stage = "paying"]
  /\ UNCHANGED <<walk, ticket, pages, store, calls>>

ServePayment(p) ==
  /\ At(p, "paying") /\ charge[p].paid = None
  /\ charge' = [charge EXCEPT ![p].paid = charge[p].price]
  /\ UNCHANGED <<walk, ticket, pages, store, calls>>

\* The handler goes on although its page may be gone, and replaces whatever is on top.
PaymentAnswered(p) ==
  /\ At(p, "paying") /\ charge[p].paid # None
  /\ charge' = [charge EXCEPT ![p].stage = "done"]
  /\ \E n \in 0..Len(pages) - 1 : Stay(n) /\ pages' = NoLonger(p, ResultOver(n))
  /\ UNCHANGED <<walk, ticket, store, calls>>

\* Either request fails, or its answer is lost: an order unpaid, or paid and not shown so.
CheckoutFails(p) ==
  /\ At(p, "creating") \/ At(p, "paying")
  /\ charge' = [charge EXCEPT ![p].stage = "failed"]
  /\ pages' = NoLonger(p, pages)
  /\ UNCHANGED <<walk, ticket, store, calls>>

-----------------------------------------------------------------------------
Serve(c) == ServeFetch(c) \/ Fail(c) \/ \E t \in Ticket : ServeCreateTicket(c, t)
Settle(c) == ListArrived(c) \/ ItemArrived(c) \/ Refused(c) \/ TicketCreated(c) \/ TicketRefused(c)
Checkout(p) == ServeCreate(p) \/ CreateAnswered(p) \/ ServePayment(p) \/ PaymentAnswered(p)
                 \/ CheckoutFails(p)

Next ==
  \/ \E t \in Tabs : SwitchTab(t) \/ LeaveResult(t)
  \/ \E l \in OnPage(Top).links : OpenPage(l)
  \/ Back
  \/ \E c \in Call : Serve(c) \/ Settle(c) \/ SubmitTicket(c)
  \/ \E p \in Charge : PressCheckout(p) \/ Checkout(p)

\* Requests end, by their failure at the latest, and settled promises run their handlers;
\* nobody has to open, leave or press anything.
Fairness ==
  /\ \A c \in Call : WF_vars(Serve(c) \/ Settle(c))
  /\ \A p \in Charge : WF_vars(Checkout(p))

Spec == Init /\ [][Next]_vars /\ Fairness

-----------------------------------------------------------------------------
(***************************************************************************)
(* Properties                                                              *)
(***************************************************************************)
\* Type correctness of the screens, the slices, the requests and the charges.
BrowseTypeOK ==
  /\ walk \in Slice
  /\ ticket \subseteq Ticket
  /\ pages \in Seq(Page) /\ Len(pages) \in 1..Depth
  /\ listed \in [List -> SUBSET Item]
  /\ current \in [Slice -> Item \cup {None}]
  /\ loading \in [Slice -> BOOLEAN]
  /\ calls \in [Call -> Fetch \cup {None}]
  /\ charge \in [Charge -> Pressed \cup {None}]

\* A slice's flag is up only while one of its fetches is in flight, although the first
\* answer of several takes it down for all ...
SliceLoadingHasCall ==
  \A s \in Slice : loading[s] =>
    \E c \in Call : calls[c] # None /\ calls[c].what # "create" /\ SliceOf(calls[c].what) = s

\* ... and neither its spinners nor the checkout's disabled button last, whatever becomes
\* of the requests.
Waits == loading[walk] \/ \E p \in Charge : At(p, "creating") \/ At(p, "paying")
WaitingEnds == Waits ~> ~Waits

\* A page opened while no other item's fetch was in flight, over which no page of an item has
\* been opened since, shows its own item from its own answer on; a checkout opened so shows
\* the total of its own service.  Coming back to a page from another item's shows that one.
SettledPage == Top.id # None /\ Top.alone /\ Top.got => current[SliceOf(Top.id)] = Top.id

\* The button of a page waits only while the request it sent is on its way, whichever screens
\* have been opened, replaced or left meanwhile: another pressing is possible afterwards.
Working(b) ==
  \/ b \in Call /\ calls[b] # None /\ calls[b].what = "create"
  \/ b \in Charge /\ (At(b, "creating") \/ At(b, "paying"))
BusyHasRequest == \A i \in DOMAIN pages : pages[i].busy # None => Working(pages[i].busy)

\* "Paid successfully" is shown only once an order is there and paid.
ResultMeansPaid ==
  \A i \in DOMAIN pages : pages[i].at = "result" =>
    \E p \in Charge : charge[p] # None /\ charge[p].row /\ charge[p].paid # None

\* The total is that of the service ordered (frontlogic.md 3.1: base price and 10%).  Does
\* not hold: see ServiceScreen and CheckoutScreen.
PriceIsOfService == \A p \in Charge : charge[p] # None => charge[p].price = charge[p].service
=============================================================================
