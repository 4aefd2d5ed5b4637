# UIS marketplace: specifications and proofs

UIS connects students who order academic services with the executors who deliver them. The
repository holds an ASP.NET Core server (`msa3ed/server`: REST controllers, an MVC admin
panel, SignalR hubs, Entity Framework over PostgreSQL) and an Expo/React Native client
(`msa3ed/UIS`: Redux slices and screens). This directory keeps the TLA+ models of its core
logic, the TLC runs that check them on small instances, and the TLAPS proofs about them.

Paths below are relative to `msa3ed/`; `API` is `server/Controllers/Api/ApiControllers.cs`,
`ADM` `server/Controllers/AdminController.cs`, `DOM` `server/Services/DomainServices.cs`,
`CORE` `server/Services/CoreServices.cs`.

## 1. The system

### Components, their state and operations

| component | state | operations | what makes it correct |
|---|---|---|---|
| orders, payments, escrow (API 187-278, DOM 33-94, ADM 677-687) | tables Orders, Payments, Escrows | create, pay, admin status change, cascades of deletions | a payment and its escrow are one fact; money moves only through a dispute; an unpaid custom order stays recognisable |
| custom offers (DOM 128-173) | table CustomOffers | send, accept | an offer becomes one order with the offer's terms |
| disputes and tickets (API 501-568, ADM 769-901) | tables Tickets, TicketMessages | create, reply, close, resolve | a verdict settles the escrow once, moves the order and closes the ticket |
| chat (API 312-445, DOM 105-127, hubs, `chatSlice.ts`, chat screens) | tables Chats, Messages; hub groups; the store's current chat | get or create, send, join, fetch, receive, reconnect | one chat per order or pair; what is shown is saved and belongs to the chat, is not missed, and is for the chat's people |
| accounts and authentication (API 15-80, CORE 94-248) | table Users, OTP columns, tokens | register, log in, verify, reset, edit, delete | one account per address |
| roles, permissions, KYC (ADM 220-324, 407-505, API 573-615) | Roles, UserRoles, flags on Users, KycRequests | grant, remove, approve, reject | the flags say what the role rows say |
| catalogue (ADM 347-379, 547-627) | Categories, Services | create, edit, delete | deletions take or refuse what depends on them |
| favourites (DOM 261-277, `favoritesSlice.ts`) | Favorites, the client's list | toggle, fetch | at most one row per user and service; the list says what the rows say |
| notifications, e-mail (DOM 198-260, CORE 23-91, `Admin/Notifications.tsx`) | Notifications, the screen's list | send, mark, delete | the list says what the rows say |
| client session (`authSlice.ts`, `AuthContext.tsx`, `api.ts`, the screens up to the profile editor) | user, token, loading; a second copy of the token in `api.ts` | sign in and out, register, forgotten password, save, upload | one account's user and token; the signed-in's screens for somebody signed in, as far as the router allows; no endless spinner |
| browsing (`catalogSlice.ts`, `ordersSlice.ts`, `ticketsSlice.ts`, tabs and pages) | lists, the item shown, one loading flag per slice | mount, fetch, open, go back | a page shows its own item |
| checkout (`app/student/checkout.tsx`, `payment-result.tsx`) | a loading flag | create an order, then pay it | the total is the ordered service's, and is shown paid only once it is |

Every handler runs on a request of its own with its own `DbContext`; nothing is locked and no
entity has a concurrency token, so handlers meet only in the tables, at the granularity of one
awaited query or one `SaveChangesAsync`. Hubs keep groups of connections in memory; controllers
push to them after saving. The client calls the REST API and listens on one hub connection per
chat screen.

### What is hard here

On the server: overlapping requests that act on what they read earlier (offers accepted twice,
disputes resolved on stale rows, flags written from an old copy); Entity Framework's change
tracking, which sends an UPDATE only for a property that differs from the loaded value; cascades
that delete money rows with an account or a service; fetch answers and live messages that cross;
reconnects that lose group membership; loops and two-call sequences that stop half way. On the
client: handlers that go on after their `await` though the screen or the account has changed, slices
whose one item and one flag serve every fetch, buttons that can be pressed again while they spin.
`PROJECT.json` lists each at its line under `hazards`.

The sources at this commit do not build as they stand: `PaymentsController.Process` uses a
field it does not have (API 274), `AuthController` declares `Register` twice (API 27, 54),
`OtpService` uses an entity that is not in the model, `RegisterAsync` declares `token` twice
(CORE 122, 138). Where a handler and a service repeat the same logic and one of them cannot
compile, the service is what is modelled (payments: DOM 68-85).

## 2. Modules

### OrderEscrow.tla

The tables and the requests of orders, payments, escrow, offers and tickets.

State: `order`, `payment`, `escrow`, `offer`, `ticket` are tables from identifiers to rows,
with `Fresh` before the insert and `Deleted` after a delete (a Guid is not reused);
`users`, `services` are the accounts and services that exist; `orderChat` the orders some chat
row points to; `req` the requests in flight with what they have read. `origin` is a history
variable: the offer an order was made from.

A handler with a query whose answer can be stale by the time it saves is split at that query:

| code | actions |
|---|---|
| `OrdersController.Create` (API 235-255) | `CreateOrder` |
| `PaymentService.ProcessPaymentAsync`, `EscrowService.HoldFundsAsync` (DOM 68-94) | `PayLoad`, `PaySave` with `HoldFunds` |
| `ChatService.SendCustomOfferAsync` (DOM 128-149) | `SendCustomOffer` |
| `ChatService.AcceptCustomOfferAsync` (DOM 151-173) | `AcceptLoad`, `AcceptPickService`, `AcceptSave` |
| `UpdateOrderStatus` (ADM 677-687) | `StatusLoad`, `StatusSave` |
| `TicketController.Create` (API 530-536), `CloseTicket` (ADM 860-870) | `CreateTicket`, `CloseTicket` |
| `ResolveDispute` (ADM 872-901) | `ResolveLoadTicket`, `ResolveLoadEscrow`, `ResolveLoadOrder`, `ResolveSave` |
| `GetOrderChat` (API 344-365) | `OpenOrderChat` |
| `DeleteService`, `DeleteCategory`, `DeleteUser` (ADM 605-615, 369-379, 170-180) | the same names, through `DeleteOrders`, `Referenced` and the foreign keys of the InitialPostgres migration |
| an exception, a missing row, a crash | `Drop`: the request ends, its transaction is rolled back |

`SetStatus`/`CanSet`/`Writes` are Entity Framework's part: a status equal to the loaded one is
not written, and a write to a row that is gone fails the save. `ServiceKey` and `OrderKey` are
foreign keys. `LinkTicket` is external: no code fills `Tickets.OrderId`, so a dispute exists
only when an operator links the ticket in the database; without it nothing of ResolveDispute
could be reached. The constants `ServiceOwner`, `CategoryOf` and `PrivateChat` are the parts of
the catalogue and of the chats that the modelled handlers only read. The catalogue really is
fixed but for deletions: the forms of CreateService and EditService post no `Category`, which
model validation requires (a non-nullable navigation), so both return before saving.

`SendCustomOffer` lets any account send into any private chat, as the code does: nothing checks that
the sender is a member (DOM 128-133). Whoever sends becomes the executor; for a stranger the student
is the chat's. So an offer can be deleted: no chat holds up the deletion of a stranger's account,
and his offers go with it (`OffersOf`, the cascade of CustomOffers' foreign keys), unless an order
was made from one, which refuses it. An acceptance that has loaded such an offer fails at its save.

The admin forms offer "Pending", "In Progress", "Completed" and "Cancelled"
(`Views/Admin/OrderDetails.cshtml`), and `Verdict` has "other" for an action that is neither.

### EscrowLedger.tla

The abstract promise of the money side: a charge is held whole on an order that exists, then
only its status moves and never back to "Held", and it disappears only with its order and with
all charges of that order. `OrderEscrow!LedgerSpec` states that the tables implement it, with
`entry <- escrow` and `erased` the orders that were deleted. It does not promise that a charge
is settled once: the code does not.

### LiveChat.tla

The chat tables, the groups of the two hubs, and what each signed-in client keeps. A *topic* is
what a chat is about: an order or a pair of people.

State: `chatRow` (Chats: the topic of each row), `message` (Messages, with the history `live`,
broadcast already), `screens` (the chat screens mounted on each client's navigation stack, with
their connections), `store` (the client's one `currentChat`, which every chat screen shows and sends
to and nothing resets) and `req` (API calls in flight).

| code | actions |
|---|---|
| mounting a chat screen: its fetch effect and its connection effect (`chat/[id].tsx` 27-66, `chat/private/[id].tsx` 29-81) | `OpenScreen` with `Mounted` |
| leaving it | `Back` |
| `connection.start` and `JoinChat`; a failed start, a lost connection, a reconnect that joins nothing | `Join`; `LinkLost` |
| `GetOrderChat`, `InitializePrivateChatAsync` (API 344-384, DOM 108-118) | `OpenFind`, or `OpenFindNone` and `OpenInsert` |
| `fetchOrderChat.fulfilled`, `fetchPrivateChat.fulfilled` and the connection effects they trigger | `AnswerArrives` with `Relinked` |
| `handleSend` and `ChatController.SendMessage` up to its save | `SendMessage` |
| the broadcast and `addLocalMessage` at each listener | `Broadcast` with `Hears` |
| a refused, failed or lost call, a restart of the server | `Drop` |

The private screen joins the group of `currentChat.id`, the order screen the group of its route
parameter, the order: `GroupJoined` keeps the difference. When `currentChat.id` changes, every
mounted screen replaces its connection in the same step: the store's change reaches React through
a synchronous subscription, whose effects React 19 runs before it returns to the event loop, and
a stopped connection hands nothing on. A stack is at most a private chat with an order's chat
above it: the order's page is reached from a private chat by accepting an offer
(`CustomOfferWidget` 31-41), and nothing leads on from an order's chat. `CanShow` lets the client
that accepted the offer come back to the order's chat as often as it likes.

Custom offers are messages here (what differs is OrderEscrow's); the order of the messages shown
and duplicates in the list are abstracted, a set of identifiers is kept. Hub methods that no
client calls (the hubs' own SendMessage, LeaveChat, typing notices) are left out, so are token
changes and the deletion of chats.

### Session.tla

The client's session: the auth slice, the token `api.ts` keeps beside it, the screens from the
splash to the profile editor and the verification's, and the accounts the server answers about.
State: `routes` (the root Stack: routes, each with its own stack of screens), `user`, `token`,
`apiToken`, `loading`, `account` (the Users table) and `calls`, the thunks in flight: each is
dispatched by a button, resolved by the server or by a failure, and settled when its promise is.

| code | actions |
|---|---|
| `SplashScreen`, router links, back, a restart of the app (nothing is persisted) | `SplashEnds`, `Push`, `Replace`, `Back`, `Restart` |
| the buttons of the auth forms, of the profile editor and of the verification's form | `Press`, with what each screen offers (`OnScreen`) |
| the picker and the question that `handlePickImage` and `handleDeleteImage` await before they dispatch | `Prepared`, `Dismissed` |
| `handleLogout` and `logout` | `Logout` |
| the server's handlers; a refusal, an exception, a lost request or answer | `ServeLogin`, `ServePassword`, `ServeRegister`, `ServeSave`, `ServePicture`, `ServeKyc`; `Fail` |
| `fulfilled`/`rejected` reducers with the handler's code after its `await` | `SignInAnswered`, `SignInRefused`, `PasswordAnswered`, `SaveAnswered`, `PictureAnswered`, `KycAnswered`, `Refused` |

Navigation is the router's: `router.replace` replaces in the Stack that both screens share, so a
screen of the same route takes the place of the last one and a screen of another route takes the
place of the route on top only; what is beneath stays and Back returns to it (`Replacing`,
`GoingBack`). This is what makes `ScreensSignedIn` conditional. Two ways lead to a student's screen
without a token: two student routes stacked (kyc-status.tsx:45,61 over the tabs, or a second sign-in
answer over a pushed screen, login.tsx:43), of which logging out (profile.tsx:20-23) replaces the
upper one only; and the answer to a verification request after the logout (kyc-submit.tsx:55). The
history variable `astray` notes either, and the property says there is no third. The tabs are one
screen, since the profile, from which everything here starts, is one press away from each of them.

Three more handlers navigate after an `await` (checkout.tsx:41, CustomOfferWidget.tsx:35,
new-ticket.tsx:32); they belong to the other models (Browse, LiveChat) and not to this one, so
what they could put over the login screen after a logout is not covered here.

`login.tsx` and the `login.fulfilled` reducer use identifiers nothing declares (`useAuth`,
`dispatch`, `success`; `action`). `declared` is FALSE in the behaviours of the code as it stands,
where showing the login screen takes the app down (`crashed`) and only registering signs in, and
TRUE in those of the code with the identifiers bound as `AuthContext.tsx` and the slice's test
have them. A profile save is answered by an error for every account that has a role: the answer
is the row with its roles, whose users lead back to it, and nothing configures the serializer for
cycles (API 127); the row is saved all the same. `Roleless` accounts are those an administrator
left without a role. Fields, wording and switches nothing reads are left out, and so are links
into the app from outside.

### Kyc.tla

One person on the way to becoming an executor. State: the rows of KycRequests, `decided` (history: the
decisions ever saved), `flag` (`Users.IsExecutor`) and `role` (the row of UserRoles),
administrators' `handlers` with what they loaded, and the client's `executor` flag, kyc slice and screen. `SetRoleLoad`, `ApproveLoad` and
`Save` are `UpdateUserRole`, `RemoveUserRole`, `EditUser` and `ApproveKyc` split at their query
(ADM 129-312); `Abandon` is a save refused by the database, or a request that ends. `Reject` is
one step, since it reads nothing it does not write. On the client: `Submit`, the server's
`ServeSubmit`/`ServeStatus`, `SubmitAnswered` (which also mounts the status screen, whose effect
fetches at once), `StatusArrived`, `Refused`. Request identifiers are Guids, and `GetStatus`
answers about the highest: `RequestId` are the numbers up to the bound `Requests`, of which a new
request takes any unused one.

### SessionProofs.tla, KycProofs.tla, FavouritesProofs.tla, NoticesProofs.tla, AccountProofs.tla

The inductive invariants of the four modules of MCAccount, each in a module of its own, and the
theorems of section 4 about them in the behaviours of MCAccount (`AccountProofs`).

### Favourites.tla

One account's rows of Favorites, the toggle split between its look-up and its save (the unique
index refuses a second insert, a second delete touches no row), and the list of the screen.
`crossed` is history: since the last fetch that was sent alone, calls overlapped or one failed.

### Notices.tla

One account's notifications and their screen, which keeps the list itself. `MarkAsRead` and
`Delete` are split at `FindAsync`; the screen can be left while requests are in flight (`mine`).

### MCAccount.tla

An instance of the four modules above in one run. They share no variable, so a behaviour walks
through one of them (`part`) while the others keep their initial state; the properties are theirs.

### Browse.tla

The tabs and pages, what each fetches on mounting and shows of its slice, the new-ticket form and
the checkout. State: `pages` (the stack of screens: an entry of tabs, with the tab shown and the
tabs mounted, and the pages over it, among which there may be tabs again), `listed`/`current`/`loading`
(the slices), `calls` and `charge`, what has become of each pressing of the checkout's button;
`walk` is a bound explained below.

| code | actions |
|---|---|
| tab bar, cards and buttons that push a page, back, the result's buttons | `SwitchTab`, `OpenPage`, `Back`, `LeaveResult`, from what each screen fetches and links to (`HomeScreen` ... `TicketScreen`) |
| the Get handlers; `TicketController.Create`; errors and losses | `ServeFetch`, `ServeCreateTicket`, `Fail` |
| `fulfilled` and `rejected` of the slices | `ListArrived`, `ItemArrived`, `Refused` |
| `handleSubmit` of new-ticket | `SubmitTicket`, `TicketCreated`, `TicketRefused` |
| `handleCheckout`: its two calls, `router.replace`, its catch | `PressCheckout`, `ServeCreate`, `CreateAnswered`, `ServePayment`, `PaymentAnswered`, `CheckoutFails` |

Kept as the code has it: category cards lead to the service page with a category's identifier
(no service is found; the page shows the last one, or spins); an available order of somebody else
leads to a page that `GetById` refuses; a page shows what its slice holds, whatever its own
identifier; a checkout takes its price from the slice and its service from its link; the handlers
of the form and of the checkout go on after their page is gone. The
payment's result replaces the checkout, or all shared pages if one of them is on top by then, and
its buttons replace only the result: the service's page stays beneath the new tabs and Back
reaches it (`ResultOver`, `LeaveResult`, payment-result.tsx:34,39). `alone` and `got` are history:
whether a page was opened while no fetch of another item of its slice was in flight, with no page
of an item opened over it since, and whether its own fetch was answered. A page to which one
comes back from another item's page shows that other item, as service/[id].tsx:21-30 does not fetch
again; `SettledPage` excepts it.
A price is named by the service it is the total of. Chats opened from the lists are LiveChat's.

### BrowseProofs.tla

The theorems of section 4 about Browse.

### MCLiveChat.tla

Instances of LiveChat: who is a member of which topic and which order came from which offer.

### LiveChatProofs.tla

The chat theorems of section 4.

### MCOrderEscrow.tla

Instances for TLC: small sets of model values, who owns which service, who shares a chat, and
the symmetry of identifiers, requests and amounts (all properties are safety properties, and
none distinguishes identifiers).

### OrderEscrowProofs.tla

The theorems about OrderEscrow of section 4.

## 3. Runs

| run | instance | shows |
|---|---|---|
| `escrow_disputes` | 1 student, 1 service, 1 order, 2 charges, 1 ticket, 2 requests | types; payment and escrow are one fact; settled money has a closed ticket; refinement of EscrowLedger |
| `escrow_offers` | 2 members of a private chat and a stranger, 1 service, 2 orders, 1 charge, 1 offer, 2 requests | an order awaiting payment is unpaid; offers and orders agree; no dangling references |
| `escrow_serial` | 2 people, 2 orders, 1 charge, 1 offer, 1 ticket, 1 request | every operation together with load/save handlers that do not overlap: besides the above, one order per offer and settlements that move the order |
| `settled_twice` | as `escrow_disputes` | violation: an escrow settled one way and then the other |
| `chat_screens` | 2 clients, 2 private topics (one shared) and an order made from an offer in the other, 2 chat rows, 1 message, 2 calls | types and stacks; what is shown belongs to the chat shown; only members see a chat; a joined private screen hears its chat |
| `order_delivery` | 2 clients, 1 private topic and 1 order of both, 2 chat rows, 1 message, 2 calls | violation: an order chat's broadcast reaches no joined screen |
| `wrong_chat` | as `order_delivery` | violation: a message is saved in another chat than that of the screen it was typed in |
| `two_chats` | as `order_delivery` | violation: two first visits make two chats |
| `missed_message` | as `order_delivery` | violation: a message between the reading of the history and JoinChat is never shown |
| `client_account` | 2 accounts, one of them registered and without a role; 2 verification requests and 2 administrators' handlers; 2 services; 1 notification; 2 calls | token and user agree; screens of the signed-in are shown to nobody only as the two known ways allow; flag and role agree; lists agree with rows; the decision shown was saved; spinners end |
| `client_screens` | 2 services, 1 own order and 1 of somebody else, 1 ticket, 1 checkout, 2 calls, stacks of 4 screens | a page opened alone shows its item; the result is shown of a paid order; a button waits only for its own request; flags and buttons do not wait for ever |
| `wrong_price` | as `client_screens`, with a category and stacks of 3 screens | violation: an order of one service is charged another's total |

The bounds are the sets themselves: every insert takes an identifier that is still `Fresh`, so
`Order`, `Charge`, `Offer` and `Ticket` bound the number of rows ever inserted, and `Request`
the overlap. Two requests are what every hazard of the list needs (each is a pair of handlers),
two charges on one order what a second payment needs, two orders what a doubled acceptance
needs. Runs end when the identifiers are used up, hence `CHECK_DEADLOCK FALSE`: the server
itself may be idle for ever. No liveness is claimed of these handlers: each either saves or
ends, and nothing in the code retries.

In `escrow_offers` the two members have a chat in both directions (a pair may, see `two_chats`), so
that they are interchangeable and symmetry applies to them; the stranger is the one whose account
can go with his offers and orders. A constraint keeps to behaviours where orders placed without an
offer are the stranger's (`CatalogueOrdersAreBobs`): a member's differ from them only in that they
cannot go with his account, as in `escrow_serial`. The proofs know no such bound.

In `escrow_serial` the load/save handlers take turns, but the handlers that are a single step
(creation, deletion, closing a ticket, opening a chat) still run between a load and its save.

In the chat runs two calls are what the races need (two first visits; a fetch crossing a send).
Two rows among three topics reach every pair of topics a client can move between, and a doubled
chat; stacks need no bound of their own. The chat system has no dead end (a client can always leave or
open a screen), so deadlock is checked there. No liveness is claimed of it either: calls and
connections may fail at any time and nothing retries them.

In `client_account` two calls are what crossing answers, double presses and a save left behind by a
logout need; two accounts what mixing identities needs; two handlers what a stale flag needs; two
requests what the highest identifier needs to matter. In `client_screens` a behaviour visits the
screens of one slice only (`walk`): slices share nothing but the stack of pages, whose handlers
(`TicketCreated`, `PaymentAnswered`) act on whatever is on top, and the walk of their slice has
pages of the same and of other kinds to be on top. `Depth` 4 is what coming back takes: tabs, a
service's page left by its payment's result, the new tabs over it, and another service's page over
those. There is no category in `client_screens`: its page is one whose fetch is refused, which the
other people's orders show as well; `wrong_price` has one, and the proofs cover any number. In
`client_account` `Depth` 2 lets a screen be pushed over a lone one: two routes, or two screens of
one, which is what two student routes take; the proofs cover any depth. Neither run can stop: a
screen can always be left or opened.

Liveness is claimed of the client's spinners only (`SpinnersEnd`, `WaitingEnds`). The fairness is
weak fairness of each call's resolution: `fetch` ends at the latest with the failure of its
connection, and a settled promise runs its handlers. Nothing is assumed of the user, of
administrators or of the server answering well. A user who presses again for ever could keep a flag
up by fresh calls only if no answer ever took it down, and every answer does.

What two more runs would show is known: with overlapping requests `OneOrderPerOffer` and
`SettlementMovesOrder` do not hold. Two acceptances of one offer both read it as pending (DOM 153)
and insert an order each; a refund whose order was already cancelled when loaded writes no status,
and so leaves the order as another request has moved it meanwhile (ADM 886, against `logic.md:70`).
`escrow_serial` checks that both hold when handlers take turns.

Two statements of the documents fail so directly that no run is spent on them. `logic.md:56`
lets an order become "Pending" when it is paid; `CreateOrder` starts it as "Pending" (API 249
says the payment is bypassed). `logic.md:66-69` releases funds on the student's confirmation;
the only code that changes an escrow is ResolveDispute, and completing an order through the
status form leaves its escrow held.

## 4. Proofs

Every safety property that a passing run checks is the statement of a theorem: two of them
(`OneOrderPerOffer`, `SettlementMovesOrder`) with a hypothesis, since without it they are false.

`OrderEscrowProofs` proves, for any finite or infinite sets of people, services, orders,
charges, offers, tickets, amounts and requests, and from the two assumptions of OrderEscrow
(the sentinels are no identifiers and no rows; the catalogue constants are typed):

- `TypeCorrect`: `Spec => []TypeOK`. `TypeOK` is inductive: a save writes only rows it finds, and
  the acceptance that copies an offer's people fails when the offer has been deleted since.
- `PaymentsAreEscrowed`: `Spec => []LedgerBalance`, and
- `AwaitingOrdersAreUnpaid`: `Spec => []AwaitingIsUnpaid`. The two are proved together with
  `PayersKnowOrder`: when PaySave does not write the status because it read "Pending", the order
  must really have left "AwaitingPayment". It has, because no step leads back
  (`OrdersMoveOn`): the status form does not offer it and no acceptance reuses an order.
  `Charged(c)` gathers both for one charge; `ChargeKept` and `ChargeDeleted` say which steps
  keep it, and `NextMoney` goes through the actions.
- `RowsReferToWhatExists`: `Spec => []ReferencesHold`. A live offer has both its people, because it
  goes with either; an order's executor stays because the order refuses the deletion
  (`Referenced`), and its student takes it along. `RefInv` adds `ChatsKeepAccounts`: a private
  chat's row refuses the deletion of its members, so the student an offer is sent to exists.
- `OffersAndOrdersAgree`: `Spec => []OfferOrderAgree`, with `OriginsKnown`: only a row that was inserted
  has an origin, so an acceptance overwrites no other order's, and the offer it names was sent
  (`OfferInv`). The offer of a live order is there: its account cannot go while the order names it.
- `TablesImplementLedger`: `Spec => LedgerSpec`, the refinement. Initial states are initial states of
  the ledger (`InitLedger`); each step is a charge, a settlement, an erasure or a stutter of it
  (`StepLedger`, from the types alone: what each save writes is in its lemma, `ResolveSaves` for verdicts).
- `SettledMoneyHasTicket`: `Spec => []SettledThroughTicket`. The verdict that settles read its ticket
  and its escrow in earlier steps; `ResolversKnowTicket` says what is still true of them when it
  saves: the ticket is linked to the order and closed if it was read so, or deleted with its owner.
- `AcceptedOnceApart`: `Spec /\ []AcceptsApart => []OneOrderPerOffer`, and
- `VerdictsMoveOrdersApart`: `Spec /\ []DisputesApart => SettlementMovesOrder`. The hypotheses say that
  two acceptances of one offer, or a verdict and another handler of its order, are never in flight
  together; everything else may overlap. So these overlaps are the only way to a second order and
  to a verdict that does not move its order. `AcceptsPending` and `SeenIsCurrent` say that what
  such a handler read is then still so. `SerialRequests` draws the conclusion for a server that
  handles one request at a time, which is the case `escrow_serial` checks.

`LiveChatProofs` proves, for any sets of clients, topics, chats, messages and calls, from
`TopicsAreTyped` and `IdentifiersDiffer`:

- `ChatTypeCorrect`: `Spec => []TypeOK`. A broadcast appends to the store's chat, so there must be
  one: `LinkedToShown` says that a connection which is starting or joined belongs to the chat the
  store shows, `SendsSaved` that a message being broadcast was saved. `LinkInv` is their
  conjunction with TypeOK; each action has a lemma.
- `PrivateChatsDeliver`: `Spec => PrivateDelivery`, from `LinkInv` alone: a joined private screen's
  group is the shown chat (`NextDelivers`), and only Broadcast makes a message live.
- `OnlyOwnMessagesShown` and `ChatsStayPrivate`: `Spec => []ShownInChat`, `Spec => []OnlyMembersSee`.
  Proved together (`ShownInv`): stores and answers in flight hold messages of their chat, a chat of
  a topic of the client (`StoreRight`, `GotRight`), the tables keep rows and messages
  (`TablesKept`), and whoever hears a broadcast shows that chat (`HearersShow`).

`SessionProofs` proves, for any accounts and calls, from `SessionAssumption` (null is no account,
user or call, and the accounts set up beforehand are accounts), all five safety properties of
Session. Its invariant `SessionInv` is `SessionTypeOK`, `TokenAgrees`, `LoadingHasCall` and what
they and `ScreensSignedIn` need:

- `Stacked`: the stack is never empty, a route's screens are of one kind, and beneath the route on
  top there are student routes only; `NotAstray`: as long as nothing went astray there is one of those at
  most, and the signed-out have a single route, of their own screens. `ReplacingShape`,
  `PushingShape` and `GoingBackShape` say what the three moves leave of this, `NextScreens` goes through
  the actions.
- `SplashIsFresh`: while the splash screen is shown nobody is signed in and nothing is in flight; the
  step that leaves it would otherwise show a student's screen, or meet an old answer.
- `SubjectsKnown`: a sign-in, and a save that succeeded, are of an account.
- `PicturesOwned`: answers carry the picture of their own account or none, and the answer to a
  removal none. `OnlyLateAnswersMix` needs it: a picture that is answered late belongs to
  whoever asked (`MixingStep`).

`KycProofs` proves, for any number of requests, handlers and calls, from `KycAssumption`, all four
invariants of Kyc. `KycInv` adds to `KycTypeOK` and `FlagIsRole`:

- `CallDisables`: a call in flight keeps `loading` up and is the only one. `OneKycCall` is not inductive
  without it, since it is the flag that disables the button.
- `RowsDecided` and `DecisionsMade`: the decision a row, the slice or an answer in flight holds is
  among those ever saved. Nothing takes one out of that set (`AdminKeepsTogether`), and the answer is
  the status of a row: that of the highest identifier, which exists because a set of numbers below
  a bound has one (`LatestRequest`, from the library's theorem that `<` on the naturals is well
  founded).

`FavouritesProofs` proves the two invariants of Favourites, from `FavouritesAssumption`.
`FavouritesInv` says what holds while calls have not crossed: there is one call (`OneCall`), and
`Follows` what the list and the table are to it. A toggle was pressed on an item of a list that
agrees with the table, so it finds its row and removes it, and until its answer the list is behind by
that one service.

`NoticesProofs` proves the two invariants and the action property of Notices, from
`NoticesAssumption`. A row goes only from unread to read to deleted, so what the screen, an
answer or a handler between its two steps saw of it is where it is or where it was (`Past`). `NoticesInv` says
this of the list and of each request, and that a screen fetches once, into an empty list
(`OneScreenFetch`): without that a late fetch could show a notification again, or lose one that is there.

These four end in lemmas or a theorem about their own module. `AccountProofs` carries the invariants
over to the `Spec` that `client_account` checks (`StepOfPart`: each of its steps is
a step of a part or leaves it alone) and states one theorem for each property there.

`BrowseProofs` proves the five invariants of `client_screens`, for any catalogue and tickets, any
number of charges, any finite number of fetches in flight and any depth of pages, from `BrowseAssumption` (null
is no value it stands beside; a Guid belongs to one table). `BrowseInv` is inductive:

- `SettledPage` speaks of the top page only. `PagesSettled` says of every page of the stack that is
  still alone that its answer is shown, and that fetches in flight of its slice's items are its own.
  Opening a page of an item ends that for the ones beneath (`Covered`), whether it is opened from the
  page itself or from tabs that a payment's result has put over it; everything else that opens
  fetches lists or nothing (`LinksLead`, `TabFetches`).
- A checkout is always of a service and finds one to take its total from: the slice never loses its
  item, and a category's identifier, though opened as a service, is never answered with one
  (`CatalogShown`, `AnswersExist`). `BrowseTypeOK` needs both for the charge it makes.
- `SliceLoadingHasCall` is inductive because the first answer takes the flag down for all (`FlagKept`).
- `BusyHasRequest`: a request that ends frees every page that waits for it, and leaves the others to
  theirs (`NoLongerGoesOn`, `BusyKept`).
- `ResultMeansPaid` needs `PaysForOrder`: payment is asked for only once the order is there.

Most handlers open no page of an item: `PagesGoOn` says that each page after is one of before, later
(`Later`: another tab, covered, or idle), or is new tabs or the result (`IsNew`), and `QuietStep`
that such a step keeps the invariant. `DispatchedInv` is what mounting a screen leaves
true of the requests; that there are slots for its fetches is the one place where cardinalities
count (`SmallerInjects`).

Model-checked only: liveness under fairness (`SpinnersEnd`, `WaitingEnds`), which is out of the
prover's reach.

## 5. Plan

1. `OrderEscrow`, `LiveChat` with their runs and first theorems (done).
2. `Session`, `Kyc`, `Favourites`, `Notices`, `Browse` with their runs (done).
3. Proofs: every safety property of the passing runs (done). Next: how the known violations are
   confined, as `AcceptedOnceApart` does for offers: an order charged its own service's total when its
   checkout was opened alone, one chat for a topic when first visits do not overlap, money settled
   once when no verdict is reopened.
4. Ticket replies, once the page that writes them can be rendered.

## 6. Not modelled

- Ticket replies and the composer. `ChatInput` renders `hasMic`, which nothing declares
  (ChatInput.tsx:90), so chat and ticket pages throw once their data are there. LiveChat
  models the chats as if it rendered, without recorder and attachments: there the recorder's
  cleanup would release only the recording of the first render (AudioRecorder.tsx:19-26) and the
  text is cleared although sending failed (ChatInput.tsx:53-58). The ticket page joins the group of
  the bare identifier and listens for `ReceiveMessage`, while the server sends
  `ReceiveTicketMessage` to `ticket-`id (API 555): replies would never arrive live.
- `fetchMe`, `verifyOtp`, `setToken`, `updateUserSync`: nothing that can happen dispatches them. OTP
  codes on the server use an entity that is not in the model.
- A 200 whose body cannot be read becomes a success carrying null (`api.ts` 54-58). The models count
  it as a failed call: what the reducers and screens would do with a null list or item is left out.
- The stores are not reset when a user logs out: the next user of the device sees the last one's
  lists until the first answers. Session and Browse do not share a behaviour, so this is a note and
  not a property.
- A second account of one address (CORE 114), the Admin flag beside its role, named permissions,
  the panel's reports and searches, which only read.
- File upload (a write under a fresh name), e-mail, the seeder, styles and layout.
