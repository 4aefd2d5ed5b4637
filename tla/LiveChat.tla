------------------------------ MODULE LiveChat ------------------------------
(***************************************************************************)
(* Chats of the UIS application: the Chats and Messages tables, the groups *)
(* of the two SignalR hubs, and what each signed-in client keeps: the      *)
(* screens mounted on its navigation stack, their hub connections, and the *)
(* store's one currentChat, which every chat screen reads and sends to.    *)
(*                                                                         *)
(* A topic is what a chat is about: an order, or a pair of people (private *)
(* chat).  Chat rows are identified apart from topics, and both kinds of   *)
(* identifier name hub groups.                                             *)
(*                                                                         *)
(* Delivery of a broadcast is one step for all connections: a connection   *)
(* replaced before it hears a message drops it, which is the same as the   *)
(* broadcast coming later.  A payload is its message identifier, so what   *)
(* is shown is a set; a custom offer is a message like any other here.     *)
(***************************************************************************)
EXTENDS Naturals, Sequences, SequencesExt

CONSTANTS
  Client,       \* signed-in clients
  OrderTopic,   \* orders, each of which may have a chat
  PrivateTopic, \* pairs of people, each of which may have a chat
  Members,      \* the clients of each topic's two people
  AcceptedFrom, \* the <<client, private topic>> whose offer became the order, or None
  ChatId,       \* identifiers of chat rows: their number bounds the chats
  MessageId,    \* identifiers of messages, bounds the messages
  Request,      \* API calls that can be in flight at the same time
  Fresh,        \* a row that was never inserted
  None          \* null: no chat in the store, no group, a free request slot

Topic == OrderTopic \cup PrivateTopic

Answer     == [chat : ChatId, messages : SUBSET MessageId]
MessageRow == [chat : ChatId, from : Client, live : BOOLEAN]
LinkedScreen   == [topic : Topic, link : {"starting", "joined"}, group : ChatId \cup Topic]
UnlinkedScreen == [topic : Topic, link : {"off"}, group : {None}]
OpenRequest == [op : {"open"}, client : Client, topic : Topic, got : {None, Fresh} \cup Answer]
SendRequest == [op : {"send"}, message : MessageId]

ASSUME TopicsAreTyped ==
  /\ OrderTopic \cap PrivateTopic = {}
  /\ Members \in [Topic -> SUBSET Client]
  /\ AcceptedFrom \in [OrderTopic -> (Client \X PrivateTopic) \cup {None}]

\* Identifiers are Guids, drawn apart; the distinguished values are none of them.
ASSUME IdentifiersDiffer ==
  /\ ChatId \cap Topic = {}
  /\ Fresh # None
  /\ Fresh \notin Topic \cup MessageRow \cup Answer
  /\ None \notin Topic \cup ChatId \cup Answer \cup OpenRequest \cup SendRequest
  /\ None \notin Client \X Topic

VARIABLES
  chatRow,  \* the Chats table: the topic of each row
  message,  \* the Messages table; "live" is history: the server has broadcast it
  screens,  \* the chat screens mounted on each client's stack, the visible one last
  store,    \* each client's state.chat.currentChat; leaving a screen does not reset it
  req       \* API calls in flight

vars == <<chatRow, message, screens, store, req>>

Init ==
  /\ chatRow = [k \in ChatId |-> Fresh]
  /\ message = [m \in MessageId |-> Fresh]
  /\ screens = [c \in Client |-> <<>>]
  /\ store = [c \in Client |-> None]
  /\ req = [r \in Request |-> None]

Saved == {m \in MessageId : message[m] # Fresh}
Live  == {m \in Saved : message[m].live}
History(k) == {m \in Saved : message[m].chat = k}
Rows(t)    == {k \in ChatId : chatRow[k] = t}

(***************************************************************************)
(* Screens and their connections                                           *)
(***************************************************************************)
\* Mutant: both screens join the group named by their route parameter.
GroupOfRoute(t, k) == t

\* The private screen joins the group of the chat it shows, the order screen the one
\* named by its route parameter, the order.
GroupJoined(t, k) == IF t \in PrivateTopic THEN k ELSE t

\* Mutant: the effect does not wait for the store to hold a chat.
MountedUnchecked(t, shown) ==
  [topic |-> t, link |-> "starting", group |-> IF shown = None THEN None ELSE GroupJoined(t, shown.chat)]

\* What the connection effect leaves behind when it runs with currentChat = shown.
Mounted(t, shown) ==
  IF shown = None THEN [topic |-> t, link |-> "off", group |-> None]
                  ELSE [topic |-> t, link |-> "starting", group |-> GroupJoined(t, shown.chat)]

\* A first chat screen, or an order's chat reached from the offer that the client has
\* accepted in the private chat on top; nothing opens a chat from an order's chat.
CanShow(c, t) ==
  \/ /\ screens[c] = <<>>
     /\ t \in PrivateTopic => c \in Members[t]
  \/ /\ screens[c] # <<>>
     /\ t \in OrderTopic
     /\ AcceptedFrom[t] = <<c, Last(screens[c]).topic>>

OpenScreen(c, r, t) ==
  /\ req[r] = None
  /\ CanShow(c, t)
  /\ screens' = [screens EXCEPT ![c] = Append(@, Mounted(t, store[c]))]
  /\ req' = [req EXCEPT ![r] = [op |-> "open", client |-> c, topic |-> t, got |-> None]]
  /\ UNCHANGED <<chatRow, message, store>>

Back(c) ==
  /\ screens[c] # <<>>
  /\ screens' = [screens EXCEPT ![c] = Front(@)]
  /\ UNCHANGED <<chatRow, message, store, req>>

\* connection.start() and the call of JoinChat have both succeeded.
Join(c, i) ==
  /\ i \in DOMAIN screens[c]
  /\ screens[c][i].link = "starting"
  /\ screens' = [screens EXCEPT ![c][i].link = "joined"]
  /\ UNCHANGED <<chatRow, message, store, req>>

\* A failed start is not tried again, and an automatic reconnect comes back with a new
\* connection identifier, which is in no group: nothing calls JoinChat again.
LinkLost(c, i) ==
  /\ i \in DOMAIN screens[c]
  /\ screens[c][i].link \in {"starting", "joined"}
  /\ screens' = [screens EXCEPT ![c][i] = Mounted(@.topic, None)]
  /\ UNCHANGED <<chatRow, message, store, req>>

(***************************************************************************)
(* GET Chat/Order/{id} and GET Chat/Private/{id}                           *)
(***************************************************************************)
\* Mutant: an order's chat is looked up without its people.
MayOpenAny(c, t) == TRUE

\* An order's chat is for its student and its executor; a private chat is looked up
\* by the caller's own identity.
MayOpen(c, t) == c \in Members[t]

Opening(r) == req[r] # None /\ req[r].op = "open"

\* The query for a chat row of the topic; with several rows, any of them is first.
OpenFind(r, k) ==
  /\ Opening(r) /\ req[r].got = None
  /\ MayOpen(req[r].client, req[r].topic)
  /\ k \in Rows(req[r].topic)
  /\ req' = [req EXCEPT ![r].got = [chat |-> k, messages |-> History(k)]]
  /\ UNCHANGED <<chatRow, message, screens, store>>

OpenFindNone(r) ==
  /\ Opening(r) /\ req[r].got = None
  /\ MayOpen(req[r].client, req[r].topic)
  /\ Rows(req[r].topic) = {}
  /\ req' = [req EXCEPT ![r].got = Fresh]
  /\ UNCHANGED <<chatRow, message, screens, store>>

OpenInsert(r, k) ==
  /\ Opening(r) /\ req[r].got = Fresh
  /\ chatRow[k] = Fresh
  /\ chatRow' = [chatRow EXCEPT ![k] = req[r].topic]
  /\ req' = [req EXCEPT ![r].got = [chat |-> k, messages |-> {}]]
  /\ UNCHANGED <<message, screens, store>>

\* Mutant: the effect of a screen runs once, when the first chat is there.
LinkedOnce(c, shown) ==
  IF store[c] # None THEN screens[c]
                     ELSE [i \in DOMAIN screens[c] |-> Mounted(screens[c][i].topic, shown)]

\* The connection effects depend on currentChat.id: when it changes, every mounted
\* screen, visible or not, replaces its connection.
Relinked(c, shown) ==
  IF store[c] # None /\ store[c].chat = shown.chat
  THEN screens[c]
  ELSE [i \in DOMAIN screens[c] |-> Mounted(screens[c][i].topic, shown)]

\* The answer fills the store whether or not the screen that asked is still mounted.
AnswerArrives(r) ==
  /\ Opening(r) /\ req[r].got \notin {None, Fresh}
  /\ LET c == req[r].client IN
       /\ screens' = [screens EXCEPT ![c] = Relinked(c, req[r].got)]
       /\ store' = [store EXCEPT ![c] = req[r].got]
  /\ req' = [req EXCEPT ![r] = None]
  /\ UNCHANGED <<chatRow, message>>

(***************************************************************************)
(* POST Chat/{id}/Message and POST Chat/Offers                             *)
(***************************************************************************)
\* The visible screen sends to the store's chat; the server saves the message.
SendMessage(c, r, m) ==
  /\ req[r] = None
  /\ screens[c] # <<>> /\ store[c] # None
  /\ message[m] = Fresh
  /\ message' = [message EXCEPT ![m] = [chat |-> store[c].chat, from |-> c, live |-> FALSE]]
  /\ req' = [req EXCEPT ![r] = [op |-> "send", message |-> m]]
  /\ UNCHANGED <<chatRow, screens, store>>

\* The connection hears what is broadcast to the group of chat k on the hub of its kind.
Hears(s, k) ==
  /\ s.link = "joined" /\ s.group = k
  /\ s.topic \in PrivateTopic <=> chatRow[k] \in PrivateTopic

\* ReceiveMessage runs addLocalMessage, which appends to whatever chat the store holds.
Broadcast(r) ==
  /\ req[r] # None /\ req[r].op = "send"
  /\ LET m == req[r].message
         hearing == {c \in Client : \E i \in DOMAIN screens[c] :
                                      Hears(screens[c][i], message[m].chat)}
     IN /\ message' = [message EXCEPT ![m].live = TRUE]
        /\ store' = [c \in Client |-> IF c \in hearing
                                      THEN [store[c] EXCEPT !.messages = @ \cup {m}]
                                      ELSE store[c]]
  /\ req' = [req EXCEPT ![r] = None]
  /\ UNCHANGED <<chatRow, screens>>

\* Access denied, an exception, a lost connection or a restart of the server.
Drop(r) ==
  /\ req[r] # None
  /\ req' = [req EXCEPT ![r] = None]
  /\ UNCHANGED <<chatRow, message, screens, store>>

Next ==
  \/ \E c \in Client, r \in Request, t \in Topic : OpenScreen(c, r, t)
  \/ \E c \in Client : Back(c)
  \/ \E c \in Client : \E i \in DOMAIN screens[c] : Join(c, i) \/ LinkLost(c, i)
  \/ \E r \in Request, k \in ChatId : OpenFind(r, k) \/ OpenInsert(r, k)
  \/ \E r \in Request : OpenFindNone(r) \/ AnswerArrives(r) \/ Broadcast(r) \/ Drop(r)
  \/ \E c \in Client, r \in Request, m \in MessageId : SendMessage(c, r, m)

Spec == Init /\ [][Next]_vars

-----------------------------------------------------------------------------
(***************************************************************************)
(* Properties                                                              *)
(***************************************************************************)
\* Type correctness; in particular a screen joins a group only once the store holds a
\* chat, and a stack is at most a private chat with an order's chat above it.
TypeOK ==
  /\ chatRow \in [ChatId -> Topic \cup {Fresh}]
  /\ message \in [MessageId -> MessageRow \cup {Fresh}]
  /\ screens \in [Client -> Seq(LinkedScreen \cup UnlinkedScreen)]
  /\ \A c \in Client : \A i \in DOMAIN screens[c] :
       i > 1 => /\ screens[c][i].topic \in OrderTopic
                /\ screens[c][i - 1].topic \in PrivateTopic
  /\ store \in [Client -> Answer \cup {None}]
  /\ req \in [Request -> OpenRequest \cup SendRequest \cup {None}]

\* What a client shows under a chat are saved messages of that very chat, although a live
\* message is appended to whatever the store holds (chatSlice.ts, addLocalMessage).
ShownInChat ==
  \A c \in Client : store[c] # None => store[c].messages \subseteq History(store[c].chat)

\* Nobody is shown a chat of an order or a pair he is not part of: the handlers that
\* answer with a history check it, those that send and the hubs do not.
OnlyMembersSee ==
  \A c \in Client : store[c] # None => c \in Members[chatRow[store[c].chat]]

\* The client shows chat k on a screen of its topic that has joined its hub.
Watching(c, k, topics) ==
  /\ store[c] # None /\ store[c].chat = k
  /\ \E i \in DOMAIN screens[c] : screens[c][i].topic \in topics /\ screens[c][i].topic = chatRow[k]
                                    /\ screens[c][i].link = "joined"

Delivered(topics) ==
  \A m \in Live' \ Live, c \in Client :
    Watching(c, message[m].chat, topics) => m \in store'[c].messages

\* A message of a private chat reaches, when it is broadcast, every client that shows the
\* chat on a joined private screen: screen and server must mean the same hub and group.
PrivateDelivery == [][Delivered(PrivateTopic)]_vars

\* The same for order chats (logic.md: groups based on ChatId ensure instant delivery).
\* Does not hold: the order screen joins the group named by the order.
OrderDelivery == [][Delivered(OrderTopic)]_vars

\* A message is saved in the chat of the screen it was typed in (spec 007, FR-001:
\* private chats are independent of orders).  Does not hold: screens send to currentChat.
SentWhereMeant ==
  [][\A m \in Saved' \ Saved :
       chatRow[message'[m].chat] = Last(screens[message'[m].from]).topic]_vars

\* An order, or a pair of people, has one chat (logic.md: a dedicated chat).  Does not
\* hold: two first visits both find none and both insert one.
OneChatPerTopic == \A j, k \in ChatId : chatRow[j] = chatRow[k] /\ chatRow[j] # Fresh => j = k

\* Once a private screen has joined and nothing is in flight, every message the other party
\* has had broadcast in its chat is shown (spec 007: it appears instantly).  Does not hold: what is broadcast
\* between the reading of the history and JoinChat is in neither.
InboxComplete ==
  \A c \in Client, k \in ChatId :
    Watching(c, k, PrivateTopic) /\ (\A r \in Request : req[r] = None)
      => {m \in History(k) \cap Live : message[m].from # c} \subseteq store[c].messages
=============================================================================
