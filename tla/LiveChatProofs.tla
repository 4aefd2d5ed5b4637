--------------------------- MODULE LiveChatProofs ---------------------------
(***************************************************************************)
(* Proofs about LiveChat.  Everything rests on one fact of the screens: a  *)
(* connection that is starting or joined belongs to the chat the store     *)
(* holds (LinkedToShown).                                                  *)
(***************************************************************************)
EXTENDS LiveChat, TLAPS

Screen == LinkedScreen \cup UnlinkedScreen
Shown  == Answer \cup {None}

\* A screen with a connection has it for the chat shown.
Agrees(s, shown) ==
  s.link # "off" => /\ shown # None
                    /\ s.group = GroupJoined(s.topic, shown.chat)

LinkedToShown ==
  \A c \in Client : \A i \in DOMAIN screens[c] : Agrees(screens[c][i], store[c])

\* A message being broadcast was saved.
SendsSaved ==
  \A r \in Request : req[r] # None /\ req[r].op = "send" => message[req[r].message] # Fresh

LinkInv == TypeOK /\ LinkedToShown /\ SendsSaved

-----------------------------------------------------------------------------
\* What the connection effect makes is a screen of the same topic that agrees with the store.
LEMMA MountedAgrees ==
  ASSUME NEW t \in Topic, NEW shown \in Shown
  PROVE  /\ Mounted(t, shown) \in Screen
         /\ Mounted(t, shown).topic = t
         /\ Agrees(Mounted(t, shown), shown)
<1>1. CASE shown = None
  BY <1>1 DEF Mounted, Screen, UnlinkedScreen, Agrees
<1>2. CASE shown # None
  <2>1. shown \in Answer /\ shown.chat \in ChatId
    BY <1>2 DEF Shown, Answer
  <2>2. GroupJoined(t, shown.chat) \in ChatId \cup Topic
    BY <2>1 DEF GroupJoined
  <2>3. Mounted(t, shown) = [topic |-> t, link |-> "starting", group |-> GroupJoined(t, shown.chat)]
    BY <1>2 DEF Mounted
  <2> QED  BY <1>2, <2>2, <2>3 DEF Screen, LinkedScreen, Agrees
<1> QED  BY <1>1, <1>2

\* Every screen has a topic.
LEMMA ScreenTopic == \A s \in Screen : s.topic \in Topic
BY DEF Screen, LinkedScreen, UnlinkedScreen

\* Initially no screen is mounted and nothing is in flight.
LEMMA InitLinks == Init => LinkInv
<1> SUFFICES ASSUME Init PROVE LinkInv
  OBVIOUS
<1>1. screens \in [Client -> Seq(Screen)] /\ \A c \in Client : DOMAIN screens[c] = {}
  BY DEF Init
<1>2. TypeOK
  BY <1>1 DEF Init, TypeOK, Screen
<1>3. LinkedToShown
  BY <1>1 DEF LinkedToShown
<1>4. SendsSaved
  BY DEF Init, SendsSaved
<1> QED  BY <1>2, <1>3, <1>4 DEF LinkInv

\* OpenScreen puts a screen that agrees with the store on top.
LEMMA OpenScreenLinks ==
  ASSUME LinkInv, NEW c \in Client, NEW r \in Request, NEW t \in Topic, OpenScreen(c, r, t)
  PROVE  LinkInv'
<1> DEFINE new == Mounted(t, store[c])
<1>0. TypeOK /\ LinkedToShown /\ SendsSaved
  BY DEF LinkInv
<1>1. screens \in [Client -> Seq(Screen)] /\ store[c] \in Shown /\ screens[c] \in Seq(Screen)
  BY <1>0 DEF TypeOK, Screen, Shown
<1>2. new \in Screen /\ new.topic = t /\ Agrees(new, store[c])
  BY <1>1, MountedAgrees
<1> HIDE DEF new
<1>3. screens' = [screens EXCEPT ![c] = Append(screens[c], new)]
  BY DEF OpenScreen, new
<1>4. /\ screens'[c] = Append(screens[c], new)
      /\ \A d \in Client \ {c} : screens'[d] = screens[d]
  BY <1>1, <1>3
<1>5. /\ screens'[c] \in Seq(Screen)
      /\ DOMAIN screens'[c] = 1 .. Len(screens[c]) + 1
      /\ \A i \in 1 .. Len(screens[c]) : screens'[c][i] = screens[c][i]
      /\ screens'[c][Len(screens[c]) + 1] = new
      /\ DOMAIN screens[c] = 1 .. Len(screens[c]) /\ Len(screens[c]) \in Nat
  BY <1>1, <1>2, <1>4
<1>6. screens' \in [Client -> Seq(Screen)]
  BY <1>1, <1>3, <1>5
<1>7. screens[c] # <<>> => /\ t \in OrderTopic
                           /\ screens[c][Len(screens[c])].topic \in PrivateTopic
  <2> SUFFICES ASSUME screens[c] # <<>>
               PROVE  t \in OrderTopic /\ Last(screens[c]).topic \in PrivateTopic
    BY DEF Last
  <2>1. t \in OrderTopic /\ AcceptedFrom[t] = <<c, Last(screens[c]).topic>>
    BY DEF OpenScreen, CanShow
  <2>2. Len(screens[c]) \in DOMAIN screens[c] /\ Last(screens[c]) \in Screen
    BY <1>1, <1>5 DEF Last
  <2>3. Last(screens[c]).topic \in Topic
    BY <2>2, ScreenTopic
  <2>4. AcceptedFrom[t] # None
    BY <2>1, <2>3, IdentifiersDiffer
  <2>5. AcceptedFrom[t] \in Client \X PrivateTopic
    BY <2>1, <2>4, TopicsAreTyped
  <2> QED  BY <2>1, <2>5
<1>8. \A d \in Client : \A i \in DOMAIN screens'[d] :
        i > 1 => screens'[d][i].topic \in OrderTopic /\ screens'[d][i - 1].topic \in PrivateTopic
  <2> SUFFICES ASSUME NEW d \in Client, NEW i \in DOMAIN screens'[d], i > 1
               PROVE  screens'[d][i].topic \in OrderTopic /\ screens'[d][i - 1].topic \in PrivateTopic
    OBVIOUS
  <2>1. CASE d # c
    BY <2>1, <1>0, <1>4 DEF TypeOK
  <2>2. CASE d = c /\ i \in 1 .. Len(screens[c])
    <3>1. i - 1 \in 1 .. Len(screens[c])
      BY <2>2, <1>5
    <3> QED  BY <2>2, <3>1, <1>0, <1>5 DEF TypeOK
  <2>3. CASE d = c /\ i = Len(screens[c]) + 1
    <3>1. screens[c] # <<>> /\ i - 1 = Len(screens[c]) /\ i - 1 \in 1 .. Len(screens[c])
      BY <2>3, <1>5
    <3> QED  BY <2>3, <3>1, <1>2, <1>5, <1>7
  <2> QED  BY <2>1, <2>2, <2>3, <1>5
<1>9. req' \in [Request -> OpenRequest \cup SendRequest \cup {None}]
  BY <1>0 DEF OpenScreen, TypeOK, OpenRequest
<1>10. TypeOK'
  BY <1>0, <1>6, <1>8, <1>9 DEF OpenScreen, TypeOK, Screen
<1>11. LinkedToShown'
  <2> SUFFICES ASSUME NEW d \in Client, NEW i \in DOMAIN screens'[d]
               PROVE  Agrees(screens'[d][i], store'[d])
    BY DEF LinkedToShown, Agrees, GroupJoined
  <2>1. store' = store
    BY DEF OpenScreen
  <2>2. CASE d # c
    BY <2>1, <2>2, <1>0, <1>4 DEF LinkedToShown
  <2>3. CASE d = c
    BY <2>1, <2>3, <1>0, <1>2, <1>5 DEF LinkedToShown
  <2> QED  BY <2>2, <2>3
<1>12. SendsSaved'
  BY <1>0 DEF OpenScreen, SendsSaved, TypeOK
<1> QED  BY <1>10, <1>11, <1>12 DEF LinkInv

\* Back takes the top screen away and leaves the others as they are.
LEMMA BackLinks ==
  ASSUME LinkInv, NEW c \in Client, Back(c)
  PROVE  LinkInv'
<1>0. TypeOK /\ LinkedToShown /\ SendsSaved
  BY DEF LinkInv
<1>1. screens \in [Client -> Seq(Screen)] /\ screens[c] \in Seq(Screen) /\ screens[c] # <<>>
  BY <1>0 DEF TypeOK, Screen, Back
<1>2. /\ screens' = [screens EXCEPT ![c] = SubSeq(screens[c], 1, Len(screens[c]) - 1)]
      /\ UNCHANGED <<chatRow, message, store, req>>
  BY DEF Back, Front
<1>3. Len(screens[c]) \in Nat \ {0} /\ DOMAIN screens[c] = 1 .. Len(screens[c])
  BY <1>1
<1>4. /\ screens'[c] = SubSeq(screens[c], 1, Len(screens[c]) - 1)
      /\ \A d \in Client \ {c} : screens'[d] = screens[d]
  BY <1>1, <1>2
<1>5. /\ screens'[c] \in Seq(Screen)
      /\ DOMAIN screens'[c] = 1 .. Len(screens[c]) - 1
      /\ \A i \in 1 .. Len(screens[c]) - 1 : screens'[c][i] = screens[c][i]
  BY <1>1, <1>3, <1>4
<1>6. screens' \in [Client -> Seq(Screen)]
  BY <1>1, <1>2, <1>5
<1>7. \A d \in Client : /\ DOMAIN screens'[d] \subseteq DOMAIN screens[d]
                        /\ \A i \in DOMAIN screens'[d] : screens'[d][i] = screens[d][i]
  BY <1>3, <1>4, <1>5
<1>8. \A d \in Client : \A i \in DOMAIN screens'[d] : i > 1 => i - 1 \in DOMAIN screens'[d]
  <2> TAKE d \in Client
  <2>1. screens'[d] \in Seq(Screen)
    BY <1>6
  <2> QED  BY <2>1
<1>9. TypeOK'
  BY <1>0, <1>2, <1>6, <1>7, <1>8 DEF TypeOK, Screen
<1>10. LinkedToShown'
  BY <1>0, <1>2, <1>7 DEF LinkedToShown, Agrees, GroupJoined
<1>11. SendsSaved'
  BY <1>0, <1>2 DEF SendsSaved
<1> QED  BY <1>9, <1>10, <1>11 DEF LinkInv

\* Replacing one screen by another of the same topic that agrees with the store.
LEMMA ReplacedLinks ==
  ASSUME LinkInv, NEW c \in Client, NEW i \in DOMAIN screens[c], NEW s \in Screen,
         s.topic = screens[c][i].topic, Agrees(s, store[c]),
         screens' = [screens EXCEPT ![c][i] = s],
         UNCHANGED <<chatRow, message, store, req>>
  PROVE  LinkInv'
<1>0. TypeOK /\ LinkedToShown /\ SendsSaved
  BY DEF LinkInv
<1>1. screens \in [Client -> Seq(Screen)] /\ screens[c] \in Seq(Screen)
  BY <1>0 DEF TypeOK, Screen
<1>2. /\ screens'[c] = [screens[c] EXCEPT ![i] = s]
      /\ \A d \in Client \ {c} : screens'[d] = screens[d]
  BY <1>1
<1>3. screens'[c] \in Seq(Screen) /\ DOMAIN screens'[c] = DOMAIN screens[c]
  BY <1>1, <1>2
<1>4. screens' \in [Client -> Seq(Screen)]
  BY <1>1, <1>3
<1>5. \A d \in Client :
        /\ DOMAIN screens'[d] = DOMAIN screens[d]
        /\ \A j \in DOMAIN screens[d] : /\ screens'[d][j].topic = screens[d][j].topic
                                        /\ \/ screens'[d][j] = screens[d][j]
                                           \/ d = c /\ screens'[d][j] = s
  BY <1>1, <1>2, <1>3
<1>6. \A d \in Client : \A j \in DOMAIN screens[d] : j > 1 => j - 1 \in DOMAIN screens[d]
  <2> TAKE d \in Client
  <2>1. screens[d] \in Seq(Screen)
    BY <1>1
  <2> QED  BY <2>1
<1>7. TypeOK'
  BY <1>0, <1>4, <1>5, <1>6 DEF TypeOK, Screen
<1>8. LinkedToShown'
  BY <1>0, <1>5 DEF LinkedToShown, Agrees, GroupJoined
<1>9. SendsSaved'
  BY <1>0 DEF SendsSaved
<1> QED  BY <1>7, <1>8, <1>9 DEF LinkInv

\* Joining and losing a link change one screen's connection only.
LEMMA JoinLinks ==
  ASSUME LinkInv, NEW c \in Client, NEW i \in DOMAIN screens[c], Join(c, i) \/ LinkLost(c, i)
  PROVE  LinkInv'
<1>1. screens[c] \in Seq(Screen) /\ screens[c][i] \in Screen
  BY DEF LinkInv, TypeOK, Screen
<1>2. CASE Join(c, i)
  <2> DEFINE s == [screens[c][i] EXCEPT !.link = "joined"]
  <2>1. s \in Screen /\ s.topic = screens[c][i].topic /\ s.group = screens[c][i].group
    BY <1>1, <1>2 DEF Join, Screen, LinkedScreen, UnlinkedScreen
  <2>2. Agrees(screens[c][i], store[c]) /\ screens[c][i].link # "off"
    BY <1>2 DEF LinkInv, LinkedToShown, Join
  <2>3. Agrees(s, store[c])
    BY <2>1, <2>2 DEF Agrees
  <2>4. screens' = [screens EXCEPT ![c][i] = s] /\ UNCHANGED <<chatRow, message, store, req>>
    BY <1>2 DEF Join
  <2> HIDE DEF s
  <2> QED  BY <2>1, <2>3, <2>4, ReplacedLinks
<1>3. CASE LinkLost(c, i)
  <2> DEFINE s == Mounted(screens[c][i].topic, None)
  <2>1. s \in Screen /\ s.topic = screens[c][i].topic /\ s.link = "off"
    BY <1>1, ScreenTopic DEF Mounted, Screen, UnlinkedScreen
  <2>2. Agrees(s, store[c])
    BY <2>1 DEF Agrees
  <2>3. screens' = [screens EXCEPT ![c][i] = s] /\ UNCHANGED <<chatRow, message, store, req>>
    BY <1>3 DEF LinkLost
  <2> HIDE DEF s
  <2> QED  BY <2>1, <2>2, <2>3, ReplacedLinks
<1> QED  BY <1>2, <1>3

\* A step of a fetch before its answer arrives leaves screens and stores alone.
LEMMA GotLinks ==
  ASSUME LinkInv, NEW r \in Request, NEW g \in {Fresh} \cup Answer, Opening(r),
         req' = [req EXCEPT ![r].got = g], chatRow' \in [ChatId -> Topic \cup {Fresh}],
         UNCHANGED <<message, screens, store>>
  PROVE  LinkInv'
<1>0. TypeOK /\ LinkedToShown /\ SendsSaved
  BY DEF LinkInv
<1>1. req[r] \in OpenRequest
  BY <1>0 DEF Opening, TypeOK, SendRequest
<1>2. req'[r] \in OpenRequest /\ \A q \in Request \ {r} : req'[q] = req[q]
  BY <1>0, <1>1 DEF TypeOK, OpenRequest
<1>3. req' \in [Request -> OpenRequest \cup SendRequest \cup {None}]
  BY <1>0, <1>2 DEF TypeOK
<1>4. TypeOK'
  BY <1>0, <1>3 DEF TypeOK
<1>5. LinkedToShown'
  BY <1>0 DEF LinkedToShown, Agrees, GroupJoined
<1>6. SendsSaved'
  BY <1>0, <1>2 DEF SendsSaved, OpenRequest
<1> QED  BY <1>4, <1>5, <1>6 DEF LinkInv

\* Finding a chat, or inserting one.
LEMMA OpenLinks ==
  ASSUME LinkInv, NEW r \in Request, NEW k \in ChatId, OpenFind(r, k) \/ OpenInsert(r, k)
  PROVE  LinkInv'
<1>1. TypeOK /\ Opening(r) /\ UNCHANGED <<message, screens, store>>
  BY DEF LinkInv, OpenFind, OpenInsert
<1>2. req[r].topic \in Topic
  BY <1>1 DEF Opening, TypeOK, OpenRequest, SendRequest
<1>3. CASE OpenFind(r, k)
  <2>1. [chat |-> k, messages |-> History(k)] \in Answer
    BY DEF Answer, History, Saved
  <2>2. /\ req' = [req EXCEPT ![r].got = [chat |-> k, messages |-> History(k)]]
        /\ chatRow' \in [ChatId -> Topic \cup {Fresh}]
    BY <1>1, <1>3 DEF OpenFind, TypeOK
  <2> QED  BY <1>1, <2>1, <2>2, GotLinks
<1>4. CASE OpenInsert(r, k)
  <2>1. [chat |-> k, messages |-> {}] \in Answer
    BY DEF Answer
  <2>2. /\ req' = [req EXCEPT ![r].got = [chat |-> k, messages |-> {}]]
        /\ chatRow' \in [ChatId -> Topic \cup {Fresh}]
    BY <1>1, <1>2, <1>4 DEF OpenInsert, TypeOK
  <2> QED  BY <1>1, <2>1, <2>2, GotLinks
<1> QED  BY <1>3, <1>4

\* Finding none.
LEMMA OpenNoneLinks ==
  ASSUME LinkInv, NEW r \in Request, OpenFindNone(r)
  PROVE  LinkInv'
<1>1. /\ Opening(r) /\ UNCHANGED <<message, screens, store>>
      /\ req' = [req EXCEPT ![r].got = Fresh]
      /\ chatRow' \in [ChatId -> Topic \cup {Fresh}]
  BY DEF OpenFindNone, LinkInv, TypeOK
<1> QED  BY <1>1, GotLinks

\* An answer for another chat than the one shown replaces every connection; one for the same
\* chat leaves them.
LEMMA AnswerLinks ==
  ASSUME LinkInv, NEW r \in Request, AnswerArrives(r)
  PROVE  LinkInv'
<1> DEFINE c == req[r].client
           answer == req[r].got
<1>0. TypeOK /\ LinkedToShown /\ SendsSaved
  BY DEF LinkInv
<1>1. req[r] \in OpenRequest /\ c \in Client /\ answer \in Answer /\ answer # None
  BY <1>0, IdentifiersDiffer
     DEF AnswerArrives, Opening, TypeOK, OpenRequest, SendRequest
<1>2. /\ screens' = [screens EXCEPT ![c] = Relinked(c, answer)]
      /\ store' = [store EXCEPT ![c] = answer]
      /\ req' = [req EXCEPT ![r] = None]
      /\ UNCHANGED <<chatRow, message>>
  BY DEF AnswerArrives
<1> HIDE DEF c, answer
<1>3. screens \in [Client -> Seq(Screen)] /\ screens[c] \in Seq(Screen) /\ store[c] \in Shown
  BY <1>0, <1>1 DEF TypeOK, Screen, Shown
<1>4. /\ Relinked(c, answer) \in Seq(Screen)
      /\ DOMAIN Relinked(c, answer) = DOMAIN screens[c]
      /\ \A i \in DOMAIN screens[c] : /\ Relinked(c, answer)[i].topic = screens[c][i].topic
                                      /\ Agrees(Relinked(c, answer)[i], answer)
  <2>1. CASE store[c] # None /\ store[c].chat = answer.chat
    <3>1. Relinked(c, answer) = screens[c]
      BY <2>1 DEF Relinked
    <3>2. \A i \in DOMAIN screens[c] : Agrees(screens[c][i], store[c])
      BY <1>0, <1>1 DEF LinkedToShown
    <3> QED  BY <2>1, <3>1, <3>2, <1>1, <1>3 DEF Agrees
  <2>2. CASE ~(store[c] # None /\ store[c].chat = answer.chat)
    <3>1. Relinked(c, answer) = [i \in DOMAIN screens[c] |-> Mounted(screens[c][i].topic, answer)]
      BY <2>2 DEF Relinked
    <3>2. \A i \in DOMAIN screens[c] : screens[c][i].topic \in Topic
      BY <1>3, ScreenTopic
    <3>3. answer \in Shown
      BY <1>1 DEF Shown
    <3>4. \A i \in DOMAIN screens[c] :
            LET s == Mounted(screens[c][i].topic, answer)
            IN  s \in Screen /\ s.topic = screens[c][i].topic /\ Agrees(s, answer)
      BY <3>2, <3>3, MountedAgrees
    <3>5. Relinked(c, answer) \in Seq(Screen)
      BY <1>3, <3>1, <3>4
    <3> QED  BY <3>1, <3>4, <3>5
  <2> QED  BY <2>1, <2>2
<1>5. /\ screens'[c] = Relinked(c, answer) /\ store'[c] = answer
      /\ \A d \in Client \ {c} : screens'[d] = screens[d] /\ store'[d] = store[d]
      /\ screens' \in [Client -> Seq(Screen)]
      /\ store' \in [Client -> Answer \cup {None}]
  BY <1>0, <1>1, <1>2, <1>3, <1>4 DEF TypeOK
<1>6. \A d \in Client : \A i \in DOMAIN screens[d] : i > 1 => i - 1 \in DOMAIN screens[d]
  <2> TAKE d \in Client
  <2>1. screens[d] \in Seq(Screen)
    BY <1>3
  <2> QED  BY <2>1
<1>7. \A d \in Client : /\ DOMAIN screens'[d] = DOMAIN screens[d]
                        /\ \A i \in DOMAIN screens[d] : screens'[d][i].topic = screens[d][i].topic
  BY <1>4, <1>5
<1>8. req' \in [Request -> OpenRequest \cup SendRequest \cup {None}]
  BY <1>0, <1>2 DEF TypeOK
<1>9. TypeOK'
  BY <1>0, <1>2, <1>5, <1>6, <1>7, <1>8 DEF TypeOK, Screen
<1>10. LinkedToShown'
  <2> SUFFICES ASSUME NEW d \in Client, NEW i \in DOMAIN screens'[d]
               PROVE  Agrees(screens'[d][i], store'[d])
    BY DEF LinkedToShown, Agrees, GroupJoined
  <2>1. CASE d = c
    BY <2>1, <1>4, <1>5
  <2>2. CASE d # c
    BY <2>2, <1>0, <1>5 DEF LinkedToShown
  <2> QED  BY <2>1, <2>2
<1>11. SendsSaved'
  BY <1>0, <1>2 DEF SendsSaved, TypeOK
<1> QED  BY <1>9, <1>10, <1>11 DEF LinkInv

\* SendMessage inserts a message of the sender's shown chat.
LEMMA SendLinks ==
  ASSUME LinkInv, NEW c \in Client, NEW r \in Request, NEW m \in MessageId, SendMessage(c, r, m)
  PROVE  LinkInv'
<1> DEFINE row == [chat |-> store[c].chat, from |-> c, live |-> FALSE]
<1>0. TypeOK /\ LinkedToShown /\ SendsSaved
  BY DEF LinkInv
<1>1. /\ message' = [message EXCEPT ![m] = row] /\ message[m] = Fresh
      /\ req' = [req EXCEPT ![r] = [op |-> "send", message |-> m]]
      /\ UNCHANGED <<chatRow, screens, store>>
  BY DEF SendMessage
<1>2. store[c] \in Answer
  BY <1>0 DEF SendMessage, TypeOK
<1>3. row \in MessageRow /\ row # Fresh
  <2>1. store[c].chat \in ChatId
    BY <1>2 DEF Answer
  <2>2. row \in MessageRow
    BY <2>1 DEF MessageRow
  <2>3. Fresh \notin MessageRow
    BY IdentifiersDiffer
  <2> HIDE DEF row
  <2> QED  BY <2>2, <2>3
<1> HIDE DEF row
<1>4. message' \in [MessageId -> MessageRow \cup {Fresh}]
  BY <1>0, <1>1, <1>3 DEF TypeOK
<1>5. req' \in [Request -> OpenRequest \cup SendRequest \cup {None}]
  BY <1>0, <1>1 DEF TypeOK, SendRequest
<1>6. TypeOK'
  BY <1>0, <1>1, <1>4, <1>5 DEF TypeOK
<1>7. LinkedToShown'
  BY <1>0, <1>1 DEF LinkedToShown, Agrees, GroupJoined
<1>8. SendsSaved'
  BY <1>0, <1>1, <1>3 DEF SendsSaved, TypeOK
<1> QED  BY <1>6, <1>7, <1>8 DEF LinkInv

\* Drop frees a request slot.
LEMMA DropLinks ==
  ASSUME LinkInv, NEW r \in Request, Drop(r)
  PROVE  LinkInv'
<1>0. TypeOK /\ LinkedToShown /\ SendsSaved
  BY DEF LinkInv
<1>1. TypeOK'
  BY <1>0 DEF TypeOK, Drop
<1>2. LinkedToShown'
  BY <1>0 DEF LinkedToShown, Agrees, GroupJoined, Drop
<1>3. SendsSaved'
  BY <1>0 DEF SendsSaved, TypeOK, Drop
<1> QED  BY <1>1, <1>2, <1>3 DEF LinkInv

\* A screen that hears a chat's broadcasts is a private screen of the chat shown: an order's
\* screen is in a group that no chat names.
LEMMA HearersShow ==
  ASSUME LinkInv, NEW c \in Client, NEW i \in DOMAIN screens[c], NEW k \in ChatId,
         Hears(screens[c][i], k)
  PROVE  store[c] \in Answer /\ store[c].chat = k
<1>1. screens[c] \in Seq(Screen) /\ screens[c][i] \in Screen /\ screens[c][i].topic \in Topic
  BY ScreenTopic DEF LinkInv, TypeOK, Screen
<1>2. /\ screens[c][i].group = k /\ store[c] # None
      /\ k = GroupJoined(screens[c][i].topic, store[c].chat)
  BY DEF Hears, LinkInv, LinkedToShown, Agrees
<1>3. screens[c][i].topic \in PrivateTopic
  BY <1>1, <1>2, IdentifiersDiffer DEF GroupJoined
<1> QED  BY <1>2, <1>3 DEF GroupJoined, LinkInv, TypeOK

\* What Broadcast does, for a message that was saved.
LEMMA BroadcastEffect ==
  ASSUME LinkInv, NEW r \in Request, Broadcast(r)
  PROVE  /\ req[r] \in SendRequest
         /\ message[req[r].message] \in MessageRow
         /\ message' = [message EXCEPT ![req[r].message].live = TRUE]
         /\ req' = [req EXCEPT ![r] = None]
         /\ UNCHANGED <<chatRow, screens>>
         /\ \A c \in Client :
              \/ /\ \E i \in DOMAIN screens[c] : Hears(screens[c][i], message[req[r].message].chat)
                 /\ store[c] \in Answer /\ store[c].chat = message[req[r].message].chat
                 /\ store'[c] = [chat |-> store[c].chat,
                                 messages |-> store[c].messages \cup {req[r].message}]
              \/ /\ ~\E i \in DOMAIN screens[c] : Hears(screens[c][i], message[req[r].message].chat)
                 /\ store'[c] = store[c]
         /\ store' \in [Client -> Answer \cup {None}]
<1> DEFINE m == req[r].message
           k == message[m].chat
<1>0. TypeOK /\ LinkedToShown /\ SendsSaved
  BY DEF LinkInv
<1>1. req[r] \in SendRequest
  BY <1>0 DEF Broadcast, TypeOK, OpenRequest, SendRequest
<1>2. m \in MessageId /\ message[m] \in MessageRow
  BY <1>0, <1>1 DEF SendsSaved, Broadcast, SendRequest, TypeOK
<1>3. k \in ChatId
  BY <1>2 DEF MessageRow
<1>4. /\ message' = [message EXCEPT ![m].live = TRUE]
      /\ req' = [req EXCEPT ![r] = None]
      /\ UNCHANGED <<chatRow, screens>>
      /\ store' = [c \in Client |->
                     IF c \in {d \in Client : \E i \in DOMAIN screens[d] : Hears(screens[d][i], k)}
                     THEN [store[c] EXCEPT !.messages = @ \cup {m}]
                     ELSE store[c]]
  BY DEF Broadcast
<1> HIDE DEF m, k
<1>5. ASSUME NEW c \in Client, \E i \in DOMAIN screens[c] : Hears(screens[c][i], k)
      PROVE  /\ store[c] \in Answer /\ store[c].chat = k
             /\ store'[c] = [chat |-> store[c].chat, messages |-> store[c].messages \cup {m}]
             /\ store'[c] \in Answer
  <2>1. store[c] \in Answer /\ store[c].chat = k
    BY <1>3, <1>5, HearersShow
  <2>2. store'[c] = [store[c] EXCEPT !.messages = store[c].messages \cup {m}]
    BY <1>4, <1>5
  <2> QED  BY <1>2, <2>1, <2>2 DEF Answer
<1>6. ASSUME NEW c \in Client, ~\E i \in DOMAIN screens[c] : Hears(screens[c][i], k)
      PROVE  store'[c] = store[c]
  BY <1>4, <1>6
<1>7. store' \in [Client -> Answer \cup {None}]
  <2>1. \A c \in Client : store'[c] \in Answer \cup {None}
    BY <1>0, <1>5, <1>6 DEF TypeOK
  <2> HIDE DEF LinkInv
  <2> QED  BY <1>4, <2>1
<1> QED  BY <1>1, <1>2, <1>4, <1>5, <1>6, <1>7 DEF m, k

\* Broadcast adds to what is shown, never to which chat is shown.
LEMMA BroadcastLinks ==
  ASSUME LinkInv, NEW r \in Request, Broadcast(r)
  PROVE  LinkInv'
<1> DEFINE m == req[r].message
<1>0. TypeOK /\ LinkedToShown /\ SendsSaved
  BY DEF LinkInv
<1>1. /\ req[r] \in SendRequest /\ message[m] \in MessageRow
      /\ message' = [message EXCEPT ![m].live = TRUE]
      /\ req' = [req EXCEPT ![r] = None]
      /\ UNCHANGED <<chatRow, screens>>
      /\ store' \in [Client -> Answer \cup {None}]
      /\ \A c \in Client : \/ store'[c] = store[c]
                          \/ /\ store[c] \in Answer /\ store'[c].chat = store[c].chat
                             /\ store'[c] = [chat |-> store[c].chat,
                                             messages |-> store[c].messages \cup {m}]
  BY BroadcastEffect
<1>2. m \in MessageId
  BY <1>1 DEF SendRequest
<1> HIDE DEF m
<1>3. /\ message'[m] \in MessageRow /\ message'[m] # Fresh
      /\ \A n \in MessageId \ {m} : message'[n] = message[n]
      /\ message' \in [MessageId -> MessageRow \cup {Fresh}]
  <2>1. message' = [message EXCEPT ![m] = [message[m] EXCEPT !.live = TRUE]]
    BY <1>1
  <2>2. [message[m] EXCEPT !.live = TRUE] \in MessageRow
    BY <1>1 DEF MessageRow
  <2>3. Fresh \notin MessageRow
    BY IdentifiersDiffer
  <2> QED  BY <1>0, <1>2, <2>1, <2>2, <2>3 DEF TypeOK
<1>4. \A c \in Client : store[c] # None => /\ store'[c] # None
                                          /\ store'[c].chat = store[c].chat
  <2> TAKE c \in Client
  <2>1. CASE store'[c] = store[c]
    BY <2>1
  <2>2. CASE store'[c] # store[c]
    <3>1. store'[c].chat = store[c].chat /\ store[c] \in Answer
      BY <1>1, <2>2
    <3>2. store'[c] \in Answer
      BY <1>1, <1>2, <2>2, <3>1 DEF Answer
    <3>3. None \notin Answer
      BY IdentifiersDiffer
    <3> QED  BY <3>1, <3>2, <3>3
  <2> QED  BY <2>1, <2>2
<1>5. TypeOK'
  BY <1>0, <1>1, <1>3 DEF TypeOK
<1>6. LinkedToShown'
  BY <1>0, <1>1, <1>4 DEF LinkedToShown, Agrees, GroupJoined
<1>7. SendsSaved'
  BY <1>0, <1>1, <1>3 DEF SendsSaved, TypeOK, SendRequest, OpenRequest
<1> QED  BY <1>5, <1>6, <1>7 DEF LinkInv

\* Every step keeps the invariant of the links.
LEMMA NextLinks == LinkInv /\ [Next]_vars => LinkInv'
<1> SUFFICES ASSUME LinkInv, [Next]_vars PROVE LinkInv'
  OBVIOUS
<1>1. ASSUME NEW c \in Client, NEW r \in Request, NEW t \in Topic, OpenScreen(c, r, t)
      PROVE  LinkInv'
  BY <1>1, OpenScreenLinks
<1>2. ASSUME NEW c \in Client, Back(c) PROVE LinkInv'
  BY <1>2, BackLinks
<1>3. ASSUME NEW c \in Client, NEW i \in DOMAIN screens[c], Join(c, i) \/ LinkLost(c, i)
      PROVE  LinkInv'
  BY <1>3, JoinLinks
<1>4. ASSUME NEW r \in Request, NEW k \in ChatId, OpenFind(r, k) \/ OpenInsert(r, k)
      PROVE  LinkInv'
  BY <1>4, OpenLinks
<1>5. ASSUME NEW r \in Request, OpenFindNone(r) PROVE LinkInv'
  BY <1>5, OpenNoneLinks
<1>6. ASSUME NEW r \in Request, AnswerArrives(r) PROVE LinkInv'
  BY <1>6, AnswerLinks
<1>7. ASSUME NEW r \in Request, Broadcast(r) PROVE LinkInv'
  BY <1>7, BroadcastLinks
<1>8. ASSUME NEW r \in Request, Drop(r) PROVE LinkInv'
  BY <1>8, DropLinks
<1>9. ASSUME NEW c \in Client, NEW r \in Request, NEW m \in MessageId, SendMessage(c, r, m)
      PROVE  LinkInv'
  BY <1>9, SendLinks
<1>10. CASE UNCHANGED vars
  BY <1>10 DEF vars, LinkInv, TypeOK, LinkedToShown, Agrees, GroupJoined, SendsSaved
<1> QED  BY <1>1, <1>2, <1>3, <1>4, <1>5, <1>6, <1>7, <1>8, <1>9, <1>10 DEF Next

\* The tables, the stacks, the stores and the requests in flight are always well typed, and a
\* stack is at most a private chat with an order's chat above it.
THEOREM ChatTypeCorrect == Spec => []TypeOK
<1>1. Spec => []LinkInv
  BY InitLinks, NextLinks, PTL DEF Spec
<1>2. LinkInv => TypeOK
  BY DEF LinkInv
<1> QED  BY <1>1, <1>2, PTL

-----------------------------------------------------------------------------
(***************************************************************************)
(* Delivery: only Broadcast makes a message live, and a joined private     *)
(* screen of the chat shown hears it.                                      *)
(***************************************************************************)
\* A message that goes live in a step is the one that a Broadcast carries.
LEMMA LiveByBroadcast ==
  ASSUME LinkInv, [Next]_vars, NEW m \in Live' \ Live
  PROVE  \E r \in Request : Broadcast(r) /\ req[r].message = m
<1>1. m \in MessageId /\ message'[m] # Fresh /\ message'[m].live
  BY DEF Live, Saved
<1>2. message # message'
  BY DEF Live, Saved
<1>3. ASSUME NEW c \in Client, NEW r \in Request, NEW n \in MessageId, SendMessage(c, r, n)
      PROVE  FALSE
  <2>1. /\ n = m => message'[m].live = FALSE
        /\ n # m => message'[m] = message[m]
    BY <1>1, <1>3 DEF SendMessage, LinkInv, TypeOK
  <2> QED  BY <1>1, <2>1 DEF Live, Saved
<1>4. \E r \in Request : Broadcast(r)
  BY <1>2, <1>3 DEF Next, vars, OpenScreen, Back, Join, LinkLost, OpenFind, OpenFindNone,
                    OpenInsert, AnswerArrives, Drop
<1>5. PICK r \in Request : Broadcast(r)
  BY <1>4
<1>6. req[r].message # m => message'[m] = message[m]
  BY <1>1, <1>5 DEF Broadcast, LinkInv, TypeOK
<1> QED  BY <1>1, <1>5, <1>6 DEF Live, Saved

\* A broadcast of a private chat reaches every client that watches the chat.
LEMMA NextDelivers == LinkInv /\ [Next]_vars => Delivered(PrivateTopic)
<1> SUFFICES ASSUME LinkInv, [Next]_vars, NEW m \in Live' \ Live, NEW c \in Client,
                    Watching(c, message[m].chat, PrivateTopic)
             PROVE  m \in store'[c].messages
  BY DEF Delivered
<1>1. PICK r \in Request : Broadcast(r) /\ req[r].message = m
  BY LiveByBroadcast
<1>2. PICK i \in DOMAIN screens[c] :
        /\ screens[c][i].topic \in PrivateTopic
        /\ screens[c][i].topic = chatRow[message[m].chat]
        /\ screens[c][i].link = "joined"
  BY DEF Watching
<1>3. screens[c][i].group = message[m].chat
  BY <1>2 DEF Watching, LinkInv, LinkedToShown, Agrees, GroupJoined
<1>4. Hears(screens[c][i], message[m].chat)
  BY <1>2, <1>3 DEF Hears
<1>5. \E j \in DOMAIN screens[c] : Hears(screens[c][j], message[req[r].message].chat)
  BY <1>1, <1>4
<1>6. store'[c] = [chat |-> store[c].chat, messages |-> store[c].messages \cup {req[r].message}]
  BY <1>1, <1>5, BroadcastEffect
<1> QED  BY <1>1, <1>6

\* A message of a private chat reaches, when it is broadcast, every client that shows the chat
\* on a joined private screen.
THEOREM PrivateChatsDeliver == Spec => PrivateDelivery
<1>1. Spec => []LinkInv
  BY InitLinks, NextLinks, PTL DEF Spec
<1>2. LinkInv /\ [Next]_vars => [Delivered(PrivateTopic)]_vars
  BY NextDelivers
<1> QED  BY <1>1, <1>2, PTL DEF Spec, PrivateDelivery

-----------------------------------------------------------------------------
(***************************************************************************)
(* What is shown, and to whom.                                             *)
(***************************************************************************)
\* A client's store holds saved messages of the chat it shows, which is one of its topics.
StoreRight(c) ==
  store[c] # None => /\ chatRow[store[c].chat] \in Topic
                     /\ c \in Members[chatRow[store[c].chat]]
                     /\ store[c].messages \subseteq History(store[c].chat)

\* So will it when an answer in flight arrives.
GotRight(r) ==
  Opening(r) =>
    /\ req[r].got # None => req[r].client \in Members[req[r].topic]
    /\ req[r].got \in Answer => /\ chatRow[req[r].got.chat] = req[r].topic
                                /\ req[r].got.messages \subseteq History(req[r].got.chat)

ShownInv ==
  /\ LinkInv
  /\ \A c \in Client : StoreRight(c)
  /\ \A r \in Request : GotRight(r)

\* Rows of chats do not change and messages stay in their chats.
TablesKept ==
  /\ \A k \in ChatId : chatRow[k] # Fresh => chatRow'[k] = chatRow[k]
  /\ \A k \in ChatId : History(k) \subseteq History(k)'

\* No step takes a chat row or a message away.
LEMMA NextKeepsTables ==
  ASSUME LinkInv, [Next]_vars
  PROVE  TablesKept
<1>1. CASE UNCHANGED <<chatRow, message>>
  BY <1>1 DEF TablesKept, History, Saved
<1>2. ASSUME NEW r \in Request, NEW k \in ChatId, OpenInsert(r, k) PROVE TablesKept
  BY <1>2 DEF OpenInsert, TablesKept, History, Saved, LinkInv, TypeOK
<1>3. ASSUME NEW c \in Client, NEW r \in Request, NEW m \in MessageId, SendMessage(c, r, m)
      PROVE  TablesKept
  <2>1. /\ chatRow' = chatRow /\ message[m] = Fresh
        /\ \A n \in MessageId \ {m} : message'[n] = message[n]
    BY <1>3 DEF SendMessage, LinkInv, TypeOK
  <2> QED  BY <2>1 DEF TablesKept, History, Saved
<1>4. ASSUME NEW r \in Request, Broadcast(r) PROVE TablesKept
  <2> DEFINE m == req[r].message
  <2>1. /\ m \in MessageId /\ message[m] \in MessageRow /\ chatRow' = chatRow
        /\ message' = [message EXCEPT ![m].live = TRUE]
    BY <1>4, BroadcastEffect DEF SendRequest
  <2> HIDE DEF m
  <2>2. /\ message'[m] = [message[m] EXCEPT !.live = TRUE]
        /\ \A n \in MessageId \ {m} : message'[n] = message[n]
    BY <2>1 DEF LinkInv, TypeOK
  <2>3. message'[m] \in MessageRow /\ message'[m].chat = message[m].chat
    <3>1. [message[m] EXCEPT !.live = TRUE] \in MessageRow
      BY <2>1 DEF MessageRow
    <3>2. [message[m] EXCEPT !.live = TRUE].chat = message[m].chat
      BY <2>1 DEF MessageRow
    <3> QED  BY <2>2, <3>1, <3>2
  <2>4. message'[m] # Fresh
    BY <2>3, IdentifiersDiffer
  <2> QED  BY <2>1, <2>2, <2>3, <2>4 DEF TablesKept, History, Saved
<1> QED  BY <1>1, <1>2, <1>3, <1>4
         DEF Next, vars, OpenScreen, Back, Join, LinkLost, OpenFind, OpenFindNone, AnswerArrives, Drop

\* A store, or a call, that a step leaves alone stays right.
LEMMA KeptRight ==
  ASSUME ShownInv, TablesKept
  PROVE  /\ \A c \in Client : store'[c] = store[c] => StoreRight(c)'
         /\ \A r \in Request : req'[r] = req[r] => GotRight(r)'
<1>1. ASSUME NEW c \in Client, store'[c] = store[c] PROVE StoreRight(c)'
  <2>1. CASE store[c] = None
    BY <1>1, <2>1 DEF StoreRight
  <2>2. CASE store[c] # None
    <3>1. store[c].chat \in ChatId
      BY <2>2 DEF ShownInv, LinkInv, TypeOK, Answer
    <3>2. StoreRight(c) /\ chatRow[store[c].chat] # Fresh
      BY <2>2, IdentifiersDiffer DEF ShownInv, StoreRight
    <3> QED  BY <1>1, <2>2, <3>1, <3>2 DEF StoreRight, TablesKept
  <2> QED  BY <2>1, <2>2
<1>2. ASSUME NEW r \in Request, req'[r] = req[r] PROVE GotRight(r)'
  <2> SUFFICES ASSUME Opening(r), req[r].got \in Answer
               PROVE  /\ chatRow'[req[r].got.chat] = req[r].topic
                      /\ req[r].got.messages \subseteq History(req[r].got.chat)'
    BY <1>2 DEF GotRight, Opening, ShownInv
  <2>1. req[r].got.chat \in ChatId /\ req[r].topic \in Topic
    BY DEF Answer, Opening, ShownInv, LinkInv, TypeOK, OpenRequest, SendRequest
  <2>2. PICK k \in ChatId : k = req[r].got.chat
    BY <2>1
  <2>3. chatRow[k] = req[r].topic /\ req[r].got.messages \subseteq History(k)
    BY <2>2 DEF ShownInv, GotRight
  <2>4. chatRow'[k] = chatRow[k] /\ History(k) \subseteq History(k)'
    BY <2>1, <2>3, IdentifiersDiffer DEF TablesKept
  <2>5. req'[r].got.chat = k
    BY <1>2, <2>2
  <2>6. History(req[r].got.chat)' = History(k)'
    BY <2>5 DEF History
  <2> QED  BY <1>2, <2>2, <2>3, <2>4, <2>6
<1> QED  BY <1>1, <1>2

\* Initially nothing is shown.
LEMMA InitShown == Init => ShownInv
BY InitLinks DEF Init, ShownInv, StoreRight, GotRight, Opening

\* The store changes when an answer arrives, which was right, and when a broadcast is heard,
\* which is of the chat shown; an answer is right when it is read and when it is inserted.
LEMMA NextShown == ShownInv /\ [Next]_vars => ShownInv'
<1> SUFFICES ASSUME ShownInv, [Next]_vars PROVE ShownInv'
  OBVIOUS
<1>1. LinkInv /\ LinkInv' /\ TypeOK /\ TablesKept
  BY NextLinks, NextKeepsTables DEF ShownInv, LinkInv
<1>2. \A c \in Client : StoreRight(c)'
  <2> TAKE c \in Client
  <2>1. CASE store'[c] = store[c]
    BY <2>1, <1>1, KeptRight
  <2>2. ASSUME NEW r \in Request, AnswerArrives(r), store'[c] # store[c] PROVE StoreRight(c)'
    <3>1. /\ Opening(r) /\ req[r] \in OpenRequest /\ req[r].got \in Answer /\ req[r].got # None
      BY <2>2, <1>1 DEF AnswerArrives, Opening, TypeOK, OpenRequest, SendRequest
    <3>2. /\ req[r].client = c /\ store'[c] = req[r].got /\ UNCHANGED <<chatRow, message>>
      BY <2>2, <1>1 DEF AnswerArrives, TypeOK
    <3>3. PICK k \in ChatId : k = req[r].got.chat
      BY <3>1 DEF Answer
    <3>4. /\ chatRow[k] = req[r].topic /\ c \in Members[chatRow[k]]
          /\ req[r].got.messages \subseteq History(k)
      BY <3>1, <3>2, <3>3 DEF ShownInv, GotRight
    <3>5. req[r].topic \in Topic
      BY <3>1 DEF OpenRequest
    <3>6. History(store[c].chat)' = History(k)
      BY <3>2, <3>3 DEF History, Saved
    <3> QED  BY <3>2, <3>3, <3>4, <3>5, <3>6 DEF StoreRight
  <2>3. ASSUME NEW r \in Request, Broadcast(r), store'[c] # store[c] PROVE StoreRight(c)'
    <3>1. PICK m \in MessageId : m = req[r].message /\ message[m] \in MessageRow
      BY <2>3, <1>1, BroadcastEffect DEF SendRequest
    <3>2. /\ store[c] \in Answer /\ store[c].chat = message[m].chat
          /\ store'[c] = [chat |-> store[c].chat, messages |-> store[c].messages \cup {m}]
          /\ chatRow' = chatRow
      BY <2>3, <3>1, <1>1, BroadcastEffect
    <3>3. PICK k \in ChatId : k = store[c].chat
      BY <3>2 DEF Answer
    <3>4. m \in History(k)
      BY <3>1, <3>2, <3>3, IdentifiersDiffer DEF History, Saved
    <3>5. /\ chatRow[k] \in Topic /\ c \in Members[chatRow[k]]
          /\ store[c].messages \subseteq History(k)
      BY <3>2, <3>3, IdentifiersDiffer DEF ShownInv, StoreRight
    <3>6. History(k) \subseteq History(k)'
      BY <1>1 DEF TablesKept
    <3>7. store'[c].chat = k /\ store'[c].messages = store[c].messages \cup {m}
      BY <3>2, <3>3
    <3>8. History(store[c].chat)' = History(k)'
      BY <3>7 DEF History
    <3> QED  BY <3>2, <3>4, <3>5, <3>6, <3>7, <3>8 DEF StoreRight
  <2> QED  BY <2>1, <2>2, <2>3
           DEF Next, vars, OpenScreen, Back, Join, LinkLost, OpenFind, OpenFindNone, OpenInsert,
               SendMessage, Drop
<1>3. \A r \in Request : GotRight(r)'
  <2> TAKE r \in Request
  <2>1. CASE req'[r] = req[r]
    BY <2>1, <1>1, KeptRight
  <2>2. ASSUME NEW k \in ChatId, OpenFind(r, k) PROVE GotRight(r)'
    <3>1. /\ req[r] \in OpenRequest /\ UNCHANGED <<chatRow, message>>
          /\ req'[r] = [req[r] EXCEPT !.got = [chat |-> k, messages |-> History(k)]]
      BY <2>2, <1>1 DEF OpenFind, Opening, TypeOK, OpenRequest, SendRequest
    <3>2. /\ req'[r].got = [chat |-> k, messages |-> History(k)]
          /\ req'[r].client = req[r].client /\ req'[r].topic = req[r].topic
      BY <3>1 DEF OpenRequest
    <3>3. chatRow[k] = req[r].topic /\ req[r].client \in Members[req[r].topic]
      BY <2>2 DEF OpenFind, Rows, MayOpen
    <3>4. History(req[r].got.chat)' = History(k)
      BY <3>1, <3>2 DEF History, Saved
    <3> QED  BY <3>1, <3>2, <3>3, <3>4 DEF GotRight
  <2>3. CASE OpenFindNone(r)
    <3>1. req[r] \in OpenRequest /\ req'[r] = [req[r] EXCEPT !.got = Fresh]
      BY <2>3, <1>1 DEF OpenFindNone, Opening, TypeOK, OpenRequest, SendRequest
    <3>2. /\ req'[r].got = Fresh
          /\ req'[r].client = req[r].client /\ req'[r].topic = req[r].topic
      BY <3>1 DEF OpenRequest
    <3>3. req[r].client \in Members[req[r].topic]
      BY <2>3 DEF OpenFindNone, MayOpen
    <3> QED  BY <3>2, <3>3, IdentifiersDiffer DEF GotRight
  <2>4. ASSUME NEW k \in ChatId, OpenInsert(r, k) PROVE GotRight(r)'
    <3>1. /\ Opening(r) /\ req[r] \in OpenRequest /\ req[r].got = Fresh /\ message' = message
          /\ req'[r] = [req[r] EXCEPT !.got = [chat |-> k, messages |-> {}]]
          /\ chatRow'[k] = req[r].topic
      BY <2>4, <1>1 DEF OpenInsert, Opening, TypeOK, OpenRequest, SendRequest
    <3>2. /\ req'[r].got = [chat |-> k, messages |-> {}]
          /\ req'[r].client = req[r].client /\ req'[r].topic = req[r].topic
      BY <3>1 DEF OpenRequest
    <3>3. req[r].client \in Members[req[r].topic]
      BY <3>1, IdentifiersDiffer DEF ShownInv, GotRight
    <3> QED  BY <3>1, <3>2, <3>3 DEF GotRight
  <2>5. ASSUME NEW c \in Client, NEW t \in Topic, OpenScreen(c, r, t) PROVE GotRight(r)'
    <3>1. req'[r].got = None
      BY <2>5, <1>1 DEF OpenScreen, TypeOK
    <3> QED  BY <3>1, IdentifiersDiffer DEF GotRight
  <2>6. CASE ~Opening(r)'
    BY <2>6 DEF GotRight
  <2>7. ASSUME NEW q \in Request, q # r,
               \/ \E k \in ChatId : OpenFind(q, k) \/ OpenInsert(q, k)
               \/ OpenFindNone(q)
               \/ \E c \in Client, t \in Topic : OpenScreen(c, q, t)
        PROVE  GotRight(r)'
    <3>1. req'[r] = req[r]
      BY <2>7, <1>1 DEF OpenFind, OpenInsert, OpenFindNone, OpenScreen, TypeOK
    <3> QED  BY <3>1, <2>1
  <2>8. ASSUME NEW q \in Request, AnswerArrives(q) \/ Broadcast(q) \/ Drop(q)
                                   \/ \E c \in Client, m \in MessageId : SendMessage(c, q, m)
        PROVE  GotRight(r)'
    <3>1. CASE q # r
      <4>1. req'[r] = req[r]
        BY <2>8, <3>1, <1>1 DEF AnswerArrives, Broadcast, Drop, SendMessage, TypeOK
      <4> QED  BY <4>1, <2>1
    <3>2. CASE q = r
      <4>1. ~Opening(r)'
        BY <2>8, <3>2, <1>1 DEF AnswerArrives, Broadcast, Drop, SendMessage, TypeOK, Opening
      <4> QED  BY <4>1, <2>6
    <3> QED  BY <3>1, <3>2
  <2>9. CASE UNCHANGED req
    BY <2>9, <2>1
  <2> QED  BY <2>2, <2>3, <2>4, <2>5, <2>7, <2>8, <2>9 DEF Next, vars, Back, Join, LinkLost
<1> QED  BY <1>1, <1>2, <1>3 DEF ShownInv

\* What a client shows under a chat are saved messages of that chat.
THEOREM OnlyOwnMessagesShown == Spec => []ShownInChat
<1>1. Spec => []ShownInv
  BY InitShown, NextShown, PTL DEF Spec
<1>2. ShownInv => ShownInChat
  BY DEF ShownInv, StoreRight, ShownInChat
<1> QED  BY <1>1, <1>2, PTL

\* Nobody is shown a chat of an order or a pair he is not part of.
THEOREM ChatsStayPrivate == Spec => []OnlyMembersSee
<1>1. Spec => []ShownInv
  BY InitShown, NextShown, PTL DEF Spec
<1>2. ShownInv => OnlyMembersSee
  BY DEF ShownInv, StoreRight, OnlyMembersSee
<1> QED  BY <1>1, <1>2, PTL
=============================================================================
