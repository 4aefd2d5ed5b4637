---------------------------- MODULE NoticesProofs ----------------------------
(***************************************************************************)
(* The inductive invariant of the notifications screen.  A row goes only    *)
(* one way, from unread to read to deleted, so whatever the screen or a     *)
(* request saw of it is where it is or where it has been.                  *)
(***************************************************************************)
EXTENDS Notices, TLAPS

\* With these rows and identifiers used, n was sent and its row is not behind state s: None
\* deleted, TRUE read, FALSE unread.
Past(rows, used, n, s) ==
  /\ n \in used
  /\ s = TRUE => rows[n] \in {TRUE, None}
  /\ s = None => rows[n] = None

\* Only a notification that was sent has a row.
RowsSent == \A n \in Notice : row[n] # None => n \in sent

\* What the screen shows is or was there.
ListPast == list # None => \A n \in Notice : list[n] # None => Past(row, sent, n, list[n])

\* What a fetch brought back may be behind the rows.
FetchPast(q) ==
  q.op = "fetch" /\ q.reply = "ok" =>
    /\ q.rows \in Rows
    /\ \A n \in Notice : q.rows[n] # None => Past(row, sent, n, q.rows[n])

\* A request to mark or delete is about a notification that was shown, and what it loaded or
\* was told is or was so.
ChangePast(q) ==
  q.op # "fetch" =>
    /\ q.of \in Notice /\ q.of \in sent
    /\ q.found # None => Past(row, sent, q.of, q.found)
    /\ q.reply = "ok" => Past(row, sent, q.of, IF q.op = "read" THEN TRUE ELSE None)

CallsPast == \A c \in Call : calls[c] # None => FetchPast(calls[c]) /\ ChangePast(calls[c])

\* Without a screen no request is the screen's; the list is empty while the screen's fetch is in
\* flight, and the screen fetches once.
OneScreenFetch ==
  \A c \in Call : calls[c] # None /\ calls[c].mine =>
    /\ list # None
    /\ calls[c].op = "fetch" =>
         /\ \A n \in Notice : list[n] = None
         /\ \A d \in Call : calls[d] # None /\ calls[d].mine /\ calls[d].op = "fetch" => d = c

NoticesInv == NoticesTypeOK /\ RowsSent /\ ListPast /\ CallsPast /\ OneScreenFetch

LEMMA InitNotices == NoticesAssumption /\ Init => NoticesInv
BY DEF NoticesAssumption, Init, NoticesInv, NoticesTypeOK, RowsSent, ListPast, CallsPast,
       OneScreenFetch, Rows

\* The steps of one request, and what it is then.
LEMMA ServedCall ==
  ASSUME NoticesTypeOK, NEW c \in Call, Serve(c)
  PROVE  calls[c] \in Request /\ calls[c] # None /\ UNCHANGED <<sent, list, spins>>
BY DEF NoticesTypeOK, Serve, ServeList, Find, Save, Fail, Unanswered

LEMMA SettledCall ==
  ASSUME NoticesTypeOK, NEW c \in Call, Settle(c)
  PROVE  /\ calls[c] \in Request /\ calls[c] # None
         /\ calls' = [calls EXCEPT ![c] = None]
         /\ UNCHANGED <<row, sent>>
BY DEF NoticesTypeOK, Settle, ListArrived, Answered, Settling

\* The row a request saves: marked, or deleted, or as it was.
LEMMA SavedRow ==
  ASSUME NoticesInv, NEW c \in Call, Save(c)
  PROVE  /\ calls[c].of \in Notice /\ calls[c].op \in {"read", "delete"}
         /\ row' \in Rows
         /\ \A n \in Notice : n # calls[c].of => row'[n] = row[n]
         /\ row[calls[c].of] = None => row'[calls[c].of] = None
         /\ calls[c].op = "delete" => row'[calls[c].of] = None
         /\ calls[c].op = "read" => row'[calls[c].of] \in {TRUE, None}
<1>1. calls[c] # None /\ calls[c].op \in {"read", "delete"} /\ row \in Rows
  BY DEF Save, Unanswered, NoticesInv, NoticesTypeOK
<1>2. calls[c].of \in Notice
  BY <1>1 DEF NoticesInv, CallsPast, ChangePast
<1>3. CASE calls[c].op = "delete"
  BY <1>1, <1>2, <1>3 DEF Save, Rows
<1>4. CASE calls[c].op = "read" /\ row[calls[c].of] = None
  BY <1>1, <1>2, <1>4 DEF Save, Rows
<1>5. CASE calls[c].op = "read" /\ row[calls[c].of] # None
  BY <1>1, <1>2, <1>5 DEF Save, Rows
<1>6. QED
  BY <1>1, <1>2, <1>3, <1>4, <1>5

\* What is or was so stays so: a row is never unread again, and never back.
LEMMA PastStays ==
  ASSUME NoticesInv, [Next]_vars, NEW n \in Notice, NEW s, Past(row, sent, n, s)
  PROVE  Past(row', sent', n, s)
<1>1. ASSUME NEW m \in Notice, SendNotification(m)
      PROVE  Past(row', sent', n, s)
  BY <1>1 DEF SendNotification, Past, NoticesInv, NoticesTypeOK, Rows
<1>2. ASSUME NEW c \in Call, Save(c)
      PROVE  Past(row', sent', n, s)
  <2>1. sent' = sent
    BY <1>2 DEF Save
  <2>2. CASE n = calls[c].of
    BY <1>2, <2>1, <2>2, SavedRow DEF Past
  <2>3. CASE n # calls[c].of
    BY <1>2, <2>1, <2>3, SavedRow DEF Past
  <2>4. QED
    BY <2>2, <2>3
<1>3. CASE UNCHANGED <<row, sent>>
  BY <1>3 DEF Past
<1>4. QED
  BY <1>1, <1>2, <1>3
  DEF Next, Leave, NoticesScreen, Resolve, Serve, ServeList, Find, Fail, Settle, ListArrived,
      Answered, Settling, Press, vars

\* A request that is sent takes a free slot, and the others stay.
LEMMA AskedCall ==
  ASSUME NoticesAssumption, NoticesTypeOK, NEW c \in Call, NEW op \in {"fetch", "read", "delete"},
         NEW n \in Notice \cup {None}, Asks(c, op, n)
  PROVE  /\ calls[c] = None /\ calls'[c] # None
         /\ calls'[c] = [op |-> op, of |-> n, found |-> None, mine |-> TRUE,
                         reply |-> None, rows |-> None]
         /\ \A d \in Call : d # c => calls'[d] = calls[d]
         /\ calls' \in [Call -> Request \cup {None}]
<1> DEFINE asked == [op |-> op, of |-> n, found |-> None, mine |-> TRUE,
                     reply |-> None, rows |-> None]
<1>1. asked \in Request
  BY DEF Request
<1>2. calls[c] = None /\ calls' = [calls EXCEPT ![c] = asked]
  BY DEF Asks
<1> HIDE DEF asked
<1>3. /\ calls'[c] = asked /\ \A d \in Call : d # c => calls'[d] = calls[d]
      /\ calls' \in [Call -> Request \cup {None}]
  BY <1>1, <1>2 DEF NoticesTypeOK
<1>4. asked # None
  BY <1>1 DEF NoticesAssumption
<1>5. QED
  BY <1>2, <1>3, <1>4 DEF asked

\* How the server's steps leave a request: a list of the rows as they are, a row found, a change
\* saved, or a failure.
LEMMA ServedSteps ==
  ASSUME NoticesAssumption, NoticesInv, NEW c \in Call, Serve(c)
  PROVE  /\ \A d \in Call : d # c => calls'[d] = calls[d]
         /\ calls' \in [Call -> Request \cup {None}] /\ calls'[c] # None
         /\ calls'[c].op = calls[c].op /\ calls'[c].of = calls[c].of
         /\ calls'[c].mine = calls[c].mine
         /\ \/ calls'[c].op = "fetch" /\ calls'[c].rows = row /\ row' = row
            \/ /\ calls'[c].op # "fetch" /\ row' = row
               /\ \/ /\ calls'[c].reply = calls[c].reply
                     /\ calls'[c].found = row[calls[c].of] /\ row[calls[c].of] # None
                  \/ /\ calls'[c].found = calls[c].found
                     /\ calls'[c].reply = "ok" /\ row[calls[c].of] = None
            \/ Save(c) /\ calls'[c].found = calls[c].found
            \/ calls'[c].reply = "failed" /\ calls'[c].found = calls[c].found
<1>1. calls[c] \in Request /\ calls[c] # None /\ calls \in [Call -> Request \cup {None}]
  BY ServedCall DEF NoticesInv, NoticesTypeOK
<1>2. row \in Rows
  BY DEF NoticesInv, NoticesTypeOK
<1>3. CASE ServeList(c)
  <2>1. calls' = [calls EXCEPT ![c].reply = "ok", ![c].rows = row] /\ row' = row
    BY <1>3 DEF ServeList
  <2>2. calls'[c] = [calls[c] EXCEPT !.reply = "ok", !.rows = row]
        /\ \A d \in Call : d # c => calls'[d] = calls[d]
    BY <1>1, <2>1
  <2>3. calls'[c] \in Request
    BY <1>1, <1>2, <2>2 DEF Request
  <2>4. calls[c].op = "fetch"
    BY <1>3 DEF ServeList, Unanswered
  <2>5. /\ calls'[c].op = calls[c].op /\ calls'[c].of = calls[c].of
        /\ calls'[c].mine = calls[c].mine /\ calls'[c].rows = row
    BY <1>1, <2>2 DEF Request
  <2>6. calls' \in [Call -> Request \cup {None}] /\ calls'[c] # None
    BY <1>1, <2>1, <2>2, <2>3 DEF NoticesAssumption
  <2>7. QED
    BY <2>1, <2>2, <2>4, <2>5, <2>6
<1>4. CASE Find(c)
  <2>1. /\ calls[c].op \in {"read", "delete"} /\ calls[c].of \in Notice /\ row' = row
        /\ calls[c].op # "fetch"
    BY <1>1, <1>4 DEF Find, Unanswered, NoticesInv, CallsPast, ChangePast
  <2>2. CASE row[calls[c].of] = None
    <3>1. calls' = [calls EXCEPT ![c].reply = "ok"]
      BY <1>1, <1>4, <2>2 DEF Find
    <3>2. calls'[c] = [calls[c] EXCEPT !.reply = "ok"]
      BY <1>1, <3>1
    <3>3. calls'[c] \in Request
      BY <1>1, <3>2 DEF Request
    <3>4. QED
      BY <1>1, <2>1, <2>2, <3>1, <3>2, <3>3 DEF NoticesAssumption, Request
  <2>3. CASE row[calls[c].of] # None
    <3>1. calls' = [calls EXCEPT ![c].found = row[calls[c].of]]
      BY <1>1, <1>4, <2>3 DEF Find
    <3>2. calls'[c] = [calls[c] EXCEPT !.found = row[calls[c].of]]
      BY <1>1, <3>1
    <3>3. calls'[c] \in Request
      BY <1>1, <1>2, <2>1, <3>2 DEF Request, Rows
    <3>4. QED
      BY <1>1, <2>1, <2>3, <3>1, <3>2, <3>3 DEF NoticesAssumption, Request
  <2>4. QED
    BY <2>2, <2>3
<1>5. ASSUME NEW reply \in {"ok", "failed"}, Replied(c, reply)
      PROVE  /\ \A d \in Call : d # c => calls'[d] = calls[d]
             /\ calls' \in [Call -> Request \cup {None}] /\ calls'[c] # None
             /\ calls'[c].op = calls[c].op /\ calls'[c].of = calls[c].of
             /\ calls'[c].mine = calls[c].mine /\ calls'[c].found = calls[c].found
             /\ calls'[c].reply = reply
  <2>1. calls' = [calls EXCEPT ![c].reply = reply]
    BY <1>5 DEF Replied
  <2>2. calls'[c] = [calls[c] EXCEPT !.reply = reply]
    BY <1>1, <2>1
  <2>3. calls'[c] \in Request
    BY <1>1, <2>2 DEF Request
  <2>4. QED
    BY <1>1, <2>1, <2>2, <2>3 DEF NoticesAssumption, Request
<1>6. CASE Save(c)
  BY <1>5, <1>6 DEF Save
<1>7. CASE Fail(c)
  BY <1>5, <1>7 DEF Fail
<1>8. QED
  BY <1>3, <1>4, <1>6, <1>7 DEF Serve

\* A screen that is left makes its requests nobody's.
LEMMA LeftCalls ==
  ASSUME NoticesAssumption, NoticesTypeOK, Leave, NEW d \in Call
  PROVE  /\ calls'[d] = None <=> calls[d] = None
         /\ calls'[d] \in Request \cup {None}
         /\ calls'[d] # None =>
              /\ ~calls'[d].mine /\ calls'[d].op = calls[d].op /\ calls'[d].of = calls[d].of
              /\ calls'[d].found = calls[d].found /\ calls'[d].reply = calls[d].reply
              /\ calls'[d].rows = calls[d].rows
<1>1. calls'[d] = IF calls[d] = None THEN None ELSE [calls[d] EXCEPT !.mine = FALSE]
  BY DEF Leave
<1>2. CASE calls[d] = None
  BY <1>1, <1>2
<1>3. CASE calls[d] # None
  <2>1. calls[d] \in Request
    BY <1>3 DEF NoticesTypeOK
  <2>2. calls'[d] \in Request
    BY <1>1, <1>3, <2>1 DEF Request
  <2>3. QED
    BY <1>1, <1>3, <2>1, <2>2 DEF Request, NoticesAssumption
<1>4. QED
  BY <1>2, <1>3

LEMMA NextNoticesTyped ==
  ASSUME NoticesAssumption, NoticesInv, [Next]_vars
  PROVE  NoticesTypeOK' /\ RowsSent'
<1> USE DEF NoticesTypeOK, RowsSent
<1>0. NoticesTypeOK /\ RowsSent
  BY DEF NoticesInv
<1>1. ASSUME NEW n \in Notice, SendNotification(n)
      PROVE  NoticesTypeOK' /\ RowsSent'
  BY <1>0, <1>1 DEF SendNotification, Rows
<1>2. CASE Leave
  <2>1. calls' \in [Call -> Request \cup {None}]
    BY <1>0, <1>2, LeftCalls DEF Leave
  <2>2. QED
    BY <1>0, <1>2, <2>1 DEF Leave
<1>3. ASSUME NEW c \in Call, NoticesScreen(c)
      PROVE  NoticesTypeOK' /\ RowsSent'
  <2>1. calls' \in [Call -> Request \cup {None}]
    BY <1>0, <1>3, AskedCall DEF NoticesScreen
  <2>2. list' \in Rows /\ list' # None
    BY <1>3 DEF NoticesScreen, Rows, NoticesAssumption
  <2>3. QED
    BY <1>0, <1>3, <2>1, <2>2 DEF NoticesScreen
<1>4. ASSUME NEW c \in Call, NEW n \in Notice, NEW op \in {"read", "delete"}, Press(c, op, n)
      PROVE  NoticesTypeOK' /\ RowsSent'
  <2>1. calls' \in [Call -> Request \cup {None}]
    BY <1>0, <1>4, AskedCall DEF Press
  <2>2. QED
    BY <1>0, <1>4, <2>1 DEF Press
<1>5. ASSUME NEW c \in Call, Serve(c)
      PROVE  NoticesTypeOK' /\ RowsSent'
  <2>1. calls' \in [Call -> Request \cup {None}] /\ UNCHANGED <<sent, list, spins>>
    BY <1>0, <1>5, ServedSteps, ServedCall
  <2>2. CASE Save(c)
    <3>1. row' \in Rows /\ \A n \in Notice : row'[n] # None => n \in sent
      BY <1>0, <2>2, SavedRow DEF NoticesInv, CallsPast, ChangePast, Save, Unanswered
    <3>2. QED
      BY <1>0, <2>1, <3>1
  <2>3. CASE row' = row
    BY <1>0, <2>1, <2>3
  <2>4. QED
    BY <1>5, <2>2, <2>3 DEF Serve, ServeList, Find, Fail
<1>6. ASSUME NEW c \in Call, Settle(c)
      PROVE  NoticesTypeOK' /\ RowsSent'
  <2>1. calls[c] # None /\ FetchPast(calls[c]) /\ ChangePast(calls[c])
    BY <1>0, <1>6, SettledCall DEF NoticesInv, CallsPast
  <2>2. /\ calls' \in [Call -> Request \cup {None}] /\ UNCHANGED <<row, sent>>
    BY <1>0, <1>6, SettledCall
  <2>3. CASE ListArrived(c)
    <3>1. list' = list \/ list' \in Rows
      BY <2>1, <2>3 DEF ListArrived, Settling, FetchPast
    <3>2. spins' \in BOOLEAN /\ (spins' => spins /\ ~calls[c].mine)
      BY <1>0, <2>3 DEF ListArrived
    <3>3. ~calls[c].mine => list' = list
      BY <2>3 DEF ListArrived
    <3>4. QED
      BY <1>0, <2>2, <3>1, <3>2, <3>3
  <2>4. CASE Answered(c)
    <3>1. list' = list \/ (list' \in Rows /\ list # None /\ list' # None)
      BY <1>0, <2>1, <2>4 DEF Answered, Settling, ChangePast, Showing, Rows, NoticesAssumption
    <3>2. spins' = spins
      BY <2>4 DEF Answered
    <3>3. QED
      BY <1>0, <2>2, <3>1, <3>2
  <2>5. QED
    BY <1>6, <2>3, <2>4 DEF Settle
<1>7. CASE UNCHANGED vars
  BY <1>0, <1>7 DEF vars
<1>8. QED
  BY <1>1, <1>2, <1>3, <1>4, <1>5, <1>6, <1>7 DEF Next, Resolve

\* What the screen shows is or was so.
LEMMA NextListPast ==
  ASSUME NoticesAssumption, NoticesInv, [Next]_vars
  PROVE  ListPast'
<1> SUFFICES ASSUME NEW n \in Notice, list' # None, list'[n] # None
             PROVE  Past(row', sent', n, list'[n])
  BY DEF ListPast
<1>1. CASE list' = list
  BY <1>1, PastStays DEF NoticesInv, ListPast
<1>2. CASE list' = [m \in Notice |-> None]
  BY <1>2
<1>3. ASSUME NEW c \in Call, ListArrived(c), list' = calls[c].rows, calls[c].reply = "ok"
      PROVE  Past(row', sent', n, list'[n])
  BY <1>3, PastStays DEF NoticesInv, CallsPast, FetchPast, ListArrived, Settling
<1>4. ASSUME NEW c \in Call, Answered(c), calls[c].reply = "ok", Showing(calls[c].of) # None,
             list' = [list EXCEPT ![calls[c].of] = IF calls[c].op = "read" THEN TRUE ELSE None]
      PROVE  Past(row', sent', n, list'[n])
  <2>1. /\ calls[c].of \in Notice /\ list # None /\ list \in Rows
        /\ Past(row, sent, calls[c].of, IF calls[c].op = "read" THEN TRUE ELSE None)
    BY <1>4 DEF Answered, Settling, NoticesInv, NoticesTypeOK, CallsPast, ChangePast, Showing
  <2>2. CASE n = calls[c].of
    BY <1>4, <2>1, <2>2, PastStays DEF Rows
  <2>3. CASE n # calls[c].of
    BY <1>4, <2>1, <2>3, PastStays DEF Rows, NoticesInv, ListPast
  <2>4. QED
    BY <2>2, <2>3
<1>5. QED
  BY <1>1, <1>2, <1>3, <1>4
  DEF Next, SendNotification, Leave, NoticesScreen, Resolve, Serve, ServeList, Find, Save, Fail,
      Settle, ListArrived, Answered, Press, vars

\* What the requests saw is or was so.
LEMMA NextCallsPast ==
  ASSUME NoticesAssumption, NoticesInv, [Next]_vars
  PROVE  CallsPast'
<1>0. NoticesTypeOK
  BY DEF NoticesInv
<1> SUFFICES ASSUME NEW d \in Call, calls'[d] # None
             PROVE  FetchPast(calls[d])' /\ ChangePast(calls[d])'
  BY DEF CallsPast
<1>1. CASE /\ calls[d] # None
           /\ calls'[d].op = calls[d].op /\ calls'[d].of = calls[d].of
           /\ calls'[d].found = calls[d].found /\ calls'[d].reply = calls[d].reply
           /\ calls'[d].rows = calls[d].rows
  <2>1. FetchPast(calls[d]) /\ ChangePast(calls[d])
    BY <1>1 DEF NoticesInv, CallsPast
  <2>2. FetchPast(calls[d])'
    BY <1>1, <2>1, PastStays DEF FetchPast
  <2>3. calls[d].op # "fetch" => calls[d].of \in sent'
    BY <2>1, PastStays DEF ChangePast, Past
  <2>4. ChangePast(calls[d])'
    BY <1>1, <2>1, <2>3, PastStays DEF ChangePast
  <2>5. QED
    BY <2>2, <2>4
<1>2. ASSUME NEW op \in {"fetch", "read", "delete"}, NEW n \in Notice \cup {None}, Asks(d, op, n),
             op # "fetch" => n \in Notice /\ n \in sent, sent' = sent
      PROVE  FetchPast(calls[d])' /\ ChangePast(calls[d])'
  <2>1. calls'[d] = [op |-> op, of |-> n, found |-> None, mine |-> TRUE,
                     reply |-> None, rows |-> None]
    BY <1>0, <1>2, AskedCall
  <2>2. /\ calls'[d].op = op /\ calls'[d].of = n
        /\ calls'[d].found = None /\ calls'[d].reply = None
    BY <2>1
  <2>3. None # "ok"
    BY DEF NoticesAssumption
  <2>4. QED
    BY <1>2, <2>2, <2>3 DEF FetchPast, ChangePast
<1>3. CASE Serve(d)
  <2>1. calls[d] # None /\ FetchPast(calls[d]) /\ ChangePast(calls[d]) /\ sent' = sent
    BY <1>0, <1>3, ServedCall DEF NoticesInv, CallsPast
  <2>2. calls'[d].op = calls[d].op /\ calls'[d].of = calls[d].of
    BY <1>3, ServedSteps
  <2>3. CASE calls'[d].op = "fetch" /\ calls'[d].rows = row /\ row' = row
    <3>1. \A n \in Notice : row[n] # None => Past(row, sent, n, row[n])
      BY DEF Past, NoticesInv, RowsSent
    <3>2. \A n \in Notice : row[n] # None => Past(row', sent', n, row[n])
      BY <3>1, PastStays
    <3>3. QED
      BY <1>0, <2>3, <3>2 DEF FetchPast, ChangePast, NoticesTypeOK
  <2>4. ASSUME calls'[d].op # "fetch", row' = row
        PROVE  \A s : Past(row', sent', calls[d].of, s) <=> Past(row, sent, calls[d].of, s)
    BY <2>1, <2>4
  <2>5. CASE /\ calls'[d].op # "fetch" /\ row' = row /\ calls'[d].reply = calls[d].reply
             /\ calls'[d].found = row[calls[d].of] /\ row[calls[d].of] # None
    BY <2>1, <2>2, <2>5 DEF FetchPast, ChangePast, Past
  <2>6. CASE /\ calls'[d].op # "fetch" /\ row' = row /\ calls'[d].found = calls[d].found
             /\ calls'[d].reply = "ok" /\ row[calls[d].of] = None
    BY <2>1, <2>2, <2>6 DEF FetchPast, ChangePast, Past
  <2>7. CASE Save(d) /\ calls'[d].found = calls[d].found
    <3>1. calls[d].op \in {"read", "delete"} /\ calls[d].of \in Notice /\ calls[d].of \in sent
      BY <2>1, <2>7, SavedRow DEF ChangePast
    <3>2. Past(row', sent', calls[d].of, IF calls[d].op = "read" THEN TRUE ELSE None)
      BY <2>1, <2>7, <3>1, SavedRow DEF Past
    <3>3. calls[d].found # None => Past(row', sent', calls[d].of, calls[d].found)
      BY <2>1, <3>1, PastStays DEF ChangePast
    <3>4. QED
      BY <2>1, <2>2, <2>7, <3>1, <3>2, <3>3 DEF FetchPast, ChangePast
  <2>8. CASE calls'[d].reply = "failed" /\ calls'[d].found = calls[d].found
    <3>1. calls[d].op # "fetch" /\ calls[d].found # None => Past(row', sent', calls[d].of, calls[d].found)
      BY <2>1, PastStays DEF ChangePast
    <3>2. QED
      BY <2>1, <2>2, <2>8, <3>1 DEF FetchPast, ChangePast
  <2>9. QED
    BY <1>3, <2>3, <2>5, <2>6, <2>7, <2>8, ServedSteps
<1>4. CASE calls'[d] = calls[d]
  BY <1>1, <1>4
<1>5. CASE Leave
  BY <1>0, <1>1, <1>5, LeftCalls
<1>6. ASSUME NEW c \in Call, Settle(c)
      PROVE  calls'[d] = calls[d]
  BY <1>0, <1>6, SettledCall DEF NoticesTypeOK
<1>7. ASSUME NEW c \in Call, NoticesScreen(c)
      PROVE  FetchPast(calls[d])' /\ ChangePast(calls[d])'
  BY <1>0, <1>2, <1>4, <1>7, AskedCall DEF NoticesScreen
<1>8. ASSUME NEW c \in Call, NEW n \in Notice, NEW op \in {"read", "delete"}, Press(c, op, n)
      PROVE  FetchPast(calls[d])' /\ ChangePast(calls[d])'
  <2>1. n \in sent /\ Asks(c, op, n) /\ sent' = sent
    BY <1>8 DEF Press, Showing, NoticesInv, ListPast, Past
  <2>2. CASE c = d
    BY <1>2, <2>1, <2>2
  <2>3. CASE c # d
    BY <1>0, <1>4, <2>1, <2>3, AskedCall
  <2>4. QED
    BY <2>2, <2>3
<1>9. ASSUME NEW c \in Call, Serve(c), c # d
      PROVE  calls'[d] = calls[d]
  BY <1>9, ServedSteps
<1>10. QED
  BY <1>3, <1>4, <1>5, <1>6, <1>7, <1>8, <1>9 DEF Next, Resolve, SendNotification, vars

\* The screen fetches once, into an empty list.
LEMMA NextOneScreenFetch ==
  ASSUME NoticesAssumption, NoticesInv, [Next]_vars
  PROVE  OneScreenFetch'
<1>0. NoticesTypeOK /\ OneScreenFetch
  BY DEF NoticesInv
<1>1. ASSUME list' = list,
             \A d \in Call : calls'[d] # None /\ calls'[d].mine =>
               /\ calls[d] # None /\ calls[d].mine
               /\ calls'[d].op = calls[d].op
      PROVE  OneScreenFetch'
  BY <1>0, <1>1 DEF OneScreenFetch
<1>2. ASSUME \A d \in Call : calls'[d] # None => ~calls'[d].mine
      PROVE  OneScreenFetch'
  BY <1>2 DEF OneScreenFetch
<1>3. CASE UNCHANGED <<list, calls>>
  BY <1>1, <1>3
<1>4. CASE Leave
  BY <1>0, <1>2, <1>4, LeftCalls
<1>5. ASSUME NEW c \in Call, NoticesScreen(c)
      PROVE  OneScreenFetch'
  <2>1. /\ list = None /\ list' = [n \in Notice |-> None] /\ list' # None
        /\ Asks(c, "fetch", None)
    BY <1>5 DEF NoticesScreen, NoticesAssumption, Rows
  <2>2. \A d \in Call : d # c /\ calls'[d] # None => ~calls'[d].mine
    BY <1>0, <2>1, AskedCall DEF OneScreenFetch
  <2>3. QED
    BY <2>1, <2>2 DEF OneScreenFetch
<1>6. ASSUME NEW c \in Call, NEW n \in Notice, NEW op \in {"read", "delete"}, Press(c, op, n)
      PROVE  OneScreenFetch'
  <2>1. list # None /\ list[n] # None /\ list' = list /\ Asks(c, op, n)
    BY <1>6 DEF Press, Showing
  <2>2. calls'[c].op # "fetch" /\ \A d \in Call : d # c => calls'[d] = calls[d]
    <3>1. /\ calls'[c] = [op |-> op, of |-> n, found |-> None, mine |-> TRUE,
                         reply |-> None, rows |-> None]
          /\ \A d \in Call : d # c => calls'[d] = calls[d]
      BY <1>0, <2>1, AskedCall
    <3>2. QED
      BY <3>1
  <2>3. \A d \in Call : calls[d] # None /\ calls[d].mine => calls[d].op # "fetch"
    BY <1>0, <2>1 DEF OneScreenFetch
  <2>4. QED
    BY <2>1, <2>2, <2>3 DEF OneScreenFetch
<1>7. ASSUME NEW c \in Call, Serve(c)
      PROVE  OneScreenFetch'
  <2>1. /\ list' = list /\ calls[c] # None
        /\ \A d \in Call : d # c => calls'[d] = calls[d]
        /\ calls'[c].op = calls[c].op /\ calls'[c].mine = calls[c].mine
    BY <1>0, <1>7, ServedCall, ServedSteps
  <2>2. QED
    BY <1>1, <2>1
<1>8. ASSUME NEW c \in Call, Settle(c)
      PROVE  OneScreenFetch'
  <2>1. /\ calls[c] # None /\ calls'[c] = None
        /\ \A d \in Call : d # c => calls'[d] = calls[d]
    BY <1>0, <1>8, SettledCall DEF NoticesTypeOK
  <2>2. CASE list' = list
    BY <1>1, <2>1, <2>2
  <2>3. CASE ListArrived(c) /\ list' # list
    <3>1. calls[c].op = "fetch" /\ calls[c].mine /\ list' = calls[c].rows /\ calls[c].reply = "ok"
      BY <2>3 DEF ListArrived, Settling
    <3>2. list' # None
      BY <2>1, <3>1 DEF NoticesInv, CallsPast, FetchPast, NoticesAssumption
    <3>3. \A d \in Call : calls'[d] # None /\ calls'[d].mine => calls'[d].op # "fetch"
      BY <1>0, <2>1, <3>1 DEF OneScreenFetch
    <3>4. QED
      BY <3>2, <3>3 DEF OneScreenFetch
  <2>4. CASE Answered(c) /\ list' # list
    <3>1. /\ calls[c].of \in Notice /\ list \in Rows /\ list # None /\ list[calls[c].of] # None
          /\ list' = [list EXCEPT ![calls[c].of] = IF calls[c].op = "read" THEN TRUE ELSE None]
      BY <1>0, <2>1, <2>4
      DEF Answered, Settling, NoticesInv, CallsPast, ChangePast, Showing, NoticesTypeOK
    <3>2. list' \in Rows
      BY <3>1 DEF Rows
    <3>3. \A d \in Call : calls[d] # None /\ calls[d].mine => calls[d].op # "fetch"
      BY <1>0, <3>1 DEF OneScreenFetch
    <3>4. QED
      BY <2>1, <3>2, <3>3 DEF OneScreenFetch, NoticesAssumption
  <2>5. QED
    BY <1>8, <2>2, <2>3, <2>4 DEF Settle
<1>9. QED
  BY <1>3, <1>4, <1>5, <1>6, <1>7, <1>8 DEF Next, Resolve, SendNotification, vars

LEMMA NextNotices == NoticesAssumption /\ NoticesInv /\ [Next]_vars => NoticesInv'
BY NextNoticesTyped, NextListPast, NextCallsPast, NextOneScreenFetch DEF NoticesInv

\* What the screen shows as read was read.
LEMMA ShownReadFromInv == NoticesAssumption /\ NoticesInv => ShownReadIsRead
<1> SUFFICES ASSUME NoticesAssumption, NoticesInv, NEW n \in Notice, Showing(n) = TRUE
             PROVE  row[n] \in {TRUE, None}
  BY DEF ShownReadIsRead
<1>1. list[n] = TRUE /\ list # None /\ list[n] # None
  BY DEF Showing, NoticesAssumption
<1>2. QED
  BY <1>1 DEF NoticesInv, ListPast, Past

\* Only an answered deletion takes a notification off the list.
LEMMA GoneStep ==
  ASSUME NoticesAssumption, NoticesInv, [Next]_vars, list # None, list' # None,
         NEW n \in Notice, list[n] # None, list'[n] = None
  PROVE  row[n] = None
<1>1. CASE list' = list
  BY <1>1
<1>2. ASSUME NEW c \in Call, ListArrived(c), list' # list
      PROVE  FALSE
  <2>1. calls[c] # None /\ calls[c].op = "fetch" /\ calls[c].mine
    BY <1>2 DEF ListArrived, Settling
  <2>2. QED
    BY <2>1 DEF NoticesInv, OneScreenFetch
<1>3. ASSUME NEW c \in Call, Answered(c), list' # list
      PROVE  row[n] = None
  <2>1. /\ calls[c].of \in Notice /\ list \in Rows /\ calls[c].op \in {"read", "delete"}
        /\ list' = [list EXCEPT ![calls[c].of] = IF calls[c].op = "read" THEN TRUE ELSE None]
        /\ Past(row, sent, calls[c].of, IF calls[c].op = "read" THEN TRUE ELSE None)
    BY <1>3 DEF Answered, Settling, NoticesInv, NoticesTypeOK, CallsPast, ChangePast
  <2>2. n = calls[c].of /\ calls[c].op = "delete"
    BY <2>1 DEF Rows, NoticesAssumption
  <2>3. QED
    BY <2>1, <2>2 DEF Past
<1>4. QED
  BY <1>1, <1>2, <1>3
  DEF Next, SendNotification, Leave, NoticesScreen, Resolve, Serve, ServeList, Find, Save, Fail,
      Settle, Press, vars
=============================================================================
