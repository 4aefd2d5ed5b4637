------------------------------ MODULE Notices -------------------------------
(***************************************************************************)
(* The notifications screen of one account and the rows it is about.       *)
(* The list is the screen's own state; marking and deleting change it only *)
(* when the server has answered, several requests at a time and in any     *)
(* order, and the screen may be gone by then.                              *)
(***************************************************************************)
CONSTANTS
  Notice,  \* identifiers of notifications, bounds their number
  Call,    \* the screen's requests that can be in flight at the same time
  None     \* null: no row, no list, a free call, no answer

VARIABLES
  row,     \* the account's rows of Notifications: whether each is read
  sent,    \* history: the identifiers used so far; they are Guids, used once
  list,    \* the screen's notifications, the same way; None: the screen is not mounted
  spins,   \* the screen's loading
  calls    \* requests in flight

vars == <<row, sent, list, spins, calls>>

Rows == [Notice -> BOOLEAN \cup {None}]
\* found: what MarkAsRead or Delete has loaded; mine: the screen that asked is still mounted.
Request == [op : {"fetch", "read", "delete"}, of : Notice \cup {None}, found : BOOLEAN \cup {None},
            mine : BOOLEAN, reply : {"ok", "failed", None}, rows : Rows \cup {None}]

\* Assumed of the constants: null is none of the values it stands beside.
NoticesAssumption ==
  /\ None \notin Notice /\ None \notin BOOLEAN /\ None \notin {"ok", "failed"}
  /\ None \notin Rows /\ None \notin Request

Init ==
  /\ row = [n \in Notice |-> None]
  /\ sent = {}
  /\ list = None /\ spins = FALSE
  /\ calls = [c \in Call |-> None]

\* SendNotificationAsync; the e-mail that follows is left out.
SendNotification(n) ==
  /\ n \notin sent
  /\ sent' = sent \cup {n}
  /\ row' = [row EXCEPT ![n] = FALSE]
  /\ UNCHANGED <<list, spins, calls>>

\* Any free slot will do.
Asks(c, op, n) ==
  /\ calls[c] = None /\ c = CHOOSE free \in Call : calls[free] = None
  /\ calls' = [calls EXCEPT ![c] = [op |-> op, of |-> n, found |-> None, mine |-> TRUE,
                                   reply |-> None, rows |-> None]]

NoticesScreen(c) ==
  /\ list = None
  /\ Asks(c, "fetch", None)
  /\ list' = [n \in Notice |-> None] /\ spins' = TRUE
  /\ UNCHANGED <<row, sent>>

Showing(n) == IF list = None THEN None ELSE list[n]

\* The list is hidden while the screen loads.
Press(c, op, n) ==
  /\ ~spins /\ Showing(n) # None
  /\ op \in {"read", "delete"}
  /\ Asks(c, op, n)
  /\ UNCHANGED <<row, sent, list, spins>>

\* Mutant: the loading state outlives the screen, as in a slice of the store.
LeaveLoading ==
  /\ list # None
  /\ list' = None
  /\ calls' = [c \in Call |-> IF calls[c] = None THEN None ELSE [calls[c] EXCEPT !.mine = FALSE]]
  /\ UNCHANGED <<row, sent, spins>>

\* setNotifications of an unmounted screen does nothing.
Leave ==
  /\ list # None
  /\ list' = None /\ spins' = FALSE
  /\ calls' = [c \in Call |-> IF calls[c] = None THEN None ELSE [calls[c] EXCEPT !.mine = FALSE]]
  /\ UNCHANGED <<row, sent>>

Unanswered(c, ops) == calls[c] # None /\ calls[c].op \in ops /\ calls[c].reply = None
Replied(c, reply) == calls' = [calls EXCEPT ![c].reply = reply]

ServeList(c) ==
  /\ Unanswered(c, {"fetch"})
  /\ calls' = [calls EXCEPT ![c].reply = "ok", ![c].rows = row]
  /\ UNCHANGED <<row, sent, list, spins>>

\* A row that is not there is not an error.
Find(c) ==
  /\ Unanswered(c, {"read", "delete"}) /\ calls[c].found = None
  /\ calls' = [calls EXCEPT ![c] = IF row[calls[c].of] = None THEN [@ EXCEPT !.reply = "ok"]
                                    ELSE [@ EXCEPT !.found = row[calls[c].of]]]
  /\ UNCHANGED <<row, sent, list, spins>>

\* Marking a row that was read when it was loaded writes nothing; otherwise a row deleted
\* since makes the save throw.
Save(c) ==
  /\ Unanswered(c, {"read", "delete"}) /\ calls[c].found # None
  /\ row[calls[c].of] # None \/ (calls[c].op = "read" /\ calls[c].found)
  /\ row' = IF calls[c].op = "delete" THEN [row EXCEPT ![calls[c].of] = None]
            ELSE IF row[calls[c].of] = None THEN row ELSE [row EXCEPT ![calls[c].of] = TRUE]
  /\ Replied(c, "ok")
  /\ UNCHANGED <<sent, list, spins>>

\* An exception, or the request or its answer lost.
Fail(c) ==
  /\ calls[c] # None /\ calls[c].reply # "failed"
  /\ Replied(c, "failed")
  /\ UNCHANGED <<row, sent, list, spins>>

Settling(c, ops) ==
  /\ calls[c] # None /\ calls[c].op \in ops /\ calls[c].reply # None
  /\ calls' = [calls EXCEPT ![c] = None]
  /\ UNCHANGED <<row, sent>>

ListArrived(c) ==
  /\ Settling(c, {"fetch"})
  /\ list' = IF calls[c].mine /\ calls[c].reply = "ok" THEN calls[c].rows ELSE list
  /\ spins' = (spins /\ ~calls[c].mine)

\* Mutant: a failure is handled like an answer.
AnsweredAnyway(c) ==
  /\ Settling(c, {"read", "delete"})
  /\ list' = IF ~calls[c].mine \/ Showing(calls[c].of) = None THEN list
             ELSE [list EXCEPT ![calls[c].of] = IF calls[c].op = "read" THEN TRUE ELSE None]
  /\ UNCHANGED spins

Answered(c) ==
  /\ Settling(c, {"read", "delete"})
  /\ list' = IF ~calls[c].mine \/ calls[c].reply # "ok" \/ Showing(calls[c].of) = None THEN list
             ELSE [list EXCEPT ![calls[c].of] = IF calls[c].op = "read" THEN TRUE ELSE None]
  /\ UNCHANGED spins

Serve(c) == ServeList(c) \/ Find(c) \/ Save(c) \/ Fail(c)
Settle(c) == ListArrived(c) \/ Answered(c)
Resolve(c) == Serve(c) \/ Settle(c)

Next ==
  \/ \E n \in Notice : SendNotification(n)
  \/ Leave
  \/ \E c \in Call : NoticesScreen(c) \/ Resolve(c)
  \/ \E c \in Call, n \in Notice, op \in {"read", "delete"} : Press(c, op, n)

\* Requests end, by their failure at the latest, and their handlers go on.
Fairness == \A c \in Call : WF_vars(Resolve(c))

Spec == Init /\ [][Next]_vars /\ Fairness

-----------------------------------------------------------------------------
(***************************************************************************)
(* Properties                                                              *)
(***************************************************************************)
\* Type correctness of the rows, the screen and the requests; no spinner without a screen.
NoticesTypeOK ==
  /\ row \in Rows /\ sent \subseteq Notice
  /\ list \in Rows \cup {None}
  /\ spins \in BOOLEAN /\ (list = None => ~spins)
  /\ calls \in [Call -> Request \cup {None}]

\* What the screen shows as read is read, or deleted meanwhile, in the database.
ShownReadIsRead == \A n \in Notice : Showing(n) = TRUE => row[n] \in {TRUE, None}

\* Only a notification that the database no longer has leaves the screen's list.
GoneIsDeleted ==
  [][list # None /\ list' # None =>
       \A n \in Notice : list[n] # None /\ list'[n] = None => row[n] = None]_vars
=============================================================================
