----------------------------- MODULE Favourites -----------------------------
(***************************************************************************)
(* The favourites screen of one account: the Favorites table, the toggle   *)
(* that looks for the row before it saves, and the list the screen keeps.  *)
(* The only buttons that toggle are the hearts of the list itself; pressed *)
(* twice, the second toggle puts the favourite back.                       *)
(***************************************************************************)
CONSTANTS
  Service, \* services that can be favourites
  Call,    \* the client's calls that can be in flight at the same time
  None     \* null: a free call, a service not asked about, a row not looked for, no answer

VARIABLES
  row,      \* the account's rows of Favorites, by service
  items,    \* state.favorites.items
  fetching, \* state.favorites.loading
  calls,    \* fetches and toggles in flight
  crossed   \* history: since the last fetch sent alone, calls overlapped or one failed

vars == <<row, items, fetching, calls, crossed>>

Answers == [ok : BOOLEAN, items : SUBSET Service]
Toggling == [of : Service \cup {None}, found : BOOLEAN \cup {None}, reply : Answers \cup {None}]

\* Assumed of the constants: null is none of the values it stands beside.
FavouritesAssumption ==
  None \notin Service /\ None \notin BOOLEAN /\ None \notin Answers /\ None \notin Toggling

Init ==
  /\ row \in SUBSET Service
  /\ items = {} /\ fetching = FALSE
  /\ calls = [c \in Call |-> None]
  /\ crossed = TRUE

Busy == {c \in Call : calls[c] # None}

(***************************************************************************)
(* The screen; any free slot will do for a call                            *)
(***************************************************************************)
Sent(c, of) == /\ calls[c] = None /\ c = CHOOSE free \in Call : calls[free] = None
               /\ calls' = [calls EXCEPT ![c] = [of |-> of, found |-> None, reply |-> None]]

\* The screen is mounted.
Mount(c) ==
  /\ Sent(c, None)
  /\ fetching' = TRUE
  /\ crossed' = (Busy # {})
  /\ UNCHANGED <<row, items>>

\* The hearts of the items shown, whatever else is in flight; the search only hides items.
PressHeart(c, s) ==
  /\ s \in items
  /\ Sent(c, s)
  /\ crossed' = (crossed \/ Busy # {})
  /\ UNCHANGED <<row, items, fetching>>

(***************************************************************************)
(* The server                                                              *)
(***************************************************************************)
Unanswered(c) == calls[c] # None /\ calls[c].reply = None
Replied(c, ok, shown) == calls' = [calls EXCEPT ![c].reply = [ok |-> ok, items |-> shown]]

GetFavorites(c) ==
  /\ Unanswered(c) /\ calls[c].of = None
  /\ Replied(c, TRUE, row)
  /\ UNCHANGED <<row, items, fetching, crossed>>

ToggleFind(c) ==
  /\ Unanswered(c) /\ calls[c].of # None /\ calls[c].found = None
  /\ calls' = [calls EXCEPT ![c].found = calls[c].of \in row]
  /\ UNCHANGED <<row, items, fetching, crossed>>

\* Deleting a row that is gone, or inserting one that is there (the index is unique), throws.
\* The answer names the service if it is a favourite now.
ToggleSave(c) ==
  /\ Unanswered(c) /\ calls[c].found # None
  /\ calls[c].found = (calls[c].of \in row)
  /\ row' = IF calls[c].found THEN row \ {calls[c].of} ELSE row \cup {calls[c].of}
  /\ Replied(c, TRUE, row' \cap {calls[c].of})
  /\ UNCHANGED <<items, fetching, crossed>>

\* An exception, or the request or its answer lost.
Fail(c) ==
  /\ calls[c] # None
  /\ calls[c].reply # None => calls[c].reply.ok
  /\ Replied(c, FALSE, {})
  /\ UNCHANGED <<row, items, fetching, crossed>>

(***************************************************************************)
(* The reducers                                                            *)
(***************************************************************************)
Settling(c, ok) ==
  /\ calls[c] # None /\ calls[c].reply # None /\ calls[c].reply.ok = ok
  /\ calls' = [calls EXCEPT ![c] = None]
  /\ UNCHANGED row

\* Mutant: the answer's row is stored as the one item.
FavoritesUnpacked(c) ==
  /\ Settling(c, TRUE) /\ calls[c].of = None
  /\ items' = {calls[c].reply.items} /\ fetching' = FALSE
  /\ UNCHANGED crossed

FavoritesArrived(c) ==
  /\ Settling(c, TRUE) /\ calls[c].of = None
  /\ items' = calls[c].reply.items /\ fetching' = FALSE
  /\ UNCHANGED crossed

\* Mutant: the test of isFavorite is the wrong way round.
ToggledWrongly(c) ==
  /\ Settling(c, TRUE) /\ calls[c].of # None
  /\ items' = IF calls[c].reply.items = {} THEN items ELSE items \ {calls[c].of}
  /\ UNCHANGED <<fetching, crossed>>

\* Nothing is added to the list when the toggle made a favourite.
Toggled(c) ==
  /\ Settling(c, TRUE) /\ calls[c].of # None
  /\ items' = IF calls[c].reply.items = {} THEN items \ {calls[c].of} ELSE items
  /\ UNCHANGED <<fetching, crossed>>

Refused(c) ==
  /\ Settling(c, FALSE)
  /\ fetching' = (fetching /\ calls[c].of # None)
  /\ crossed' = TRUE
  /\ UNCHANGED items

Serve(c) == GetFavorites(c) \/ ToggleFind(c) \/ ToggleSave(c) \/ Fail(c)
Settle(c) == FavoritesArrived(c) \/ Toggled(c) \/ Refused(c)
Resolve(c) == Serve(c) \/ Settle(c)

Next == \E c \in Call : Mount(c) \/ (\E s \in Service : PressHeart(c, s)) \/ Resolve(c)

\* Requests end, by their failure at the latest, and their reducers run.
Fairness == \A c \in Call : WF_vars(Resolve(c))

Spec == Init /\ [][Next]_vars /\ Fairness

-----------------------------------------------------------------------------
(***************************************************************************)
(* Properties                                                              *)
(***************************************************************************)
\* Type correctness of the table, the slice and the calls.
FavouritesTypeOK ==
  /\ row \subseteq Service /\ items \subseteq Service
  /\ fetching \in BOOLEAN /\ crossed \in BOOLEAN
  /\ calls \in [Call -> Toggling \cup {None}]

\* When nothing is in flight the list shows the favourites there are, unless since the last
\* fetch calls overlapped or one failed: then a press that put a favourite back, or an answer
\* read before it, leaves the list wrong until the screen is mounted again.
ListAgrees == Busy = {} /\ ~crossed => items = row
=============================================================================
