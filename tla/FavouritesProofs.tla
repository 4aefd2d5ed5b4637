--------------------------- MODULE FavouritesProofs ---------------------------
(***************************************************************************)
(* The inductive invariant of the favourites screen: what the one call in  *)
(* flight has seen of the table, as long as calls did not overlap.         *)
(***************************************************************************)
EXTENDS Favourites, TLAPS

\* One call of those in flight, and what the list and the table are to it: a fetch that was
\* answered brought the table as it is; a toggle was pressed on an item of a list that agrees
\* with the table, so it removes the row, and the list is behind by that one service.
Follows(q) ==
  /\ q.of = None /\ q.reply # None /\ q.reply.ok => q.reply.items = row
  /\ q.of # None /\ q.reply = None => items = row /\ q.of \in row
  /\ q.of # None /\ q.reply # None /\ q.reply.ok =>
       q.reply.items = {} /\ row = items \ {q.of}

OneCall == \A c, d \in Call : calls[c] # None /\ calls[d] # None => c = d

\* Only a toggle looks for a row.
TogglesFind == \A c \in Call : calls[c] # None /\ calls[c].found # None => calls[c].of # None

FavouritesInv ==
  /\ FavouritesTypeOK /\ TogglesFind
  /\ ListAgrees
  /\ ~crossed => OneCall /\ \A c \in Call : calls[c] # None => Follows(calls[c])

\* A call that is sent takes a free slot, and the others stay.
LEMMA SentCall ==
  ASSUME FavouritesTypeOK, FavouritesAssumption, NEW c \in Call, NEW of \in Service \cup {None},
         Sent(c, of)
  PROVE  /\ calls[c] = None
         /\ calls' = [calls EXCEPT ![c] = [of |-> of, found |-> None, reply |-> None]]
         /\ calls' \in [Call -> Toggling \cup {None}]
         /\ calls'[c] # None
BY DEF Sent, FavouritesTypeOK, FavouritesAssumption, Toggling

\* A call that is answered keeps what it asked, and the others stay.
LEMMA AnsweredCall ==
  ASSUME FavouritesTypeOK, FavouritesAssumption, NEW c \in Call, calls[c] # None,
         NEW ok \in BOOLEAN, NEW shown \in SUBSET Service, Replied(c, ok, shown)
  PROVE  /\ calls'[c].of = calls[c].of /\ calls'[c].found = calls[c].found
         /\ calls'[c].reply # None /\ calls'[c].reply.ok = ok /\ calls'[c].reply.items = shown
         /\ calls'[c] \in Toggling
         /\ \A d \in Call : d # c => calls'[d] = calls[d]
         /\ calls' \in [Call -> Toggling \cup {None}]
<1> DEFINE ans == [ok |-> ok, items |-> shown]
<1>1. ans \in Answers /\ ans # None
  BY DEF Answers, FavouritesAssumption
<1>2. calls[c] \in Toggling /\ calls' = [calls EXCEPT ![c].reply = ans]
  BY DEF FavouritesTypeOK, Replied
<1>3. ans.ok = ok /\ ans.items = shown
  OBVIOUS
<1> HIDE DEF ans
<1>4. /\ calls'[c] \in Toggling /\ calls'[c].reply = ans
      /\ calls'[c].of = calls[c].of /\ calls'[c].found = calls[c].found
  BY <1>1, <1>2 DEF FavouritesTypeOK, Toggling
<1>5. \A d \in Call : d # c => calls'[d] = calls[d]
  BY <1>2 DEF FavouritesTypeOK
<1>6. calls' \in [Call -> Toggling \cup {None}]
  BY <1>2, <1>4, <1>5 DEF FavouritesTypeOK
<1>7. QED
  BY <1>1, <1>3, <1>4, <1>5, <1>6

\* A toggle that looked for its row found it or not.
LEMMA FoundCall ==
  ASSUME FavouritesTypeOK, FavouritesAssumption, NEW c \in Call, ToggleFind(c)
  PROVE  /\ calls'[c].of = calls[c].of /\ calls'[c].reply = calls[c].reply
         /\ calls'[c] \in Toggling
         /\ \A d \in Call : d # c => calls'[d] = calls[d]
         /\ calls' \in [Call -> Toggling \cup {None}]
<1>1. PICK b \in BOOLEAN : calls' = [calls EXCEPT ![c].found = b]
  <2>1. calls' = [calls EXCEPT ![c].found = calls[c].of \in row]
    BY DEF ToggleFind
  <2>2. (calls[c].of \in row) = TRUE \/ (calls[c].of \in row) = FALSE
    OBVIOUS
  <2>3. QED
    BY <2>1, <2>2, Zenon
<1>2. calls[c] \in Toggling
  BY DEF ToggleFind, Unanswered, FavouritesTypeOK
<1>3. /\ calls'[c] \in Toggling
      /\ calls'[c].of = calls[c].of /\ calls'[c].reply = calls[c].reply
  BY <1>1, <1>2 DEF FavouritesTypeOK, Toggling
<1>4. \A d \in Call : d # c => calls'[d] = calls[d]
  BY <1>1 DEF FavouritesTypeOK
<1>5. calls' \in [Call -> Toggling \cup {None}]
  BY <1>1, <1>3, <1>4 DEF FavouritesTypeOK
<1>6. QED
  BY <1>3, <1>4, <1>5

\* What a toggle that saves does to the table, and what it answers.
LEMMA SavedToggle ==
  ASSUME FavouritesTypeOK, TogglesFind, NEW c \in Call, ToggleSave(c)
  PROVE  /\ calls[c] # None /\ calls[c].of \in Service /\ calls[c].reply = None
         /\ row' \subseteq Service
         /\ calls[c].of \in row => row' = row \ {calls[c].of}
         /\ Replied(c, TRUE, row' \cap {calls[c].of})
<1>1. calls[c] \in Toggling /\ calls[c] # None /\ calls[c].found # None /\ calls[c].reply = None
  BY DEF ToggleSave, Unanswered, FavouritesTypeOK
<1>2. calls[c].of \in Service
  BY <1>1 DEF Toggling, TogglesFind
<1>3. row' = row \ {calls[c].of} \/ row' = row \cup {calls[c].of}
  BY Zenon DEF ToggleSave
<1>4. calls[c].of \in row => row' = row \ {calls[c].of}
  <2>1. SUFFICES ASSUME calls[c].of \in row PROVE calls[c].found
    BY Zenon DEF ToggleSave
  <2>2. calls[c].found = TRUE \/ calls[c].found = FALSE
    BY <1>1 DEF Toggling
  <2>3. QED
    BY <2>1, <2>2, Zenon DEF ToggleSave
<1>5. QED
  BY <1>1, <1>2, <1>3, <1>4 DEF ToggleSave, FavouritesTypeOK

LEMMA InitFavourites == Init => FavouritesInv
BY DEF Init, FavouritesInv, FavouritesTypeOK, TogglesFind, ListAgrees

LEMMA NextFavouritesTyped ==
  ASSUME FavouritesAssumption, FavouritesTypeOK, TogglesFind, [Next]_vars
  PROVE  FavouritesTypeOK' /\ TogglesFind'
<1> USE DEF FavouritesTypeOK
<1>1. ASSUME NEW c \in Call, Mount(c) \/ \E s \in Service : PressHeart(c, s)
      PROVE  FavouritesTypeOK' /\ TogglesFind'
  <2>1. PICK of \in Service \cup {None} : Sent(c, of)
    BY <1>1 DEF Mount, PressHeart
  <2>2. TogglesFind'
    BY <2>1, SentCall DEF TogglesFind
  <2>3. crossed' \in BOOLEAN
    BY <1>1, Zenon DEF Mount, PressHeart
  <2>4. FavouritesTypeOK'
    BY <1>1, <2>1, <2>3, SentCall DEF Mount, PressHeart
  <2>5. QED
    BY <2>2, <2>4
<1>2. ASSUME NEW c \in Call, Serve(c)
      PROVE  FavouritesTypeOK' /\ TogglesFind'
  <2>1. calls[c] # None /\ UNCHANGED <<items, fetching, crossed>>
    BY <1>2 DEF Serve, GetFavorites, ToggleFind, ToggleSave, Fail, Unanswered
  <2>2. CASE GetFavorites(c) \/ Fail(c)
    <3>1. PICK ok \in BOOLEAN, shown \in SUBSET Service : Replied(c, ok, shown)
      BY <2>2 DEF GetFavorites, Fail
    <3>2. row' = row
      BY <2>2 DEF GetFavorites, Fail
    <3>3. QED
      BY <2>1, <3>1, <3>2, AnsweredCall DEF TogglesFind
  <2>3. CASE ToggleFind(c)
    <3>1. row' = row /\ calls[c].of # None
      BY <2>3 DEF ToggleFind
    <3>2. QED
      BY <2>1, <2>3, <3>1, FoundCall DEF TogglesFind
  <2>4. CASE ToggleSave(c)
    <3>1. row' \cap {calls[c].of} \in SUBSET Service /\ row' \subseteq Service
      BY <2>4, SavedToggle
    <3>2. /\ calls' \in [Call -> Toggling \cup {None}]
          /\ calls'[c].of = calls[c].of
          /\ \A d \in Call : d # c => calls'[d] = calls[d]
      BY <2>1, <2>4, <3>1, SavedToggle, AnsweredCall
    <3>3. calls[c].of # None
      BY <2>1, <2>4, FavouritesAssumption, SavedToggle DEF FavouritesAssumption
    <3>4. QED
      BY <2>1, <3>1, <3>2, <3>3 DEF TogglesFind
  <2>5. QED
    BY <1>2, <2>2, <2>3, <2>4 DEF Serve
<1>3. ASSUME NEW c \in Call, Settle(c)
      PROVE  FavouritesTypeOK' /\ TogglesFind'
  <2>1. calls[c] \in Toggling /\ calls[c].reply \in Answers
    BY <1>3 DEF Settle, FavoritesArrived, Toggled, Refused, Settling, Toggling
  <2>2. row' = row /\ calls' = [calls EXCEPT ![c] = None]
    BY <1>3 DEF Settle, FavoritesArrived, Toggled, Refused, Settling
  <2>3. items' \subseteq Service
    BY <1>3, <2>1 DEF Settle, FavoritesArrived, Toggled, Refused, Answers
  <2>4. fetching' \in BOOLEAN /\ crossed' \in BOOLEAN
    BY <1>3 DEF Settle, FavoritesArrived, Toggled, Refused
  <2>5. QED
    BY <2>2, <2>3, <2>4 DEF TogglesFind
<1>4. CASE UNCHANGED vars
  BY <1>4 DEF vars, TogglesFind
<1>5. QED
  BY <1>1, <1>2, <1>3, <1>4 DEF Next, Resolve

\* While calls do not overlap, the one in flight knows how the list and the table differ.
LEMMA NextFavourites ==
  ASSUME FavouritesAssumption, FavouritesInv, [Next]_vars
  PROVE  FavouritesInv'
<1>1. FavouritesTypeOK /\ FavouritesTypeOK' /\ TogglesFind /\ TogglesFind'
  BY NextFavouritesTyped DEF FavouritesInv
<1> SUFFICES ASSUME ~crossed'
             PROVE  /\ Busy' = {} => items' = row'
                    /\ OneCall'
                    /\ \A c \in Call : calls'[c] # None => Follows(calls[c])'
  BY <1>1 DEF FavouritesInv, ListAgrees
<1>2. ASSUME NEW c \in Call, Mount(c) \/ \E s \in Service : PressHeart(c, s)
      PROVE  /\ Busy' # {} /\ OneCall'
             /\ \A d \in Call : calls'[d] # None => Follows(calls[d])'
  <2>1. Busy = {}
    BY <1>2 DEF Mount, PressHeart
  <2>2. \A d \in Call : calls[d] = None
    BY <2>1 DEF Busy
  <2>3. PICK of \in Service \cup {None} :
          /\ Sent(c, of)
          /\ of # None => items = row /\ of \in row
          /\ UNCHANGED <<row, items>>
    <3>1. CASE Mount(c)
      BY <3>1 DEF Mount
    <3>2. CASE \E s \in Service : PressHeart(c, s)
      BY <2>1, <3>2 DEF PressHeart, FavouritesInv, ListAgrees
    <3>3. QED
      BY <1>2, <3>1, <3>2
  <2>4. /\ calls' = [calls EXCEPT ![c] = [of |-> of, found |-> None, reply |-> None]]
        /\ calls'[c] # None
    BY <1>1, <2>3, SentCall
  <2>5. calls'[c] = [of |-> of, found |-> None, reply |-> None]
        /\ \A d \in Call : d # c => calls'[d] = None
    BY <1>1, <2>2, <2>4 DEF FavouritesTypeOK
  <2>6. Follows(calls[c])'
    BY <2>3, <2>5 DEF Follows
  <2>7. QED
    BY <2>4, <2>5, <2>6 DEF Busy, OneCall
<1>3. ASSUME NEW c \in Call, Serve(c)
      PROVE  /\ Busy' # {} /\ OneCall'
             /\ \A d \in Call : calls'[d] # None => Follows(calls[d])'
  <2>1. calls[c] \in Toggling /\ calls[c] # None /\ ~crossed
    BY <1>1, <1>3
    DEF FavouritesTypeOK, Serve, GetFavorites, ToggleFind, ToggleSave, Fail, Unanswered
  <2>2. /\ \A d \in Call : d # c => calls[d] = None
        /\ Follows(calls[c])
    BY <2>1 DEF FavouritesInv, OneCall
  <2>3. /\ calls'[c] \in Toggling /\ Follows(calls[c])'
        /\ \A d \in Call : d # c => calls'[d] = None
    <3>1. CASE GetFavorites(c)
      <4>1. /\ Replied(c, TRUE, row) /\ calls[c].of = None /\ row' = row
            /\ row \in SUBSET Service
        BY <1>1, <3>1 DEF GetFavorites, FavouritesTypeOK
      <4>2. QED
        BY <1>1, <2>1, <2>2, <4>1, AnsweredCall DEF Follows
    <3>2. CASE ToggleFind(c)
      <4>1. calls[c].of # None /\ calls[c].reply = None /\ UNCHANGED <<row, items>>
        BY <3>2 DEF ToggleFind, Unanswered
      <4>2. QED
        BY <1>1, <2>2, <3>2, <4>1, FoundCall DEF Follows
    <3>3. CASE ToggleSave(c)
      <4>1. row' = items \ {calls[c].of} /\ row' \cap {calls[c].of} = {} /\ items' = items
        BY <1>1, <2>2, <3>3, SavedToggle, FavouritesAssumption
        DEF Follows, FavouritesAssumption, ToggleSave
      <4>2. calls[c].of # None /\ Replied(c, TRUE, {}) /\ {} \in SUBSET Service
        BY <1>1, <3>3, <4>1, SavedToggle, FavouritesAssumption DEF FavouritesAssumption
      <4>3. QED
        BY <1>1, <2>1, <2>2, <4>1, <4>2, AnsweredCall DEF Follows
    <3>4. CASE Fail(c)
      BY <1>1, <2>1, <2>2, <3>4, AnsweredCall DEF Follows, Fail
    <3>5. QED
      BY <1>3, <3>1, <3>2, <3>3, <3>4 DEF Serve
  <2>4. calls'[c] # None
    BY <2>3, FavouritesAssumption DEF FavouritesAssumption
  <2>5. QED
    BY <2>3, <2>4 DEF Busy, OneCall
<1>4. ASSUME NEW c \in Call, Settle(c)
      PROVE  /\ items' = row' /\ OneCall'
             /\ \A d \in Call : calls'[d] # None => Follows(calls[d])'
  <2>1. /\ calls[c] \in Toggling /\ calls[c] # None /\ ~crossed
        /\ FavoritesArrived(c) \/ Toggled(c)
    BY <1>1, <1>4 DEF FavouritesTypeOK, Settle, FavoritesArrived, Toggled, Refused, Settling
  <2>2. /\ \A d \in Call : d # c => calls[d] = None
        /\ Follows(calls[c])
    BY <2>1 DEF FavouritesInv, OneCall
  <2>3. \A d \in Call : calls'[d] = None
    BY <1>1, <2>1, <2>2 DEF FavouritesTypeOK, FavoritesArrived, Toggled, Settling
  <2>4. items' = row'
    BY <2>1, <2>2 DEF Follows, FavoritesArrived, Toggled, Settling
  <2>5. QED
    BY <2>3, <2>4 DEF OneCall
<1>5. CASE UNCHANGED vars
  BY <1>5 DEF vars, FavouritesInv, ListAgrees, OneCall, Follows, Busy
<1>6. QED
  BY <1>2, <1>3, <1>4, <1>5 DEF Next, Resolve
=============================================================================
