----------------------------- MODULE BrowseProofs -----------------------------
(***************************************************************************)
(* Proofs about Browse: what the pages show and which spinners are up, for *)
(* any catalogue, any number of fetches in flight and any depth of the     *)
(* stack of screens.                                                       *)
(***************************************************************************)
EXTENDS Browse, FiniteSetTheorems, FunctionTheorems, SequenceTheorems, TLAPS

-----------------------------------------------------------------------------
(* The operators the model is built from.                                   *)

\* A row's identifier says which slice its page fetches into.
LEMMA Slices ==
  /\ \A w \in Service \cup Category : SliceOf(w) = "catalog"
  /\ \A w \in Mine \cup Others : SliceOf(w) = "orders"
  /\ \A w \in Ticket : SliceOf(w) = "tickets"
  /\ \A w \in List \cup Item : SliceOf(w) \in Slice
BY BrowseAssumption DEF SliceOf, List, Item, Slice

\* What is left of a stack from its lowest page up.
LEMMA PrefixKeeps ==
  ASSUME NEW S, NEW ps \in Seq(S), NEW n \in 0..Len(ps)
  PROVE  /\ SubSeq(ps, 1, n) \in Seq(S)
         /\ Len(SubSeq(ps, 1, n)) = n
         /\ \A i \in 1..n : i \in 1..Len(ps) /\ SubSeq(ps, 1, n)[i] = ps[i]
<1>1. n \in Int /\ 1 \in Int /\ \A i \in 1..n : i \in 1..Len(ps)
  BY LenProperties
<1>2. \A i \in 1..n : ps[i] \in S
  BY <1>1, LenProperties
<1>3. /\ SubSeq(ps, 1, n) \in Seq(S)
      /\ Len(SubSeq(ps, 1, n)) = IF 1 <= n THEN n - 1 + 1 ELSE 0
      /\ \A i \in 1..n - 1 + 1 : SubSeq(ps, 1, n)[i] = ps[1 + i - 1]
  BY <1>1, <1>2, SubSeqProperties
<1> DEFINE Goes(k) == k - 1 + 1 = k /\ (~ 1 <= k => k = 0)
<1>4. \A k \in 0..Len(ps) : Goes(k)
  BY LenProperties
<1>5. Goes(n)
  BY <1>4, Zenon
<1>6. Len(SubSeq(ps, 1, n)) = n
  BY <1>3, <1>5, Zenon
<1>7. \A i \in 1..n : SubSeq(ps, 1, n)[i] = ps[1 + i - 1]
  BY <1>3, <1>5, Zenon
<1>8. \A i \in 1..n : 1 + i - 1 = i
  OBVIOUS
<1>9. \A i \in 1..n : SubSeq(ps, 1, n)[i] = ps[i]
  <2>1. TAKE i \in 1..n
  <2>2. SubSeq(ps, 1, n)[i] = ps[1 + i - 1] /\ 1 + i - 1 = i
    BY <1>7, <1>8, Zenon
  <2>3. QED
    BY <2>2, Zenon
<1>10. QED
  BY <1>1, <1>3, <1>6, <1>9

\* Changing pages one by one keeps their number.
LEMMA FunctionIsSeq ==
  ASSUME NEW S, NEW n \in Nat, NEW f \in [1..n -> S]
  PROVE  f \in Seq(S) /\ Len(f) = n /\ DOMAIN f = 1..n
BY SeqDef, LenProperties

\* A page whose handler is done is the same page, not busy.
LEMMA NoLongerKeeps ==
  ASSUME NEW b, NEW ps \in Seq(Page)
  PROVE  /\ NoLonger(b, ps) \in Seq(Page)
         /\ Len(NoLonger(b, ps)) = Len(ps)
         /\ \A i \in 1..Len(ps) :
              \/ ps[i].busy # b /\ NoLonger(b, ps)[i] = ps[i]
              \/ NoLonger(b, ps)[i] = Idle(ps[i])
<1>1. /\ Len(ps) \in Nat /\ DOMAIN ps = 1..Len(ps)
      /\ \A i \in 1..Len(ps) : ps[i] \in Page
  BY LenProperties
<1>2. \A i \in 1..Len(ps) : Idle(ps[i]) \in Page
  BY <1>1 DEF Idle, Page
<1>3. NoLonger(b, ps) \in [1..Len(ps) -> Page]
  BY <1>1, <1>2 DEF NoLonger
<1>4. QED
  BY <1>1, <1>3, FunctionIsSeq DEF NoLonger

\* A finite set that is no larger than another has an injection into it.
LEMMA SmallerInjects ==
  ASSUME NEW S, NEW T, IsFiniteSet(S), IsFiniteSet(T), Cardinality(S) <= Cardinality(T)
  PROVE  \E f \in [S -> T] : IsInjective(f)
<1> DEFINE n == Cardinality(S)
           m == Cardinality(T)
<1>1. n \in Nat /\ m \in Nat /\ ExistsBijection(1..n, S) /\ ExistsBijection(1..m, T)
  BY FS_CardinalityType
<1>2. ExistsInjection(1..n, 1..m)
  BY <1>1, Fun_NatInjLeq
<1>3. ExistsInjection(S, 1..n) /\ ExistsInjection(1..m, T)
  BY <1>1, Fun_ExistsBijEquiv, Fun_ExistsBijSymmetric
<1>4. ExistsInjection(S, T)
  BY <1>2, <1>3, Fun_ExistsInjTransitive
<1>5. QED
  BY <1>4 DEF ExistsInjection, Injection

\* What a mounted screen sends: each of its fetches in a slot that was free, and nothing else.
LEMMA DispatchedCalls ==
  ASSUME BrowseTypeOK, NEW whats \in SUBSET (List \cup Item), IsFiniteSet(whats),
         Dispatched(whats)
  PROVE  /\ \A c \in Call : calls[c] # None => calls'[c] = calls[c]
         /\ \A c \in Call : \/ calls'[c] = calls[c]
                            \/ \E w \in whats : calls'[c] = [what |-> w, reply |-> None]
         /\ \A w \in whats : /\ SliceOf(w) = walk
                             /\ \E c \in Call : calls'[c] = [what |-> w, reply |-> None]
         /\ calls' \in [Call -> Fetch \cup {None}]
         /\ loading' \in [Slice -> BOOLEAN]
         /\ \A s \in Slice : loading'[s] => loading[s] \/ \E w \in whats : SliceOf(w) = s
<1> DEFINE slot == CHOOSE f \in [whats -> Free] : IsInjective(f)
           Sends(w) == [what |-> w, reply |-> None]
<1>1. IsFiniteSet(Free)
  BY BrowseAssumption, FS_Subset DEF Free
<1>2. slot \in [whats -> Free] /\ IsInjective(slot)
  BY <1>1, SmallerInjects DEF Dispatched
<1>3. \A v, w \in whats : slot[v] = slot[w] => v = w
  BY <1>2 DEF IsInjective
<1>4. calls' = [c \in Call |-> IF \E w \in whats : slot[w] = c
                                 THEN [what |-> CHOOSE w \in whats : slot[w] = c, reply |-> None]
                                 ELSE calls[c]]
  BY DEF Dispatched
<1>5. \A w \in whats : slot[w] \in Call /\ calls[slot[w]] = None
  BY <1>2 DEF Free
<1> HIDE DEF slot
<1>6. \A w \in whats : (CHOOSE v \in whats : slot[v] = slot[w]) = w
  BY <1>3
<1>7. \A w \in whats : calls'[slot[w]] = Sends(w)
  BY <1>4, <1>5, <1>6
<1>8. \A c \in Call : (~\E w \in whats : slot[w] = c) => calls'[c] = calls[c]
  BY <1>4
<1>9. \A c \in Call : calls'[c] = calls[c] \/ \E w \in whats : calls'[c] = Sends(w)
  BY <1>7, <1>8
<1>10. \A w \in whats : Sends(w) \in Fetch
  BY DEF Fetch
<1>11. calls' \in [Call -> Fetch \cup {None}]
  BY <1>4, <1>9, <1>10 DEF BrowseTypeOK
<1>12. \A c \in Call : calls[c] # None => calls'[c] = calls[c]
  BY <1>5, <1>8
<1>13. \A w \in whats : SliceOf(w) = walk
  BY DEF Dispatched
<1>14. /\ loading' \in [Slice -> BOOLEAN]
       /\ \A s \in Slice : loading'[s] => loading[s] \/ \E w \in whats : SliceOf(w) = s
  BY DEF Dispatched, BrowseTypeOK
<1>15. QED
  BY <1>5, <1>7, <1>9, <1>11, <1>12, <1>13, <1>14

-----------------------------------------------------------------------------
(***************************************************************************)
(* The inductive invariant.  SettledPage speaks of the screen on top; what *)
(* makes it last is that a page under others keeps its item too while it   *)
(* is alone (PagesSettled).                                                *)
(***************************************************************************)

\* A fetch of an item that was answered well is of a row that exists.
AnswersExist ==
  \A c \in Call :
    calls[c] # None /\ calls[c].reply # None /\ calls[c].reply.ok /\ calls[c].what \in Item =>
      calls[c].what \in Service \cup Mine \cup Ticket

\* A category's page never gets an item, so the checkout is always of a service.
CatalogShown == current["catalog"] \in Service \cup {None}
PagesFit ==
  \A i \in 1..Len(pages) :
    /\ pages[i].at = "checkout" => pages[i].id \in Service /\ current["catalog"] # None
    /\ pages[i].at = "tabs" => pages[i].tab \in Tabs

\* A page that is alone is the only one its slice's fetches are of.
ItemCall(c) == calls[c] # None /\ calls[c].what \in Item
PagesSettled ==
  \A i \in 1..Len(pages) :
    pages[i].id # None /\ pages[i].alone =>
      /\ pages[i].got => current[SliceOf(pages[i].id)] = pages[i].id
      /\ \A c \in Call : ItemCall(c) /\ SliceOf(calls[c].what) = SliceOf(pages[i].id) =>
           calls[c].what = pages[i].id

\* Payment is asked for only once the order is there.
PaysForOrder == \A p \in Charge : At(p, "paying") => charge[p].row

ScreensInv == CatalogShown /\ PagesFit /\ PagesSettled /\ BusyHasRequest
CallsInv   == AnswersExist /\ SliceLoadingHasCall
BrowseInv  == BrowseTypeOK /\ ScreensInv /\ CallsInv /\ PaysForOrder /\ ResultMeansPaid

-----------------------------------------------------------------------------
(* Steps that open no page of an item and show no item.                     *)

\* A page as it was, or with another tab, covered, or not busy any more.
Later(q, r) ==
  /\ r.at = q.at /\ r.id = q.id /\ r.got = q.got /\ (r.alone => q.alone)
  /\ r.tab = q.tab \/ r.tab \in Tabs

\* New tabs, or the result of a payment.
Paid == \E p \in Charge : charge[p] # None /\ charge[p].row /\ charge[p].paid # None
IsNew(r) ==
  /\ r.id = None
  /\ \/ r.at = "tabs" /\ r.tab \in Tabs
     \/ r.at = "result" /\ Paid'

\* The screens after such a step.
PagesGoOn ==
  /\ pages' \in Seq(Page) /\ Len(pages') \in 1..Depth
  /\ \A i \in 1..Len(pages') :
       IsNew(pages'[i]) \/ \E j \in 1..Len(pages) : Later(pages[j], pages'[i])

\* No page is busy with a request that was not there, or is there no longer.
BusyGoOn ==
  \A i \in 1..Len(pages') : pages'[i].busy # None =>
    \/ \E b \in Charge \cup Call : pages'[i].busy = b /\ Working(b)'
    \/ \E j \in 1..Len(pages) : /\ pages'[i].busy = pages[j].busy
                                /\ \A b \in Charge \cup Call :
                                     b = pages[j].busy /\ Working(b) => Working(b)'

\* No new fetch of an item; no charge forgets its order or its payment.
NoNewItemCall == \A c \in Call : ItemCall(c)' => ItemCall(c) /\ calls'[c].what = calls[c].what
ChargesKept ==
  \A p \in Charge : charge[p] # None =>
    /\ charge'[p] # None
    /\ charge[p].row => charge'[p].row
    /\ charge[p].paid # None => charge'[p].paid # None

\* Every request that a page waits for goes on; every submission does.
WorkGoesOn  == \A b \in Charge \cup Call : Working(b) => Working(b)'
CreatesGoOn == \A c \in Call : calls[c] # None /\ calls[c].what = "create" =>
                                 calls'[c] # None /\ calls'[c].what = "create"

\* Typed as pages, the screens have pages at their places.
LEMMA PagesTyped ==
  ASSUME BrowseTypeOK
  PROVE  /\ pages \in Seq(Page) /\ Len(pages) \in Nat \ {0} /\ Len(pages) <= Depth
         /\ DOMAIN pages = 1..Len(pages) /\ Len(pages) \in 1..Len(pages)
         /\ \A i \in 1..Len(pages) : pages[i] \in Page
         /\ Top = pages[Len(pages)] /\ Top \in Page
<1>1. pages \in Seq(Page) /\ Len(pages) \in 1..Depth /\ Depth \in Nat
  BY BrowseAssumption DEF BrowseTypeOK
<1>2. Len(pages) \in Nat \ {0} /\ Len(pages) <= Depth /\ Len(pages) \in 1..Len(pages)
  BY <1>1
<1>3. QED
  BY <1>1, <1>2, LenProperties DEF Top

\* The screens stay as they are.
LEMMA SamePages ==
  ASSUME BrowseTypeOK, pages' = pages, WorkGoesOn
  PROVE  PagesGoOn /\ BusyGoOn
<1>1. PagesGoOn
  BY PagesTyped DEF PagesGoOn, Later, BrowseTypeOK
<1>2. BusyGoOn
  BY DEF BusyGoOn, WorkGoesOn
<1>3. QED
  BY <1>1, <1>2

\* The screen on top changes.
LEMMA BecomesKeeps ==
  ASSUME BrowseTypeOK, NEW p \in Page
  PROVE  /\ Becomes(p) \in Seq(Page) /\ Len(Becomes(p)) = Len(pages)
         /\ Becomes(p)[Len(pages)] = p
         /\ \A i \in 1..Len(pages) : i # Len(pages) => Becomes(p)[i] = pages[i]
<1> DEFINE n == Len(pages)
<1>1. /\ n \in Nat \ {0} /\ DOMAIN pages = 1..n /\ n \in 1..n
      /\ \A i \in 1..n : pages[i] \in Page
  BY PagesTyped
<1>2. Becomes(p) \in [1..n -> Page]
  BY <1>1 DEF Becomes
<1>3. Becomes(p) \in Seq(Page) /\ Len(Becomes(p)) = n
  BY <1>1, <1>2, FunctionIsSeq
<1>4. QED
  BY <1>1, <1>3 DEF Becomes

LEMMA TopBecomes ==
  ASSUME BrowseTypeOK, NEW p \in Page, pages' = Becomes(p),
         Later(Top, p) \/ IsNew(p)
  PROVE  PagesGoOn
<1>1. /\ pages' \in Seq(Page) /\ Len(pages') = Len(pages) /\ Len(pages) \in 1..Depth
      /\ pages'[Len(pages)] = p
      /\ \A i \in 1..Len(pages) : i # Len(pages) => pages'[i] = pages[i]
  BY BecomesKeeps DEF BrowseTypeOK
<1>2. \A i \in 1..Len(pages) : IsNew(pages'[i]) \/ \E j \in 1..Len(pages) : Later(pages[j], pages'[i])
  <2>1. TAKE i \in 1..Len(pages)
  <2>2. CASE i = Len(pages)
    <3>1. pages'[i] = p
      BY <1>1, <2>2
    <3>2. CASE Later(Top, p)
      BY <2>2, <3>1, <3>2, PagesTyped
    <3>3. CASE IsNew(p)
      BY <3>1, <3>3
    <3>4. QED
      BY <3>2, <3>3
  <2>3. CASE i # Len(pages)
    BY <1>1, <2>3 DEF Later
  <2>4. QED
    BY <2>2, <2>3
<1>3. QED
  BY <1>1, <1>2 DEF PagesGoOn

\* Only pages that waited for b are changed when b is over.
LEMMA NoLongerGoesOn ==
  ASSUME BrowseTypeOK, NEW b \in Charge \cup Call, NEW ps \in Seq(Page),
         Len(ps) \in 1..Depth, pages' = NoLonger(b, ps),
         \A i \in 1..Len(ps) :
           \/ IsNew(ps[i]) /\ ps[i].busy = None
           \/ \E j \in 1..Len(pages) : Later(pages[j], ps[i]) /\ ps[i].busy \in {pages[j].busy, None},
         \A d \in Charge \cup Call : d # b /\ Working(d) => Working(d)'
  PROVE  PagesGoOn /\ BusyGoOn
<1>1. /\ pages' \in Seq(Page) /\ Len(pages') = Len(ps)
      /\ \A i \in 1..Len(ps) : \/ ps[i].busy # b /\ pages'[i] = ps[i]
                               \/ pages'[i] = Idle(ps[i])
  BY NoLongerKeeps
<1>2. \A i \in 1..Len(ps) : ps[i] \in Page
  BY LenProperties
<1>3. \A i \in 1..Len(ps) :
        /\ pages'[i].at = ps[i].at /\ pages'[i].id = ps[i].id /\ pages'[i].tab = ps[i].tab
        /\ pages'[i].got = ps[i].got /\ pages'[i].alone = ps[i].alone
        /\ pages'[i].busy # None => pages'[i].busy = ps[i].busy /\ ps[i].busy # b
  BY <1>1, <1>2 DEF Idle, Page
<1>4. PagesGoOn
  <2>1. ASSUME NEW i \in 1..Len(ps)
        PROVE  IsNew(pages'[i]) \/ \E j \in 1..Len(pages) : Later(pages[j], pages'[i])
    <3>1. CASE IsNew(ps[i])
      BY <1>3, <3>1 DEF IsNew
    <3>2. CASE \E j \in 1..Len(pages) : Later(pages[j], ps[i])
      BY <1>3, <3>2 DEF Later
    <3>3. QED
      BY <3>1, <3>2
  <2>2. QED
    BY <1>1, <2>1 DEF PagesGoOn
<1>5. BusyGoOn
  <2>1. ASSUME NEW i \in 1..Len(ps), pages'[i].busy # None
        PROVE  \E j \in 1..Len(pages) : /\ pages'[i].busy = pages[j].busy
                                        /\ \A d \in Charge \cup Call :
                                             d = pages[j].busy /\ Working(d) => Working(d)'
    <3>1. pages'[i].busy = ps[i].busy /\ ps[i].busy # b /\ ps[i].busy # None
      BY <1>3, <2>1
    <3>2. PICK j \in 1..Len(pages) : ps[i].busy = pages[j].busy
      BY <3>1
    <3>3. QED
      BY <3>1, <3>2
  <2>2. QED
    BY <1>1, <2>1 DEF BusyGoOn
<1>6. QED
  BY <1>4, <1>5

\* What such a step leaves true of the pages ...
LEMMA FitKept ==
  ASSUME PagesFit, PagesGoOn, current["catalog"] # None => current'["catalog"] # None
  PROVE  PagesFit'
BY DEF PagesFit, PagesGoOn, IsNew, Later

\* ... of what they show ...
LEMMA SettledKept ==
  ASSUME PagesSettled, PagesGoOn, NoNewItemCall, current' = current
  PROVE  PagesSettled'
<1>1. ASSUME NEW i \in 1..Len(pages'), pages'[i].id # None, pages'[i].alone
      PROVE  /\ pages'[i].got => current'[SliceOf(pages'[i].id)] = pages'[i].id
             /\ \A c \in Call : ItemCall(c)' /\ SliceOf(calls'[c].what) = SliceOf(pages'[i].id) =>
                  calls'[c].what = pages'[i].id
  <2>1. PICK j \in 1..Len(pages) : Later(pages[j], pages'[i])
    BY <1>1 DEF PagesGoOn, IsNew
  <2>2. /\ pages[j].got => current[SliceOf(pages[j].id)] = pages[j].id
        /\ \A c \in Call : ItemCall(c) /\ SliceOf(calls[c].what) = SliceOf(pages[j].id) =>
             calls[c].what = pages[j].id
    BY <1>1, <2>1 DEF PagesSettled, Later
  <2>3. \A c \in Call : ItemCall(c)' => ItemCall(c) /\ calls'[c].what = calls[c].what
    BY DEF NoNewItemCall
  <2>4. pages'[i].id = pages[j].id /\ pages'[i].got = pages[j].got
    BY <2>1 DEF Later
  <2>5. QED
    BY <2>2, <2>3, <2>4
<1>2. QED
  BY <1>1 DEF PagesSettled

\* ... of the results among them ...
LEMMA ResultKept ==
  ASSUME ResultMeansPaid, pages \in Seq(Page), PagesGoOn, ChargesKept
  PROVE  ResultMeansPaid'
<1>1. /\ DOMAIN pages = 1..Len(pages) /\ DOMAIN pages' = 1..Len(pages')
  BY LenProperties DEF PagesGoOn
<1>2. ASSUME NEW i \in DOMAIN pages', pages'[i].at = "result"
      PROVE  \E p \in Charge : charge'[p] # None /\ charge'[p].row /\ charge'[p].paid # None
  <2>1. CASE IsNew(pages'[i])
    BY <1>2, <2>1 DEF IsNew, Paid
  <2>2. CASE ~IsNew(pages'[i])
    <3>1. PICK j \in DOMAIN pages : pages[j].at = "result"
      BY <1>1, <1>2, <2>2 DEF PagesGoOn, Later
    <3>2. PICK p \in Charge : charge[p] # None /\ charge[p].row /\ charge[p].paid # None
      BY <3>1 DEF ResultMeansPaid
    <3>3. QED
      BY <3>2 DEF ChargesKept
  <2>3. QED
    BY <2>1, <2>2
<1>3. QED
  BY <1>2 DEF ResultMeansPaid

\* ... and of who waits.
LEMMA BusyKept ==
  ASSUME BusyHasRequest, pages \in Seq(Page), pages' \in Seq(Page), BusyGoOn
  PROVE  BusyHasRequest'
<1>1. /\ DOMAIN pages = 1..Len(pages) /\ DOMAIN pages' = 1..Len(pages')
      /\ \A i \in 1..Len(pages') : pages'[i] \in Page
  BY LenProperties
<1>2. ASSUME NEW i \in 1..Len(pages'), pages'[i].busy # None
      PROVE  \E b \in Charge \cup Call : pages'[i].busy = b /\ Working(b)'
  <2>1. PICK b \in Charge \cup Call : pages'[i].busy = b
    BY <1>1, <1>2 DEF Page
  <2>2. CASE \E j \in 1..Len(pages) : /\ pages'[i].busy = pages[j].busy
                                      /\ \A d \in Charge \cup Call :
                                           d = pages[j].busy /\ Working(d) => Working(d)'
    <3>1. PICK j \in 1..Len(pages) : /\ b = pages[j].busy
                                     /\ \A d \in Charge \cup Call :
                                          d = pages[j].busy /\ Working(d) => Working(d)'
      BY <2>1, <2>2
    <3>2. Working(b)
      BY <1>1, <1>2, <2>1, <3>1 DEF BusyHasRequest
    <3>3. QED
      BY <2>1, <3>1, <3>2
  <2>3. QED
    BY <1>2, <2>1, <2>2 DEF BusyGoOn
<1>3. \A b : \A i \in 1..Len(pages') : pages'[i].busy = b /\ Working(b)' => Working(pages[i].busy)'
  BY DEF Working
<1>4. QED
  BY <1>1, <1>2, <1>3 DEF BusyHasRequest

\* A slice's flag and its fetches: no flag rises, and no fetch of a slice whose flag stays up
\* is taken away.
LEMMA FlagKept ==
  ASSUME SliceLoadingHasCall,
         \A s \in Slice : loading'[s] => loading[s],
         \A c \in Call : calls[c] # None /\ calls[c].what # "create" =>
           \/ calls'[c] # None /\ calls'[c].what = calls[c].what
           \/ ~loading'[SliceOf(calls[c].what)]
  PROVE  SliceLoadingHasCall'
<1>1. ASSUME NEW s \in Slice, loading'[s]
      PROVE  \E c \in Call : calls'[c] # None /\ calls'[c].what # "create"
                             /\ SliceOf(calls'[c].what) = s
  <2>1. PICK c \in Call : calls[c] # None /\ calls[c].what # "create" /\ SliceOf(calls[c].what) = s
    BY <1>1 DEF SliceLoadingHasCall
  <2>2. calls'[c] # None /\ calls'[c].what = calls[c].what
    BY <1>1, <2>1
  <2>3. QED
    BY <2>1, <2>2
<1>2. QED
  BY <1>1 DEF SliceLoadingHasCall

-----------------------------------------------------------------------------
(* The screens: what they fetch and where they lead.                        *)

\* A tab fetches lists, a page its item or the list of tickets.
LEMMA TabFetches ==
  ASSUME NEW t \in Tabs
  PROVE  OnTab(t).fetches \subseteq List /\ IsFiniteSet(OnTab(t).fetches)
<1>1. t \in {"home", "orders", "inbox", "chat", "profile", "categories",
             "executor-orders", "executor-earnings"}
  BY DEF Tabs
<1>2. OnTab(t).fetches \in {{}, {"myOrders"}, {"inbox"}, {"available"}, {"earnings"},
                            {"categories"}, {"categories", "services"}}
  BY <1>1 DEF OnTab, HomeScreen, CategoriesScreen, OrdersScreen, ChatScreen, InboxScreen,
              AvailableOrdersScreen, EarningsScreen, ProfileMenu, Shows
<1>3. /\ IsFiniteSet({}) /\ IsFiniteSet({"myOrders"}) /\ IsFiniteSet({"inbox"})
      /\ IsFiniteSet({"available"}) /\ IsFiniteSet({"earnings"}) /\ IsFiniteSet({"categories"})
      /\ IsFiniteSet({"categories", "services"})
  <2>1. {"categories", "services"} = {"categories"} \cup {"services"}
    OBVIOUS
  <2>2. IsFiniteSet({}) /\ \A x : IsFiniteSet({x})
    BY FS_EmptySet, FS_Singleton, Zenon
  <2>3. IsFiniteSet({"categories"} \cup {"services"})
    BY <2>2, FS_Union, Zenon
  <2>4. QED
    BY <2>1, <2>2, <2>3, Zenon
<1>4. QED
  BY <1>2, <1>3 DEF List

\* The cards of each screen: of the tabs, pages of items and the list of tickets; of a
\* service, its checkout; of the tickets, one of them and the form.
FromTab(l)     == \/ l.at \in {"service", "order"} /\ l.id \in Item
                  \/ l.at = "tickets" /\ l.id = None
FromService(l) == /\ l.at = "checkout"
                  /\ current["catalog"] # None /\ l.id = current["catalog"]
FromTickets(l) == \/ l.at = "ticket" /\ l.id \in Item
                  \/ l.at = "new-ticket" /\ l.id = None

LEMMA LinksLead ==
  ASSUME BrowseTypeOK, PagesFit, NEW l \in OnPage(Top).links
  PROVE  FromTab(l) \/ FromService(l) \/ FromTickets(l)
<1>1. \A x \in List : listed[x] \subseteq Item
  BY DEF BrowseTypeOK
<1>2. CASE Top.at = "tabs"
  <2>1. Top.tab \in Tabs
    BY <1>2, PagesTyped DEF PagesFit
  <2>2. Top.tab \in {"home", "orders", "inbox", "chat", "profile", "categories",
                     "executor-orders", "executor-earnings"}
    BY <2>1 DEF Tabs
  <2>3. l \in OnTab(Top.tab).links
    BY <1>2 DEF OnPage
  <2>4. \/ \E i \in listed["services"] \cup listed["categories"] : l = [at |-> "service", id |-> i]
        \/ \E i \in listed["myOrders"] \cup listed["available"] : l = [at |-> "order", id |-> i]
        \/ l = [at |-> "tickets", id |-> None]
    BY <2>2, <2>3 DEF OnTab, HomeScreen, CategoriesScreen, OrdersScreen, ChatScreen, InboxScreen,
                      AvailableOrdersScreen, EarningsScreen, ProfileMenu, Shows, To
  <2>5. QED
    BY <1>1, <2>4 DEF FromTab, List
<1>3. CASE Top.at # "tabs"
  <2>1. \/ /\ current["catalog"] # None
           /\ l = [at |-> "checkout", id |-> current["catalog"]]
        \/ \E i \in listed["myTickets"] : l = [at |-> "ticket", id |-> i]
        \/ l = [at |-> "new-ticket", id |-> None]
    BY <1>3 DEF OnPage, ServiceScreen, OrderScreen, TicketsScreen, TicketScreen, Shows, To
  <2>2. QED
    BY <1>1, <2>1 DEF FromService, FromTickets, List
<1>4. QED
  BY <1>2, <1>3

\* The page a card opens fetches its item, the tickets, or nothing.
LEMMA PageFetches ==
  ASSUME NEW l, l.id \in Item \cup {None},
         l.at \in FetchingPage \cup {"tickets", "new-ticket", "checkout"},
         l.at \in FetchingPage => l.id \in Item
  PROVE  /\ Opened(l) \in Page
         /\ Opened(l).at = l.at /\ Opened(l).id = l.id /\ Opened(l).busy = None
         /\ Opened(l).got <=> l.at \notin FetchingPage
         /\ Opened(l).alone <=> (l.id # None => ~InFlight(SliceOf(l.id)))
         /\ OnPage(Opened(l)).fetches \subseteq List \cup Item
         /\ IsFiniteSet(OnPage(Opened(l)).fetches)
         /\ \A w \in OnPage(Opened(l)).fetches \cap Item : l.at \in FetchingPage /\ w = l.id
<1> DEFINE o == Opened(l)
<1>1. /\ o \in Page /\ o.at = l.at /\ o.id = l.id /\ o.busy = None
      /\ o.got <=> l.at \notin FetchingPage
      /\ o.alone <=> (l.id # None => ~InFlight(SliceOf(l.id)))
  BY DEF Opened, Screen, Page, SharedPage
<1> HIDE DEF o
<1>2. OnPage(o).fetches = IF l.at \in FetchingPage THEN {l.id}
                          ELSE IF l.at = "tickets" THEN {"myTickets"} ELSE {}
  BY <1>1 DEF OnPage, ServiceScreen, OrderScreen, TicketsScreen, TicketScreen, Shows, FetchingPage
<1>3. IsFiniteSet(OnPage(o).fetches)
  <2>1. IsFiniteSet({}) /\ \A x : IsFiniteSet({x})
    BY FS_EmptySet, FS_Singleton, Zenon
  <2>2. QED
    BY <1>2, <2>1
<1>4. "myTickets" \in List /\ "myTickets" \notin Item
  BY BrowseAssumption DEF List
<1>5. /\ OnPage(o).fetches \subseteq List \cup Item
      /\ \A w \in OnPage(o).fetches \cap Item : l.at \in FetchingPage /\ w = l.id
  BY <1>2, <1>4
<1>6. QED
  BY <1>1, <1>3, <1>5 DEF o

-----------------------------------------------------------------------------
(* The steps, handler by handler.                                           *)

LEMMA QuietStep ==
  ASSUME BrowseInv, PagesGoOn, BusyGoOn, current' = current,
         NoNewItemCall, ChargesKept, BrowseTypeOK', CallsInv', PaysForOrder'
  PROVE  BrowseInv'
<1>1. pages \in Seq(Page) /\ pages' \in Seq(Page)
  BY DEF BrowseInv, BrowseTypeOK
<1>2. PagesFit'
  BY FitKept DEF BrowseInv, ScreensInv
<1>3. PagesSettled'
  BY SettledKept DEF BrowseInv, ScreensInv
<1>4. ResultMeansPaid'
  BY <1>1, ResultKept DEF BrowseInv
<1>5. BusyHasRequest'
  BY <1>1, BusyKept DEF BrowseInv, ScreensInv
<1>6. CatalogShown'
  BY DEF CatalogShown, BrowseInv, ScreensInv
<1>7. QED
  BY <1>2, <1>3, <1>4, <1>5, <1>6 DEF BrowseInv, ScreensInv

\* Requests that are left alone, and charges that are.
LEMMA SameCharges ==
  ASSUME charge' = charge, BrowseInv
  PROVE  /\ ChargesKept /\ PaysForOrder'
         /\ CreatesGoOn => WorkGoesOn
<1>1. \A p \in Charge : \A s : At(p, s) => At(p, s)'
  BY DEF At
<1>2. CreatesGoOn => WorkGoesOn
  BY <1>1 DEF CreatesGoOn, WorkGoesOn, Working
<1>3. QED
  BY <1>2 DEF ChargesKept, PaysForOrder, At, BrowseInv

LEMMA SameCalls ==
  ASSUME calls' = calls, loading' = loading, BrowseInv
  PROVE  NoNewItemCall /\ CallsInv' /\ CreatesGoOn
BY DEF NoNewItemCall, ItemCall, CallsInv, AnswersExist, SliceLoadingHasCall, BrowseInv, CreatesGoOn

\* Every fetch in flight is of a slice.
LEMMA FetchesOfSlices ==
  ASSUME BrowseTypeOK, NEW c \in Call, calls[c] # None
  PROVE  /\ calls[c] \in Fetch
         /\ calls[c].what # "create" => calls[c].what \in List \cup Item
                                        /\ SliceOf(calls[c].what) \in Slice
<1>1. calls[c] \in Fetch
  BY DEF BrowseTypeOK
<1>2. QED
  BY <1>1, Slices DEF Fetch

\* What mounting a screen leaves true of the requests.
LEMMA DispatchedInv ==
  ASSUME BrowseInv, NEW whats \in SUBSET (List \cup Item), IsFiniteSet(whats), Dispatched(whats)
  PROVE  /\ CallsInv'
         /\ calls' \in [Call -> Fetch \cup {None}] /\ loading' \in [Slice -> BOOLEAN]
         /\ \A c \in Call : ItemCall(c)' =>
              \/ ItemCall(c) /\ calls'[c].what = calls[c].what
              \/ calls'[c].what \in whats \cap Item
<1>1. /\ \A c \in Call : calls[c] # None => calls'[c] = calls[c]
      /\ \A c \in Call : \/ calls'[c] = calls[c]
                         \/ \E w \in whats : calls'[c] = [what |-> w, reply |-> None]
      /\ \A w \in whats : /\ SliceOf(w) = walk
                          /\ \E c \in Call : calls'[c] = [what |-> w, reply |-> None]
      /\ calls' \in [Call -> Fetch \cup {None}]
      /\ loading' \in [Slice -> BOOLEAN]
      /\ \A s \in Slice : loading'[s] => loading[s] \/ \E w \in whats : SliceOf(w) = s
  BY DispatchedCalls DEF BrowseInv
<1>2. \A w \in whats : [what |-> w, reply |-> None] # None /\ w # "create"
  <2>1. TAKE w \in whats
  <2>2. [what |-> w, reply |-> None] \in Fetch
    BY DEF Fetch
  <2>3. "create" \notin List
    BY DEF List
  <2>4. QED
    BY <2>2, <2>3, BrowseAssumption
<1>3. AnswersExist'
  BY <1>1 DEF AnswersExist, BrowseInv, CallsInv
<1>4. SliceLoadingHasCall'
  <2>1. ASSUME NEW s \in Slice, loading'[s]
        PROVE  \E c \in Call : calls'[c] # None /\ calls'[c].what # "create"
                               /\ SliceOf(calls'[c].what) = s
    <3>1. CASE loading[s]
      <4>1. PICK c \in Call : calls[c] # None /\ calls[c].what # "create"
                              /\ SliceOf(calls[c].what) = s
        BY <3>1 DEF BrowseInv, CallsInv, SliceLoadingHasCall
      <4>2. QED
        BY <1>1, <4>1
    <3>2. CASE \E w \in whats : SliceOf(w) = s
      <4>1. PICK w \in whats : SliceOf(w) = s
        BY <3>2
      <4>2. PICK c \in Call : calls'[c] = [what |-> w, reply |-> None]
        BY <1>1
      <4>3. QED
        BY <1>2, <4>1, <4>2
    <3>3. QED
      BY <1>1, <2>1, <3>1, <3>2
  <2>2. QED
    BY <2>1 DEF SliceLoadingHasCall
<1>5. \A c \in Call : ItemCall(c)' =>
        \/ ItemCall(c) /\ calls'[c].what = calls[c].what
        \/ calls'[c].what \in whats \cap Item
  BY <1>1 DEF ItemCall
<1>6. QED
  BY <1>1, <1>3, <1>4, <1>5 DEF CallsInv

\* A tab shown for the first time fetches its lists; the result's buttons mount theirs.
LEMMA TabStep ==
  ASSUME BrowseInv, NEW t \in Tabs, SwitchTab(t) \/ LeaveResult(t)
  PROVE  BrowseInv'
<1> USE DEF BrowseInv
<1>1. PICK whats \in SUBSET List : IsFiniteSet(whats) /\ Dispatched(whats)
  <2>1. IsFiniteSet({})
    BY FS_EmptySet, Zenon
  <2>2. CASE SwitchTab(t)
    BY <2>1, <2>2, TabFetches DEF SwitchTab
  <2>3. CASE LeaveResult(t)
    BY <2>3, TabFetches DEF LeaveResult
  <2>4. QED
    BY <2>2, <2>3
<1>2. whats \in SUBSET (List \cup Item) /\ whats \cap Item = {}
  BY BrowseAssumption
<1>3. /\ CallsInv' /\ NoNewItemCall
      /\ calls' \in [Call -> Fetch \cup {None}] /\ loading' \in [Slice -> BOOLEAN]
  BY <1>1, <1>2, DispatchedInv DEF NoNewItemCall
<1>4. CreatesGoOn
  BY <1>1, <1>2, DispatchedCalls DEF CreatesGoOn
<1>5. UNCHANGED <<walk, ticket, listed, current, charge>>
  BY DEF SwitchTab, LeaveResult
<1>6. ChargesKept /\ PaysForOrder' /\ WorkGoesOn
  BY <1>4, <1>5, SameCharges
<1>7. PICK p \in Page : /\ pages' = Becomes(p) /\ (Later(Top, p) \/ IsNew(p))
                        /\ p.busy \in {Top.busy, None}
  <2>1. CASE SwitchTab(t)
    <3>1. Showing(Top, t) \in Page /\ Later(Top, Showing(Top, t)) /\ Showing(Top, t).busy = Top.busy
      BY PagesTyped DEF Showing, Page, Later
    <3>2. QED
      BY <2>1, <3>1 DEF SwitchTab
  <2>2. CASE LeaveResult(t)
    <3>1. /\ NewTabs(t, {t}) \in Page /\ IsNew(NewTabs(t, {t}))
          /\ NewTabs(t, {t}).busy = None
      BY DEF NewTabs, Screen, Page, IsNew
    <3>2. QED
      BY <2>2, <3>1 DEF LeaveResult
  <2>3. QED
    BY <2>1, <2>2
<1>8. PagesGoOn
  BY <1>7, TopBecomes
<1>9. BusyGoOn
  <2>1. /\ Len(pages') = Len(pages) /\ pages'[Len(pages)] = p
        /\ \A i \in 1..Len(pages) : i # Len(pages) => pages'[i] = pages[i]
    BY <1>7, BecomesKeeps
  <2>2. \A i \in 1..Len(pages) : pages'[i].busy \in {pages[i].busy, None}
    BY <1>7, <2>1, PagesTyped
  <2>3. QED
    BY <1>6, <2>1, <2>2 DEF BusyGoOn, WorkGoesOn
<1>10. BrowseTypeOK'
  BY <1>3, <1>5, <1>8 DEF BrowseTypeOK, PagesGoOn
<1>11. QED
  BY <1>3, <1>5, <1>6, <1>8, <1>9, <1>10, QuietStep

\* Covering pages takes from them at most that they are alone.
LEMMA CoveredKeeps ==
  ASSUME BrowseTypeOK, NEW l
  PROVE  /\ Covered(l) \in Seq(Page) /\ Len(Covered(l)) = Len(pages)
         /\ \A i \in 1..Len(pages) :
              /\ Later(pages[i], Covered(l)[i]) /\ Covered(l)[i].busy = pages[i].busy
              /\ l.at \in FetchingPage /\ Covered(l)[i].id # None => ~Covered(l)[i].alone
<1> DEFINE n == Len(pages)
<1>1. /\ n \in Nat /\ DOMAIN pages = 1..n /\ \A i \in 1..n : pages[i] \in Page
      /\ pages \in Seq(Page)
  BY PagesTyped
<1>2. CASE l.at \in FetchingPage
  <2> DEFINE q(i) == [pages[i] EXCEPT !.alone = pages[i].alone /\ pages[i].id = None]
  <2>1. Covered(l) = [i \in 1..n |-> q(i)]
    BY <1>1, <1>2 DEF Covered
  <2>2. \A i \in 1..n : /\ q(i) \in Page /\ Later(pages[i], q(i)) /\ q(i).busy = pages[i].busy
                        /\ q(i).id # None => ~q(i).alone
    BY <1>1 DEF Page, Later
  <2> HIDE DEF q
  <2>3. Covered(l) \in [1..n -> Page]
    BY <2>1, <2>2
  <2>4. Covered(l) \in Seq(Page) /\ Len(Covered(l)) = n
    BY <1>1, <2>3, FunctionIsSeq
  <2>5. QED
    BY <2>1, <2>2, <2>4
<1>3. CASE l.at \notin FetchingPage
  BY <1>1, <1>3 DEF Covered, Later
<1>4. QED
  BY <1>2, <1>3

\* A page opens: of an item, alone with its fetch, and those beneath are not any more; or one
\* that fetches no item, or the checkout of the service shown.
LEMMA OpenStep ==
  ASSUME BrowseInv, NEW l \in OnPage(Top).links, OpenPage(l)
  PROVE  BrowseInv'
<1> USE DEF BrowseInv, ScreensInv
<1> DEFINE o == Opened(l)
           n == Len(pages)
<1>1. FromTab(l) \/ FromService(l) \/ FromTickets(l)
  BY LinksLead
<1>2. /\ l.id \in Item \cup {None}
      /\ l.at \in FetchingPage \cup {"tickets", "new-ticket", "checkout"}
      /\ l.at \in FetchingPage => l.id \in Item
      /\ l.at = "checkout" => l.id \in Service /\ current["catalog"] = l.id
      /\ l.at \notin FetchingPage /\ l.id # None => l.at = "checkout"
  BY <1>1, BrowseAssumption DEF FromTab, FromService, FromTickets, CatalogShown, Item, FetchingPage
<1>3. /\ o \in Page /\ o.at = l.at /\ o.id = l.id /\ o.busy = None
      /\ o.got <=> l.at \notin FetchingPage
      /\ o.alone <=> (l.id # None => ~InFlight(SliceOf(l.id)))
      /\ OnPage(o).fetches \subseteq List \cup Item /\ IsFiniteSet(OnPage(o).fetches)
      /\ \A w \in OnPage(o).fetches \cap Item : l.at \in FetchingPage /\ w = l.id
  BY <1>2, PageFetches
<1>4. /\ Dispatched(OnPage(o).fetches) /\ pages' = Append(Covered(l), o) /\ n < Depth
      /\ UNCHANGED <<walk, ticket, listed, current, charge>>
  BY DEF OpenPage
<1> HIDE DEF o
<1>5. /\ CallsInv'
      /\ calls' \in [Call -> Fetch \cup {None}] /\ loading' \in [Slice -> BOOLEAN]
      /\ \A c \in Call : ItemCall(c)' =>
           \/ ItemCall(c) /\ calls'[c].what = calls[c].what
           \/ calls'[c].what = l.id /\ l.at \in FetchingPage
  BY <1>3, <1>4, DispatchedInv
<1>6. CreatesGoOn
  BY <1>3, <1>4, DispatchedCalls DEF CreatesGoOn
<1>7. ChargesKept /\ PaysForOrder' /\ WorkGoesOn
  BY <1>4, <1>6, SameCharges
<1>8. /\ n \in Nat \ {0} /\ pages \in Seq(Page) /\ DOMAIN pages = 1..n
  BY PagesTyped
<1>9. /\ Covered(l) \in Seq(Page) /\ Len(Covered(l)) = n
      /\ \A i \in 1..n : /\ Later(pages[i], Covered(l)[i]) /\ Covered(l)[i].busy = pages[i].busy
                         /\ l.at \in FetchingPage /\ Covered(l)[i].id # None => ~Covered(l)[i].alone
  BY CoveredKeeps
<1>10. /\ pages' \in Seq(Page) /\ Len(pages') = n + 1 /\ pages'[n + 1] = o
       /\ \A i \in 1..n : pages'[i] = Covered(l)[i]
  BY <1>3, <1>4, <1>9, AppendProperties
<1>11. \A i \in 1..n+1 : i \in 1..n \/ i = n + 1
  BY <1>8
<1> HIDE DEF n
<1>12. PagesFit'
  <2>1. ASSUME NEW i \in 1..n+1
        PROVE  /\ pages'[i].at = "checkout" =>
                    pages'[i].id \in Service /\ current'["catalog"] # None
               /\ pages'[i].at = "tabs" => pages'[i].tab \in Tabs
    <3>1. CASE i = n + 1
      BY <1>2, <1>3, <1>4, <1>10, <3>1, BrowseAssumption DEF FetchingPage, Item
    <3>2. CASE i \in 1..n
      BY <1>4, <1>9, <1>10, <3>2 DEF PagesFit, Later, n
    <3>3. QED
      BY <1>11, <3>1, <3>2
  <2>2. QED
    BY <1>10, <2>1 DEF PagesFit
<1>13. PagesSettled'
  <2>1. ASSUME NEW i \in 1..n+1, pages'[i].id # None, pages'[i].alone
        PROVE  /\ pages'[i].got => current'[SliceOf(pages'[i].id)] = pages'[i].id
               /\ \A c \in Call : ItemCall(c)' /\ SliceOf(calls'[c].what) = SliceOf(pages'[i].id) =>
                    calls'[c].what = pages'[i].id
    <3>1. CASE i = n + 1
      <4>1. ~InFlight(SliceOf(l.id)) /\ pages'[i].id = l.id /\ l.id # None
        BY <1>3, <1>10, <2>1, <3>1
      <4>2. \A c \in Call : ItemCall(c) => SliceOf(calls[c].what) # SliceOf(l.id)
        BY <4>1 DEF InFlight, ItemCall
      <4>3. \A c \in Call : ItemCall(c)' /\ SliceOf(calls'[c].what) = SliceOf(l.id) =>
              calls'[c].what = l.id
        BY <1>5, <4>2
      <4>4. ASSUME pages'[i].got
            PROVE  current[SliceOf(l.id)] = l.id
        <5>1. l.at = "checkout"
          BY <1>2, <1>3, <1>10, <3>1, <4>1, <4>4
        <5>2. SliceOf(l.id) = "catalog"
          BY <1>2, <5>1, Slices
        <5>3. QED
          BY <1>2, <5>1, <5>2
      <4>5. QED
        BY <1>4, <4>1, <4>3, <4>4
    <3>2. CASE i \in 1..n
      <4>1. l.at \notin FetchingPage /\ Later(pages[i], pages'[i]) /\ pages[i].alone
        BY <1>9, <1>10, <2>1, <3>2 DEF Later
      <4>2. /\ pages[i].got => current[SliceOf(pages[i].id)] = pages[i].id
            /\ \A c \in Call : ItemCall(c) /\ SliceOf(calls[c].what) = SliceOf(pages[i].id) =>
                 calls[c].what = pages[i].id
        BY <2>1, <3>2, <4>1 DEF PagesSettled, Later, n
      <4>3. \A c \in Call : ItemCall(c)' => ItemCall(c) /\ calls'[c].what = calls[c].what
        BY <1>5, <4>1
      <4>4. pages'[i].id = pages[i].id /\ pages'[i].got = pages[i].got
        BY <4>1 DEF Later
      <4>5. QED
        BY <1>4, <4>2, <4>3, <4>4
    <3>3. QED
      BY <1>11, <3>1, <3>2
  <2>2. QED
    BY <1>10, <2>1 DEF PagesSettled
<1>14. ResultMeansPaid'
  <2>1. DOMAIN pages' = 1..n+1
    BY <1>10, LenProperties
  <2>2. \A i \in DOMAIN pages' : pages'[i].at = "result" =>
          i \in DOMAIN pages /\ pages[i].at = "result"
    BY <1>2, <1>3, <1>8, <1>9, <1>10, <1>11, <2>1 DEF Later, FetchingPage, n
  <2>3. charge' = charge
    BY <1>4
  <2>4. QED
    BY <2>2, <2>3 DEF ResultMeansPaid
<1>15. BusyHasRequest'
  <2>1. ASSUME NEW i \in 1..n+1, pages'[i].busy # None
        PROVE  \E j \in 1..Len(pages) : /\ pages'[i].busy = pages[j].busy
                                        /\ \A b \in Charge \cup Call :
                                             b = pages[j].busy /\ Working(b) => Working(b)'
    BY <1>3, <1>7, <1>9, <1>10, <1>11, <2>1 DEF WorkGoesOn, n
  <2>2. BusyGoOn
    BY <1>10, <2>1 DEF BusyGoOn
  <2>3. QED
    BY <1>8, <1>10, <2>2, BusyKept
<1>16. BrowseTypeOK'
  <2>1. n + 1 \in 1..Depth
    BY <1>4, <1>8, BrowseAssumption
  <2>2. QED
    BY <1>4, <1>5, <1>10, <2>1 DEF BrowseTypeOK
<1>17. CatalogShown'
  BY <1>4 DEF CatalogShown
<1>18. QED
  BY <1>5, <1>7, <1>12, <1>13, <1>14, <1>15, <1>16, <1>17

\* The screen beneath, when there is one.
LEMMA FrontKeeps ==
  ASSUME BrowseTypeOK, Len(pages) > 1
  PROVE  /\ Front(pages) \in Seq(Page) /\ Len(Front(pages)) \in 1..Depth
         /\ \A i \in 1..Len(Front(pages)) : i \in 1..Len(pages) /\ Front(pages)[i] = pages[i]
<1>1. pages \in Seq(Page) /\ Len(pages) \in Nat /\ Len(pages) <= Depth /\ Depth \in Nat
  BY PagesTyped, BrowseAssumption
<1>2. Len(pages) - 1 \in 0..Len(pages) /\ Len(pages) - 1 \in 1..Depth
  BY <1>1
<1>3. Front(pages) = SubSeq(pages, 1, Len(pages) - 1)
  BY DEF Front
<1>4. QED
  BY <1>1, <1>2, <1>3, PrefixKeeps

\* Leaving a page.
LEMMA BackStep == ASSUME BrowseInv, Back PROVE BrowseInv'
<1>1. /\ Len(pages) > 1 /\ pages' = Front(pages) /\ BrowseTypeOK
      /\ UNCHANGED <<walk, ticket, listed, current, loading, calls, charge>>
  BY DEF Back, store, BrowseInv
<1>2. /\ pages' \in Seq(Page) /\ Len(pages') \in 1..Depth
      /\ \A i \in 1..Len(pages') : i \in 1..Len(pages) /\ pages'[i] = pages[i]
  BY <1>1, FrontKeeps
<1>3. PagesGoOn
  BY <1>2 DEF PagesGoOn, Later
<1>4. /\ NoNewItemCall /\ CallsInv' /\ ChargesKept /\ PaysForOrder' /\ WorkGoesOn
  BY <1>1, SameCalls, SameCharges
<1>5. BusyGoOn
  BY <1>2, <1>4 DEF BusyGoOn, WorkGoesOn
<1>6. BrowseTypeOK'
  BY <1>1, <1>2 DEF BrowseTypeOK
<1>7. QED
  BY <1>1, <1>3, <1>4, <1>5, <1>6, QuietStep

\* An answer, or a failure, keeps what was asked.
LEMMA RepliedFetch ==
  ASSUME BrowseInv, NEW c \in Call, calls[c] # None, NEW ok \in BOOLEAN, NEW items \in SUBSET Item,
         Replied(c, ok, items),
         ok /\ calls[c].what \in Item => calls[c].what \in Service \cup Mine \cup Ticket,
         loading' = loading
  PROVE  /\ calls' \in [Call -> Fetch \cup {None}]
         /\ NoNewItemCall /\ CallsInv' /\ CreatesGoOn
<1> DEFINE answered == [calls[c] EXCEPT !.reply = [ok |-> ok, items |-> items]]
<1>1. calls \in [Call -> Fetch \cup {None}] /\ calls[c] \in Fetch
  BY DEF BrowseInv, BrowseTypeOK
<1>2. /\ answered \in Fetch /\ answered.what = calls[c].what
      /\ answered.reply = [ok |-> ok, items |-> items]
  BY <1>1 DEF Fetch, Reply
<1>3. answered # None
  BY <1>2, BrowseAssumption
<1>4. calls' = [calls EXCEPT ![c] = answered]
  BY <1>1 DEF Replied
<1> HIDE DEF answered
<1>5. /\ calls' \in [Call -> Fetch \cup {None}] /\ calls'[c] = answered
      /\ \A d \in Call : d # c => calls'[d] = calls[d]
  BY <1>1, <1>2, <1>4
<1>6. \A d \in Call : calls'[d] # None => calls[d] # None /\ calls'[d].what = calls[d].what
  BY <1>2, <1>5
<1>7. NoNewItemCall
  BY <1>6 DEF NoNewItemCall, ItemCall
<1>8. AnswersExist'
  <2>1. ASSUME NEW d \in Call, calls'[d] # None, calls'[d].reply # None, calls'[d].reply.ok,
               calls'[d].what \in Item
        PROVE  calls'[d].what \in Service \cup Mine \cup Ticket
    <3>1. CASE d = c
      BY <1>2, <1>5, <2>1, <3>1
    <3>2. CASE d # c
      BY <1>5, <2>1, <3>2 DEF AnswersExist, BrowseInv, CallsInv
    <3>3. QED
      BY <3>1, <3>2
  <2>2. QED
    BY <2>1 DEF AnswersExist
<1>9. SliceLoadingHasCall'
  <2>1. \A d \in Call : calls[d] # None => calls'[d] # None /\ calls'[d].what = calls[d].what
    BY <1>2, <1>3, <1>5
  <2>2. \A s \in Slice : loading'[s] => loading[s]
    OBVIOUS
  <2>3. QED
    BY <2>1, <2>2, FlagKept DEF BrowseInv, CallsInv
<1>10. CreatesGoOn
  BY <1>2, <1>3, <1>5 DEF CreatesGoOn
<1>11. QED
  BY <1>5, <1>7, <1>8, <1>9, <1>10 DEF CallsInv

LEMMA ServeStep ==
  ASSUME BrowseInv, NEW c \in Call, Serve(c)
  PROVE  BrowseInv'
<1> USE DEF BrowseInv
<1>1. /\ UNCHANGED <<walk, pages, listed, current, loading, charge>>
      /\ ticket' \subseteq Ticket
  BY DEF Serve, ServeFetch, ServeCreateTicket, Fail, store, BrowseTypeOK
<1>2. /\ calls' \in [Call -> Fetch \cup {None}]
      /\ NoNewItemCall /\ CallsInv' /\ CreatesGoOn
  <2>1. CASE ServeFetch(c)
    <3> DEFINE what == calls[c].what
    <3>1. /\ calls[c] # None /\ what # "create"
          /\ Replied(c, Found(what), IF Found(what) THEN Answer(what) ELSE {})
          /\ loading' = loading
      BY <2>1 DEF ServeFetch, Waiting, store
    <3>2. ticket \subseteq Ticket
      BY DEF BrowseTypeOK
    <3>3. Found(what) \in BOOLEAN
      BY DEF Found
    <3>4. (IF Found(what) THEN Answer(what) ELSE {}) \in SUBSET Item
      BY <3>2 DEF Answer, Item
    <3>5. Found(what) /\ what \in Item => what \in Service \cup Mine \cup Ticket
      BY <3>2 DEF Found
    <3> HIDE DEF what
    <3>6. QED
      BY <3>1, <3>3, <3>4, <3>5, RepliedFetch DEF what
  <2>2. CASE Fail(c)
    BY <2>2, RepliedFetch DEF Fail, store
  <2>3. ASSUME NEW t \in Ticket, ServeCreateTicket(c, t)
        PROVE  /\ calls' \in [Call -> Fetch \cup {None}]
               /\ NoNewItemCall /\ CallsInv' /\ CreatesGoOn
    <3>1. /\ calls[c] # None /\ calls[c].what = "create" /\ Replied(c, TRUE, {t})
          /\ loading' = loading
      BY <2>3 DEF ServeCreateTicket, Waiting, store
    <3>2. {t} \in SUBSET Item /\ "create" \notin Item
      BY BrowseAssumption DEF Item
    <3>3. QED
      BY <3>1, <3>2, RepliedFetch
  <2>4. QED
    BY <2>1, <2>2, <2>3 DEF Serve
<1>3. ChargesKept /\ PaysForOrder' /\ WorkGoesOn
  BY <1>1, <1>2, SameCharges
<1>4. PagesGoOn /\ BusyGoOn
  BY <1>1, <1>3, SamePages
<1>5. BrowseTypeOK'
  BY <1>1, <1>2 DEF BrowseTypeOK
<1>6. QED
  BY <1>1, <1>2, <1>3, <1>4, <1>5, QuietStep

\* A handler that runs ends its request, and no other.
LEMMA SettledCall ==
  ASSUME BrowseInv, NEW c \in Call, NEW ok \in BOOLEAN, Settling(c, ok)
  PROVE  /\ calls' \in [Call -> Fetch \cup {None}]
         /\ calls'[c] = None /\ \A d \in Call : d # c => calls'[d] = calls[d]
         /\ NoNewItemCall /\ AnswersExist'
         /\ UNCHANGED <<walk, ticket, charge>>
<1>1. calls \in [Call -> Fetch \cup {None}] /\ calls' = [calls EXCEPT ![c] = None]
  BY DEF Settling, BrowseInv, BrowseTypeOK
<1>2. /\ calls' \in [Call -> Fetch \cup {None}]
      /\ calls'[c] = None /\ \A d \in Call : d # c => calls'[d] = calls[d]
  BY <1>1
<1>3. NoNewItemCall
  BY <1>2 DEF NoNewItemCall, ItemCall
<1>4. AnswersExist'
  BY <1>2 DEF AnswersExist, BrowseInv, CallsInv
<1>5. QED
  BY <1>2, <1>3, <1>4 DEF Settling

\* Such a handler takes down the flag of the slice it answers for, or it answers for none.
LEMMA SettledFlag ==
  ASSUME BrowseInv, NEW c \in Call, NEW ok \in BOOLEAN, Settling(c, ok),
         \/ calls[c].what = "create" /\ loading' = loading
         \/ /\ calls[c].what # "create"
            /\ loading' = [loading EXCEPT ![SliceOf(calls[c].what)] = FALSE]
  PROVE  loading' \in [Slice -> BOOLEAN] /\ CallsInv'
<1>1. /\ calls'[c] = None /\ \A d \in Call : d # c => calls'[d] = calls[d]
      /\ AnswersExist'
  BY SettledCall
<1>2. loading \in [Slice -> BOOLEAN]
  BY DEF BrowseInv, BrowseTypeOK
<1>3. calls[c] # None
  BY DEF Settling
<1>4. calls[c].what # "create" => SliceOf(calls[c].what) \in Slice
  BY <1>3, FetchesOfSlices DEF BrowseInv
<1>5. /\ loading' \in [Slice -> BOOLEAN]
      /\ \A s \in Slice : loading'[s] => loading[s]
      /\ calls[c].what # "create" => ~loading'[SliceOf(calls[c].what)]
  BY <1>2, <1>4
<1>6. \A d \in Call : calls[d] # None /\ calls[d].what # "create" =>
        \/ calls'[d] # None /\ calls'[d].what = calls[d].what
        \/ ~loading'[SliceOf(calls[d].what)]
  BY <1>1, <1>5
<1>7. SliceLoadingHasCall'
  BY <1>5, <1>6, FlagKept DEF BrowseInv, CallsInv
<1>8. QED
  BY <1>1, <1>5, <1>7 DEF CallsInv

\* A list arrives, or a fetch is refused: no page changes, no slice shows another item.
LEMMA ListStep ==
  ASSUME BrowseInv, NEW c \in Call, ListArrived(c) \/ Refused(c)
  PROVE  BrowseInv'
<1> USE DEF BrowseInv
<1>1. PICK ok \in BOOLEAN : Settling(c, ok)
  BY DEF ListArrived, Refused
<1>2. /\ calls[c] # None /\ calls[c] \in Fetch /\ calls[c].what # "create"
      /\ loading' = [loading EXCEPT ![SliceOf(calls[c].what)] = FALSE]
      /\ UNCHANGED <<pages, current>>
  <2>1. "create" \notin List
    BY DEF List
  <2>2. calls[c] # None
    BY <1>1 DEF Settling
  <2>3. calls[c] \in Fetch
    BY <2>2 DEF BrowseTypeOK
  <2>4. QED
    BY <2>1, <2>2, <2>3 DEF ListArrived, Refused
<1>3. listed' \in [List -> SUBSET Item]
  <2>1. CASE ListArrived(c)
    <3>1. /\ calls[c].reply # None /\ calls[c].what \in List
          /\ listed' = [listed EXCEPT ![calls[c].what] = calls[c].reply.items]
      BY <2>1 DEF ListArrived, Settling
    <3>2. calls[c].reply.items \in SUBSET Item
      BY <1>2, <3>1 DEF Fetch, Reply
    <3>3. QED
      BY <3>1, <3>2 DEF BrowseTypeOK
  <2>2. CASE Refused(c)
    BY <2>2 DEF Refused, BrowseTypeOK
  <2>3. QED
    BY <2>1, <2>2
<1>4. /\ calls' \in [Call -> Fetch \cup {None}] /\ NoNewItemCall
      /\ UNCHANGED <<walk, ticket, charge>>
      /\ calls'[c] = None /\ \A d \in Call : d # c => calls'[d] = calls[d]
  BY <1>1, SettledCall
<1>5. loading' \in [Slice -> BOOLEAN] /\ CallsInv'
  BY <1>1, <1>2, SettledFlag
<1>6. CreatesGoOn
  BY <1>2, <1>4 DEF CreatesGoOn
<1>7. ChargesKept /\ PaysForOrder' /\ WorkGoesOn
  BY <1>4, <1>6, SameCharges
<1>8. PagesGoOn /\ BusyGoOn
  BY <1>2, <1>7, SamePages
<1>9. BrowseTypeOK'
  BY <1>2, <1>3, <1>4, <1>5 DEF BrowseTypeOK
<1>10. QED
  BY <1>2, <1>4, <1>5, <1>7, <1>8, <1>9, QuietStep

\* Going back keeps the screens beneath, or the top one with its home tab.
LEMMA GoingBackKeeps ==
  ASSUME BrowseTypeOK
  PROVE  /\ GoingBack \in Seq(Page) /\ Len(GoingBack) \in 1..Depth
         /\ \A i \in 1..Len(GoingBack) : \E j \in 1..Len(pages) :
              Later(pages[j], GoingBack[i]) /\ GoingBack[i].busy \in {pages[j].busy, None}
<1>1. CASE Top.at = "tabs" /\ Top.tab # "home"
  <2>1. /\ Showing(Top, "home") \in Page /\ Later(Top, Showing(Top, "home"))
        /\ Showing(Top, "home").busy = Top.busy
    BY PagesTyped DEF Showing, Page, Later, Tabs
  <2>2. GoingBack = Becomes(Showing(Top, "home"))
    BY <1>1 DEF GoingBack
  <2>3. /\ GoingBack \in Seq(Page) /\ Len(GoingBack) = Len(pages)
        /\ GoingBack[Len(pages)] = Showing(Top, "home")
        /\ \A i \in 1..Len(pages) : i # Len(pages) => GoingBack[i] = pages[i]
    BY <2>1, <2>2, BecomesKeeps
  <2>4. \A i \in 1..Len(pages) :
          Later(pages[i], GoingBack[i]) /\ GoingBack[i].busy = pages[i].busy
    <3>1. TAKE i \in 1..Len(pages)
    <3>2. CASE i = Len(pages)
      BY <2>1, <2>3, <3>2, PagesTyped
    <3>3. CASE i # Len(pages)
      BY <2>3, <3>3 DEF Later
    <3>4. QED
      BY <3>2, <3>3
  <2>5. QED
    BY <2>3, <2>4 DEF BrowseTypeOK
<1>2. CASE ~(Top.at = "tabs" /\ Top.tab # "home") /\ Len(pages) > 1
  BY <1>2, FrontKeeps DEF GoingBack, Later
<1>3. CASE ~(Top.at = "tabs" /\ Top.tab # "home") /\ ~(Len(pages) > 1)
  BY <1>3 DEF GoingBack, Later, BrowseTypeOK
<1>4. QED
  BY <1>1, <1>2, <1>3

\* The form's answer: back from whatever screen is on top, or the button is shown again.
LEMMA FormStep ==
  ASSUME BrowseInv, NEW c \in Call, TicketCreated(c) \/ TicketRefused(c)
  PROVE  BrowseInv'
<1> USE DEF BrowseInv
<1>1. PICK ok \in BOOLEAN : Settling(c, ok)
  BY DEF TicketCreated, TicketRefused
<1>2. calls[c].what = "create" /\ UNCHANGED <<listed, current, loading>>
  BY DEF TicketCreated, TicketRefused, store
<1>3. /\ calls' \in [Call -> Fetch \cup {None}] /\ NoNewItemCall
      /\ UNCHANGED <<walk, ticket, charge>>
      /\ calls'[c] = None /\ \A d \in Call : d # c => calls'[d] = calls[d]
  BY <1>1, SettledCall
<1>4. loading' \in [Slice -> BOOLEAN] /\ CallsInv'
  BY <1>1, <1>2, SettledFlag
<1>5. ChargesKept /\ PaysForOrder'
  BY <1>3, SameCharges
<1>6. \A d \in Charge \cup Call : d # c /\ Working(d) => Working(d)'
  <2>1. \A p \in Charge : \A s : At(p, s) => At(p, s)'
    BY <1>3 DEF At
  <2>2. QED
    BY <1>3, <2>1 DEF Working
<1>7. PICK ps \in Seq(Page) :
        /\ Len(ps) \in 1..Depth /\ pages' = NoLonger(c, ps)
        /\ \A i \in 1..Len(ps) : \E j \in 1..Len(pages) :
             Later(pages[j], ps[i]) /\ ps[i].busy \in {pages[j].busy, None}
  <2>1. CASE TicketCreated(c)
    BY <2>1, GoingBackKeeps DEF TicketCreated
  <2>2. CASE TicketRefused(c)
    BY <2>2 DEF TicketRefused, Later, BrowseTypeOK
  <2>3. QED
    BY <2>1, <2>2
<1>8. PagesGoOn /\ BusyGoOn
  BY <1>6, <1>7, NoLongerGoesOn
<1>9. BrowseTypeOK'
  BY <1>2, <1>3, <1>4, <1>8 DEF BrowseTypeOK, PagesGoOn
<1>10. QED
  BY <1>2, <1>3, <1>4, <1>5, <1>8, <1>9, QuietStep

\* An item arrives and is shown, whatever page is on top: the pages of that slice that are
\* alone are of that item, since its fetch was in flight.
LEMMA ItemStep ==
  ASSUME BrowseInv, NEW c \in Call, ItemArrived(c)
  PROVE  BrowseInv'
<1> USE DEF BrowseInv, ScreensInv
<1> DEFINE w == calls[c].what
           n == Len(pages)
<1>1. /\ Settling(c, TRUE) /\ w \in Item /\ ItemCall(c)
      /\ current' = [current EXCEPT ![SliceOf(w)] = w]
      /\ loading' = [loading EXCEPT ![SliceOf(w)] = FALSE]
      /\ UNCHANGED listed
  BY DEF ItemArrived, Settling, ItemCall
<1>2. w \in Service \cup Mine \cup Ticket /\ w # "create" /\ w # None /\ SliceOf(w) \in Slice
  <2>1. w \in Service \cup Mine \cup Ticket
    BY <1>1 DEF Settling, CallsInv, AnswersExist
  <2>2. QED
    BY <1>1, <2>1, Slices, BrowseAssumption
<1>3. /\ calls' \in [Call -> Fetch \cup {None}] /\ NoNewItemCall
      /\ UNCHANGED <<walk, ticket, charge>>
      /\ calls'[c] = None /\ \A d \in Call : d # c => calls'[d] = calls[d]
  BY <1>1, SettledCall
<1>4. loading' \in [Slice -> BOOLEAN] /\ CallsInv'
  BY <1>1, <1>2, SettledFlag
<1>5. /\ current' \in [Slice -> Item \cup {None}]
      /\ current'[SliceOf(w)] = w
      /\ \A s \in Slice : s # SliceOf(w) => current'[s] = current[s]
  BY <1>1, <1>2 DEF BrowseTypeOK
<1>6. /\ n \in 1..Depth /\ DOMAIN pages = 1..n /\ n \in Nat /\ pages \in Seq(Page)
      /\ \A i \in 1..n : pages[i] \in Page
      /\ pages' = [i \in 1..n |-> [pages[i] EXCEPT !.got = pages[i].got \/ pages[i].id = w]]
  BY PagesTyped DEF ItemArrived, BrowseTypeOK
<1>7. \A i \in 1..n : [pages[i] EXCEPT !.got = pages[i].got \/ pages[i].id = w] \in Page
  BY <1>6 DEF Page
<1>8. pages' \in [1..n -> Page]
  BY <1>6, <1>7
<1>9. /\ pages' \in Seq(Page) /\ Len(pages') = n /\ DOMAIN pages' = 1..n
  BY <1>6, <1>8, FunctionIsSeq
<1>10. \A i \in 1..n : /\ pages'[i].at = pages[i].at /\ pages'[i].id = pages[i].id
                       /\ pages'[i].tab = pages[i].tab
                       /\ pages'[i].alone = pages[i].alone /\ pages'[i].busy = pages[i].busy
                       /\ pages'[i].got => pages[i].got \/ pages[i].id = w
  BY <1>6 DEF Page
<1>11. CreatesGoOn /\ PaysForOrder' /\ WorkGoesOn
  <2>1. CreatesGoOn
    BY <1>2, <1>3 DEF CreatesGoOn
  <2>2. QED
    BY <1>3, <2>1, SameCharges
<1> HIDE DEF w, n
<1>12. CatalogShown'
  <2>1. CASE SliceOf(w) = "catalog"
    BY <1>2, <1>5, <2>1, Slices DEF CatalogShown
  <2>2. CASE SliceOf(w) # "catalog"
    BY <1>5, <2>2 DEF CatalogShown, Slice
  <2>3. QED
    BY <2>1, <2>2
<1>13. current["catalog"] # None => current'["catalog"] # None
  BY <1>2, <1>5 DEF Slice
<1>14. PagesFit'
  BY <1>9, <1>10, <1>13 DEF PagesFit, n
<1>15. PagesSettled'
  <2>1. ASSUME NEW i \in 1..n, pages'[i].id # None, pages'[i].alone
        PROVE  /\ pages'[i].got => current'[SliceOf(pages'[i].id)] = pages'[i].id
               /\ \A d \in Call : ItemCall(d)' /\ SliceOf(calls'[d].what) = SliceOf(pages'[i].id) =>
                    calls'[d].what = pages'[i].id
    <3> DEFINE id == pages[i].id
    <3>1. /\ pages'[i].id = id /\ id \in Item /\ SliceOf(id) \in Slice
          /\ pages'[i].got => pages[i].got \/ id = w
      BY <1>6, <1>10, <2>1, Slices DEF Page, n
    <3>2. /\ pages[i].got => current[SliceOf(id)] = id
          /\ \A d \in Call :
               ItemCall(d) /\ SliceOf(calls[d].what) = SliceOf(id) => calls[d].what = id
      BY <1>10, <2>1 DEF PagesSettled, n
    <3> HIDE DEF id
    <3>3. \A d \in Call :
            ItemCall(d)' /\ SliceOf(calls'[d].what) = SliceOf(id) => calls'[d].what = id
      BY <1>3, <3>2 DEF NoNewItemCall
    <3>4. SliceOf(w) = SliceOf(id) => w = id
      BY <1>1, <3>2 DEF w
    <3>5. pages'[i].got => current'[SliceOf(id)] = id
      BY <1>5, <3>1, <3>2, <3>4
    <3>6. QED
      BY <3>1, <3>3, <3>5
  <2>2. QED
    BY <1>9, <2>1 DEF PagesSettled
<1>16. ResultMeansPaid'
  BY <1>3, <1>6, <1>9, <1>10 DEF ResultMeansPaid, n
<1>17. BusyHasRequest'
  <2>1. BusyGoOn
    BY <1>9, <1>10, <1>11 DEF BusyGoOn, WorkGoesOn, n
  <2>2. QED
    BY <1>6, <1>9, <2>1, BusyKept
<1>18. BrowseTypeOK'
  BY <1>1, <1>3, <1>4, <1>5, <1>6, <1>9 DEF BrowseTypeOK, n
<1>19. QED
  BY <1>4, <1>11, <1>12, <1>14, <1>15, <1>16, <1>17, <1>18

\* A button is pressed on the screen on top, which waits from then on.
LEMMA TopWaits ==
  ASSUME BrowseTypeOK, NEW b \in Charge \cup Call, pages' = Becomes([Top EXCEPT !.busy = b]),
         Working(b)', WorkGoesOn
  PROVE  PagesGoOn /\ BusyGoOn
<1> DEFINE p == [Top EXCEPT !.busy = b]
<1>1. p \in Page /\ Later(Top, p) /\ p.busy = b
  BY PagesTyped DEF Page, Later
<1> HIDE DEF p
<1>2. PagesGoOn
  BY <1>1, TopBecomes DEF p
<1>3. BusyGoOn
  <2>1. /\ Len(pages') = Len(pages) /\ pages'[Len(pages)] = p
        /\ \A i \in 1..Len(pages) : i # Len(pages) => pages'[i] = pages[i]
    BY <1>1, BecomesKeeps DEF p
  <2>2. QED
    BY <1>1, <2>1 DEF BusyGoOn, WorkGoesOn
<1>4. QED
  BY <1>2, <1>3

\* The form is submitted.
LEMMA SubmitStep ==
  ASSUME BrowseInv, NEW c \in Call, SubmitTicket(c)
  PROVE  BrowseInv'
<1> USE DEF BrowseInv
<1> DEFINE sent == [what |-> "create", reply |-> None]
<1>1. /\ calls[c] = None
      /\ calls' = [calls EXCEPT ![c] = sent]
      /\ pages' = Becomes([Top EXCEPT !.busy = c])
      /\ UNCHANGED <<walk, ticket, listed, current, loading, charge>>
  BY DEF SubmitTicket, Free, store
<1>2. sent \in Fetch /\ sent.what = "create" /\ "create" \notin Item /\ sent.reply = None
      /\ sent # None
  BY BrowseAssumption DEF Fetch
<1> HIDE DEF sent
<1>3. /\ calls' \in [Call -> Fetch \cup {None}]
      /\ calls'[c] = sent /\ \A d \in Call : d # c => calls'[d] = calls[d]
  BY <1>1, <1>2 DEF BrowseTypeOK
<1>4. NoNewItemCall
  BY <1>2, <1>3 DEF NoNewItemCall, ItemCall
<1>5. AnswersExist'
  BY <1>2, <1>3 DEF AnswersExist, CallsInv
<1>6. \A d \in Call : calls[d] # None => calls'[d] # None /\ calls'[d].what = calls[d].what
  BY <1>1, <1>3
<1>7. SliceLoadingHasCall'
  <2>1. \A s \in Slice : loading'[s] => loading[s]
    BY <1>1
  <2>2. QED
    BY <1>6, <2>1, FlagKept DEF CallsInv
<1>8. CreatesGoOn /\ ChargesKept /\ PaysForOrder' /\ WorkGoesOn
  <2>1. CreatesGoOn
    BY <1>6 DEF CreatesGoOn
  <2>2. QED
    BY <1>1, <2>1, SameCharges
<1>9. Working(c)'
  BY <1>2, <1>3 DEF Working
<1>10. PagesGoOn /\ BusyGoOn
  BY <1>1, <1>8, <1>9, TopWaits
<1>11. BrowseTypeOK'
  BY <1>1, <1>3, <1>10 DEF BrowseTypeOK, PagesGoOn
<1>12. CallsInv'
  BY <1>5, <1>7 DEF CallsInv
<1>13. QED
  BY <1>1, <1>4, <1>8, <1>10, <1>11, <1>12, QuietStep

\* The checkout's button: of a service, with the total of the one shown.
LEMMA PressStep ==
  ASSUME BrowseInv, NEW p \in Charge, PressCheckout(p)
  PROVE  BrowseInv'
<1> USE DEF BrowseInv, ScreensInv
<1> DEFINE pressed == [service |-> Top.id, price |-> current["catalog"],
                       row |-> FALSE, paid |-> None, stage |-> "creating"]
<1>1. /\ Top.at = "checkout" /\ charge[p] = None
      /\ charge' = [charge EXCEPT ![p] = pressed]
      /\ pages' = Becomes([Top EXCEPT !.busy = p])
      /\ UNCHANGED <<walk, ticket, listed, current, loading, calls>>
  BY DEF PressCheckout, CheckoutScreen, store
<1>2. Top.id \in Service /\ current["catalog"] \in Service
  BY <1>1, PagesTyped DEF PagesFit, CatalogShown
<1>3. pressed \in Pressed /\ pressed.stage = "creating" /\ pressed.paid = None
  BY <1>2 DEF Pressed
<1> HIDE DEF pressed
<1>4. /\ charge' \in [Charge -> Pressed \cup {None}] /\ charge'[p] = pressed /\ pressed # None
      /\ \A q \in Charge : q # p => charge'[q] = charge[q]
  BY <1>1, <1>3, BrowseAssumption DEF BrowseTypeOK
<1>5. ChargesKept
  BY <1>1, <1>4 DEF ChargesKept
<1>6. PaysForOrder'
  BY <1>3, <1>4 DEF PaysForOrder, At
<1>7. Working(p)'
  BY <1>3, <1>4 DEF Working, At
<1>8. NoNewItemCall /\ CallsInv'
  BY <1>1, SameCalls
<1>9. WorkGoesOn
  <2>1. \A q \in Charge : \A s : At(q, s) => At(q, s)'
    BY <1>1, <1>4 DEF At
  <2>2. QED
    BY <1>1, <2>1 DEF WorkGoesOn, Working
<1>10. PagesGoOn /\ BusyGoOn
  BY <1>1, <1>7, <1>9, TopWaits
<1>11. BrowseTypeOK'
  BY <1>1, <1>4, <1>10 DEF BrowseTypeOK, PagesGoOn
<1>12. QED
  BY <1>1, <1>5, <1>6, <1>8, <1>10, <1>11, QuietStep

\* What a request of the checkout may do to its charge.
LEMMA ChargeGoesOn ==
  ASSUME BrowseInv, NEW p \in Charge, charge[p] # None, NEW after \in Pressed,
         charge' = [charge EXCEPT ![p] = after],
         charge[p].row => after.row,
         charge[p].paid # None => after.paid # None,
         after.stage = "paying" => after.row
  PROVE  /\ charge' \in [Charge -> Pressed \cup {None}]
         /\ ChargesKept /\ PaysForOrder'
         /\ charge'[p] = after /\ after # None
         /\ \A q \in Charge : q # p => charge'[q] = charge[q]
<1>1. after # None
  BY BrowseAssumption
<1>2. /\ charge' \in [Charge -> Pressed \cup {None}] /\ charge'[p] = after
      /\ \A q \in Charge : q # p => charge'[q] = charge[q]
  BY DEF BrowseInv, BrowseTypeOK
<1>3. ChargesKept
  BY <1>1, <1>2 DEF ChargesKept
<1>4. PaysForOrder'
  BY <1>2 DEF PaysForOrder, At, BrowseInv
<1>5. QED
  BY <1>1, <1>2, <1>3, <1>4

\* The order, its payment and the failure of either: the screens stay.
LEMMA CheckoutStep ==
  ASSUME BrowseInv, NEW p \in Charge,
         ServeCreate(p) \/ CreateAnswered(p) \/ ServePayment(p) \/ CheckoutFails(p)
  PROVE  BrowseInv'
<1> USE DEF BrowseInv
<1>1. /\ charge[p] # None /\ charge[p] \in Pressed
      /\ charge[p].stage = "paying" => charge[p].row
  BY DEF ServeCreate, CreateAnswered, ServePayment, CheckoutFails, At, BrowseTypeOK, PaysForOrder
<1>2. UNCHANGED <<walk, ticket, listed, current, loading, calls>>
  BY DEF ServeCreate, CreateAnswered, ServePayment, CheckoutFails, store
<1>3. NoNewItemCall /\ CallsInv' /\ CreatesGoOn
  BY <1>2, SameCalls
<1>4. /\ charge' \in [Charge -> Pressed \cup {None}] /\ ChargesKept /\ PaysForOrder'
      /\ PagesGoOn /\ BusyGoOn
  <2>1. CASE ~CheckoutFails(p)
    <3>1. PICK after \in Pressed :
            /\ charge' = [charge EXCEPT ![p] = after]
            /\ charge[p].row => after.row
            /\ charge[p].paid # None => after.paid # None
            /\ after.stage = "paying" => after.row
            /\ after.stage \in {"creating", "paying"}
      <4>1. CASE ServeCreate(p)
        <5> DEFINE after == [charge[p] EXCEPT !.row = TRUE]
        <5>1. /\ after \in Pressed /\ after.row /\ after.paid = charge[p].paid
              /\ after.stage = charge[p].stage
          BY <1>1 DEF Pressed
        <5>2. charge' = [charge EXCEPT ![p] = after] /\ charge[p].stage = "creating"
          BY <1>1, <4>1 DEF ServeCreate, At
        <5> HIDE DEF after
        <5>3. QED
          BY <5>1, <5>2
      <4>2. CASE CreateAnswered(p)
        <5> DEFINE after == [charge[p] EXCEPT !.stage = "paying"]
        <5>1. /\ after \in Pressed /\ after.row = charge[p].row /\ after.paid = charge[p].paid
              /\ after.stage = "paying"
          BY <1>1 DEF Pressed
        <5>2. charge' = [charge EXCEPT ![p] = after] /\ charge[p].row
          BY <1>1, <4>2 DEF CreateAnswered
        <5> HIDE DEF after
        <5>3. QED
          BY <5>1, <5>2
      <4>3. CASE ServePayment(p)
        <5> DEFINE after == [charge[p] EXCEPT !.paid = charge[p].price]
        <5>1. /\ after \in Pressed /\ after.row = charge[p].row /\ after.stage = charge[p].stage
          BY <1>1 DEF Pressed
        <5>2. /\ charge' = [charge EXCEPT ![p] = after] /\ charge[p].paid = None
              /\ charge[p].stage = "paying"
          BY <1>1, <4>3 DEF ServePayment, At
        <5> HIDE DEF after
        <5>3. QED
          BY <1>1, <5>1, <5>2
      <4>4. QED
        BY <2>1, <4>1, <4>2, <4>3
    <3>2. /\ charge' \in [Charge -> Pressed \cup {None}] /\ ChargesKept /\ PaysForOrder'
          /\ charge'[p] = after /\ after # None
          /\ \A q \in Charge : q # p => charge'[q] = charge[q]
      BY <1>1, <3>1, ChargeGoesOn
    <3>3. WorkGoesOn
      <4>1. \A q \in Charge : At(q, "creating") \/ At(q, "paying") =>
                               At(q, "creating")' \/ At(q, "paying")'
        BY <3>1, <3>2 DEF At
      <4>2. QED
        BY <1>3, <4>1 DEF WorkGoesOn, Working, CreatesGoOn
    <3>4. pages' = pages
      BY <2>1 DEF ServeCreate, CreateAnswered, ServePayment
    <3>5. QED
      BY <3>2, <3>3, <3>4, SamePages
  <2>2. CASE CheckoutFails(p)
    <3> DEFINE after == [charge[p] EXCEPT !.stage = "failed"]
    <3>1. /\ after \in Pressed /\ after.row = charge[p].row /\ after.paid = charge[p].paid
          /\ after.stage = "failed"
      BY <1>1 DEF Pressed
    <3>2. charge' = [charge EXCEPT ![p] = after]
      BY <1>1, <2>2 DEF CheckoutFails
    <3> HIDE DEF after
    <3>3. /\ charge' \in [Charge -> Pressed \cup {None}] /\ ChargesKept /\ PaysForOrder'
          /\ \A q \in Charge : q # p => charge'[q] = charge[q]
      BY <1>1, <3>1, <3>2, ChargeGoesOn
    <3>4. \A d \in Charge \cup Call : d # p /\ Working(d) => Working(d)'
      <4>1. \A q \in Charge : \A s : q # p /\ At(q, s) => At(q, s)'
        BY <3>3 DEF At
      <4>2. QED
        BY <1>3, <4>1 DEF Working, CreatesGoOn
    <3>5. /\ pages' = NoLonger(p, pages) /\ pages \in Seq(Page) /\ Len(pages) \in 1..Depth
          /\ \A i \in 1..Len(pages) : Later(pages[i], pages[i])
      BY <2>2 DEF CheckoutFails, BrowseTypeOK, Later
    <3>6. PagesGoOn /\ BusyGoOn
      BY <3>4, <3>5, NoLongerGoesOn
    <3>7. QED
      BY <3>3, <3>6
  <2>3. QED
    BY <2>1, <2>2
<1>5. BrowseTypeOK'
  BY <1>2, <1>4 DEF BrowseTypeOK, PagesGoOn
<1>6. QED
  BY <1>2, <1>3, <1>4, <1>5, QuietStep

\* The result takes the place of whatever page is on top; its charge is of an order, paid.
LEMMA PaidStep ==
  ASSUME BrowseInv, NEW p \in Charge, PaymentAnswered(p)
  PROVE  BrowseInv'
<1> USE DEF BrowseInv
<1> DEFINE after == [charge[p] EXCEPT !.stage = "done"]
<1>1. /\ charge[p] # None /\ charge[p] \in Pressed /\ charge[p].paid # None /\ charge[p].row
  BY DEF PaymentAnswered, At, BrowseTypeOK, PaysForOrder
<1>2. /\ charge' = [charge EXCEPT ![p] = after]
      /\ UNCHANGED <<walk, ticket, listed, current, loading, calls>>
  BY DEF PaymentAnswered, store
<1>3. /\ after \in Pressed /\ after.row = charge[p].row /\ after.paid = charge[p].paid
      /\ after.stage = "done"
  BY <1>1 DEF Pressed
<1> HIDE DEF after
<1>4. /\ charge' \in [Charge -> Pressed \cup {None}] /\ ChargesKept /\ PaysForOrder'
      /\ charge'[p] = after /\ after # None
      /\ \A q \in Charge : q # p => charge'[q] = charge[q]
  BY <1>1, <1>2, <1>3, ChargeGoesOn
<1>5. NoNewItemCall /\ CallsInv' /\ CreatesGoOn
  BY <1>2, SameCalls
<1>6. Paid'
  BY <1>1, <1>3, <1>4 DEF Paid
<1>7. \A d \in Charge \cup Call : d # p /\ Working(d) => Working(d)'
  <2>1. \A q \in Charge : \A s : q # p /\ At(q, s) => At(q, s)'
    BY <1>4 DEF At
  <2>2. QED
    BY <1>5, <2>1 DEF Working, CreatesGoOn
<1>8. PICK n \in 0..Len(pages) - 1 : pages' = NoLonger(p, ResultOver(n))
  BY DEF PaymentAnswered
<1>9. /\ ResultOver(n) \in Seq(Page) /\ Len(ResultOver(n)) \in 1..Depth
      /\ \A i \in 1..Len(ResultOver(n)) :
           \/ IsNew(ResultOver(n)[i]) /\ ResultOver(n)[i].busy = None
           \/ \E j \in 1..Len(pages) : /\ Later(pages[j], ResultOver(n)[i])
                                       /\ ResultOver(n)[i].busy \in {pages[j].busy, None}
  <2> DEFINE rest == SubSeq(pages, 1, n)
             rs   == ResultOver(n)
  <2>1. /\ pages \in Seq(Page) /\ Len(pages) \in Nat /\ Len(pages) <= Depth /\ Depth \in Nat
        /\ n \in Nat /\ n \in 0..Len(pages) /\ n + 1 \in 1..Depth
    BY PagesTyped, BrowseAssumption
  <2>2. /\ rest \in Seq(Page) /\ Len(rest) = n
        /\ \A i \in 1..n : i \in 1..Len(pages) /\ rest[i] = pages[i]
    BY <2>1, PrefixKeeps
  <2>3. Screen("result") \in Page /\ IsNew(Screen("result")) /\ Screen("result").busy = None
    BY <1>6 DEF Screen, Page, IsNew
  <2>4. rs = Append(rest, Screen("result"))
    BY DEF ResultOver
  <2> HIDE DEF rest, rs
  <2>5. /\ rs \in Seq(Page) /\ Len(rs) = n + 1 /\ rs[n + 1] = Screen("result")
        /\ \A i \in 1..n : rs[i] = rest[i]
    BY <2>2, <2>3, <2>4, AppendProperties
  <2>6. \A i \in 1..n + 1 : i \in 1..n \/ i = n + 1
    BY <2>1
  <2>7. \A i \in 1..n + 1 :
          \/ IsNew(rs[i]) /\ rs[i].busy = None
          \/ \E j \in 1..Len(pages) : Later(pages[j], rs[i]) /\ rs[i].busy \in {pages[j].busy, None}
    <3>1. TAKE i \in 1..n + 1
    <3>2. CASE i = n + 1
      BY <2>3, <2>5, <3>2
    <3>3. CASE i \in 1..n
      <4>1. i \in 1..Len(pages) /\ rs[i] = pages[i]
        BY <2>2, <2>5, <3>3
      <4>2. QED
        BY <4>1 DEF Later
    <3>4. QED
      BY <2>6, <3>2, <3>3
  <2>8. QED
    BY <2>1, <2>5, <2>7 DEF rs
<1>10. PagesGoOn /\ BusyGoOn
  BY <1>7, <1>8, <1>9, NoLongerGoesOn
<1>11. BrowseTypeOK'
  BY <1>2, <1>4, <1>10 DEF BrowseTypeOK, PagesGoOn
<1>12. QED
  BY <1>2, <1>4, <1>5, <1>10, <1>11, QuietStep

-----------------------------------------------------------------------------
LEMMA BrowseStart == Init => BrowseInv
<1> SUFFICES ASSUME Init PROVE BrowseInv
  OBVIOUS
<1> DEFINE first == pages[1]
<1>1. PICK vs \in SUBSET Tabs : pages = <<NewTabs("profile", vs)>>
  BY DEF Init, Tabs
<1>2. NewTabs("profile", vs) \in Page
  BY DEF NewTabs, Screen, Page, Tabs
<1>3. /\ pages \in Seq(Page) /\ Len(pages) = 1 /\ DOMAIN pages = 1..1
      /\ pages[1] = NewTabs("profile", vs)
  BY <1>1, <1>2
<1>4. /\ \A i \in 1..Len(pages) : i = 1
      /\ first.at = "tabs" /\ first.tab \in Tabs /\ first.id = None /\ first.busy = None
  BY <1>3 DEF NewTabs, Screen, Tabs
<1>5. BrowseTypeOK
  BY <1>3, BrowseAssumption DEF Init, BrowseTypeOK
<1>6. ScreensInv
  <2>1. CatalogShown
    BY DEF Init, CatalogShown, Slice
  <2>2. PagesFit /\ PagesSettled /\ BusyHasRequest
    BY <1>3, <1>4 DEF PagesFit, PagesSettled, BusyHasRequest
  <2>3. QED
    BY <2>1, <2>2 DEF ScreensInv
<1>7. CallsInv
  BY DEF Init, CallsInv, AnswersExist, SliceLoadingHasCall
<1>8. PaysForOrder /\ ResultMeansPaid
  BY <1>3, <1>4 DEF Init, PaysForOrder, At, ResultMeansPaid
<1>9. QED
  BY <1>5, <1>6, <1>7, <1>8 DEF BrowseInv

LEMMA BrowseStep == BrowseInv /\ [Next]_vars => BrowseInv'
<1> SUFFICES ASSUME BrowseInv, [Next]_vars PROVE BrowseInv'
  OBVIOUS
<1>1. ASSUME NEW t \in Tabs, SwitchTab(t) \/ LeaveResult(t) PROVE BrowseInv'
  BY <1>1, TabStep
<1>2. ASSUME NEW l \in OnPage(Top).links, OpenPage(l) PROVE BrowseInv'
  BY <1>2, OpenStep
<1>3. CASE Back
  BY <1>3, BackStep
<1>4. ASSUME NEW c \in Call, Serve(c) PROVE BrowseInv'
  BY <1>4, ServeStep
<1>5. ASSUME NEW c \in Call, Settle(c) PROVE BrowseInv'
  BY <1>5, ListStep, ItemStep, FormStep DEF Settle
<1>6. ASSUME NEW c \in Call, SubmitTicket(c) PROVE BrowseInv'
  BY <1>6, SubmitStep
<1>7. ASSUME NEW p \in Charge, PressCheckout(p) PROVE BrowseInv'
  BY <1>7, PressStep
<1>8. ASSUME NEW p \in Charge, Checkout(p) PROVE BrowseInv'
  BY <1>8, CheckoutStep, PaidStep DEF Checkout
<1>9. CASE UNCHANGED vars
  BY <1>9 DEF vars, store, BrowseInv, BrowseTypeOK, ScreensInv, CatalogShown, PagesFit,
              PagesSettled, ItemCall, BusyHasRequest, Working, CallsInv, AnswersExist,
              SliceLoadingHasCall, PaysForOrder, At, ResultMeansPaid
<1>10. QED
  BY <1>1, <1>2, <1>3, <1>4, <1>5, <1>6, <1>7, <1>8, <1>9 DEF Next

LEMMA BrowseInvariant == Spec => []BrowseInv
BY BrowseStart, BrowseStep, PTL DEF Spec

-----------------------------------------------------------------------------
\* Type correctness of the screens, the slices, the requests and the charges.
THEOREM ScreensTypeCorrect == Spec => []BrowseTypeOK
<1>1. BrowseInv => BrowseTypeOK
  BY DEF BrowseInv
<1>2. QED
  BY <1>1, BrowseInvariant, PTL

\* A slice's flag is up only while one of its fetches is in flight: the spinners of its screens
\* have an answer, or a failure, to end them.
THEOREM FlagsHaveFetches == Spec => []SliceLoadingHasCall
<1>1. BrowseInv => SliceLoadingHasCall
  BY DEF BrowseInv, CallsInv
<1>2. QED
  BY <1>1, BrowseInvariant, PTL

\* A page opened while no page's fetch of its slice was in flight shows its own item from its
\* own answer on, whatever is answered meanwhile and whatever that opens no page of an item over
\* it is left again: [id].tsx reads the slice as it is.
THEOREM AlonePagesSettle == Spec => []SettledPage
<1>1. BrowseInv => SettledPage
  BY PagesTyped DEF BrowseInv, ScreensInv, PagesSettled, SettledPage
<1>2. QED
  BY <1>1, BrowseInvariant, PTL

\* The checkout's and the form's buttons wait only for a request on its way, whichever screens
\* the answers replace or leave.
THEOREM ButtonsWaitForRequests == Spec => []BusyHasRequest
<1>1. BrowseInv => BusyHasRequest
  BY DEF BrowseInv, ScreensInv
<1>2. QED
  BY <1>1, BrowseInvariant, PTL

\* The success screen is never shown for an order that is not there or not paid.
THEOREM ResultsArePaid == Spec => []ResultMeansPaid
<1>1. BrowseInv => ResultMeansPaid
  BY DEF BrowseInv
<1>2. QED
  BY <1>1, BrowseInvariant, PTL
=============================================================================
