---------------------------- MODULE SessionProofs ----------------------------
(***************************************************************************)
(* Proofs about Session.  What holds of the screens rests on the shape of  *)
(* the root Stack: a route holds its own screens only, and every route     *)
(* beneath another is the student's, so with one student route at most,    *)
(* logging out leaves nothing beneath the login screen.  What holds of the *)
(* token and of the identities rests on facts of what is in flight:        *)
(* nothing is while the splash screen is shown, a sign-in names an         *)
(* account, an answer to an account's call carries that account's picture  *)
(* or none, and an answer to a removal carries none.                       *)
(***************************************************************************)
EXTENDS Session, SequenceTheorems, TLAPS

TopOf(rs) == rs[Len(rs)][Len(rs[Len(rs)])]

\* A route: screens of one kind, at least one.
IsRoute(r) ==
  /\ r \in Seq(Screen) /\ Len(r) >= 1
  /\ \A k \in 1..Len(r) : RouteOf(r[k]) = RouteOf(r[1])

\* A root Stack: beneath the route on top there are student routes only.
Stacked(rs) ==
  /\ rs \in Seq(Seq(Screen)) /\ Len(rs) >= 1
  /\ \A i \in 1..Len(rs) : IsRoute(rs[i])
  /\ \A i \in 1..Len(rs) - 1 : RouteOf(rs[i][1]) = "student"

\* While nothing went astray, student routes are not doubled, and the signed-out have one
\* route, of their own.
NotAstray ==
  ~astray => /\ ~Doubled(routes)
             /\ token = None => Len(routes) = 1 /\ Top \in SignedOutScreen

\* The splash screen is shown to a process that has just started.
SplashIsFresh ==
  Top = "splash" => routes = <<<<"splash">>>> /\ user = None /\ \A c \in Call : calls[c] = None

\* A sign-in names an account, and a save that is done had one.
Saved(call) == call.op = "save" /\ call.reply # None /\ call.reply.ok
SubjectsKnown ==
  \A c \in Call :
    calls[c] # None /\ (IsSignIn(calls[c].op) \/ Saved(calls[c])) => calls[c].of \in Account

\* Pictures stay with who uploaded them.
PicturesOwned ==
  \A c \in Call : calls[c] # None /\ calls[c].reply # None =>
    /\ calls[c].reply.picture \in {calls[c].of, None}
    /\ calls[c].op = "remove" => calls[c].reply.picture = None

SessionInv ==
  /\ SessionTypeOK /\ Stacked(routes) /\ NotAstray /\ SplashIsFresh
  /\ TokenAgrees /\ LoadingHasCall /\ SubjectsKnown /\ PicturesOwned

Serving(c) == ServeLogin(c) \/ ServePassword(c) \/ ServeRegister(c) \/ ServeSave(c)
                \/ ServePicture(c) \/ ServeKyc(c) \/ Fail(c)

-----------------------------------------------------------------------------
\* Sequences with one element more, or without the last one.
LEMMA Adding ==
  ASSUME NEW S, NEW q \in Seq(S), NEW e \in S
  PROVE  /\ Append(q, e) \in Seq(S) /\ Len(Append(q, e)) = Len(q) + 1 /\ Len(q) \in Nat
         /\ Append(q, e)[Len(q) + 1] = e
         /\ \A i \in 1..Len(q) : Append(q, e)[i] = q[i]
OBVIOUS

LEMMA Dropping ==
  ASSUME NEW S, NEW q \in Seq(S), Len(q) >= 1
  PROVE  /\ SubSeq(q, 1, Len(q) - 1) \in Seq(S)
         /\ Len(SubSeq(q, 1, Len(q) - 1)) = Len(q) - 1 /\ Len(q) \in Nat
         /\ \A i \in 1..Len(q) - 1 : SubSeq(q, 1, Len(q) - 1)[i] = q[i]
<1>1. Len(q) \in Nat /\ \A i \in 1..Len(q) - 1 : q[i] \in S
  OBVIOUS
<1>2. Len(q) - 1 \in Int /\ 1 \in Int
  BY <1>1
<1>3. /\ SubSeq(q, 1, Len(q) - 1) \in Seq(S)
      /\ Len(SubSeq(q, 1, Len(q) - 1)) = IF 1 <= Len(q) - 1 THEN Len(q) - 1 - 1 + 1 ELSE 0
      /\ \A i \in 1..Len(q) - 1 - 1 + 1 : SubSeq(q, 1, Len(q) - 1)[i] = q[1 + i - 1]
  BY <1>1, <1>2, SubSeqProperties
<1>4. (IF 1 <= Len(q) - 1 THEN Len(q) - 1 - 1 + 1 ELSE 0) = Len(q) - 1 /\ Len(q) - 1 - 1 + 1 = Len(q) - 1
  <2>1. \A k \in Nat : k >= 1 =>
          (IF 1 <= k - 1 THEN k - 1 - 1 + 1 ELSE 0) = k - 1 /\ k - 1 - 1 + 1 = k - 1
    OBVIOUS
  <2> QED  BY <1>1, <2>1, Zenon
<1>5. \A i \in 1..Len(q) - 1 : 1 + i - 1 = i
  BY <1>1
<1> QED  BY <1>1, <1>3, <1>4, <1>5

\* The screens of the signed-in are those of three routes.
LEMMA SidesAreRoutes ==
  \A s \in Screen : /\ s \in SignedInScreen <=> RouteOf(s) \in {"student", "shared", "executor"}
                    /\ s \in SignedOutScreen <=> s \notin SignedInScreen
                    /\ RouteOf(s) = "splash" <=> s = "splash"
BY DEF Screen, SignedInScreen, SignedOutScreen, RouteOf

\* The screen on top of a stack is one of its route's.
LEMMA TopOfStack ==
  ASSUME NEW rs, Stacked(rs)
  PROVE  /\ Len(rs) \in Nat \ {0} /\ rs[Len(rs)] \in Seq(Screen)
         /\ Len(rs[Len(rs)]) \in Nat \ {0}
         /\ TopOf(rs) \in Screen /\ RouteOf(TopOf(rs)) = RouteOf(rs[Len(rs)][1])
<1>1. Len(rs) \in Nat \ {0} /\ IsRoute(rs[Len(rs)])
  BY DEF Stacked
<1>2. Len(rs[Len(rs)]) \in Nat \ {0} /\ rs[Len(rs)] \in Seq(Screen)
  BY <1>1 DEF IsRoute
<1>3. Len(rs[Len(rs)]) \in 1..Len(rs[Len(rs)])
  BY <1>2
<1> QED  BY <1>1, <1>2, <1>3, ElementOfSeq DEF IsRoute, TopOf

\* A stack with another route r for the one on top.
LEMMA OtherTop ==
  ASSUME Stacked(routes), NEW r, IsRoute(r)
  PROVE  LET rs == Append(Beneath, r) IN
         /\ Stacked(rs) /\ Len(rs) = Len(routes) /\ TopOf(rs) = r[Len(r)]
         /\ \A i \in 1..Len(rs) - 1 : rs[i] = routes[i]
         /\ rs[Len(rs)] = r
<1> DEFINE rs == Append(Beneath, r)
           n == Len(routes)
<1>1. routes \in Seq(Seq(Screen)) /\ n \in Nat /\ n >= 1 /\ r \in Seq(Screen)
  BY DEF Stacked, IsRoute
<1>2. Beneath \in Seq(Seq(Screen)) /\ Len(Beneath) = n - 1
      /\ \A i \in 1..n - 1 : Beneath[i] = routes[i]
  BY <1>1, Dropping DEF Beneath
<1>3. rs \in Seq(Seq(Screen)) /\ Len(rs) = n - 1 + 1 /\ rs[n - 1 + 1] = r
      /\ \A i \in 1..n - 1 : rs[i] = Beneath[i]
  BY <1>1, <1>2, Adding
<1>4. n - 1 + 1 = n /\ \A i \in 1..n : i = n \/ i \in 1..n - 1
  BY <1>1
<1>5. Len(rs) = n /\ rs[n] = r /\ \A i \in 1..n - 1 : rs[i] = routes[i] /\ i \in 1..n
  BY <1>1, <1>2, <1>3, <1>4
<1>6. Stacked(rs)
  <2>1. \A i \in 1..n : IsRoute(rs[i])
    BY <1>4, <1>5 DEF Stacked
  <2>2. \A i \in 1..n - 1 : RouteOf(rs[i][1]) = "student"
    BY <1>5 DEF Stacked
  <2> QED  BY <1>1, <1>3, <1>5, <2>1, <2>2 DEF Stacked
<1> QED  BY <1>5, <1>6 DEF TopOf

\* A route with s for its last screen, with s added, without its last screen.
LEMMA EndingRoute ==
  ASSUME Stacked(routes), NEW s \in Screen, RouteOf(s) = RouteOf(Top)
  PROVE  IsRoute(Ending(s)) /\ Ending(s)[Len(Ending(s))] = s
<1>1. TopRoute \in Seq(Screen) /\ Len(TopRoute) \in Nat \ {0} /\ IsRoute(TopRoute)
      /\ RouteOf(Top) = RouteOf(TopRoute[1])
  BY TopOfStack DEF Stacked, TopRoute, Top, TopOf
<1>2. Len(TopRoute) \in 1..Len(TopRoute) /\ 1 \in 1..Len(TopRoute)
  BY <1>1
<1>3. Ending(s) \in Seq(Screen) /\ Len(Ending(s)) = Len(TopRoute)
      /\ \A k \in 1..Len(TopRoute) : Ending(s)[k] = IF k = Len(TopRoute) THEN s ELSE TopRoute[k]
  BY <1>1, <1>2, ExceptSeq DEF Ending
<1>4. \A k \in 1..Len(TopRoute) : RouteOf(Ending(s)[k]) = RouteOf(Top)
  BY <1>1, <1>3 DEF IsRoute
<1> QED  BY <1>1, <1>2, <1>3, <1>4 DEF IsRoute

LEMMA LongerRoute ==
  ASSUME Stacked(routes), NEW s \in Screen, RouteOf(s) = RouteOf(Top)
  PROVE  LET r == Append(TopRoute, s) IN IsRoute(r) /\ r[Len(r)] = s
<1> DEFINE r == Append(TopRoute, s)
<1>1. TopRoute \in Seq(Screen) /\ Len(TopRoute) \in Nat \ {0} /\ IsRoute(TopRoute)
      /\ RouteOf(Top) = RouteOf(TopRoute[1])
  BY TopOfStack DEF Stacked, TopRoute, Top, TopOf
<1>2. r \in Seq(Screen) /\ Len(r) = Len(TopRoute) + 1 /\ r[Len(TopRoute) + 1] = s
      /\ \A k \in 1..Len(TopRoute) : r[k] = TopRoute[k]
  BY <1>1, Adding
<1>3. \A k \in 1..Len(TopRoute) + 1 : k = Len(TopRoute) + 1 \/ k \in 1..Len(TopRoute)
  BY <1>1
<1>4. 1 \in 1..Len(TopRoute) /\ Len(TopRoute) + 1 >= 1
  BY <1>1
<1>5. \A k \in 1..Len(r) : RouteOf(r[k]) = RouteOf(Top)
  BY <1>1, <1>2, <1>3 DEF IsRoute
<1> QED  BY <1>1, <1>2, <1>4, <1>5 DEF IsRoute

LEMMA ShorterRoute ==
  ASSUME Stacked(routes), Len(TopRoute) > 1
  PROVE  LET r == SubSeq(TopRoute, 1, Len(TopRoute) - 1) IN
         /\ IsRoute(r) /\ r[Len(r)] \in Screen /\ RouteOf(r[Len(r)]) = RouteOf(Top)
<1> DEFINE r == SubSeq(TopRoute, 1, Len(TopRoute) - 1)
<1>1. TopRoute \in Seq(Screen) /\ Len(TopRoute) \in Nat \ {0} /\ IsRoute(TopRoute)
      /\ RouteOf(Top) = RouteOf(TopRoute[1])
  BY TopOfStack DEF Stacked, TopRoute, Top, TopOf
<1>2. r \in Seq(Screen) /\ Len(r) = Len(TopRoute) - 1
      /\ \A k \in 1..Len(TopRoute) - 1 : r[k] = TopRoute[k]
  BY <1>1, Dropping
<1>3. Len(TopRoute) - 1 >= 1 /\ Len(TopRoute) - 1 \in 1..Len(TopRoute) - 1
      /\ 1 \in 1..Len(TopRoute) - 1 /\ \A k \in 1..Len(TopRoute) - 1 : k \in 1..Len(TopRoute)
  BY <1>1
<1>4. \A k \in 1..Len(r) : RouteOf(r[k]) = RouteOf(Top)
  BY <1>1, <1>2, <1>3 DEF IsRoute
<1>5. r[Len(r)] \in Screen
  BY <1>2, <1>3, ElementOfSeq
<1> QED  BY <1>2, <1>3, <1>4, <1>5 DEF IsRoute

\* A route of one screen.
LEMMA ShortRoute ==
  ASSUME NEW s \in Screen
  PROVE  IsRoute(<<s>>) /\ <<s>>[Len(<<s>>)] = s
BY DEF IsRoute

LEMMA LoneRoute ==
  ASSUME NEW s \in Screen
  PROVE  /\ Stacked(<<<<s>>>>) /\ TopOf(<<<<s>>>>) = s /\ Len(<<<<s>>>>) = 1 /\ ~Doubled(<<<<s>>>>)
<1>1. <<<<s>>>> \in Seq(Seq(Screen)) /\ Len(<<<<s>>>>) = 1 /\ <<<<s>>>>[1] = <<s>>
      /\ DOMAIN <<<<s>>>> = 1..1
  OBVIOUS
<1>2. \A i \in 1..1 : i = 1
  OBVIOUS
<1>3. \A i \in 1..1 - 1 : FALSE
  OBVIOUS
<1> QED  BY <1>1, <1>2, <1>3, ShortRoute DEF Stacked, TopOf, Doubled

\* Student routes that are not doubled: one of them, beneath another route or alone.
LEMMA NotDoubled ==
  ASSUME NEW rs, Stacked(rs), ~Doubled(rs)
  PROVE  RouteOf(TopOf(rs)) = "student" => Len(rs) = 1
<1> SUFFICES ASSUME RouteOf(TopOf(rs)) = "student", Len(rs) # 1 PROVE FALSE
  OBVIOUS
<1>1. Len(rs) \in Nat /\ Len(rs) >= 1 /\ DOMAIN rs = 1..Len(rs)
  BY DEF Stacked
<1>2. 1 \in 1..Len(rs) /\ Len(rs) \in 1..Len(rs) /\ 1 \in 1..Len(rs) - 1
  BY <1>1
<1>3. RouteOf(rs[1][1]) = "student" /\ RouteOf(rs[Len(rs)][1]) = "student"
  BY <1>2, TopOfStack DEF Stacked
<1> QED  BY <1>1, <1>2, <1>3 DEF Doubled

\* What the router does with a stack.
LEMMA ReplacingShape ==
  ASSUME Stacked(routes), NEW s \in Screen
  PROVE  /\ Stacked(Replacing(s)) /\ Len(Replacing(s)) = Len(routes) /\ TopOf(Replacing(s)) = s
         /\ \A i \in 1..Len(routes) - 1 : Replacing(s)[i] = routes[i]
<1>1. CASE RouteOf(s) = RouteOf(Top)
  <2>1. Replacing(s) = Append(Beneath, Ending(s))
    BY <1>1 DEF Replacing
  <2> QED  BY <1>1, <2>1, EndingRoute, OtherTop
<1>2. CASE RouteOf(s) # RouteOf(Top)
  <2> DEFINE r == <<s>>
  <2>1. Replacing(s) = Append(Beneath, r)
    BY <1>2 DEF Replacing
  <2>2. IsRoute(r) /\ r[Len(r)] = s
    BY ShortRoute
  <2> HIDE DEF r
  <2> QED  BY <2>1, <2>2, OtherTop
<1> QED  BY <1>1, <1>2

\* Where the buttons of a screen lead.
LEMMA Links ==
  ASSUME NEW at
  PROVE  /\ \A s \in OnScreen(at).pushes :
              /\ s \in Screen
              /\ at # "splash" /\ s # "splash"
              /\ RouteOf(s) # RouteOf(at) => at = "tabs"
         /\ \A s \in OnScreen(at).replaces :
              /\ s \in Screen
              /\ at # "splash" /\ s # "splash"
              /\ at \in SignedOutScreen => s \in SignedOutScreen
         /\ \A op \in OnScreen(at).dispatches : at # "splash" /\ op \in Operation \cup Preparation
<1>1. CASE at \in SignedInScreen
  BY <1>1 DEF OnScreen, Offers, ProfileScreen, SettingsScreen, KycSubmitScreen,
              KycStatusScreen, EditProfileScreen, SignedInScreen, SignedOutScreen, Screen, RouteOf,
              Operation, Preparation
<1>2. CASE at \in SignedOutScreen
  BY <1>2 DEF OnScreen, Offers, OnboardingScreen, LoginScreen, RegisterScreen, ForgotScreen,
              ResetScreen, SignedOutScreen, Screen, RouteOf, Operation
<1>3. CASE at \notin SignedInScreen \cup SignedOutScreen
  BY <1>3 DEF OnScreen, Offers, SignedOutScreen, SignedInScreen
<1> QED  BY <1>1, <1>2, <1>3

LEMMA PushingShape ==
  ASSUME Stacked(routes), NEW s \in Screen, s \in OnScreen(Top).pushes
  PROVE  /\ Stacked(Pushing(s)) /\ TopOf(Pushing(s)) = s
         /\ Top \in SignedOutScreen => Len(Pushing(s)) = Len(routes) /\ s \in SignedOutScreen
<1>0. Top \in Screen
  BY TopOfStack DEF Top, TopRoute, TopOf
<1>1. CASE RouteOf(s) = RouteOf(Top)
  <2> DEFINE r == Append(TopRoute, s)
  <2>1. Pushing(s) = Append(Beneath, r)
    BY <1>1 DEF Pushing
  <2>2. IsRoute(r) /\ r[Len(r)] = s
    BY <1>1, LongerRoute
  <2>3. Top \in SignedOutScreen => s \in SignedOutScreen
    BY <1>0, <1>1, SidesAreRoutes
  <2> HIDE DEF r
  <2> QED  BY <2>1, <2>2, <2>3, OtherTop
<1>2. CASE RouteOf(s) # RouteOf(Top)
  <2> DEFINE rs == Append(routes, <<s>>)
             n  == Len(routes)
  <2>1. Pushing(s) = rs
    BY <1>2 DEF Pushing
  <2>2. Top = "tabs" /\ Top \notin SignedOutScreen
    BY <1>2, Links DEF SignedOutScreen
  <2>3. RouteOf(routes[n][1]) = "student"
    BY <2>2, TopOfStack DEF Top, TopRoute, TopOf, RouteOf
  <2>4. routes \in Seq(Seq(Screen)) /\ n \in Nat /\ n >= 1 /\ <<s>> \in Seq(Screen)
    BY DEF Stacked
  <2>5. rs \in Seq(Seq(Screen)) /\ Len(rs) = n + 1 /\ rs[n + 1] = <<s>>
        /\ \A i \in 1..n : rs[i] = routes[i]
    BY <2>4, Adding
  <2>6. n + 1 >= 1 /\ n + 1 - 1 = n /\ (\A i \in 1..n + 1 : i = n + 1 \/ i \in 1..n)
        /\ \A i \in 1..n : i = n \/ i \in 1..n - 1
    BY <2>4
  <2>7. \A i \in 1..n + 1 : IsRoute(rs[i])
    BY <2>5, <2>6, ShortRoute DEF Stacked
  <2>8. \A i \in 1..n : RouteOf(rs[i][1]) = "student"
    BY <2>3, <2>5, <2>6 DEF Stacked
  <2>9. Stacked(rs)
    <3> HIDE DEF rs, n
    <3>0. \A l, k \in Nat : l = k + 1 => l - 1 = k /\ l >= 1
      OBVIOUS
    <3>1. Len(rs) = n + 1 /\ n \in Nat /\ n + 1 \in Nat
      BY <2>4, <2>5
    <3>2. Len(rs) - 1 = n /\ Len(rs) >= 1
      BY <3>0, <3>1
    <3> QED  BY <2>5, <2>7, <2>8, <3>1, <3>2 DEF Stacked
  <2> QED  BY <2>1, <2>2, <2>5, <2>9, ShortRoute DEF TopOf
<1> QED  BY <1>1, <1>2

LEMMA GoingBackShape ==
  ASSUME Stacked(routes)
  PROVE  /\ Stacked(GoingBack)
         /\ \/ Len(GoingBack) = Len(routes) /\ RouteOf(TopOf(GoingBack)) = RouteOf(Top)
            \/ Len(routes) # 1 /\ RouteOf(TopOf(GoingBack)) = "student"
<1>0. Len(routes) \in Nat \ {0} /\ Len(TopRoute) \in Nat \ {0}
  BY TopOfStack DEF TopRoute
<1>1. CASE Len(TopRoute) > 1
  <2>1. GoingBack = Append(Beneath, SubSeq(TopRoute, 1, Len(TopRoute) - 1))
    BY <1>1 DEF GoingBack
  <2> QED  BY <1>1, <2>1, ShorterRoute, OtherTop
<1>2. CASE ~(Len(TopRoute) > 1) /\ Len(routes) > 1
  <2> DEFINE n == Len(routes)
  <2>1. GoingBack = Beneath
    BY <1>2 DEF GoingBack
  <2>2. routes \in Seq(Seq(Screen)) /\ Len(routes) >= 1
    BY DEF Stacked
  <2>3. Beneath \in Seq(Seq(Screen)) /\ Len(Beneath) = n - 1
        /\ \A i \in 1..n - 1 : Beneath[i] = routes[i]
    BY <2>2, Dropping DEF Beneath
  <2>4. n - 1 >= 1 /\ n - 1 \in 1..n - 1 /\ (\A i \in 1..n - 1 : i \in 1..n)
        /\ \A i \in 1..n - 1 - 1 : i \in 1..n - 1
    BY <1>0, <1>2
  <2>5. Stacked(Beneath)
    BY <2>3, <2>4 DEF Stacked
  <2>6. RouteOf(Beneath[n - 1][1]) = "student"
    BY <2>3, <2>4 DEF Stacked
  <2>7. Len(routes) # 1
    <3>1. ~(1 > 1)
      OBVIOUS
    <3> QED  BY <1>2, <3>1, Zenon
  <2> QED  BY <2>1, <2>3, <2>5, <2>6, <2>7, TopOfStack
<1>3. CASE ~(Len(TopRoute) > 1) /\ ~(Len(routes) > 1)
  BY <1>3 DEF GoingBack, Top, TopRoute, TopOf
<1> QED  BY <1>1, <1>2, <1>3

\* From the only route of the signed-out there is no going back to others.
LEMMA BackOfSignedOut ==
  ASSUME Stacked(routes), Len(routes) = 1, Top \in SignedOutScreen
  PROVE  Len(GoingBack) = 1 /\ TopOf(GoingBack) \in SignedOutScreen
<1>1. Len(GoingBack) = 1 /\ RouteOf(TopOf(GoingBack)) = RouteOf(Top)
  BY GoingBackShape, Zenon
<1>2. TopOf(GoingBack) \in Screen /\ Top \in Screen
  BY GoingBackShape, TopOfStack DEF Screen
<1> QED  BY <1>1, <1>2, SidesAreRoutes

\* Showing a stack keeps what holds of the screens, if it does of the stack.
LEMMA ShowKeeps ==
  ASSUME NEW rs, Stacked(rs), TopOf(rs) # "splash", Show(rs), astray \in BOOLEAN,
         ~astray /\ ~Doubled(rs) /\ token' = None => Len(rs) = 1 /\ TopOf(rs) \in SignedOutScreen
  PROVE  Stacked(routes)' /\ astray' \in BOOLEAN /\ NotAstray' /\ SplashIsFresh'
<1>1. astray' = (astray \/ Doubled(rs))
  BY DEF Show
<1>2. CASE routes' = rs
  <2>1. Top' = TopOf(rs)
    BY <1>2 DEF Top, TopRoute, TopOf
  <2> QED  BY <1>1, <1>2, <2>1 DEF NotAstray, SplashIsFresh, Doubled, Stacked
<1>3. CASE routes' = <<<<"crashed">>>>
  <2>1. "crashed" \in Screen /\ "crashed" \in SignedOutScreen
    BY DEF Screen, SignedOutScreen
  <2>2. Stacked(routes') /\ TopOf(routes') = "crashed" /\ Len(routes') = 1 /\ ~Doubled(routes')
    BY <1>3, <2>1, LoneRoute
  <2>3. Top' = "crashed" /\ Stacked(routes)' /\ ~Doubled(routes)' /\ Len(routes)' = 1
    BY <2>2 DEF Top, TopRoute, TopOf, Stacked, Doubled
  <2> QED  BY <1>1, <2>1, <2>3 DEF NotAstray, SplashIsFresh
<1> QED  BY <1>2, <1>3 DEF Show

-----------------------------------------------------------------------------
\* What serving a call changes: its reply, and rows of the table.
LEMMA ServingChanges ==
  ASSUME SessionAssumption, SessionTypeOK, SubjectsKnown, NEW c \in Call, Serving(c)
  PROVE  /\ calls[c] \in CallRecord /\ calls[c] # None
         /\ \E r \in Reply :
              /\ calls' = [calls EXCEPT ![c] = [calls[c] EXCEPT !.reply = r]]
              /\ r.picture \in {calls[c].of, None}
              /\ calls[c].op = "remove" => r.picture = None
              /\ calls[c].op = "save" /\ r.ok => calls[c].of \in Account
         /\ account' \subseteq Account
         /\ UNCHANGED <<declared, screens, store>>
<1>1. calls[c] \in CallRecord /\ calls[c] # None
  BY DEF Serving, ServeLogin, ServePassword, ServeRegister, ServeSave, ServePicture, ServeKyc, Fail,
         Waiting, SessionTypeOK
<1>2. calls[c].of \in Account \cup {None} /\ (Known(c) => calls[c].of \in Account)
  BY <1>1 DEF CallRecord, Known, SessionTypeOK
<1>3. /\ Failed \in Reply /\ Failed.picture = None
      /\ \A p \in Picture : Done(p) \in Reply /\ Done(p).picture = p
      /\ calls[c].of \in Picture /\ None \in Picture
      /\ ~Failed.ok
  BY <1>2 DEF Failed, Done, Reply, Picture
<1>4. CASE ServeLogin(c)
  BY <1>1, <1>3, <1>4 DEF ServeLogin, Replied, SessionTypeOK
<1>5. CASE ServePassword(c)
  BY <1>1, <1>3, <1>5 DEF ServePassword, Replied, SessionTypeOK
<1>6. CASE ServeRegister(c)
  <2>1. calls[c].of \in Account
    BY <1>1, <1>6 DEF ServeRegister, SubjectsKnown, IsSignIn
  <2>2. account' \subseteq Account
    BY <1>6, <2>1 DEF ServeRegister, SessionTypeOK
  <2> QED  BY <1>1, <1>3, <1>6, <2>2 DEF ServeRegister, Replied
<1>7. CASE ServeSave(c)
  BY <1>1, <1>2, <1>3, <1>7 DEF ServeSave, Replied, SessionTypeOK
<1>8. CASE ServePicture(c)
  BY <1>1, <1>3, <1>8 DEF ServePicture, Replied, SessionTypeOK
<1>9. CASE ServeKyc(c)
  BY <1>1, <1>3, <1>9 DEF ServeKyc, Replied, SessionTypeOK
<1>10. CASE Fail(c)
  BY <1>1, <1>3, <1>10 DEF Fail, Replied, SessionTypeOK
<1> QED  BY <1>4, <1>5, <1>6, <1>7, <1>8, <1>9, <1>10, <1>1 DEF Serving

\* What an answer leaves of the calls.
LEMMA AnswersChange ==
  ASSUME SessionAssumption, SessionTypeOK, NEW c \in Call, NEW ops, NEW ok, Answers(c, ops, ok)
  PROVE  /\ calls[c] \in CallRecord /\ calls[c] # None
         /\ calls[c].reply \in Reply /\ calls[c].reply # None
         /\ calls[c].op \in ops /\ calls[c].of \in Account \cup {None}
         /\ calls' \in [Call -> CallRecord \cup {None}]
         /\ calls' = [calls EXCEPT ![c] = None]
         /\ calls'[c] = None
         /\ UNCHANGED <<declared, account>>
BY DEF Answers, SessionTypeOK, CallRecord

\* Whoever signs in is somebody.
LEMMA SignInIsSomebody ==
  ASSUME SessionAssumption, SessionTypeOK, SubjectsKnown, NEW c \in Call, SignInAnswered(c)
  PROVE  calls[c].of \in Account /\ calls[c].of # None /\ token' = calls[c].of
BY DEF SignInAnswered, Answers, SubjectsKnown, IsSignIn, SessionAssumption

\* Who starts a call, or has one, has left the splash screen.
LEMMA SplashHasNoCalls ==
  ASSUME SplashIsFresh, NEW c \in Call, calls[c] # None
  PROVE  Top # "splash"
BY DEF SplashIsFresh

-----------------------------------------------------------------------------
\* Initially the splash screen is shown, nobody is signed in and nothing is in flight.
LEMMA InitSession == SessionAssumption /\ Init => SessionInv
<1> SUFFICES ASSUME SessionAssumption, Init PROVE SessionInv
  OBVIOUS
<1>1. Stacked(routes) /\ TopOf(routes) = "splash" /\ Len(routes) = 1 /\ ~Doubled(routes)
      /\ "splash" \in SignedOutScreen
  <2>1. "splash" \in Screen /\ "splash" \in SignedOutScreen
    BY DEF Screen, SignedOutScreen
  <2> QED  BY <2>1, LoneRoute DEF Init
<1>2. SessionTypeOK
  BY <1>1 DEF Init, SessionTypeOK, SessionAssumption, Stacked
<1>3. NotAstray /\ SplashIsFresh
  BY <1>1 DEF Init, NotAstray, SplashIsFresh, Top, TopRoute, TopOf
<1>4. TokenAgrees /\ LoadingHasCall /\ SubjectsKnown /\ PicturesOwned
  BY DEF Init, TokenAgrees, LoadingHasCall, SubjectsKnown, PicturesOwned
<1> QED  BY <1>1, <1>2, <1>3, <1>4 DEF SessionInv

\* The stacks keep their shape; logging out leaves one student route at most, and nothing that
\* happens to the signed-out opens one, unless something went astray.
LEMMA NextScreens ==
  ASSUME SessionAssumption, SessionInv, [Next]_vars
  PROVE  Stacked(routes)' /\ astray' \in BOOLEAN /\ NotAstray' /\ SplashIsFresh'
<1>0. /\ SessionTypeOK /\ Stacked(routes) /\ NotAstray /\ SplashIsFresh /\ SubjectsKnown
      /\ astray \in BOOLEAN
      /\ Top = TopOf(routes) /\ Top \in Screen
      /\ ~astray /\ token = None => Len(routes) = 1 /\ Top \in SignedOutScreen
  BY TopOfStack DEF SessionInv, SessionTypeOK, Top, TopRoute, TopOf, NotAstray
<1>a. \A s \in SignedOutScreen \cup SignedInScreen : s \in Screen
  BY DEF Screen
<1>1. CASE SplashEnds
  <2> DEFINE s == IF user # None THEN "tabs" ELSE "onboarding"
  <2>1. user = None /\ s = "onboarding" /\ s \in SignedOutScreen /\ s # "splash"
    BY <1>0, <1>1 DEF SplashEnds, SplashIsFresh, SignedOutScreen
  <2>2. Show(Replacing(s)) /\ token' = token
    BY <1>1 DEF SplashEnds, store
  <2> HIDE DEF s
  <2> QED  BY <1>0, <1>a, <2>1, <2>2, ReplacingShape, ShowKeeps
<1>2. CASE Back
  <2>1. Top # "splash"
    <3>1. ASSUME Top = "splash" PROVE FALSE
      <4>1. routes = <<<<"splash">>>>
        BY <1>0, <3>1 DEF SplashIsFresh
      <4>2. Len(routes) = 1 /\ Len(TopRoute) = 1
        BY <4>1 DEF TopRoute
      <4> QED  BY <1>2, <3>1, <4>2 DEF Back, GoingBack
    <3> QED  BY <3>1
  <2>2. Show(GoingBack) /\ token' = token
    BY <1>2 DEF Back, store
  <2>3. Stacked(GoingBack) /\ TopOf(GoingBack) \in Screen
    BY <1>0, GoingBackShape, TopOfStack
  <2>4. TopOf(GoingBack) # "splash"
    BY <1>0, <2>1, <2>3, GoingBackShape, SidesAreRoutes
  <2>5. ~astray /\ token' = None => Len(GoingBack) = 1 /\ TopOf(GoingBack) \in SignedOutScreen
    BY <1>0, <2>2, BackOfSignedOut
  <2> QED  BY <1>0, <2>2, <2>3, <2>4, <2>5, ShowKeeps
<1>3. CASE Restart
  <2>1. "splash" \in Screen /\ "splash" \in SignedOutScreen
    BY DEF Screen, SignedOutScreen
  <2>2. Stacked(routes') /\ TopOf(routes') = "splash" /\ Len(routes') = 1 /\ ~Doubled(routes')
    BY <1>3, <2>1, LoneRoute DEF Restart
  <2>3. Top' = "splash" /\ Stacked(routes)' /\ ~Doubled(routes)' /\ Len(routes)' = 1
    BY <2>2 DEF Top, TopRoute, TopOf, Stacked, Doubled
  <2> QED  BY <1>3, <2>1, <2>3 DEF Restart, NotAstray, SplashIsFresh
<1>4. CASE Logout
  <2>1. RouteOf(Top) = "student"
    BY <1>4 DEF Logout, RouteOf
  <2>2. ~astray => Len(routes) = 1
    BY <1>0, <2>1, NotDoubled DEF NotAstray
  <2>3. "login" \in SignedOutScreen /\ Show(Replacing("login"))
    BY <1>4 DEF Logout, SignedOutScreen
  <2> QED  BY <1>0, <1>a, <2>2, <2>3, ReplacingShape, ShowKeeps
<1>5. CASE Push
  <2>1. PICK s \in OnScreen(Top).pushes : Show(Pushing(s)) /\ token' = token
    BY <1>5 DEF Push, store
  <2>2. s # "splash" /\ s \in Screen
    BY Links
  <2> QED  BY <1>0, <2>1, <2>2, PushingShape, ShowKeeps
<1>6. CASE Replace
  <2>1. PICK s \in OnScreen(Top).replaces : Show(Replacing(s)) /\ token' = token
    BY <1>6 DEF Replace, store
  <2>2. s # "splash" /\ s \in Screen /\ (Top \in SignedOutScreen => s \in SignedOutScreen)
    BY Links
  <2> QED  BY <1>0, <2>1, <2>2, ReplacingShape, ShowKeeps
<1>7. ASSUME NEW c \in Call, Press(c)
      PROVE  Stacked(routes)' /\ astray' \in BOOLEAN /\ NotAstray' /\ SplashIsFresh'
  <2>1. Top # "splash"
    BY <1>7, Links DEF Press
  <2> QED  BY <1>0, <1>7, <2>1 DEF Press, screens, Stacked, NotAstray, SplashIsFresh, Top, TopRoute
<1>8. ASSUME NEW c \in Call, Prepared(c) \/ Dismissed(c) \/ Serving(c)
      PROVE  Stacked(routes)' /\ astray' \in BOOLEAN /\ NotAstray' /\ SplashIsFresh'
  <2>1. calls[c] # None /\ UNCHANGED <<screens, store>>
    BY <1>0, <1>8, ServingChanges DEF Prepared, Dismissed
  <2>2. Top # "splash"
    BY <1>0, <2>1, SplashHasNoCalls
  <2> QED  BY <1>0, <2>1, <2>2
           DEF screens, store, Stacked, NotAstray, SplashIsFresh, Top, TopRoute
<1>9. ASSUME NEW c \in Call, Settle(c)
      PROVE  Stacked(routes)' /\ astray' \in BOOLEAN /\ NotAstray' /\ SplashIsFresh'
  <2>0. Top # "splash"
    <3>1. calls[c] # None
      BY <1>9 DEF Settle, SignInAnswered, SignInRefused, PasswordAnswered, SaveAnswered,
                  PictureAnswered, KycAnswered, Refused, Answers
    <3> QED  BY <1>0, <3>1, SplashHasNoCalls
  <2>1. CASE SignInAnswered(c)
    <3>1. token' # None
      BY <1>0, <2>1, SignInIsSomebody
    <3>2. Show(Replacing("tabs")) /\ "tabs" \in Screen
      BY <2>1 DEF SignInAnswered, Screen, SignedInScreen
    <3> QED  BY <1>0, <3>1, <3>2, ReplacingShape, ShowKeeps
  <2>2. CASE SignInRefused(c) \/ PictureAnswered(c) \/ Refused(c)
    <3>1. UNCHANGED <<routes, astray, token>>
      BY <2>2 DEF SignInRefused, PictureAnswered, Refused, screens, store
    <3> QED  BY <1>0, <2>0, <3>1 DEF Stacked, NotAstray, SplashIsFresh, Top, TopRoute
  <2>3. CASE PasswordAnswered(c)
    <3> DEFINE s == IF calls[c].op = "forgot" THEN "reset" ELSE "login"
    <3>1. Show(Replacing(s)) /\ s \in SignedOutScreen /\ s # "splash" /\ token' = token
      BY <2>3 DEF PasswordAnswered, SignedOutScreen, store
    <3> HIDE DEF s
    <3> QED  BY <1>0, <1>a, <3>1, ReplacingShape, ShowKeeps
  <2>4. CASE SaveAnswered(c)
    <3>1. token' = token /\ (Show(GoingBack) \/ UNCHANGED <<routes, astray>>)
      BY <2>4 DEF SaveAnswered, screens
    <3>2. Stacked(GoingBack) /\ TopOf(GoingBack) \in Screen
      BY <1>0, GoingBackShape, TopOfStack
    <3>3. TopOf(GoingBack) # "splash"
      BY <1>0, <2>0, <3>2, GoingBackShape, SidesAreRoutes
    <3>4. ~astray /\ token' = None => Len(GoingBack) = 1 /\ TopOf(GoingBack) \in SignedOutScreen
      BY <1>0, <3>1, BackOfSignedOut
    <3>5. CASE Show(GoingBack)
      BY <1>0, <3>2, <3>3, <3>4, <3>5, ShowKeeps
    <3>6. CASE UNCHANGED <<routes, astray>>
      BY <1>0, <2>0, <3>1, <3>6 DEF Stacked, NotAstray, SplashIsFresh, Top, TopRoute
    <3> QED  BY <3>1, <3>5, <3>6
  <2>5. CASE KycAnswered(c)
    <3>1. routes' = Replacing("status") /\ astray' = (astray \/ token = None) /\ token' = token
      BY <2>5 DEF KycAnswered, store
    <3>2. "status" \in Screen /\ RouteOf("status") = "executor"
      BY DEF Screen, SignedInScreen, RouteOf
    <3>3. Stacked(routes') /\ TopOf(routes') = "status" /\ Len(routes') = Len(routes)
          /\ \A i \in 1..Len(routes) - 1 : routes'[i] = routes[i]
      BY <1>0, <3>1, <3>2, ReplacingShape
    <3>4. Top' = "status" /\ Stacked(routes)'
      BY <3>3 DEF Top, TopRoute, TopOf, Stacked
    <3>5. Doubled(routes') => Doubled(routes)
      <4>1. RouteOf(routes'[Len(routes)][1]) = "executor"
        BY <3>2, <3>3, TopOfStack
      <4>2. Len(routes) \in Nat \ {0} /\ DOMAIN routes = 1..Len(routes)
            /\ DOMAIN routes' = 1..Len(routes)
        BY <1>0, <3>3 DEF Stacked
      <4>3. \A i \in 1..Len(routes) : i = Len(routes) \/ i \in 1..Len(routes) - 1
        <5>1. \A n \in Nat : \A i \in 1..n : i = n \/ i \in 1..n - 1
          OBVIOUS
        <5> QED  BY <4>2, <5>1, Zenon
      <4> QED  BY <3>3, <4>1, <4>2, <4>3 DEF Doubled
    <3>6. Doubled(routes)' <=> Doubled(routes')
      BY DEF Doubled
    <3> QED  BY <1>0, <3>1, <3>4, <3>5, <3>6 DEF NotAstray, SplashIsFresh
  <2> QED  BY <1>9, <2>1, <2>2, <2>3, <2>4, <2>5 DEF Settle
<1>10. CASE UNCHANGED vars
  BY <1>0, <1>10 DEF vars, screens, store, Stacked, NotAstray, SplashIsFresh, Top, TopRoute
<1> QED  BY <1>1, <1>2, <1>3, <1>4, <1>5, <1>6, <1>7, <1>8, <1>9, <1>10
         DEF Next, Resolve, Serve, Serving

\* A button starts a call that is not answered yet; a sign-in is an account's, and loads.
LEMMA PressStarts ==
  ASSUME SessionTypeOK, NEW c \in Call, Press(c)
  PROVE  \E r \in CallRecord :
           /\ calls[c] = None /\ calls' = [calls EXCEPT ![c] = r] /\ r.reply = None
           /\ IsSignIn(r.op) => r.of \in Account
           /\ loading' = (loading \/ IsSignIn(r.op))
<1>0. PICK op \in OnScreen(Top).dispatches :
        \E a \in Subjects(op) :
          /\ calls' = [calls EXCEPT ![c] = [op |-> op, of |-> a, reply |-> None]]
          /\ loading' = (loading \/ IsSignIn(op))
  BY DEF Press
<1>1. PICK a \in Subjects(op) :
        /\ calls' = [calls EXCEPT ![c] = [op |-> op, of |-> a, reply |-> None]]
        /\ loading' = (loading \/ IsSignIn(op))
  BY <1>0
<1>2. op \in Operation \cup Preparation
  BY Links
<1>3. a \in Account \cup {None} /\ (IsSignIn(op) => a \in Account)
  <2>1. op \in {"login", "register", "forgot", "reset", "save", "kyc"} \cup Preparation
    BY Links DEF OnScreen, Offers, OnboardingScreen, LoginScreen, RegisterScreen, ForgotScreen,
                 ResetScreen, ProfileScreen, SettingsScreen, KycSubmitScreen,
                 KycStatusScreen, EditProfileScreen, Preparation
  <2> QED  BY <2>1 DEF Subjects, IsSignIn, Preparation, SessionTypeOK
<1>4. [op |-> op, of |-> a, reply |-> None] \in CallRecord
  BY <1>2, <1>3 DEF CallRecord
<1> QED  BY <1>1, <1>3, <1>4 DEF Press

\* Types are kept by every step.
LEMMA NextTyped ==
  ASSUME SessionAssumption, SessionInv, [Next]_vars
  PROVE  SessionTypeOK'
<1>0. SessionTypeOK /\ SubjectsKnown
  BY DEF SessionInv
<1>a. SUFFICES /\ declared' \in BOOLEAN /\ account' \subseteq Account
               /\ user' \in User \cup {None}
               /\ token' \in Account \cup {None} /\ apiToken' \in Account \cup {None}
               /\ loading' \in BOOLEAN
               /\ calls' \in [Call -> CallRecord \cup {None}]
  BY NextScreens DEF SessionTypeOK, Stacked
<1>1. CASE SplashEnds \/ Back \/ Restart \/ Logout \/ Push \/ Replace
  BY <1>0, <1>1 DEF SplashEnds, Back, Restart, Logout, Push, Replace, store, SessionTypeOK
<1>2. ASSUME NEW c \in Call, Press(c)
      PROVE  SessionTypeOK'
  <2>1. PICK r \in CallRecord : calls' = [calls EXCEPT ![c] = r]
    BY <1>0, <1>2, PressStarts
  <2>2. loading' \in BOOLEAN
    BY <1>0, <1>2 DEF Press, SessionTypeOK, IsSignIn
  <2> QED  BY <1>0, <1>2, <2>1, <2>2, NextScreens DEF Press, SessionTypeOK, Stacked
<1>3. ASSUME NEW c \in Call, Prepared(c) \/ Dismissed(c)
      PROVE  SessionTypeOK'
  <2>1. [op |-> Dispatched(calls[c].op), of |-> apiToken, reply |-> None] \in CallRecord
    BY <1>0 DEF CallRecord, Dispatched, Operation, SessionTypeOK
  <2>2. calls' \in [Call -> CallRecord \cup {None}]
    BY <1>0, <1>3, <2>1 DEF Prepared, Dismissed, SessionTypeOK
  <2> QED  BY <1>0, <1>3, <2>2, NextScreens DEF Prepared, Dismissed, store, SessionTypeOK, Stacked
<1>4. ASSUME NEW c \in Call, Serving(c)
      PROVE  SessionTypeOK'
  <2>1. PICK r \in Reply : calls' = [calls EXCEPT ![c] = [calls[c] EXCEPT !.reply = r]]
    BY <1>0, <1>4, ServingChanges
  <2>2. [calls[c] EXCEPT !.reply = r] \in CallRecord
    BY <1>0, <1>4, ServingChanges DEF CallRecord
  <2>3. calls' \in [Call -> CallRecord \cup {None}]
    BY <1>0, <2>1, <2>2 DEF SessionTypeOK
  <2> QED  BY <1>0, <1>4, <2>3, ServingChanges, NextScreens DEF SessionTypeOK, store, Stacked
<1>5. ASSUME NEW c \in Call, Settle(c)
      PROVE  SessionTypeOK'
  <2>1. CASE SignInAnswered(c)
    <3>1. [id |-> calls[c].of, picture |-> None] \in User
      BY <1>0, <2>1, SignInIsSomebody DEF User, Picture
    <3> QED  BY <1>0, <2>1, <3>1, AnswersChange, SignInIsSomebody, NextScreens
             DEF SignInAnswered, SessionTypeOK, Stacked
  <2>2. CASE SignInRefused(c)
    BY <1>0, <2>2, AnswersChange, NextScreens DEF SignInRefused, SessionTypeOK, Stacked
  <2>3. CASE PasswordAnswered(c)
    BY <1>0, <2>3, AnswersChange, NextScreens DEF PasswordAnswered, SessionTypeOK, Stacked, store
  <2>4. CASE SaveAnswered(c)
    <3>1. calls[c].of \in Account
      BY <1>0, <2>4 DEF SaveAnswered, Answers, SubjectsKnown, Saved
    <3>2. [id |-> calls[c].of, picture |-> calls[c].reply.picture] \in User
      BY <1>0, <2>4, <3>1, AnswersChange DEF SaveAnswered, User, Reply
    <3> QED  BY <1>0, <2>4, <3>2, AnswersChange, NextScreens
             DEF SaveAnswered, SessionTypeOK, Stacked
  <2>5. CASE PictureAnswered(c)
    <3>1. user' \in User \cup {None}
      BY <1>0, <2>5, AnswersChange DEF PictureAnswered, SessionTypeOK, User, Reply
    <3> QED  BY <1>0, <2>5, <3>1, AnswersChange, NextScreens
             DEF PictureAnswered, SessionTypeOK, Stacked
  <2>6. CASE KycAnswered(c) \/ Refused(c)
    BY <1>0, <2>6, AnswersChange, NextScreens DEF KycAnswered, Refused, SessionTypeOK, Stacked, store
  <2> QED  BY <1>5, <2>1, <2>2, <2>3, <2>4, <2>5, <2>6 DEF Settle
<1>6. CASE UNCHANGED vars
  BY <1>0, <1>6 DEF vars, store, SessionTypeOK
<1> QED  BY <1>1, <1>2, <1>3, <1>4, <1>5, <1>6 DEF Next, Resolve, Serve, Serving, SessionTypeOK

\* The token's two copies change together, and whoever raised the loading flag is in flight.
LEMMA NextInFlight ==
  ASSUME SessionAssumption, SessionInv, [Next]_vars
  PROVE  TokenAgrees' /\ LoadingHasCall' /\ SubjectsKnown'
<1>0. SessionTypeOK /\ TokenAgrees /\ LoadingHasCall /\ SubjectsKnown
  BY DEF SessionInv
<1>1. CASE SplashEnds \/ Back \/ Restart \/ Logout \/ Push \/ Replace
  <2>1. CASE Restart
    BY <2>1 DEF Restart, TokenAgrees, LoadingHasCall, SubjectsKnown
  <2>2. CASE Logout
    BY <1>0, <2>2 DEF Logout, TokenAgrees, LoadingHasCall, SubjectsKnown
  <2>3. CASE UNCHANGED <<store, calls>>
    BY <1>0, <2>3 DEF store, TokenAgrees, LoadingHasCall, SubjectsKnown
  <2> QED  BY <1>1, <2>1, <2>2, <2>3 DEF SplashEnds, Back, Push, Replace
<1>2. ASSUME NEW c \in Call, Press(c)
      PROVE  TokenAgrees' /\ LoadingHasCall' /\ SubjectsKnown'
  <2>1. PICK r \in CallRecord : /\ calls[c] = None /\ calls' = [calls EXCEPT ![c] = r]
                                /\ r.reply = None /\ (IsSignIn(r.op) => r.of \in Account)
                                /\ loading' = (loading \/ IsSignIn(r.op))
    BY <1>0, <1>2, PressStarts
  <2>2. calls'[c] = r /\ r # None /\ \A d \in Call \ {c} : calls'[d] = calls[d]
    BY <1>0, <2>1 DEF SessionTypeOK, SessionAssumption
  <2>4. LoadingHasCall'
    BY <1>0, <2>1, <2>2 DEF LoadingHasCall
  <2>5. SubjectsKnown'
    BY <1>0, <2>1, <2>2 DEF SubjectsKnown, Saved
  <2> QED  BY <1>0, <1>2, <2>4, <2>5 DEF Press, TokenAgrees
<1>3. ASSUME NEW c \in Call, Prepared(c) \/ Dismissed(c)
      PROVE  TokenAgrees' /\ LoadingHasCall' /\ SubjectsKnown'
  <2>1. /\ calls[c] # None /\ ~IsSignIn(calls[c].op)
        /\ \A d \in Call \ {c} : calls'[d] = calls[d]
        /\ UNCHANGED store
    BY <1>0, <1>3 DEF Prepared, Dismissed, SessionTypeOK, IsSignIn, Preparation
  <2>2. calls'[c] # None => ~IsSignIn(calls'[c].op) /\ ~Saved(calls'[c])
    BY <1>0, <1>3 DEF Prepared, Dismissed, SessionTypeOK, IsSignIn, Dispatched, Saved
  <2> QED  BY <1>0, <2>1, <2>2 DEF store, TokenAgrees, LoadingHasCall, SubjectsKnown
<1>4. ASSUME NEW c \in Call, Serving(c)
      PROVE  TokenAgrees' /\ LoadingHasCall' /\ SubjectsKnown'
  <2>1. PICK r \in Reply : /\ calls' = [calls EXCEPT ![c] = [calls[c] EXCEPT !.reply = r]]
                           /\ calls[c].op = "save" /\ r.ok => calls[c].of \in Account
    BY <1>0, <1>4, ServingChanges
  <2>2. calls[c] \in CallRecord /\ calls[c] # None /\ [calls[c] EXCEPT !.reply = r] \in CallRecord
        /\ UNCHANGED store
    BY <1>0, <1>4, ServingChanges DEF CallRecord
  <2>3. /\ calls'[c] # None /\ calls'[c].op = calls[c].op /\ calls'[c].of = calls[c].of
        /\ calls'[c].reply = r
        /\ \A d \in Call \ {c} : calls'[d] = calls[d]
    BY <1>0, <2>1, <2>2 DEF SessionTypeOK, SessionAssumption, CallRecord
  <2> QED  BY <1>0, <2>1, <2>2, <2>3 DEF store, TokenAgrees, LoadingHasCall, SubjectsKnown, Saved
<1>5. ASSUME NEW c \in Call, Settle(c)
      PROVE  TokenAgrees' /\ LoadingHasCall' /\ SubjectsKnown'
  <2>1. calls'[c] = None /\ \A d \in Call \ {c} : calls'[d] = calls[d]
    BY <1>0, <1>5 DEF Settle, SignInAnswered, SignInRefused, PasswordAnswered, SaveAnswered,
                      PictureAnswered, KycAnswered, Refused, Answers, SessionTypeOK
  <2>2. SubjectsKnown'
    BY <1>0, <2>1 DEF SubjectsKnown
  <2>3. CASE SignInAnswered(c) \/ SignInRefused(c)
    BY <1>0, <2>2, <2>3 DEF SignInAnswered, SignInRefused, TokenAgrees, LoadingHasCall
  <2>4. CASE ~(SignInAnswered(c) \/ SignInRefused(c))
    <3>1. ~IsSignIn(calls[c].op) /\ UNCHANGED <<token, apiToken, loading>>
      BY <1>5, <2>4 DEF Settle, PasswordAnswered, SaveAnswered, PictureAnswered, KycAnswered, Refused,
                        Answers, IsSignIn, store
    <3>2. LoadingHasCall'
      BY <1>0, <2>1, <3>1 DEF LoadingHasCall
    <3> QED  BY <1>0, <2>2, <3>1, <3>2 DEF TokenAgrees
  <2> QED  BY <2>3, <2>4
<1>6. CASE UNCHANGED vars
  BY <1>0, <1>6 DEF vars, store, TokenAgrees, LoadingHasCall, SubjectsKnown
<1> QED  BY <1>1, <1>2, <1>3, <1>4, <1>5, <1>6 DEF Next, Resolve, Serve, Serving

\* A picture is only ever answered to a call about its uploader.
LEMMA NextPictures ==
  ASSUME SessionAssumption, SessionInv, [Next]_vars
  PROVE  PicturesOwned'
<1>0. SessionTypeOK /\ PicturesOwned /\ SubjectsKnown
  BY DEF SessionInv
<1>1. CASE \A c \in Call : calls'[c] = None \/ calls'[c].reply = None \/ calls'[c] = calls[c]
  BY <1>0, <1>1 DEF PicturesOwned
<1>2. ASSUME NEW c \in Call, Prepared(c) \/ Dismissed(c)
      PROVE  PicturesOwned'
  <2>1. calls'[c] = None \/ calls'[c].reply = None
    BY <1>0, <1>2 DEF Prepared, Dismissed, SessionTypeOK
  <2>2. \A d \in Call \ {c} : calls'[d] = calls[d]
    BY <1>0, <1>2 DEF Prepared, Dismissed, SessionTypeOK
  <2> QED  BY <1>1, <2>1, <2>2
<1>3. ASSUME NEW c \in Call, Serving(c)
      PROVE  PicturesOwned'
  <2>1. PICK r \in Reply : /\ calls' = [calls EXCEPT ![c] = [calls[c] EXCEPT !.reply = r]]
                           /\ r.picture \in {calls[c].of, None}
                           /\ calls[c].op = "remove" => r.picture = None
    BY <1>0, <1>3, ServingChanges
  <2>2. calls[c] \in CallRecord /\ calls[c] # None
    BY <1>0, <1>3, ServingChanges
  <2>3. /\ calls'[c].reply = r /\ calls'[c].of = calls[c].of /\ calls'[c].op = calls[c].op
        /\ \A d \in Call \ {c} : calls'[d] = calls[d]
    BY <1>0, <2>1, <2>2 DEF SessionTypeOK, CallRecord
  <2> QED  BY <1>0, <2>1, <2>3 DEF PicturesOwned
<1>4. CASE SplashEnds \/ Back \/ Restart \/ Logout \/ Push \/ Replace
  <2>1. \A c \in Call : calls'[c] \in {None, calls[c]}
    BY <1>4 DEF SplashEnds, Back, Restart, Logout, Push, Replace
  <2> QED  BY <1>1, <2>1
<1>5. ASSUME NEW c \in Call, Settle(c)
      PROVE  PicturesOwned'
  <2>1. \A d \in Call : calls'[d] \in {None, calls[d]}
    BY <1>0, <1>5 DEF Settle, SignInAnswered, SignInRefused, PasswordAnswered, SaveAnswered,
                      PictureAnswered, KycAnswered, Refused, Answers, SessionTypeOK
  <2> QED  BY <1>1, <2>1
<1>6. ASSUME NEW c \in Call, Press(c)
      PROVE  PicturesOwned'
  <2>1. calls'[c].reply = None /\ \A d \in Call \ {c} : calls'[d] = calls[d]
    BY <1>0, <1>6, PressStarts DEF SessionTypeOK
  <2> QED  BY <1>1, <2>1
<1>7. CASE UNCHANGED vars
  BY <1>0, <1>7 DEF vars, PicturesOwned
<1> QED  BY <1>2, <1>3, <1>4, <1>5, <1>6, <1>7 DEF Next, Resolve, Serve, Serving

LEMMA NextSession == SessionAssumption /\ SessionInv /\ [Next]_vars => SessionInv'
BY NextTyped, NextScreens, NextInFlight, NextPictures DEF SessionInv

\* Who is signed out has one route of the signed-out's, unless something went astray.
LEMMA SignedInFromInv == SessionAssumption /\ SessionInv => ScreensSignedIn
<1> SUFFICES ASSUME SessionInv, Top \in SignedInScreen, token = None PROVE astray
  BY DEF ScreensSignedIn
<1>1. Top \in Screen
  BY TopOfStack DEF SessionInv, Top, TopRoute, TopOf
<1> QED  BY <1>1, SidesAreRoutes DEF SessionInv, NotAstray

\* A step that mixes two identities settles a save or an upload of another account.
LEMMA MixingStep ==
  ASSUME SessionAssumption, SessionInv, [Next]_vars, Consistent, ~Consistent'
  PROVE  LateAnswer
<1>0. SessionTypeOK /\ PicturesOwned /\ SubjectsKnown
  BY DEF SessionInv
<1>1. ~UNCHANGED <<user, token>>
  BY DEF Consistent
<1>2. PICK c \in Call : Settle(c)
  <2>1. CASE Restart \/ Logout
    BY <2>1 DEF Restart, Logout, Consistent
  <2>2. CASE \E c \in Call : Serving(c)
    BY <1>0, <1>1, <2>2, ServingChanges DEF store
  <2> QED  BY <1>1, <2>1, <2>2 DEF Next, SplashEnds, Back, Push, Replace, Press, Prepared, Dismissed,
                                   Resolve, Serve, Serving, vars, store
<1>3. SaveAnswered(c) \/ PictureAnswered(c)
  <2>1. CASE SignInAnswered(c)
    <3>1. [id |-> calls[c].of, picture |-> None] \in User /\ token' = calls[c].of /\ token' # None
      BY <1>0, <2>1, SignInIsSomebody DEF User, Picture
    <3>2. user' # None /\ user'.id = token' /\ user'.picture = None
      BY <2>1, <3>1 DEF SignInAnswered, SessionAssumption
    <3> QED  BY <3>1, <3>2 DEF Consistent
  <2> QED  BY <1>1, <1>2, <2>1 DEF Settle, SignInRefused, PasswordAnswered, KycAnswered, Refused, store
<1>4. /\ calls[c] # None /\ calls[c].reply # None /\ calls'[c] = None
      /\ calls[c].op \in {"save", "upload", "remove"}
  <2>1. calls[c] \in CallRecord /\ calls[c] # None
    BY <1>0, <1>3 DEF SaveAnswered, PictureAnswered, Answers, SessionTypeOK
  <2> QED  BY <1>0, <1>3, <2>1 DEF SaveAnswered, PictureAnswered, Answers, CallRecord, SessionTypeOK
<1>5. SUFFICES ASSUME calls[c].op = "remove" \/ calls[c].of = token
              PROVE  FALSE
  BY <1>4 DEF LateAnswer
<1>6. calls[c].reply \in Reply /\ calls[c].reply.picture \in {calls[c].of, None}
      /\ (calls[c].op = "remove" => calls[c].reply.picture = None)
  <2>1. calls[c].reply \in Reply
    BY <1>0, <1>4 DEF SessionTypeOK, CallRecord
  <2> QED  BY <1>0, <1>4, <2>1 DEF PicturesOwned
<1>7. CASE SaveAnswered(c)
  <2>1. calls[c].of = token /\ token \in Account /\ token # None
    <3>1. calls[c].of \in Account
      BY <1>0, <1>4, <1>7 DEF SaveAnswered, Answers, SubjectsKnown, Saved
    <3> QED  BY <1>5, <1>7, <3>1 DEF SaveAnswered, Answers, SessionAssumption
  <2>2. [id |-> token, picture |-> calls[c].reply.picture] \in User
    BY <1>6, <2>1 DEF User, Reply
  <2>3. user' # None /\ user'.id = token /\ user'.picture \in {token, None} /\ token' = token
    BY <1>6, <1>7, <2>1, <2>2 DEF SaveAnswered, SessionAssumption
  <2> QED  BY <2>1, <2>3 DEF Consistent
<1>8. CASE PictureAnswered(c)
  <2>1. user # None /\ token # None /\ user \in User /\ user.id = token
    BY <1>0, <1>1, <1>8 DEF PictureAnswered, Consistent, SessionTypeOK
  <2>2. user' = [user EXCEPT !.picture = calls[c].reply.picture] /\ token' = token
    BY <1>8, <2>1 DEF PictureAnswered
  <2>3. user' \in User /\ user'.id = token /\ user'.picture = calls[c].reply.picture
    BY <1>6, <2>1, <2>2 DEF User, Reply
  <2> QED  BY <1>5, <1>6, <2>1, <2>2, <2>3 DEF Consistent, SessionAssumption
<1> QED  BY <1>3, <1>7, <1>8

-----------------------------------------------------------------------------
LEMMA SessionInvariant == ASSUME SessionAssumption PROVE Spec => []SessionInv
<1>1. Init => SessionInv
  BY InitSession
<1>2. SessionInv /\ [Next]_vars => SessionInv'
  BY NextSession
<1> QED  BY <1>1, <1>2, PTL DEF Spec

\* For any accounts and calls: types, tokens, screens and spinners agree in every reachable state,
\* and only a late answer to a save or an upload can mix two identities in the auth slice.
THEOREM SessionSafe ==
  ASSUME SessionAssumption
  PROVE  Spec => /\ [](SessionTypeOK /\ TokenAgrees /\ ScreensSignedIn /\ LoadingHasCall)
                 /\ OnlyLateAnswersMix
<1>1. SessionInv => SessionTypeOK /\ TokenAgrees /\ ScreensSignedIn /\ LoadingHasCall
  BY SignedInFromInv DEF SessionInv
<1>2. SessionInv /\ [Next]_vars => [Consistent /\ ~Consistent' => LateAnswer]_vars
  BY MixingStep
<1> QED  BY <1>1, <1>2, SessionInvariant, PTL DEF Spec, OnlyLateAnswersMix
=============================================================================
