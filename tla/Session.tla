------------------------------ MODULE Session ------------------------------
(***************************************************************************)
(* The client's session: the auth slice of the store, the token that       *)
(* apiFetch sends, the screens from the splash to the profile editor and   *)
(* the verification's, as the router stacks them, and the accounts the     *)
(* server answers about.  Nothing is persisted on the device: a restart    *)
(* forgets the session.                                                    *)
(*                                                                         *)
(* Every thunk is a call: dispatched by a button, resolved by the server   *)
(* or by a failure (a refusal, an exception, a lost connection), answered  *)
(* when its promise settles.  No screen is left out of an answer's way: a  *)
(* handler goes on after its await whatever the user has done meanwhile,   *)
(* and Button (Button.tsx:54-59) shows a spinner while loading but can be  *)
(* pressed again.                                                          *)
(*                                                                         *)
(* login.tsx and the login reducer use identifiers that nothing declares   *)
(* at this commit.  declared is FALSE for the code as it stands, where the *)
(* login screen throws when it is shown, and TRUE for the code with the    *)
(* identifiers bound as AuthContext.tsx and authSlice.test.ts have them.   *)
(***************************************************************************)
EXTENDS Naturals, Sequences

CONSTANTS
  Account, \* people, each with an address: an account is named by its owner
  Registered, \* those who have an account at the start
  Roleless,   \* those of them whose roles an administrator has taken away
  Call,    \* calls that can be in flight at the same time
  Depth,   \* bound: how deep the stacks of screens grow
  None     \* null: no row, no user, no token, no answer, a free call

\* A picture is named by who uploaded it.  Of the editable text only the saving is modelled.
Picture == Account \cup {None}

User       == [id : Account, picture : Picture]
Reply      == [ok : BOOLEAN, picture : Picture]
Operation  == {"login", "register", "forgot", "reset", "save", "upload", "remove", "kyc"}

\* Before a call is made: a picture is being picked, its removal is being confirmed.
Preparation == {"pick", "ask"}
Dispatched(preparation) == IF preparation = "pick" THEN "upload" ELSE "remove"

\* A call is about the account whose address or token goes with it, if one does.  Whose
\* password is forgotten or reset makes no difference here and is not kept.
CallRecord == [op    : Operation \cup Preparation,
               of    : Account \cup {None},
               reply : Reply \cup {None}]

\* Assumed of the constants.
SessionAssumption ==
  /\ Registered \subseteq Account /\ Roleless \subseteq Registered /\ Depth \in Nat
  /\ None \notin Account \cup User \cup CallRecord

SignedOutScreen == {"splash", "onboarding", "login", "register", "forgot", "reset", "crashed"}
\* The student's tabs are one screen: from any of them the profile is a jump away.
SignedInScreen  == {"tabs", "edit", "settings", "submit", "status"}
Screen == SignedOutScreen \cup SignedInScreen

\* The route of the root Stack that a screen is in; a route is a Stack of its screens.
RouteOf(s) ==
  CASE s \in {"login", "register", "forgot", "reset"} -> "auth"
    [] s \in {"tabs", "edit"} -> "student"
    [] s = "settings" -> "shared"
    [] s \in {"submit", "status"} -> "executor"
    [] s \in {"splash", "onboarding", "crashed"} -> s

VARIABLES
  declared, \* whether the identifiers of login.tsx and authSlice.ts are declared
  account,  \* the Users table: who has a row in it
  routes,   \* the root Stack: routes, each with its stack of screens
  astray,   \* history: two student routes were stacked, or a late answer opened a screen
  user,     \* state.auth.user
  token,    \* state.auth.token: the account it was issued to
  apiToken, \* authToken of api.ts
  loading,  \* state.auth.loading
  calls     \* thunks in flight

store == <<user, token, apiToken, loading>>
screens == <<routes, astray>>
vars == <<declared, account, screens, store, calls>>

Init ==
  /\ declared \in BOOLEAN
  /\ account = Registered
  /\ routes = <<<<"splash">>>> /\ astray = FALSE
  /\ user = None /\ token = None /\ apiToken = None
  /\ loading = FALSE
  /\ calls = [c \in Call |-> None]

(***************************************************************************)
(* Screens                                                                 *)
(***************************************************************************)
TopRoute == routes[Len(routes)]
Top      == TopRoute[Len(TopRoute)]

\* The routes beneath the one on top; the one on top with s for its last screen.
Beneath  == SubSeq(routes, 1, Len(routes) - 1)
Ending(s) == [TopRoute EXCEPT ![Len(TopRoute)] = s]

\* router.replace: a screen of the route on top takes the place of its last one (the tabs stay
\* if they are), a screen of another route that of the route on top.  What is beneath stays.
Replacing(s) == Append(Beneath, IF RouteOf(s) = RouteOf(Top) THEN Ending(s) ELSE <<s>>)

\* router.push
Pushing(s) == IF RouteOf(s) = RouteOf(Top) THEN Append(Beneath, Append(TopRoute, s))
              ELSE Append(routes, <<s>>)

\* router.back(): the screen or the route before this one, if any.
GoingBack ==
  IF Len(TopRoute) > 1 THEN Append(Beneath, SubSeq(TopRoute, 1, Len(TopRoute) - 1))
  ELSE IF Len(routes) > 1 THEN Beneath
  ELSE routes

\* Two student routes, one above the other.
Doubled(rs) ==
  \E i, j \in DOMAIN rs : i # j /\ RouteOf(rs[i][1]) = "student" /\ RouteOf(rs[j][1]) = "student"

\* The screens are now rs.  Rendering LoginScreen throws while useAuth is not imported, and
\* takes the app down.
Show(rs) ==
  LET shown == rs[Len(rs)] IN
  /\ routes' = IF shown[Len(shown)] = "login" /\ ~declared THEN <<<<"crashed">>>> ELSE rs
  /\ astray' = (astray \/ Doubled(rs))

\* Bound of a push: routes and screens of the one on top.
Room == Len(routes) + Len(TopRoute) <= Depth

(***************************************************************************)
(* What a screen lets its user do: the screens its buttons push or replace *)
(* it by at once, and the calls they dispatch or prepare.  Fields and      *)
(* their checks are left out: a form is complete when its button is        *)
(* pressed.                                                                *)
(***************************************************************************)
Offers(pushes, replaces, dispatches) ==
  [pushes |-> pushes, replaces |-> replaces, dispatches |-> dispatches]

\* The last page's button, and the link that skips the pages.
OnboardingScreen == Offers({}, {"login"}, {})
LoginScreen      == Offers({"register", "forgot"}, {}, {"login"})
RegisterScreen   == Offers({}, {"login"}, {"register"})
ForgotScreen     == Offers({}, {}, {"forgot"})
ResetScreen      == Offers({}, {}, {"reset"})
\* Logging out is an action of its own.  The verification is offered to who is not an executor.
ProfileScreen    == Offers({"settings", "edit", "submit"}, {}, {})
\* Switches that nothing reads.
SettingsScreen   == Offers({}, {}, {})
KycSubmitScreen  == Offers({}, {}, {"kyc"})
KycStatusScreen  == Offers({}, {"tabs"}, {})
\* Removing the picture is offered when there is one.
EditProfileScreen ==
  Offers({}, {}, {"save", "pick"} \cup IF user # None /\ user.picture # None THEN {"ask"} ELSE {})

OnScreen(s) ==
  CASE s = "onboarding" -> OnboardingScreen
    [] s = "login" -> LoginScreen
    [] s = "register" -> RegisterScreen
    [] s = "forgot" -> ForgotScreen
    [] s = "reset" -> ResetScreen
    [] s = "tabs" -> ProfileScreen
    [] s = "settings" -> SettingsScreen
    [] s = "submit" -> KycSubmitScreen
    [] s = "status" -> KycStatusScreen
    [] s = "edit" -> EditProfileScreen
    [] OTHER -> Offers({}, {}, {})

SplashEnds ==
  /\ Top = "splash"
  /\ Show(Replacing(IF user # None THEN "tabs" ELSE "onboarding"))
  /\ UNCHANGED <<declared, account, store, calls>>

Push ==
  /\ Room
  /\ \E s \in OnScreen(Top).pushes : Show(Pushing(s))
  /\ UNCHANGED <<declared, account, store, calls>>

Replace ==
  /\ \E s \in OnScreen(Top).replaces : Show(Replacing(s))
  /\ UNCHANGED <<declared, account, store, calls>>

Back ==
  /\ GoingBack # routes
  /\ Show(GoingBack)
  /\ UNCHANGED <<declared, account, store, calls>>

\* The process ends: what was in flight has no one left to hear its answer.
Restart ==
  /\ Top # "splash"
  /\ routes' = <<<<"splash">>>> /\ astray' = FALSE
  /\ user' = None /\ token' = None /\ apiToken' = None /\ loading' = FALSE
  /\ calls' = [c \in Call |-> None]
  /\ UNCHANGED <<declared, account>>

\* Mutant: logging out leaves the token of api.ts in place.
LogoutOfStore ==
  /\ Top = "tabs"
  /\ user' = None /\ token' = None
  /\ Show(Replacing("login"))
  /\ UNCHANGED <<declared, account, apiToken, loading, calls>>

\* Mutant: the login screen is pushed over the profile.
LogoutOverProfile ==
  /\ Top = "tabs"
  /\ user' = None /\ token' = None /\ apiToken' = None
  /\ Show(Pushing("login"))
  /\ UNCHANGED <<declared, account, loading, calls>>

Logout ==
  /\ Top = "tabs"
  /\ user' = None /\ token' = None /\ apiToken' = None
  /\ Show(Replacing("login"))
  /\ UNCHANGED <<declared, account, loading, calls>>

(***************************************************************************)
(* Buttons that dispatch a call                                            *)
(***************************************************************************)
IsSignIn(op) == op \in {"login", "register"}

\* The sign-in forms send any address; the screens of the signed-in the token, if there is one.
Subjects(op) ==
  CASE IsSignIn(op) -> Account
    [] op \in {"save", "kyc"} -> {apiToken}
    [] op \in Preparation \cup {"forgot", "reset"} -> {None}

\* Any free slot will do for the call.
Press(c) ==
  /\ calls[c] = None /\ c = CHOOSE free \in Call : calls[free] = None
  /\ \E op \in OnScreen(Top).dispatches : \E a \in Subjects(op) :
       /\ calls' = [calls EXCEPT ![c] = [op |-> op, of |-> a, reply |-> None]]
       /\ loading' = (loading \/ IsSignIn(op))
  /\ UNCHANGED <<declared, account, screens, user, token, apiToken>>

\* The picture is picked and scaled, or its removal confirmed, while the app went on: the
\* call is sent with the token of now.
Prepared(c) ==
  /\ calls[c] # None /\ calls[c].op \in Preparation
  /\ calls' = [calls EXCEPT ![c] =
                 [op |-> Dispatched(calls[c].op), of |-> apiToken, reply |-> None]]
  /\ UNCHANGED <<declared, account, screens, store>>

\* The picker or the question is dismissed.
Dismissed(c) ==
  /\ calls[c] # None /\ calls[c].op \in Preparation
  /\ calls' = [calls EXCEPT ![c] = None]
  /\ UNCHANGED <<declared, account, screens, store>>

(***************************************************************************)
(* The server                                                              *)
(***************************************************************************)
Waiting(c) == calls[c] # None /\ calls[c].reply = None

Failed == [ok |-> FALSE, picture |-> None]
Done(picture) == [ok |-> TRUE, picture |-> picture]

Replied(c, reply) == calls' = [calls EXCEPT ![c].reply = reply]

\* The request is about a row of the table.
Known(c) == calls[c].of \in account

\* A login with the right password; the password itself is not modelled.
ServeLogin(c) ==
  /\ Waiting(c) /\ calls[c].op = "login" /\ Known(c)
  /\ Replied(c, Done(None))
  /\ UNCHANGED <<declared, account, screens, store>>

\* A code that is sent, a password that is changed.
ServePassword(c) ==
  /\ Waiting(c) /\ calls[c].op \in {"forgot", "reset"}
  /\ Replied(c, Done(None))
  /\ UNCHANGED <<declared, account, screens, store>>

ServeRegister(c) ==
  /\ Waiting(c) /\ calls[c].op = "register"
  /\ ~Known(c)
  /\ account' = account \cup {calls[c].of}
  /\ Replied(c, Done(None))
  /\ UNCHANGED <<declared, screens, store>>

\* The row is saved first.  The answer is the row with its roles, whose users lead back to
\* it: serialising that cycle throws, so a save is answered by an error unless the account
\* has no role left (registering gives one).  The row's picture is its owner's, or none.
ServeSave(c) ==
  /\ Waiting(c) /\ calls[c].op = "save" /\ Known(c)
  /\ \E picture \in {calls[c].of, None} :
       Replied(c, IF calls[c].of \in Roleless THEN Done(picture) ELSE Failed)
  /\ UNCHANGED <<declared, account, screens, store>>

\* Saving the row's new picture, which is not kept here.
ServePicture(c) ==
  /\ Waiting(c) /\ calls[c].op \in {"upload", "remove"} /\ Known(c)
  /\ Replied(c, Done(IF calls[c].op = "upload" THEN calls[c].of ELSE None))
  /\ UNCHANGED <<declared, account, screens, store>>

\* The request's row is not modelled here.
ServeKyc(c) ==
  /\ Waiting(c) /\ calls[c].op = "kyc" /\ Known(c)
  /\ Replied(c, Done(None))
  /\ UNCHANGED <<declared, account, screens, store>>

\* A refusal, a wrong password, no token, an exception, or the request or its answer lost on
\* the way.
Fail(c) ==
  /\ calls[c] # None /\ calls[c].op \in Operation
  /\ calls[c].reply # Failed
  /\ Replied(c, Failed)
  /\ UNCHANGED <<declared, account, screens, store>>

(***************************************************************************)
(* Answers                                                                 *)
(***************************************************************************)
Answers(c, ops, ok) ==
  /\ calls[c] # None /\ calls[c].reply # None
  /\ calls[c].op \in ops /\ calls[c].reply.ok = ok
  /\ calls' = [calls EXCEPT ![c] = None]
  /\ UNCHANGED <<declared, account>>

\* Mutant: the new user replaces the old one only if there is none.
SignInOverOld(c) ==
  /\ Answers(c, {"login", "register"}, TRUE)
  /\ user' = IF user # None THEN user ELSE [id |-> calls[c].of, picture |-> None]
  /\ token' = calls[c].of /\ apiToken' = calls[c].of
  /\ loading' = FALSE
  /\ Show(Replacing("tabs"))

\* The answer names the user and his roles, not his editable text or picture; the router
\* replaces whatever is on top.
SignInAnswered(c) ==
  /\ Answers(c, {"login", "register"}, TRUE)
  /\ user' = [id |-> calls[c].of, picture |-> None]
  /\ token' = calls[c].of /\ apiToken' = calls[c].of
  /\ loading' = FALSE
  /\ Show(Replacing("tabs"))

\* Mutant: a rejected sign-in does not end the loading state.
SignInStuck(c) ==
  /\ Answers(c, {"login", "register"}, FALSE)
  /\ UNCHANGED <<screens, store>>

SignInRefused(c) ==
  /\ Answers(c, {"login", "register"}, FALSE)
  /\ loading' = FALSE
  /\ UNCHANGED <<screens, user, token, apiToken>>

PasswordAnswered(c) ==
  /\ Answers(c, {"forgot", "reset"}, TRUE)
  /\ Show(Replacing(IF calls[c].op = "forgot" THEN "reset" ELSE "login"))
  /\ UNCHANGED store

\* The answer's fields overwrite the user's, the identifier included, even if there is no
\* user any more; then handleSave goes back, from whatever screen is on top.
SaveAnswered(c) ==
  /\ Answers(c, {"save"}, TRUE)
  /\ user' = [id |-> calls[c].of, picture |-> calls[c].reply.picture]
  /\ \/ Show(GoingBack)
     \/ Top = "tabs" /\ UNCHANGED screens \* From the profile, to the tab before it.
  /\ UNCHANGED <<token, apiToken, loading>>

\* Mutant: the reducer does not look whether there is a user.
PictureOfNobody(c) ==
  /\ Answers(c, {"upload", "remove"}, TRUE)
  /\ user' = [id |-> IF user = None THEN None ELSE user.id, picture |-> calls[c].reply.picture]
  /\ UNCHANGED <<screens, token, apiToken, loading>>

PictureAnswered(c) ==
  /\ Answers(c, {"upload", "remove"}, TRUE)
  /\ user' = IF user = None THEN None ELSE [user EXCEPT !.picture = calls[c].reply.picture]
  /\ UNCHANGED <<screens, token, apiToken, loading>>

\* The status replaces whatever is on top, also when nobody is signed in any more.
KycAnswered(c) ==
  /\ Answers(c, {"kyc"}, TRUE)
  /\ routes' = Replacing("status")
  /\ astray' = (astray \/ token = None)
  /\ UNCHANGED store

\* An alert.
Refused(c) ==
  /\ Answers(c, Operation \ {"login", "register"}, FALSE)
  /\ UNCHANGED <<screens, store>>

Serve(c)  == ServeLogin(c) \/ ServePassword(c) \/ ServeRegister(c) \/ ServeSave(c)
               \/ ServePicture(c) \/ ServeKyc(c) \/ Fail(c)
Settle(c) == SignInAnswered(c) \/ SignInRefused(c) \/ PasswordAnswered(c) \/ SaveAnswered(c)
               \/ PictureAnswered(c) \/ KycAnswered(c) \/ Refused(c)
Resolve(c) == Serve(c) \/ Settle(c)

Next ==
  \/ SplashEnds \/ Push \/ Replace \/ Back \/ Restart \/ Logout
  \/ \E c \in Call : Press(c) \/ Prepared(c) \/ Dismissed(c) \/ Resolve(c)

\* A call is resolved at the latest by the failure of its connection, and a settled promise
\* runs its handlers; nothing is assumed of the user.
Fairness == \A c \in Call : WF_vars(Resolve(c))

Spec == Init /\ [][Next]_vars /\ Fairness

-----------------------------------------------------------------------------
(***************************************************************************)
(* Properties                                                              *)
(***************************************************************************)
\* Type correctness of the accounts, the auth slice, the screens and the calls.
SessionTypeOK ==
  /\ declared \in BOOLEAN
  /\ account \subseteq Account
  /\ routes \in Seq(Seq(Screen)) /\ astray \in BOOLEAN
  /\ user \in User \cup {None}
  /\ token \in Account \cup {None} /\ apiToken \in Account \cup {None}
  /\ loading \in BOOLEAN
  /\ calls \in [Call -> CallRecord \cup {None}]

\* apiFetch sends the token the store holds (api.ts keeps a copy of its own).
TokenAgrees == apiToken = token

\* The screens of the signed-in, which do not check it, are shown to somebody signed in,
\* whatever is in flight when the user logs out: unless two student routes have been stacked,
\* of which logging out leaves the lower one for going back, or the answer to a verification
\* request has come after the logout.
ScreensSignedIn == Top \in SignedInScreen /\ token = None => astray

\* User and token are one account's, and so is the picture shown for it.
Consistent == IF token = None THEN user = None
              ELSE /\ user # None /\ user.id = token
                   /\ user.picture \in {token, None}

\* An answer to a profile save or an upload of an account that is not signed in now.
LateAnswer ==
  \E c \in Call : /\ calls[c] # None /\ calls'[c] = None /\ calls[c].reply # None
                  /\ calls[c].op \in {"save", "upload"} /\ calls[c].of # token

\* Nothing but such an answer mixes two identities in the auth slice: signing in over a
\* session, logging out, restarting and every other answer leave it one account's.
OnlyLateAnswersMix == [][Consistent /\ ~Consistent' => LateAnswer]_vars

\* The flag behind the spinners is up only while a sign-in is in flight.
LoadingHasCall == loading => \E c \in Call : calls[c] # None /\ IsSignIn(calls[c].op)
=============================================================================
