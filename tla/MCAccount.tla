------------------------------ MODULE MCAccount ------------------------------
(***************************************************************************)
(* One instance for TLC of the parts of the client around an account: the  *)
(* session, the verification requests, the favourites, the notifications.  *)
(* They share no state, so each behaviour is a walk through one of them,   *)
(* part, while the others stay as they are at the start.                   *)
(***************************************************************************)
CONSTANTS None, Account, Registered, Roleless, Requests, Handler, Service, Notice, Call, Depth

VARIABLES
  part,
  declared, account, routes, astray, user, token, apiToken, loading, calls,
  request, decided, flag, role, handlers, executor, shown, kycLoading, kycScreen, kycCalls,
  row, items, fetching, favCalls, crossed,
  noticeRow, sent, list, spins, noticeCalls

session    == <<declared, account, routes, astray, user, token, apiToken, loading, calls>>
kyc        == <<request, decided, flag, role, handlers, executor, shown, kycLoading, kycScreen, kycCalls>>
favourites == <<row, items, fetching, favCalls, crossed>>
notices    == <<noticeRow, sent, list, spins, noticeCalls>>
vars == <<part, session, kyc, favourites, notices>>

\* With their proofs, which AccountProofs uses.
S == INSTANCE SessionProofs
K == INSTANCE KycProofs WITH loading <- kycLoading, screen <- kycScreen, calls <- kycCalls
F == INSTANCE FavouritesProofs WITH calls <- favCalls
N == INSTANCE NoticesProofs WITH row <- noticeRow, calls <- noticeCalls

ASSUME Assumptions ==
  S!SessionAssumption /\ K!KycAssumption /\ F!FavouritesAssumption /\ N!NoticesAssumption

Init ==
  /\ part \in {"session", "kyc", "favourites", "notices"}
  /\ S!Init /\ K!Init /\ F!Init /\ N!Init
  /\ part # "session" => declared
  /\ part # "favourites" => row = {}

Next ==
  \/ part = "session" /\ S!Next /\ UNCHANGED <<part, kyc, favourites, notices>>
  \/ part = "kyc" /\ K!Next /\ UNCHANGED <<part, session, favourites, notices>>
  \/ part = "favourites" /\ F!Next /\ UNCHANGED <<part, session, kyc, notices>>
  \/ part = "notices" /\ N!Next /\ UNCHANGED <<part, session, kyc, favourites>>

\* part never changes, so this is the fairness of the part walked through.
Resolve(c) ==
  \/ part = "session" /\ S!Resolve(c) /\ UNCHANGED <<part, kyc, favourites, notices>>
  \/ part = "kyc" /\ K!Resolve(c) /\ UNCHANGED <<part, session, favourites, notices>>
  \/ part = "favourites" /\ F!Resolve(c) /\ UNCHANGED <<part, session, kyc, notices>>
  \/ part = "notices" /\ N!Resolve(c) /\ UNCHANGED <<part, session, kyc, favourites>>
Fairness == \A c \in Call : WF_vars(Resolve(c))

Spec == Init /\ [][Next]_vars /\ Fairness

-----------------------------------------------------------------------------
\* The properties of the four modules, under their names there; each is explained there.
SessionTypeOK      == S!SessionTypeOK
TokenAgrees        == S!TokenAgrees
ScreensSignedIn    == S!ScreensSignedIn
OnlyLateAnswersMix == S!OnlyLateAnswersMix
LoadingHasCall     == S!LoadingHasCall

KycTypeOK          == K!KycTypeOK
FlagIsRole         == K!FlagIsRole
OneKycCall         == K!OneKycCall
DecisionIsReal     == K!DecisionIsReal

FavouritesTypeOK   == F!FavouritesTypeOK
ListAgrees         == F!ListAgrees

NoticesTypeOK      == N!NoticesTypeOK
ShownReadIsRead    == N!ShownReadIsRead
GoneIsDeleted      == N!GoneIsDeleted

\* No spinner of these screens lasts, whatever becomes of the requests: the flags of the
\* three slices and of the notifications screen are taken down by answers and failures alike.
Spinning == loading \/ kycLoading \/ fetching \/ spins
SpinnersEnd == Spinning ~> ~Spinning
=============================================================================
