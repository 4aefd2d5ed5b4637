---------------------------- MODULE AccountProofs ----------------------------
(***************************************************************************)
(* The theorems about the session, the verification, the favourites and    *)
(* the notifications in the behaviours of MCAccount, which walk through    *)
(* one of these parts: a step is a step of that part and leaves the        *)
(* variables of the others alone, so the invariants proved of each part in *)
(* a module of its own hold here too.                                      *)
(***************************************************************************)
EXTENDS MCAccount, TLAPS

\* A step is one of the session, or leaves it alone; the same of the other parts.
LEMMA StepOfPart ==
  ASSUME [Next]_vars
  PROVE  [S!Next]_(S!vars) /\ [K!Next]_(K!vars) /\ [F!Next]_(F!vars) /\ [N!Next]_(N!vars)
<1>1. UNCHANGED session => UNCHANGED S!vars
  BY DEF session, S!vars, S!store, S!screens
<1>2. UNCHANGED kyc => UNCHANGED K!vars
  BY DEF kyc, K!vars, K!server, K!client
<1>3. UNCHANGED favourites => UNCHANGED F!vars
  BY DEF favourites, F!vars
<1>4. UNCHANGED notices => UNCHANGED N!vars
  BY DEF notices, N!vars
<1> QED  BY <1>1, <1>2, <1>3, <1>4 DEF Next, vars

LEMMA SessionPart == Spec => []S!SessionInv
<1>1. Init => S!SessionInv
  BY Assumptions, S!InitSession DEF Init
<1>2. S!SessionInv /\ [Next]_vars => S!SessionInv'
  BY Assumptions, StepOfPart, S!NextSession
<1> QED  BY <1>1, <1>2, PTL DEF Spec

LEMMA KycPart == Spec => []K!KycInv
<1>1. Init => K!KycInv
  BY Assumptions, K!InitKyc DEF Init
<1>2. K!KycInv /\ [Next]_vars => K!KycInv'
  BY Assumptions, StepOfPart, K!NextKyc
<1> QED  BY <1>1, <1>2, PTL DEF Spec

LEMMA FavouritesPart == Spec => []F!FavouritesInv
<1>1. Init => F!FavouritesInv
  BY F!InitFavourites DEF Init
<1>2. F!FavouritesInv /\ [Next]_vars => F!FavouritesInv'
  BY Assumptions, StepOfPart, F!NextFavourites
<1> QED  BY <1>1, <1>2, PTL DEF Spec

LEMMA NoticesPart == Spec => []N!NoticesInv
<1>1. Init => N!NoticesInv
  BY Assumptions, N!InitNotices DEF Init
<1>2. N!NoticesInv /\ [Next]_vars => N!NoticesInv'
  BY Assumptions, StepOfPart, N!NextNotices
<1> QED  BY <1>1, <1>2, PTL DEF Spec

-----------------------------------------------------------------------------
\* Every reachable state of the session is well typed.
THEOREM SessionTypeCorrect == Spec => []SessionTypeOK
<1>1. S!SessionInv => SessionTypeOK
  BY DEF SessionTypeOK, S!SessionInv
<1> QED  BY <1>1, SessionPart, PTL

\* The token that is sent is the one of the store.
THEOREM TokensAgree == Spec => []TokenAgrees
<1>1. S!SessionInv => TokenAgrees
  BY DEF TokenAgrees, S!SessionInv
<1> QED  BY <1>1, SessionPart, PTL

\* The screens of the signed-in, though none of them checks it, are shown with a token only,
\* unless student routes have been stacked or an answer has come after the logout.
THEOREM ScreensAreForUsers == Spec => []ScreensSignedIn
<1>1. S!SessionInv => ScreensSignedIn
  BY Assumptions, S!SignedInFromInv DEF ScreensSignedIn
<1> QED  BY <1>1, SessionPart, PTL

\* The spinner of the sign-in screens has a call to wait for.
THEOREM SpinnersHaveCalls == Spec => []LoadingHasCall
<1>1. S!SessionInv => LoadingHasCall
  BY DEF LoadingHasCall, S!SessionInv
<1> QED  BY <1>1, SessionPart, PTL

\* Every reachable state of the verification is well typed.
THEOREM KycTypeCorrect == Spec => []KycTypeOK
<1>1. K!KycInv => KycTypeOK
  BY DEF KycTypeOK, K!KycInv
<1> QED  BY <1>1, KycPart, PTL

\* The executor flag says what the role rows say, whatever handlers overlap.
THEOREM FlagFollowsRole == Spec => []FlagIsRole
<1>1. K!KycInv => FlagIsRole
  BY DEF FlagIsRole, K!KycInv
<1> QED  BY <1>1, KycPart, PTL

\* No two calls of the kyc slice are in flight.
THEOREM OneCallAtATime == Spec => []OneKycCall
<1>1. K!KycInv => OneKycCall
  BY K!OneCallFromInv DEF OneKycCall
<1> QED  BY <1>1, KycPart, PTL

\* A decision that is displayed was made on one of the person's requests.
THEOREM ShownDecisionsAreReal == Spec => []DecisionIsReal
<1>1. K!KycInv => DecisionIsReal
  BY Assumptions, K!DecisionFromInv DEF DecisionIsReal
<1> QED  BY <1>1, KycPart, PTL

\* Only a late answer to a save or an upload can mix two identities in the auth slice.
THEOREM IdentitiesMixOnlyLate == Spec => OnlyLateAnswersMix
<1>1. S!SessionInv /\ [Next]_vars => [S!Consistent /\ ~S!Consistent' => S!LateAnswer]_(S!vars)
  BY Assumptions, StepOfPart, S!MixingStep
<1> QED  BY <1>1, SessionPart, PTL DEF Spec, OnlyLateAnswersMix, S!OnlyLateAnswersMix

\* Every reachable state of the favourites screen is well typed.
THEOREM FavouritesTypeCorrect == Spec => []FavouritesTypeOK
<1>1. F!FavouritesInv => FavouritesTypeOK
  BY DEF FavouritesTypeOK, F!FavouritesInv
<1> QED  BY <1>1, FavouritesPart, PTL

\* Once nothing is in flight the list shows the favourites there are, unless calls overlapped
\* or failed since the last fetch.
THEOREM ListAgreesUnlessCrossed == Spec => []ListAgrees
<1>1. F!FavouritesInv => ListAgrees
  BY DEF ListAgrees, F!FavouritesInv
<1> QED  BY <1>1, FavouritesPart, PTL

\* Every reachable state of the notifications screen is well typed, and spins only when shown.
THEOREM NoticesTypeCorrect == Spec => []NoticesTypeOK
<1>1. N!NoticesInv => NoticesTypeOK
  BY DEF NoticesTypeOK, N!NoticesInv
<1> QED  BY <1>1, NoticesPart, PTL

\* What the screen shows as read is read in the database, or deleted there, in whatever order
\* the answers come.
THEOREM ShownReadIsSaved == Spec => []ShownReadIsRead
<1>1. N!NoticesInv => ShownReadIsRead
  BY Assumptions, N!ShownReadFromInv DEF ShownReadIsRead
<1> QED  BY <1>1, NoticesPart, PTL

\* Only what the database no longer has leaves the screen's list.
THEOREM OnlyDeletedLeave == Spec => GoneIsDeleted
<1>1. N!NoticesInv /\ [Next]_vars =>
        [list # None /\ list' # None =>
           \A n \in Notice : list[n] # None /\ list'[n] = None => noticeRow[n] = None]_(N!vars)
  BY Assumptions, StepOfPart, N!GoneStep
<1> QED  BY <1>1, NoticesPart, PTL DEF Spec, GoneIsDeleted, N!GoneIsDeleted
=============================================================================
