----------------------------- MODULE KycProofs -----------------------------
(***************************************************************************)
(* Proofs about Kyc.  The flag and the role are written by one save or not *)
(* at all; the slice's flag is up whenever a call is in flight, so there   *)
(* is never a second one; and the decisions that the rows hold were saved, *)
(* so those that answers carry were, too.                                  *)
(***************************************************************************)
EXTENDS Kyc, FiniteSetTheorems, WellFoundedInduction, TLAPS

\* A call in flight keeps the button disabled, and is the only one.
CallDisables ==
  \A c, d \in Call : calls[c] # None /\ calls[d] # None => c = d /\ loading

\* The decisions that the rows hold were saved.
RowsDecided == \A k \in RequestId : request[k] \in Decision => request[k] \in decided

\* The decisions that the slice holds, or an answer carries, were saved.
DecisionsMade ==
  /\ shown \in Decision => shown \in decided
  /\ \A c \in Call : calls[c] # None /\ calls[c].reply # None =>
       (calls[c].reply.status \in Decision => calls[c].reply.status \in decided)

KycInv == KycTypeOK /\ FlagIsRole /\ CallDisables /\ RowsDecided /\ DecisionsMade

-----------------------------------------------------------------------------
\* Among the requests there are, there is a highest identifier.
LEMMA LatestRequest ==
  ASSUME KycAssumption, NEW ids \in SUBSET RequestId, ids # {}
  PROVE  Max(ids) \in ids
<1> DEFINE below == {Requests - k : k \in ids}
<1>0. \A k \in ids : k \in Nat /\ Requests - k \in Nat
  <2>1. Requests \in Nat /\ ids \subseteq 1..Requests
    BY DEF KycAssumption, RequestId
  <2> QED  BY <2>1
<1>1. below \subseteq Nat /\ below # {}
  BY <1>0
<1>2. PICK m \in below : \A n \in below : ~(<<n, m>> \in OpToRel(<, Nat))
  BY <1>1, WFMin, NatLessThanWellFounded
<1>3. \A n \in below : ~(n < m)
  BY <1>1, <1>2 DEF OpToRel
<1>4. PICK k \in ids : m = Requests - k
  BY <1>2
<1>5. \A j \in ids : k >= j
  <2> TAKE j \in ids
  <2>1. ~(Requests - j < Requests - k)
    BY <1>3, <1>4
  <2>2. Requests \in Nat /\ k \in Nat /\ j \in Nat
    BY <1>0 DEF KycAssumption
  <2> QED  BY <2>1, <2>2
<1> QED  BY <1>5 DEF Max

\* A status that is answered as a decision was saved.
LEMMA AnsweredIsDecided ==
  ASSUME KycAssumption, KycTypeOK, RowsDecided
  PROVE  /\ StatusAnswered \in Status \cup {None}
         /\ StatusAnswered \in Decision => StatusAnswered \in decided
<1>1. Submitted \in SUBSET RequestId
  BY DEF Submitted
<1>2. CASE Submitted = {}
  BY <1>2 DEF StatusAnswered, KycAssumption, Status, Decision
<1>3. CASE Submitted # {}
  <2>1. Max(Submitted) \in Submitted
    BY <1>1, <1>3, LatestRequest
  <2>2. Max(Submitted) \in RequestId /\ StatusAnswered = request[Max(Submitted)]
    BY <1>1, <1>3, <2>1 DEF StatusAnswered
  <2> QED  BY <2>2 DEF KycTypeOK, RowsDecided
<1> QED  BY <1>2, <1>3

LEMMA InitKyc == KycAssumption /\ Init => KycInv
<1> SUFFICES ASSUME KycAssumption, Init PROVE KycInv
  OBVIOUS
<1>1. KycTypeOK
  BY DEF Init, KycTypeOK
<1>2. FlagIsRole /\ CallDisables
  BY DEF Init, FlagIsRole, CallDisables
<1>3. RowsDecided /\ DecisionsMade
  BY DEF Init, RowsDecided, DecisionsMade, KycAssumption, Status, Decision
<1> QED  BY <1>1, <1>2, <1>3 DEF KycInv

-----------------------------------------------------------------------------
\* The administrator's side: flag and role stay together and every decision is noted.
AdminStep ==
  \/ \E h \in Handler : Save(h) \/ Abandon(h) \/ \E want \in BOOLEAN : SetRoleLoad(h, want)
  \/ \E h \in Handler, k \in RequestId : ApproveLoad(h, k)
  \/ \E k \in RequestId : Reject(k)

LEMMA AdminTyped ==
  ASSUME KycAssumption, KycTypeOK, AdminStep
  PROVE  KycTypeOK' /\ UNCHANGED client
<1>1. ASSUME NEW h \in Handler, Save(h)  PROVE KycTypeOK' /\ UNCHANGED client
  <2>1. handlers[h] \in Load
    BY <1>1 DEF Save, KycTypeOK
  <2>2. flag' \in BOOLEAN /\ role' \in BOOLEAN
    BY <1>1, <2>1 DEF Save, KycTypeOK, Load
  <2>3. request' \in [RequestId -> Status \cup {None}]
    BY <1>1 DEF Save, KycTypeOK, Status, Decision
  <2>4. decided' \subseteq Decision
    BY <1>1, <2>1 DEF Save, Approval, KycTypeOK, Load, Decision
  <2> QED  BY <1>1, <2>2, <2>3, <2>4 DEF Save, KycTypeOK, client
<1>2. ASSUME NEW h \in Handler, Abandon(h)  PROVE KycTypeOK' /\ UNCHANGED client
  BY <1>2 DEF Abandon, KycTypeOK, client
<1>3. ASSUME NEW h \in Handler, NEW want \in BOOLEAN, SetRoleLoad(h, want)
      PROVE  KycTypeOK' /\ UNCHANGED client
  <2>1. [role |-> role, want |-> want, request |-> None] \in Load
    BY DEF Load, KycTypeOK
  <2> QED  BY <1>3, <2>1 DEF SetRoleLoad, KycTypeOK, client
<1>4. ASSUME NEW h \in Handler, NEW k \in RequestId, ApproveLoad(h, k)
      PROVE  KycTypeOK' /\ UNCHANGED client
  <2>1. [role |-> role, want |-> TRUE, request |-> IF request[k] = "Approved" THEN None ELSE k] \in Load
    BY DEF Load, KycTypeOK
  <2> QED  BY <1>4, <2>1 DEF ApproveLoad, KycTypeOK, client
<1>5. ASSUME NEW k \in RequestId, Reject(k)  PROVE KycTypeOK' /\ UNCHANGED client
  BY <1>5 DEF Reject, KycTypeOK, Status, Decision, client
<1> QED  BY <1>1, <1>2, <1>3, <1>4, <1>5 DEF AdminStep

LEMMA AdminKeepsTogether ==
  ASSUME KycAssumption, KycTypeOK, FlagIsRole, RowsDecided, AdminStep
  PROVE  FlagIsRole' /\ RowsDecided' /\ decided \subseteq decided'
<1>1. ASSUME NEW h \in Handler, Save(h)
      PROVE  FlagIsRole' /\ RowsDecided' /\ decided \subseteq decided'
  <2>1. FlagIsRole' /\ decided \subseteq decided'
    BY <1>1 DEF Save, FlagIsRole
  <2>2. ASSUME NEW k \in RequestId, request'[k] \in Decision
        PROVE  request'[k] \in decided'
    <3>1. CASE k = handlers[h].request
      BY <1>1, <3>1 DEF Save, Approval, KycAssumption
    <3>2. CASE k # handlers[h].request
      BY <1>1, <2>1, <2>2, <3>2 DEF Save, RowsDecided
    <3> QED  BY <3>1, <3>2
  <2> QED  BY <2>1, <2>2 DEF RowsDecided
<1>2. ASSUME NEW k \in RequestId, Reject(k)
      PROVE  FlagIsRole' /\ RowsDecided' /\ decided \subseteq decided'
  BY <1>2 DEF Reject, KycTypeOK, FlagIsRole, RowsDecided
<1>3. CASE UNCHANGED <<request, decided, flag, role>>
  BY <1>3 DEF FlagIsRole, RowsDecided
<1> QED  BY <1>1, <1>2, <1>3 DEF AdminStep, Abandon, SetRoleLoad, ApproveLoad

-----------------------------------------------------------------------------
\* The client's side.
LEMMA WalkKeeps ==
  ASSUME KycAssumption, KycInv, SignIn \/ OpenSubmit \/ Leave
  PROVE  KycInv'
<1>1. KycTypeOK'
  BY DEF KycInv, SignIn, OpenSubmit, Leave, KycTypeOK, server
<1>2. UNCHANGED <<server, shown, loading, calls>>
  BY DEF SignIn, OpenSubmit, Leave
<1>3. FlagIsRole' /\ CallDisables' /\ RowsDecided'
  BY <1>2 DEF KycInv, server, FlagIsRole, CallDisables, RowsDecided
<1>4. DecisionsMade'
  BY <1>2 DEF KycInv, server, DecisionsMade
<1> QED  BY <1>1, <1>3, <1>4 DEF KycInv

LEMMA SubmitKeeps ==
  ASSUME KycAssumption, KycInv, NEW c \in Call, Submit(c)
  PROVE  KycInv'
<1>0. KycTypeOK /\ CallDisables /\ RowsDecided /\ DecisionsMade /\ FlagIsRole /\ ~loading /\ calls[c] = None
  BY DEF KycInv, Submit, CanSubmit
<1>1. [op |-> "submit", reply |-> None] \in KycCall
  BY DEF KycCall
<1>2. KycTypeOK'
  BY <1>0, <1>1 DEF Submit, KycTypeOK, server
<1>3. \A d \in Call : calls[d] = None
  BY <1>0 DEF CallDisables
<1>4. \A d \in Call : calls'[d] # None => d = c
  BY <1>0, <1>3 DEF Submit, KycTypeOK
<1>5. calls'[c].reply = None /\ loading'
  BY <1>0 DEF Submit, KycTypeOK
<1>6. CallDisables'
  BY <1>4, <1>5 DEF CallDisables
<1>7. RowsDecided' /\ DecisionsMade' /\ FlagIsRole'
  BY <1>0, <1>4, <1>5 DEF Submit, server, RowsDecided, DecisionsMade, FlagIsRole
<1> QED  BY <1>2, <1>6, <1>7 DEF KycInv

\* Serving a call replies to it: with a decision only if there is one.
LEMMA ServeChanges ==
  ASSUME KycAssumption, KycTypeOK, RowsDecided, NEW c \in Call,
         ServeStatus(c) \/ Fail(c) \/ \E k \in RequestId : ServeSubmit(c, k)
  PROVE  /\ calls[c] \in KycCall /\ calls[c] # None
         /\ \E r \in Reply : /\ calls' = [calls EXCEPT ![c] = [calls[c] EXCEPT !.reply = r]]
                             /\ r.status \in Decision => r.status \in decided
         /\ request' \in [RequestId -> Status \cup {None}]
         /\ RowsDecided'
         /\ UNCHANGED <<decided, flag, role, handlers, executor, shown, loading, screen>>
<1>1. calls[c] \in KycCall /\ calls[c] # None
  BY DEF ServeStatus, Fail, ServeSubmit, Waiting, KycTypeOK
<1>2. CASE ServeStatus(c)
  <2>1. [ok |-> TRUE, status |-> StatusAnswered] \in Reply
    BY AnsweredIsDecided DEF Reply
  <2> QED
    BY <1>1, <1>2, <2>1, AnsweredIsDecided DEF ServeStatus, Replied, server, KycTypeOK, RowsDecided
<1>3. CASE Fail(c)
  <2>1. Failed \in Reply /\ Failed.status \notin Decision
    BY DEF Failed, Reply, KycAssumption, Status
  <2> QED  BY <1>1, <1>3, <2>1 DEF Fail, Replied, server, KycTypeOK, RowsDecided
<1>4. ASSUME NEW k \in RequestId, ServeSubmit(c, k)
      PROVE  /\ \E r \in Reply : /\ calls' = [calls EXCEPT ![c] = [calls[c] EXCEPT !.reply = r]]
                                 /\ r.status \in Decision => r.status \in decided
             /\ request' \in [RequestId -> Status \cup {None}]
             /\ RowsDecided'
  <2>1. [ok |-> TRUE, status |-> "Pending"] \in Reply /\ "Pending" \notin Decision
    BY DEF Reply, Status, Decision
  <2>2. request' \in [RequestId -> Status \cup {None}]
    BY <1>4 DEF ServeSubmit, KycTypeOK, Status
  <2>3. RowsDecided'
    BY <1>4, <2>1 DEF ServeSubmit, KycTypeOK, RowsDecided
  <2>4. calls' = [calls EXCEPT ![c] = [calls[c] EXCEPT !.reply = [ok |-> TRUE, status |-> "Pending"]]]
    BY <1>1, <1>4 DEF ServeSubmit, Replied, KycTypeOK
  <2> QED  BY <2>1, <2>2, <2>3, <2>4
<1> QED  BY <1>1, <1>2, <1>3, <1>4 DEF ServeSubmit

LEMMA ServeKeeps ==
  ASSUME KycAssumption, KycInv, NEW c \in Call,
         ServeStatus(c) \/ Fail(c) \/ \E k \in RequestId : ServeSubmit(c, k)
  PROVE  KycInv'
<1>0. KycTypeOK /\ CallDisables /\ RowsDecided /\ DecisionsMade /\ FlagIsRole
  BY DEF KycInv
<1>1. PICK r \in Reply : /\ calls' = [calls EXCEPT ![c] = [calls[c] EXCEPT !.reply = r]]
                         /\ r.status \in Decision => r.status \in decided
  BY <1>0, ServeChanges
<1>2. [calls[c] EXCEPT !.reply = r] \in KycCall /\ calls[c] # None
  BY <1>0, ServeChanges DEF KycCall
<1>3. KycTypeOK'
  BY <1>0, <1>1, <1>2, ServeChanges DEF KycTypeOK
<1>4. /\ calls'[c].reply = r /\ \A d \in Call \ {c} : calls'[d] = calls[d]
  BY <1>0, <1>1, <1>2, ServeChanges DEF KycTypeOK, KycCall
<1>5. CallDisables'
  BY <1>0, <1>2, <1>4, ServeChanges DEF CallDisables
<1>6. RowsDecided' /\ DecisionsMade'
  BY <1>0, <1>1, <1>4, ServeChanges DEF DecisionsMade
<1>7. FlagIsRole'
  BY <1>0, ServeChanges DEF FlagIsRole
<1> QED  BY <1>3, <1>5, <1>6, <1>7 DEF KycInv

LEMMA SettleKeeps ==
  ASSUME KycAssumption, KycInv, NEW c \in Call, Settle(c)
  PROVE  KycInv'
<1>0. KycTypeOK /\ CallDisables /\ RowsDecided /\ DecisionsMade /\ FlagIsRole
  BY DEF KycInv
<1>1. calls[c] \in KycCall /\ calls[c] # None /\ calls[c].reply \in Reply /\ calls[c].reply # None
      /\ UNCHANGED server
  BY <1>0 DEF Settle, SubmitAnswered, StatusArrived, Refused, Settled, KycTypeOK, KycCall
<1>2. \A d \in Call \ {c} : calls[d] = None
  BY <1>0, <1>1 DEF CallDisables
<1>3. CASE SubmitAnswered(c)
  <2>1. [op |-> "status", reply |-> None] \in KycCall
    BY DEF KycCall
  <2>2. KycTypeOK'
    BY <1>0, <1>1, <1>3, <2>1 DEF SubmitAnswered, Settled, KycTypeOK, server, Status
  <2>3. calls'[c].reply = None /\ loading' /\ \A d \in Call \ {c} : calls'[d] = None
    BY <1>0, <1>2, <1>3 DEF SubmitAnswered, KycTypeOK
  <2>4. CallDisables'
    BY <2>3 DEF CallDisables
  <2>5. RowsDecided' /\ DecisionsMade' /\ FlagIsRole'
    BY <1>0, <1>1, <1>3, <2>3
    DEF SubmitAnswered, RowsDecided, DecisionsMade, Decision, FlagIsRole, server
  <2> QED  BY <2>2, <2>4, <2>5 DEF KycInv
<1>4. CASE StatusArrived(c) \/ Refused(c)
  <2>1. calls' = [calls EXCEPT ![c] = None] /\ shown' \in {shown, calls[c].reply.status}
        /\ shown' \in Status \cup {None} /\ loading' = FALSE /\ screen' = screen /\ executor' = executor
    BY <1>0, <1>1, <1>4 DEF StatusArrived, Refused, Settled, KycTypeOK, Reply
  <2>2. KycTypeOK'
    BY <1>0, <1>1, <2>1 DEF KycTypeOK, server
  <2>3. \A d \in Call : calls'[d] = None
    BY <1>0, <1>2, <2>1 DEF KycTypeOK
  <2>4. CallDisables' /\ RowsDecided' /\ DecisionsMade' /\ FlagIsRole'
    BY <1>0, <1>1, <2>1, <2>3
    DEF CallDisables, RowsDecided, DecisionsMade, FlagIsRole, server
  <2> QED  BY <2>2, <2>4 DEF KycInv
<1> QED  BY <1>3, <1>4 DEF Settle

LEMMA NextKyc == KycAssumption /\ KycInv /\ [Next]_vars => KycInv'
<1> SUFFICES ASSUME KycAssumption, KycInv, [Next]_vars PROVE KycInv'
  OBVIOUS
<1>1. CASE AdminStep
  <2>1. /\ KycTypeOK' /\ UNCHANGED client
        /\ FlagIsRole' /\ RowsDecided' /\ decided \subseteq decided'
    BY <1>1, AdminTyped, AdminKeepsTogether DEF KycInv
  <2> QED  BY <2>1 DEF KycInv, client, CallDisables, DecisionsMade
<1>2. CASE UNCHANGED vars
  BY <1>2 DEF vars, server, client, KycInv, KycTypeOK, FlagIsRole, CallDisables,
                  RowsDecided, DecisionsMade
<1> QED  BY <1>1, <1>2, WalkKeeps, SubmitKeeps, ServeKeeps, SettleKeeps
         DEF Next, AdminStep, Resolve, Serve

-----------------------------------------------------------------------------
LEMMA KycInvariant == ASSUME KycAssumption PROVE Spec => []KycInv
<1>1. Init => KycInv
  BY InitKyc
<1>2. KycInv /\ [Next]_vars => KycInv'
  BY NextKyc
<1> QED  BY <1>1, <1>2, PTL DEF Spec

LEMMA OneCallFromInv == ASSUME KycInv PROVE OneKycCall
<1> DEFINE busy == {c \in Call : calls[c] # None}
<1>1. CASE busy = {}
  BY <1>1, FS_EmptySet DEF OneKycCall
<1>2. CASE busy # {}
  <2>1. PICK c \in busy : TRUE
    BY <1>2
  <2>2. busy = {c}
    BY <2>1 DEF KycInv, CallDisables
  <2> QED  BY <2>2, FS_Singleton DEF OneKycCall
<1> QED  BY <1>1, <1>2

LEMMA DecisionFromInv == ASSUME KycAssumption, KycInv PROVE DecisionIsReal
<1> SUFFICES ASSUME Displayed \in Decision
             PROVE  Displayed \in decided
  BY DEF DecisionIsReal
<1>1. shown \in Decision /\ Displayed = shown
  BY DEF Displayed, KycAssumption, Status, Decision
<1> QED  BY <1>1 DEF KycInv, DecisionsMade

\* For any number of requests, handlers and calls: types, flag and role agree in every reachable
\* state, one call of the slice is in flight, and a displayed decision was made.
THEOREM KycSafe ==
  ASSUME KycAssumption
  PROVE  Spec => [](KycTypeOK /\ FlagIsRole /\ OneKycCall /\ DecisionIsReal)
<1>1. KycInv => KycTypeOK /\ FlagIsRole /\ OneKycCall /\ DecisionIsReal
  BY OneCallFromInv, DecisionFromInv DEF KycInv
<1> QED  BY <1>1, KycInvariant, PTL
=============================================================================
