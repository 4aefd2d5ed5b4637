-------------------------------- MODULE Kyc --------------------------------
(***************************************************************************)
(* Becoming an executor: one person's verification requests, the executor  *)
(* flag and role the administrator's handlers keep for him, the kyc slice  *)
(* and the two screens of his client.                                      *)
(*                                                                         *)
(* An administrator's handler loads the user, then saves what it changed:  *)
(* Entity Framework writes the values that differ from the loaded ones, in *)
(* one transaction, and inserting a role row that exists or deleting one   *)
(* that does not makes the transaction fail.                               *)
(***************************************************************************)
EXTENDS Naturals, FiniteSets, FiniteSetsExt

CONSTANTS
  Requests,  \* bound on the number of verification requests
  Handler,   \* administrator's requests that can be in flight at the same time
  Call,      \* the client's calls that can be in flight at the same time
  None       \* null: no status, no row, a free slot, no answer

\* Identifiers are Guids: ordered, and which of the unused ones a new request gets is arbitrary.
RequestId == 1..Requests

Decision == {"Approved", "Rejected"}
Status  == Decision \cup {"Pending"}
Load    == [role : BOOLEAN, want : BOOLEAN, request : RequestId \cup {None}]
Reply   == [ok : BOOLEAN, status : Status \cup {None}]
KycCall == [op : {"submit", "status"}, reply : Reply \cup {None}]

\* Assumed of the constants.
KycAssumption ==
  /\ Requests \in Nat
  /\ None \notin RequestId /\ None \notin Status
  /\ None \notin Load /\ None \notin Reply /\ None \notin KycCall

VARIABLES
  request,  \* the person's rows of KycRequests: the status of each
  decided,  \* history: the decisions that were ever saved
  flag,     \* Users.IsExecutor
  role,     \* whether UserRoles has the Executor role
  handlers, \* administrator's requests: the role they loaded and want, the row they approve
  executor, \* state.auth.user.isExecutor, as the last sign-in answered it
  shown,    \* state.kyc.status
  loading,  \* state.kyc.loading
  screen,   \* the screen on top: the tabs, kyc-submit or kyc-status
  calls     \* thunks of the kyc slice in flight

server == <<request, decided, flag, role, handlers>>
client == <<executor, shown, loading, screen, calls>>
vars == <<server, client>>

Init ==
  /\ request = [k \in RequestId |-> None] /\ decided = {}
  /\ flag = FALSE /\ role = FALSE
  /\ handlers = [h \in Handler |-> None]
  /\ executor = FALSE /\ shown = None /\ loading = FALSE /\ screen = "tabs"
  /\ calls = [c \in Call |-> None]

Submitted == {k \in RequestId : request[k] # None}

(***************************************************************************)
(* The administrator's handlers                                            *)
(***************************************************************************)
\* UpdateUserRole and EditUser (want), RemoveUserRole and EditUser (~want).
SetRoleLoad(h, want) ==
  /\ handlers[h] = None /\ h = CHOOSE free \in Handler : handlers[free] = None
  /\ handlers' = [handlers EXCEPT ![h] = [role |-> role, want |-> want, request |-> None]]
  /\ UNCHANGED <<request, decided, flag, role, client>>

\* ApproveKyc; a status already Approved is not written.
ApproveLoad(h, k) ==
  /\ handlers[h] = None /\ h = CHOOSE free \in Handler : handlers[free] = None
  /\ request[k] # None
  /\ handlers' = [handlers EXCEPT ![h] = [role |-> role, want |-> TRUE,
                                           request |-> IF request[k] = "Approved" THEN None ELSE k]]
  /\ UNCHANGED <<request, decided, flag, role, client>>

\* The approval that handler h was sent to make, if it found one to make.
Approval(h) == {d \in {"Approved"} : handlers[h].request # None}

\* Mutant: the flag is written whether or not the role row can be.
SaveFlagAlways(h) ==
  /\ handlers[h] # None
  /\ flag' = handlers[h].want
  /\ role' = IF role = handlers[h].role THEN handlers[h].want ELSE role
  /\ request' = [k \in RequestId |-> IF k = handlers[h].request THEN "Approved" ELSE request[k]]
  /\ decided' = decided \cup Approval(h)
  /\ handlers' = [handlers EXCEPT ![h] = None]
  /\ UNCHANGED client

Save(h) ==
  /\ handlers[h] # None
  /\ handlers[h].want # handlers[h].role => role = handlers[h].role
  /\ IF handlers[h].want = handlers[h].role
     THEN UNCHANGED <<flag, role>>
     ELSE flag' = handlers[h].want /\ role' = handlers[h].want
  /\ request' = [k \in RequestId |-> IF k = handlers[h].request THEN "Approved" ELSE request[k]]
  /\ decided' = decided \cup Approval(h)
  /\ handlers' = [handlers EXCEPT ![h] = None]
  /\ UNCHANGED client

\* The save violates the role rows' key or touches no row, or the handler ends otherwise.
Abandon(h) ==
  /\ handlers[h] # None
  /\ handlers' = [handlers EXCEPT ![h] = None]
  /\ UNCHANGED <<request, decided, flag, role, client>>

\* Neither the flag nor the role is taken back when the request had been approved.
Reject(k) ==
  /\ request[k] \in Status \ {"Rejected"}
  /\ request' = [request EXCEPT ![k] = "Rejected"]
  /\ decided' = decided \cup {"Rejected"}
  /\ UNCHANGED <<flag, role, handlers, client>>

(***************************************************************************)
(* The client                                                              *)
(***************************************************************************)
\* The profile's menu offers either this or the executor's orders.
MenuOffersKyc == ~executor

\* Logging in again is what refreshes the user: fetchMe runs only for a token without a user.
SignIn ==
  /\ screen = "tabs"
  /\ executor' = flag
  /\ UNCHANGED <<server, shown, loading, screen, calls>>

OpenSubmit ==
  /\ screen = "tabs" /\ MenuOffersKyc
  /\ screen' = "submit"
  /\ UNCHANGED <<server, executor, shown, loading, calls>>

Leave ==
  /\ screen # "tabs"
  /\ screen' = "tabs"
  /\ UNCHANGED <<server, executor, shown, loading, calls>>

\* Mutant: the button is not disabled while loading.
CanSubmitAlways == screen = "submit"

\* The form is complete and the button is not disabled; any free slot will do for the call.
CanSubmit == screen = "submit" /\ ~loading

Submit(c) ==
  /\ CanSubmit
  /\ calls[c] = None /\ c = CHOOSE free \in Call : calls[free] = None
  /\ calls' = [calls EXCEPT ![c] = [op |-> "submit", reply |-> None]]
  /\ loading' = TRUE
  /\ UNCHANGED <<server, executor, shown, screen>>

Waiting(c, op) == calls[c] # None /\ calls[c].op = op /\ calls[c].reply = None
Replied(c, reply) == calls' = [calls EXCEPT ![c].reply = reply]

ServeSubmit(c, k) ==
  /\ Waiting(c, "submit")
  /\ request[k] = None
  /\ request' = [request EXCEPT ![k] = "Pending"]
  /\ Replied(c, [ok |-> TRUE, status |-> "Pending"])
  /\ UNCHANGED <<decided, flag, role, handlers, executor, shown, loading, screen>>

\* Mutant: a request that is not rejected is answered as an approval.
BestRequest == IF Submitted = {} THEN None
               ELSE IF request[Max(Submitted)] = "Rejected" THEN "Rejected" ELSE "Approved"

\* The status of the request with the highest identifier.
StatusAnswered == IF Submitted = {} THEN None ELSE request[Max(Submitted)]

ServeStatus(c) ==
  /\ Waiting(c, "status")
  /\ Replied(c, [ok |-> TRUE, status |-> StatusAnswered])
  /\ UNCHANGED <<server, executor, shown, loading, screen>>

Failed == [ok |-> FALSE, status |-> None]

\* An error, or the request or its answer is lost.
Fail(c) ==
  /\ calls[c] # None
  /\ calls[c].reply # Failed
  /\ Replied(c, Failed)
  /\ UNCHANGED <<server, executor, shown, loading, screen>>

Settled(c, op, ok) ==
  /\ calls[c] # None /\ calls[c].op = op
  /\ calls[c].reply # None /\ calls[c].reply.ok = ok
  /\ UNCHANGED <<server, executor>>

\* Mutant: the slice notes a status of its own.
SubmittedShown(c) ==
  /\ Settled(c, "submit", TRUE)
  /\ shown' = "Submitted"
  /\ screen' = "status"
  /\ loading' = TRUE
  /\ calls' = [calls EXCEPT ![c] = [op |-> "status", reply |-> None]]

\* The status screen replaces whatever is on top, and fetches when it is mounted.
SubmitAnswered(c) ==
  /\ Settled(c, "submit", TRUE)
  /\ shown' = "Pending"
  /\ screen' = "status"
  /\ loading' = TRUE
  /\ calls' = [calls EXCEPT ![c] = [op |-> "status", reply |-> None]]

StatusArrived(c) ==
  /\ Settled(c, "status", TRUE)
  /\ shown' = calls[c].reply.status
  /\ loading' = FALSE
  /\ calls' = [calls EXCEPT ![c] = None]
  /\ UNCHANGED screen

Refused(c) ==
  /\ \E op \in {"submit", "status"} : Settled(c, op, FALSE)
  /\ loading' = FALSE
  /\ calls' = [calls EXCEPT ![c] = None]
  /\ UNCHANGED <<shown, screen>>

\* What the status screen displays; no status is displayed as a pending one.
Displayed ==
  IF screen # "status" \/ loading THEN None ELSE IF shown = None THEN "Pending" ELSE shown

Serve(c) == ServeStatus(c) \/ Fail(c) \/ \E k \in RequestId : ServeSubmit(c, k)
Settle(c) == SubmitAnswered(c) \/ StatusArrived(c) \/ Refused(c)
Resolve(c) == Serve(c) \/ Settle(c)

Next ==
  \/ \E h \in Handler : Save(h) \/ Abandon(h) \/ \E want \in BOOLEAN : SetRoleLoad(h, want)
  \/ \E h \in Handler, k \in RequestId : ApproveLoad(h, k)
  \/ \E k \in RequestId : Reject(k)
  \/ SignIn \/ OpenSubmit \/ Leave
  \/ \E c \in Call : Submit(c) \/ Resolve(c)

\* Calls are resolved, by their failure at the latest, and settled promises run their
\* handlers; the person and the administrator need not do anything.
Fairness == \A c \in Call : WF_vars(Resolve(c))

Spec == Init /\ [][Next]_vars /\ Fairness

-----------------------------------------------------------------------------
(***************************************************************************)
(* Properties                                                              *)
(***************************************************************************)
\* Type correctness of the tables, the kyc slice, the screens and the calls.
KycTypeOK ==
  /\ request \in [RequestId -> Status \cup {None}]
  /\ decided \subseteq Decision
  /\ flag \in BOOLEAN /\ role \in BOOLEAN /\ executor \in BOOLEAN
  /\ handlers \in [Handler -> Load \cup {None}]
  /\ shown \in Status \cup {None}
  /\ loading \in BOOLEAN
  /\ screen \in {"tabs", "submit", "status"}
  /\ calls \in [Call -> KycCall \cup {None}]

\* IsExecutor says what the role rows say, although handlers compute both from what they
\* loaded and overlap (AdminController.cs:150, 234, 254, 300).
FlagIsRole == flag = role

\* At most one call of the kyc slice is in flight, so that one visit submits one request
\* and no status answer crosses a submission; only the disabled button sees to it.
OneKycCall == Cardinality({c \in Call : calls[c] # None}) <= 1

\* The very decision that is displayed to the person was saved for one of his requests: an
\* answer may be late, of an older request, or of one decided again since, but none says
\* approved to who was never approved, or rejected to who was never rejected.
DecisionIsReal == Displayed \in Decision => Displayed \in decided
=============================================================================
