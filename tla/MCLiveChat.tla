----------------------------- MODULE MCLiveChat -----------------------------
(***************************************************************************)
(* Instances of LiveChat for TLC.  The other half of p2 and of d1 (bob, an *)
(* executor) has no client here: his messages would add nothing to what    *)
(* ann's do.                                                               *)
(***************************************************************************)
EXTENDS LiveChat, TLC

CONSTANTS ann, eve, p1, p2, d1

\* ann chats with eve (p1) and with bob (p2), whose offer became the order d1.
MembersOf == [t \in Topic |-> IF t = p1 THEN {ann, eve} ELSE {ann}]
OfferedBy == [t \in OrderTopic |-> <<ann, p2>>]

\* ann and eve share a private chat and the order d1 that eve made ann an offer for.
AnnAndEve == [t \in Topic |-> {ann, eve}]
EveOffers == [t \in OrderTopic |-> <<ann, p1>>]

\* Identifiers are interchangeable.
Symmetry == Permutations(ChatId) \cup Permutations(MessageId) \cup Permutations(Request)
=============================================================================
