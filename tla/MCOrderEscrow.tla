---------------------------- MODULE MCOrderEscrow ----------------------------
(***************************************************************************)
(* Instances of OrderEscrow for TLC.  Identifiers, requests and amounts are *)
(* sets of model values.                                                   *)
(***************************************************************************)
EXTENDS OrderEscrow, TLC

CONSTANTS ann, bob, eve, s1, s2

\* The one service belongs to no account; nobody chats in private.
NoOwner    == [s \in Service |-> None]
OneCategory == [s \in Service |-> CHOOSE k \in Category : TRUE]
NoChats    == {}

\* ann and eve share a private chat, eve offers service s1 and nobody owns s2.
EveOwnsFirst == [s \in Service |-> IF s = s1 THEN eve ELSE None]
AnnAndEve    == {<<ann, eve>>}

\* ann and eve opened a chat with each other at the same time (the rows of run
\* two_chats); bob is a stranger to both.
AnnAndEveBoth == {<<ann, eve>>, <<eve, ann>>}

\* Identifiers are interchangeable.
Symmetry ==
  Permutations(Order) \cup Permutations(Charge) \cup Permutations(Offer)
    \cup Permutations(Ticket) \cup Permutations(Request) \cup Permutations(Amount)

\* So are ann and eve, where nothing tells them apart: they are members of the
\* same chats in both roles, and no service has an owner.
MemberSymmetry == Symmetry \cup Permutations({ann, eve})

\* Bound: whoever orders without an offer is the stranger, whose account, unlike a
\* member's, can be deleted and take his orders along.
CatalogueOrdersAreBobs ==
  \A o \in Order : Live(order[o]) /\ origin[o] = None => order[o].student = bob
=============================================================================
