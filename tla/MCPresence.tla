----------------------------- MODULE MCPresence -----------------------------
(* Small instances of Presence.  Two connections of two users: the owner and a *)
(* recipient, in one workspace or in two.                                      *)
EXTENDS Presence, TLC

CONSTANTS c1, c2, owner, peer, w1, w2, r1, r2, card1, card2, f1, l1, l2, l3, l4

MCConn == {c1, c2}
MCUser == {owner, peer}
MCUserOf == c1 :> owner @@ c2 :> peer
OneWorkspace == [c \in MCConn |-> w1]
TwoWorkspaces == c1 :> w1 @@ c2 :> w2

Collaborators == owner :> {"owner"} @@ peer :> {"contributor"}
Editors == owner :> {"owner"} @@ peer :> {"editor"}

\* two references of one card, or one reference of each card
AliasedCard == r1 :> card1 @@ r2 :> card1
OneEach == r1 :> card1
NoReferences == [r \in {} |-> card1]

NoSlots == {{}}
PeerSlots == {{}, {<<peer, f1>>}}

\* a card that shows the last revision makes the canvas larger than the server takes
LargePayloads ==
    {cards \in [Card -> [kind : {"draft", "loaded"}, val : [Field -> 0..MaxRevision],
                         slot : Slot] \cup {None}] :
        \E card \in Card : /\ cards[card] # None
                            /\ \E f \in Field : cards[card].val[f] = MaxRevision}

LeaseSymmetry == Permutations({l1, l2, l3, l4})

\* start from a stored canvas whose first card is a draft with a request
RequestInit ==
    /\ Init
    /\ stored.cards[card1] = [kind |-> "draft", val |-> Blank, slot |-> {<<peer, f1>>}]
RequestSpec == RequestInit /\ [][Next]_vars

\* start from a stored canvas whose cards are drafts without a request
DraftInit ==
    /\ Init
    /\ \A card \in Card : stored.cards[card] = [kind |-> "draft", val |-> Blank, slot |-> {}]
DraftSpec == DraftInit /\ [][Next]_vars
FairDraftSpec == DraftSpec /\ Fairness
=============================================================================
