------------------------------ MODULE MCBolts ------------------------------
(***************************************************************************)
(* Two events of one account that together exceed its daily cap, revenue   *)
(* that goes to Moss, and a home with a lamp, a tier and the room it opens.*)
(***************************************************************************)
EXTENDS Bolts, TLC

CONSTANTS e1, e2, moss, desk, lamp, cottage, study

MCEvents == {e1, e2}
MCAccountOf == [e \in MCEvents |-> desk]
MCAmount == (e1 :> 2) @@ (e2 :> 2)
MCKind == (lamp :> "furnishing") @@ (cottage :> "tier") @@ (study :> "room")
MCPrice == (lamp :> 1) @@ (cottage :> 1) @@ (study :> 2)
MCTiers == <<cottage>>
MCRoomSlots == (0 :> 0) @@ (1 :> 1)
MCWishlist == (moss :> <<>>) @@ (desk :> <<study, lamp, cottage>>)

=============================================================================
