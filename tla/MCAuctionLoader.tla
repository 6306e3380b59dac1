-------------------------- MODULE MCAuctionLoader --------------------------
(***************************************************************************)
(* AuctionLoader for TLC: each user may sell, and bid several times, also  *)
(* on what he sells himself; or an item has up to three categories.        *)
(***************************************************************************)
EXTENDS AuctionLoader, TLC

MCItems ==
    [itemID : ItemIDs, category : {<<"c">>}, seller : Users,
     bids : {None} \cup BoundedSeq(Users, 3)]
    \cup [itemID : ItemIDs, category : BoundedSeq(Categories \cup {None}, 3),
          seller : Users, bids : {None}]

Symmetry == Permutations(Users) \cup Permutations(ItemIDs)
=============================================================================
