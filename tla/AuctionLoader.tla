--------------------------- MODULE AuctionLoader ---------------------------
(***************************************************************************)
(* src/p5/parser.py: the items of the auction files, one after the other,  *)
(* become rows of five tables, kept as Python lists until all files are    *)
(* read and then written for SQLite (create.sql, load.txt).                *)
(*                                                                         *)
(* A row's id is its place in its table, counted from zero.  Prices, times *)
(* and titles are copied or reformatted one by one and left out; so are    *)
(* a user's rating and place.                                              *)
(***************************************************************************)
EXTENDS Integers, SequencesExt

CONSTANTS
    Users,          \* UserIDs; hexStr tells them apart as they are
    Categories,
    None,           \* JSON's null and Python's None
    ItemIDs,
    Items           \* what the files may hold

ASSUME NoneAssumption == None \notin Users \cup Categories
ASSUME ItemAssumption ==
    \A item \in Items :
        /\ item.itemID \in ItemIDs
        /\ item.category \in Seq(Categories \cup {None})
        /\ item.seller \in Users
        /\ item.bids = None \/ item.bids \in Seq(Users)

VARIABLES
    AuctionUser,    \* rows [userName, bidder, seller], and the hexCode of each:
                    \* UserHexCode tells the users apart and is not written
    Auction,        \* rows [itemID, sellerID]
    Bid,            \* rows [auctionID, bidderID]
    Classification, \* rows [itemID, categoryName]
    Item,           \* rows, the ItemIDs
    status,         \* "parsing", "written" or "failed"
    read            \* history: the items that were read, in order

tables == <<AuctionUser, Auction, Bid, Classification, Item>>
vars == <<tables, status, read>>

Init ==
    /\ AuctionUser = <<>> /\ Auction = <<>> /\ Bid = <<>>
    /\ Classification = <<>> /\ Item = <<>>
    /\ status = "parsing"
    /\ read = <<>>

-----------------------------------------------------------------------------
(* Number_of_Bids is a string and so never equal to 0. *)
Bids(item) == IF item.bids = None THEN <<>> ELSE item.bids

(* From the i-th category on: the equal ones behind it are blanked. *)

(* Slip: only the one right behind it is looked at. *)
Blanked_Next(cats, i) ==
    [j \in DOMAIN cats |->
        IF j = i + 1 /\ cats[i] # None /\ cats[j] = cats[i] THEN None ELSE cats[j]]

Blanked(cats, i) ==
    [j \in DOMAIN cats |->
        IF j > i /\ cats[i] # None /\ cats[j] = cats[i] THEN None ELSE cats[j]]

CategoryNames(item) ==
    SelectSeq(FoldLeft(Blanked, item.category,
                       [i \in DOMAIN item.category |-> i]),
              LAMBDA cat : cat # None)

(* UserHexCode.index(hexID), a row or 0 when there is none. *)
Row(users, user) ==
    SelectInSeq(users, LAMBDA u : u.hexCode = user)

UserID(users, user) == Row(users, user) - 1

(* The first sight of a user makes a row, a later one only sets the flag.  *)
WithSeller(users, user) ==
    IF Row(users, user) = 0
    THEN Append(users, [hexCode |-> user, userName |-> user,
                        bidder |-> FALSE, seller |-> TRUE])
    ELSE [users EXCEPT ![Row(users, user)].seller = TRUE]

(* A bidder's new row is given the seller's name.                          *)

(* Slip: the flag of a user met before is not set. *)
WithBidder_NewOnly(users, user, seller) ==
    IF Row(users, user) = 0
    THEN Append(users, [hexCode |-> user, userName |-> seller,
                        bidder |-> TRUE, seller |-> FALSE])
    ELSE users

WithBidder(users, user, seller) ==
    IF Row(users, user) = 0
    THEN Append(users, [hexCode |-> user, userName |-> seller,
                        bidder |-> TRUE, seller |-> FALSE])
    ELSE [users EXCEPT ![Row(users, user)].bidder = TRUE]

UsersWith(item) ==
    FoldLeft(LAMBDA users, user : WithBidder(users, user, item.seller),
             WithSeller(AuctionUser, item.seller), Bids(item))

(* The loop over the bidders has left the last of them in hexID, and the   *)
(* auction gets his number for its sellerID.                               *)
hexID(item) == IF Bids(item) = <<>> THEN item.seller ELSE Last(Bids(item))

(* Of an ItemID there is one item (items_schema.txt:11). *)
processItem(item) ==
    /\ status = "parsing"
    /\ item.itemID \notin ToSet(Item)
    /\ Item' = Append(Item, item.itemID)
    /\ LET names == CategoryNames(item) IN
       Classification' = Classification \o
           [i \in DOMAIN names |->
              [itemID |-> item.itemID, categoryName |-> names[i]]]
    /\ AuctionUser' = UsersWith(item)
    /\ Auction' = Append(Auction,
           [itemID |-> item.itemID,
            sellerID |-> UserID(AuctionUser', hexID(item))])
    /\ Bid' = Bid \o
           [i \in DOMAIN Bids(item) |->
              [auctionID |-> Len(Auction),
               bidderID |-> UserID(AuctionUser', Bids(item)[i])]]
    /\ read' = Append(read, item)
    /\ UNCHANGED status

(* An item or a file that is not as the schema says ends the program with  *)
(* an exception; what was read is not written. *)
Fail == status = "parsing" /\ status' = "failed" /\ UNCHANGED <<tables, read>>

writeDat ==
    /\ status = "parsing"
    /\ status' = "written"
    /\ UNCHANGED <<tables, read>>

Ended == status # "parsing" /\ UNCHANGED vars

Next == (\E item \in Items : processItem(item)) \/ Fail \/ writeDat \/ Ended

Spec == Init /\ [][Next]_vars

-----------------------------------------------------------------------------
UserOf(id) == AuctionUser[id + 1].hexCode

(* Every user of the items that were read has one row, whatever he did     *)
(* first, and its flags, which queries 5 and 6 count, say exactly whether  *)
(* he has sold and whether he has bid.                                     *)
UsersOnce ==
    /\ IsInjective([i \in DOMAIN AuctionUser |-> AuctionUser[i].hexCode])
    /\ {u.hexCode : u \in {v \in ToSet(AuctionUser) : v.seller}}
         = {item.seller : item \in ToSet(read)}
    /\ {u.hexCode : u \in {v \in ToSet(AuctionUser) : v.bidder}}
         = UNION {ToSet(Bids(item)) : item \in ToSet(read)}
    /\ \A u \in ToSet(AuctionUser) : u.seller \/ u.bidder

(* The rows of an item, found through the foreign keys of create.sql, tell *)
(* of its bids in order and of its categories each once.                   *)
BidsOf(auctionID) == SelectSeq(Bid, LAMBDA b : b.auctionID = auctionID)

RowsRetell ==
    \A i \in DOMAIN read :
        LET bids == BidsOf(i - 1)
            rows == SelectSeq(Classification,
                              LAMBDA c : c.itemID = read[i].itemID)
        IN  /\ Item[i] = read[i].itemID /\ Auction[i].itemID = Item[i]
            /\ Auction[i].sellerID + 1 \in DOMAIN AuctionUser
            /\ [k \in DOMAIN bids |-> UserOf(bids[k].bidderID)] = Bids(read[i])
            /\ {c.categoryName : c \in ToSet(rows)}
                 = ToSet(read[i].category) \ {None}
            /\ IsInjective(rows)

(* What design.tex:31 says: users are related to auctions as sellers, to   *)
(* bids as bidders.  The sellerID of an auction is the seller's.           *)
AuctionsOfSellers ==
    \A i \in DOMAIN read : UserOf(Auction[i].sellerID) = read[i].seller
=============================================================================
