----------------------------- MODULE BufHashTbl -----------------------------
(***************************************************************************)
(* The hash table of the third assignment's buffer manager                 *)
(* (src/p3/src/bufHashTbl.cpp): HTSIZE chains of buckets, each bucket      *)
(* naming the frame of one page of one File object.  Different pages share *)
(* a chain, and the chain is kept in the order of insertion, newest first. *)
(*                                                                         *)
(* The operators say what a call makes of a table ht.  The caller sees to  *)
(* the exceptions: HashNotFound when a page is not Present, and            *)
(* HashAlreadyPresent when one to be inserted is.                          *)
(***************************************************************************)
EXTENDS Integers, Sequences

CONSTANTS
    Files,      \* the File objects
    MaxPage,    \* bound: page numbers are 1..MaxPage
    numBufs,    \* frames of the pool the table was made for
    address,    \* File object -> its address
    WordSize,   \* bound: addresses and sums are taken modulo WordSize
                \* (2^32 in the code)
    NoFrame     \* stands for HashNotFoundException of a lookup

Pages == 1 .. MaxPage
Frames == 0 .. numBufs - 1

ASSUME NumBufsAssumption == numBufs \in Nat \ {0}
ASSUME WordAssumption == WordSize \in Nat \ {0}
ASSUME AddressAssumption == address \in [Files -> Nat]
ASSUME MaxPageAssumption == MaxPage \in Nat
ASSUME NoFrameAssumption == NoFrame \notin Frames

(* Twelve tenths of the number of frames, and one. *)
HTSIZE == (numBufs * 12) \div 10 + 1

Buckets == [file : Files, pageNo : Pages, frameNo : Frames]

(* The address of the object, cut to a word, plus the page number.  The    *)
(* sum is unsigned.                                                        *)
hash(f, p) == ((address[f] + p) % WordSize) % HTSIZE

Empty_ht == [b \in 0 .. HTSIZE - 1 |-> <<>>]

(* Where the chain has a bucket for the page. *)
At(ht, f, p) ==
    {i \in DOMAIN ht[hash(f, p)] :
        /\ ht[hash(f, p)][i].file = f
        /\ ht[hash(f, p)][i].pageNo = p}

Present(ht, f, p) == At(ht, f, p) # {}

(* The walk along the chain stops at the first one. *)
First(S) == CHOOSE i \in S : \A j \in S : i <= j

lookup(ht, f, p) ==
    LET at == At(ht, f, p) IN
    IF at = {} THEN NoFrame ELSE ht[hash(f, p)][First(at)].frameNo

insert(ht, f, p, fr) ==
    [ht EXCEPT ![hash(f, p)] =
        <<[file |-> f, pageNo |-> p, frameNo |-> fr]>> \o @]

(* Slip: the head of the chain goes, whoever it belongs to. *)
remove_Head(ht, f, p) == [ht EXCEPT ![hash(f, p)] = Tail(@)]

remove(ht, f, p) ==
    LET i == First(At(ht, f, p)) IN
    [ht EXCEPT ![hash(f, p)] =
        [j \in 1 .. Len(@) - 1 |-> IF j < i THEN @[j] ELSE @[j + 1]]]

-----------------------------------------------------------------------------
(* Each bucket is in the chain of its hash, and no page has two. *)
ChainsOK(ht) ==
    \A b \in 0 .. HTSIZE - 1 :
        /\ \A i \in DOMAIN ht[b] :
              hash(ht[b][i].file, ht[b][i].pageNo) = b
        /\ \A i, j \in DOMAIN ht[b] :
              ht[b][i].file = ht[b][j].file /\ ht[b][i].pageNo = ht[b][j].pageNo
                  => i = j
=============================================================================
