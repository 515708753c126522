----------------------------- MODULE FlashSale -----------------------------
(***************************************************************************)
(* What a sale promises, without the services that hold it: a buyer pays,  *)
(* in one step and from money that is there, and takes the goods, in one   *)
(* step and from stock that is there, once each and in that order.         *)
(*                                                                         *)
(* With Repeats a payment or a delivery that has been made may be made     *)
(* again: that is all that lost and late calls are allowed to add.         *)
(***************************************************************************)
EXTENDS Integers, FiniteSets

CONSTANTS
  Purchases,       \* purchases of the sale
  Users,           \* those who may become members
  Buyer,           \* Buyer[p]: the user who pays for purchase p
  Amount,          \* units per purchase, paid with as many units of money
  InitialStock,    \* units on the shelf when the sale opens
  InitialUsers,    \* members when the sale opens
  InitialBalance,  \* money of a member on joining
  Repeats          \* may a payment or a delivery be made twice?

VARIABLES
  shelf,    \* units on the shelf
  members,  \* users with a purse
  purse,    \* purse[u]: money of user u
  stage     \* stage[p]: how far purchase p has got

vars == <<shelf, members, purse, stage>>

Stage == {"open", "accepted", "paid", "bought"}

Init ==
  /\ shelf = InitialStock
  /\ members = InitialUsers
  /\ purse = [u \in Users |-> IF u \in InitialUsers THEN InitialBalance ELSE 0]
  /\ stage = [p \in Purchases |-> "open"]

-----------------------------------------------------------------------------
Move(p, from, to) ==
  /\ stage[p] = from
  /\ stage' = [stage EXCEPT ![p] = to]

\* Buyer[p] pays the price from what is in the purse.
Charge(p) ==
  LET u == Buyer[p] IN
  /\ u \in members /\ purse[u] >= Amount
  /\ purse' = [purse EXCEPT ![u] = @ - Amount]
  /\ UNCHANGED <<shelf, members>>

\* The goods leave the shelf.
Deliver ==
  /\ shelf >= Amount
  /\ shelf' = shelf - Amount
  /\ UNCHANGED <<members, purse>>

Join(u) ==
  /\ u \notin members
  /\ members' = members \cup {u}
  /\ purse' = [purse EXCEPT ![u] = InitialBalance]
  /\ UNCHANGED <<shelf, stage>>

Accept(p) == Move(p, "open", "accepted") /\ UNCHANGED <<shelf, members, purse>>

Pay(p) == Move(p, "accepted", "paid") /\ Charge(p)

Take(p) == Move(p, "paid", "bought") /\ Deliver

PayAgain(p) ==
  /\ Repeats
  /\ stage[p] \in {"paid", "bought"}
  /\ Charge(p)
  /\ UNCHANGED stage

TakeAgain(p) ==
  /\ Repeats
  /\ stage[p] = "bought"
  /\ Deliver
  /\ UNCHANGED stage

Next ==
  \/ \E p \in Purchases :
       Accept(p) \/ Pay(p) \/ Take(p) \/ PayAgain(p) \/ TakeAgain(p)
  \/ \E u \in Users : Join(u)

Spec == Init /\ [][Next]_vars

\* A purchase that has been accepted is paid for and handed over, unless it
\* keeps running out of money or goods.
Fairness == \A p \in Purchases : WF_vars(Pay(p)) /\ WF_vars(Take(p))

FairSpec == Spec /\ Fairness

=============================================================================
