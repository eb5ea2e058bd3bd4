----------------------------- MODULE ReceiptList -----------------------------
(***************************************************************************)
(* What the receipts of a bill promise to the reader of its PDF: each bill *)
(* has one list of receipts, a strict order in which no two tie, and one   *)
(* operation changes one list in one of three ways.  How the order is kept *)
(* (sort_order, ties broken by id), who changes it and from which snapshot *)
(* is left to the implementation.                                          *)
(***************************************************************************)
CONSTANTS Bills, Receipts

\* The list of each bill, as the set of the pairs <<q, r>> such that q is r or
\* comes before r.
VARIABLE list

Listed(R) == {r \in Receipts : <<r, r>> \in R}

IsList(R) ==
    /\ R \subseteq Listed(R) \X Listed(R)
    /\ \A q, r \in Listed(R) : <<q, r>> \in R \/ <<r, q>> \in R
    /\ \A q, r \in Listed(R) : <<q, r>> \in R /\ <<r, q>> \in R => q = r
    /\ \A q, r, s \in Listed(R) : <<q, r>> \in R /\ <<r, s>> \in R => <<q, s>> \in R

\* R with the receipts S only, in the order they have in R.
Among(R, S) == R \cap (S \X S)

Init == list = [b \in Bills |-> {}]

\* A receipt takes some place in the list, the others keep their order.
Inserted(old, new, r) ==
    /\ r \notin Listed(old)
    /\ Listed(new) = Listed(old) \cup {r}
    /\ Among(new, Listed(old)) = old

Removed(old, new, r) ==
    /\ r \in Listed(old)
    /\ new = Among(old, Listed(old) \ {r})

Reordered(old, new) == Listed(new) = Listed(old)

\* One operation on the receipts of b.
Change(b, old, new) ==
    /\ \/ Reordered(old, new)
       \/ \E r \in Receipts : Inserted(old, new, r) \/ Removed(old, new, r)
    /\ IsList(new)
    /\ \A c \in Bills \ {b} : list'[c] = list[c]

Next ==
    /\ DOMAIN list' = Bills
    /\ \E b \in Bills : \E old \in {list[b]}, new \in {list'[b]} : Change(b, old, new)

Spec == Init /\ [][Next]_list
=============================================================================
