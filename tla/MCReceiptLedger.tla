---------------------------- MODULE MCReceiptLedger ----------------------------
(***************************************************************************)
(* A small instance of ReceiptLedger for TLC.                              *)
(***************************************************************************)
EXTENDS ReceiptLedger, TLC

\* Two printed lines; the second one is also read as ambiguous.
PrintedLines == {[source |-> "milk", ambiguous |-> FALSE],
                 [source |-> "oil", ambiguous |-> FALSE],
                 [source |-> "oil", ambiguous |-> TRUE]}

Symmetry == Permutations(Receipts) \cup Permutations(Products)
              \cup Permutations(Hashes) \cup Permutations(Reasons)

\* Bounds: a receipt of several lines is explored on its own, without
\* evidence; the catalog is filled before the ledger.
Long(r) == \E rev \in Revisions(r) : Len(rev.lines) > 1
SmallLedger ==
  /\ Recorded # {} => \A p \in Products : products[p] # "unused"
  /\ \A r \in Recorded : Long(r) =>
       /\ Recorded = {r}
       /\ \A rev \in Revisions(r) : rev.hash = None
===============================================================================
