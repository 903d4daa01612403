----------------------------- MODULE MCPayouts -----------------------------
(* Small instances of Payouts for TLC. *)
EXTENDS Payouts

(* fees stay below the first one above the cap *)
SmallFees == 0..(2 * FeeCap + VSize + 2)

(* bound: three versions of one payout on a mandate; or two bitcoin payouts that
   are signed once, with one failure, while the mandate stands *)
OneOrTwo ==
  /\ \A p \in Intents : Len(txs[p]) <= 3
  /\ \A p, q \in Intents : p < q /\ wish[q] # "none" =>
       /\ chain = "bitcoin" /\ fails <= 1 /\ wish[p] # "none" /\ lapsed = {}
       /\ \A i \in {p, q} : Len(txs[i]) <= 1 /\ block[i] # Elsewhere /\ row[i].fee <= 1
=============================================================================
