---------------------------- MODULE SignerPromise ----------------------------
(***************************************************************************)
(* What the signer promises the rest of the system about a payout, without *)
(* keys, quorums, policies, mandates or clocks: who may still change its   *)
(* mind, and which transactions can exist at the same time.  Signer is     *)
(* shown to implement it (SignerRefinement); Payouts is built on it.       *)
(*                                                                         *)
(* A transaction uses up coins: outputs on bitcoin, one nonce of one       *)
(* account on ethereum.  Two transactions with a common coin can never     *)
(* both enter the chain.                                                   *)
(***************************************************************************)
EXTENDS Naturals, Sequences

CONSTANTS Intents,  \* payouts the signer may learn of
          Coins, TxFees

VARIABLES wish,     \* [Intents -> "none" | "open" | "approved" | "cancelled"]
          txs       \* [Intents -> Seq(Tx)]: what was signed, oldest first

promise == <<wish, txs>>

Tx == [mode: {"first", "bump", "cancel"}, coins: SUBSET Coins, fee: TxFees]

ASSUME TxFeesAssumption == TxFees \subseteq Nat

PromiseType ==
  /\ wish \in [Intents -> {"none", "open", "approved", "cancelled"}]
  /\ txs \in [Intents -> Seq(Tx)]

FirstTx(i) == txs[i][1]
LastTx(i)  == txs[i][Len(txs[i])]

(* every coin some transaction of i uses *)
CoinsOf(i) == UNION {txs[i][x].coins : x \in DOMAIN txs[i]}

-----------------------------------------------------------------------------

(* intent.create; on a mandate the payout is approved from the start *)
Open(i, w) ==
  /\ wish[i] = "none" /\ w \in {"open", "approved"}
  /\ wish' = [wish EXCEPT ![i] = w]
  /\ UNCHANGED txs

(* the tap that completes the quorum *)
Approved(i) ==
  /\ wish[i] = "open"
  /\ wish' = [wish EXCEPT ![i] = "approved"]
  /\ UNCHANGED txs

(* intent.cancel: only while nothing is signed, and then for good *)
Cancelled(i) ==
  /\ wish[i] \in {"open", "approved"} /\ txs[i] = <<>>
  /\ wish' = [wish EXCEPT ![i] = "cancelled"]
  /\ UNCHANGED txs

(* sign, mode "first": coins no other payout uses *)
SignedFirst(i, tx) ==
  /\ wish[i] = "approved" /\ txs[i] = <<>>
  /\ tx.mode = "first" /\ tx.coins # {}
  /\ \A j \in Intents \ {i} : tx.coins \cap CoinsOf(j) = {}
  /\ txs' = [txs EXCEPT ![i] = <<tx>>]
  /\ UNCHANGED wish

(* sign, modes "bump" and "cancel": the same coins, a higher fee; after a
   cancel nothing but another cancel *)
Replaced(i, tx) ==
  /\ txs[i] # <<>>
  /\ tx.mode \in {"bump", "cancel"}
  /\ LastTx(i).mode = "cancel" => tx.mode = "cancel"
  /\ tx.coins = FirstTx(i).coins /\ tx.fee > LastTx(i).fee
  /\ txs' = [txs EXCEPT ![i] = Append(@, tx)]
  /\ UNCHANGED wish

PromiseInit ==
  /\ wish = [i \in Intents |-> "none"]
  /\ txs = [i \in Intents |-> <<>>]

PromiseNext ==
  \E i \in Intents :
    \/ \E w \in {"open", "approved"} : Open(i, w)
    \/ Approved(i) \/ Cancelled(i)
    \/ \E tx \in Tx : SignedFirst(i, tx) \/ Replaced(i, tx)

PromiseSpec == PromiseInit /\ [][PromiseNext]_promise
=============================================================================
