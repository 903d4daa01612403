-------------------------- MODULE SignerRefinement --------------------------
(* Signer implements SignerPromise: the refinement mapping.                 *)
EXTENDS Signer

(* the canonical state of a payout, forgetting times and approvals *)
WishOf(i) ==
  CASE intents[i].kind # "payout" -> "none"
    [] intents[i].kind = "payout" /\ i \in cancelled -> "cancelled"
    [] OTHER -> IF times[i].approvedAt = NoTime THEN "open" ELSE "approved"

(* outputs on bitcoin, the nonce of the account on ethereum *)
CoinsUsed(i, s) ==
  {<<"output", o>> : o \in s.inputs} \cup
  (IF s.nonce = NoNonce THEN {} ELSE {<<"nonce", <<intents[i].account, s.nonce>>>>})

TxOf(i, s) == [mode |-> s.mode, coins |-> CoinsUsed(i, s), fee |-> s.fee]

TxsOf(i) == [x \in DOMAIN signatures[i] |-> TxOf(i, signatures[i][x])]

P == INSTANCE SignerPromise WITH
       Intents <- IntentIds, TxFees <- Fees,
       Coins <- ({"output"} \X Outpoints) \cup ({"nonce"} \X (Accounts \X Nonces)),
       wish <- [i \in IntentIds |-> WishOf(i)],
       txs <- [i \in IntentIds |-> TxsOf(i)]

(* Whatever the quorums, policies, mandates, freezes and clocks do, towards
   its callers the signer keeps the promise: an answer to intent.cancel is
   final, a payout is signed once, and its replacements use its coins and
   nobody else's (sign, intentCancel, signBtc, signEth). *)
KeepsPromise == P!PromiseInit /\ [][P!PromiseNext]_(P!promise)
=============================================================================
