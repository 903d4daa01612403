------------------------------- MODULE Payouts -------------------------------
(***************************************************************************)
(* Payouts of both.money: the rows of wallet_payouts, the job that drives  *)
(* them (apps/wallet/lib/jobs/wallet-payouts.ts), the actions of the users *)
(* (apps/wallet/app/actions/wallet-send.ts) and the node, around a signer  *)
(* that keeps SignerPromise.                                               *)
(*                                                                         *)
(* The job is one process (queue policy "singleton").  It reads all open   *)
(* rows at the start of a run and works on one after the other; every      *)
(* `await` that calls the signer, the node or the database is a step, so   *)
(* users, node and crashes interleave between any two.  `update` writes by *)
(* id without looking at what the row holds by then.                       *)
(*                                                                         *)
(* Abstractions.  Intent and payout share an id; ids grow with createdAt.  *)
(* All payouts leave one account.  A transaction is named by its place in  *)
(* the signer's list.  The texts of errors, audit entries, notifications   *)
(* and the anchor are left out.                                            *)
(***************************************************************************)
EXTENDS SignerPromise, Integers, FiniteSetsExt

CONSTANTS
  Chains,      \* chains the account may be on, of "bitcoin" and "ethereum"
  FirstFees,   \* fees the node may suggest for a first plan
  FeeCap,      \* fee cap of every intent
  VSize,       \* size of a transaction
  Mandated,    \* payouts created on a mandate
  MayHold,     \* freezes, waiting times and plan errors may occur
  MayCompete,  \* somebody else may spend a coin of the account
  MaxFails     \* bound: calls that fail and crashes of the job

VARIABLES
  chain,       \* the chain of the account
  row,         \* [Intents -> Row]: the table wallet_payouts
  pending,     \* [Intents -> SUBSET Marks]: writes of user actions on their way
  lapsed,      \* payouts whose mandate the app holds for invalid
  closed,      \* payouts whose time ran out in the signer
  job, batch,  \* the payout in hand; rows read and not yet worked on
  known,       \* [Intents -> set of versions the node's wallet has seen]
  block,       \* [Intents -> version in a block, 0, or Elsewhere]
  final,       \* payouts whose block is final
  reverted,    \* payouts whose call failed on chain
  fails

db       == <<row, pending, lapsed>>
work     == <<job, batch>>
node     == <<known, block, final, reverted>>
vars     == <<promise, chain, closed, db, work, node, fails>>

-----------------------------------------------------------------------------
(* Types                                                                    *)

Elsewhere == -1
Versions == Nat \ {0}
OPEN_PAYOUT_STATUS == {"awaiting_approval", "approved", "signed", "broadcast"}
Ended == {"confirmed", "cancelled", "dropped", "failed", "expired"}
Marks == {"cancelled", "cancelRequested", "bumpRequested"}

(* coins: what the plan spends; fee: what the next increase starts from;
   raw: the version in rawTx; cancelTx: plan.cancelTxid, 0 if there is none *)
Row == [status: {"none"} \cup OPEN_PAYOUT_STATUS \cup Ended, coins: SUBSET Coins, fee: Nat,
        raw: Nat, txids: SUBSET Versions, cancelTx: Nat,
        cancelRequested: BOOLEAN, bumpRequested: BOOLEAN]

NoRow == [status |-> "none", coins |-> {}, fee |-> 0, raw |-> 0, txids |-> {}, cancelTx |-> 0,
          cancelRequested |-> FALSE, bumpRequested |-> FALSE]

Steps == {"rest", "view", "relay", "plan", "close", "sign", "store", "send", "sent", "track",
          "receipt", "finish", "replace", "restore"}

(* left, gone, finalized: the versions track has not asked for yet, whether all
   it asked for are displaced, and whether the height that was final covers
   the payout's block *)
Job == [pc: Steps, p: Intents \cup {0}, row: Row, to: {"none"} \cup OPEN_PAYOUT_STATUS \cup Ended,
        mode: {"first", "bump", "cancel"}, coins: SUBSET Coins, fee: Nat, k: Nat,
        left: SUBSET Versions, gone: BOOLEAN, finalized: BOOLEAN]

ASSUME PayoutsAssumption ==
  /\ Chains \subseteq {"bitcoin", "ethereum"}
  /\ Intents \subseteq Nat \ {0}
  /\ "ethereum" \in Chains => Coins \subseteq Nat
  /\ FeeCap \in Nat /\ VSize \in Nat
  /\ FirstFees \subseteq TxFees /\ 0..FeeCap \subseteq TxFees
  /\ Mandated \subseteq Intents /\ MayHold \in BOOLEAN /\ MayCompete \in BOOLEAN
  /\ MaxFails \in Nat

PayoutTypeOK ==
  /\ PromiseType /\ chain \in Chains
  /\ row \in [Intents -> Row] /\ pending \in [Intents -> SUBSET Marks]
  /\ lapsed \in SUBSET Intents /\ closed \in SUBSET Intents
  /\ job \in Job /\ batch \in SUBSET [id: Intents, row: Row]
  /\ known \in [Intents -> SUBSET Versions]
  /\ block \in [Intents -> Nat \cup {Elsewhere}]
  /\ final \in SUBSET Intents /\ reverted \in SUBSET Intents
  /\ fails \in 0..MaxFails

-----------------------------------------------------------------------------
(* The node (external): what the job learns through lib/wallet/rpc          *)

Pays(p, k) == txs[p][k].mode # "cancel"

(* coins that transactions the node has seen use *)
UsedByKnown == UNION {UNION {txs[p][k].coins : k \in known[p]} : p \in Intents}

(* coins that are spent in a block *)
Spent == UNION {txs[p][block[p]].coins : p \in {q \in Intents : block[q] > 0}}

\* Mutant of Accepts: "already known" counts as a failure.
AcceptsNew(p, k) == block[p] = 0 /\ k \notin known[p]

(* broadcast, which answers of sendRawTransaction count as sent: accepted,
   known already, or on bitcoin in a block.  Once another transaction spent the
   coins it is refused, and on ethereum in a block too: "nonce too low". *)
Accepts(p, k) == block[p] = 0 \/ (chain = "bitcoin" /\ block[p] = k)

(* a known version enters a block, on ethereum after all lower nonces *)
Mine(p, k) ==
  /\ k \in known[p] /\ block[p] = 0
  /\ chain = "ethereum" => \A n \in txs[p][k].coins : 0..(n - 1) \subseteq Spent
  /\ block' = [block EXCEPT ![p] = k]
  /\ \/ UNCHANGED reverted
     \/ chain = "ethereum" /\ Pays(p, k) /\ reverted' = reverted \cup {p}
  /\ UNCHANGED <<promise, chain, closed, db, work, known, final, fails>>

Finalize(p) ==
  /\ block[p] # 0 /\ p \notin final
  /\ final' = final \cup {p}
  /\ UNCHANGED <<promise, chain, closed, db, work, known, block, reverted, fails>>

(* the block is rolled back *)
Reorg(p) ==
  /\ block[p] # 0 /\ p \notin final
  /\ block' = [block EXCEPT ![p] = 0] /\ reverted' = reverted \ {p}
  /\ UNCHANGED <<promise, chain, closed, db, work, known, final, fails>>

(* the seed was used outside this system: another transaction takes the coins *)
Compete(p) ==
  /\ MayCompete /\ chain = "bitcoin" /\ txs[p] # <<>> /\ block[p] = 0
  /\ block' = [block EXCEPT ![p] = Elsewhere]
  /\ UNCHANGED <<promise, chain, closed, db, work, known, final, reverted, fails>>

-----------------------------------------------------------------------------
(* Users and time                                                           *)

(* createPayout: the intent is in the signer before the row is in the table *)
CreateIntent(p) ==
  /\ Open(p, "open") \/ (p \in Mandated /\ Open(p, "approved"))
  /\ UNCHANGED <<chain, closed, db, work, node, fails>>

InsertRow(p) ==
  /\ row[p].status = "none" /\ wish[p] \in {"open", "approved"}
  /\ row' = [row EXCEPT ![p].status = "awaiting_approval"]
  /\ UNCHANGED <<promise, chain, closed, pending, lapsed, work, node, fails>>

(* the insert failed: the intent is taken back *)
Withdraw(p) ==
  /\ row[p].status = "none" /\ Cancelled(p)
  /\ UNCHANGED <<chain, closed, db, work, node, fails>>

TapApprove(p) ==
  /\ row[p].status # "none" /\ p \notin closed /\ Approved(p)
  /\ UNCHANGED <<chain, closed, db, work, node, fails>>

(* expiresAt of an open intent, signUntil or the mandate's end of an approved one *)
RunOut(p) ==
  /\ wish[p] \in {"open", "approved"} /\ txs[p] = <<>> /\ p \notin closed
  /\ closed' = closed \cup {p}
  /\ UNCHANGED <<promise, chain, db, work, node, fails>>

(* the app ends the mandate; the signer may not have heard of it *)
Lapse(p) ==
  /\ p \in Mandated \ lapsed /\ row[p].status # "none"
  /\ lapsed' = lapsed \cup {p}
  /\ UNCHANGED <<promise, chain, closed, row, pending, work, node, fails>>

\* Mutant of AskCancel: "already_signed" is taken for success.
AskCancelAnyway(p) ==
  /\ row[p].status \in {"awaiting_approval", "approved"}
  /\ Cancelled(p) \/ UNCHANGED promise
  /\ pending' = [pending EXCEPT ![p] = @ \cup {"cancelled"}]
  /\ UNCHANGED <<chain, closed, row, lapsed, work, node, fails>>

(* cancelPayout up to its transaction: the row it read decides where to stop
   the payout, the signer's answer what will be written *)
AskCancel(p) ==
  /\ \/ /\ row[p].status \in {"awaiting_approval", "approved"}
        /\ \/ Cancelled(p) /\ pending' = [pending EXCEPT ![p] = @ \cup {"cancelled"}]
           \/ /\ wish[p] = "cancelled" /\ UNCHANGED promise
              /\ pending' = [pending EXCEPT ![p] = @ \cup {"cancelled"}]
           \/ /\ txs[p] # <<>> /\ UNCHANGED promise
              /\ pending' = [pending EXCEPT ![p] = @ \cup {"cancelRequested"}]
     \/ /\ row[p].status \in {"signed", "broadcast"} /\ UNCHANGED promise
        /\ pending' = [pending EXCEPT ![p] = @ \cup {"cancelRequested"}]
  /\ UNCHANGED <<chain, closed, row, lapsed, work, node, fails>>

AskBump(p) ==
  /\ row[p].status = "broadcast" /\ ~row[p].cancelRequested
  /\ pending' = [pending EXCEPT ![p] = @ \cup {"bumpRequested"}]
  /\ UNCHANGED <<promise, chain, closed, row, lapsed, work, node, fails>>

(* the transaction of cancelPayout or bumpPayout: written by id *)
UserWrite(p, mark) ==
  /\ mark \in pending[p]
  /\ pending' = [pending EXCEPT ![p] = @ \ {mark}]
  /\ row' = [row EXCEPT ![p] =
       CASE mark = "cancelled" -> [@ EXCEPT !.status = "cancelled"]
         [] mark = "cancelRequested" -> [@ EXCEPT !.cancelRequested = TRUE]
         [] mark = "bumpRequested" -> [@ EXCEPT !.bumpRequested = TRUE]]
  /\ UNCHANGED <<promise, chain, closed, lapsed, work, node, fails>>

-----------------------------------------------------------------------------
(* The job: helpers                                                         *)

At(pc, p, r) == [pc |-> pc, p |-> p, row |-> r, to |-> "none", mode |-> "first", coins |-> {},
                 fee |-> 0, k |-> 0, left |-> r.txids, gone |-> TRUE, finalized |-> FALSE]

Rest == At("rest", 0, NoRow)

(* processPayout goes on with what the status asks for *)
Enter(p, r) ==
  CASE r.status = "awaiting_approval" -> At("view", p, r)
    [] r.status = "approved" -> At("plan", p, r)
    [] r.status = "signed" -> At("send", p, r)
    [] r.status = "broadcast" -> At("track", p, r)
    [] OTHER -> Rest

PayoutStatusFromView(p) ==
  CASE wish[p] = "cancelled" -> "cancelled"
    [] wish[p] = "approved" -> IF txs[p] = <<>> /\ p \in closed THEN "expired" ELSE "approved"
    [] OTHER -> IF p \in closed THEN "expired" ELSE "awaiting_approval"

\* Mutant of ExcludedOutpoints: the signer's reservations are relied upon.
ExcludedNothing(p) == {}

(* excludedOutpoints: what other open rows have in their plan *)
ExcludedOutpoints(p) ==
  UNION {row[q].coins : q \in {x \in Intents \ {p} : row[x].status \in OPEN_PAYOUT_STATUS}}

(* btcBuildPlan: some outputs listUnspent shows; which ones changes with the
   fee rate and with what arrived.  ethBuildPlan: the pending nonce. *)
Plans(p) ==
  IF chain = "bitcoin"
  THEN SUBSET (Coins \ (UsedByKnown \cup Spent \cup ExcludedOutpoints(p))) \ {{}}
  ELSE {{n} : n \in {m \in Coins : m \notin UsedByKnown /\ 0..(m - 1) \subseteq UsedByKnown}}

(* signEth: every nonce after the first is the highest signed one plus one *)
SignedCoins == UNION {CoinsOf(q) : q \in Intents}

Expected(coins) ==
  IF chain = "ethereum" /\ SignedCoins # {} THEN {Max(SignedCoins) + 1} ELSE coins

BumpFee(fee) ==
  IF chain = "bitcoin" THEN Max({fee + (fee + 1) \div 2, fee + VSize + 1})
  ELSE (fee * 125 + 99) \div 100

Put(p, r) == row' = [row EXCEPT ![p] = r]

-----------------------------------------------------------------------------
(* The job: a run, and its interruptions                                    *)

StartRun ==
  /\ job.pc = "rest" /\ batch = {}
  /\ batch' = {[id |-> p, row |-> row[p]] : p \in {q \in Intents : row[q].status \in OPEN_PAYOUT_STATUS}}
  /\ UNCHANGED <<promise, chain, closed, db, job, node, fails>>

ProcessPayout ==
  /\ job.pc = "rest" /\ batch # {}
  /\ LET b == CHOOSE x \in batch : \A y \in batch : x.id <= y.id IN
     job' = Enter(b.id, b.row) /\ batch' = batch \ {b}
  /\ UNCHANGED <<promise, chain, closed, db, node, fails>>

(* a call throws, perhaps after it took effect: the next payout is up *)
StepFails ==
  /\ job.pc # "rest" /\ fails < MaxFails
  /\ job' = Rest /\ fails' = fails + 1
  /\ UNCHANGED <<promise, chain, closed, db, batch, node>>

Crash ==
  /\ job.pc # "rest" \/ batch # {}
  /\ fails < MaxFails
  /\ job' = Rest /\ batch' = {} /\ fails' = fails + 1
  /\ UNCHANGED <<promise, chain, closed, db, node>>

(* frozen, signableAt not reached, no plan, or a refusal of the signer that
   may go away: the row keeps its status *)
Hold ==
  /\ MayHold /\ job.pc \in {"plan", "sign", "replace"}
  /\ job' = Rest
  /\ UNCHANGED <<promise, chain, closed, db, batch, node, fails>>

-----------------------------------------------------------------------------
(* The job: approval and first signature                                    *)

(* refreshApproval, the call *)
ReadView ==
  /\ job.pc = "view"
  /\ LET to == PayoutStatusFromView(job.p) IN
     job' = IF to = "awaiting_approval" THEN Rest ELSE [job EXCEPT !.pc = "relay", !.to = to]
  /\ UNCHANGED <<promise, chain, closed, db, batch, node, fails>>

(* refreshApproval, the update *)
Relay ==
  /\ job.pc = "relay"
  /\ LET r == [row[job.p] EXCEPT !.status = job.to] IN
     Put(job.p, r) /\ job' = Enter(job.p, r)
  /\ UNCHANGED <<promise, chain, closed, pending, lapsed, batch, node, fails>>

(* signFirst, mandate no longer valid: the signer's refusal is only logged *)
DropMandated ==
  /\ job.pc = "plan" /\ job.p \in lapsed
  /\ Cancelled(job.p) \/ UNCHANGED promise
  /\ job' = [job EXCEPT !.pc = "close", !.to = "cancelled"]
  /\ UNCHANGED <<chain, closed, db, batch, node, fails>>

BuildPlan ==
  /\ job.pc = "plan" /\ job.p \notin lapsed
  /\ \/ \E coins \in Plans(job.p), fee \in FirstFees :
          job' = [job EXCEPT !.pc = "sign", !.coins = coins, !.fee = fee]
     \/ Plans(job.p) = {} /\ job' = Rest
  /\ UNCHANGED <<promise, chain, closed, db, batch, node, fails>>

\* Mutant of SignAgain: a signed intent is an error.
SignAgainRefused ==
  /\ job.pc = "sign" /\ wish[job.p] # "cancelled" /\ txs[job.p] # <<>>
  /\ job' = Rest
  /\ UNCHANGED <<promise, chain, closed, db, batch, node, fails>>

(* sign "first" on a signed intent: the last signature again *)
SignAgain ==
  /\ job.pc = "sign" /\ wish[job.p] # "cancelled" /\ txs[job.p] # <<>>
  /\ job' = [job EXCEPT !.pc = "store", !.k = Len(txs[job.p])]
  /\ UNCHANGED <<promise, chain, closed, db, batch, node, fails>>

(* sign "first"; a wrong nonce is corrected to the one the signer names *)
SignFirst ==
  /\ job.pc = "sign" /\ job.p \notin closed
  /\ LET coins == Expected(job.coins) IN
     /\ coins \subseteq Coins
     /\ SignedFirst(job.p, [mode |-> "first", coins |-> coins, fee |-> job.fee])
     /\ job' = [job EXCEPT !.pc = "store", !.coins = coins, !.k = 1]
  /\ UNCHANGED <<chain, closed, db, batch, node, fails>>

\* Mutant of SignClosed: only the closed window ends the payout.
SignClosedWindow ==
  /\ job.pc = "sign"
  /\ \/ wish[job.p] = "cancelled" /\ job' = Rest
     \/ /\ wish[job.p] # "cancelled" /\ txs[job.p] = <<>> /\ job.p \in closed
        /\ job' = [job EXCEPT !.pc = "close", !.to = "expired"]
  /\ UNCHANGED <<promise, chain, closed, db, batch, node, fails>>

(* intent_closed and mandate_revoked, window_closed and mandate_expired *)
SignClosed ==
  /\ job.pc = "sign"
  /\ \/ /\ wish[job.p] = "cancelled" \/ (job.p \in lapsed /\ txs[job.p] = <<>>)
        /\ job' = [job EXCEPT !.pc = "close", !.to = "cancelled"]
     \/ /\ wish[job.p] # "cancelled" /\ txs[job.p] = <<>> /\ job.p \in closed
        /\ job' = [job EXCEPT !.pc = "close", !.to = "expired"]
  /\ UNCHANGED <<promise, chain, closed, db, batch, node, fails>>

(* input_reserved: another payout was signed with one of these outputs *)
SignRefused ==
  /\ job.pc = "sign" /\ wish[job.p] # "cancelled" /\ txs[job.p] = <<>> /\ job.p \notin closed
  /\ Expected(job.coins) \cap SignedCoins # {} \/ ~(Expected(job.coins) \subseteq Coins)
  /\ job' = Rest
  /\ UNCHANGED <<promise, chain, closed, db, batch, node, fails>>

CloseRow ==
  /\ job.pc = "close"
  /\ Put(job.p, [row[job.p] EXCEPT !.status = job.to]) /\ job' = Rest
  /\ UNCHANGED <<promise, chain, closed, pending, lapsed, batch, node, fails>>

(* the plan just built is stored with the signature that came back; the next
   increase starts from the signed fee on bitcoin, from the plan on ethereum *)
StoreSigned ==
  /\ job.pc = "store"
  /\ LET r == [row[job.p] EXCEPT !.status = "signed", !.coins = job.coins, !.raw = job.k,
                 !.txids = {job.k}, !.cancelTx = 0,
                 !.fee = IF chain = "bitcoin" THEN txs[job.p][job.k].fee ELSE job.fee] IN
     Put(job.p, r) /\ job' = Enter(job.p, r)
  /\ UNCHANGED <<promise, chain, closed, pending, lapsed, batch, node, fails>>

-----------------------------------------------------------------------------
(* The job: sending and following                                           *)

(* broadcast, the call; `job.row` is the row in hand *)
Send ==
  /\ job.pc = "send"
  /\ IF Accepts(job.p, job.row.raw)
     THEN /\ known' = [known EXCEPT ![job.p] = @ \cup {job.row.raw}]
          /\ job' = [job EXCEPT !.pc = "sent"]
     ELSE job' = Rest /\ UNCHANGED known
  /\ UNCHANGED <<promise, chain, closed, db, batch, block, final, reverted, fails>>

(* broadcast, the update; after a replacement the run leaves the payout *)
StoreSent ==
  /\ job.pc = "sent"
  /\ LET r == [row[job.p] EXCEPT !.status = "broadcast"] IN
     /\ Put(job.p, r)
     /\ job' = IF job.mode = "first" THEN Enter(job.p, r) ELSE Rest
  /\ UNCHANGED <<promise, chain, closed, pending, lapsed, batch, node, fails>>

\* Mutant of Settled: one confirmation is enough.
SettledUnfinal(v) == block[job.p] = v

(* the version is in a block that is final: by its confirmations, on ethereum by
   the height that was read first *)
Settled(v) ==
  /\ block[job.p] = v
  /\ IF chain = "bitcoin" THEN job.p \in final ELSE job.finalized

(* finish is called with this status *)
Decided(to) == [At("finish", job.p, job.row) EXCEPT !.to = to]

EndsAs(v) ==
  IF job.p \in reverted THEN "failed" ELSE IF v = job.row.cancelTx THEN "cancelled" ELSE "confirmed"

(* track, its end: the wish of the user that is still open *)
NextWish(r) ==
  IF r.cancelRequested /\ r.cancelTx = 0
  THEN [At("replace", job.p, r) EXCEPT !.mode = "cancel"]
  ELSE IF r.bumpRequested THEN [At("replace", job.p, r) EXCEPT !.mode = "bump"]
  ELSE Rest

(* the answer about a version settled nothing: on to the next older one.  After
   the last the payout is dropped if each was displaced when it was asked for. *)
Asked(v, displaced) ==
  LET left == job.left \ {v}
      gone == job.gone /\ displaced
  IN
  IF left # {} THEN [job EXCEPT !.left = left, !.gone = gone]
  ELSE IF gone THEN Decided("dropped")
  ELSE NextWish(job.row)

Newest == {v \in job.left : \A u \in job.left : u <= v}

(* bitcoin: displaced means known to the node, and another transaction spent
   its coins in a block *)
GetTransaction ==
  /\ job.pc = "track" /\ chain = "bitcoin"
  /\ \E v \in Newest :
       job' = IF Settled(v) THEN Decided(EndsAs(v))
              ELSE Asked(v, v \in known[job.p] /\ block[job.p] \notin {0, v})
  /\ UNCHANGED <<promise, chain, closed, db, batch, node, fails>>

(* ethereum: the height of the final block first *)
GetFinalized ==
  /\ job.pc = "track" /\ chain = "ethereum"
  /\ job' = [job EXCEPT !.pc = "receipt", !.finalized = job.p \in final]
  /\ UNCHANGED <<promise, chain, closed, db, batch, node, fails>>

(* a receipt that is not final ends the round *)
GetReceipt ==
  /\ job.pc = "receipt"
  /\ \E v \in Newest :
       job' = CASE Settled(v) -> Decided(EndsAs(v))
                [] ~Settled(v) /\ block[job.p] = v -> Rest
                [] OTHER -> Asked(v, FALSE)
  /\ UNCHANGED <<promise, chain, closed, db, batch, node, fails>>

(* getTransaction or receipt fails: `catch(() => null)` takes it for "not in
   a block", and the wish is worked on although the payout may be settled *)
GetNothing ==
  /\ job.pc = (IF chain = "bitcoin" THEN "track" ELSE "receipt") /\ fails < MaxFails
  /\ \E v \in Newest : job' = Asked(v, FALSE)
  /\ fails' = fails + 1
  /\ UNCHANGED <<promise, chain, closed, db, batch, node>>

Finish ==
  /\ job.pc = "finish"
  /\ Put(job.p, [row[job.p] EXCEPT !.status = job.to, !.bumpRequested = FALSE])
  /\ job' = Rest
  /\ UNCHANGED <<promise, chain, closed, pending, lapsed, batch, node, fails>>

(* replace, the fee cap of the intent is reached: both wishes are dropped *)
ReplaceOverCap ==
  /\ job.pc = "replace" /\ BumpFee(job.row.fee) > FeeCap
  /\ Put(job.p, [row[job.p] EXCEPT !.bumpRequested = FALSE, !.cancelRequested = FALSE])
  /\ job' = Rest
  /\ UNCHANGED <<promise, chain, closed, pending, lapsed, batch, node, fails>>

ReplaceTx == [mode |-> job.mode, coins |-> job.row.coins, fee |-> BumpFee(job.row.fee)]

\* Mutant of ReplaceSign: the fee cap is not looked at.
ReplaceSignUncapped ==
  /\ job.pc = "replace"
  /\ Replaced(job.p, ReplaceTx)
  /\ job' = [job EXCEPT !.pc = "restore", !.fee = BumpFee(job.row.fee), !.k = Len(txs[job.p]) + 1]
  /\ UNCHANGED <<chain, closed, db, batch, node, fails>>

ReplaceSign ==
  /\ job.pc = "replace" /\ BumpFee(job.row.fee) <= FeeCap
  /\ Replaced(job.p, ReplaceTx)
  /\ job' = [job EXCEPT !.pc = "restore", !.fee = BumpFee(job.row.fee), !.k = Len(txs[job.p]) + 1]
  /\ UNCHANGED <<chain, closed, db, batch, node, fails>>

(* inputs_differ or another nonce, fee_not_higher, or a bump after a cancel *)
ReplaceRefused ==
  /\ job.pc = "replace" /\ BumpFee(job.row.fee) <= FeeCap
  /\ \/ job.row.coins # FirstTx(job.p).coins
     \/ BumpFee(job.row.fee) <= LastTx(job.p).fee
     \/ job.mode = "bump" /\ LastTx(job.p).mode = "cancel"
  /\ job' = Rest
  /\ UNCHANGED <<promise, chain, closed, db, batch, node, fails>>

\* Mutant of StoreReplaced: only the newest version is followed.
StoreReplacedOnly ==
  /\ job.pc = "restore"
  /\ LET r == [row[job.p] EXCEPT !.fee = job.fee, !.raw = job.k, !.txids = {job.k},
                 !.bumpRequested = FALSE,
                 !.cancelTx = IF job.mode = "cancel" THEN job.k ELSE 0] IN
     Put(job.p, r) /\ job' = [At("send", job.p, r) EXCEPT !.mode = job.mode]
  /\ UNCHANGED <<promise, chain, closed, pending, lapsed, batch, node, fails>>

(* stored before it is sent; the plan of a bump has no cancelTxid *)
StoreReplaced ==
  /\ job.pc = "restore"
  /\ LET r == [row[job.p] EXCEPT !.coins = job.row.coins, !.fee = job.fee, !.raw = job.k,
                 !.txids = job.row.txids \cup {job.k}, !.bumpRequested = FALSE,
                 !.cancelTx = IF job.mode = "cancel" THEN job.k ELSE 0] IN
     /\ Put(job.p, r)
     /\ job' = [At("send", job.p, r) EXCEPT !.mode = job.mode]
  /\ UNCHANGED <<promise, chain, closed, pending, lapsed, batch, node, fails>>

-----------------------------------------------------------------------------
(* Specification                                                            *)

Init ==
  /\ PromiseInit /\ chain \in Chains
  /\ row = [p \in Intents |-> NoRow] /\ pending = [p \in Intents |-> {}]
  /\ lapsed = {} /\ closed = {}
  /\ job = Rest /\ batch = {}
  /\ known = [p \in Intents |-> {}] /\ block = [p \in Intents |-> 0]
  /\ final = {} /\ reverted = {} /\ fails = 0

JobStep ==
  \/ StartRun \/ ProcessPayout
  \/ ReadView \/ Relay \/ DropMandated \/ BuildPlan
  \/ SignAgain \/ SignFirst \/ SignClosed \/ SignRefused \/ CloseRow \/ StoreSigned
  \/ Send \/ StoreSent \/ GetTransaction \/ GetFinalized \/ GetReceipt \/ Finish
  \/ ReplaceOverCap \/ ReplaceSign \/ ReplaceRefused \/ StoreReplaced

Trouble == StepFails \/ Crash \/ Hold \/ GetNothing

UserStep ==
  \E p \in Intents :
    \/ CreateIntent(p) \/ InsertRow(p) \/ Withdraw(p) \/ TapApprove(p)
    \/ AskCancel(p) \/ AskBump(p) \/ Lapse(p)
    \/ \E mark \in Marks : UserWrite(p, mark)

World ==
  \E p \in Intents :
    \/ RunOut(p) \/ Finalize(p) \/ Reorg(p) \/ Compete(p)
    \/ \E k \in DOMAIN txs[p] : Mine(p, k)

Next == JobStep \/ Trouble \/ UserStep \/ World

Spec == Init /\ [][Next]_vars

(* The job runs every minute: while a payout is open it takes its next step. *)
FairSpec == Spec /\ WF_vars(JobStep)

-----------------------------------------------------------------------------
(* Properties                                                               *)

(* the payout itself, not its cancellation, is in a block *)
Paid(p) == block[p] > 0 /\ Pays(p, block[p]) /\ p \notin reverted

(* Whatever the node has seen of a payout is recorded in its row first: a
   crash at any point leaves no transaction on the network that the job does
   not follow (update before broadcast in signFirst and replace). *)
StoredBeforeSent == \A p \in Intents : known[p] \subseteq row[p].txids

(* What the app shows at the end is what happened to the money, however users,
   job, crashes and the node interleave: "confirmed" means paid for good, and
   after "cancelled", "expired" or "failed" no payment can arrive any more
   (track, finish, cancelPayout, signFirst). *)
StatusTellsTruth ==
  \A p \in Intents :
    /\ row[p].status = "confirmed" => p \in final /\ Paid(p)
    /\ row[p].status \in {"cancelled", "expired", "failed"} =>
         known[p] = {} \/ (p \in final /\ ~Paid(p))

(* Two payouts on their way never have an output in common in their plans, even
   when one of them was signed, interrupted and planned anew: none of them can
   end as "dropped" because of the other (excludedOutpoints, input_reserved). *)
PlansDisjoint ==
  \A p, q \in Intents :
    p # q /\ {row[p].status, row[q].status} \subseteq OPEN_PAYOUT_STATUS =>
      row[p].coins \cap row[q].coins = {}

Rank(status) ==
  CASE status = "none" -> 0 [] status = "awaiting_approval" -> 1 [] status = "approved" -> 2
    [] status = "signed" -> 3 [] status = "broadcast" -> 4 [] OTHER -> 5

(* Once a payout is signed its row only moves forward, although `update` and
   the user actions write by id with whatever they read before. *)
SignedMovesForward ==
  [][\A p \in Intents : txs[p] # <<>> =>
       /\ Rank(row[p].status) <= Rank(row'[p].status)
       /\ row[p].status \in Ended => row'[p].status = row[p].status]_vars

(* A payout cancelled in the signer ends as cancelled or expired, even if the
   action that cancelled it dies before it writes, or the job writes an
   approval it read before. *)
CancelReachesRow ==
  \A p \in Intents :
    (wish[p] = "cancelled" /\ row[p].status # "none")
      ~> [](row[p].status \in {"cancelled", "expired"})

(* A payout that is settled on chain is settled in the app (on ethereum once the
   row says that it was sent), unless the row was given up as "dropped" before,
   or is by the round of questions that is under way.  Every later round, also
   one that was begun with an older row, must find the version that is final
   (broadcast, track, finish). *)
EndReachesRow ==
  \A p \in Intents :
    (/\ p \in final /\ block[p] > 0 /\ (chain = "bitcoin" \/ row[p].status = "broadcast")
     /\ row[p].status # "dropped" /\ ~(job.p = p /\ job.pc \in {"track", "finish"}))
      ~> (row[p].status \in {"confirmed", "cancelled", "failed"})

(* What is settled on chain is shown, after any crash (broadcast: "auch erneut
   nach einem Absturz"), and a payout is given up only when no version of it
   lives (track: "verdraengt nur, wenn ... keine mehr lebt"). *)
SettledIsShown ==
  \A p \in Intents :
    (p \in final /\ block[p] > 0)
      ~> (row[p].status \in {"confirmed", "cancelled", "failed"})

(* A signature the job never got an answer about, or never stored, is fetched
   again and sent (sign "first" returns the same signature). *)
SignedIsSent ==
  \A p \in Intents : txs[p] # <<>> ~> (known[p] # {} \/ block[p] # 0)
=============================================================================
