---------------------------- MODULE PayoutsProofs ----------------------------
(* Theorems about the payouts of both.money: any number of payouts, coins,
   fees, failed calls and crashes, on both chains. *)
EXTENDS Payouts, SumLemmas

-----------------------------------------------------------------------------
(* What a row, the signer and the node say of one payout.                    *)

(* What was cancelled was never signed; the first signature pays, and after the
   cancellation of a signed payout nothing but cancellations follow. *)
SignerKeeps ==
  \A p \in Intents :
    /\ wish[p] = "cancelled" => txs[p] = <<>>
    /\ "cancelled" \in pending[p] => wish[p] = "cancelled"
    /\ txs[p] # <<>> => txs[p][1].mode = "first"
    /\ \A i, j \in DOMAIN txs[p] : i < j /\ txs[p][i].mode = "cancel" => txs[p][j].mode = "cancel"

(* A row names versions that exist, tells the cancellation from the others,
   and plans nothing before it is signed; the version to send is one of them. *)
RowFits(p, r) ==
  /\ r.txids \subseteq DOMAIN txs[p]
  /\ \A k \in r.txids : txs[p][k].mode = "cancel" <=> k = r.cancelTx
  /\ r.txids = {} => r.coins = {} /\ r.cancelTx = 0 /\ Len(txs[p]) <= 1
  /\ r.status \in {"none", "awaiting_approval", "approved"} => r.txids = {}
  /\ r.status \in {"signed", "broadcast"} => r.raw \in r.txids

RowsFit == \A p \in Intents : RowFits(p, row[p])

(* What is in a block was sent, and what is final is in a block. *)
NodeFits ==
  \A p \in Intents :
    /\ block[p] > 0 => block[p] \in known[p]
    /\ p \in final => block[p] # 0

TellsTruth(p, status) ==
  /\ status = "confirmed" => p \in final /\ Paid(p)
  /\ status \in {"cancelled", "expired", "failed"} => known[p] = {} \/ (p \in final /\ ~Paid(p))

-----------------------------------------------------------------------------
(* What the job relies on: between its steps only users write to the row it
   works on, or has read at the start of the run.                            *)

Same(r, s) ==
  r.coins = s.coins /\ r.raw = s.raw /\ r.txids = s.txids /\ r.cancelTx = s.cancelTx

(* the user took the payout back, and nothing was signed *)
TakenBack(p) == row[p].status = "cancelled" /\ wish[p] = "cancelled"

BatchFits ==
  \A b \in batch :
    /\ b.row.status \in OPEN_PAYOUT_STATUS /\ Same(b.row, row[b.id])
    /\ \/ row[b.id].status = b.row.status
       \/ TakenBack(b.id) /\ b.row.status \in {"awaiting_approval", "approved"}
    /\ job.pc # "rest" => b.id # job.p
    /\ \A c \in batch : b.id = c.id => b = c

Before == {"view", "relay", "plan", "close", "sign", "store"}
After == {"send", "sent", "track", "receipt", "finish", "replace", "restore"}

JobFits ==
  LET p == job.p IN
  /\ job.pc # "rest" => p \in Intents
  /\ job.pc \in Before =>
       /\ row[p].txids = {}
       /\ \/ row[p].status = IF job.pc \in {"view", "relay"} THEN "awaiting_approval" ELSE "approved"
          \/ TakenBack(p)
  /\ job.pc = "relay" => job.to \in {"approved", "cancelled", "expired"}
  /\ job.pc = "close" => job.to \in {"cancelled", "expired"}
  /\ job.pc = "sign" => job.fee \in TxFees
  /\ job.pc = "store" => txs[p] # <<>> /\ job.k = 1
  /\ job.pc \in After => row[p].status \in {"signed", "broadcast"} /\ Same(job.row, row[p])
  /\ job.pc = "receipt" => chain = "ethereum" /\ (job.finalized => p \in final)
  /\ job.pc = "finish" => job.to \in Ended \ {"expired"} /\ TellsTruth(p, job.to)
  /\ job.pc \in {"replace", "restore"} =>
       job.mode \in {"bump", "cancel"} /\ (job.mode = "cancel" => row[p].cancelTx = 0)
  /\ job.pc = "restore" => job.k = Len(txs[p]) /\ LastTx(p).mode = job.mode

(* A plan that is about to be signed or stored has nothing of the others. *)
PlanApart ==
  chain = "bitcoin" /\ job.pc \in {"sign", "store"} =>
    \A q \in Intents \ {job.p} :
      row[q].status \in OPEN_PAYOUT_STATUS => job.coins \cap row[q].coins = {}

PayoutInv ==
  /\ PayoutTypeOK /\ SignerKeeps /\ RowsFit /\ NodeFits
  /\ StoredBeforeSent /\ StatusTellsTruth
  /\ BatchFits /\ JobFits
  /\ PlanApart /\ (chain = "bitcoin" => PlansDisjoint)

-----------------------------------------------------------------------------
(* Lemmas about the operators                                                *)

(* The next fee is a fee. *)
LEMMA BumpFeeType == ASSUME NEW fee \in Nat PROVE BumpFee(fee) \in Nat
  <1> DEFINE a == fee + (fee + 1) \div 2
             b == fee + VSize + 1
  <1>1. a \in Nat /\ b \in Nat BY PayoutsAssumption
  <1> HIDE DEF a, b
  <1>2. Max({a, b}) \in {a, b}
    <2>1. \E x \in {a, b} : \A y \in {a, b} : x >= y BY <1>1
    <2> QED BY <2>1 DEF Max
  <1>3. (fee * 125 + 99) \div 100 \in Nat OBVIOUS
  <1> QED BY <1>1, <1>2, <1>3 DEF BumpFee, a, b

(* Resting is a state of the job. *)
LEMMA RestIs == Rest \in Job /\ Rest.pc = "rest"
  <1>1. NoRow \in Row /\ NoRow.txids = {} BY DEF NoRow, Row
  <1> QED BY <1>1 DEF Rest, At, Job, Steps

(* The job starts on a payout with what its status asks for. *)
LEMMA EnterIs ==
  ASSUME NEW p \in Intents, NEW r \in Row, NEW e, e = Enter(p, r)
  PROVE  /\ e \in Job
         /\ r.status = "awaiting_approval" => e.pc = "view"
         /\ r.status = "approved" => e.pc = "plan"
         /\ r.status = "signed" => e.pc = "send"
         /\ r.status = "broadcast" => e.pc = "track"
         /\ r.status \notin OPEN_PAYOUT_STATUS => e.pc = "rest"
         /\ e.pc # "rest" => e.p = p /\ e.row = r /\ r.status \in OPEN_PAYOUT_STATUS
  <1>1. NoRow \in Row BY DEF NoRow, Row
  <1>2. Rest \in Job /\ Rest.pc = "rest" BY RestIs
  <1>3. ASSUME NEW pc \in Steps
        PROVE  At(pc, p, r) \in Job /\ At(pc, p, r).pc = pc /\ At(pc, p, r).p = p /\ At(pc, p, r).row = r
    <2>1. r.txids \in SUBSET Versions BY DEF Row
    <2> QED BY <2>1 DEF At, Job
  <1>4. {"view", "plan", "send", "track"} \subseteq Steps BY DEF Steps
  <1>5. CASE r.status = "awaiting_approval"
    <2>1. e = At("view", p, r) BY <1>5 DEF Enter
    <2> QED BY <1>3, <1>4, <1>5, <2>1 DEF OPEN_PAYOUT_STATUS
  <1>6. CASE r.status = "approved"
    <2>1. e = At("plan", p, r) BY <1>6 DEF Enter
    <2> QED BY <1>3, <1>4, <1>6, <2>1 DEF OPEN_PAYOUT_STATUS
  <1>7. CASE r.status = "signed"
    <2>1. e = At("send", p, r) BY <1>7 DEF Enter
    <2> QED BY <1>3, <1>4, <1>7, <2>1 DEF OPEN_PAYOUT_STATUS
  <1>8. CASE r.status = "broadcast"
    <2>1. e = At("track", p, r) BY <1>8 DEF Enter
    <2> QED BY <1>3, <1>4, <1>8, <2>1 DEF OPEN_PAYOUT_STATUS
  <1>9. CASE r.status \notin OPEN_PAYOUT_STATUS
    <2>1. e = Rest BY <1>9 DEF Enter, OPEN_PAYOUT_STATUS
    <2> QED BY <1>2, <1>9, <2>1 DEF OPEN_PAYOUT_STATUS
  <1> QED BY <1>5, <1>6, <1>7, <1>8, <1>9 DEF OPEN_PAYOUT_STATUS

(* At the start nothing is there. *)
LEMMA PayoutsInit == Init => PayoutInv
  <1> SUFFICES ASSUME Init PROVE PayoutInv OBVIOUS
  <1>1. NoRow \in Row BY DEF NoRow, Row
  <1>2. Rest \in Job /\ Rest.pc = "rest" BY RestIs
  <1>3. PayoutTypeOK
    <2>1. wish \in [Intents -> {"none", "open", "approved", "cancelled"}] BY DEF Init, PromiseInit
    <2>2. txs \in [Intents -> Seq(Tx)] BY DEF Init, PromiseInit
    <2> QED BY <1>1, <1>2, <2>1, <2>2, PayoutsAssumption DEF Init, PayoutTypeOK, PromiseType
  <1>4. \A p \in Intents : row[p] = NoRow BY DEF Init
  <1>5. \A p \in Intents : txs[p] = <<>> /\ wish[p] = "none" BY DEF Init, PromiseInit
  <1>6. \A p \in Intents : pending[p] = {} BY DEF Init
  <1>7. \A p \in Intents : known[p] = {} BY DEF Init
  <1>8. \A p \in Intents : block[p] = 0 BY DEF Init
  <1>9. SignerKeeps
    <2> SUFFICES ASSUME NEW p \in Intents
                 PROVE  wish[p] # "cancelled" /\ pending[p] = {} /\ DOMAIN txs[p] = {} /\ txs[p] = <<>>
      BY DEF SignerKeeps
    <2>1. DOMAIN txs[p] = {} BY <1>5
    <2> QED BY <1>5, <1>6, <2>1
  <1>10. RowsFit
    <2> SUFFICES ASSUME NEW p \in Intents
                 PROVE  /\ row[p].txids \subseteq DOMAIN txs[p]
                        /\ \A k \in row[p].txids : txs[p][k].mode = "cancel" <=> k = row[p].cancelTx
                        /\ row[p].coins = {} /\ row[p].cancelTx = 0 /\ Len(txs[p]) <= 1
                        /\ row[p].txids = {} /\ row[p].status = "none"
      BY DEF RowsFit, RowFits
    <2>1. row[p].txids = {} /\ row[p].coins = {} /\ row[p].cancelTx = 0 /\ row[p].status = "none"
      BY <1>4 DEF NoRow
    <2>2. Len(txs[p]) <= 1 BY <1>5
    <2> QED BY <2>1, <2>2
  <1>11. NodeFits
    <2> SUFFICES ASSUME NEW p \in Intents PROVE ~(block[p] > 0) /\ p \notin final
      BY DEF NodeFits
    <2> QED BY <1>8 DEF Init
  <1>12. StoredBeforeSent BY <1>7 DEF StoredBeforeSent
  <1>13. StatusTellsTruth
    <2>1. ASSUME NEW p \in Intents PROVE row[p].status = "none" BY <1>4 DEF NoRow
    <2> QED BY <2>1 DEF StatusTellsTruth
  <1>14. BatchFits BY DEF BatchFits, Init
  <1>15. JobFits /\ PlanApart BY <1>2 DEF JobFits, PlanApart, Init, Before, After
  <1>16. PlansDisjoint BY <1>4 DEF PlansDisjoint, NoRow
  <1> QED BY <1>3, <1>9, <1>10, <1>11, <1>12, <1>13, <1>14, <1>15, <1>16 DEF PayoutInv

-----------------------------------------------------------------------------
(* The node                                                                  *)

(* What is final stays as it is. *)
LEMMA TruthStays ==
  ASSUME PayoutTypeOK, NodeFits, NEW p \in Intents, NEW q \in Intents, NEW s, TellsTruth(q, s),
         Finalize(p) \/ Reorg(p) \/ Compete(p) \/ \E k \in DOMAIN txs[p] : Mine(p, k)
  PROVE  TellsTruth(q, s)'
  <1>1. /\ UNCHANGED <<txs, known>> /\ final \subseteq final'
        /\ Finalize(p) \/ (p \notin final /\ final' = final)
        /\ block[p] = 0 => known[p] # {} \/ block'[p] \in {0, Elsewhere}
    <2>1. CASE Finalize(p) BY <2>1 DEF Finalize, promise
    <2>2. CASE Reorg(p) BY <2>2 DEF Reorg, promise
    <2>3. CASE Compete(p)
      <3>1. p \notin final BY <2>3 DEF Compete, NodeFits
      <3>2. block'[p] = Elsewhere BY <2>3 DEF Compete, PayoutTypeOK
      <3> QED BY <2>3, <3>1, <3>2 DEF Compete, promise
    <2>4. CASE \E k \in DOMAIN txs[p] : Mine(p, k)
      <3>1. PICK k \in DOMAIN txs[p] : Mine(p, k) BY <2>4
      <3>2. p \notin final BY <3>1 DEF Mine, NodeFits
      <3>3. known[p] # {} BY <3>1 DEF Mine
      <3> QED BY <3>1, <3>2, <3>3 DEF Mine, promise
    <2> QED BY <2>1, <2>2, <2>3, <2>4
  <1>2. q # p \/ Finalize(p) => block'[q] = block[q] /\ (q \in reverted' <=> q \in reverted)
    BY DEF Finalize, Reorg, Compete, Mine, PayoutTypeOK
  <1>3. CASE q \in final
    <2>1. q # p \/ Finalize(p) BY <1>1, <1>3
    <2>2. Paid(q)' <=> Paid(q) BY <1>1, <1>2, <2>1 DEF Paid, Pays
    <2> QED BY <1>1, <1>3, <2>2 DEF TellsTruth
  <1>4. CASE q \notin final BY <1>1, <1>4 DEF TellsTruth
  <1> QED BY <1>3, <1>4

(* A step of the node. *)
LEMMA WorldInv ==
  ASSUME PayoutInv, NEW p \in Intents,
         Finalize(p) \/ Reorg(p) \/ Compete(p) \/ \E k \in DOMAIN txs[p] : Mine(p, k)
  PROVE  PayoutInv'
  <1>1. UNCHANGED <<promise, chain, closed, db, work, known, fails>>
    BY DEF Finalize, Reorg, Compete, Mine
  <1>2. /\ wish' = wish /\ txs' = txs /\ chain' = chain /\ closed' = closed /\ row' = row
        /\ pending' = pending /\ lapsed' = lapsed /\ job' = job /\ batch' = batch
        /\ known' = known /\ fails' = fails
    BY <1>1 DEF promise, db, work
  <1>3. PayoutTypeOK /\ NodeFits BY DEF PayoutInv
  <1>4. /\ block' \in [Intents -> Nat \cup {Elsewhere}]
        /\ final' \in SUBSET Intents /\ reverted' \in SUBSET Intents /\ NodeFits'
    <2>1. CASE Finalize(p) BY <1>3, <2>1 DEF Finalize, PayoutTypeOK, NodeFits
    <2>2. CASE Reorg(p) BY <1>3, <2>2 DEF Reorg, PayoutTypeOK, NodeFits
    <2>3. CASE Compete(p)
      BY <1>3, <2>3 DEF Compete, PayoutTypeOK, NodeFits, Elsewhere
    <2>4. CASE \E k \in DOMAIN txs[p] : Mine(p, k)
      <3>1. PICK k \in DOMAIN txs[p] : Mine(p, k) BY <2>4
      <3>2. txs[p] \in Seq(Tx) BY <1>3 DEF PayoutTypeOK, PromiseType
      <3>3. k \in Nat /\ k > 0 BY <3>2
      <3>4. block' = [block EXCEPT ![p] = k] /\ k \in known[p] /\ final' = final /\ known' = known
        BY <3>1 DEF Mine
      <3>5. reverted' \in SUBSET Intents BY <1>3, <3>1 DEF Mine, PayoutTypeOK
      <3> QED BY <1>3, <3>3, <3>4, <3>5 DEF PayoutTypeOK, NodeFits
    <2> QED BY <2>1, <2>2, <2>3, <2>4
  <1>5. PayoutTypeOK' BY <1>2, <1>3, <1>4 DEF PayoutTypeOK, PromiseType
  <1>6. SignerKeeps' BY <1>2 DEF PayoutInv, SignerKeeps
  <1>7. RowsFit' BY <1>2 DEF PayoutInv, RowsFit, RowFits
  <1>8. StoredBeforeSent' BY <1>2 DEF PayoutInv, StoredBeforeSent
  <1>9. BatchFits' BY <1>2 DEF PayoutInv, BatchFits, Same, TakenBack
  <1>10. StatusTellsTruth'
    <2>1. ASSUME NEW q \in Intents PROVE TellsTruth(q, row[q].status)'
      <3>1. TellsTruth(q, row[q].status) BY DEF PayoutInv, StatusTellsTruth, TellsTruth
      <3> QED BY <1>2, <1>3, <3>1, TruthStays
    <2> QED BY <1>2, <2>1 DEF StatusTellsTruth, TellsTruth
  <1>11. JobFits'
    <2>1. job.pc = "finish" => TellsTruth(job.p, job.to)'
      BY <1>2, <1>3, TruthStays DEF PayoutInv, JobFits
    <2>2. final \subseteq final'
      BY DEF Finalize, Reorg, Compete, Mine
    <2> QED BY <1>2, <2>1, <2>2 DEF PayoutInv, JobFits, Same, TakenBack, LastTx
  <1>12. PlanApart' /\ (chain' = "bitcoin" => PlansDisjoint')
    BY <1>2 DEF PayoutInv, PlanApart, PlansDisjoint
  <1> QED BY <1>4, <1>5, <1>6, <1>7, <1>8, <1>9, <1>10, <1>11, <1>12 DEF PayoutInv

-----------------------------------------------------------------------------
(* Users and time                                                            *)

(* Intents are created, approved and cancelled; nothing is written. *)
LEMMA WishInv ==
  ASSUME PayoutInv, UNCHANGED <<txs, chain, row, work, node, fails>>,
         wish' \in [Intents -> {"none", "open", "approved", "cancelled"}],
         pending' \in [Intents -> SUBSET Marks], lapsed' \in SUBSET Intents, closed' \in SUBSET Intents,
         \A p \in Intents :
           /\ wish[p] = "cancelled" => wish'[p] = "cancelled"
           /\ wish'[p] = "cancelled" => txs[p] = <<>>
           /\ "cancelled" \in pending'[p] => wish'[p] = "cancelled"
  PROVE  PayoutInv'
  <1>1. /\ txs' = txs /\ chain' = chain /\ row' = row /\ job' = job /\ batch' = batch
        /\ known' = known /\ block' = block /\ final' = final /\ reverted' = reverted
        /\ fails' = fails
    BY DEF work, node
  <1>2. PayoutTypeOK' BY <1>1 DEF PayoutInv, PayoutTypeOK, PromiseType
  <1>3. SignerKeeps' BY <1>1 DEF PayoutInv, SignerKeeps
  <1>4. RowsFit' BY <1>1 DEF PayoutInv, RowsFit, RowFits
  <1>5. NodeFits' BY <1>1 DEF PayoutInv, NodeFits
  <1>6. StoredBeforeSent' BY <1>1 DEF PayoutInv, StoredBeforeSent
  <1>7. StatusTellsTruth' BY <1>1 DEF PayoutInv, StatusTellsTruth, Paid, Pays
  <1>8. BatchFits'
    <2>1. \A b \in batch : b.id \in Intents BY DEF PayoutInv, PayoutTypeOK
    <2> QED BY <1>1, <2>1 DEF PayoutInv, BatchFits, Same, TakenBack
  <1>9. JobFits'
    <2>1. job.pc \in Before => job.p \in Intents BY DEF PayoutInv, JobFits, Before
    <2>2. ASSUME NEW s PROVE TellsTruth(job.p, s)' <=> TellsTruth(job.p, s)
      BY <1>1 DEF TellsTruth, Paid, Pays
    <2> QED BY <1>1, <2>1, <2>2 DEF PayoutInv, JobFits, Same, TakenBack, LastTx
  <1>10. PlanApart' /\ (chain' = "bitcoin" => PlansDisjoint')
    BY <1>1 DEF PayoutInv, PlanApart, PlansDisjoint
  <1> QED BY <1>2, <1>3, <1>4, <1>5, <1>6, <1>7, <1>8, <1>9, <1>10 DEF PayoutInv

(* Every user action up to the transaction that writes to the table. *)
LEMMA AskInv ==
  ASSUME PayoutInv, NEW p \in Intents,
         \/ CreateIntent(p) \/ Withdraw(p) \/ TapApprove(p) \/ RunOut(p) \/ Lapse(p)
         \/ AskCancel(p) \/ AskBump(p)
  PROVE  PayoutInv'
  <1>0. /\ wish \in [Intents -> {"none", "open", "approved", "cancelled"}]
        /\ pending \in [Intents -> SUBSET Marks] /\ lapsed \in SUBSET Intents
        /\ closed \in SUBSET Intents
    BY DEF PayoutInv, PayoutTypeOK, PromiseType
  <1>1. SignerKeeps BY DEF PayoutInv
  <1>2. CASE CreateIntent(p)
    <2>1. /\ wish[p] = "none" /\ UNCHANGED <<txs, chain, closed, db, work, node, fails>>
          /\ wish' = [wish EXCEPT ![p] = "open"] \/ wish' = [wish EXCEPT ![p] = "approved"]
      BY <1>2 DEF CreateIntent, Open
    <2>2. pending' = pending /\ lapsed' = lapsed /\ row' = row /\ txs' = txs BY <2>1 DEF db
    <2>3. \A q \in Intents : wish'[q] = "cancelled" <=> wish[q] = "cancelled" BY <1>0, <2>1
    <2> QED BY <1>0, <1>1, <2>1, <2>2, <2>3, WishInv DEF SignerKeeps
  <1>3. CASE TapApprove(p)
    <2>1. /\ wish[p] = "open" /\ UNCHANGED <<txs, chain, closed, db, work, node, fails>>
          /\ wish' = [wish EXCEPT ![p] = "approved"]
      BY <1>3 DEF TapApprove, Approved
    <2>2. pending' = pending /\ lapsed' = lapsed /\ row' = row /\ txs' = txs BY <2>1 DEF db
    <2>3. \A q \in Intents : wish'[q] = "cancelled" <=> wish[q] = "cancelled" BY <1>0, <2>1
    <2> QED BY <1>0, <1>1, <2>1, <2>2, <2>3, WishInv DEF SignerKeeps
  <1>4. ASSUME Cancelled(p) \/ UNCHANGED promise
        PROVE  /\ UNCHANGED txs /\ wish' \in [Intents -> {"none", "open", "approved", "cancelled"}]
               /\ Cancelled(p) => wish'[p] = "cancelled"
               /\ UNCHANGED promise => wish'[p] = wish[p]
               /\ \A q \in Intents :
                    /\ wish[q] = "cancelled" => wish'[q] = "cancelled"
                    /\ wish'[q] = "cancelled" => txs[q] = <<>>
    <2>1. CASE Cancelled(p)
      BY <1>0, <1>1, <2>1 DEF Cancelled, SignerKeeps, promise
    <2>2. CASE UNCHANGED promise BY <1>0, <1>1, <2>2 DEF SignerKeeps, promise, Cancelled
    <2> QED BY <1>4, <2>1, <2>2
  <1>5. CASE Withdraw(p)
    <2>1. Cancelled(p) /\ UNCHANGED <<chain, closed, db, work, node, fails>> BY <1>5 DEF Withdraw
    <2>2. pending' = pending /\ lapsed' = lapsed /\ row' = row BY <2>1 DEF db
    <2> QED BY <1>0, <1>1, <1>4, <2>1, <2>2, WishInv DEF SignerKeeps
  <1>6. CASE RunOut(p) \/ Lapse(p)
    <2>1. /\ UNCHANGED <<promise, chain, row, pending, work, node, fails>>
          /\ closed' \in SUBSET Intents /\ lapsed' \in SUBSET Intents
      BY <1>0, <1>6 DEF RunOut, Lapse, db
    <2>2. wish' = wish /\ txs' = txs BY <2>1 DEF promise
    <2> QED BY <1>0, <1>1, <2>1, <2>2, WishInv DEF SignerKeeps
  <1>7. CASE AskCancel(p)
    <2>1. /\ UNCHANGED <<chain, closed, row, lapsed, work, node, fails>>
          /\ Cancelled(p) \/ UNCHANGED promise
          /\ \/ /\ pending' = [pending EXCEPT ![p] = @ \cup {"cancelled"}]
                /\ Cancelled(p) \/ (wish[p] = "cancelled" /\ UNCHANGED promise)
             \/ pending' = [pending EXCEPT ![p] = @ \cup {"cancelRequested"}]
      BY <1>7 DEF AskCancel
    <2>2. pending' \in [Intents -> SUBSET Marks] BY <1>0, <2>1 DEF Marks
    <2>3. ASSUME NEW q \in Intents, "cancelled" \in pending'[q] PROVE wish'[q] = "cancelled"
      <3>1. CASE "cancelled" \in pending[q] BY <1>1, <1>4, <2>1, <3>1 DEF SignerKeeps
      <3>2. CASE "cancelled" \notin pending[q]
        <4>1. q = p /\ (Cancelled(p) \/ (wish[p] = "cancelled" /\ UNCHANGED promise))
          BY <1>0, <2>1, <2>3, <3>2
        <4> QED BY <1>4, <4>1
      <3> QED BY <3>1, <3>2
    <2> QED BY <1>0, <1>4, <2>1, <2>2, <2>3, WishInv
  <1>8. CASE AskBump(p)
    <2>1. /\ UNCHANGED <<promise, chain, closed, row, lapsed, work, node, fails>>
          /\ pending' = [pending EXCEPT ![p] = @ \cup {"bumpRequested"}]
      BY <1>8 DEF AskBump
    <2>2. wish' = wish /\ txs' = txs BY <2>1 DEF promise
    <2>3. pending' \in [Intents -> SUBSET Marks] BY <1>0, <2>1 DEF Marks
    <2>4. \A q \in Intents : "cancelled" \in pending'[q] => "cancelled" \in pending[q]
      BY <1>0, <2>1
    <2> QED BY <1>0, <1>1, <2>1, <2>2, <2>3, <2>4, WishInv DEF SignerKeeps
  <1> QED BY <1>2, <1>3, <1>5, <1>6, <1>7, <1>8

-----------------------------------------------------------------------------
(* Rows                                                                      *)

(* A row is written.  Nothing is claimed here of the job. *)
LEMMA PutInv ==
  ASSUME PayoutInv, NEW p \in Intents, NEW r \in Row, row' = [row EXCEPT ![p] = r],
         UNCHANGED <<promise, chain, closed, lapsed, node, fails>>,
         pending' \in [Intents -> SUBSET Marks],
         \A q \in Intents : pending'[q] \subseteq pending[q],
         RowFits(p, r), known[p] \subseteq r.txids, TellsTruth(p, r.status),
         chain = "bitcoin" /\ r.status \in OPEN_PAYOUT_STATUS =>
           \A q \in Intents \ {p} : row[q].status \in OPEN_PAYOUT_STATUS => r.coins \cap row[q].coins = {},
         job' \in Job, batch' = batch, JobFits', BatchFits', PlanApart'
  PROVE  PayoutInv'
  <1>1. /\ txs' = txs /\ wish' = wish /\ chain' = chain /\ closed' = closed /\ lapsed' = lapsed
        /\ known' = known /\ block' = block /\ final' = final /\ reverted' = reverted
        /\ fails' = fails
    BY DEF promise, node
  <1>2. PayoutTypeOK BY DEF PayoutInv
  <1>3. PayoutTypeOK' BY <1>1, <1>2 DEF PayoutTypeOK, PromiseType
  <1>4. \A q \in Intents : row'[q] = IF q = p THEN r ELSE row[q] BY <1>2 DEF PayoutTypeOK
  <1>5. SignerKeeps' BY <1>1 DEF PayoutInv, SignerKeeps
  <1>6. RowsFit'
    <2>1. ASSUME NEW q \in Intents PROVE RowFits(q, row'[q])
      <3>1. CASE q = p BY <1>4, <3>1
      <3>2. CASE q # p BY <1>4, <3>2 DEF PayoutInv, RowsFit
      <3> QED BY <3>1, <3>2
    <2> QED BY <1>1, <2>1 DEF RowsFit, RowFits
  <1>7. NodeFits' BY <1>1 DEF PayoutInv, NodeFits
  <1>8. StoredBeforeSent'
    <2>1. ASSUME NEW q \in Intents PROVE known'[q] \subseteq row'[q].txids
      <3>1. CASE q = p BY <1>1, <1>4, <3>1
      <3>2. CASE q # p BY <1>1, <1>4, <3>2 DEF PayoutInv, StoredBeforeSent
      <3> QED BY <3>1, <3>2
    <2> QED BY <2>1 DEF StoredBeforeSent
  <1>9. StatusTellsTruth'
    <2>1. ASSUME NEW q \in Intents PROVE TellsTruth(q, row'[q].status)
      <3>1. CASE q = p BY <1>4, <3>1
      <3>2. CASE q # p BY <1>4, <3>2 DEF PayoutInv, StatusTellsTruth, TellsTruth
      <3> QED BY <3>1, <3>2
    <2> QED BY <1>1, <2>1 DEF StatusTellsTruth, TellsTruth, Paid, Pays
  <1>10. chain' = "bitcoin" => PlansDisjoint'
    <2> SUFFICES ASSUME chain = "bitcoin", NEW a \in Intents, NEW b \in Intents, a # b,
                        row'[a].status \in OPEN_PAYOUT_STATUS, row'[b].status \in OPEN_PAYOUT_STATUS
                 PROVE  row'[a].coins \cap row'[b].coins = {}
      BY <1>1 DEF PlansDisjoint
    <2>1. CASE a = p BY <1>4, <2>1
    <2>2. CASE b = p
      <3>1. r.coins \cap row[a].coins = {} BY <1>4, <2>2
      <3> QED BY <1>4, <2>2, <3>1
    <2>3. CASE a # p /\ b # p
      <3>1. row'[a] = row[a] /\ row'[b] = row[b] BY <1>4, <2>3
      <3> QED BY <3>1 DEF PayoutInv, PlansDisjoint
    <2> QED BY <2>1, <2>2, <2>3
  <1> QED BY <1>3, <1>5, <1>6, <1>7, <1>8, <1>9, <1>10 DEF PayoutInv

(* A payout that was cancelled in the signer was never signed or sent. *)
LEMMA CancelledIs ==
  ASSUME PayoutInv, NEW p \in Intents, wish[p] = "cancelled"
  PROVE  /\ txs[p] = <<>> /\ row[p].txids = {} /\ known[p] = {}
         /\ row[p].status \notin {"signed", "broadcast"}
  <1>1. txs[p] = <<>> BY DEF PayoutInv, SignerKeeps
  <1>2. DOMAIN txs[p] = {} BY <1>1
  <1>3. row[p].txids = {} BY <1>2 DEF PayoutInv, RowsFit, RowFits
  <1> QED BY <1>1, <1>3 DEF PayoutInv, RowsFit, RowFits, StoredBeforeSent

(* A user's transaction: a payout cancelled in the signer, or a wish. *)
LEMMA UserWriteInv ==
  ASSUME PayoutInv, NEW p \in Intents, NEW mark \in Marks, UserWrite(p, mark)
  PROVE  PayoutInv'
  <1> DEFINE r == row'[p]
  <1>0. row \in [Intents -> Row] /\ pending \in [Intents -> SUBSET Marks]
    BY DEF PayoutInv, PayoutTypeOK
  <1>1. /\ mark \in pending[p] /\ pending' = [pending EXCEPT ![p] = @ \ {mark}]
        /\ UNCHANGED <<promise, chain, closed, lapsed, work, node, fails>>
    BY DEF UserWrite
  <1>2. job' = job /\ batch' = batch /\ chain' = chain /\ wish' = wish /\ txs' = txs
        /\ known' = known /\ block' = block /\ final' = final /\ reverted' = reverted
    BY <1>1 DEF work, promise, node
  <1>3. /\ r \in Row /\ row' = [row EXCEPT ![p] = r] /\ Same(r, row[p])
        /\ \/ mark # "cancelled" /\ r.status = row[p].status
           \/ mark = "cancelled" /\ r.status = "cancelled"
    <2>1. row[p] \in Row BY <1>0
    <2>2. CASE mark = "cancelled"
      <3> DEFINE s == [row[p] EXCEPT !.status = "cancelled"]
      <3>1. row' = [row EXCEPT ![p] = s] BY <2>2 DEF UserWrite
      <3>2. s \in Row BY <2>1 DEF Row, Ended
      <3>3. s.status = "cancelled" /\ Same(s, row[p]) BY <2>1 DEF Row, Same
      <3> HIDE DEF s
      <3> QED BY <1>0, <2>2, <3>1, <3>2, <3>3
    <2>3. CASE mark = "cancelRequested"
      <3> DEFINE s == [row[p] EXCEPT !.cancelRequested = TRUE]
      <3>1. row' = [row EXCEPT ![p] = s] BY <2>3 DEF UserWrite
      <3>2. s \in Row BY <2>1 DEF Row
      <3>3. s.status = row[p].status /\ Same(s, row[p]) BY <2>1 DEF Row, Same
      <3> HIDE DEF s
      <3> QED BY <1>0, <2>3, <3>1, <3>2, <3>3
    <2>4. CASE mark = "bumpRequested"
      <3> DEFINE s == [row[p] EXCEPT !.bumpRequested = TRUE]
      <3>1. row' = [row EXCEPT ![p] = s] BY <2>4 DEF UserWrite
      <3>2. s \in Row BY <2>1 DEF Row
      <3>3. s.status = row[p].status /\ Same(s, row[p]) BY <2>1 DEF Row, Same
      <3> HIDE DEF s
      <3> QED BY <1>0, <2>4, <3>1, <3>2, <3>3
    <2> QED BY <2>2, <2>3, <2>4 DEF Marks
  <1> HIDE DEF r
  <1>4. r.status # row[p].status =>
          r.status = "cancelled" /\ wish[p] = "cancelled" /\ known[p] = {} /\ row[p].txids = {}
          /\ row[p].status \notin {"signed", "broadcast"}
    BY <1>1, <1>3, CancelledIs DEF PayoutInv, SignerKeeps
  <1>5. \A q \in Intents : row'[q] = IF q = p THEN r ELSE row[q] BY <1>0, <1>3
  <1>6. RowFits(p, r)
    <2>1. RowFits(p, row[p]) BY DEF PayoutInv, RowsFit
    <2> QED BY <1>3, <1>4, <2>1 DEF RowFits, Same
  <1>7. known[p] \subseteq r.txids BY <1>3 DEF PayoutInv, StoredBeforeSent, Same
  <1>8. TellsTruth(p, r.status)
    <2>1. TellsTruth(p, row[p].status) BY DEF PayoutInv, StatusTellsTruth, TellsTruth
    <2>2. CASE r.status = row[p].status BY <2>1, <2>2
    <2>3. CASE r.status # row[p].status BY <1>4, <2>3 DEF TellsTruth
    <2> QED BY <2>2, <2>3
  <1>9. r.status \in OPEN_PAYOUT_STATUS => row[p].status \in OPEN_PAYOUT_STATUS
    BY <1>4 DEF OPEN_PAYOUT_STATUS
  <1>10. chain = "bitcoin" /\ r.status \in OPEN_PAYOUT_STATUS =>
           \A q \in Intents \ {p} : row[q].status \in OPEN_PAYOUT_STATUS => r.coins \cap row[q].coins = {}
    BY <1>3, <1>9 DEF PayoutInv, PlansDisjoint, Same
  <1>11. BatchFits'
    <2> SUFFICES ASSUME NEW b \in batch
                 PROVE  /\ Same(b.row, row'[b.id])
                        /\ \/ row'[b.id].status = b.row.status
                           \/ /\ row'[b.id].status = "cancelled" /\ wish[b.id] = "cancelled"
                              /\ b.row.status \in {"awaiting_approval", "approved"}
      BY <1>2 DEF PayoutInv, BatchFits, TakenBack, Same
    <2>1. /\ b.id \in Intents /\ b.row.status \in OPEN_PAYOUT_STATUS /\ Same(b.row, row[b.id])
          /\ \/ row[b.id].status = b.row.status
             \/ TakenBack(b.id) /\ b.row.status \in {"awaiting_approval", "approved"}
      BY DEF PayoutInv, BatchFits, PayoutTypeOK
    <2>2. CASE b.id # p BY <1>5, <2>1, <2>2 DEF TakenBack
    <2>3. CASE b.id = p
      <3>1. Same(b.row, r) BY <1>3, <2>1, <2>3 DEF Same
      <3>2. CASE r.status = row[p].status BY <1>5, <2>1, <2>3, <3>1, <3>2 DEF TakenBack
      <3>3. CASE r.status # row[p].status
        <4>1. b.row.status \in {"awaiting_approval", "approved"}
          BY <1>4, <2>1, <2>3, <3>3 DEF OPEN_PAYOUT_STATUS
        <4> QED BY <1>4, <1>5, <2>3, <3>1, <3>3, <4>1
      <3> QED BY <3>2, <3>3
    <2> QED BY <2>2, <2>3
  <1>12. JobFits'
    <2>1. ASSUME NEW s PROVE TellsTruth(job.p, s)' <=> TellsTruth(job.p, s)
      BY <1>2 DEF TellsTruth, Paid, Pays
    <2>2. CASE job.pc = "rest" BY <1>2, <2>2 DEF JobFits, Before, After
    <2>3. CASE job.pc # "rest" /\ job.p # p
      <3>1. job.p \in Intents BY <2>3 DEF PayoutInv, JobFits
      <3>2. row'[job.p] = row[job.p] BY <1>5, <2>3, <3>1
      <3> QED BY <1>2, <2>1, <3>2 DEF PayoutInv, JobFits, Same, TakenBack, LastTx
    <2>4. CASE job.pc # "rest" /\ job.p = p
      <3>1. row'[job.p] = r BY <1>5, <2>4
      <3>2. r.coins = row[p].coins /\ r.raw = row[p].raw /\ r.txids = row[p].txids
            /\ r.cancelTx = row[p].cancelTx
        BY <1>3 DEF Same
      <3>3. job.pc \in After => r.status = row[p].status
        BY <1>4, <2>4 DEF PayoutInv, JobFits
      <3>4. r.status = row[p].status \/ (r.status = "cancelled" /\ wish[p] = "cancelled")
        BY <1>4
      <3> QED BY <1>2, <2>1, <2>4, <3>1, <3>2, <3>3, <3>4
              DEF PayoutInv, JobFits, Same, TakenBack, LastTx
    <2> QED BY <2>2, <2>3, <2>4
  <1>13. PlanApart'
    <2> SUFFICES ASSUME chain = "bitcoin", job.pc \in {"sign", "store"},
                        NEW q \in Intents \ {job.p}, row'[q].status \in OPEN_PAYOUT_STATUS
                 PROVE  job.coins \cap row'[q].coins = {}
      BY <1>2 DEF PlanApart
    <2>1. row[q].status \in OPEN_PAYOUT_STATUS /\ row'[q].coins = row[q].coins
      BY <1>3, <1>5, <1>9 DEF Same
    <2> QED BY <2>1 DEF PayoutInv, PlanApart
  <1>14. /\ job' \in Job /\ batch' = batch /\ pending' \in [Intents -> SUBSET Marks]
         /\ \A q \in Intents : pending'[q] \subseteq pending[q]
    BY <1>0, <1>1, <1>2 DEF PayoutInv, PayoutTypeOK
  <1> QED BY <1>1, <1>3, <1>6, <1>7, <1>8, <1>10, <1>11, <1>12, <1>13, <1>14, PutInv

(* createPayout writes its row: nobody works on it yet. *)
LEMMA InsertRowInv ==
  ASSUME PayoutInv, NEW p \in Intents, InsertRow(p)
  PROVE  PayoutInv'
  <1> DEFINE r == [row[p] EXCEPT !.status = "awaiting_approval"]
  <1>0. row \in [Intents -> Row] /\ row[p] \in Row BY DEF PayoutInv, PayoutTypeOK
  <1>1. /\ row[p].status = "none" /\ row' = [row EXCEPT ![p] = r]
        /\ UNCHANGED <<promise, chain, closed, pending, lapsed, work, node, fails>>
    BY DEF InsertRow
  <1>2. job' = job /\ batch' = batch /\ chain' = chain /\ wish' = wish /\ txs' = txs
        /\ known' = known /\ block' = block /\ final' = final /\ reverted' = reverted
        /\ pending' = pending
    BY <1>1 DEF work, promise, node
  <1>3. r \in Row /\ r.status = "awaiting_approval" /\ Same(r, row[p])
    BY <1>0 DEF Row, OPEN_PAYOUT_STATUS, Same
  <1> HIDE DEF r
  <1>4. \A q \in Intents : row'[q] = IF q = p THEN r ELSE row[q] BY <1>0, <1>1
  <1>5. row[p].txids = {} /\ row[p].coins = {} /\ RowFits(p, row[p])
    BY <1>1 DEF PayoutInv, RowsFit, RowFits
  <1>6. RowFits(p, r) BY <1>3, <1>5 DEF RowFits, Same
  <1>7. known[p] \subseteq r.txids BY <1>3 DEF PayoutInv, StoredBeforeSent, Same
  <1>8. TellsTruth(p, r.status) BY <1>3 DEF TellsTruth
  <1>9. r.coins = {} BY <1>3, <1>5 DEF Same
  <1>10. \A b \in batch : b.id \in Intents /\ b.id # p
    BY <1>1 DEF PayoutInv, PayoutTypeOK, BatchFits, OPEN_PAYOUT_STATUS, TakenBack
  <1>11. job.pc # "rest" => job.p \in Intents /\ job.p # p
    <2>1. job.pc \in Steps BY DEF PayoutInv, PayoutTypeOK, Job
    <2> QED BY <1>1, <2>1 DEF PayoutInv, JobFits, Before, After, Steps, TakenBack
  <1>12. BatchFits' BY <1>2, <1>4, <1>10 DEF PayoutInv, BatchFits, Same, TakenBack
  <1>13. JobFits'
    <2>1. ASSUME NEW s PROVE TellsTruth(job.p, s)' <=> TellsTruth(job.p, s)
      BY <1>2 DEF TellsTruth, Paid, Pays
    <2>2. CASE job.pc = "rest" BY <1>2, <2>2 DEF JobFits, Before, After
    <2>3. CASE job.pc # "rest"
      <3>1. row'[job.p] = row[job.p] BY <1>4, <1>11, <2>3
      <3> QED BY <1>2, <2>1, <3>1 DEF PayoutInv, JobFits, Same, TakenBack, LastTx
    <2> QED BY <2>2, <2>3
  <1>14. PlanApart'
    <2> SUFFICES ASSUME chain = "bitcoin", job.pc \in {"sign", "store"},
                        NEW q \in Intents \ {job.p}, row'[q].status \in OPEN_PAYOUT_STATUS
                 PROVE  job.coins \cap row'[q].coins = {}
      BY <1>2 DEF PlanApart
    <2>1. CASE q = p BY <1>4, <1>9, <2>1
    <2>2. CASE q # p BY <1>4, <2>2 DEF PayoutInv, PlanApart
    <2> QED BY <2>1, <2>2
  <1>15. job' \in Job /\ pending' \in [Intents -> SUBSET Marks]
         /\ \A q \in Intents : pending'[q] \subseteq pending[q]
    BY <1>2 DEF PayoutInv, PayoutTypeOK
  <1> QED BY <1>1, <1>2, <1>3, <1>6, <1>7, <1>8, <1>9, <1>12, <1>13, <1>14, <1>15, PutInv

-----------------------------------------------------------------------------
(* The job                                                                   *)

(* The job takes a step; the signer may be told to cancel. *)
LEMMA JobInv ==
  ASSUME PayoutInv, UNCHANGED <<txs, chain, closed, db, node>>,
         wish' \in [Intents -> {"none", "open", "approved", "cancelled"}],
         \A p \in Intents :
           /\ wish[p] = "cancelled" => wish'[p] = "cancelled"
           /\ wish'[p] = "cancelled" => txs[p] = <<>>,
         job' \in Job, batch' \in SUBSET [id : Intents, row : Row], fails' \in 0..MaxFails,
         JobFits', BatchFits', PlanApart'
  PROVE  PayoutInv'
  <1>1. /\ txs' = txs /\ chain' = chain /\ closed' = closed /\ row' = row /\ pending' = pending
        /\ lapsed' = lapsed /\ known' = known /\ block' = block /\ final' = final
        /\ reverted' = reverted
    BY DEF db, node
  <1>2. PayoutTypeOK' BY <1>1 DEF PayoutInv, PayoutTypeOK, PromiseType
  <1>3. SignerKeeps' BY <1>1 DEF PayoutInv, SignerKeeps
  <1>4. RowsFit' BY <1>1 DEF PayoutInv, RowsFit, RowFits
  <1>5. NodeFits' BY <1>1 DEF PayoutInv, NodeFits
  <1>6. StoredBeforeSent' BY <1>1 DEF PayoutInv, StoredBeforeSent
  <1>7. StatusTellsTruth' BY <1>1 DEF PayoutInv, StatusTellsTruth, Paid, Pays
  <1>8. chain' = "bitcoin" => PlansDisjoint' BY <1>1 DEF PayoutInv, PlansDisjoint
  <1> QED BY <1>2, <1>3, <1>4, <1>5, <1>6, <1>7, <1>8 DEF PayoutInv

(* It only looks, and goes on with the same payout or leaves it. *)
LEMMA JobLooks ==
  ASSUME PayoutInv, UNCHANGED <<promise, chain, closed, db, node>>, job' \in Job, batch' \in {batch, {}},
         fails' \in 0..MaxFails, job.pc # "rest" \/ job'.pc = "rest",
         job'.pc = "rest" \/ (job'.p = job.p /\ JobFits' /\ PlanApart')
  PROVE  PayoutInv'
  <1>1. wish' = wish /\ txs' = txs /\ row' = row BY DEF promise, db
  <1>2. wish' \in [Intents -> {"none", "open", "approved", "cancelled"}]
        /\ batch \in SUBSET [id : Intents, row : Row]
    BY <1>1 DEF PayoutInv, PayoutTypeOK, PromiseType
  <1>3. BatchFits' BY <1>1 DEF PayoutInv, BatchFits, Same, TakenBack
  <1>4. CASE job'.pc = "rest"
    <2>1. JobFits' /\ PlanApart' BY <1>4 DEF JobFits, PlanApart, Before, After
    <2> QED BY <1>1, <1>2, <1>3, <2>1, JobInv DEF PayoutInv, SignerKeeps
  <1>5. CASE job'.pc # "rest" BY <1>1, <1>2, <1>3, <1>5, JobInv DEF PayoutInv, SignerKeeps
  <1> QED BY <1>4, <1>5

(* The run begins, ends early, or leaves a payout. *)
LEMMA RunInv ==
  ASSUME PayoutInv, StartRun \/ StepFails \/ Crash \/ Hold
  PROVE  PayoutInv'
  <1>0. Rest \in Job /\ Rest.pc = "rest" BY RestIs
  <1>1. CASE StepFails \/ Crash \/ Hold
    <2>1. /\ UNCHANGED <<promise, chain, closed, db, node>> /\ job' = Rest /\ batch' \in {batch, {}}
          /\ fails' \in 0..MaxFails
      BY <1>1, PayoutsAssumption DEF StepFails, Crash, Hold, PayoutInv, PayoutTypeOK
    <2> QED BY <1>0, <2>1, JobLooks
  <1>2. CASE StartRun
    <2>1. /\ UNCHANGED <<promise, chain, closed, db, job, node, fails>> /\ job.pc = "rest"
          /\ batch' = {[id |-> p, row |-> row[p]] :
                         p \in {q \in Intents : row[q].status \in OPEN_PAYOUT_STATUS}}
      BY <1>2 DEF StartRun
    <2>2. wish' = wish /\ txs' = txs /\ row' = row BY <2>1 DEF promise, db
    <2>3. row \in [Intents -> Row] BY DEF PayoutInv, PayoutTypeOK
    <2>4. batch' \in SUBSET [id : Intents, row : Row] BY <2>1, <2>3
    <2>5. \A b \in batch' : b.id \in Intents /\ b.row = row[b.id] /\ b.row.status \in OPEN_PAYOUT_STATUS
                            /\ b = [id |-> b.id, row |-> row[b.id]]
      BY <2>1
    <2>6. BatchFits' BY <2>1, <2>2, <2>5 DEF BatchFits, Same
    <2>7. JobFits' /\ PlanApart' BY <2>1 DEF JobFits, PlanApart, Before, After
    <2>8. /\ wish' \in [Intents -> {"none", "open", "approved", "cancelled"}]
          /\ job' \in Job /\ fails' \in 0..MaxFails
      BY <2>1, <2>2 DEF PayoutInv, PayoutTypeOK, PromiseType
    <2> QED BY <2>1, <2>2, <2>4, <2>6, <2>7, <2>8, JobInv DEF PayoutInv, SignerKeeps
  <1> QED BY <1>1, <1>2

(* The next payout of the run: only its user may have written to it since. *)
LEMMA ProcessInv ==
  ASSUME PayoutInv, ProcessPayout
  PROVE  PayoutInv'
  <1> DEFINE b == CHOOSE x \in batch : \A y \in batch : x.id <= y.id
             e == Enter(b.id, b.row)
  <1>1. /\ job.pc = "rest" /\ batch # {} /\ job' = e /\ batch' = batch \ {b}
        /\ UNCHANGED <<promise, chain, closed, db, node, fails>>
    BY DEF ProcessPayout
  <1>2. b \in batch
    <2> DEFINE ids == {x.id : x \in batch}
    <2>0. \A x \in batch : x.id \in Nat BY PayoutsAssumption DEF PayoutInv, PayoutTypeOK
    <2>1. ids \in SUBSET Nat /\ ids # {} BY <1>1, <2>0
    <2>2. PICK n \in ids : \A m \in ids : n <= m BY <2>1, LeastNumber
    <2>3. \E x \in batch : \A y \in batch : x.id <= y.id BY <2>2
    <2> QED BY <2>3
  <1> HIDE DEF b
  <1>3. /\ b.id \in Intents /\ b.row \in Row /\ b.row.status \in OPEN_PAYOUT_STATUS
        /\ Same(b.row, row[b.id])
        /\ \/ row[b.id].status = b.row.status
           \/ TakenBack(b.id) /\ b.row.status \in {"awaiting_approval", "approved"}
    BY <1>2 DEF PayoutInv, PayoutTypeOK, BatchFits
  <1>4. /\ e \in Job
        /\ e.pc # "rest" => e.p = b.id /\ e.row = b.row
        /\ b.row.status = "awaiting_approval" => e.pc = "view"
        /\ b.row.status = "approved" => e.pc = "plan"
        /\ b.row.status = "signed" => e.pc = "send"
        /\ b.row.status = "broadcast" => e.pc = "track"
    BY <1>3, EnterIs
  <1> HIDE DEF e
  <1>5. wish' = wish /\ txs' = txs /\ row' = row BY <1>1 DEF promise, db
  <1>6. e.pc \in {"view", "plan", "send", "track"} /\ e.p = b.id /\ e.row = b.row
    BY <1>3, <1>4 DEF OPEN_PAYOUT_STATUS
  <1>7. \A c \in batch' : c.id # b.id BY <1>1, <1>2 DEF PayoutInv, BatchFits
  <1>8. BatchFits' BY <1>1, <1>5, <1>6, <1>7 DEF PayoutInv, BatchFits, Same, TakenBack
  <1>9. RowFits(b.id, row[b.id]) BY <1>3 DEF PayoutInv, RowsFit
  <1>10. TakenBack(b.id) => row[b.id].txids = {}
    BY <1>3, CancelledIs DEF TakenBack
  <1>11. JobFits'
    <2>1. CASE b.row.status \in {"awaiting_approval", "approved"}
      <3>1. row[b.id].txids = {} BY <1>3, <1>9, <1>10, <2>1 DEF RowFits
      <3> QED BY <1>1, <1>3, <1>4, <1>5, <1>6, <2>1, <3>1
              DEF JobFits, TakenBack, Before, After
    <2>2. CASE b.row.status \in {"signed", "broadcast"}
      BY <1>1, <1>3, <1>4, <1>5, <1>6, <2>2 DEF JobFits, Same, Before, After
    <2> QED BY <1>3, <2>1, <2>2 DEF OPEN_PAYOUT_STATUS
  <1>12. PlanApart' BY <1>1, <1>6 DEF PlanApart
  <1>13. /\ wish' \in [Intents -> {"none", "open", "approved", "cancelled"}]
         /\ batch' \in SUBSET [id : Intents, row : Row] /\ fails' \in 0..MaxFails /\ job' \in Job
    BY <1>1, <1>4, <1>5 DEF PayoutInv, PayoutTypeOK, PromiseType
  <1> QED BY <1>1, <1>5, <1>8, <1>11, <1>12, <1>13, JobInv DEF PayoutInv, SignerKeeps

(* The job writes to the row in hand, and is not about to sign. *)
LEMMA JobWrites ==
  ASSUME PayoutInv, job.pc # "rest", NEW r \in Row, row' = [row EXCEPT ![job.p] = r],
         UNCHANGED <<promise, chain, closed, pending, lapsed, batch, node, fails>>,
         RowFits(job.p, r), known[job.p] \subseteq r.txids, TellsTruth(job.p, r.status),
         chain = "bitcoin" /\ r.status \in OPEN_PAYOUT_STATUS =>
           \A q \in Intents \ {job.p} :
             row[q].status \in OPEN_PAYOUT_STATUS => r.coins \cap row[q].coins = {},
         job' \in Job, job'.pc \notin {"sign", "store"},
         job'.pc = "rest" \/ (job'.p = job.p /\ JobFits')
  PROVE  PayoutInv'
  <1>1. job.p \in Intents BY DEF PayoutInv, JobFits
  <1>2. row \in [Intents -> Row] /\ pending' \in [Intents -> SUBSET Marks] /\ pending' = pending
    BY DEF PayoutInv, PayoutTypeOK
  <1>3. \A b \in batch : b.id \in Intents /\ b.id # job.p BY DEF PayoutInv, PayoutTypeOK, BatchFits
  <1>4. \A q \in Intents : q # job.p => row'[q] = row[q] BY <1>1, <1>2
  <1>5. wish' = wish /\ batch' = batch BY DEF promise
  <1>6. BatchFits' BY <1>3, <1>4, <1>5 DEF PayoutInv, BatchFits, Same, TakenBack
  <1>7. PlanApart' BY DEF PlanApart
  <1>8. JobFits' BY DEF JobFits, Before, After
  <1> QED BY <1>1, <1>2, <1>5, <1>6, <1>7, <1>8, PutInv

(* The signer signs for the payout in hand. *)
LEMMA JobSigns ==
  ASSUME PayoutInv, job.pc # "rest", wish[job.p] # "cancelled",
         NEW s \in Seq(Tx), txs' = [txs EXCEPT ![job.p] = s], s # <<>>,
         \A k \in DOMAIN txs[job.p] : k \in DOMAIN s /\ s[k] = txs[job.p][k],
         s[1].mode = "first", Len(s) <= 1 \/ row[job.p].txids # {},
         \A i, j \in DOMAIN s : i < j /\ s[i].mode = "cancel" => s[j].mode = "cancel",
         UNCHANGED <<wish, chain, closed, db, batch, node, fails>>,
         job' \in Job, job'.p = job.p, JobFits', PlanApart'
  PROVE  PayoutInv'
  <1>0. /\ chain' = chain /\ closed' = closed /\ row' = row /\ pending' = pending
        /\ lapsed' = lapsed /\ known' = known /\ block' = block /\ final' = final
        /\ reverted' = reverted /\ batch' = batch /\ fails' = fails /\ wish' = wish
    BY DEF db, node
  <1>1. job.p \in Intents /\ txs \in [Intents -> Seq(Tx)]
    BY DEF PayoutInv, JobFits, PayoutTypeOK, PromiseType
  <1>2. \A q \in Intents : txs'[q] = IF q = job.p THEN s ELSE txs[q] BY <1>1
  <1>3. PayoutTypeOK'
    <2>1. txs' \in [Intents -> Seq(Tx)] BY <1>1
    <2> QED BY <1>0, <2>1 DEF PayoutInv, PayoutTypeOK, PromiseType
  <1>4. SignerKeeps'
    <2> SUFFICES ASSUME NEW q \in Intents
                 PROVE  /\ wish[q] = "cancelled" => txs'[q] = <<>>
                        /\ "cancelled" \in pending[q] => wish[q] = "cancelled"
                        /\ txs'[q] # <<>> => txs'[q][1].mode = "first"
                        /\ \A i, j \in DOMAIN txs'[q] :
                             i < j /\ txs'[q][i].mode = "cancel" => txs'[q][j].mode = "cancel"
      BY <1>0 DEF SignerKeeps
    <2>1. CASE q = job.p BY <1>2, <2>1 DEF PayoutInv, SignerKeeps
    <2>2. CASE q # job.p BY <1>2, <2>2 DEF PayoutInv, SignerKeeps
    <2> QED BY <2>1, <2>2
  <1>5. RowsFit'
    <2> SUFFICES ASSUME NEW q \in Intents PROVE RowFits(q, row[q])' BY DEF RowsFit
    <2>1. RowFits(q, row[q]) BY DEF PayoutInv, RowsFit
    <2>2. CASE q = job.p
      <3>1. txs'[q] = s BY <1>2, <2>2
      <3> QED BY <1>0, <2>1, <2>2, <3>1 DEF RowFits
    <2>3. CASE q # job.p
      <3>1. txs'[q] = txs[q] BY <1>2, <2>3
      <3> QED BY <1>0, <2>1, <3>1 DEF RowFits
    <2> QED BY <2>2, <2>3
  <1>6. NodeFits' BY <1>0 DEF PayoutInv, NodeFits
  <1>7. StoredBeforeSent' BY <1>0 DEF PayoutInv, StoredBeforeSent
  <1>8. ASSUME NEW q \in Intents PROVE Paid(q)' <=> Paid(q)
    <2>1. CASE block[q] > 0
      <3>1. block[q] \in DOMAIN txs[q]
        BY <2>1 DEF PayoutInv, NodeFits, StoredBeforeSent, RowsFit, RowFits
      <3>2. txs'[q][block[q]] = txs[q][block[q]] BY <1>2, <3>1
      <3> QED BY <1>0, <3>2 DEF Paid, Pays
    <2>2. CASE ~(block[q] > 0) BY <1>0, <2>2 DEF Paid
    <2> QED BY <2>1, <2>2
  <1>9. StatusTellsTruth' BY <1>0, <1>8 DEF PayoutInv, StatusTellsTruth
  <1>10. BatchFits' BY <1>0 DEF PayoutInv, BatchFits, Same, TakenBack
  <1>11. chain' = "bitcoin" => PlansDisjoint' BY <1>0 DEF PayoutInv, PlansDisjoint
  <1> QED BY <1>3, <1>4, <1>5, <1>6, <1>7, <1>9, <1>10, <1>11 DEF PayoutInv

(* The node takes a transaction, or refuses it. *)
LEMMA SendInv ==
  ASSUME PayoutInv, Send
  PROVE  PayoutInv'
  <1>0. job.p \in Intents /\ job \in Job BY DEF PayoutInv, PayoutTypeOK, JobFits, Send
  <1>1. CASE ~Accepts(job.p, job.row.raw)
    <2>1. /\ job' = Rest /\ UNCHANGED <<promise, chain, closed, db, batch, node, fails>>
      BY <1>1 DEF Send, node
    <2>2. Rest \in Job /\ Rest.pc = "rest" BY RestIs
    <2>3. fails' \in 0..MaxFails BY <2>1 DEF PayoutInv, PayoutTypeOK
    <2> QED BY <2>1, <2>2, <2>3, JobLooks
  <1>2. CASE Accepts(job.p, job.row.raw)
    <2> DEFINE k == job.row.raw
               p == job.p
    <2>1. /\ job.pc = "send" /\ known' = [known EXCEPT ![p] = @ \cup {k}]
          /\ job' = [job EXCEPT !.pc = "sent"]
          /\ wish' = wish /\ txs' = txs /\ chain' = chain /\ closed' = closed /\ row' = row
          /\ pending' = pending /\ lapsed' = lapsed /\ batch' = batch /\ block' = block
          /\ final' = final /\ reverted' = reverted /\ fails' = fails
      BY <1>2 DEF Send, promise, db
    <2>2. row[p].status \in {"signed", "broadcast"} /\ Same(job.row, row[p])
      BY <2>1 DEF PayoutInv, JobFits, After
    <2>3. k \in row[p].txids BY <1>0, <2>2 DEF PayoutInv, RowsFit, RowFits, Same
    <2>4. k \in Versions
      <3>1. row[p] \in Row BY <1>0 DEF PayoutInv, PayoutTypeOK
      <3> QED BY <2>3, <3>1 DEF Row
    <2>5. known \in [Intents -> SUBSET Versions] BY DEF PayoutInv, PayoutTypeOK
    <2>6. \A q \in Intents : known'[q] = IF q = p THEN known[q] \cup {k} ELSE known[q]
      BY <1>0, <2>1, <2>5
    <2>7. job' \in Job /\ job'.pc = "sent" /\ job'.p = p /\ job'.row = job.row
      BY <1>0, <2>1 DEF Job, Steps
    <2>8. known' \in [Intents -> SUBSET Versions] BY <1>0, <2>1, <2>4, <2>5
    <2> HIDE DEF k, p
    <2>9. PayoutTypeOK' BY <2>1, <2>7, <2>8 DEF PayoutInv, PayoutTypeOK, PromiseType
    <2>10. SignerKeeps' BY <2>1 DEF PayoutInv, SignerKeeps
    <2>11. RowsFit' BY <2>1 DEF PayoutInv, RowsFit, RowFits
    <2>12. NodeFits' BY <2>1, <2>6 DEF PayoutInv, NodeFits
    <2>13. StoredBeforeSent' BY <2>1, <2>3, <2>6 DEF PayoutInv, StoredBeforeSent
    <2>14. StatusTellsTruth'
      <3>1. ASSUME NEW q \in Intents PROVE Paid(q)' <=> Paid(q) BY <2>1 DEF Paid, Pays
      <3> QED BY <2>1, <2>2, <2>6, <3>1 DEF PayoutInv, StatusTellsTruth
    <2>15. BatchFits' BY <2>1, <2>7 DEF PayoutInv, BatchFits, Same, TakenBack, p
    <2>16. JobFits' BY <1>0, <2>1, <2>2, <2>7 DEF JobFits, Before, After, Same, p
    <2>17. PlanApart' BY <2>7 DEF PlanApart
    <2>18. chain' = "bitcoin" => PlansDisjoint' BY <2>1 DEF PayoutInv, PlansDisjoint
    <2> QED BY <2>9, <2>10, <2>11, <2>12, <2>13, <2>14, <2>15, <2>16, <2>17, <2>18 DEF PayoutInv
  <1> QED BY <1>1, <1>2

(* A first plan takes nothing that another open row has in its plan. *)
LEMMA PlansApart ==
  ASSUME NEW p \in Intents, chain = "bitcoin", NEW coins \in Plans(p),
         NEW q \in Intents \ {p}, row[q].status \in OPEN_PAYOUT_STATUS
  PROVE  coins \cap row[q].coins = {}
  <1>1. coins \subseteq Coins \ (UsedByKnown \cup Spent \cup ExcludedOutpoints(p)) BY DEF Plans
  <1>2. row[q].coins \subseteq ExcludedOutpoints(p) BY DEF ExcludedOutpoints
  <1> QED BY <1>1, <1>2

(* What a plan spends are coins. *)
LEMMA PlansType ==
  ASSUME NEW p \in Intents, NEW coins \in Plans(p)
  PROVE  coins \in SUBSET Coins
  BY DEF Plans

(* What track makes of a version that is final is true. *)
LEMMA EndsAsTrue ==
  ASSUME PayoutInv, job.p \in Intents, Same(job.row, row[job.p]), NEW v \in Versions,
         block[job.p] = v, job.p \in final
  PROVE  EndsAs(v) \in Ended \ {"expired"} /\ TellsTruth(job.p, EndsAs(v))
  <1> DEFINE p == job.p
  <1>1. block[p] > 0 BY DEF Versions
  <1>2. block[p] \in row[p].txids BY <1>1 DEF PayoutInv, NodeFits, StoredBeforeSent
  <1>3. RowFits(p, row[p]) BY DEF PayoutInv, RowsFit
  <1>4. job.row.cancelTx = row[p].cancelTx BY DEF Same
  <1>5. Pays(p, block[p]) <=> v # job.row.cancelTx BY <1>2, <1>3, <1>4 DEF RowFits, Pays
  <1>6. CASE p \in reverted BY <1>6 DEF EndsAs, TellsTruth, Paid, Ended
  <1>7. CASE p \notin reverted /\ v = job.row.cancelTx
    BY <1>5, <1>7 DEF EndsAs, TellsTruth, Paid, Ended
  <1>8. CASE p \notin reverted /\ v # job.row.cancelTx
    BY <1>1, <1>5, <1>8 DEF EndsAs, TellsTruth, Paid, Ended
  <1> QED BY <1>6, <1>7, <1>8

(* The job turns to a step afresh, with the row in hand and another mode. *)
LEMMA TurnsTo ==
  ASSUME job \in Job, NEW mode \in {"bump", "cancel"}, NEW e,
         e = [At("replace", job.p, job.row) EXCEPT !.mode = mode]
  PROVE  e \in Job /\ e.pc = "replace" /\ e.p = job.p /\ e.row = job.row /\ e.mode = mode
  <1> DEFINE a == At("replace", job.p, job.row)
  <1>1. job.row \in Row /\ job.row.txids \in SUBSET Versions /\ job.p \in Intents \cup {0}
    BY DEF Job, Row
  <1>2. a \in Job /\ a.pc = "replace" /\ a.p = job.p /\ a.row = job.row
    BY <1>1 DEF At, Job, Steps
  <1> HIDE DEF a
  <1>3. e = [a EXCEPT !.mode = mode] BY DEF a
  <1> QED BY <1>2, <1>3 DEF Job

(* The wish that is worked on next: a cancellation only once. *)
LEMMA NextWishIs ==
  ASSUME job \in Job, NEW e, e = NextWish(job.row)
  PROVE  /\ e \in Job
         /\ \/ e.pc = "rest"
            \/ /\ e.pc = "replace" /\ e.p = job.p /\ e.row = job.row /\ e.mode \in {"bump", "cancel"}
               /\ e.mode = "cancel" => job.row.cancelTx = 0
  <1>1. Rest \in Job /\ Rest.pc = "rest" BY RestIs
  <1>2. CASE job.row.cancelRequested /\ job.row.cancelTx = 0
    <2>1. e = [At("replace", job.p, job.row) EXCEPT !.mode = "cancel"] BY <1>2 DEF NextWish
    <2> QED BY <1>2, <2>1, TurnsTo
  <1>3. CASE ~(job.row.cancelRequested /\ job.row.cancelTx = 0) /\ job.row.bumpRequested
    <2>1. e = [At("replace", job.p, job.row) EXCEPT !.mode = "bump"] BY <1>3 DEF NextWish
    <2> QED BY <2>1, TurnsTo
  <1>4. CASE ~(job.row.cancelRequested /\ job.row.cancelTx = 0) /\ ~job.row.bumpRequested
    <2>1. e = Rest BY <1>4 DEF NextWish
    <2> QED BY <1>1, <2>1
  <1> QED BY <1>2, <1>3, <1>4

(* finish is next, with a status. *)
LEMMA DecidedIs ==
  ASSUME job \in Job, NEW to \in Ended, NEW e, e = Decided(to)
  PROVE  e \in Job /\ e.pc = "finish" /\ e.p = job.p /\ e.row = job.row /\ e.to = to
  <1>1. job.row \in Row /\ job.row.txids \in SUBSET Versions BY DEF Job, Row
  <1> QED BY <1>1 DEF Decided, At, Job, Steps

(* After an answer that settles nothing: the next version, the wish, or "dropped". *)
LEMMA AskedIs ==
  ASSUME job \in Job, NEW v, NEW displaced \in BOOLEAN, NEW e, e = Asked(v, displaced)
  PROVE  /\ e \in Job
         /\ \/ e = NextWish(job.row)
            \/ e = Decided("dropped")
            \/ e.pc = job.pc /\ e.p = job.p /\ e.row = job.row /\ e.finalized = job.finalized
  <1> DEFINE left == job.left \ {v}
             gone == job.gone /\ displaced
  <1>1. CASE left # {}
    <2>1. e = [job EXCEPT !.left = left, !.gone = gone] BY <1>1 DEF Asked
    <2>2. left \in SUBSET Versions /\ gone \in BOOLEAN BY DEF Job
    <2> HIDE DEF left, gone
    <2> QED BY <2>1, <2>2 DEF Job
  <1>2. CASE left = {} /\ gone
    <2>1. e = Decided("dropped") BY <1>2 DEF Asked
    <2>2. "dropped" \in Ended BY DEF Ended
    <2> QED BY <2>1, <2>2, DecidedIs
  <1>3. CASE left = {} /\ ~gone
    <2>1. e = NextWish(job.row) BY <1>3 DEF Asked
    <2> QED BY <2>1, NextWishIs
  <1> QED BY <1>1, <1>2, <1>3

(* The questions of track. *)
LEMMA TrackInv ==
  ASSUME PayoutInv, GetTransaction \/ GetFinalized \/ GetReceipt \/ GetNothing
  PROVE  PayoutInv'
  <1>0. Rest \in Job /\ Rest.pc = "rest" BY RestIs
  <1>1. /\ UNCHANGED <<promise, chain, closed, db, batch, node>> /\ fails' \in 0..MaxFails
        /\ job.pc \in {"track", "receipt"}
    <2>1. MaxFails \in Nat /\ fails \in 0..MaxFails
      BY PayoutsAssumption DEF PayoutInv, PayoutTypeOK
    <2>2. CASE GetTransaction BY <2>1, <2>2 DEF GetTransaction
    <2>3. CASE GetFinalized BY <2>1, <2>3 DEF GetFinalized
    <2>4. CASE GetReceipt BY <2>1, <2>4 DEF GetReceipt
    <2>5. CASE GetNothing BY <2>1, <2>5 DEF GetNothing
    <2> QED BY <2>2, <2>3, <2>4, <2>5
  <1>2. /\ wish' = wish /\ txs' = txs /\ row' = row /\ chain' = chain /\ known' = known
        /\ block' = block /\ final' = final /\ reverted' = reverted /\ batch' = batch
    BY <1>1 DEF promise, db, node
  <1>3. /\ job \in Job /\ job.p \in Intents /\ JobFits /\ PlanApart
        /\ row[job.p].status \in {"signed", "broadcast"} /\ Same(job.row, row[job.p])
    BY <1>1 DEF PayoutInv, PayoutTypeOK, JobFits, After
  <1> SUFFICES job' \in Job /\ (job'.pc = "rest" \/ (job'.p = job.p /\ JobFits' /\ PlanApart'))
    BY <1>1, JobLooks
  <1>4. CASE job' = Rest BY <1>0, <1>4
  <1>5. ASSUME NEW to \in Ended \ {"expired"}, TellsTruth(job.p, to), job' = Decided(to)
        PROVE  job' \in Job /\ job'.p = job.p /\ JobFits' /\ PlanApart'
    <2>1. job' \in Job /\ job'.pc = "finish" /\ job'.p = job.p /\ job'.row = job.row /\ job'.to = to
      BY <1>3, <1>5, DecidedIs
    <2>2. TellsTruth(job.p, job.to)' BY <1>2, <1>5, <2>1 DEF TellsTruth, Paid, Pays
    <2> QED BY <1>2, <1>3, <2>1, <2>2 DEF JobFits, PlanApart, Before, After, Same
  <1>6. ASSUME job' \in Job, job'.pc = job.pc, job'.p = job.p, job'.row = job.row,
               job'.finalized = job.finalized
        PROVE  JobFits' /\ PlanApart'
    BY <1>1, <1>2, <1>3, <1>6 DEF JobFits, PlanApart, Before, After, Same
  <1>7. ASSUME job' = NextWish(job.row)
        PROVE  job' \in Job /\ (job'.pc = "rest" \/ (job'.p = job.p /\ JobFits' /\ PlanApart'))
    <2>1. /\ job' \in Job
          /\ \/ job'.pc = "rest"
             \/ /\ job'.pc = "replace" /\ job'.p = job.p /\ job'.row = job.row
                /\ job'.mode \in {"bump", "cancel"}
                /\ job'.mode = "cancel" => job.row.cancelTx = 0
      BY <1>3, <1>7, NextWishIs
    <2>2. CASE job'.pc = "rest" BY <2>1, <2>2
    <2>3. CASE job'.pc # "rest"
      BY <1>2, <1>3, <2>1, <2>3 DEF JobFits, PlanApart, Before, After, Same
    <2> QED BY <2>2, <2>3
  <1>8. ASSUME NEW v, NEW displaced \in BOOLEAN, job' = Asked(v, displaced)
        PROVE  job' \in Job /\ (job'.pc = "rest" \/ (job'.p = job.p /\ JobFits' /\ PlanApart'))
    <2>1. /\ job' \in Job
          /\ \/ job' = NextWish(job.row)
             \/ job' = Decided("dropped")
             \/ job'.pc = job.pc /\ job'.p = job.p /\ job'.row = job.row /\ job'.finalized = job.finalized
      BY <1>3, <1>8, AskedIs
    <2>2. "dropped" \in Ended \ {"expired"} /\ TellsTruth(job.p, "dropped") BY DEF Ended, TellsTruth
    <2>3. CASE job' = NextWish(job.row) BY <1>7, <2>3
    <2>4. CASE job' = Decided("dropped") BY <1>5, <2>2, <2>4
    <2>5. CASE job'.pc = job.pc /\ job'.p = job.p /\ job'.row = job.row /\ job'.finalized = job.finalized
      BY <1>6, <2>1, <2>5
    <2> QED BY <2>1, <2>3, <2>4, <2>5
  <1>9. Newest \subseteq Versions BY <1>3 DEF Newest, Job
  <1>10. ASSUME NEW v \in Newest, block[job.p] = v, job.p \in final, job' = Decided(EndsAs(v))
         PROVE  job' \in Job /\ job'.p = job.p /\ JobFits' /\ PlanApart'
    <2>1. EndsAs(v) \in Ended \ {"expired"} /\ TellsTruth(job.p, EndsAs(v))
      BY <1>3, <1>9, <1>10, EndsAsTrue
    <2> QED BY <1>5, <1>10, <2>1
  <1>11. CASE GetTransaction
    <2>1. chain = "bitcoin" BY <1>11 DEF GetTransaction
    <2>2. PICK v \in Newest :
            job' = IF Settled(v) THEN Decided(EndsAs(v))
                   ELSE Asked(v, v \in known[job.p] /\ block[job.p] \notin {0, v})
      BY <1>11 DEF GetTransaction
    <2>3. CASE Settled(v) BY <1>10, <2>1, <2>2, <2>3 DEF Settled
    <2>4. CASE ~Settled(v)
      <3> DEFINE displaced == v \in known[job.p] /\ block[job.p] \notin {0, v}
      <3>1. displaced \in BOOLEAN /\ job' = Asked(v, displaced) BY <2>2, <2>4
      <3> HIDE DEF displaced
      <3> QED BY <1>8, <3>1
    <2> QED BY <2>3, <2>4
  <1>12. CASE GetFinalized
    <2>1. /\ job.pc = "track" /\ chain = "ethereum"
          /\ job' = [job EXCEPT !.pc = "receipt", !.finalized = job.p \in final]
      BY <1>12 DEF GetFinalized
    <2> DEFINE f == job.p \in final
    <2>2. f \in BOOLEAN /\ "receipt" \in Steps BY DEF Steps
    <2>3. /\ job' \in Job /\ job'.pc = "receipt" /\ job'.p = job.p /\ job'.row = job.row
          /\ job'.finalized = f
      <3>1. job' = [job EXCEPT !.pc = "receipt", !.finalized = f] BY <2>1
      <3> HIDE DEF f
      <3> QED BY <1>3, <2>2, <3>1 DEF Job
    <2> QED BY <1>2, <1>3, <2>1, <2>3 DEF JobFits, PlanApart, Before, After, Same
  <1>13. CASE GetReceipt
    <2>1. job.pc = "receipt" /\ chain = "ethereum" /\ (job.finalized => job.p \in final)
      BY <1>3, <1>13 DEF GetReceipt, JobFits
    <2>2. PICK v \in Newest :
            job' = CASE Settled(v) -> Decided(EndsAs(v))
                     [] ~Settled(v) /\ block[job.p] = v -> Rest
                     [] OTHER -> Asked(v, FALSE)
      BY <1>13 DEF GetReceipt
    <2>3. CASE Settled(v) BY <1>10, <2>1, <2>2, <2>3 DEF Settled
    <2>4. CASE ~Settled(v) /\ block[job.p] = v BY <1>4, <2>2, <2>4
    <2>5. CASE ~Settled(v) /\ block[job.p] # v
      <3>1. job' = Asked(v, FALSE) BY <2>2, <2>5
      <3> QED BY <1>8, <3>1
    <2> QED BY <2>3, <2>4, <2>5
  <1>14. CASE GetNothing
    <2>1. PICK v \in Newest : job' = Asked(v, FALSE) BY <1>14 DEF GetNothing
    <2> QED BY <1>8, <2>1
  <1> QED BY <1>11, <1>12, <1>13, <1>14

(* The steps that read and decide. *)
LEMMA LookInv ==
  ASSUME PayoutInv,
         \/ ReadView \/ BuildPlan \/ SignAgain \/ SignClosed \/ SignRefused
         \/ ReplaceRefused
  PROVE  PayoutInv'
  <1>0. Rest \in Job /\ Rest.pc = "rest" BY RestIs
  <1>1. /\ UNCHANGED <<promise, chain, closed, db, batch, node>> /\ fails' \in 0..MaxFails
        /\ job.pc # "rest"
    <2>1. MaxFails \in Nat /\ fails \in 0..MaxFails
      BY PayoutsAssumption DEF PayoutInv, PayoutTypeOK
    <2>2. CASE ReadView BY <2>1, <2>2 DEF ReadView
    <2>3. CASE BuildPlan BY <2>1, <2>3 DEF BuildPlan
    <2>4. CASE SignAgain \/ SignClosed \/ SignRefused
      BY <2>1, <2>4 DEF SignAgain, SignClosed, SignRefused
    <2>5. CASE ReplaceRefused BY <2>1, <2>5 DEF ReplaceRefused
    <2> QED BY <2>2, <2>3, <2>4, <2>5
  <1>2. /\ wish' = wish /\ txs' = txs /\ row' = row /\ chain' = chain /\ known' = known
        /\ block' = block /\ final' = final /\ reverted' = reverted /\ batch' = batch
    BY <1>1 DEF promise, db, node
  <1>3. job \in Job /\ job.p \in Intents /\ JobFits /\ RowFits(job.p, row[job.p]) /\ PlanApart
    BY <1>1 DEF PayoutInv, PayoutTypeOK, JobFits, RowsFit
  <1> SUFFICES job' \in Job /\ (job'.pc = "rest" \/ (job'.p = job.p /\ JobFits' /\ PlanApart'))
    BY <1>1, JobLooks
  <1>4. CASE job' = Rest BY <1>0, <1>4
  <1>5. CASE ReadView /\ job' # Rest
    <2> DEFINE to == PayoutStatusFromView(job.p)
    <2>1. job.pc = "view" /\ job' = [job EXCEPT !.pc = "relay", !.to = to] /\ to # "awaiting_approval"
      BY <1>5 DEF ReadView
    <2>2. to \in {"cancelled", "expired", "approved"} BY <2>1 DEF PayoutStatusFromView
    <2> HIDE DEF to
    <2>3. job' \in Job /\ job'.pc = "relay" /\ job'.p = job.p /\ job'.to = to
      BY <1>3, <2>1, <2>2 DEF Job, Steps, Ended, OPEN_PAYOUT_STATUS
    <2> QED BY <1>2, <1>3, <2>1, <2>2, <2>3 DEF JobFits, PlanApart, Before, After, TakenBack
  <1>6. CASE BuildPlan /\ job' # Rest
    <2>1. job.pc = "plan" BY <1>6 DEF BuildPlan
    <2>2. PICK coins \in Plans(job.p), fee \in FirstFees :
            job' = [job EXCEPT !.pc = "sign", !.coins = coins, !.fee = fee]
      BY <1>6 DEF BuildPlan
    <2>3. coins \in SUBSET Coins BY <1>3, PlansType
    <2>4. fee \in TxFees /\ fee \in Nat BY PayoutsAssumption, TxFeesAssumption
    <2>5. /\ job' \in Job /\ job'.pc = "sign" /\ job'.p = job.p /\ job'.fee = fee
          /\ job'.coins = coins
      BY <1>3, <2>2, <2>3, <2>4 DEF Job, Steps
    <2>6. JobFits' BY <1>2, <1>3, <2>1, <2>4, <2>5 DEF JobFits, Before, After, TakenBack
    <2>7. PlanApart'
      <3> SUFFICES ASSUME chain = "bitcoin", NEW q \in Intents \ {job.p},
                          row[q].status \in OPEN_PAYOUT_STATUS
                   PROVE  coins \cap row[q].coins = {}
        BY <1>2, <2>5 DEF PlanApart
      <3> QED BY <1>3, PlansApart
    <2> QED BY <2>5, <2>6, <2>7
  <1>7. CASE SignAgain /\ job' # Rest
    <2> DEFINE n == Len(txs[job.p])
    <2>1. /\ job.pc = "sign" /\ wish[job.p] # "cancelled" /\ txs[job.p] # <<>>
          /\ job' = [job EXCEPT !.pc = "store", !.k = n]
      BY <1>7 DEF SignAgain
    <2>2. n = 1
      <3>1. txs[job.p] \in Seq(Tx) BY <1>3 DEF PayoutInv, PayoutTypeOK, PromiseType
      <3>2. row[job.p].txids = {} BY <1>3, <2>1 DEF JobFits, Before
      <3>3. Len(txs[job.p]) <= 1 BY <1>3, <3>2 DEF RowFits
      <3>4. Len(txs[job.p]) \in Nat /\ Len(txs[job.p]) # 0 BY <2>1, <3>1
      <3>5. \A m \in Nat : m # 0 /\ m <= 1 => m = 1 OBVIOUS
      <3> QED BY <3>3, <3>4, <3>5
    <2> HIDE DEF n
    <2>3. job' \in Job /\ job'.pc = "store" /\ job'.p = job.p /\ job'.k = n /\ job'.coins = job.coins
      BY <1>3, <2>1, <2>2 DEF Job, Steps
    <2> QED BY <1>2, <1>3, <2>1, <2>2, <2>3 DEF JobFits, PlanApart, Before, After, TakenBack
  <1>8. CASE SignClosed /\ job' # Rest
    <2>1. job.pc = "sign" BY <1>8 DEF SignClosed
    <2>2. PICK to \in {"cancelled", "expired"} : job' = [job EXCEPT !.pc = "close", !.to = to]
      BY <1>8 DEF SignClosed
    <2>3. job' \in Job /\ job'.pc = "close" /\ job'.p = job.p /\ job'.to = to
      BY <1>3, <2>2 DEF Job, Steps, Ended
    <2> QED BY <1>2, <1>3, <2>1, <2>3 DEF JobFits, PlanApart, Before, After, TakenBack
  <1>9. CASE SignRefused \/ ReplaceRefused BY <1>4, <1>9 DEF SignRefused, ReplaceRefused
  <1> QED BY <1>4, <1>5, <1>6, <1>7, <1>8, <1>9

(* The mandate no longer holds: the signer is told, and the row will be closed. *)
LEMMA DropInv ==
  ASSUME PayoutInv, DropMandated
  PROVE  PayoutInv'
  <1>1. /\ job.pc = "plan" /\ (Cancelled(job.p) \/ UNCHANGED promise)
        /\ job' = [job EXCEPT !.pc = "close", !.to = "cancelled"]
        /\ UNCHANGED <<chain, closed, db, batch, node, fails>>
    BY DEF DropMandated
  <1>2. job \in Job /\ job.p \in Intents /\ JobFits BY <1>1 DEF PayoutInv, PayoutTypeOK, JobFits
  <1>3. /\ wish \in [Intents -> {"none", "open", "approved", "cancelled"}] /\ SignerKeeps
        /\ batch \in SUBSET [id : Intents, row : Row] /\ fails \in 0..MaxFails
    BY DEF PayoutInv, PayoutTypeOK, PromiseType
  <1>4. /\ UNCHANGED txs /\ wish' \in [Intents -> {"none", "open", "approved", "cancelled"}]
        /\ \A q \in Intents :
             /\ wish[q] = "cancelled" => wish'[q] = "cancelled"
             /\ wish'[q] = "cancelled" => txs[q] = <<>>
    <2>1. CASE Cancelled(job.p) BY <1>2, <1>3, <2>1 DEF Cancelled, SignerKeeps
    <2>2. CASE UNCHANGED promise BY <1>3, <2>2 DEF SignerKeeps, promise
    <2> QED BY <1>1, <2>1, <2>2
  <1>5. job' \in Job /\ job'.pc = "close" /\ job'.p = job.p /\ job'.to = "cancelled"
    BY <1>1, <1>2 DEF Job, Steps, Ended
  <1>6. row' = row /\ batch' = batch /\ txs' = txs /\ fails' = fails BY <1>1, <1>4 DEF db
  <1>7. JobFits' BY <1>1, <1>2, <1>4, <1>5, <1>6 DEF JobFits, Before, After, TakenBack
  <1>8. BatchFits'
    <2>1. \A b \in batch : b.id \in Intents BY <1>3
    <2> QED BY <1>1, <1>4, <1>5, <1>6, <2>1 DEF PayoutInv, BatchFits, Same, TakenBack
  <1>9. PlanApart' BY <1>5 DEF PlanApart
  <1> QED BY <1>1, <1>3, <1>4, <1>5, <1>6, <1>7, <1>8, <1>9, JobInv

(* Up to the first signature: what the job writes about the payout in hand. *)
LEMMA EarlyWriteInv ==
  ASSUME PayoutInv, Relay \/ CloseRow
  PROVE  PayoutInv'
  <1> DEFINE p == job.p
             r == [row[p] EXCEPT !.status = job.to]
  <1>1. /\ job.pc \in {"relay", "close"} /\ row' = [row EXCEPT ![p] = r]
        /\ UNCHANGED <<promise, chain, closed, pending, lapsed, batch, node, fails>>
        /\ (job.pc = "relay" /\ job' = Enter(p, r)) \/ (job.pc = "close" /\ job' = Rest)
    BY DEF Relay, CloseRow, Put
  <1>2. p \in Intents /\ JobFits /\ row[p] \in Row /\ row \in [Intents -> Row]
    BY <1>1 DEF PayoutInv, PayoutTypeOK, JobFits
  <1>3. job.to \in {"approved", "cancelled", "expired"} /\ (job.pc = "close" => job.to # "approved")
    BY <1>1, <1>2 DEF JobFits
  <1>4. r \in Row /\ r.status = job.to /\ Same(r, row[p])
    BY <1>2, <1>3 DEF Row, Ended, OPEN_PAYOUT_STATUS, Same
  <1> HIDE DEF r
  <1>5. row[p].txids = {} /\ RowFits(p, row[p])
    BY <1>1, <1>2 DEF PayoutInv, JobFits, Before, RowsFit
  <1>6. known[p] = {} BY <1>2, <1>5 DEF PayoutInv, StoredBeforeSent
  <1>7. row[p].coins = {} BY <1>5 DEF RowFits
  <1>8. RowFits(p, r) BY <1>3, <1>4, <1>5 DEF RowFits, Same
  <1>9. TellsTruth(p, r.status) BY <1>3, <1>4, <1>6 DEF TellsTruth
  <1>10. /\ job' \in Job /\ job'.pc \in {"rest", "plan"}
         /\ job'.pc = "plan" => job'.p = p /\ r.status = "approved"
    <2>1. CASE job' = Rest BY <2>1, RestIs
    <2>2. CASE job' = Enter(p, r)
      BY <1>2, <1>3, <1>4, <2>2, EnterIs DEF OPEN_PAYOUT_STATUS
    <2> QED BY <1>1, <2>1, <2>2
  <1>11. job'.pc = "plan" => JobFits'
    <2> SUFFICES ASSUME job'.pc = "plan" PROVE JobFits' OBVIOUS
    <2>1. row'[p] = r BY <1>1, <1>2
    <2>2. job'.p = p /\ r.status = "approved" /\ r.txids = {} BY <1>4, <1>5, <1>10 DEF Same
    <2> HIDE DEF p
    <2> QED BY <1>2, <2>1, <2>2 DEF JobFits, Before, After
  <1>12. r.coins = {} /\ known[p] \subseteq r.txids BY <1>4, <1>6, <1>7 DEF Same
  <1> QED BY <1>1, <1>4, <1>8, <1>9, <1>10, <1>11, <1>12, JobWrites

(* The first signature is stored with its plan, which nobody else has. *)
LEMMA StoreSignedInv ==
  ASSUME PayoutInv, StoreSigned
  PROVE  PayoutInv'
  <1> DEFINE p == job.p
             fee == IF chain = "bitcoin" THEN txs[p][job.k].fee ELSE job.fee
             r == [row[p] EXCEPT !.status = "signed", !.coins = job.coins, !.raw = job.k,
                     !.txids = {job.k}, !.cancelTx = 0, !.fee = fee]
  <1>1. /\ job.pc = "store" /\ row' = [row EXCEPT ![p] = r] /\ job' = Enter(p, r)
        /\ UNCHANGED <<promise, chain, closed, pending, lapsed, batch, node, fails>>
    BY DEF StoreSigned, Put
  <1>2. p \in Intents /\ JobFits /\ row[p] \in Row /\ row \in [Intents -> Row] /\ job \in Job
    BY <1>1 DEF PayoutInv, PayoutTypeOK, JobFits
  <1>3. job.k = 1 /\ txs[p] # <<>> /\ row[p].txids = {} BY <1>1, <1>2 DEF JobFits, Before
  <1>4. txs[p] \in Seq(Tx) BY <1>2 DEF PayoutInv, PayoutTypeOK, PromiseType
  <1>5. 1 \in DOMAIN txs[p] /\ txs[p][1] \in Tx BY <1>3, <1>4
  <1>6. txs[p][1].mode = "first" BY <1>2, <1>3 DEF PayoutInv, SignerKeeps
  <1>7. fee \in Nat BY <1>2, <1>3, <1>5, TxFeesAssumption DEF Tx, Job
  <1> HIDE DEF fee
  <1>8. /\ r \in Row /\ r.status = "signed" /\ r.coins = job.coins /\ r.raw = 1 /\ r.txids = {1}
        /\ r.cancelTx = 0
    <2>1. job.coins \in SUBSET Coins BY <1>2 DEF Job
    <2>2. {job.k} \in SUBSET Versions /\ job.k \in Nat BY <1>3 DEF Versions
    <2>3. row[p] \in Row BY <1>2
    <2>4. r \in Row BY <1>7, <2>1, <2>2, <2>3 DEF Row, OPEN_PAYOUT_STATUS
    <2> QED BY <1>3, <2>3, <2>4 DEF Row
  <1> HIDE DEF r
  <1>9. RowFits(p, r) BY <1>5, <1>6, <1>8 DEF RowFits
  <1>10. known[p] \subseteq r.txids BY <1>2, <1>3 DEF PayoutInv, StoredBeforeSent
  <1>11. TellsTruth(p, r.status) BY <1>8 DEF TellsTruth
  <1>12. chain = "bitcoin" =>
           \A q \in Intents \ {p} : row[q].status \in OPEN_PAYOUT_STATUS => r.coins \cap row[q].coins = {}
    BY <1>1, <1>8 DEF PayoutInv, PlanApart
  <1>13. job' \in Job /\ job'.pc = "send" /\ job'.p = p /\ job'.row = r
    BY <1>1, <1>2, <1>8, EnterIs
  <1>14. JobFits'
    <2>1. row'[p] = r BY <1>1, <1>2
    <2> HIDE DEF p
    <2> QED BY <1>2, <1>8, <1>13, <2>1 DEF JobFits, Before, After, Same
  <1> QED BY <1>1, <1>8, <1>9, <1>10, <1>11, <1>12, <1>13, <1>14, JobWrites

(* What a row in hand holds once it is signed. *)
LEMMA InHand ==
  ASSUME PayoutInv, job.pc \in After
  PROVE  /\ job.p \in Intents /\ JobFits /\ row[job.p] \in Row /\ row \in [Intents -> Row]
         /\ job \in Job /\ job.pc # "rest" /\ RowFits(job.p, row[job.p])
         /\ row[job.p].status \in {"signed", "broadcast"} /\ Same(job.row, row[job.p])
         /\ known[job.p] \subseteq row[job.p].txids /\ row[job.p].raw \in row[job.p].txids
         /\ chain = "bitcoin" =>
              \A q \in Intents \ {job.p} :
                row[q].status \in OPEN_PAYOUT_STATUS => row[job.p].coins \cap row[q].coins = {}
  <1>1. job.p \in Intents BY DEF PayoutInv, JobFits, After
  <1>2. /\ job.p \in Intents /\ JobFits /\ row[job.p] \in Row /\ row \in [Intents -> Row]
        /\ job \in Job /\ job.pc # "rest" /\ RowFits(job.p, row[job.p])
        /\ row[job.p].status \in {"signed", "broadcast"} /\ Same(job.row, row[job.p])
        /\ known[job.p] \subseteq row[job.p].txids
    BY <1>1 DEF PayoutInv, PayoutTypeOK, JobFits, RowsFit, StoredBeforeSent, After
  <1>3. row[job.p].raw \in row[job.p].txids BY <1>2 DEF RowFits
  <1>4. row[job.p].status \in OPEN_PAYOUT_STATUS BY <1>2 DEF OPEN_PAYOUT_STATUS
  <1>5. ASSUME chain = "bitcoin", NEW q \in Intents \ {job.p}, row[q].status \in OPEN_PAYOUT_STATUS
        PROVE  row[job.p].coins \cap row[q].coins = {}
    <2>1. PlansDisjoint BY <1>5 DEF PayoutInv
    <2> QED BY <1>1, <1>4, <1>5, <2>1 DEF PlansDisjoint
  <1> QED BY <1>2, <1>3, <1>5

(* A signed row goes on: sent, ended, or a wish beyond the cap is dropped. *)
LEMMA LateWriteInv ==
  ASSUME PayoutInv, StoreSent \/ Finish \/ ReplaceOverCap
  PROVE  PayoutInv'
  <1>1. job.pc \in After BY DEF StoreSent, Finish, ReplaceOverCap, After
  <1>2. /\ job.p \in Intents /\ JobFits /\ row[job.p] \in Row /\ row \in [Intents -> Row]
        /\ job \in Job /\ job.pc # "rest" /\ RowFits(job.p, row[job.p])
        /\ row[job.p].status \in {"signed", "broadcast"} /\ Same(job.row, row[job.p])
        /\ known[job.p] \subseteq row[job.p].txids /\ row[job.p].raw \in row[job.p].txids
        /\ chain = "bitcoin" =>
             \A q \in Intents \ {job.p} :
               row[q].status \in OPEN_PAYOUT_STATUS => row[job.p].coins \cap row[q].coins = {}
    BY <1>1, InHand
  <1>3. Rest \in Job /\ Rest.pc = "rest" BY RestIs
  <1>4. ASSUME NEW r \in Row, Same(r, row[job.p]), row' = [row EXCEPT ![job.p] = r],
               UNCHANGED <<promise, chain, closed, pending, lapsed, batch, node, fails>>,
               r.status \in {"signed", "broadcast"} \cup Ended, TellsTruth(job.p, r.status),
               job' \in Job, job'.pc \notin {"sign", "store"},
               job'.pc = "rest" \/ (job'.p = job.p /\ JobFits')
        PROVE  PayoutInv'
    <2>1. r.coins = row[job.p].coins /\ r.txids = row[job.p].txids BY <1>4 DEF Same
    <2>2. RowFits(job.p, r) BY <1>2, <1>4 DEF RowFits, Same, Ended
    <2> QED BY <1>2, <1>4, <2>1, <2>2, JobWrites
  <1>5. CASE StoreSent
    <2> DEFINE r == [row[job.p] EXCEPT !.status = "broadcast"]
    <2>1. /\ row' = [row EXCEPT ![job.p] = r] /\ job' \in {Enter(job.p, r), Rest}
          /\ UNCHANGED <<promise, chain, closed, pending, lapsed, batch, node, fails>>
      BY <1>5 DEF StoreSent, Put
    <2>2. r \in Row /\ r.status = "broadcast" /\ Same(r, row[job.p])
      BY <1>2 DEF Row, OPEN_PAYOUT_STATUS, Same
    <2> HIDE DEF r
    <2>3. TellsTruth(job.p, r.status) BY <2>2 DEF TellsTruth
    <2>4. CASE job' = Rest BY <1>3, <1>4, <2>1, <2>2, <2>3, <2>4
    <2>5. CASE job' = Enter(job.p, r)
      <3>1. job' \in Job /\ job'.pc = "track" /\ job'.p = job.p /\ job'.row = r
        BY <1>2, <2>2, <2>5, EnterIs
      <3>2. row'[job.p] = r BY <1>2, <2>1
      <3>3. JobFits' BY <1>2, <2>2, <3>1, <3>2 DEF JobFits, Before, After, Same
      <3> QED BY <1>4, <2>1, <2>2, <2>3, <3>1, <3>3
    <2> QED BY <2>1, <2>4, <2>5
  <1>6. CASE Finish
    <2> DEFINE r == [row[job.p] EXCEPT !.status = job.to, !.bumpRequested = FALSE]
    <2>1. /\ row' = [row EXCEPT ![job.p] = r] /\ job' = Rest /\ job.pc = "finish"
          /\ UNCHANGED <<promise, chain, closed, pending, lapsed, batch, node, fails>>
      BY <1>6 DEF Finish, Put
    <2>2. job.to \in Ended /\ TellsTruth(job.p, job.to) BY <1>2, <2>1 DEF JobFits
    <2>3. r \in Row /\ r.status = job.to /\ Same(r, row[job.p])
      BY <1>2, <2>2 DEF Row, Same
    <2> HIDE DEF r
    <2> QED BY <1>3, <1>4, <2>1, <2>2, <2>3
  <1>7. CASE ReplaceOverCap
    <2> DEFINE r == [row[job.p] EXCEPT !.bumpRequested = FALSE, !.cancelRequested = FALSE]
    <2>1. /\ row' = [row EXCEPT ![job.p] = r] /\ job' = Rest
          /\ UNCHANGED <<promise, chain, closed, pending, lapsed, batch, node, fails>>
      BY <1>7 DEF ReplaceOverCap, Put
    <2>2. r \in Row /\ r.status = row[job.p].status /\ Same(r, row[job.p]) BY <1>2 DEF Row, Same
    <2> HIDE DEF r
    <2>3. TellsTruth(job.p, r.status) BY <1>2, <2>2 DEF TellsTruth
    <2> QED BY <1>2, <1>3, <1>4, <2>1, <2>2, <2>3
  <1> QED BY <1>5, <1>6, <1>7

(* A replacement is stored beside the versions it replaces; the row still
   tells which of them is the cancellation. *)
LEMMA StoreReplacedInv ==
  ASSUME PayoutInv, StoreReplaced
  PROVE  PayoutInv'
  <1> DEFINE p == job.p
             c == IF job.mode = "cancel" THEN job.k ELSE 0
             r == [row[p] EXCEPT !.coins = job.row.coins, !.fee = job.fee, !.raw = job.k,
                     !.txids = job.row.txids \cup {job.k}, !.bumpRequested = FALSE, !.cancelTx = c]
  <1>1. /\ job.pc = "restore" /\ row' = [row EXCEPT ![p] = r]
        /\ job' = [At("send", p, r) EXCEPT !.mode = job.mode]
        /\ UNCHANGED <<promise, chain, closed, pending, lapsed, batch, node, fails>>
    BY DEF StoreReplaced, Put
  <1>2. /\ p \in Intents /\ JobFits /\ row[p] \in Row /\ row \in [Intents -> Row]
        /\ job \in Job /\ RowFits(p, row[p])
        /\ row[p].status \in {"signed", "broadcast"} /\ Same(job.row, row[p])
        /\ known[p] \subseteq row[p].txids /\ row[p].raw \in row[p].txids
        /\ chain = "bitcoin" =>
             \A q \in Intents \ {p} :
               row[q].status \in OPEN_PAYOUT_STATUS => row[p].coins \cap row[q].coins = {}
    BY <1>1, InHand DEF After
  <1>3. /\ job.k = Len(txs[p]) /\ txs[p][Len(txs[p])].mode = job.mode /\ job.mode \in {"bump", "cancel"}
        /\ job.mode = "cancel" => row[p].cancelTx = 0
    BY <1>1, <1>2 DEF JobFits, LastTx
  <1>4. txs[p] \in Seq(Tx) BY <1>2 DEF PayoutInv, PayoutTypeOK, PromiseType
  <1>5. /\ row[p].txids \subseteq DOMAIN txs[p] /\ row[p].txids # {} /\ DOMAIN txs[p] = 1..Len(txs[p])
        /\ Len(txs[p]) \in Nat
    BY <1>2, <1>4 DEF RowFits
  <1>6. job.k \in DOMAIN txs[p] /\ job.k \in Versions BY <1>3, <1>5 DEF Versions
  <1>7. c \in Nat BY <1>6 DEF Versions
  <1> HIDE DEF c
  <1>8. /\ r \in Row /\ r.status = row[p].status /\ r.coins = row[p].coins /\ r.raw = job.k
        /\ r.txids = row[p].txids \cup {job.k} /\ r.cancelTx = c
    BY <1>2, <1>6, <1>7 DEF Row, Job, Versions, Same
  <1> HIDE DEF r
  <1>9. \A k \in r.txids : txs[p][k].mode = "cancel" <=> k = r.cancelTx
    <2> SUFFICES ASSUME NEW k \in r.txids PROVE txs[p][k].mode = "cancel" <=> k = c BY <1>8
    <2>1. CASE k = job.k BY <1>3, <1>6, <2>1 DEF c, Versions
    <2>2. CASE k # job.k
      <3>1. /\ k \in row[p].txids /\ k \in DOMAIN txs[p] /\ k < job.k /\ k # 0
            /\ txs[p][k].mode = "cancel" <=> k = row[p].cancelTx
        BY <1>2, <1>3, <1>5, <1>8, <2>2 DEF RowFits
      <3>2. CASE job.mode = "cancel" BY <1>3, <2>2, <3>1, <3>2 DEF c
      <3>3. CASE job.mode = "bump"
        <4>1. txs[p][job.k].mode # "cancel" BY <1>3, <3>3
        <4>2. txs[p][k].mode # "cancel" BY <1>2, <1>6, <3>1, <4>1 DEF PayoutInv, SignerKeeps
        <4> QED BY <3>1, <3>3, <4>2 DEF c
      <3> QED BY <1>3, <3>2, <3>3
    <2> QED BY <2>1, <2>2
  <1>10. RowFits(p, r) BY <1>2, <1>5, <1>6, <1>8, <1>9 DEF RowFits
  <1>11. TellsTruth(p, r.status) BY <1>2, <1>8 DEF TellsTruth
  <1>12. job' \in Job /\ job'.pc = "send" /\ job'.p = p /\ job'.row = r
    <2>1. r.txids \in SUBSET Versions BY <1>8 DEF Row
    <2> QED BY <1>1, <1>2, <1>8, <2>1 DEF At, Job, Steps
  <1>13. JobFits'
    <2>1. row'[p] = r BY <1>1, <1>2
    <2> HIDE DEF p
    <2> QED BY <1>2, <1>8, <1>12, <2>1 DEF JobFits, Before, After, Same
  <1>14. known[p] \subseteq r.txids BY <1>2, <1>8
  <1> QED BY <1>1, <1>2, <1>8, <1>10, <1>11, <1>12, <1>13, <1>14, JobWrites

(* The first signature: nothing of this payout was sent before. *)
LEMMA SignFirstInv ==
  ASSUME PayoutInv, SignFirst
  PROVE  PayoutInv'
  <1> DEFINE p == job.p
             coins == Expected(job.coins)
             tx == [mode |-> "first", coins |-> coins, fee |-> job.fee]
  <1>1. /\ job.pc = "sign" /\ coins \in SUBSET Coins /\ wish[p] = "approved" /\ txs[p] = <<>>
        /\ txs' = [txs EXCEPT ![p] = <<tx>>] /\ UNCHANGED wish
        /\ job' = [job EXCEPT !.pc = "store", !.coins = coins, !.k = 1]
        /\ UNCHANGED <<chain, closed, db, batch, node, fails>>
    BY DEF SignFirst, SignedFirst
  <1>2. p \in Intents /\ JobFits /\ job \in Job /\ job.fee \in TxFees
    BY <1>1 DEF PayoutInv, PayoutTypeOK, JobFits
  <1>3. chain = "bitcoin" => coins = job.coins BY DEF Expected
  <1> HIDE DEF coins
  <1>4. tx \in Tx /\ tx.mode = "first" BY <1>1, <1>2 DEF Tx
  <1> HIDE DEF tx
  <1>5. /\ <<tx>> \in Seq(Tx) /\ <<tx>> # <<>> /\ Len(<<tx>>) = 1 /\ <<tx>>[1] = tx
        /\ DOMAIN <<tx>> = {1} /\ DOMAIN txs[p] = {}
    BY <1>1, <1>4
  <1>6. txs'[p] = <<tx>>
    BY <1>1, <1>2 DEF PayoutInv, PayoutTypeOK, PromiseType
  <1>7. job' \in Job /\ job'.pc = "store" /\ job'.p = p /\ job'.k = 1 /\ job'.coins = coins
    BY <1>1, <1>2 DEF Job, Steps
  <1>8. row' = row /\ chain' = chain /\ wish' = wish BY <1>1 DEF db
  <1>9. JobFits'
    <2>1. row[p].txids = {} /\ row[p].status = "approved"
      BY <1>1, <1>2 DEF JobFits, Before, TakenBack
    <2>2. txs'[p] # <<>> BY <1>5, <1>6
    <2> HIDE DEF p
    <2> QED BY <1>2, <1>7, <1>8, <2>1, <2>2 DEF JobFits, Before, After
  <1>10. PlanApart' BY <1>1, <1>3, <1>7, <1>8 DEF PayoutInv, PlanApart
  <1>11. PICK s \in Seq(Tx) : s = <<tx>> BY <1>5
  <1>12. /\ job.pc # "rest" /\ wish[job.p] # "cancelled" /\ txs' = [txs EXCEPT ![job.p] = s]
         /\ \A k \in DOMAIN txs[job.p] : k \in DOMAIN s /\ s[k] = txs[job.p][k]
         /\ \A i, j \in DOMAIN s : i < j /\ s[i].mode = "cancel" => s[j].mode = "cancel"
         /\ job'.p = job.p /\ s # <<>> /\ Len(s) <= 1 /\ s[1].mode = "first"
    BY <1>1, <1>4, <1>5, <1>7, <1>11
  <1> HIDE DEF p
  <1> QED BY <1>1, <1>7, <1>9, <1>10, <1>11, <1>12, JobSigns

(* A replacement: the cancellation stays the last word. *)
LEMMA ReplaceSignInv ==
  ASSUME PayoutInv, ReplaceSign
  PROVE  PayoutInv'
  <1> DEFINE p == job.p
             t == txs[p]
             fee == BumpFee(job.row.fee)
             tx == [mode |-> job.mode, coins |-> job.row.coins, fee |-> fee]
             longer == Append(t, tx)
  <1>1. /\ job.pc = "replace" /\ fee <= FeeCap /\ t # <<>>
        /\ t[Len(t)].mode = "cancel" => tx.mode = "cancel"
        /\ txs' = [txs EXCEPT ![p] = longer] /\ UNCHANGED wish
        /\ job' = [job EXCEPT !.pc = "restore", !.fee = fee, !.k = Len(t) + 1]
        /\ UNCHANGED <<chain, closed, db, batch, node, fails>>
    BY DEF ReplaceSign, Replaced, ReplaceTx, LastTx
  <1>2. /\ p \in Intents /\ JobFits /\ job \in Job /\ row[p].raw \in row[p].txids
        /\ row[p].status \in {"signed", "broadcast"} /\ Same(job.row, row[p])
    BY <1>1, InHand DEF After
  <1>3. job.mode \in {"bump", "cancel"} /\ (job.mode = "cancel" => row[p].cancelTx = 0)
    BY <1>1, <1>2 DEF JobFits
  <1>4. job.row \in Row /\ job.row.coins \in SUBSET Coins /\ job.row.fee \in Nat
    BY <1>2 DEF Job, Row
  <1>5. fee \in Nat BY <1>4, BumpFeeType
  <1>6. fee \in TxFees
    <2>1. FeeCap \in Nat /\ 0..FeeCap \subseteq TxFees BY PayoutsAssumption
    <2> QED BY <1>1, <1>5, <2>1
  <1> HIDE DEF fee
  <1>7. tx \in Tx /\ tx.mode = job.mode BY <1>3, <1>4, <1>6 DEF Tx
  <1> HIDE DEF tx
  <1>8. t \in Seq(Tx) /\ t[1].mode = "first" /\ Len(t) > 0
        /\ \A i, j \in DOMAIN t : i < j /\ t[i].mode = "cancel" => t[j].mode = "cancel"
    <2>1. t \in Seq(Tx) BY <1>2 DEF PayoutInv, PayoutTypeOK, PromiseType
    <2>2. Len(t) > 0 BY <1>1, <2>1
    <2> QED BY <1>1, <1>2, <2>1, <2>2 DEF PayoutInv, SignerKeeps
  <1>9. txs'[p] = longer BY <1>1, <1>2 DEF PayoutInv, PayoutTypeOK, PromiseType
  <1> HIDE DEF t
  <1>10. /\ longer \in Seq(Tx) /\ Len(longer) = Len(t) + 1 /\ Len(t) \in Nat /\ longer # <<>> /\ longer[Len(t) + 1] = tx
         /\ DOMAIN t = 1..Len(t) /\ DOMAIN longer = 1..(Len(t) + 1)
         /\ \A k \in DOMAIN t : k \in DOMAIN longer /\ longer[k] = t[k]
    BY <1>7, <1>8
  <1> HIDE DEF longer
  <1>11. longer[1].mode = "first"
    <2>1. 1 \in DOMAIN t BY <1>8, <1>10
    <2> QED BY <1>8, <1>10, <2>1
  <1>12. ASSUME NEW i \in DOMAIN longer, NEW j \in DOMAIN longer, i < j, longer[i].mode = "cancel"
         PROVE  longer[j].mode = "cancel"
    <2>1. i \in DOMAIN t /\ t[i].mode = "cancel" BY <1>10, <1>12
    <2>2. CASE j \in DOMAIN t BY <1>8, <1>10, <1>12, <2>1, <2>2
    <2>3. CASE j \notin DOMAIN t
      <3>1. j = Len(t) + 1 /\ Len(t) \in DOMAIN t BY <1>8, <1>10, <2>3
      <3>2. t[Len(t)].mode = "cancel"
        <4>1. CASE i = Len(t) BY <2>1, <4>1
        <4>2. CASE i < Len(t) BY <1>8, <2>1, <3>1, <4>2
        <4> QED BY <1>10, <2>1, <4>1, <4>2
      <3> QED BY <1>1, <1>10, <3>1, <3>2
    <2> QED BY <2>2, <2>3
  <1>13. /\ job' \in Job /\ job'.pc = "restore" /\ job'.p = p /\ job'.k = Len(t) + 1
         /\ job'.mode = job.mode /\ job'.row = job.row
    <2>1. Len(t) + 1 \in Nat BY <1>10
    <2> QED BY <1>1, <1>2, <1>5, <2>1 DEF Job, Steps
  <1>14. row' = row BY <1>1 DEF db
  <1>15. JobFits'
    <2>1. txs'[p][Len(txs'[p])].mode = job.mode /\ Len(txs'[p]) = Len(t) + 1
      BY <1>7, <1>9, <1>10
    <2> HIDE DEF p
    <2> QED BY <1>2, <1>3, <1>13, <1>14, <2>1 DEF JobFits, Before, After, Same, LastTx
  <1>16. PlanApart' BY <1>13 DEF PlanApart
  <1>17. wish[job.p] # "cancelled"
    BY <1>1, <1>2 DEF PayoutInv, SignerKeeps, t
  <1>18. /\ job.pc # "rest" /\ txs' = [txs EXCEPT ![job.p] = longer] /\ row[job.p].txids # {}
         /\ \A k \in DOMAIN txs[job.p] : k \in DOMAIN longer /\ longer[k] = txs[job.p][k]
         /\ job'.p = job.p
    BY <1>1, <1>2, <1>10, <1>13 DEF t
  <1>19. PICK new \in Seq(Tx) : new = longer BY <1>10
  <1>20. /\ new # <<>> /\ txs' = [txs EXCEPT ![job.p] = new] /\ new[1].mode = "first"
         /\ \A k \in DOMAIN txs[job.p] : k \in DOMAIN new /\ new[k] = txs[job.p][k]
         /\ \A i, j \in DOMAIN new : i < j /\ new[i].mode = "cancel" => new[j].mode = "cancel"
    BY <1>10, <1>11, <1>12, <1>18, <1>19
  <1> HIDE DEF p
  <1> QED BY <1>1, <1>13, <1>15, <1>16, <1>17, <1>18, <1>20, JobSigns

(* Every step keeps what the payouts rest on. *)
LEMMA PayoutStep == PayoutInv /\ [Next]_vars => PayoutInv'
  <1> SUFFICES ASSUME PayoutInv, [Next]_vars PROVE PayoutInv' OBVIOUS
  <1>1. CASE UNCHANGED vars
    <2>1. UNCHANGED <<txs, chain, row, work, node, fails>> /\ UNCHANGED <<wish, pending, lapsed, closed>>
      BY <1>1 DEF vars, promise, db
    <2>2. /\ wish \in [Intents -> {"none", "open", "approved", "cancelled"}]
          /\ pending \in [Intents -> SUBSET Marks] /\ lapsed \in SUBSET Intents
          /\ closed \in SUBSET Intents
      BY DEF PayoutInv, PayoutTypeOK, PromiseType
    <2> QED BY <2>1, <2>2, WishInv DEF PayoutInv, SignerKeeps
  <1>2. CASE JobStep
    <2>1. CASE StartRun BY <2>1, RunInv
    <2>2. CASE ProcessPayout BY <2>2, ProcessInv
    <2>3. CASE ReadView \/ BuildPlan \/ SignAgain \/ SignClosed \/ SignRefused \/ ReplaceRefused
      BY <2>3, LookInv
    <2>12. CASE GetTransaction \/ GetFinalized \/ GetReceipt BY <2>12, TrackInv
    <2>4. CASE Relay \/ CloseRow BY <2>4, EarlyWriteInv
    <2>5. CASE DropMandated BY <2>5, DropInv
    <2>6. CASE SignFirst BY <2>6, SignFirstInv
    <2>7. CASE StoreSigned BY <2>7, StoreSignedInv
    <2>8. CASE Send BY <2>8, SendInv
    <2>9. CASE StoreSent \/ Finish \/ ReplaceOverCap BY <2>9, LateWriteInv
    <2>10. CASE ReplaceSign BY <2>10, ReplaceSignInv
    <2>11. CASE StoreReplaced BY <2>11, StoreReplacedInv
    <2> QED BY <1>2, <2>1, <2>2, <2>3, <2>4, <2>5, <2>6, <2>7, <2>8, <2>9, <2>10, <2>11, <2>12
        DEF JobStep
  <1>3. CASE Trouble BY <1>3, RunInv, TrackInv DEF Trouble
  <1>4. CASE UserStep
    <2>1. PICK p \in Intents :
            \/ CreateIntent(p) \/ InsertRow(p) \/ Withdraw(p) \/ TapApprove(p)
            \/ AskCancel(p) \/ AskBump(p) \/ Lapse(p)
            \/ \E mark \in Marks : UserWrite(p, mark)
      BY <1>4 DEF UserStep
    <2>2. CASE InsertRow(p) BY <2>2, InsertRowInv
    <2>3. CASE \E mark \in Marks : UserWrite(p, mark) BY <2>3, UserWriteInv
    <2> QED BY <2>1, <2>2, <2>3, AskInv
  <1>5. CASE World
    <2>1. PICK p \in Intents :
            \/ RunOut(p) \/ Finalize(p) \/ Reorg(p) \/ Compete(p)
            \/ \E k \in DOMAIN txs[p] : Mine(p, k)
      BY <1>5 DEF World
    <2>2. CASE RunOut(p) BY <2>2, AskInv
    <2> QED BY <2>1, <2>2, WorldInv
  <1> QED BY <1>1, <1>2, <1>3, <1>4, <1>5 DEF Next

-----------------------------------------------------------------------------
(* A signed payout moves forward                                             *)

Forward(a, b) == Rank(a) <= Rank(b) /\ (a \in Ended => b = a)

(* The moves of a row that is signed, or whose payout is. *)
LEMMA ForwardIs ==
  /\ \A a \in Row : Forward(a.status, a.status)
  /\ Forward("none", "awaiting_approval")
  /\ \A b \in {"approved", "cancelled", "expired"} : Forward("awaiting_approval", b)
  /\ \A b \in {"cancelled", "expired", "signed"} : Forward("approved", b)
  /\ \A a \in {"signed", "broadcast"}, b \in {"broadcast"} \cup Ended : Forward(a, b)
  <1>1. \A a \in Row : Rank(a.status) \in 0..5 BY DEF Rank
  <1>2. /\ Rank("none") = 0 /\ Rank("awaiting_approval") = 1 /\ Rank("approved") = 2
        /\ Rank("signed") = 3 /\ Rank("broadcast") = 4
    BY DEF Rank
  <1>3. \A b \in Ended : Rank(b) = 5 BY DEF Rank, Ended
  <1>4. {"none", "awaiting_approval", "approved", "signed", "broadcast"} \cap Ended = {} BY DEF Ended
  <1>5. {"cancelled", "expired"} \subseteq Ended BY DEF Ended
  <1>6. \A a \in Row : Forward(a.status, a.status) BY <1>1 DEF Forward
  <1>7. Forward("none", "awaiting_approval") BY <1>2, <1>4 DEF Forward
  <1>8. ASSUME NEW b \in {"approved", "cancelled", "expired"} PROVE Forward("awaiting_approval", b)
    <2>1. Rank(b) \in {2, 5} BY <1>2, <1>3, <1>5
    <2> QED BY <1>2, <1>4, <2>1 DEF Forward
  <1>9. ASSUME NEW b \in {"cancelled", "expired", "signed"} PROVE Forward("approved", b)
    <2>1. Rank(b) \in {3, 5} BY <1>2, <1>3, <1>5
    <2> QED BY <1>2, <1>4, <2>1 DEF Forward
  <1>10. ASSUME NEW a \in {"signed", "broadcast"}, NEW b \in {"broadcast"} \cup Ended PROVE Forward(a, b)
    <2>1. Rank(b) \in {4, 5} BY <1>2, <1>3
    <2>2. Rank(a) \in {3, 4} BY <1>2
    <2> QED BY <1>4, <2>1, <2>2 DEF Forward
  <1> QED BY <1>6, <1>7, <1>8, <1>9, <1>10

(* A write of the status of one row. *)
LEMMA StatusWrite ==
  ASSUME PayoutInv, NEW p \in Intents, NEW s, row' = [row EXCEPT ![p] = s],
         NEW q \in Intents, q # p \/ Forward(row[p].status, s.status)
  PROVE  Forward(row[q].status, row'[q].status)
  <1>1. row \in [Intents -> Row] BY DEF PayoutInv, PayoutTypeOK
  <1>2. CASE q = p BY <1>1, <1>2
  <1>3. CASE q # p
    <2>1. row'[q] = row[q] /\ row[q] \in Row BY <1>1, <1>3
    <2> QED BY <2>1, ForwardIs
  <1> QED BY <1>2, <1>3

(* What the job writes moves a signed payout forward. *)
LEMMA JobForward ==
  ASSUME PayoutInv, NEW q \in Intents, txs[q] # <<>>,
         Relay \/ CloseRow \/ StoreSigned \/ StoreSent \/ Finish \/ ReplaceOverCap \/ StoreReplaced
  PROVE  Forward(row[q].status, row'[q].status)
  <1> DEFINE p == job.p
  <1>1. job.pc \in {"relay", "close", "store", "sent", "finish", "replace", "restore"}
    BY DEF Relay, CloseRow, StoreSigned, StoreSent, Finish, ReplaceOverCap, StoreReplaced
  <1>2. p \in Intents /\ JobFits /\ row[p] \in Row BY <1>1 DEF PayoutInv, PayoutTypeOK, JobFits
  <1>3. q = p => ~TakenBack(p) BY DEF PayoutInv, SignerKeeps, TakenBack
  <1>4. CASE Relay
    <2>1. PICK s : s = [row[p] EXCEPT !.status = job.to] OBVIOUS
    <2>2. row' = [row EXCEPT ![p] = s] /\ job.pc = "relay" BY <1>4, <2>1 DEF Relay, Put
    <2>3. s.status = job.to BY <1>2, <2>1 DEF Row
    <2>4. /\ q = p => row[p].status = "awaiting_approval"
          /\ job.to \in {"approved", "cancelled", "expired"}
      BY <1>2, <1>3, <2>2 DEF JobFits, Before
    <2>5. q # p \/ Forward(row[p].status, s.status) BY <2>3, <2>4, ForwardIs
    <2> QED BY <1>2, <2>2, <2>5, StatusWrite
  <1>5. CASE CloseRow
    <2>1. PICK s : s = [row[p] EXCEPT !.status = job.to] OBVIOUS
    <2>2. row' = [row EXCEPT ![p] = s] /\ job.pc = "close" BY <1>5, <2>1 DEF CloseRow, Put
    <2>3. s.status = job.to BY <1>2, <2>1 DEF Row
    <2>4. (q = p => row[p].status = "approved") /\ job.to \in {"cancelled", "expired"}
      BY <1>2, <1>3, <2>2 DEF JobFits, Before
    <2>5. q # p \/ Forward(row[p].status, s.status) BY <2>3, <2>4, ForwardIs
    <2> QED BY <1>2, <2>2, <2>5, StatusWrite
  <1>6. CASE StoreSigned
    <2>1. PICK s : s = [row[p] EXCEPT !.status = "signed", !.coins = job.coins, !.raw = job.k,
                          !.txids = {job.k}, !.cancelTx = 0,
                          !.fee = IF chain = "bitcoin" THEN txs[p][job.k].fee ELSE job.fee]
      OBVIOUS
    <2>2. row' = [row EXCEPT ![p] = s] /\ job.pc = "store" BY <1>6, <2>1 DEF StoreSigned, Put
    <2>3. s.status = "signed" BY <1>2, <2>1 DEF Row
    <2>4. q = p => row[p].status = "approved" BY <1>2, <1>3, <2>2 DEF JobFits, Before
    <2>5. q # p \/ Forward(row[p].status, s.status) BY <2>3, <2>4, ForwardIs
    <2> QED BY <1>2, <2>2, <2>5, StatusWrite
  <1>7. CASE StoreSent
    <2>1. PICK s : s = [row[p] EXCEPT !.status = "broadcast"] OBVIOUS
    <2>2. row' = [row EXCEPT ![p] = s] /\ job.pc = "sent" BY <1>7, <2>1 DEF StoreSent, Put
    <2>3. s.status = "broadcast" BY <1>2, <2>1 DEF Row
    <2>4. row[p].status \in {"signed", "broadcast"} BY <1>2, <2>2 DEF JobFits, After
    <2>5. Forward(row[p].status, s.status) BY <2>3, <2>4, ForwardIs
    <2> QED BY <1>2, <2>2, <2>5, StatusWrite
  <1>8. CASE Finish
    <2>1. PICK s : s = [row[p] EXCEPT !.status = job.to, !.bumpRequested = FALSE] OBVIOUS
    <2>2. row' = [row EXCEPT ![p] = s] /\ job.pc = "finish" BY <1>8, <2>1 DEF Finish, Put
    <2>3. s.status = job.to BY <1>2, <2>1 DEF Row
    <2>4. row[p].status \in {"signed", "broadcast"} /\ job.to \in Ended
      BY <1>2, <2>2 DEF JobFits, After
    <2>5. Forward(row[p].status, s.status) BY <2>3, <2>4, ForwardIs
    <2> QED BY <1>2, <2>2, <2>5, StatusWrite
  <1>9. CASE ReplaceOverCap
    <2>1. PICK s : s = [row[p] EXCEPT !.bumpRequested = FALSE, !.cancelRequested = FALSE] OBVIOUS
    <2>2. row' = [row EXCEPT ![p] = s] BY <1>9, <2>1 DEF ReplaceOverCap, Put
    <2>3. s.status = row[p].status BY <1>2, <2>1 DEF Row
    <2>4. Forward(row[p].status, s.status) BY <1>2, <2>3, ForwardIs
    <2> QED BY <1>2, <2>2, <2>4, StatusWrite
  <1>10. CASE StoreReplaced
    <2>1. PICK s : s = [row[p] EXCEPT !.coins = job.row.coins, !.fee = job.fee, !.raw = job.k,
                          !.txids = job.row.txids \cup {job.k}, !.bumpRequested = FALSE,
                          !.cancelTx = IF job.mode = "cancel" THEN job.k ELSE 0]
      OBVIOUS
    <2>2. row' = [row EXCEPT ![p] = s] BY <1>10, <2>1 DEF StoreReplaced, Put
    <2>3. s.status = row[p].status BY <1>2, <2>1 DEF Row
    <2>4. Forward(row[p].status, s.status) BY <1>2, <2>3, ForwardIs
    <2> QED BY <1>2, <2>2, <2>4, StatusWrite
  <1> QED BY <1>4, <1>5, <1>6, <1>7, <1>8, <1>9, <1>10

(* Every step moves a signed payout forward, or leaves it. *)
LEMMA ForwardStep ==
  ASSUME PayoutInv, [Next]_vars, NEW q \in Intents, txs[q] # <<>>
  PROVE  Forward(row[q].status, row'[q].status)
  <1>0. row[q] \in Row BY DEF PayoutInv, PayoutTypeOK
  <1>1. CASE row' = row BY <1>0, <1>1, ForwardIs
  <1>2. CASE JobStep
    <2>1. CASE StartRun \/ ProcessPayout \/ ReadView \/ DropMandated \/ BuildPlan \/ SignAgain
               \/ SignFirst \/ SignClosed \/ SignRefused
      BY <1>1, <2>1 DEF StartRun, ProcessPayout, ReadView, DropMandated, BuildPlan, SignAgain,
                        SignFirst, SignClosed, SignRefused, db
    <2>2. CASE Send \/ GetTransaction \/ GetFinalized \/ GetReceipt \/ ReplaceSign \/ ReplaceRefused
      BY <1>1, <2>2 DEF Send, GetTransaction, GetFinalized, GetReceipt, ReplaceSign, ReplaceRefused, db
    <2> QED BY <1>2, <2>1, <2>2, JobForward DEF JobStep
  <1>3. CASE Trouble BY <1>1, <1>3 DEF Trouble, StepFails, Crash, Hold, GetNothing, db
  <1>4. CASE UserStep
    <2>1. PICK p \in Intents :
            \/ CreateIntent(p) \/ InsertRow(p) \/ Withdraw(p) \/ TapApprove(p)
            \/ AskCancel(p) \/ AskBump(p) \/ Lapse(p)
            \/ \E mark \in Marks : UserWrite(p, mark)
      BY <1>4 DEF UserStep
    <2>2. CASE CreateIntent(p) \/ Withdraw(p) \/ TapApprove(p) \/ AskCancel(p) \/ AskBump(p) \/ Lapse(p)
      BY <1>1, <2>2 DEF CreateIntent, Withdraw, TapApprove, AskCancel, AskBump, Lapse, db
    <2>3. row[p] \in Row BY DEF PayoutInv, PayoutTypeOK
    <2>4. CASE InsertRow(p)
      <3>1. PICK s : s = [row[p] EXCEPT !.status = "awaiting_approval"] OBVIOUS
      <3>2. row' = [row EXCEPT ![p] = s] /\ row[p].status = "none" BY <2>4, <3>1 DEF InsertRow
      <3>3. s.status = "awaiting_approval" BY <2>3, <3>1 DEF Row
      <3>4. Forward(row[p].status, s.status) BY <3>2, <3>3, ForwardIs
      <3> QED BY <3>2, <3>4, StatusWrite
    <2>5. CASE \E mark \in Marks : UserWrite(p, mark)
      <3>1. PICK mark \in Marks : UserWrite(p, mark) BY <2>5
      <3>2. mark = "cancelled" => q # p
        BY <3>1 DEF UserWrite, PayoutInv, SignerKeeps
      <3>3. CASE mark = "cancelled"
        <4>1. PICK s : s = [row[p] EXCEPT !.status = "cancelled"] OBVIOUS
        <4>2. row' = [row EXCEPT ![p] = s] BY <3>1, <3>3, <4>1 DEF UserWrite
        <4> QED BY <3>2, <3>3, <4>2, StatusWrite
      <3>4. CASE mark = "cancelRequested"
        <4>1. PICK s : s = [row[p] EXCEPT !.cancelRequested = TRUE] OBVIOUS
        <4>2. row' = [row EXCEPT ![p] = s] BY <3>1, <3>4, <4>1 DEF UserWrite
        <4>3. s.status = row[p].status BY <2>3, <4>1 DEF Row
        <4> QED BY <2>3, <4>2, <4>3, StatusWrite, ForwardIs
      <3>5. CASE mark = "bumpRequested"
        <4>1. PICK s : s = [row[p] EXCEPT !.bumpRequested = TRUE] OBVIOUS
        <4>2. row' = [row EXCEPT ![p] = s] BY <3>1, <3>5, <4>1 DEF UserWrite
        <4>3. s.status = row[p].status BY <2>3, <4>1 DEF Row
        <4> QED BY <2>3, <4>2, <4>3, StatusWrite, ForwardIs
      <3> QED BY <3>3, <3>4, <3>5 DEF Marks
    <2> QED BY <2>1, <2>2, <2>4, <2>5
  <1>5. CASE World
    <2>1. PICK p \in Intents :
            \/ RunOut(p) \/ Finalize(p) \/ Reorg(p) \/ Compete(p)
            \/ \E k \in DOMAIN txs[p] : Mine(p, k)
      BY <1>5 DEF World
    <2> QED BY <1>1, <2>1 DEF RunOut, Finalize, Reorg, Compete, Mine, db
  <1>6. CASE UNCHANGED vars BY <1>1, <1>6 DEF vars, db
  <1> QED BY <1>2, <1>3, <1>4, <1>5, <1>6 DEF Next

-----------------------------------------------------------------------------
(* Theorems                                                                  *)

(* The inductive invariant holds in every state. *)
LEMMA PayoutInvAlways == Spec => []PayoutInv
  BY PayoutsInit, PayoutStep, PTL DEF Spec

(* Rows, the job's memory and what it sends to the signer and the node keep
   their types whatever users, job, node and crashes do. *)
THEOREM PayoutTypeCorrect == Spec => []PayoutTypeOK
  <1>1. PayoutInv => PayoutTypeOK BY DEF PayoutInv
  <1> QED BY <1>1, PayoutInvAlways, PTL

(* Whatever the node has seen of a payout is recorded in its row first
   (update before broadcast in signFirst and replace). *)
THEOREM StoredBeforeSentAlways == Spec => []StoredBeforeSent
  <1>1. PayoutInv => StoredBeforeSent BY DEF PayoutInv
  <1> QED BY <1>1, PayoutInvAlways, PTL

(* What the app shows at the end is what happened to the money (track, finish,
   cancelPayout, signFirst). *)
THEOREM StatusTellsTruthAlways == Spec => []StatusTellsTruth
  <1>1. PayoutInv => StatusTellsTruth BY DEF PayoutInv
  <1> QED BY <1>1, PayoutInvAlways, PTL

(* On bitcoin two payouts on their way never plan the same output
   (excludedOutpoints, the job works on one payout at a time). *)
THEOREM PlansDisjointOnBitcoin == Spec => [](chain = "bitcoin" => PlansDisjoint)
  <1>1. PayoutInv => (chain = "bitcoin" => PlansDisjoint) BY DEF PayoutInv
  <1> QED BY <1>1, PayoutInvAlways, PTL

(* Once a payout is signed its row only moves forward, although `update` and the
   user actions write by id with whatever they read before. *)
THEOREM SignedMovesForwardAlways == Spec => SignedMovesForward
  <1>1. ASSUME PayoutInv, [Next]_vars
        PROVE  [\A p \in Intents : txs[p] # <<>> =>
                  /\ Rank(row[p].status) <= Rank(row'[p].status)
                  /\ row[p].status \in Ended => row'[p].status = row[p].status]_vars
    BY <1>1, ForwardStep DEF Forward
  <1> QED BY <1>1, PayoutInvAlways, PTL DEF Spec, SignedMovesForward
=============================================================================
