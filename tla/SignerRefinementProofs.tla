----------------------- MODULE SignerRefinementProofs -----------------------
(* The signer implements SignerPromise: initial states map to initial states
   and every step of Signer to a step of the promise or to none, for all
   values of the constants. *)
EXTENDS SignerRefinement, SignerRulesProofs

(* The state of a payout, without CASE. *)
LEMMA WishIs ==
  ASSUME NEW i \in IntentIds
  PROVE  /\ intents[i].kind # "payout" => WishOf(i) = "none"
         /\ intents[i].kind = "payout" /\ i \in cancelled => WishOf(i) = "cancelled"
         /\ intents[i].kind = "payout" /\ i \notin cancelled =>
              WishOf(i) = IF times[i].approvedAt = NoTime THEN "open" ELSE "approved"
  BY DEF WishOf

(* The wish of a payout after a step, from what the step leaves. *)
LEMMA WishIsNext ==
  ASSUME NEW i \in IntentIds
  PROVE  /\ intents'[i].kind # "payout" => WishOf(i)' = "none"
         /\ intents'[i].kind = "payout" /\ i \in cancelled' => WishOf(i)' = "cancelled"
         /\ intents'[i].kind = "payout" /\ i \notin cancelled' =>
              WishOf(i)' = IF times'[i].approvedAt = NoTime THEN "open" ELSE "approved"
  BY DEF WishOf

(* The transactions of a payout form a sequence, empty while it is unsigned. *)
LEMMA TxsSeq ==
  ASSUME NEW i \in IntentIds, signatures[i] \in Seq(SignatureType)
  PROVE  /\ DOMAIN TxsOf(i) = DOMAIN signatures[i]
         /\ TxsOf(i) \in Seq({TxOf(i, s) : s \in SignatureType})
         /\ Len(TxsOf(i)) = Len(signatures[i])
         /\ \A x \in 1..Len(signatures[i]) : TxsOf(i)[x] = TxOf(i, signatures[i][x])
         /\ TxsOf(i) = <<>> <=> signatures[i] = <<>>
  <1> DEFINE n == Len(signatures[i])
  <1>1. n \in Nat /\ DOMAIN signatures[i] = 1..n /\ (n = 0 <=> signatures[i] = <<>>)
        /\ \A x \in 1..n : signatures[i][x] \in SignatureType
    OBVIOUS
  <1>2. TxsOf(i) \in [1..n -> {TxOf(i, s) : s \in SignatureType}] BY <1>1 DEF TxsOf
  <1> HIDE DEF n
  <1>3. TxsOf(i) \in Seq({TxOf(i, s) : s \in SignatureType}) BY <1>1, <1>2
  <1>4. DOMAIN TxsOf(i) = 1..n BY <1>2
  <1>5. Len(TxsOf(i)) = n BY <1>1, <1>3, <1>4
  <1>6. TxsOf(i) = <<>> <=> n = 0 BY <1>3, <1>5
  <1> QED BY <1>1, <1>3, <1>4, <1>5, <1>6 DEF TxsOf, n

-----------------------------------------------------------------------------
(* From what a step does to WishOf and TxsOf to the step of the promise.    *)

(* One payout changes its state, no transaction is added. *)
LEMMA WishMoves ==
  ASSUME NEW i \in IntentIds,
         \A j \in IntentIds : TxsOf(j)' = TxsOf(j),
         \A j \in IntentIds : j # i => WishOf(j)' = WishOf(j),
         \/ WishOf(i)' = WishOf(i)
         \/ WishOf(i) = "none" /\ WishOf(i)' \in {"open", "approved"}
         \/ WishOf(i) = "open" /\ WishOf(i)' = "approved"
         \/ /\ WishOf(i) \in {"open", "approved"} /\ TxsOf(i) = <<>>
            /\ WishOf(i)' = "cancelled"
  PROVE  [P!PromiseNext]_(P!promise)
  <1> DEFINE wish == [j \in IntentIds |-> WishOf(j)]
             txs == [j \in IntentIds |-> TxsOf(j)]
  <1>1. txs' = txs OBVIOUS
  <1>2. wish' = [wish EXCEPT ![i] = WishOf(i)'] OBVIOUS
  <1>3. wish[i] = WishOf(i) /\ txs[i] = TxsOf(i) OBVIOUS
  <1>4. CASE WishOf(i)' = WishOf(i)
    <2>1. wish' = wish BY <1>4
    <2> QED BY <1>1, <2>1 DEF P!promise
  <1>5. CASE WishOf(i) = "none" /\ WishOf(i)' \in {"open", "approved"}
    <2>1. P!Open(i, WishOf(i)') BY <1>1, <1>2, <1>3, <1>5 DEF P!Open
    <2> QED BY <1>5, <2>1 DEF P!PromiseNext
  <1>6. CASE WishOf(i) = "open" /\ WishOf(i)' = "approved"
    <2>1. P!Approved(i) BY <1>1, <1>2, <1>3, <1>6 DEF P!Approved
    <2> QED BY <2>1 DEF P!PromiseNext
  <1>7. CASE /\ WishOf(i) \in {"open", "approved"} /\ TxsOf(i) = <<>>
             /\ WishOf(i)' = "cancelled"
    <2>1. P!Cancelled(i) BY <1>1, <1>2, <1>3, <1>7 DEF P!Cancelled
    <2> QED BY <2>1 DEF P!PromiseNext
  <1> QED BY <1>4, <1>5, <1>6, <1>7

(* One payout gets a transaction: its first, on coins of its own, or one that
   replaces those before. *)
LEMMA TxsMoves ==
  ASSUME NEW i \in IntentIds, NEW tx \in P!Tx,
         \A j \in IntentIds : WishOf(j)' = WishOf(j),
         \A j \in IntentIds : j # i => TxsOf(j)' = TxsOf(j),
         \/ /\ WishOf(i) = "approved" /\ TxsOf(i) = <<>> /\ TxsOf(i)' = <<tx>>
            /\ tx.mode = "first" /\ tx.coins # {}
            /\ \A j \in IntentIds \ {i} : \A x \in DOMAIN TxsOf(j) :
                 tx.coins \cap TxsOf(j)[x].coins = {}
         \/ /\ TxsOf(i) # <<>> /\ TxsOf(i)' = Append(TxsOf(i), tx)
            /\ tx.mode \in {"bump", "cancel"}
            /\ TxsOf(i)[Len(TxsOf(i))].mode = "cancel" => tx.mode = "cancel"
            /\ tx.coins = TxsOf(i)[1].coins /\ tx.fee > TxsOf(i)[Len(TxsOf(i))].fee
  PROVE  [P!PromiseNext]_(P!promise)
  <1> DEFINE wish == [j \in IntentIds |-> WishOf(j)]
             txs == [j \in IntentIds |-> TxsOf(j)]
  <1>1. wish' = wish OBVIOUS
  <1>2. txs' = [txs EXCEPT ![i] = TxsOf(i)'] OBVIOUS
  <1>3. wish[i] = WishOf(i) /\ \A j \in IntentIds : txs[j] = TxsOf(j) OBVIOUS
  <1>4. CASE TxsOf(i) = <<>>
    <2>1. /\ WishOf(i) = "approved" /\ TxsOf(i)' = <<tx>>
          /\ tx.mode = "first" /\ tx.coins # {}
          /\ \A j \in IntentIds \ {i} : \A x \in DOMAIN TxsOf(j) :
               tx.coins \cap TxsOf(j)[x].coins = {}
      BY <1>4
    <2>2. \A j \in IntentIds \ {i} : tx.coins \cap P!CoinsOf(j) = {} BY <2>1 DEF P!CoinsOf
    <2>3. P!SignedFirst(i, tx)
      BY <1>1, <1>2, <1>3, <1>4, <2>1, <2>2 DEF P!SignedFirst
    <2> QED BY <2>3 DEF P!PromiseNext
  <1>5. CASE TxsOf(i) # <<>>
    <2>1. P!Replaced(i, tx)
      BY <1>1, <1>2, <1>3, <1>5 DEF P!Replaced, P!LastTx, P!FirstTx
    <2> QED BY <2>1 DEF P!PromiseNext
  <1> QED BY <1>4, <1>5

-----------------------------------------------------------------------------
(* The steps of the signer                                                  *)

(* only what exists is cancelled: intent.cancel of an unknown id is refused *)
CancelledCreated == \A i \in cancelled : Created(i)

PromiseInv == RulesInv /\ CancelledCreated

(* Transactions depend on signatures and on the account of a signed payout. *)
LEMMA TxsFrame ==
  ASSUME SigInv, signatures' = signatures,
         \A j \in IntentIds : Created(j) => intents'[j] = intents[j]
  PROVE  \A j \in IntentIds : TxsOf(j)' = TxsOf(j)
  <1> TAKE j \in IntentIds
  <1>1. CASE signatures[j] = <<>>
    <2>1. DOMAIN signatures[j] = {} BY <1>1
    <2> QED BY <2>1 DEF TxsOf
  <1>2. CASE signatures[j] # <<>>
    <2>1. intents'[j] = intents[j] BY <1>2, SignedCreated DEF SigInv
    <2> QED BY <2>1 DEF TxsOf, TxOf, CoinsUsed
  <1> QED BY <1>1, <1>2

(* The commands on intents: create, approve, cancel, veto. *)
LEMMA WishPromise ==
  ASSUME PromiseInv, WishStep
  PROVE  CancelledCreated' /\ [P!PromiseNext]_(P!promise)
  <1>1. SigInv /\ TypeOK /\ PayoutsNamed BY DEF PromiseInv, RulesInv, SigInv
  <1>2. signatures' = signatures /\ \A j \in IntentIds : Created(j) => intents'[j] = intents[j]
    BY <1>1, WishFrame DEF signed
  <1>3. \A j \in IntentIds : TxsOf(j)' = TxsOf(j) BY <1>1, <1>2, TxsFrame
  <1>4. cancelled \subseteq IntentIds /\ \A j \in cancelled : Created(j)'
    BY <1>1, <1>2 DEF TypeOK, PromiseInv, CancelledCreated, Created
  <1>5. ASSUME NEW i \in IntentIds, NEW n \in Networks, NEW d \in Destinations,
               NEW p \in Persons, CreateWhitelist(i, n, d, p)
        PROVE  CancelledCreated' /\ [P!PromiseNext]_(P!promise)
    <2>1. /\ intents[i].kind = "none" /\ intents'[i].kind = "whitelist"
          /\ UNCHANGED <<times, cancelled>>
          /\ \A j \in IntentIds : j # i => intents'[j] = intents[j]
      BY <1>1, <1>5 DEF CreateWhitelist, Fresh, Created, TypeOK
    <2>2. WishOf(i) = "none" /\ WishOf(i)' = "none" BY <2>1, WishIs, WishIsNext
    <2>3. \A j \in IntentIds : j # i => WishOf(j)' = WishOf(j) BY <2>1 DEF WishOf
    <2>4. CancelledCreated' BY <1>4, <2>1 DEF CancelledCreated
    <2> QED BY <1>3, <2>2, <2>3, <2>4, WishMoves
  <1>6. ASSUME NEW i \in IntentIds, NEW a \in Accounts, NEW s \in Assets, NEW v \in Amounts,
               NEW f \in Fees, NEW d \in Destinations, NEW p \in Persons,
               NEW m \in Mandates \cup {None}, CreatePayout(i, a, s, v, f, d, p, m)
        PROVE  CancelledCreated' /\ [P!PromiseNext]_(P!promise)
    <2>1. /\ ~Created(i) /\ intents'[i].kind = "payout" /\ UNCHANGED cancelled
          /\ \A j \in IntentIds : j # i => intents'[j] = intents[j] /\ times'[j] = times[j]
      BY <1>1, <1>6, NewPayout
    <2>2. intents[i].kind # "payout" /\ i \notin cancelled
      BY <2>1 DEF Created, PromiseInv, CancelledCreated
    <2>3. WishOf(i) = "none" /\ WishOf(i)' \in {"open", "approved"}
      BY <2>1, <2>2, WishIs, WishIsNext
    <2>4. \A j \in IntentIds : j # i => WishOf(j)' = WishOf(j) BY <2>1 DEF WishOf
    <2>5. CancelledCreated' BY <1>4, <2>1 DEF CancelledCreated
    <2> QED BY <1>3, <2>3, <2>4, <2>5, WishMoves
  <1>7. ASSUME NEW i \in IntentIds, NEW k \in Keys, Approve(i, k)
        PROVE  CancelledCreated' /\ [P!PromiseNext]_(P!promise)
    <2>1. /\ i \notin cancelled /\ UNCHANGED <<intents, cancelled>>
          /\ \A j \in IntentIds : j # i => times'[j] = times[j]
      BY <1>1, <1>7 DEF Approve, TypeOK
    <2>2. times[i].approvedAt # NoTime => times'[i] = times[i] BY <1>1, WishLasting
    <2>3. WishOf(i)' = WishOf(i) \/ (WishOf(i) = "open" /\ WishOf(i)' = "approved")
      BY <2>1, <2>2, WishIs, WishIsNext
    <2>4. \A j \in IntentIds : j # i => WishOf(j)' = WishOf(j) BY <2>1 DEF WishOf
    <2>5. CancelledCreated' BY <1>4, <2>1 DEF CancelledCreated
    <2> QED BY <1>3, <2>3, <2>4, <2>5, WishMoves
  <1>8. ASSUME NEW i \in IntentIds, IntentCancel(i)
        PROVE  CancelledCreated' /\ [P!PromiseNext]_(P!promise)
    <2>1. /\ Created(i) /\ i \notin cancelled /\ signatures[i] = <<>>
          /\ cancelled' = cancelled \cup {i} /\ UNCHANGED <<intents, times>>
      BY <1>8 DEF IntentCancel
    <2>2. TxsOf(i) = <<>> BY <1>1, <2>1, TxsSeq DEF TypeOK
    <2>3. \A j \in IntentIds : j # i => WishOf(j)' = WishOf(j) BY <2>1 DEF WishOf
    <2>4. CancelledCreated' BY <1>4, <2>1 DEF CancelledCreated, Created
    <2>5. CASE WishOf(i)' = WishOf(i) BY <1>3, <2>3, <2>4, <2>5, WishMoves
    <2>6. CASE WishOf(i) \in {"open", "approved"} /\ WishOf(i)' = "cancelled"
      BY <1>3, <2>2, <2>3, <2>4, <2>6, WishMoves
    <2>7. \/ WishOf(i)' = WishOf(i)
          \/ WishOf(i) \in {"open", "approved"} /\ WishOf(i)' = "cancelled"
      BY <2>1, WishIs, WishIsNext
    <2> QED BY <2>5, <2>6, <2>7
  <1>9. ASSUME NEW i \in IntentIds, WhitelistVeto(i)
        PROVE  CancelledCreated' /\ [P!PromiseNext]_(P!promise)
    <2>1. UNCHANGED <<intents, times, cancelled>> BY <1>9 DEF WhitelistVeto
    <2>2. \A j \in IntentIds : WishOf(j)' = WishOf(j) BY <2>1 DEF WishOf
    <2>3. CancelledCreated' BY <1>4, <2>1 DEF CancelledCreated
    <2> QED BY <1>3, <2>2, <2>3, WishMoves
  <1> QED BY <1>5, <1>6, <1>7, <1>8, <1>9 DEF WishStep

(* After a step, too, two payouts have no coin in common, whatever their chains. *)
LEMMA CoinsApart ==
  ASSUME SigInv', UNCHANGED intents, NEW i \in IntentIds, NEW j \in IntentIds, i # j,
         NEW x \in DOMAIN signatures'[i], NEW y \in DOMAIN signatures'[j]
  PROVE  CoinsUsed(i, signatures'[i][x]) \cap CoinsUsed(j, signatures'[j][y]) = {}
  <1>1. SignedShape' /\ NoncesApart' BY DEF SigInv
  <1>2. signatures'[i][x].inputs \cap signatures'[j][y].inputs = {} BY <1>1 DEF SignedShape
  <1>3. Signed(i)' /\ Signed(j)' BY DEF Signed
  <1>4. /\ signatures'[i][x].nonce = First(i)'.nonce
        /\ signatures'[j][y].nonce = First(j)'.nonce
    BY <1>1 DEF SignedShape
  <1>5. intents[i].account = intents[j].account /\ signatures'[i][x].nonce # NoNonce
          => signatures'[i][x].nonce # signatures'[j][y].nonce
    BY <1>1, <1>3, <1>4 DEF NoncesApart
  <1> QED BY <1>2, <1>5 DEF CoinsUsed

(* The handler `sign`, on either chain and in every mode. *)
LEMMA SignPromise ==
  ASSUME PromiseInv, SigInv', NEW i \in IntentIds, NEW sig, SignStep(i, sig)
  PROVE  CancelledCreated' /\ [P!PromiseNext]_(P!promise)
  <1> DEFINE n == Len(signatures[i])
             tx == TxOf(i, sig)
  <1>1. /\ SigInv /\ TypeOK /\ PayoutsNamed /\ SignedShape /\ TimesHonest /\ TypeOK'
    BY DEF PromiseInv, RulesInv, SigInv
  <1>2. /\ \A j \in IntentIds : j # i => signatures'[j] = signatures[j]
        /\ n \in Nat /\ DOMAIN signatures[i] = 1..n /\ DOMAIN signatures'[i] = 1..(n + 1)
        /\ \A x \in 1..n : signatures'[i][x] = signatures[i][x]
        /\ signatures'[i][n + 1] = sig
        /\ signatures[i] = <<>> <=> n = 0
    BY <1>1, AppendSig
  <1>3. /\ intents[i].kind = "payout" /\ i \notin cancelled /\ sig \in SignatureType
        /\ sig.fee \in Fees /\ sig.nonce \in Nonces \cup {NoNonce} /\ OnChain(i, sig)
        /\ UNCHANGED <<intents, times, cancelled>>
    BY DEF SignStep, Record, wishes
  <1>4. CancelledCreated' BY <1>3 DEF PromiseInv, CancelledCreated, Created
  <1>5. \A j \in IntentIds : WishOf(j)' = WishOf(j) BY <1>3 DEF WishOf
  <1>6. \A j \in IntentIds : j # i => TxsOf(j)' = TxsOf(j)
    BY <1>2, <1>3 DEF TxsOf, TxOf, CoinsUsed
  <1>7. tx \in P!Tx /\ tx.mode = sig.mode /\ tx.fee = sig.fee /\ tx.coins = CoinsUsed(i, sig)
    <2>1. intents[i].account \in Accounts BY <1>1, <1>3 DEF PayoutsNamed
    <2>2. sig.inputs \subseteq Outpoints /\ sig.mode \in {"first", "bump", "cancel"}
      BY <1>3 DEF SignatureType, Modes
    <2>3. CoinsUsed(i, sig) \subseteq ({"output"} \X Outpoints)
                                        \cup ({"nonce"} \X (Accounts \X Nonces))
      BY <1>3, <2>1, <2>2 DEF CoinsUsed
    <2> QED BY <1>3, <2>2, <2>3 DEF TxOf, P!Tx
  <1>8. tx.coins # {}
    <2>1. CASE sig.inputs # {}
      <3>1. PICK o \in sig.inputs : TRUE BY <2>1
      <3>2. <<"output", o>> \in CoinsUsed(i, sig) BY <3>1 DEF CoinsUsed
      <3> QED BY <1>7, <3>2
    <2>2. CASE sig.nonce # NoNonce
      <3>1. <<"nonce", <<intents[i].account, sig.nonce>>>> \in CoinsUsed(i, sig)
        BY <2>2 DEF CoinsUsed
      <3> QED BY <1>7, <3>1
    <2> QED BY <1>3, <2>1, <2>2 DEF OnChain
  <1>9. /\ TxsOf(i) \in Seq({TxOf(i, s) : s \in SignatureType}) /\ Len(TxsOf(i)) = n
        /\ \A x \in 1..n : TxsOf(i)[x] = TxOf(i, signatures[i][x])
        /\ TxsOf(i) = <<>> <=> n = 0
    BY <1>1, <1>2, TxsSeq DEF TypeOK
  <1>10. TxsOf(i)' = Append(TxsOf(i), tx)
    <2> DEFINE S == {TxOf(i, s) : s \in SignatureType}
    <2>1. TxsOf(i)' = [x \in 1..(n + 1) |-> TxOf(i, signatures'[i][x])]
      BY <1>2, <1>3 DEF TxsOf, TxOf, CoinsUsed
    <2>2. \A x \in 1..(n + 1) : signatures'[i][x] \in SignatureType
      BY <1>1, <1>2, <1>3 DEF TypeOK
    <2>3. TxsOf(i)' \in [1..(n + 1) -> S] BY <2>1, <2>2
    <2>4. tx \in S BY <1>3
    <2> HIDE DEF n, tx, S
    <2>5. /\ Append(TxsOf(i), tx) \in Seq(S) /\ Len(Append(TxsOf(i), tx)) = n + 1
          /\ \A x \in 1..n : Append(TxsOf(i), tx)[x] = TxsOf(i)[x]
          /\ Append(TxsOf(i), tx)[n + 1] = tx
      BY <1>2, <1>9, <2>4 DEF S
    <2>6. Append(TxsOf(i), tx) \in [1..(n + 1) -> S]
      <3> DEFINE a == Append(TxsOf(i), tx)
      <3>1. a \in Seq(S) /\ Len(a) = n + 1 BY <2>5
      <3> HIDE DEF a
      <3>2. a \in [1..Len(a) -> S] BY <3>1
      <3> QED BY <3>1, <3>2 DEF a
    <2>7. \A x \in 1..(n + 1) : TxsOf(i)'[x] = Append(TxsOf(i), tx)[x]
      BY <1>2, <1>9, <2>1, <2>5 DEF tx
    <2> DEFINE a == Append(TxsOf(i), tx)
               b == TxsOf(i)'
    <2>8. \A x \in 1..(n + 1) : b[x] = a[x] BY <2>7
    <2>9. a \in [1..(n + 1) -> S] /\ b \in [1..(n + 1) -> S] BY <2>3, <2>6
    <2> HIDE DEF a, b
    <2>10. a = [x \in 1..(n + 1) |-> a[x]] /\ b = [x \in 1..(n + 1) |-> b[x]] BY <2>9
    <2>11. b = a BY <2>8, <2>10, Zenon
    <2> QED BY <2>11 DEF a, b
  <1>11. CASE n = 0
    <2>1. /\ sig.mode = "first" /\ FirstAllowed(i) /\ TxsOf(i) = <<>>
      BY <1>2, <1>9, <1>11 DEF SignStep
    <2>2. WishOf(i) = "approved"
      BY <1>1, <1>3, <2>1, WishIs DEF FirstAllowed, InWindow, TimesHonest
    <2>3. TxsOf(i)' = <<tx>> BY <1>10, <2>1
    <2>4. ASSUME NEW j \in IntentIds \ {i}, NEW x \in DOMAIN TxsOf(j)
          PROVE  tx.coins \cap TxsOf(j)[x].coins = {}
      <3>1. x \in DOMAIN signatures'[j] /\ TxsOf(j)[x] = TxOf(j, signatures[j][x])
        BY <1>2 DEF TxsOf
      <3>2. n + 1 \in DOMAIN signatures'[i] BY <1>2
      <3>3. CoinsUsed(i, signatures'[i][n + 1]) \cap CoinsUsed(j, signatures'[j][x]) = {}
        BY <1>3, <3>1, <3>2, CoinsApart
      <3> QED BY <1>2, <1>7, <3>1, <3>3 DEF TxOf
    <2> HIDE DEF tx
    <2> QED BY <1>4, <1>5, <1>6, <1>7, <1>8, <2>1, <2>2, <2>3, <2>4, TxsMoves
  <1>12. CASE n # 0
    <2>1. 1 \in 1..n /\ n \in 1..n BY <1>2, <1>12
    <2>2. TxsOf(i) # <<>> /\ signatures[i] # <<>> BY <1>2, <1>9, <1>12
    <2>3. /\ sig.mode # "first" /\ (Last(i).mode = "cancel" => sig.mode = "cancel")
          /\ sig.fee > Last(i).fee
      BY <2>2 DEF SignStep
    <2>4. tx.mode \in {"bump", "cancel"} BY <1>3, <1>7, <2>3 DEF SignatureType, Modes
    <2>5. TxsOf(i)[Len(TxsOf(i))] = TxOf(i, Last(i)) BY <1>9, <2>1 DEF Last
    <2>6. /\ TxsOf(i)[Len(TxsOf(i))].mode = "cancel" => tx.mode = "cancel"
          /\ tx.fee > TxsOf(i)[Len(TxsOf(i))].fee
      BY <1>7, <2>3, <2>5 DEF TxOf
    <2>7. sig.inputs = First(i).inputs /\ sig.nonce = First(i).nonce
      <3>1. SignedShape' BY DEF SigInv
      <3>2. n + 1 \in DOMAIN signatures'[i] BY <1>2
      <3>3. /\ signatures'[i][n + 1].inputs = First(i)'.inputs
            /\ signatures'[i][n + 1].nonce = First(i)'.nonce
        BY <3>1, <3>2 DEF SignedShape
      <3> QED BY <1>2, <2>1, <3>3 DEF First
    <2>8. tx.coins = TxsOf(i)[1].coins
      <3>1. TxsOf(i)[1] = TxOf(i, First(i)) BY <1>9, <2>1 DEF First
      <3>2. CoinsUsed(i, sig) = CoinsUsed(i, First(i)) BY <2>7 DEF CoinsUsed
      <3> QED BY <1>7, <3>1, <3>2 DEF TxOf
    <2> HIDE DEF tx
    <2> QED BY <1>4, <1>5, <1>6, <1>7, <1>10, <2>2, <2>4, <2>6, <2>8, TxsMoves
  <1> QED BY <1>11, <1>12

(* Every step of the signer is a step of the promise, or none. *)
LEMMA PromiseStep ==
  ASSUME PromiseInv, SigInv', [Next]_vars
  PROVE  CancelledCreated' /\ [P!PromiseNext]_(P!promise)
  <1>1. SigInv /\ TypeOK /\ PayoutsNamed BY DEF PromiseInv, RulesInv, SigInv
  <1>2. ASSUME UNCHANGED <<wishes, signed>>
        PROVE  CancelledCreated' /\ [P!PromiseNext]_(P!promise)
    <2>1. \A j \in IntentIds : WishOf(j)' = WishOf(j) /\ TxsOf(j)' = TxsOf(j)
      BY <1>2 DEF wishes, signed, WishOf, TxsOf, TxOf, CoinsUsed
    <2>2. UNCHANGED P!promise BY <2>1 DEF P!promise
    <2>3. CancelledCreated' BY <1>2 DEF PromiseInv, CancelledCreated, Created, wishes
    <2> QED BY <2>2, <2>3
  <1>3. CASE RegistryStep \/ MandateStep BY <1>2, <1>3, OtherFrame
  <1>4. CASE WishStep BY <1>4, WishPromise
  <1>5. ASSUME NEW i \in IntentIds, NEW sig, SignStep(i, sig)
        PROVE  CancelledCreated' /\ [P!PromiseNext]_(P!promise)
    BY <1>5, SignPromise
  <1>6. CASE UNCHANGED vars BY <1>2, <1>6 DEF vars
  <1> QED BY <1>1, <1>3, <1>4, <1>5, <1>6, StepCases

(* Whatever the quorums, policies, mandates, freezes and clocks do, the signer
   keeps its promise: a cancel is final, a payout has one set of coins, and
   nobody else uses them (intentCancel, signBtc, signEth). *)
THEOREM SignerKeepsPromise == Spec => KeepsPromise
  <1>1. ASSUME Init PROVE P!PromiseInit /\ CancelledCreated
    <2>1. \A i \in IntentIds : WishOf(i) = "none" BY <1>1, WishIs DEF Init
    <2>2. \A i \in IntentIds : signatures[i] = <<>> /\ signatures[i] \in Seq(SignatureType)
      BY <1>1 DEF Init
    <2>3. \A i \in IntentIds : TxsOf(i) = <<>> BY <2>2, TxsSeq
    <2> QED BY <1>1, <2>1, <2>3 DEF P!PromiseInit, Init, CancelledCreated
  <1>2. RulesInv /\ CancelledCreated /\ RulesInv' /\ [Next]_vars =>
          CancelledCreated' /\ [P!PromiseNext]_(P!promise)
    BY PromiseStep DEF PromiseInv, RulesInv
  <1>3. Spec => P!PromiseInit /\ [][P!PromiseNext]_(P!promise)
    BY <1>1, <1>2, RulesInvariant, PTL DEF Spec
  <1> QED BY <1>3 DEF KeepsPromise
=============================================================================
