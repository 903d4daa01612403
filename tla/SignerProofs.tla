---------------------------- MODULE SignerProofs ----------------------------
(* Theorems about Signer, for every value of its constants. *)
EXTENDS Signer, TLAPS

(* Every constant has the type its declaration promises (the facts the step
   lemmas need, without the rest of the assumptions). *)
LEMMA Constants ==
  /\ ChainOf \in [Networks -> Chains]
  /\ MaxIntents \in Nat /\ MaxTime \in Nat /\ MaxVersion \in Nat
  /\ Policies \subseteq PolicyType /\ DefaultPolicy \in PolicyType
  /\ MandateTerms \subseteq TermsType
  /\ Amounts \subseteq Nat /\ Fees \subseteq Nat /\ Nonces \subseteq Nat
  /\ PAYOUT_TTL \in Nat /\ WHITELIST_TTL \in Nat /\ ENROL_TTL \in Nat
  /\ None \notin Networks /\ None \notin Accounts /\ None \notin Mandates
  BY ConstantsAssumption

(* `settle` returns the times of an intent in their type. *)
LEMMA SettleType ==
  ASSUME TypeOK, NEW kind, NEW old \in TimesType, NEW reached
  PROVE  Settle(kind, old, reached) \in TimesType
  <1>1. now \in Int /\ policy.cooldown \in Int /\ policy.soloDelay \in Int /\ policy.window \in Int
    BY Constants DEF TypeOK, Time, PolicyType
  <1>2. SignableAt \in Int /\ ActiveFrom \in Int
    BY <1>1 DEF SignableAt, ActiveFrom
  <1>u. SignableAt + policy.window \in Int
    BY <1>1, <1>2
  <1>3. [old EXCEPT !.approvedAt = now, !.signableAt = SignableAt,
                    !.signUntil = SignableAt + policy.window] \in TimesType
    BY <1>1, <1>2, <1>u DEF TimesType, TimeOpt
  <1>4. [old EXCEPT !.approvedAt = now, !.activeFrom = ActiveFrom] \in TimesType
    BY <1>1, <1>2 DEF TimesType, TimeOpt
  <1> QED BY <1>3, <1>4 DEF Settle

(* The state emptyState builds, with the policy of init.commit, is typed. *)
LEMMA InitType == Init => TypeOK
  BY Constants DEF Init, TypeOK, Time, IntentType, TimesType, TimeOpt, NoTimes, NoTime,
     MandateType, IntentIds, NoNonce

(* The steps of Next, by what they touch: accounts, keys, clock, brakes and
   policy; intents; mandates.  The remaining ones sign. *)
RegistryStep ==
  \/ \E a \in Accounts, n \in Networks : AccountCreate(a, n)
  \/ \E e \in EnrolIds, k \in Keys : EnrolFinish(e, k)
  \/ \E e \in EnrolIds, p \in Persons : EnrolStart(e, p)
  \/ \E k \in Keys : KeyRevoke(k)
  \/ \E p \in Policies : PolicySet(p) \/ PolicyTighten(p)
  \/ Freeze("app") \/ Freeze("admin") \/ Unfreeze \/ Tick

WishStep ==
  \/ \E i \in IntentIds, n \in Networks, d \in Destinations, p \in Persons :
       CreateWhitelist(i, n, d, p)
  \/ \E i \in IntentIds, a \in Accounts, s \in Assets, v \in Amounts, f \in Fees,
        d \in Destinations, p \in Persons, m \in Mandates \cup {None} :
       CreatePayout(i, a, s, v, f, d, p, m)
  \/ \E i \in IntentIds, k \in Keys : Approve(i, k)
  \/ \E i \in IntentIds : IntentCancel(i) \/ WhitelistVeto(i)

MandateStep ==
  \/ \E m \in Mandates, t \in MandateTerms : MandateCreate(m, t)
  \/ \E m \in Mandates, k \in Keys : MandateApprove(m, k)
  \/ \E m \in Mandates : MandateRevoke(m)

(* Steps that leave intents, mandates and signatures alone keep the types. *)
LEMMA RegistryType ==
  ASSUME TypeOK, RegistryStep
  PROVE  TypeOK'
  <1> USE Constants DEF registry, rules, wishes, granted, signed
  <1>1. ASSUME NEW a \in Accounts, NEW n \in Networks, AccountCreate(a, n) PROVE TypeOK'
    BY <1>1 DEF AccountCreate, TypeOK
  <1>2. ASSUME NEW e \in EnrolIds, NEW k \in Keys, EnrolFinish(e, k) PROVE TypeOK'
    <2>1. enrolments' = [enrolments EXCEPT ![e].done = TRUE]
          /\ keyPerson' = [keyPerson EXCEPT ![k] = enrolments[e].person]
          /\ active' = active \cup {k}
      BY <1>2 DEF EnrolFinish
    <2>2. enrolments' \in [EnrolIds ->
             [person: Persons \cup {None}, expiresAt: Int, done: BOOLEAN]]
          /\ keyPerson' \in [Keys -> Persons \cup {None}] /\ active' \in SUBSET Keys
      BY <2>1 DEF TypeOK
    <2>3. UNCHANGED <<now, rules, frozen, accounts, nextIndex, wishes, granted, signed>>
      BY <1>2 DEF EnrolFinish
    <2> QED BY <2>2, <2>3 DEF TypeOK
  <1>3. ASSUME NEW e \in EnrolIds, NEW p \in Persons, EnrolStart(e, p) PROVE TypeOK'
    BY <1>3 DEF EnrolStart, TypeOK, Time
  <1>4. ASSUME NEW k \in Keys, KeyRevoke(k) PROVE TypeOK'
    BY <1>4 DEF KeyRevoke, TypeOK
  <1>5. ASSUME NEW p \in Policies, PolicySet(p) \/ PolicyTighten(p) PROVE TypeOK'
    BY <1>5 DEF PolicySet, PolicyTighten, CheckPolicyChain, TypeOK
  <1>6. CASE Freeze("app") \/ Freeze("admin") \/ Unfreeze
    BY <1>6 DEF Freeze, Unfreeze, TypeOK
  <1>7. CASE Tick
    BY <1>7 DEF Tick, TypeOK, Time
  <1> QED BY <1>1, <1>2, <1>3, <1>4, <1>5, <1>6, <1>7 DEF RegistryStep

(* A payout names an account of the signer and a network it has a seed for. *)
PayoutsNamed ==
  \A i \in IntentIds : intents[i].kind = "payout" =>
    intents[i].account \in Accounts /\ intents[i].net \in Networks

(* Intents: creation, approval, cancel, veto. *)
LEMMA WishesType ==
  ASSUME TypeOK, PayoutsNamed, WishStep
  PROVE  TypeOK' /\ PayoutsNamed'
  <1> USE Constants DEF registry, rules, wishes, granted, signed
  <1>1. ASSUME NEW i \in IntentIds, NEW n \in Networks, NEW d \in Destinations,
               NEW p \in Persons, CreateWhitelist(i, n, d, p)
        PROVE  TypeOK' /\ PayoutsNamed'
    <2> DEFINE rec == [kind |-> "whitelist", net |-> n, account |-> None, dest |-> d,
                       asset |-> None, amount |-> 0, feeCap |-> 0, initiator |-> p,
                       createdAt |-> now, expiresAt |-> now + WHITELIST_TTL, mandate |-> None]
    <2>1. now \in Int /\ now + WHITELIST_TTL \in Int BY DEF TypeOK, Time
    <2>2. rec \in IntentType BY <2>1 DEF IntentType
    <2>3. intents' = [intents EXCEPT ![i] = rec] BY <1>1 DEF CreateWhitelist
    <2>4. rec.kind # "payout" OBVIOUS
    <2> HIDE DEF rec
    <2>5. intents' \in [IntentIds -> IntentType] BY <2>2, <2>3 DEF TypeOK
    <2>6. TypeOK' BY <1>1, <2>5 DEF CreateWhitelist, TypeOK
    <2>7. PayoutsNamed' BY <2>3, <2>4 DEF PayoutsNamed, TypeOK
    <2> QED BY <2>6, <2>7
  <1>2. ASSUME NEW i \in IntentIds, NEW a \in Accounts, NEW s \in Assets, NEW v \in Amounts,
               NEW f \in Fees, NEW d \in Destinations, NEW p \in Persons,
               NEW m \in Mandates \cup {None}, CreatePayout(i, a, s, v, f, d, p, m)
        PROVE  TypeOK' /\ PayoutsNamed'
    <2> DEFINE net == accounts[a].net
               rec == [kind |-> "payout", net |-> net, account |-> a, dest |-> d,
                       asset |-> s, amount |-> v, feeCap |-> f, initiator |-> p,
                       createdAt |-> now, expiresAt |-> now + PAYOUT_TTL, mandate |-> m]
    <2>1. now \in Int /\ now + PAYOUT_TTL \in Int BY DEF TypeOK, Time
    <2>2. net \in Networks BY <1>2 DEF CreatePayout, TypeOK
    <2>3. rec \in IntentType BY <2>1, <2>2 DEF IntentType
    <2>4. intents' = [intents EXCEPT ![i] = rec] BY <1>2 DEF CreatePayout
    <2>5. rec.account = a /\ rec.net = net OBVIOUS
    <2> HIDE DEF rec, net
    <2>6. intents' \in [IntentIds -> IntentType] BY <2>3, <2>4 DEF TypeOK
    <2>7. times[i] \in TimesType BY DEF TypeOK
    <2>8. Settle("payout", times[i], m # None) \in TimesType BY <2>7, SettleType
    <2>9. times' \in [IntentIds -> TimesType] BY <1>2, <2>8 DEF CreatePayout, TypeOK
    <2>10. TypeOK' BY <1>2, <2>6, <2>9 DEF CreatePayout, TypeOK
    <2>11. PayoutsNamed' BY <2>2, <2>4, <2>5 DEF PayoutsNamed, TypeOK
    <2> QED BY <2>10, <2>11
  <1>3. ASSUME NEW i \in IntentIds, NEW k \in Keys, Approve(i, k)
        PROVE  TypeOK' /\ PayoutsNamed'
    <2>1. times[i] \in TimesType BY DEF TypeOK
    <2>2. Settle(intents[i].kind, times[i], ApprovalsQuorum(approvals[i] \cup {k})) \in TimesType
      BY <2>1, SettleType
    <2>4. times' \in [IntentIds -> TimesType] BY <1>3, <2>2 DEF Approve, TypeOK
    <2>5. TypeOK' BY <1>3, <2>4 DEF Approve, TypeOK
    <2>6. PayoutsNamed' BY <1>3 DEF Approve, PayoutsNamed
    <2> QED BY <2>5, <2>6
  <1>4. ASSUME NEW i \in IntentIds, IntentCancel(i) \/ WhitelistVeto(i)
        PROVE  TypeOK' /\ PayoutsNamed'
    BY <1>4 DEF IntentCancel, WhitelistVeto, TypeOK, PayoutsNamed
  <1> QED BY <1>1, <1>2, <1>3, <1>4 DEF WishStep

(* Mandates: creation, approval, revocation. *)
LEMMA MandatesType ==
  ASSUME TypeOK, MandateStep
  PROVE  TypeOK'
  <1> USE Constants DEF registry, rules, wishes, granted, signed
  <1>1. ASSUME NEW m \in Mandates, NEW t \in MandateTerms, MandateCreate(m, t) PROVE TypeOK'
    <2> DEFINE rec == [on |-> TRUE, grantee |-> t.grantee, net |-> t.net, asset |-> t.asset,
                       perPayout |-> t.perPayout, total |-> t.total, dests |-> t.dests,
                       validFrom |-> t.validFrom, validUntil |-> t.validUntil,
                       createdAt |-> now]
    <2>1. t \in TermsType /\ now \in Int BY DEF TypeOK, Time
    <2>2. rec \in MandateType BY <2>1 DEF TermsType, MandateType
    <2>3. mandates' = [mandates EXCEPT ![m] = rec] BY <1>1 DEF MandateCreate
    <2> HIDE DEF rec
    <2>4. mandates' \in [Mandates -> MandateType] BY <2>2, <2>3 DEF TypeOK
    <2>5. UNCHANGED <<now, rules, frozen, registry, wishes, mandateApprovals,
                      mandateApprovedAt, revoked, signed>>
      BY <1>1 DEF MandateCreate
    <2> QED BY <2>4, <2>5 DEF TypeOK
  <1>2. ASSUME NEW m \in Mandates, NEW k \in Keys, MandateApprove(m, k) PROVE TypeOK'
    BY <1>2 DEF MandateApprove, TypeOK, Time
  <1>3. ASSUME NEW m \in Mandates, MandateRevoke(m) PROVE TypeOK'
    BY <1>3 DEF MandateRevoke, TypeOK
  <1> QED BY <1>1, <1>2, <1>3 DEF MandateStep

(* The change index a plan gets is an index. *)
LEMMA ChangeIndexType ==
  ASSUME TypeOK, PayoutsNamed, NEW i \in IntentIds, intents[i].kind = "payout",
         NEW mode \in Modes, mode # "first" => signatures[i] # <<>>
  PROVE  ChangeIndex(i, mode) \in Nat
  <1>1. nextChange[intents[i].account] \in Nat BY DEF TypeOK, PayoutsNamed
  <1>2. CASE mode # "first"
    <2>1. signatures[i] \in Seq(SignatureType) /\ signatures[i] # <<>> BY <1>2 DEF TypeOK
    <2>2. signatures[i][1] \in SignatureType BY <2>1
    <2> QED BY <1>1, <2>2 DEF ChangeIndex, First, SignatureType, NoIndex
  <1> QED BY <1>1, <1>2 DEF ChangeIndex

-----------------------------------------------------------------------------
(* What every signing step has in common, on either chain: the facts the
   invariants below rest on. *)

Chain(i) == ChainOf[intents[i].net]

OnChain(i, sig) ==
  \/ Chain(i) = "bitcoin" /\ sig.nonce = NoNonce /\ sig.inputs # {}
  \/ Chain(i) = "ethereum" /\ sig.nonce # NoNonce /\ sig.inputs = {}

SignStep(i, sig) ==
  /\ intents[i].kind = "payout" /\ i \notin cancelled
  /\ sig \in SignatureType /\ sig.at = now
  /\ sig.fee \in Fees /\ sig.nonce \in Nonces \cup {NoNonce}
  /\ OnChain(i, sig)
  /\ \/ sig.change \in {NoIndex, nextChange[intents[i].account]}
     \/ signatures[i] # <<>> /\ sig.change = First(i).change
  /\ signatures[i] = <<>> =>
       /\ sig.mode = "first" /\ FirstAllowed(i) /\ InputsFree(i, sig.inputs)
       /\ sig.nonce # NoNonce => NonceNext(i, sig.nonce)
  /\ signatures[i] # <<>> =>
       /\ sig.mode # "first" /\ (Last(i).mode = "cancel" => sig.mode = "cancel")
       /\ sig.inputs = {} \/ sig.inputs = First(i).inputs
       /\ sig.nonce = NoNonce \/ sig.nonce = First(i).nonce
       /\ sig.fee > Last(i).fee
  /\ Record(i, sig)

(* A successful signBtc is a SignStep: its inputs are the first signature's or
   free, its fee is higher. *)
LEMMA BtcStep ==
  ASSUME TypeOK, PayoutsNamed, NEW i \in IntentIds, NEW mode \in Modes,
         NEW ins \in SUBSET Outpoints, NEW f \in Fees, SignBtc(i, mode, ins, f)
  PROVE  \E sig : SignStep(i, sig)
  <1> DEFINE paid   == IF mode = "cancel" THEN Total(ins) - f ELSE intents[i].amount
             change == Total(ins) - paid - f
             index  == IF mode = "cancel" \/ change > 0 THEN ChangeIndex(i, mode) ELSE NoIndex
             sig    == [mode |-> mode, at |-> now, fee |-> f, inputs |-> ins,
                        nonce |-> NoNonce, change |-> index]
  <1>1. intents[i].kind = "payout" /\ i \notin cancelled /\ Chain(i) = "bitcoin"
    BY DEF SignBtc, SignGate, Chain
  <1>2. mode # "first" => signatures[i] # <<>>
    BY DEF SignBtc, ReplaceAllowed
  <1>3. ChangeIndex(i, mode) \in Nat BY <1>1, <1>2, ChangeIndexType
  <1> HIDE DEF change
  <1>4. /\ index \in Nat \cup {NoIndex}
        /\ \/ index \in {NoIndex, nextChange[intents[i].account]}
           \/ signatures[i] # <<>> /\ index = First(i).change
    BY <1>2, <1>3 DEF ChangeIndex
  <1> HIDE DEF index
  <1>5. now \in Int /\ f \in Nat BY Constants DEF TypeOK, Time
  <1>6. sig \in SignatureType /\ sig.at = now /\ sig.inputs = ins /\ sig.nonce = NoNonce
        /\ sig.fee = f /\ sig.mode = mode /\ sig.change = index
    BY <1>4, <1>5 DEF SignatureType
  <1>7. Record(i, sig) BY DEF SignBtc, index, change
  <1> HIDE DEF sig
  <1>8. OnChain(i, sig) BY <1>1, <1>6 DEF SignBtc, OnChain
  <1>9. signatures[i] = <<>> =>
          sig.mode = "first" /\ FirstAllowed(i) /\ InputsFree(i, sig.inputs)
    BY <1>2, <1>6 DEF SignBtc
  <1>10. signatures[i] # <<>> =>
           /\ sig.inputs = First(i).inputs /\ sig.fee > Last(i).fee
           /\ sig.mode # "first" /\ (Last(i).mode = "cancel" => sig.mode = "cancel")
    BY <1>6 DEF SignBtc, FirstAllowed, SameInputs, ReplaceAllowed, Modes
  <1> QED BY <1>1, <1>4, <1>6, <1>7, <1>8, <1>9, <1>10 DEF SignStep

(* A successful signEth is a SignStep: its nonce is the first signature's or the
   next one, its fee is higher. *)
LEMMA EthStep ==
  ASSUME TypeOK, PayoutsNamed, NEW i \in IntentIds, NEW mode \in Modes,
         NEW n \in Nonces, NEW f \in Fees, SignEth(i, mode, n, f)
  PROVE  \E sig : SignStep(i, sig)
  <1> DEFINE sig == [mode |-> mode, at |-> now, fee |-> f, inputs |-> {},
                     nonce |-> n, change |-> NoIndex]
  <1>1. intents[i].kind = "payout" /\ i \notin cancelled /\ Chain(i) = "ethereum"
    BY DEF SignEth, SignGate, Chain
  <1>2. now \in Int /\ f \in Nat /\ n \in Nat BY Constants DEF TypeOK, Time
  <1>3. sig \in SignatureType /\ sig.at = now /\ sig.inputs = {} /\ sig.nonce = n
        /\ sig.fee = f /\ sig.mode = mode /\ sig.change = NoIndex
    BY <1>2 DEF SignatureType
  <1>4. Record(i, sig) BY DEF SignEth
  <1> HIDE DEF sig
  <1>5. OnChain(i, sig) BY <1>1, <1>2, <1>3 DEF OnChain, NoNonce
  <1>6. signatures[i] = <<>> => sig.mode = "first" /\ FirstAllowed(i) /\ NonceNext(i, sig.nonce)
    BY <1>3 DEF SignEth, ReplaceAllowed
  <1>7. ASSUME signatures[i] # <<>>
        PROVE  sig.nonce = First(i).nonce /\ sig.fee > Last(i).fee
    <2>1. f > 0 /\ n = First(i).nonce /\ f * 10 >= Last(i).fee * 11
      BY <1>7 DEF SignEth, FirstAllowed
    <2>2. signatures[i] \in Seq(SignatureType) BY DEF TypeOK
    <2>3. Last(i) \in SignatureType BY <1>7, <2>2 DEF Last
    <2>4. Last(i).fee \in Nat BY <2>3 DEF SignatureType
    <2> QED BY <1>2, <1>3, <2>1, <2>4
  <1>8. InputsFree(i, sig.inputs) BY <1>3 DEF InputsFree
  <1>9. signatures[i] # <<>> =>
          sig.mode # "first" /\ (Last(i).mode = "cancel" => sig.mode = "cancel")
    BY <1>3 DEF SignEth, FirstAllowed, ReplaceAllowed, Modes
  <1> QED BY <1>1, <1>3, <1>4, <1>5, <1>6, <1>7, <1>8, <1>9 DEF SignStep

(* Signing keeps the types. *)
LEMMA SignType ==
  ASSUME TypeOK, PayoutsNamed, NEW i \in IntentIds, NEW sig, SignStep(i, sig)
  PROVE  TypeOK' /\ PayoutsNamed'
  <1> DEFINE a == intents[i].account
  <1>1. a \in Accounts /\ sig \in SignatureType BY DEF SignStep, PayoutsNamed
  <1>2. /\ signatures' = [signatures EXCEPT ![i] = Append(@, sig)]
        /\ reserved' = [o \in Outpoints |-> IF o \in sig.inputs THEN i ELSE reserved[o]]
        /\ nonces' = [nonces EXCEPT ![a] = IF sig.nonce > @ THEN sig.nonce ELSE @]
        /\ nextChange' = [nextChange EXCEPT ![a] = NextChange(a, sig)]
    BY DEF SignStep, Record
  <1>3. UNCHANGED <<now, rules, frozen, registry, wishes, granted>>
    BY DEF SignStep, Record
  <1>4. signatures' \in [IntentIds -> Seq(SignatureType)]
    <2>1. signatures[i] \in Seq(SignatureType) BY DEF TypeOK
    <2>2. Append(signatures[i], sig) \in Seq(SignatureType) BY <1>1, <2>1
    <2> QED BY <1>2, <2>2 DEF TypeOK
  <1>5. reserved' \in [Outpoints -> IntentIds \cup {0}] BY <1>2 DEF TypeOK
  <1>6. nonces' \in [Accounts -> Nat \cup {NoNonce}]
    BY <1>1, <1>2 DEF TypeOK, SignatureType
  <1>7. nextChange' \in [Accounts -> Nat]
    <2>1. sig.change \in Nat \cup {-1} /\ nextChange[a] \in Nat
      BY <1>1 DEF TypeOK, SignatureType, NoIndex
    <2>2. NextChange(a, sig) \in Nat BY <2>1 DEF NextChange
    <2> QED BY <1>2, <2>2 DEF TypeOK
  <1>8. PayoutsNamed' BY <1>3 DEF PayoutsNamed, wishes
  <1> QED BY <1>3, <1>4, <1>5, <1>6, <1>7, <1>8
          DEF TypeOK, rules, registry, wishes, granted

(* Every step of Next is of one of the four sorts. *)
LEMMA StepCases ==
  ASSUME TypeOK, PayoutsNamed, Next
  PROVE  \/ RegistryStep \/ WishStep \/ MandateStep
         \/ \E i \in IntentIds : \E sig : SignStep(i, sig)
  <1>1. ASSUME NEW i \in IntentIds, NEW mode \in Modes, NEW ins \in SUBSET Outpoints,
               NEW f \in Fees, SignBtc(i, mode, ins, f)
        PROVE  \E j \in IntentIds : \E sig : SignStep(j, sig)
    BY <1>1, BtcStep
  <1>2. ASSUME NEW i \in IntentIds, NEW mode \in Modes, NEW n \in Nonces,
               NEW f \in Fees, SignEth(i, mode, n, f)
        PROVE  \E j \in IntentIds : \E sig : SignStep(j, sig)
    BY <1>2, EthStep
  <1>3. CASE AppStep
    BY <1>1, <1>2, <1>3 DEF AppStep, RegistryStep, WishStep, MandateStep
  <1>4. CASE RootStep
    BY <1>4 DEF RootStep, RegistryStep
  <1>5. CASE Tick
    BY <1>5 DEF RegistryStep
  <1> QED BY <1>3, <1>4, <1>5 DEF Next

(* Registry and mandate steps touch neither an intent nor a signature. *)
LEMMA OtherFrame ==
  ASSUME RegistryStep \/ MandateStep
  PROVE  UNCHANGED <<wishes, signed>>
  BY DEF RegistryStep, MandateStep, AccountCreate, EnrolFinish, EnrolStart, KeyRevoke,
         PolicySet, PolicyTighten, Freeze, Unfreeze, Tick, MandateCreate, MandateApprove,
         MandateRevoke, granted, registry

(* Wishes never touch a signature, and what an intent says is fixed. *)
LEMMA WishFrame ==
  ASSUME TypeOK, WishStep
  PROVE  /\ UNCHANGED <<signed, now, rules, granted>>
         /\ \A j \in IntentIds : Created(j) => intents'[j] = intents[j]
  <1>1. ASSUME NEW i \in IntentIds, NEW n \in Networks, NEW d \in Destinations,
               NEW p \in Persons, CreateWhitelist(i, n, d, p)
        PROVE  /\ UNCHANGED <<signed, now, rules, granted>>
               /\ \A j \in IntentIds : Created(j) => intents'[j] = intents[j]
    BY <1>1 DEF CreateWhitelist, Fresh, TypeOK
  <1>2. ASSUME NEW i \in IntentIds, NEW a \in Accounts, NEW s \in Assets, NEW v \in Amounts,
               NEW f \in Fees, NEW d \in Destinations, NEW p \in Persons,
               NEW m \in Mandates \cup {None}, CreatePayout(i, a, s, v, f, d, p, m)
        PROVE  /\ UNCHANGED <<signed, now, rules, granted>>
               /\ \A j \in IntentIds : Created(j) => intents'[j] = intents[j]
    BY <1>2 DEF CreatePayout, Fresh, TypeOK
  <1>3. ASSUME NEW i \in IntentIds, NEW k \in Keys, Approve(i, k)
        PROVE  UNCHANGED <<signed, now, rules, granted, intents>>
    BY <1>3 DEF Approve
  <1>4. ASSUME NEW i \in IntentIds, IntentCancel(i) \/ WhitelistVeto(i)
        PROVE  UNCHANGED <<signed, now, rules, granted, intents>>
    BY <1>4 DEF IntentCancel, WhitelistVeto
  <1> QED BY <1>1, <1>2, <1>3, <1>4 DEF WishStep

(* Every step keeps the types. *)
LEMMA TypeStep ==
  ASSUME TypeOK, PayoutsNamed, [Next]_vars
  PROVE  TypeOK' /\ PayoutsNamed'
  <1>1. CASE RegistryStep \/ MandateStep
    <2>1. TypeOK' BY <1>1, RegistryType, MandatesType
    <2>2. intents' = intents BY <1>1, OtherFrame DEF wishes
    <2> QED BY <2>1, <2>2 DEF PayoutsNamed
  <1>2. CASE WishStep BY <1>2, WishesType
  <1>3. ASSUME NEW i \in IntentIds, NEW sig, SignStep(i, sig) PROVE TypeOK' /\ PayoutsNamed'
    BY <1>3, SignType
  <1>4. CASE UNCHANGED vars
    BY <1>4 DEF vars, rules, registry, wishes, granted, signed, TypeOK, PayoutsNamed
  <1> QED BY <1>1, <1>2, <1>3, <1>4, StepCases

(* Every state the handlers of signer/service.ts reach has the shape
   SignerState declares: the maps keep their types whatever is called. *)
THEOREM TypeCorrect == Spec => []TypeOK
  <1>1. Init => TypeOK /\ PayoutsNamed
    BY InitType DEF Init, PayoutsNamed
  <1>2. TypeOK /\ PayoutsNamed /\ [Next]_vars => TypeOK' /\ PayoutsNamed'
    BY TypeStep
  <1> QED BY <1>1, <1>2, PTL DEF Spec

-----------------------------------------------------------------------------
(* Signatures exclude one another within a payout and never across payouts.
   The inductive invariant says more than the two properties: all signatures
   of a payout spend what the first spent, `reserved` and `nonces` remember
   it, and fees rise. *)

SignedShape ==
  \A i \in IntentIds : \A x \in DOMAIN signatures[i] :
    LET s == signatures[i][x] IN
    /\ intents[i].kind = "payout"
    /\ OnChain(i, s)
    /\ s.inputs = First(i).inputs /\ s.nonce = First(i).nonce
    /\ \A o \in s.inputs : reserved[o] = i
    /\ s.nonce <= nonces[intents[i].account]

FeesRise ==
  \A i \in IntentIds : \A x, y \in DOMAIN signatures[i] :
    x < y => signatures[i][x].fee < signatures[i][y].fee

NoncesApart ==
  \A i, j \in IntentIds :
    i # j /\ Signed(i) /\ Signed(j) /\ intents[i].account = intents[j].account
      /\ First(i).nonce # NoNonce => First(i).nonce # First(j).nonce

SigInv == TypeOK /\ PayoutsNamed /\ SignedShape /\ FeesRise /\ NoncesApart

(* A signature is never on an intent that does not exist. *)
LEMMA SignedCreated ==
  ASSUME TypeOK, SignedShape, NEW i \in IntentIds, signatures[i] # <<>>
  PROVE  Created(i) /\ intents[i].kind = "payout" /\ 1 \in DOMAIN signatures[i]
  <1>1. signatures[i] \in Seq(SignatureType) BY DEF TypeOK
  <1>2. 1 \in DOMAIN signatures[i] BY <1>1
  <1> QED BY <1>2 DEF SignedShape, Created

(* A step that leaves signatures alone and changes no existing intent keeps
   the invariant. *)
LEMMA SigFrame ==
  ASSUME SigInv, TypeOK', PayoutsNamed', UNCHANGED signed,
         \A j \in IntentIds : Created(j) => intents'[j] = intents[j]
  PROVE  SigInv'
  <1>1. UNCHANGED <<signatures, reserved, nonces>> BY DEF signed
  <1>2. \A j \in IntentIds : signatures[j] # <<>> => intents'[j] = intents[j]
    BY SignedCreated DEF SigInv
  <1>3. \A j \in IntentIds : \A x \in DOMAIN signatures[j] : signatures[j] # <<>>
    OBVIOUS
  <1>4. SignedShape'
    BY <1>1, <1>2, <1>3 DEF SigInv, SignedShape, OnChain, Chain, First
  <1>5. FeesRise' BY <1>1 DEF SigInv, FeesRise
  <1>6. NoncesApart' BY <1>1, <1>2 DEF SigInv, NoncesApart, Signed, First
  <1> QED BY <1>4, <1>5, <1>6 DEF SigInv

(* What appending one signature does to the sequences. *)
LEMMA AppendSig ==
  ASSUME TypeOK, NEW i \in IntentIds, NEW sig, SignStep(i, sig)
  PROVE  /\ \A j \in IntentIds : j # i => signatures'[j] = signatures[j]
         /\ signatures'[i] = Append(signatures[i], sig)
         /\ Len(signatures[i]) \in Nat
         /\ DOMAIN signatures[i] = 1..Len(signatures[i])
         /\ DOMAIN signatures'[i] = 1..(Len(signatures[i]) + 1)
         /\ \A x \in 1..Len(signatures[i]) : signatures'[i][x] = signatures[i][x]
         /\ signatures'[i][Len(signatures[i]) + 1] = sig
         /\ signatures[i] = <<>> <=> Len(signatures[i]) = 0
  <1>1. signatures' = [signatures EXCEPT ![i] = Append(@, sig)]
    BY DEF SignStep, Record
  <1>2. signatures[i] \in Seq(SignatureType) /\ sig \in SignatureType
    BY DEF TypeOK, SignStep
  <1>3. signatures'[i] = Append(signatures[i], sig)
        /\ \A j \in IntentIds : j # i => signatures'[j] = signatures[j]
    BY <1>1 DEF TypeOK
  <1> QED BY <1>2, <1>3

(* Recording a signature keeps the inductive invariant: the heart of the
   argument, one step per part of SigInv. *)
LEMMA SignKeepsSigInv ==
  ASSUME SigInv, NEW i \in IntentIds, NEW sig, SignStep(i, sig)
  PROVE  SigInv'
  <1> DEFINE n == Len(signatures[i])
             a == intents[i].account
  <1>1. TypeOK /\ PayoutsNamed /\ SignedShape /\ FeesRise /\ NoncesApart BY DEF SigInv
  <1>2. TypeOK' /\ PayoutsNamed' BY <1>1, SignType
  <1>3. /\ \A j \in IntentIds : j # i => signatures'[j] = signatures[j]
        /\ n \in Nat
        /\ DOMAIN signatures[i] = 1..n /\ DOMAIN signatures'[i] = 1..(n + 1)
        /\ \A x \in 1..n : signatures'[i][x] = signatures[i][x]
        /\ signatures'[i][n + 1] = sig
        /\ signatures[i] = <<>> <=> n = 0
    BY <1>1, AppendSig
  <1>4. intents' = intents BY DEF SignStep, Record, wishes
  <1>5. a \in Accounts /\ intents[i].kind = "payout" /\ sig \in SignatureType /\ OnChain(i, sig)
    BY <1>1 DEF SignStep, PayoutsNamed
  <1>6. /\ sig.inputs \subseteq Outpoints /\ sig.nonce \in Int /\ sig.fee \in Int
        /\ \A b \in Accounts : nonces[b] \in Int
    BY <1>1, <1>5 DEF SignatureType, TypeOK, NoNonce
  <1>7. /\ \A o \in Outpoints : reserved'[o] = IF o \in sig.inputs THEN i ELSE reserved[o]
        /\ \A b \in Accounts : nonces'[b] \in Int /\ nonces[b] <= nonces'[b]
        /\ sig.nonce <= nonces'[a]
    <2>1. /\ reserved' = [o \in Outpoints |-> IF o \in sig.inputs THEN i ELSE reserved[o]]
          /\ nonces' = [nonces EXCEPT ![a] = IF sig.nonce > @ THEN sig.nonce ELSE @]
      BY DEF SignStep, Record
    <2>2. nonces \in [Accounts -> Nat \cup {NoNonce}] BY <1>1 DEF TypeOK
    <2> QED BY <1>5, <1>6, <2>1, <2>2
  <1>8. n # 0 => First(i)' = First(i) /\ 1 \in DOMAIN signatures[i]
    BY <1>3 DEF First
  <1>9. n = 0 => First(i)' = sig
    BY <1>3 DEF First
  <1>10. \A j \in IntentIds : j # i => First(j)' = First(j)
    BY <1>3 DEF First
  <1>11. /\ n = 0 => /\ FirstAllowed(i) /\ InputsFree(i, sig.inputs)
                     /\ sig.nonce # NoNonce => NonceNext(i, sig.nonce)
         /\ n # 0 => /\ sig.inputs = {} \/ sig.inputs = First(i).inputs
                     /\ sig.nonce = NoNonce \/ sig.nonce = First(i).nonce
                     /\ sig.fee > Last(i).fee
    BY <1>3 DEF SignStep
  <1> HIDE DEF n, a
  <1>12. n # 0 => sig.inputs = First(i).inputs /\ sig.nonce = First(i).nonce
    <2>1. n # 0 => OnChain(i, First(i)) BY <1>1, <1>8 DEF SignedShape, First
    <2> QED BY <1>5, <1>11, <2>1 DEF OnChain
  <1>13. SignedShape'
    <2> SUFFICES ASSUME NEW j \in IntentIds, NEW x \in DOMAIN signatures'[j]
                 PROVE  LET s == signatures'[j][x] IN
                        /\ intents[j].kind = "payout"
                        /\ OnChain(j, s)
                        /\ s.inputs = First(j)'.inputs /\ s.nonce = First(j)'.nonce
                        /\ \A o \in s.inputs : reserved'[o] = j
                        /\ s.nonce <= nonces'[intents[j].account]
      BY <1>4 DEF SignedShape, OnChain, Chain
    <2>1. CASE j # i
      <3> DEFINE s == signatures[j][x]
      <3>1. signatures'[j][x] = s /\ x \in DOMAIN signatures[j] BY <1>3, <2>1
      <3>2. /\ intents[j].kind = "payout" /\ OnChain(j, s)
            /\ s.inputs = First(j).inputs /\ s.nonce = First(j).nonce
            /\ \A o \in s.inputs : reserved[o] = j
            /\ s.nonce <= nonces[intents[j].account]
        BY <1>1, <3>1 DEF SignedShape
      <3>3. signatures[j] \in Seq(SignatureType) BY <1>1 DEF TypeOK
      <3>4. s \in SignatureType BY <3>1, <3>3
      <3>5. s.inputs \subseteq Outpoints /\ s.nonce \in Int
        BY <3>4 DEF SignatureType, NoNonce
      <3>6. \A o \in s.inputs : o \notin sig.inputs
        <4>1. j # 0 BY Constants DEF IntentIds
        <4>2. CASE n = 0
          BY <1>11, <2>1, <3>2, <4>1, <4>2 DEF InputsFree
        <4>3. CASE n # 0
          <5>1. \A o \in First(i).inputs : reserved[o] = i
            BY <1>1, <1>8, <4>3 DEF SignedShape, First
          <5> QED BY <1>12, <2>1, <3>2, <4>3, <5>1
        <4> QED BY <4>2, <4>3
      <3>7. \A o \in s.inputs : reserved'[o] = j
        BY <1>7, <3>2, <3>5, <3>6
      <3>8. intents[j].account \in Accounts BY <1>1, <3>2 DEF PayoutsNamed
      <3>9. s.nonce <= nonces'[intents[j].account]
        BY <1>6, <1>7, <3>2, <3>5, <3>8
      <3> QED BY <1>10, <2>1, <3>1, <3>2, <3>7, <3>9
    <2>2. CASE j = i /\ x = n + 1
      <3>1. signatures'[j][x] = sig BY <1>3, <2>2
      <3>2. \A o \in sig.inputs : reserved'[o] = i BY <1>6, <1>7
      <3>3. sig.inputs = First(i)'.inputs /\ sig.nonce = First(i)'.nonce
        BY <1>8, <1>9, <1>12
      <3> QED BY <1>5, <1>7, <2>2, <3>1, <3>2, <3>3 DEF a
    <2>3. CASE j = i /\ x # n + 1
      <3>1. x \in 1..n /\ n # 0 BY <1>3, <2>3
      <3>2. signatures'[j][x] = signatures[i][x] /\ x \in DOMAIN signatures[i]
        BY <1>3, <2>3, <3>1
      <3> DEFINE s == signatures[i][x]
      <3>3. /\ OnChain(i, s) /\ s.inputs = First(i).inputs /\ s.nonce = First(i).nonce
            /\ \A o \in s.inputs : reserved[o] = i
            /\ s.nonce <= nonces[a]
        BY <1>1, <3>2 DEF SignedShape, a
      <3>4. signatures[i] \in Seq(SignatureType) BY <1>1 DEF TypeOK
      <3>5. s \in SignatureType BY <3>2, <3>4
      <3>6. s.inputs \subseteq Outpoints /\ s.nonce \in Int
        BY <3>5 DEF SignatureType, NoNonce
      <3>7. s.nonce <= nonces'[a] BY <1>5, <1>6, <1>7, <3>3, <3>6
      <3>8. \A o \in s.inputs : reserved'[o] = i BY <1>7, <3>3, <3>6
      <3> QED BY <1>5, <1>8, <2>3, <3>1, <3>2, <3>3, <3>7, <3>8 DEF a
    <2> QED BY <2>1, <2>2, <2>3
  <1>14. FeesRise'
    <2> SUFFICES ASSUME NEW j \in IntentIds, NEW x \in DOMAIN signatures'[j],
                        NEW y \in DOMAIN signatures'[j], x < y
                 PROVE  signatures'[j][x].fee < signatures'[j][y].fee
      BY DEF FeesRise
    <2>1. CASE j # i BY <1>1, <1>3, <2>1 DEF FeesRise
    <2>2. CASE j = i /\ y # n + 1
      <3>1. x \in 1..n /\ y \in 1..n BY <1>3, <2>2
      <3> QED BY <1>1, <1>3, <2>2, <3>1 DEF FeesRise
    <2>3. CASE j = i /\ y = n + 1
      <3>1. x \in 1..n /\ n \in 1..n /\ n # 0 BY <1>3, <2>3
      <3>2. Last(i) = signatures[i][n] BY DEF Last, n
      <3>3. sig.fee > signatures[i][n].fee BY <1>11, <3>1, <3>2
      <3>4. x = n \/ signatures[i][x].fee < signatures[i][n].fee
        BY <1>1, <1>3, <3>1 DEF FeesRise
      <3>5. signatures[i] \in Seq(SignatureType) BY <1>1 DEF TypeOK
      <3>6. signatures[i][x] \in SignatureType /\ signatures[i][n] \in SignatureType
        BY <1>3, <3>1, <3>5
      <3>7. signatures[i][x].fee \in Int /\ signatures[i][n].fee \in Int
        BY <3>6 DEF SignatureType
      <3> QED BY <1>3, <1>6, <2>3, <3>1, <3>3, <3>4, <3>7
    <2> QED BY <2>1, <2>2, <2>3
  <1>15. NoncesApart'
    <2>1. \A j \in IntentIds : j # i => (Signed(j)' <=> Signed(j))
      BY <1>3 DEF Signed
    <2>2. CASE n # 0
      <3>1. Signed(i) BY <1>3, <2>2 DEF Signed
      <3>2. \A j \in IntentIds : First(j)' = First(j) BY <1>8, <1>10, <2>2
      <3> QED BY <1>1, <1>4, <2>1, <3>1, <3>2 DEF NoncesApart
    <2>3. CASE n = 0
      <3>1. ASSUME NEW j \in IntentIds, j # i, Signed(j), intents[j].account = a,
                   sig.nonce # NoNonce
            PROVE  First(j).nonce # sig.nonce
        <4>1. 1 \in DOMAIN signatures[j] BY <1>1, <3>1, SignedCreated DEF Signed
        <4>2. First(j).nonce <= nonces[a]
          BY <1>1, <3>1, <4>1 DEF SignedShape, First
        <4>3. signatures[j] \in Seq(SignatureType) BY <1>1 DEF TypeOK
        <4>4a. signatures[j][1] \in SignatureType BY <4>1, <4>3
        <4>4. First(j).nonce \in Nat \cup {-1} /\ sig.nonce \in Nat \cup {-1} /\ nonces[a] \in Int
          BY <1>5, <1>6, <4>4a DEF First, SignatureType, NoNonce
        <4>5. nonces[a] # -1 => sig.nonce = nonces[a] + 1
          BY <1>11, <2>3, <3>1 DEF NonceNext, NoNonce, a
        <4> QED BY <3>1, <4>2, <4>4, <4>5 DEF NoNonce
      <3>2. First(i)' = sig BY <1>9, <2>3
      <3>3. \A j, k \in IntentIds : j # i /\ k # i /\ j # k /\ Signed(j) /\ Signed(k)
              /\ intents[j].account = intents[k].account /\ First(j).nonce # NoNonce
              => First(j).nonce # First(k).nonce
        BY <1>1 DEF NoncesApart
      <3> QED BY <1>4, <1>10, <2>1, <3>1, <3>2, <3>3 DEF NoncesApart, a
    <2> QED BY <2>2, <2>3
  <1> QED BY <1>2, <1>13, <1>14, <1>15 DEF SigInv

(* Every step keeps the inductive invariant. *)
LEMMA SigInvStep ==
  ASSUME SigInv, [Next]_vars
  PROVE  SigInv'
  <1>1. TypeOK /\ PayoutsNamed BY DEF SigInv
  <1>2. TypeOK' /\ PayoutsNamed' BY <1>1, TypeStep
  <1>3. CASE RegistryStep \/ MandateStep
    <2>1. UNCHANGED signed /\ intents' = intents BY <1>3, OtherFrame DEF wishes
    <2> QED BY <1>2, <2>1, SigFrame
  <1>4. CASE WishStep
    <2>1. /\ UNCHANGED signed
          /\ \A j \in IntentIds : Created(j) => intents'[j] = intents[j]
      BY <1>1, <1>4, WishFrame
    <2> QED BY <1>2, <2>1, SigFrame
  <1>5. ASSUME NEW i \in IntentIds, NEW sig, SignStep(i, sig) PROVE SigInv'
    BY <1>5, SignKeepsSigInv
  <1>6. CASE UNCHANGED vars
    <2>1. UNCHANGED signed /\ intents' = intents BY <1>6 DEF vars, wishes
    <2> QED BY <1>2, <2>1, SigFrame
  <1> QED BY <1>1, <1>3, <1>4, <1>5, <1>6, StepCases

(* It holds of the signer that was just set up. *)
LEMMA SigInvInit ==
  ASSUME Init
  PROVE  SigInv
  <1>1. TypeOK BY InitType
  <1>2. PayoutsNamed BY DEF Init, PayoutsNamed
  <1>3. SignedShape /\ FeesRise /\ NoncesApart
    BY DEF Init, SignedShape, FeesRise, NoncesApart, Signed
  <1> QED BY <1>1, <1>2, <1>3 DEF SigInv

(* The inductive invariant holds in every reachable state. *)
LEMMA SigInvariant == Spec => []SigInv
  <1>1. Init => SigInv BY SigInvInit
  <1>2. SigInv /\ [Next]_vars => SigInv' BY SigInvStep
  <1> QED BY <1>1, <1>2, PTL DEF Spec

(* Bumps and cancels of a payout (sign, signBtc, signEth) exclude one another
   and every replacement outbids the ones before, for any number of them. *)
THEOREM ReplacementsExcludeAlways == Spec => []ReplacementsExclude
  <1>1. ASSUME SigInv PROVE ReplacementsExclude
    <2> SUFFICES ASSUME NEW i \in IntentIds, NEW x \in DOMAIN signatures[i],
                        NEW y \in DOMAIN signatures[i]
                 PROVE  /\ Exclude(signatures[i][x], signatures[i][y])
                        /\ x < y => signatures[i][x].fee < signatures[i][y].fee
      BY DEF ReplacementsExclude
    <2>1. SignedShape /\ FeesRise BY <1>1 DEF SigInv
    <2>2. Exclude(signatures[i][x], signatures[i][y])
      BY <2>1 DEF SignedShape, OnChain, Exclude
    <2> QED BY <2>1, <2>2 DEF FeesRise
  <1> QED BY <1>1, SigInvariant, PTL

(* No two payouts ever compete for an output or a nonce: `reserved` and
   `nonces` of signer/state.ts do what they are for. *)
THEOREM PayoutsIndependentAlways == Spec => []PayoutsIndependent
  <1>1. ASSUME SigInv PROVE PayoutsIndependent
    <2> SUFFICES ASSUME NEW i \in IntentIds, NEW j \in IntentIds, i # j,
                        NEW x \in DOMAIN signatures[i], NEW y \in DOMAIN signatures[j]
                 PROVE  /\ signatures[i][x].inputs \cap signatures[j][y].inputs = {}
                        /\ intents[i].account = intents[j].account
                             /\ signatures[i][x].nonce # NoNonce
                           => signatures[i][x].nonce # signatures[j][y].nonce
      BY DEF PayoutsIndependent
    <2>1. SignedShape /\ NoncesApart BY <1>1 DEF SigInv
    <2>2. signatures[i][x].inputs \cap signatures[j][y].inputs = {}
      BY <2>1 DEF SignedShape
    <2>3. Signed(i) /\ Signed(j) BY DEF Signed
    <2>4. signatures[i][x].nonce = First(i).nonce /\ signatures[j][y].nonce = First(j).nonce
      BY <2>1 DEF SignedShape
    <2> QED BY <2>1, <2>2, <2>3, <2>4 DEF NoncesApart
  <1> QED BY <1>1, SigInvariant, PTL

-----------------------------------------------------------------------------
(* Nonces and change addresses.  `nonces` holds the top of an account's signed
   nonces and `nextChange` an index above every change index used: that is why
   the next one leaves no hole, and is fresh. *)

NoncesTop ==
  \A a \in Accounts :
    IF nonces[a] = NoNonce THEN SignedNonces(a) = {} ELSE nonces[a] \in SignedNonces(a)

ChangeBelow ==
  \A i \in IntentIds : \A x \in DOMAIN signatures[i] :
    signatures[i][x].change < nextChange[intents[i].account]

CountInv == SigInv /\ NoncesTop /\ NoncesContiguous /\ ChangeBelow /\ ChangeFresh

(* What a signed nonce is. *)
LEMMA SignedNonce ==
  ASSUME NEW a, NEW n
  PROVE  n \in SignedNonces(a) <=>
           /\ n # NoNonce
           /\ \E j \in IntentIds : Signed(j) /\ intents[j].account = a /\ First(j).nonce = n
  BY DEF SignedNonces

(* The same, one step later. *)
LEMMA SignedNonceNext ==
  ASSUME NEW a, NEW n
  PROVE  n \in SignedNonces(a)' <=>
           /\ n # NoNonce
           /\ \E j \in IntentIds :
                Signed(j)' /\ intents'[j].account = a /\ First(j)'.nonce = n
  BY DEF SignedNonces

(* A step that signs nothing keeps both counters and what they bound. *)
LEMMA CountFrame ==
  ASSUME CountInv, SigInv', UNCHANGED signed,
         \A j \in IntentIds : Created(j) => intents'[j] = intents[j]
  PROVE  CountInv'
  <1>1. UNCHANGED <<signatures, nonces, nextChange>> BY DEF signed
  <1>2. TypeOK /\ SignedShape BY DEF CountInv, SigInv
  <1>3. \A j \in IntentIds : signatures[j] # <<>> => intents'[j] = intents[j]
    BY <1>2, SignedCreated
  <1>4. \A j \in IntentIds : (Signed(j)' <=> Signed(j)) /\ First(j)' = First(j)
    BY <1>1 DEF Signed, First
  <1>5. ASSUME NEW a PROVE SignedNonces(a)' = SignedNonces(a)
    <2>1. ASSUME NEW n PROVE n \in SignedNonces(a)' <=> n \in SignedNonces(a)
      BY <1>3, <1>4, SignedNonce, SignedNonceNext DEF Signed
    <2> QED BY <2>1
  <1>6. NoncesTop' BY <1>1, <1>5 DEF CountInv, NoncesTop
  <1>7. NoncesContiguous' BY <1>5 DEF CountInv, NoncesContiguous
  <1>8. \A j \in IntentIds : \A x \in DOMAIN signatures[j] : signatures[j] # <<>> OBVIOUS
  <1>9. ChangeBelow' BY <1>1, <1>3, <1>8 DEF CountInv, ChangeBelow
  <1>10. ChangeFresh' BY <1>1, <1>3, <1>8 DEF CountInv, ChangeFresh
  <1> QED BY <1>6, <1>7, <1>9, <1>10 DEF CountInv

(* Signing: the nonce taken is the next one, the change index new. *)
LEMMA SignKeepsCounts ==
  ASSUME CountInv, SigInv', NEW i \in IntentIds, NEW sig, SignStep(i, sig)
  PROVE  CountInv'
  <1> DEFINE n == Len(signatures[i])
  <1>a. PICK a : a = intents[i].account OBVIOUS
  <1>1. /\ TypeOK /\ PayoutsNamed /\ SignedShape /\ NoncesTop /\ NoncesContiguous
        /\ ChangeBelow /\ ChangeFresh
    BY DEF CountInv, SigInv
  <1>2. /\ \A j \in IntentIds : j # i => signatures'[j] = signatures[j]
        /\ n \in Nat
        /\ DOMAIN signatures[i] = 1..n /\ DOMAIN signatures'[i] = 1..(n + 1)
        /\ \A x \in 1..n : signatures'[i][x] = signatures[i][x]
        /\ signatures'[i][n + 1] = sig
        /\ signatures[i] = <<>> <=> n = 0
    BY <1>1, AppendSig
  <1>3. intents' = intents BY DEF SignStep, Record, wishes
  <1>4. a \in Accounts /\ sig \in SignatureType BY <1>1, <1>a DEF SignStep, PayoutsNamed
  <1>5. /\ sig.nonce \in Nat \cup {-1} /\ sig.change \in Nat \cup {-1}
        /\ nonces \in [Accounts -> Nat \cup {-1}] /\ nextChange \in [Accounts -> Nat]
    BY <1>1, <1>4 DEF SignatureType, TypeOK, NoNonce, NoIndex
  <1>6. /\ nonces' = [nonces EXCEPT ![a] = IF sig.nonce > @ THEN sig.nonce ELSE @]
        /\ nextChange' = [nextChange EXCEPT ![a] =
             IF sig.change + 1 > nextChange[a] THEN sig.change + 1 ELSE nextChange[a]]
    BY <1>a DEF SignStep, Record, NextChange
  <1>7. /\ \A j \in IntentIds : j # i => First(j)' = First(j) /\ (Signed(j)' <=> Signed(j))
        /\ n # 0 => First(i)' = First(i) /\ Signed(i) /\ 1 \in DOMAIN signatures[i]
        /\ n = 0 => First(i)' = sig /\ ~Signed(i)
        /\ Signed(i)'
    BY <1>2 DEF First, Signed
  <1>8. /\ n = 0 /\ sig.nonce # NoNonce => NonceNext(i, sig.nonce)
        /\ n # 0 => sig.nonce = NoNonce \/ sig.nonce = First(i).nonce
        /\ \/ sig.change \in {NoIndex, nextChange[a]}
           \/ n # 0 /\ sig.change = First(i).change
    BY <1>2, <1>a DEF SignStep
  <1> HIDE DEF n
  <1>9. \A b \in Accounts \ {a} : SignedNonces(b)' = SignedNonces(b) /\ nonces'[b] = nonces[b]
    <2> TAKE b \in Accounts \ {a}
    <2>1. ASSUME NEW m PROVE m \in SignedNonces(b)' <=> m \in SignedNonces(b)
      BY <1>a, <1>3, <1>7, SignedNonce, SignedNonceNext
    <2> QED BY <1>5, <1>6, <2>1
  <1>10. NoncesTop' /\ NoncesContiguous'
    <2>1. CASE n # 0 \/ sig.nonce = NoNonce
      <3>1. ASSUME NEW m PROVE m \in SignedNonces(a)' <=> m \in SignedNonces(a)
        BY <1>3, <1>7, <2>1, SignedNonce, SignedNonceNext
      <3>2. nonces'[a] = nonces[a]
        <4>1. n # 0 => First(i).nonce <= nonces[a]
          BY <1>a, <1>1, <1>7 DEF SignedShape, First
        <4> QED BY <1>4, <1>5, <1>6, <1>8, <2>1, <4>1 DEF NoNonce
      <3>3. \A b \in Accounts : SignedNonces(b)' = SignedNonces(b) /\ nonces'[b] = nonces[b]
        <4>1. SignedNonces(a)' = SignedNonces(a) BY <3>1
        <4> QED BY <1>9, <3>2, <4>1
      <3> QED BY <1>1, <3>3 DEF NoncesTop, NoncesContiguous
    <2>2. CASE n = 0 /\ sig.nonce # NoNonce
      <3> DEFINE max == nonces[a]
      <3>1. ASSUME NEW m PROVE m \in SignedNonces(a)' <=> m \in SignedNonces(a) \/ m = sig.nonce
        BY <1>a, <1>3, <1>7, <2>2, SignedNonce, SignedNonceNext
      <3>2. max # NoNonce => sig.nonce = max + 1 BY <1>a, <1>8, <2>2 DEF NonceNext
      <3>3. nonces'[a] = sig.nonce BY <1>4, <1>5, <1>6, <2>2, <3>2 DEF NoNonce
      <3>4. \A m \in SignedNonces(a) : m \in Nat /\ m <= max
        <4> TAKE m \in SignedNonces(a)
        <4>1. PICK j \in IntentIds : /\ Signed(j) /\ intents[j].account = a
                                     /\ First(j).nonce = m /\ m # NoNonce
          BY SignedNonce
        <4>2. 1 \in DOMAIN signatures[j] /\ signatures[j] \in Seq(SignatureType)
          BY <1>1, <4>1, SignedCreated DEF Signed, TypeOK
        <4>3. First(j) \in SignatureType BY <4>2 DEF First
        <4> QED BY <1>1, <4>1, <4>2, <4>3 DEF SignedShape, First, SignatureType
      <3>5. IF max = NoNonce THEN SignedNonces(a) = {} ELSE max \in SignedNonces(a)
        BY <1>1, <1>4 DEF NoncesTop
      <3>6. \A l, m \in SignedNonces(a) : l..m \subseteq SignedNonces(a)
        BY <1>1, <1>4 DEF NoncesContiguous
      <3>7. sig.nonce \in Nat BY <1>5, <2>2 DEF NoNonce
      <3>8. max \in Nat \cup {-1} BY <1>4, <1>5
      <3> HIDE DEF max
      <3>9. ASSUME NEW l \in SignedNonces(a)', NEW m \in SignedNonces(a)', NEW x \in l..m
            PROVE  x \in SignedNonces(a)'
        <4>1. l \in Nat /\ m \in Nat BY <3>1, <3>4, <3>7
        <4>2. CASE m \in SignedNonces(a)
          <5>1. l \in SignedNonces(a)
            BY <3>1, <3>2, <3>4, <3>5, <3>7, <3>8, <4>1, <4>2 DEF NoNonce
          <5> QED BY <3>1, <3>6, <4>2, <5>1
        <4>3. CASE m = sig.nonce /\ l \in SignedNonces(a)
          <5>1. max \in SignedNonces(a) /\ sig.nonce = max + 1 BY <3>2, <3>5, <4>3
          <5>2. x \in l..max \/ x = sig.nonce BY <3>8, <4>1, <4>3, <5>1
          <5> QED BY <3>1, <3>6, <4>3, <5>1, <5>2
        <4>4. CASE m = sig.nonce /\ l = sig.nonce
          <5>1. x = sig.nonce BY <4>1, <4>4
          <5> QED BY <3>1, <5>1
        <4> QED BY <3>1, <4>2, <4>3, <4>4
      <3>10. NoncesTop' BY <1>1, <1>9, <2>2, <3>1, <3>3 DEF NoncesTop
      <3>11. NoncesContiguous' BY <1>1, <1>9, <3>9 DEF NoncesContiguous
      <3> QED BY <3>10, <3>11
    <2> QED BY <2>1, <2>2
  <1>11. /\ nextChange'[a] \in Nat /\ nextChange[a] \in Nat
         /\ sig.change < nextChange'[a] /\ nextChange[a] <= nextChange'[a]
         /\ \A b \in Accounts \ {a} : nextChange'[b] = nextChange[b]
    BY <1>4, <1>5, <1>6
  <1>12. \A j \in IntentIds : \A x \in DOMAIN signatures[j] :
           /\ signatures[j][x].change \in Int /\ intents[j].account \in Accounts
           /\ signatures[j][x].change < nextChange[intents[j].account]
    <2> TAKE j \in IntentIds
    <2> TAKE x \in DOMAIN signatures[j]
    <2>1. signatures[j] \in Seq(SignatureType) BY <1>1 DEF TypeOK
    <2>2. signatures[j][x] \in SignatureType BY <2>1
    <2>3. intents[j].account \in Accounts BY <1>1 DEF SignedShape, PayoutsNamed
    <2> QED BY <1>1, <2>2, <2>3 DEF ChangeBelow, SignatureType, NoIndex
  <1>13. ChangeBelow'
    <2> SUFFICES ASSUME NEW j \in IntentIds, NEW x \in DOMAIN signatures'[j]
                 PROVE  signatures'[j][x].change < nextChange'[intents[j].account]
      BY <1>3 DEF ChangeBelow
    <2>1. CASE j = i /\ x = n + 1 BY <1>a, <1>2, <1>11, <2>1
    <2>2. CASE ~(j = i /\ x = n + 1)
      <3>1. x \in DOMAIN signatures[j] /\ signatures'[j][x] = signatures[j][x]
        BY <1>2, <2>2
      <3>2. nextChange[intents[j].account] <= nextChange'[intents[j].account]
            /\ nextChange[intents[j].account] \in Int /\ nextChange'[intents[j].account] \in Int
        BY <1>5, <1>11, <1>12, <3>1
      <3> QED BY <1>12, <3>1, <3>2
    <2> QED BY <2>1, <2>2
  <1>14. ASSUME NEW j \in IntentIds, j # i, intents[j].account = a,
                NEW y \in DOMAIN signatures[j], sig.change # NoIndex
         PROVE  sig.change # signatures[j][y].change
    <2>1. CASE sig.change = nextChange[a] BY <1>11, <1>12, <1>14, <2>1
    <2>2. CASE n # 0 /\ sig.change = First(i).change
      BY <1>a, <1>1, <1>7, <1>14, <2>2 DEF ChangeFresh, First
    <2> QED BY <1>8, <1>14, <2>1, <2>2
  <1>15. ChangeFresh'
    <2> SUFFICES ASSUME NEW j \in IntentIds, NEW k \in IntentIds, j # k,
                        intents[j].account = intents[k].account,
                        NEW x \in DOMAIN signatures'[j], NEW y \in DOMAIN signatures'[k],
                        signatures'[j][x].change # NoIndex
                 PROVE  signatures'[j][x].change # signatures'[k][y].change
      BY <1>3 DEF ChangeFresh
    <2>1. CASE j = i /\ x = n + 1
      <3>1. signatures'[k] = signatures[k] /\ signatures'[j][x] = sig BY <1>2, <2>1
      <3> QED BY <1>a, <1>14, <2>1, <3>1
    <2>2. CASE k = i /\ y = n + 1
      <3>1. signatures'[j] = signatures[j] /\ signatures'[k][y] = sig BY <1>2, <2>2
      <3>2. CASE sig.change = NoIndex BY <3>1, <3>2
      <3>3. CASE sig.change # NoIndex BY <1>a, <1>14, <2>2, <3>1, <3>3
      <3> QED BY <3>2, <3>3
    <2>3. CASE ~(j = i /\ x = n + 1) /\ ~(k = i /\ y = n + 1)
      <3>1. /\ x \in DOMAIN signatures[j] /\ signatures'[j][x] = signatures[j][x]
            /\ y \in DOMAIN signatures[k] /\ signatures'[k][y] = signatures[k][y]
        BY <1>2, <2>3
      <3> QED BY <1>1, <3>1 DEF ChangeFresh
    <2> QED BY <2>1, <2>2, <2>3
  <1> QED BY <1>10, <1>13, <1>15 DEF CountInv

(* The counters bound what is signed in every reachable state. *)
LEMMA CountInvariant == Spec => []CountInv
  <1>1. Init => CountInv
    <2> SUFFICES ASSUME Init PROVE CountInv OBVIOUS
    <2>1. SigInv BY SigInvInit
    <2>2. \A a \in Accounts : SignedNonces(a) = {} BY DEF Init, SignedNonces, Signed
    <2>3. NoncesTop /\ NoncesContiguous BY <2>2 DEF Init, NoncesTop, NoncesContiguous
    <2>4. ChangeBelow /\ ChangeFresh BY DEF Init, ChangeBelow, ChangeFresh
    <2> QED BY <2>1, <2>3, <2>4 DEF CountInv
  <1>2. CountInv /\ [Next]_vars => CountInv'
    <2> SUFFICES ASSUME CountInv, [Next]_vars PROVE CountInv' OBVIOUS
    <2>1. SigInv /\ TypeOK /\ PayoutsNamed BY DEF CountInv, SigInv
    <2>2. SigInv' BY <2>1, SigInvStep
    <2>3. CASE RegistryStep \/ MandateStep
      <3>1. UNCHANGED signed /\ intents' = intents BY <2>3, OtherFrame DEF wishes
      <3> QED BY <2>2, <3>1, CountFrame
    <2>4. CASE WishStep BY <2>1, <2>2, <2>4, WishFrame, CountFrame
    <2>5. ASSUME NEW i \in IntentIds, NEW sig, SignStep(i, sig) PROVE CountInv'
      BY <2>2, <2>5, SignKeepsCounts
    <2>6. CASE UNCHANGED vars
      <3>1. UNCHANGED signed /\ intents' = intents BY <2>6 DEF vars, wishes
      <3> QED BY <2>2, <3>1, CountFrame
    <2> QED BY <2>1, <2>3, <2>4, <2>5, <2>6, StepCases
  <1> QED BY <1>1, <1>2, PTL DEF Spec

(* Between two signed nonces of an account every nonce is signed (signEth),
   however payouts, bumps and cancels of other accounts interleave. *)
THEOREM NoncesContiguousAlways == Spec => []NoncesContiguous
  <1>1. CountInv => NoncesContiguous BY DEF CountInv
  <1> QED BY <1>1, CountInvariant, PTL

(* No change address is used for two payouts (signBtc, nextChange), also when
   a replacement needs change its first signature did not need. *)
THEOREM ChangeFreshAlways == Spec => []ChangeFresh
  <1>1. CountInv => ChangeFresh BY DEF CountInv
  <1> QED BY <1>1, CountInvariant, PTL
=============================================================================
