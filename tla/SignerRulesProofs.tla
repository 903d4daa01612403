-------------------------- MODULE SignerRulesProofs --------------------------
(* Theorems about who may have a payout signed, and when: the policy, the
   times an approval fixes, the cooldown of destinations, mandates. *)
EXTENDS SignerProofs, SumLemmas

(* isTightening is a preorder: a chain of tightenings is a tightening. *)
LEMMA TighteningReflexive ==
  ASSUME NEW p \in PolicyType
  PROVE  IsTightening(p, p)
  BY DEF IsTightening, PolicyType

(* Two tightenings in a row are one, field by field. *)
LEMMA TighteningTransitive ==
  ASSUME NEW p \in PolicyType, NEW q \in PolicyType, NEW r \in PolicyType,
         IsTightening(p, q), IsTightening(q, r)
  PROVE  IsTightening(p, r)
  <1>1. r.mode \in {"solo", "four_eyes"} /\ q.mode \in {"solo", "four_eyes"}
    BY DEF PolicyType
  <1>2. ~(p.mode = "four_eyes" /\ r.mode = "solo")
    BY <1>1 DEF IsTightening
  <1>3. /\ r.soloMinKeys >= p.soloMinKeys /\ r.soloDelay >= p.soloDelay
        /\ r.cooldown >= p.cooldown /\ r.window <= p.window
    BY DEF IsTightening, PolicyType
  <1>4. \A c \in Chains : r.feeCaps[c] <= p.feeCaps[c]
    BY DEF IsTightening, PolicyType
  <1>5. r.networks \subseteq p.networks BY DEF IsTightening
  <1>6. \A a \in Assets : r.limits[a].on =>
          /\ p.limits[a].on /\ r.limits[a].perPayout <= p.limits[a].perPayout
          /\ r.limits[a].perDay <= p.limits[a].perDay
    <2> TAKE a \in Assets
    <2> HAVE r.limits[a].on
    <2>1. q.limits[a].on /\ p.limits[a].on BY DEF IsTightening
    <2>2. /\ p.limits[a] \in [on: BOOLEAN, perPayout: Nat, perDay: Nat]
          /\ q.limits[a] \in [on: BOOLEAN, perPayout: Nat, perDay: Nat]
          /\ r.limits[a] \in [on: BOOLEAN, perPayout: Nat, perDay: Nat]
      BY DEF PolicyType
    <2>3. /\ r.limits[a].perPayout <= q.limits[a].perPayout
          /\ q.limits[a].perPayout <= p.limits[a].perPayout
          /\ r.limits[a].perDay <= q.limits[a].perDay
          /\ q.limits[a].perDay <= p.limits[a].perDay
      BY <2>1 DEF IsTightening
    <2> QED BY <2>1, <2>2, <2>3
  <1> QED BY <1>2, <1>3, <1>4, <1>5, <1>6 DEF IsTightening

(* A step either leaves the rules alone or is one of the two policy commands. *)
LEMMA RulesFrame ==
  ASSUME TypeOK, PayoutsNamed, [Next]_vars
  PROVE  \/ UNCHANGED rules
         \/ \E p \in Policies : PolicySet(p) \/ PolicyTighten(p)
  <1>1. CASE RegistryStep
    BY <1>1 DEF RegistryStep, AccountCreate, EnrolFinish, EnrolStart, KeyRevoke, Freeze,
       Unfreeze, Tick
  <1>2. CASE MandateStep
    BY <1>2 DEF MandateStep, MandateCreate, MandateApprove, MandateRevoke
  <1>3. CASE WishStep BY <1>3, WishFrame
  <1>4. ASSUME NEW i \in IntentIds, NEW sig, SignStep(i, sig) PROVE UNCHANGED rules
    BY <1>4 DEF SignStep, Record
  <1>5. CASE UNCHANGED vars BY <1>5 DEF vars
  <1> QED BY <1>1, <1>2, <1>3, <1>4, <1>5, StepCases

(* Whatever the app calls (policyTighten), the policy in force stays at least
   as strict as the one root set last. *)
THEOREM AppOnlyTightensAlways == Spec => []AppOnlyTightens
  <1>1. Init => AppOnlyTightens
    BY Constants, TighteningReflexive DEF Init, AppOnlyTightens
  <1>2. TypeOK /\ PayoutsNamed /\ AppOnlyTightens /\ [Next]_vars => AppOnlyTightens'
    <2> SUFFICES ASSUME TypeOK, PayoutsNamed, AppOnlyTightens, [Next]_vars
                 PROVE  AppOnlyTightens'
      OBVIOUS
    <2>1. policy \in PolicyType /\ rootPolicy \in PolicyType BY DEF TypeOK
    <2>2. CASE UNCHANGED rules BY <2>2 DEF rules, AppOnlyTightens, IsTightening
    <2>3. ASSUME NEW p \in Policies, PolicySet(p) PROVE AppOnlyTightens'
      <3>1. policy' = p /\ rootPolicy' = p BY <2>3 DEF PolicySet
      <3>2. IsTightening(p, p) BY Constants, TighteningReflexive
      <3> QED BY <3>1, <3>2 DEF AppOnlyTightens, IsTightening
    <2>4. ASSUME NEW p \in Policies, PolicyTighten(p) PROVE AppOnlyTightens'
      <3>1. policy' = p /\ rootPolicy' = rootPolicy /\ IsTightening(policy, p)
        BY <2>4 DEF PolicyTighten
      <3>2. IsTightening(rootPolicy, policy) BY DEF AppOnlyTightens
      <3>3. p \in PolicyType BY Constants
      <3>4. IsTightening(rootPolicy, p) BY <2>1, <3>1, <3>2, <3>3, TighteningTransitive
      <3> QED BY <3>1, <3>4 DEF AppOnlyTightens, IsTightening
    <2> QED BY <2>2, <2>3, <2>4, RulesFrame
  <1>3. TypeOK /\ PayoutsNamed /\ [Next]_vars => TypeOK' /\ PayoutsNamed' BY TypeStep
  <1>4. Init => TypeOK /\ PayoutsNamed BY InitType DEF Init, PayoutsNamed
  <1> QED BY <1>1, <1>2, <1>3, <1>4, PTL DEF Spec

(* intent.cancel and sign never both succeed on one intent. *)
THEOREM CancelIsFinalAlways == Spec => []CancelIsFinal
  <1>1. Init => CancelIsFinal BY DEF Init, CancelIsFinal
  <1>2. SigInv /\ CancelIsFinal /\ [Next]_vars => CancelIsFinal'
    <2> SUFFICES ASSUME SigInv, CancelIsFinal, [Next]_vars PROVE CancelIsFinal'
      OBVIOUS
    <2>0. TypeOK /\ PayoutsNamed BY DEF SigInv
    <2>1. CASE RegistryStep \/ MandateStep
      BY <2>1, OtherFrame DEF CancelIsFinal, Signed, wishes, signed
    <2>2. CASE WishStep
      <3>1. signatures' = signatures BY <2>0, <2>2, WishFrame DEF signed
      <3>2. \/ cancelled' = cancelled
            \/ \E i \in IntentIds : signatures[i] = <<>> /\ cancelled' = cancelled \cup {i}
        <4>1. ASSUME NEW i \in IntentIds, NEW n, NEW d, NEW p, CreateWhitelist(i, n, d, p)
              PROVE  cancelled' = cancelled
          BY <4>1 DEF CreateWhitelist
        <4>2. ASSUME NEW i \in IntentIds, NEW a, NEW s, NEW v, NEW f, NEW d, NEW p, NEW m,
                     CreatePayout(i, a, s, v, f, d, p, m)
              PROVE  cancelled' = cancelled
          BY <4>2 DEF CreatePayout
        <4>3. ASSUME NEW i \in IntentIds, NEW k, Approve(i, k) PROVE cancelled' = cancelled
          BY <4>3 DEF Approve
        <4>4. ASSUME NEW i \in IntentIds, IntentCancel(i)
              PROVE  signatures[i] = <<>> /\ cancelled' = cancelled \cup {i}
          BY <4>4 DEF IntentCancel
        <4>5. ASSUME NEW i \in IntentIds, WhitelistVeto(i) PROVE cancelled' = cancelled
          BY <4>5 DEF WhitelistVeto
        <4> QED BY <2>2, <4>1, <4>2, <4>3, <4>4, <4>5 DEF WishStep
      <3> QED BY <3>1, <3>2 DEF CancelIsFinal, Signed
    <2>3. ASSUME NEW i \in IntentIds, NEW sig, SignStep(i, sig) PROVE CancelIsFinal'
      <3>1. cancelled' = cancelled /\ i \notin cancelled
        BY <2>3 DEF SignStep, Record, wishes
      <3>2. \A j \in IntentIds : j # i => signatures'[j] = signatures[j]
        BY <2>0, <2>3, AppendSig
      <3>3. cancelled \subseteq IntentIds BY <2>0 DEF TypeOK
      <3> QED BY <3>1, <3>2, <3>3 DEF CancelIsFinal, Signed
    <2>4. CASE UNCHANGED vars
      BY <2>4 DEF vars, CancelIsFinal, Signed, wishes, signed
    <2> QED BY <2>0, <2>1, <2>2, <2>3, <2>4, StepCases
  <1> QED BY <1>1, <1>2, SigInvariant, PTL DEF Spec

-----------------------------------------------------------------------------
(* What lasts: facts of signer/state.ts that no later command takes back.  *)

(* a step gives payout j its first signature *)
FirstSigned(j) == signatures[j] = <<>> /\ signatures'[j] # <<>>

(* The clock only runs forward; texts of intents and mandates, times of an
   approval, keys of persons, taps on mandates and first signatures stay. *)
Lasting ==
  /\ now <= now'
  /\ \A j \in IntentIds :
       /\ Created(j) => intents'[j] = intents[j]
       /\ times[j].approvedAt # NoTime => times'[j] = times[j]
       /\ signatures[j] # <<>> => signatures'[j] # <<>> /\ First(j)' = First(j)
  /\ \A m \in Mandates :
       /\ mandates[m].on => mandates'[m] = mandates[m]
       /\ mandateApprovals[m] \subseteq mandateApprovals'[m]
  /\ \A k \in Keys : keyPerson[k] # None => keyPerson'[k] = keyPerson[k]
  /\ cancelled \subseteq cancelled' /\ vetoed \subseteq vetoed'

(* Registry steps move the clock, and enrol keys nobody has yet. *)
LEMMA RegistryLasting ==
  ASSUME TypeOK, RegistryStep
  PROVE  /\ now <= now' /\ UNCHANGED <<wishes, granted, signed>>
         /\ \A k \in Keys : keyPerson[k] # None => keyPerson'[k] = keyPerson[k]
  <1> USE DEF registry
  <1>1. now \in Int BY Constants DEF TypeOK, Time
  <1>2. ASSUME NEW a \in Accounts, NEW n \in Networks, AccountCreate(a, n)
        PROVE  UNCHANGED <<now, keyPerson, wishes, granted, signed>>
    BY <1>2 DEF AccountCreate
  <1>3. ASSUME NEW e \in EnrolIds, NEW k \in Keys, EnrolFinish(e, k)
        PROVE  /\ UNCHANGED <<now, wishes, granted, signed>>
               /\ \A l \in Keys : keyPerson[l] # None => keyPerson'[l] = keyPerson[l]
    BY <1>3 DEF EnrolFinish, TypeOK
  <1>4. ASSUME NEW e \in EnrolIds, NEW p \in Persons, EnrolStart(e, p)
        PROVE  UNCHANGED <<now, keyPerson, wishes, granted, signed>>
    BY <1>4 DEF EnrolStart
  <1>5. ASSUME NEW k \in Keys, KeyRevoke(k)
        PROVE  UNCHANGED <<now, keyPerson, wishes, granted, signed>>
    BY <1>5 DEF KeyRevoke
  <1>6. ASSUME NEW p \in Policies, PolicySet(p) \/ PolicyTighten(p)
        PROVE  UNCHANGED <<now, keyPerson, wishes, granted, signed>>
    BY <1>6 DEF PolicySet, PolicyTighten
  <1>7. CASE Freeze("app") \/ Freeze("admin") \/ Unfreeze
    BY <1>1, <1>7 DEF Freeze, Unfreeze
  <1>8. CASE Tick BY <1>1, <1>8 DEF Tick
  <1> QED BY <1>1, <1>2, <1>3, <1>4, <1>5, <1>6, <1>7, <1>8 DEF RegistryStep

(* Commands on intents settle the times of an intent at most once. *)
LEMMA WishLasting ==
  ASSUME TypeOK, WishStep
  PROVE  /\ UNCHANGED registry
         /\ \A j \in IntentIds : times[j].approvedAt # NoTime => times'[j] = times[j]
         /\ cancelled \subseteq cancelled' /\ vetoed \subseteq vetoed'
  <1>1. ASSUME NEW i \in IntentIds, NEW n \in Networks, NEW d \in Destinations,
               NEW p \in Persons, CreateWhitelist(i, n, d, p)
        PROVE  UNCHANGED <<registry, times, cancelled, vetoed>>
    BY <1>1 DEF CreateWhitelist
  <1>2. ASSUME NEW i \in IntentIds, NEW a \in Accounts, NEW s \in Assets, NEW v \in Amounts,
               NEW f \in Fees, NEW d \in Destinations, NEW p \in Persons,
               NEW m \in Mandates \cup {None}, CreatePayout(i, a, s, v, f, d, p, m)
        PROVE  /\ UNCHANGED <<registry, cancelled, vetoed>>
               /\ \A j \in IntentIds : times[j].approvedAt # NoTime => times'[j] = times[j]
    BY <1>2 DEF CreatePayout, Settle, TypeOK
  <1>3. ASSUME NEW i \in IntentIds, NEW k \in Keys, Approve(i, k)
        PROVE  /\ UNCHANGED <<registry, cancelled, vetoed>>
               /\ \A j \in IntentIds : times[j].approvedAt # NoTime => times'[j] = times[j]
    BY <1>3 DEF Approve, Settle, TypeOK
  <1>4. ASSUME NEW i \in IntentIds, IntentCancel(i) \/ WhitelistVeto(i)
        PROVE  /\ UNCHANGED <<registry, times>>
               /\ cancelled \subseteq cancelled' /\ vetoed \subseteq vetoed'
    BY <1>4 DEF IntentCancel, WhitelistVeto
  <1> QED BY <1>1, <1>2, <1>3, <1>4 DEF WishStep

(* Commands on mandates never change one that is there. *)
LEMMA MandateLasting ==
  ASSUME TypeOK, MandateStep
  PROVE  /\ UNCHANGED <<now, registry, rules>>
         /\ \A m \in Mandates :
              /\ mandates[m].on => mandates'[m] = mandates[m]
              /\ mandateApprovals[m] \subseteq mandateApprovals'[m]
  <1>1. ASSUME NEW m \in Mandates, NEW t \in MandateTerms, MandateCreate(m, t)
        PROVE  /\ UNCHANGED <<now, registry, rules, mandateApprovals>>
               /\ \A x \in Mandates : mandates[x].on => mandates'[x] = mandates[x]
    BY <1>1 DEF MandateCreate, TypeOK
  <1>2. ASSUME NEW m \in Mandates, NEW k \in Keys, MandateApprove(m, k)
        PROVE  /\ UNCHANGED <<now, registry, rules, mandates>>
               /\ \A x \in Mandates : mandateApprovals[x] \subseteq mandateApprovals'[x]
    BY <1>2 DEF MandateApprove, TypeOK
  <1>3. ASSUME NEW m \in Mandates, MandateRevoke(m)
        PROVE  UNCHANGED <<now, registry, rules, mandates, mandateApprovals>>
    BY <1>3 DEF MandateRevoke
  <1> QED BY <1>1, <1>2, <1>3 DEF MandateStep

(* A signature is appended: the first one stays the first. *)
LEMMA SignLasting ==
  ASSUME TypeOK, NEW i \in IntentIds, NEW sig, SignStep(i, sig)
  PROVE  /\ UNCHANGED <<now, rules, frozen, registry, wishes, granted>>
         /\ \A j \in IntentIds : signatures[j] # <<>> =>
              signatures'[j] # <<>> /\ First(j)' = First(j)
         /\ \A j \in IntentIds : FirstSigned(j) => j = i /\ First(j)' = sig
  <1>1. UNCHANGED <<now, rules, frozen, registry, wishes, granted>> BY DEF SignStep, Record
  <1>2. /\ \A j \in IntentIds : j # i => signatures'[j] = signatures[j]
        /\ Len(signatures[i]) \in Nat
        /\ DOMAIN signatures'[i] = 1..(Len(signatures[i]) + 1)
        /\ \A x \in 1..Len(signatures[i]) : signatures'[i][x] = signatures[i][x]
        /\ signatures'[i][Len(signatures[i]) + 1] = sig
        /\ signatures[i] = <<>> <=> Len(signatures[i]) = 0
    BY AppendSig
  <1>3. signatures'[i] # <<>> /\ 1 \in DOMAIN signatures'[i] BY <1>2
  <1>4. signatures[i] # <<>> => signatures'[i][1] = signatures[i][1] BY <1>2
  <1>5. signatures[i] = <<>> => signatures'[i][1] = sig BY <1>2
  <1> QED BY <1>1, <1>2, <1>3, <1>4, <1>5 DEF First, FirstSigned

(* Every step is Lasting, and a first signature passed all checks of sign. *)
LEMMA LastingStep ==
  ASSUME TypeOK, PayoutsNamed, [Next]_vars
  PROVE  /\ Lasting
         /\ \A j \in IntentIds : FirstSigned(j) =>
              /\ FirstAllowed(j) /\ intents[j].kind = "payout" /\ j \notin cancelled
              /\ First(j)'.at = now /\ \A k \in IntentIds : FirstSigned(k) => k = j
              /\ UNCHANGED <<now, rules, frozen, registry, wishes, granted>>
  <1>1. now \in Int BY Constants DEF TypeOK, Time
  <1>2. CASE RegistryStep
    BY <1>1, <1>2, RegistryLasting
       DEF Lasting, FirstSigned, First, wishes, granted, signed
  <1>3. CASE WishStep
    BY <1>1, <1>3, WishLasting, WishFrame
       DEF Lasting, FirstSigned, First, registry, granted, signed
  <1>4. CASE MandateStep
    BY <1>1, <1>4, MandateLasting, OtherFrame
       DEF Lasting, FirstSigned, First, wishes, registry, signed
  <1>5. ASSUME NEW i \in IntentIds, NEW sig, SignStep(i, sig)
        PROVE  /\ Lasting
               /\ \A j \in IntentIds : FirstSigned(j) =>
                    /\ FirstAllowed(j) /\ intents[j].kind = "payout" /\ j \notin cancelled
                    /\ First(j)'.at = now /\ \A k \in IntentIds : FirstSigned(k) => k = j
                    /\ UNCHANGED <<now, rules, frozen, registry, wishes, granted>>
    <2>1. Lasting BY <1>1, <1>5, SignLasting DEF Lasting, registry, wishes, granted
    <2>2. /\ intents[i].kind = "payout" /\ i \notin cancelled /\ sig.at = now
          /\ signatures[i] = <<>> => FirstAllowed(i)
      BY <1>5 DEF SignStep
    <2> QED BY <1>5, <2>1, <2>2, SignLasting DEF FirstSigned
  <1>6. CASE UNCHANGED vars
    BY <1>1, <1>6 DEF vars, Lasting, FirstSigned, First, wishes, granted, registry, signed
  <1> QED BY <1>2, <1>3, <1>4, <1>5, <1>6, StepCases

-----------------------------------------------------------------------------
(* Times, destinations and mandates.  A first signature is judged against the
   state of its moment; for what it proves to last, that state must be tied
   to what can no longer change: this is the inductive invariant. *)

(* every policy in force passed the floor of the build *)
PolicyFloor ==
  policy \in Policies \cup {DefaultPolicy} /\ policy.cooldown >= PROD_MIN.cooldown

(* `settle` is the only writer of times *)
TimesHonest ==
  \A i \in IntentIds :
    /\ times[i].signableAt # NoTime => times[i].approvedAt # NoTime
    /\ times[i].activeFrom # NoTime =>
         /\ times[i].approvedAt # NoTime
         /\ times[i].approvedAt + PROD_MIN.cooldown <= times[i].activeFrom

(* a payout on a mandate was started by the person the mandate is for, and
   is approved from the start *)
MandatesOn ==
  \A i \in IntentIds : intents[i].mandate # None =>
    /\ intents[i].kind = "payout" /\ times[i].approvedAt # NoTime
    /\ mandates[intents[i].mandate].on
    /\ intents[i].initiator = mandates[intents[i].mandate].grantee

(* taps on a mandate are taps of others, and keys keep their person *)
OthersTap ==
  /\ \A k \in active : keyPerson[k] # None
  /\ \A m \in Mandates : \A k \in mandateApprovals[m] :
       mandates[m].on /\ keyPerson[k] # None /\ keyPerson[k] # mandates[m].grantee

SignedBacked ==
  \A i \in IntentIds : Signed(i) =>
    /\ First(i).at <= now
    /\ intents[i].mandate # None => mandateApprovals[intents[i].mandate] # {}

RulesInv ==
  /\ SigInv /\ PolicyFloor /\ TimesHonest /\ MandatesOn /\ OthersTap
  /\ SignedInTime /\ CooldownKept /\ SignedBacked

(* checkPolicyChain lets no policy below the floor through. *)
LEMMA PolicyFloorStep ==
  ASSUME TypeOK, PayoutsNamed, PolicyFloor, [Next]_vars
  PROVE  PolicyFloor'
  <1>1. CASE UNCHANGED rules BY <1>1 DEF rules, PolicyFloor
  <1>2. ASSUME NEW p \in Policies, PolicySet(p) \/ PolicyTighten(p) PROVE PolicyFloor'
    BY <1>2 DEF PolicySet, PolicyTighten, CheckPolicyChain, PolicyValid, PolicyFloor
  <1> QED BY <1>1, <1>2, RulesFrame

(* `settle` keeps the times of an intent in order. *)
LEMMA SettleHonest ==
  ASSUME TypeOK, PolicyFloor, NEW kind, NEW reached, NEW old \in TimesType,
         old.signableAt # NoTime => old.approvedAt # NoTime,
         old.activeFrom # NoTime => /\ old.approvedAt # NoTime
                                    /\ old.approvedAt + PROD_MIN.cooldown <= old.activeFrom
  PROVE  LET t == Settle(kind, old, reached) IN
         /\ t.signableAt # NoTime => t.approvedAt # NoTime
         /\ t.activeFrom # NoTime => /\ t.approvedAt # NoTime
                                     /\ t.approvedAt + PROD_MIN.cooldown <= t.activeFrom
  <1>1. /\ now \in Nat /\ policy.cooldown \in Nat /\ PROD_MIN.cooldown \in Nat
        /\ PROD_MIN.cooldown <= policy.cooldown
    BY Constants, ConstantsAssumption DEF TypeOK, Time, PolicyType, PolicyFloor
  <1>2. now # NoTime BY <1>1 DEF NoTime
  <1>3. now + PROD_MIN.cooldown <= ActiveFrom BY <1>1 DEF ActiveFrom
  <1>4. CASE old.approvedAt # NoTime \/ ~reached BY <1>4 DEF Settle
  <1>5. CASE old.approvedAt = NoTime /\ reached /\ kind = "payout"
    <2>1. old.activeFrom = NoTime BY <1>5
    <2>2. Settle(kind, old, reached) =
            [old EXCEPT !.approvedAt = now, !.signableAt = SignableAt,
                        !.signUntil = SignableAt + policy.window]
      BY <1>5 DEF Settle
    <2> QED BY <1>2, <2>1, <2>2 DEF TimesType
  <1>6. CASE old.approvedAt = NoTime /\ reached /\ kind # "payout"
    <2>1. Settle(kind, old, reached) =
            [old EXCEPT !.approvedAt = now, !.activeFrom = ActiveFrom]
      BY <1>6 DEF Settle
    <2> QED BY <1>2, <1>3, <2>1 DEF TimesType
  <1> QED BY <1>4, <1>5, <1>6

(* Times stay in order over every step. *)
LEMMA TimesHonestStep ==
  ASSUME TypeOK, PayoutsNamed, PolicyFloor, TimesHonest, [Next]_vars
  PROVE  TimesHonest'
  <1>1. ASSUME UNCHANGED times PROVE TimesHonest' BY <1>1 DEF TimesHonest
  <1>2. ASSUME NEW i \in IntentIds, NEW kind, NEW reached,
               times' = [times EXCEPT ![i] = Settle(kind, @, reached)]
        PROVE  TimesHonest'
    <2>1. times[i] \in TimesType BY DEF TypeOK
    <2>2. times'[i] = Settle(kind, times[i], reached)
          /\ \A j \in IntentIds : j # i => times'[j] = times[j]
      BY <1>2 DEF TypeOK
    <2>3. /\ times'[i].signableAt # NoTime => times'[i].approvedAt # NoTime
          /\ times'[i].activeFrom # NoTime =>
               /\ times'[i].approvedAt # NoTime
               /\ times'[i].approvedAt + PROD_MIN.cooldown <= times'[i].activeFrom
      BY <2>1, <2>2, SettleHonest DEF TimesHonest
    <2> QED BY <2>2, <2>3 DEF TimesHonest
  <1>3. CASE RegistryStep \/ MandateStep BY <1>1, <1>3, OtherFrame DEF wishes
  <1>4. CASE WishStep
    <2>1. ASSUME NEW i \in IntentIds, NEW n, NEW d, NEW p, CreateWhitelist(i, n, d, p)
          PROVE  TimesHonest'
      BY <1>1, <2>1 DEF CreateWhitelist
    <2>2. ASSUME NEW i \in IntentIds, NEW a, NEW s, NEW v, NEW f, NEW d, NEW p, NEW m,
                 CreatePayout(i, a, s, v, f, d, p, m)
          PROVE  TimesHonest'
      BY <1>2, <2>2 DEF CreatePayout
    <2>3. ASSUME NEW i \in IntentIds, NEW k, Approve(i, k) PROVE TimesHonest'
      BY <1>2, <2>3 DEF Approve
    <2>4. ASSUME NEW i \in IntentIds, IntentCancel(i) \/ WhitelistVeto(i) PROVE TimesHonest'
      BY <1>1, <2>4 DEF IntentCancel, WhitelistVeto
    <2> QED BY <1>4, <2>1, <2>2, <2>3, <2>4 DEF WishStep
  <1>5. ASSUME NEW i \in IntentIds, NEW sig, SignStep(i, sig) PROVE TimesHonest'
    BY <1>1, <1>5 DEF SignStep, Record, wishes
  <1>6. CASE UNCHANGED vars BY <1>1, <1>6 DEF vars, wishes
  <1> QED BY <1>3, <1>4, <1>5, <1>6, StepCases

(* A command on an intent is the creation of a payout, or leaves every mandate
   of an intent alone. *)
LEMMA NewIntent ==
  ASSUME TypeOK, PayoutsNamed, [Next]_vars
  PROVE  \/ \A j \in IntentIds : \/ intents'[j] = intents[j]
                                 \/ intents'[j].mandate = None
         \/ \E i \in IntentIds, a \in Accounts, s \in Assets, v \in Amounts, f \in Fees,
              d \in Destinations, p \in Persons, m \in Mandates \cup {None} :
                CreatePayout(i, a, s, v, f, d, p, m)
  <1> DEFINE Kept == \A j \in IntentIds : intents'[j] = intents[j] \/ intents'[j].mandate = None
  <1>1. CASE RegistryStep \/ MandateStep BY <1>1, OtherFrame DEF wishes
  <1>2. CASE WishStep
    <2>1. ASSUME NEW i \in IntentIds, NEW n, NEW d, NEW p, CreateWhitelist(i, n, d, p)
          PROVE  Kept
      BY <2>1 DEF CreateWhitelist, TypeOK
    <2>2. ASSUME NEW i \in IntentIds, NEW k, Approve(i, k) PROVE Kept
      BY <2>2 DEF Approve
    <2>3. ASSUME NEW i \in IntentIds, IntentCancel(i) \/ WhitelistVeto(i) PROVE Kept
      BY <2>3 DEF IntentCancel, WhitelistVeto
    <2> QED BY <1>2, <2>1, <2>2, <2>3 DEF WishStep
  <1>3. ASSUME NEW i \in IntentIds, NEW sig, SignStep(i, sig) PROVE Kept
    BY <1>3 DEF SignStep, Record, wishes
  <1>4. CASE UNCHANGED vars BY <1>4 DEF vars, wishes
  <1> QED BY <1>1, <1>2, <1>3, <1>4, StepCases

(* What the creation of a payout does. *)
LEMMA NewPayout ==
  ASSUME TypeOK, NEW i \in IntentIds, NEW a \in Accounts, NEW s \in Assets, NEW v \in Amounts,
         NEW f \in Fees, NEW d \in Destinations, NEW p \in Persons,
         NEW m \in Mandates \cup {None}, CreatePayout(i, a, s, v, f, d, p, m)
  PROVE  /\ UNCHANGED <<now, cancelled, vetoed, granted, signed>> /\ ~Created(i)
         /\ \A j \in IntentIds : j # i => intents'[j] = intents[j] /\ times'[j] = times[j]
         /\ intents'[i].kind = "payout" /\ intents'[i].mandate = m /\ intents'[i].amount = v
         /\ intents'[i].initiator = p
         /\ m # None => /\ times'[i].approvedAt # NoTime
                        /\ mandates[m].on /\ p = mandates[m].grantee
                        /\ MandateUsed(m) + v <= mandates[m].total
  <1>1. now # NoTime BY Constants DEF TypeOK, Time, NoTime
  <1>2. times[i] \in TimesType BY DEF TypeOK
  <1>3. m # None => Settle("payout", times[i], m # None).approvedAt # NoTime
    BY <1>1, <1>2 DEF Settle, TimesType
  <1>4. times'[i] = Settle("payout", times[i], m # None)
    BY DEF CreatePayout, TypeOK
  <1>5. intents' = [intents EXCEPT ![i] =
          [kind |-> "payout", net |-> accounts[a].net, account |-> a, dest |-> d,
           asset |-> s, amount |-> v, feeCap |-> f, initiator |-> p,
           createdAt |-> now, expiresAt |-> now + PAYOUT_TTL, mandate |-> m]]
    BY DEF CreatePayout
  <1>6. /\ intents'[i].kind = "payout" /\ intents'[i].mandate = m /\ intents'[i].amount = v
        /\ intents'[i].initiator = p
        /\ \A j \in IntentIds : j # i => intents'[j] = intents[j]
    BY <1>5 DEF TypeOK
  <1>7. /\ UNCHANGED <<now, cancelled, vetoed, granted, signed>> /\ ~Created(i)
        /\ \A j \in IntentIds : j # i => times'[j] = times[j]
    BY DEF CreatePayout, Fresh, TypeOK
  <1>8. m # None => /\ mandates[m].on /\ p = mandates[m].grantee
                    /\ MandateUsed(m) + v <= mandates[m].total
    BY DEF CreatePayout, MandateCovers
  <1> QED BY <1>3, <1>4, <1>6, <1>7, <1>8

(* Payouts keep the mandate they were created on, and its terms. *)
LEMMA MandatesOnStep ==
  ASSUME TypeOK, PayoutsNamed, MandatesOn, [Next]_vars
  PROVE  MandatesOn'
  <1> SUFFICES ASSUME NEW i \in IntentIds, intents'[i].mandate # None
               PROVE  /\ intents'[i].kind = "payout" /\ times'[i].approvedAt # NoTime
                      /\ mandates'[intents'[i].mandate].on
                      /\ intents'[i].initiator = mandates'[intents'[i].mandate].grantee
    BY DEF MandatesOn
  <1>1. CASE intents'[i] = intents[i]
    <2>1. intents[i].mandate \in Mandates BY <1>1 DEF TypeOK, IntentType
    <2>2. /\ mandates'[intents[i].mandate] = mandates[intents[i].mandate]
          /\ times'[i] = times[i]
      BY <1>1, <2>1, LastingStep DEF Lasting, MandatesOn
    <2> QED BY <1>1, <2>2 DEF MandatesOn
  <1>2. CASE intents'[i] # intents[i]
    <2>1. PICK j \in IntentIds, a \in Accounts, s \in Assets, v \in Amounts, f \in Fees,
               d \in Destinations, p \in Persons, m \in Mandates \cup {None} :
                 CreatePayout(j, a, s, v, f, d, p, m)
      BY <1>2, NewIntent
    <2>2. j = i BY <1>2, <2>1, NewPayout
    <2> QED BY <2>1, <2>2, NewPayout DEF granted
  <1> QED BY <1>1, <1>2

(* mandate_self: nobody ever taps the mandate that is for himself. *)
LEMMA OthersTapStep ==
  ASSUME TypeOK, PayoutsNamed, OthersTap, [Next]_vars
  PROVE  OthersTap'
  <1>0. active \subseteq Keys /\ \A m \in Mandates : mandateApprovals[m] \subseteq Keys
    BY DEF TypeOK
  <1>1. \A k \in active' : keyPerson'[k] # None
    <2>1. CASE active' \subseteq active BY <1>0, <2>1, LastingStep DEF Lasting, OthersTap
    <2>2. ASSUME NEW e \in EnrolIds, NEW k \in Keys, EnrolFinish(e, k)
          PROVE  \A l \in active' : keyPerson'[l] # None
      BY <2>2 DEF EnrolFinish, OthersTap, TypeOK
    <2>3. active' \subseteq active \/ \E e \in EnrolIds, k \in Keys : EnrolFinish(e, k)
      <3>1. CASE RegistryStep
        BY <3>1 DEF RegistryStep, AccountCreate, EnrolStart, KeyRevoke, PolicySet,
           PolicyTighten, Freeze, Unfreeze, Tick, registry
      <3>2. CASE MandateStep BY <3>2, MandateLasting DEF registry
      <3>3. CASE WishStep BY <3>3, WishLasting DEF registry
      <3>4. ASSUME NEW i \in IntentIds, NEW sig, SignStep(i, sig) PROVE UNCHANGED active
        BY <3>4 DEF SignStep, Record, registry
      <3>5. CASE UNCHANGED vars BY <3>5 DEF vars, registry
      <3> QED BY <3>1, <3>2, <3>3, <3>4, <3>5, StepCases
    <2> QED BY <2>1, <2>2, <2>3
  <1>2. ASSUME NEW m \in Mandates, NEW k \in mandateApprovals'[m]
        PROVE  mandates'[m].on /\ keyPerson'[k] # None /\ keyPerson'[k] # mandates'[m].grantee
    <2>1. CASE k \in mandateApprovals[m]
      BY <1>0, <2>1, LastingStep DEF Lasting, OthersTap
    <2>2. CASE k \notin mandateApprovals[m]
      <3>1. mandateApprovals' # mandateApprovals BY <2>2
      <3>2. PICK x \in Mandates, l \in Keys : MandateApprove(x, l)
        <4>1. CASE MandateStep
          BY <3>1, <4>1 DEF MandateStep, MandateCreate, MandateRevoke
        <4>2. CASE RegistryStep BY <3>1, <4>2, RegistryLasting DEF granted
        <4>3. CASE WishStep BY <3>1, <4>3, WishFrame DEF granted
        <4>4. ASSUME NEW i \in IntentIds, NEW sig, SignStep(i, sig)
              PROVE  UNCHANGED mandateApprovals
          BY <4>4 DEF SignStep, Record, granted
        <4>5. CASE UNCHANGED vars BY <3>1, <4>5 DEF vars, granted
        <4> QED BY <3>1, <4>1, <4>2, <4>3, <4>4, <4>5, StepCases
      <3>3. x = m /\ l = k BY <2>2, <3>2 DEF MandateApprove, TypeOK
      <3> QED BY <3>2, <3>3 DEF MandateApprove, NotSelf, OthersTap, registry
    <2> QED BY <2>1, <2>2
  <1> QED BY <1>1, <1>2 DEF OthersTap

(* approvalsSatisfied needs at least one key that is still active. *)
LEMMA QuorumNeedsKey ==
  ASSUME NEW keys, ApprovalsQuorum(keys)
  PROVE  keys \cap active # {}
  <1> SUFFICES ASSUME keys \cap active = {} PROVE FALSE OBVIOUS
  <1>1. {keyPerson[k] : k \in keys \cap active} = {} OBVIOUS
  <1>2. Cardinality({}) = 0 BY FS_EmptySet
  <1>3. policy.mode # "four_eyes" BY <1>1, <1>2 DEF ApprovalsQuorum
  <1> QED BY <1>1, <1>3 DEF ApprovalsQuorum

(* The window, the cooldown and the taps that a first signature was checked
   against stay what they were. *)
LEMMA SignedRulesStep ==
  ASSUME RulesInv, SigInv', [Next]_vars
  PROVE  SignedInTime' /\ CooldownKept' /\ SignedBacked'
  <1>1. /\ TypeOK /\ PayoutsNamed /\ SignedShape /\ TimesHonest /\ MandatesOn
        /\ SignedInTime /\ CooldownKept /\ SignedBacked
    BY DEF RulesInv, SigInv
  <1>2. Lasting BY <1>1, LastingStep
  <1>3. /\ now \in Int /\ now' \in Int /\ now <= now'
        /\ \A i \in IntentIds : Signed(i) => First(i).at \in Int
    <2>1. TypeOK' BY DEF SigInv
    <2>2. \A i \in IntentIds : Signed(i) => First(i) \in SignatureType
      BY <1>1, SignedCreated DEF Signed, First, TypeOK
    <2> QED BY <1>2, <2>1, <2>2, Constants, <1>1 DEF TypeOK, Time, Lasting, SignatureType
  <1>4. ASSUME NEW i \in IntentIds, Signed(i)
        PROVE  /\ Signed(i)' /\ First(i)' = First(i) /\ intents'[i] = intents[i]
               /\ times'[i] = times[i]
               /\ intents[i].mandate # None =>
                    /\ intents[i].mandate \in Mandates
                    /\ mandates'[intents[i].mandate] = mandates[intents[i].mandate]
                    /\ mandateApprovals[intents[i].mandate] \subseteq
                          mandateApprovals'[intents[i].mandate]
    <2>1. Created(i) BY <1>1, <1>4, SignedCreated DEF Signed
    <2>2. times[i].approvedAt # NoTime BY <1>1, <1>4 DEF SignedInTime
    <2>3. intents[i].mandate # None => intents[i].mandate \in Mandates
      BY <1>1 DEF TypeOK, IntentType
    <2> QED BY <1>1, <1>2, <1>4, <2>1, <2>2, <2>3 DEF Lasting, Signed, MandatesOn
  <1>5. ASSUME NEW i \in IntentIds, ~Signed(i), Signed(i)'
        PROVE  /\ FirstAllowed(i) /\ First(i)'.at = now
               /\ UNCHANGED <<now, rules, frozen, registry, wishes, granted>>
    BY <1>1, <1>5, LastingStep DEF Signed, FirstSigned
  <1>6. SignedInTime'
    <2> SUFFICES ASSUME NEW i \in IntentIds, Signed(i)'
                 PROVE  /\ times'[i].approvedAt # NoTime
                        /\ times'[i].signableAt <= First(i)'.at
                        /\ First(i)'.at <= times'[i].signUntil
                        /\ intents'[i].mandate # None =>
                             First(i)'.at < mandates'[intents'[i].mandate].validUntil
      BY DEF SignedInTime
    <2>1. CASE Signed(i) BY <1>1, <1>4, <2>1 DEF SignedInTime
    <2>2. CASE ~Signed(i)
      BY <1>1, <1>5, <2>2
         DEF FirstAllowed, InWindow, MandateStands, TimesHonest, wishes, granted
    <2> QED BY <2>1, <2>2
  <1>7. CooldownKept'
    <2> DEFINE Listed(i, w) ==
                 /\ intents[w].kind = "whitelist"
                 /\ intents[w].net = intents[i].net /\ intents[w].dest = intents[i].dest
                 /\ times[w].approvedAt # NoTime
    <2> SUFFICES ASSUME NEW i \in IntentIds, Signed(i)'
                 PROVE  \E w \in IntentIds :
                          /\ intents'[w].kind = "whitelist"
                          /\ intents'[w].net = intents'[i].net
                          /\ intents'[w].dest = intents'[i].dest
                          /\ times'[w].approvedAt # NoTime
                          /\ times'[w].approvedAt + PROD_MIN.cooldown <= First(i)'.at
      BY DEF CooldownKept
    <2>1. CASE Signed(i)
      <3>1. PICK w \in IntentIds :
              Listed(i, w) /\ times[w].approvedAt + PROD_MIN.cooldown <= First(i).at
        BY <1>1, <2>1 DEF CooldownKept
      <3>2. intents'[w] = intents[w] /\ times'[w] = times[w]
        BY <1>2, <3>1 DEF Lasting, Created
      <3> QED BY <1>4, <2>1, <3>1, <3>2
    <2>2. CASE ~Signed(i)
      <3>1. /\ ActiveWhitelist(intents[i].net, intents[i].dest) # {}
            /\ First(i)'.at = now /\ UNCHANGED <<intents, times>>
        BY <1>5, <2>2 DEF FirstAllowed, wishes
      <3>2. PICK w \in IntentIds :
              /\ intents[w].kind = "whitelist"
              /\ intents[w].net = intents[i].net /\ intents[w].dest = intents[i].dest
              /\ times[w].activeFrom # NoTime /\ times[w].activeFrom <= now
        BY <3>1 DEF ActiveWhitelist
      <3>3. /\ times[w].approvedAt # NoTime
            /\ times[w].approvedAt + PROD_MIN.cooldown <= times[w].activeFrom
        BY <1>1, <3>2 DEF TimesHonest
      <3>4. times[w] \in TimesType /\ PROD_MIN.cooldown \in Nat
        BY <1>1, ConstantsAssumption DEF TypeOK
      <3>5. times[w].approvedAt \in Int /\ times[w].activeFrom \in Int
        BY <3>4 DEF TimesType, TimeOpt
      <3>6. times[w].approvedAt + PROD_MIN.cooldown <= now
        BY <1>3, <3>2, <3>3, <3>4, <3>5
      <3> QED BY <3>1, <3>2, <3>3, <3>6
    <2> QED BY <2>1, <2>2
  <1>8. SignedBacked'
    <2> SUFFICES ASSUME NEW i \in IntentIds, Signed(i)'
                 PROVE  /\ First(i)'.at <= now'
                        /\ intents'[i].mandate # None =>
                             mandateApprovals'[intents'[i].mandate] # {}
      BY DEF SignedBacked
    <2>1. CASE Signed(i) BY <1>1, <1>3, <1>4, <2>1 DEF SignedBacked
    <2>2. CASE ~Signed(i)
      <3>1. /\ Quorum(i) /\ First(i)'.at = now
            /\ UNCHANGED <<now, intents, mandateApprovals>>
        BY <1>5, <2>2 DEF FirstAllowed, wishes, granted
      <3>2. intents[i].mandate # None => mandateApprovals[intents[i].mandate] # {}
        BY <3>1, QuorumNeedsKey DEF Quorum, MandateQuorum
      <3> QED BY <1>3, <3>1, <3>2
    <2> QED BY <2>1, <2>2
  <1> QED BY <1>6, <1>7, <1>8

(* The inductive invariant holds in every reachable state. *)
LEMMA RulesInvariant == Spec => []RulesInv
  <1>1. Init => RulesInv
    <2> SUFFICES ASSUME Init PROVE RulesInv OBVIOUS
    <2>1. SigInv BY SigInvInit
    <2>2. PolicyFloor BY DefaultAssumption DEF Init, PolicyFloor
    <2>3. TimesHonest BY DEF Init, TimesHonest, NoTimes
    <2>4. MandatesOn BY DEF Init, MandatesOn
    <2>5. OthersTap BY DEF Init, OthersTap
    <2>6. SignedInTime /\ CooldownKept /\ SignedBacked
      BY DEF Init, SignedInTime, CooldownKept, SignedBacked, Signed
    <2> QED BY <2>1, <2>2, <2>3, <2>4, <2>5, <2>6 DEF RulesInv
  <1>2. RulesInv /\ [Next]_vars => RulesInv'
    <2> SUFFICES ASSUME RulesInv, [Next]_vars PROVE RulesInv' OBVIOUS
    <2>1. SigInv /\ TypeOK /\ PayoutsNamed BY DEF RulesInv, SigInv
    <2>2. SigInv' BY <2>1, SigInvStep
    <2>3. PolicyFloor' /\ TimesHonest' /\ MandatesOn' /\ OthersTap'
      BY <2>1, PolicyFloorStep, TimesHonestStep, MandatesOnStep, OthersTapStep DEF RulesInv
    <2>4. SignedInTime' /\ CooldownKept' /\ SignedBacked' BY <2>2, SignedRulesStep
    <2> QED BY <2>2, <2>3, <2>4 DEF RulesInv
  <1> QED BY <1>1, <1>2, PTL DEF Spec

(* Whatever is approved, tightened or ticked in between, a payout is signed
   within the window its approval fixed and before its mandate ends (sign). *)
THEOREM SignedInTimeAlways == Spec => []SignedInTime
  <1>1. RulesInv => SignedInTime BY DEF RulesInv
  <1> QED BY <1>1, RulesInvariant, PTL

(* Money only goes where the minimum cooldown has passed since the quorum
   (settle, activeDestination), for any sequence of listings and vetoes. *)
THEOREM CooldownKeptAlways == Spec => []CooldownKept
  <1>1. RulesInv => CooldownKept BY DEF RulesInv
  <1> QED BY <1>1, RulesInvariant, PTL

(* No payout on a mandate rests on its own initiator alone (mandateApprove,
   mandateCovers), for any number of keys, persons and mandates. *)
THEOREM MandateNeedsOtherAlways == Spec => []MandateNeedsOther
  <1>1. ASSUME RulesInv PROVE MandateNeedsOther
    <2> SUFFICES ASSUME NEW i \in IntentIds, Signed(i), intents[i].mandate # None
                 PROVE  \E k \in mandateApprovals[intents[i].mandate] :
                          keyPerson[k] # intents[i].initiator
      BY DEF MandateNeedsOther
    <2>1. TypeOK /\ MandatesOn /\ OthersTap /\ SignedBacked BY <1>1 DEF RulesInv, SigInv
    <2>2. intents[i].mandate \in Mandates BY <2>1 DEF TypeOK, IntentType
    <2>3. PICK k \in mandateApprovals[intents[i].mandate] : TRUE BY <2>1 DEF SignedBacked
    <2> QED BY <2>1, <2>2, <2>3 DEF OthersTap, MandatesOn
  <1> QED BY <1>1, RulesInvariant, PTL

(* Under four_eyes a quorum holds keys of two persons. *)
LEMMA QuorumNeedsTwo ==
  ASSUME NEW keys, ApprovalsQuorum(keys), policy.mode = "four_eyes"
  PROVE  \E k, l \in keys \cap active : keyPerson[k] # keyPerson[l]
  <1> DEFINE persons == {keyPerson[k] : k \in keys \cap active}
  <1> SUFFICES ASSUME \A k, l \in keys \cap active : keyPerson[k] = keyPerson[l]
               PROVE  FALSE
    OBVIOUS
  <1>1. Cardinality(persons) >= 2 BY DEF ApprovalsQuorum
  <1>2. PICK k \in keys \cap active : TRUE BY QuorumNeedsKey
  <1>3. persons = {keyPerson[k]} BY <1>2
  <1> HIDE DEF persons
  <1>4. Cardinality(persons) = 1 BY <1>3, FS_Singleton
  <1> QED BY <1>1, <1>4

(* The quorum is taken again at the first signature: keys revoked since do
   not count, and under four_eyes two persons stand behind it (sign). *)
THEOREM SignedByActiveKeysAlways == Spec => SignedByActiveKeys
  <1> DEFINE A == \A i \in IntentIds : signatures[i] = <<>> /\ signatures'[i] # <<>> =>
                    LET keys == Backing(i) \cap active IN
                    /\ keys # {}
                    /\ policy.mode = "four_eyes" =>
                         \E k, l \in keys : keyPerson[k] # keyPerson[l]
  <1>1. ASSUME TypeOK, PayoutsNamed, [Next]_vars PROVE A
    <2> SUFFICES ASSUME NEW i \in IntentIds, FirstSigned(i)
                 PROVE  /\ Backing(i) \cap active # {}
                        /\ policy.mode = "four_eyes" =>
                             \E k, l \in Backing(i) \cap active : keyPerson[k] # keyPerson[l]
      BY DEF FirstSigned
    <2>1. Quorum(i) BY <1>1, LastingStep DEF FirstAllowed
    <2>2. ApprovalsQuorum(Backing(i)) BY <2>1 DEF Quorum, MandateQuorum, Backing
    <2> QED BY <2>2, QuorumNeedsKey, QuorumNeedsTwo
  <1>2. SigInv => TypeOK /\ PayoutsNamed BY DEF SigInv
  <1>3. SigInv /\ [Next]_vars => [A]_vars BY <1>1, <1>2
  <1>4. Spec => [][A]_vars BY <1>3, SigInvariant, PTL DEF Spec
  <1> QED BY <1>4 DEF SignedByActiveKeys

-----------------------------------------------------------------------------
(* Sums: the daily limit and the total of a mandate.                        *)

Weights(f) == [i \in IntentIds |-> f[i].amount]

(* AmountOf is a sum over a finite set of natural weights. *)
LEMMA AmountIsSum ==
  ASSUME NEW S \in SUBSET IntentIds
  PROVE  AmountOf(S) = SumOver(Weights(intents), S)
  BY ZenonT(60) DEF AmountOf, MapThenSumSet, MapThenFoldSet, SumOver, IsSum, Pick, Weights

(* There are finitely many intents, with amounts that are naturals. *)
LEMMA AmountsFinite ==
  ASSUME NEW f \in [IntentIds -> IntentType]
  PROVE  /\ \A S \in SUBSET IntentIds : IsFiniteSet(S)
         /\ \A i \in IntentIds : Weights(f)[i] = f[i].amount /\ Weights(f)[i] \in Nat
  <1>1. IsFiniteSet(IntentIds) BY ConstantsAssumption, FS_Interval DEF IntentIds
  <1>2. \A S \in SUBSET IntentIds : IsFiniteSet(S) BY <1>1, FS_Subset
  <1> QED BY <1>2 DEF Weights, IntentType

(* what SignedWithin adds up *)
Window(asset, t) ==
  {i \in IntentIds : /\ Signed(i) /\ intents[i].asset = asset
                     /\ t - DAY < First(i).at /\ First(i).at <= t}

(* A first signature keeps the day's sum below the limit of the policy of its
   moment; every other step leaves the payouts of a day as they are. *)
LEMMA DailyStep ==
  ASSUME RulesInv, RulesInv', DailyLimitKept, [Next]_vars
  PROVE  DailyLimitKept'
  <1> SUFFICES ASSUME NEW asset \in Assets, NEW t \in Time
               PROVE  \/ SignedWithin(asset, t)' = 0
                      \/ \E p \in Policies \cup {DefaultPolicy} :
                           /\ p.limits[asset].on
                           /\ SignedWithin(asset, t)' <= p.limits[asset].perDay
    BY DEF DailyLimitKept
  <1> DEFINE w == Weights(intents)
             S == Window(asset, t)
             T == Window(asset, t)'
  <1>1. /\ TypeOK /\ PayoutsNamed /\ SignedShape /\ PolicyFloor /\ SignedBacked
        /\ TypeOK' /\ SignedBacked'
    BY DEF RulesInv, SigInv
  <1>2. Lasting BY <1>1, LastingStep
  <1>3. S \in SUBSET IntentIds /\ T \in SUBSET IntentIds BY DEF Window
  <1>4. SignedWithin(asset, t) = SumOver(w, S)
    BY <1>3, AmountIsSum DEF SignedWithin, Window
  <1>5. SignedWithin(asset, t)' = SumOver(Weights(intents'), T)
    <2>1. SignedWithin(asset, t)' = AmountOf(Window(asset, t))' BY DEF SignedWithin, Window
    <2>2. AmountOf(Window(asset, t))' = SumOver(Weights(intents'), T)
      BY <1>3, ZenonT(60) DEF AmountOf, MapThenSumSet, MapThenFoldSet, SumOver, IsSum, Pick, Weights
    <2> QED BY <2>1, <2>2
  <1>6. /\ \A R \in SUBSET IntentIds : IsFiniteSet(R)
        /\ \A i \in IntentIds : w[i] = intents[i].amount /\ w[i] \in Nat
        /\ \A i \in IntentIds : Weights(intents')[i] = intents'[i].amount
    BY <1>1, AmountsFinite DEF TypeOK
  <1>7. \A i \in IntentIds : Signed(i) =>
          Signed(i)' /\ First(i)' = First(i) /\ intents'[i] = intents[i]
    BY <1>1, <1>2, SignedCreated DEF Lasting, Signed
  <1>8. CASE \A i \in T : Signed(i)
    <2>1. T = S BY <1>7, <1>8 DEF Window
    <2>2. \A i \in T : Weights(intents')[i] = w[i] BY <1>6, <1>7, <1>8, <1>3
    <2> HIDE DEF S, T, w
    <2>3. SumOver(Weights(intents'), T) = SumOver(w, T) BY <1>3, <1>6, <2>2, SumCongruent
    <2>4. SignedWithin(asset, t)' = SignedWithin(asset, t) BY <1>4, <1>5, <2>1, <2>3
    <2> QED BY <2>4 DEF DailyLimitKept
  <1>9. ASSUME NEW i \in T, ~Signed(i)
        PROVE  \E p \in Policies \cup {DefaultPolicy} :
                 p.limits[asset].on /\ SignedWithin(asset, t)' <= p.limits[asset].perDay
    <2> DEFINE D == {j \in IntentIds : /\ signatures[j] # <<>> /\ intents[j].asset = asset
                                       /\ signatures[j][1].at > now - DAY}
    <2>1. i \in IntentIds /\ FirstSigned(i) BY <1>9 DEF Window, FirstSigned, Signed
    <2>2. /\ FirstAllowed(i) /\ First(i)'.at = now /\ UNCHANGED <<now, policy, intents>>
          /\ \A k \in IntentIds : FirstSigned(k) => k = i
      BY <1>1, <2>1, LastingStep DEF rules, wishes
    <2>3. /\ intents[i].asset = asset /\ now <= t
          /\ SpendAllowed(asset, intents[i].amount, SignedLast24h(asset))
      BY <1>9, <2>2 DEF Window, FirstAllowed
    <2>4. D \in SUBSET IntentIds /\ i \notin D BY <1>9 DEF Signed
    <2>5. SignedLast24h(asset) = SumOver(w, D)
      BY <2>4, AmountIsSum DEF SignedLast24h
    <2>6. T \subseteq D \cup {i}
      <3> SUFFICES ASSUME NEW j \in T, j # i PROVE j \in D OBVIOUS
      <3>1. j \in IntentIds /\ Signed(j)' /\ intents'[j].asset = asset
            /\ t - DAY < First(j)'.at
        BY DEF Window
      <3>2. Signed(j) BY <2>2, <3>1 DEF FirstSigned, Signed
      <3>3. First(j) \in SignatureType BY <1>1, <3>1, <3>2, SignedCreated DEF Signed, First, TypeOK
      <3>4. First(j).at \in Int /\ now \in Int /\ t \in Int /\ DAY \in Int
        BY <1>1, <3>3, ConstantsAssumption, Constants DEF SignatureType, TypeOK, Time
      <3>5. First(j).at > now - DAY BY <1>7, <2>3, <3>1, <3>2, <3>4
      <3> QED BY <2>2, <3>1, <3>2, <3>5 DEF Signed, First
    <2>7. D \cup {i} \in SUBSET IntentIds /\ i \in D \cup {i} /\ (D \cup {i}) \ {i} = D
      BY <2>1, <2>4
    <2>8. Weights(intents') = w BY <2>2
    <2> HIDE DEF D, T, S, w
    <2>9. SumOver(w, T) <= SumOver(w, D \cup {i})
      BY <1>6, <2>6, <2>7, SumMonotone
    <2>10. SumOver(w, D \cup {i}) = intents[i].amount + SumOver(w, D)
      <3>1. IsFiniteSet(D \cup {i}) /\ \A y \in D \cup {i} : w[y] \in Int BY <1>6, <2>7
      <3>2. SumOver(w, D \cup {i}) = w[i] + SumOver(w, (D \cup {i}) \ {i})
        BY <2>7, <3>1, SumRemove
      <3> QED BY <1>6, <2>1, <2>7, <3>2
    <2>11. SumOver(w, D) \in Nat /\ SumOver(w, T) \in Nat /\ intents[i].amount \in Nat
      BY <1>3, <1>6, <2>1, <2>4, SumType
    <2>12. /\ policy \in Policies \cup {DefaultPolicy}
           /\ policy.limits[asset].on
           /\ SumOver(w, D) + intents[i].amount <= policy.limits[asset].perDay
      BY <1>1, <2>3, <2>5 DEF PolicyFloor, SpendAllowed
    <2>13. policy.limits[asset].perDay \in Nat BY <1>1 DEF TypeOK, PolicyType
    <2>14. SignedWithin(asset, t)' <= policy.limits[asset].perDay
      BY <1>5, <2>8, <2>9, <2>10, <2>11, <2>12, <2>13
    <2> QED BY <2>12, <2>14
  <1> QED BY <1>8, <1>9

(* signedLast24h is taken over the day before each first signature, and that
   bounds every stretch of 24 hours: for any number of payouts and policies
   (sign, spendAllowed). *)
THEOREM DailyLimitKeptAlways == Spec => []DailyLimitKept
  <1>1. ASSUME Init PROVE DailyLimitKept
    <2> SUFFICES ASSUME NEW asset \in Assets, NEW t \in Time PROVE SignedWithin(asset, t) = 0
      BY DEF DailyLimitKept
    <2>1. Window(asset, t) = {} BY <1>1 DEF Init, Window, Signed
    <2>2. SignedWithin(asset, t) = SumOver(Weights(intents), {})
      BY <2>1, AmountIsSum DEF SignedWithin, Window
    <2> QED BY <2>2, FS_EmptySet, SumStep
  <1>2. RulesInv /\ RulesInv' /\ DailyLimitKept /\ [Next]_vars => DailyLimitKept' BY DailyStep
  <1> QED BY <1>1, <1>2, RulesInvariant, PTL DEF Spec

(* what mandateUsed adds up *)
Used(m) ==
  {i \in IntentIds : /\ intents[i].mandate = m /\ i \notin cancelled \cup vetoed
                     /\ signatures[i] # <<>> \/ IsOpen(i)}

(* open and signed payouts together stay within the total: what is signed
   alone is not inductive, an open payout may be signed at any time *)
UsedWithinTotal ==
  \A m \in Mandates : mandates[m].on => MandateUsed(m) <= mandates[m].total

VetoedLists == \A i \in vetoed : intents[i].kind = "whitelist"

(* whitelistVeto is about destinations only. *)
LEMMA VetoedListsStep ==
  ASSUME TypeOK, PayoutsNamed, VetoedLists, [Next]_vars
  PROVE  VetoedLists'
  <1>1. ASSUME vetoed' = vetoed PROVE VetoedLists'
    <2>1. vetoed \subseteq IntentIds BY DEF TypeOK
    <2> QED BY <1>1, <2>1, LastingStep DEF VetoedLists, Lasting, Created
  <1>2. ASSUME NEW i \in IntentIds, WhitelistVeto(i) PROVE VetoedLists'
    BY <1>2 DEF WhitelistVeto, VetoedLists
  <1>3. vetoed' = vetoed \/ \E i \in IntentIds : WhitelistVeto(i)
    <2>1. CASE RegistryStep \/ MandateStep BY <2>1, OtherFrame DEF wishes
    <2>2. CASE WishStep
      <3>1. ASSUME NEW i, NEW n, NEW d, NEW p, CreateWhitelist(i, n, d, p)
            PROVE  vetoed' = vetoed
        BY <3>1 DEF CreateWhitelist
      <3>2. ASSUME NEW i, NEW a, NEW s, NEW v, NEW f, NEW d, NEW p, NEW m,
                   CreatePayout(i, a, s, v, f, d, p, m)
            PROVE  vetoed' = vetoed
        BY <3>2 DEF CreatePayout
      <3>3. ASSUME NEW i, NEW k, Approve(i, k) PROVE vetoed' = vetoed BY <3>3 DEF Approve
      <3>4. ASSUME NEW i, IntentCancel(i) PROVE vetoed' = vetoed BY <3>4 DEF IntentCancel
      <3> QED BY <2>2, <3>1, <3>2, <3>3, <3>4 DEF WishStep
    <2>3. ASSUME NEW i \in IntentIds, NEW sig, SignStep(i, sig) PROVE vetoed' = vetoed
      BY <2>3 DEF SignStep, Record, wishes
    <2>4. CASE UNCHANGED vars BY <2>4 DEF vars, wishes
    <2> QED BY <2>1, <2>2, <2>3, <2>4, StepCases
  <1> QED BY <1>1, <1>2, <1>3

(* A payout that was there only ever leaves mandateUsed: expiry, cancel and
   the end of its window take it out, the first signature finds it open. *)
LEMMA UsedShrinks ==
  ASSUME RulesInv, TypeOK', [Next]_vars, NEW m \in Mandates, NEW i \in Used(m)',
         intents'[i] = intents[i]
  PROVE  i \in Used(m)
  <1>1. TypeOK /\ PayoutsNamed /\ MandatesOn /\ TimesHonest BY DEF RulesInv, SigInv
  <1>2. Lasting BY <1>1, LastingStep
  <1>3. m # None BY ConstantsAssumption
  <1>4. /\ i \in IntentIds /\ intents[i].mandate = m /\ i \notin cancelled' \cup vetoed'
        /\ signatures'[i] # <<>> \/ IsOpen(i)'
    BY DEF Used
  <1>5. intents[i].kind = "payout" /\ times[i].approvedAt # NoTime BY <1>1, <1>3, <1>4 DEF MandatesOn
  <1>6. i \notin cancelled \cup vetoed /\ times'[i] = times[i] BY <1>2, <1>4, <1>5 DEF Lasting
  <1>7. times[i].signUntil \in Int /\ now \in Int /\ now' \in Int
    BY <1>1, <1>4, Constants DEF TypeOK, TimesType, TimeOpt, Time
  <1>8. CASE signatures[i] # <<>> BY <1>4, <1>6, <1>8 DEF Used
  <1>9. CASE signatures[i] = <<>> /\ signatures'[i] # <<>>
    <2>1. now <= times[i].signUntil
      BY <1>1, <1>4, <1>9, LastingStep DEF FirstSigned, FirstAllowed, InWindow
    <2>2. IsOpen(i) BY <1>5, <1>6, <1>9, <2>1 DEF IsOpen, Created
    <2> QED BY <1>4, <1>6, <2>2 DEF Used
  <1>10. CASE signatures[i] = <<>> /\ signatures'[i] = <<>>
    <2>1. now' <= times[i].signUntil BY <1>4, <1>5, <1>6, <1>10 DEF IsOpen
    <2>2. now <= times[i].signUntil BY <1>2, <1>7, <2>1 DEF Lasting
    <2>3. IsOpen(i) BY <1>5, <1>6, <1>10, <2>2 DEF IsOpen, Created
    <2> QED BY <1>4, <1>6, <2>3 DEF Used
  <1> QED BY <1>8, <1>9, <1>10

(* Only the creation of a payout adds to mandateUsed, and it looks first. *)
LEMMA UsedStep ==
  ASSUME RulesInv, RulesInv', UsedWithinTotal, [Next]_vars
  PROVE  UsedWithinTotal'
  <1> SUFFICES ASSUME NEW m \in Mandates, mandates'[m].on
               PROVE  MandateUsed(m)' <= mandates'[m].total
    BY DEF UsedWithinTotal
  <1> DEFINE w == Weights(intents)
             v == Weights(intents')
             S == Used(m)
             T == Used(m)'
  <1>1. TypeOK /\ PayoutsNamed /\ MandatesOn /\ TypeOK' /\ MandatesOn'
    BY DEF RulesInv, SigInv
  <1>2. Lasting BY <1>1, LastingStep
  <1>3. S \in SUBSET IntentIds /\ T \in SUBSET IntentIds /\ m # None
    BY ConstantsAssumption DEF Used
  <1>4. MandateUsed(m) = SumOver(w, S) BY <1>3, AmountIsSum DEF MandateUsed, Used
  <1>5. MandateUsed(m)' = SumOver(v, T)
    <2>1. MandateUsed(m)' = AmountOf(Used(m))' BY DEF MandateUsed, Used
    <2>2. AmountOf(Used(m))' = SumOver(v, T)
      BY <1>3, ZenonT(60) DEF AmountOf, MapThenSumSet, MapThenFoldSet, SumOver, IsSum, Pick, Weights
    <2> QED BY <2>1, <2>2
  <1>6. /\ \A R \in SUBSET IntentIds : IsFiniteSet(R)
        /\ \A i \in IntentIds : w[i] = intents[i].amount /\ w[i] \in Nat
        /\ \A i \in IntentIds : v[i] = intents'[i].amount /\ v[i] \in Nat
    BY <1>1, AmountsFinite DEF TypeOK
  <1>7. \A i \in S : i \in IntentIds /\ Created(i) /\ mandates[m].on /\ v[i] = w[i]
    <2> SUFFICES ASSUME NEW i \in S
                 PROVE  i \in IntentIds /\ Created(i) /\ mandates[m].on /\ v[i] = w[i]
      OBVIOUS
    <2>1. i \in IntentIds /\ intents[i].mandate = m BY DEF Used
    <2>2. Created(i) /\ mandates[m].on BY <1>1, <1>3, <2>1 DEF MandatesOn, Created
    <2>3. intents'[i] = intents[i] BY <1>2, <2>1, <2>2 DEF Lasting
    <2> QED BY <1>6, <2>1, <2>2, <2>3
  <1>8. mandates[m].on => mandates'[m] = mandates[m] BY <1>2 DEF Lasting
  <1>9. mandates'[m].total \in Nat BY <1>1 DEF TypeOK, MandateType
  <1>10. ASSUME NEW i \in T, i \notin S
         PROVE  /\ \A j \in T : j # i => j \in S
                /\ mandates[m].on /\ SumOver(w, S) + v[i] <= mandates[m].total
    <2>1. i \in IntentIds /\ intents'[i].mandate = m BY DEF Used
    <2>2. intents'[i] # intents[i] BY <1>1, <1>10, UsedShrinks
    <2>3. PICK j \in IntentIds, a \in Accounts, s \in Assets, u \in Amounts, f \in Fees,
               d \in Destinations, p \in Persons, x \in Mandates \cup {None} :
                 CreatePayout(j, a, s, u, f, d, p, x)
      BY <1>1, <1>3, <2>1, <2>2, NewIntent
    <2>4. /\ \A l \in IntentIds : l # j => intents'[l] = intents[l]
          /\ intents'[j].mandate = x /\ intents'[j].amount = u
          /\ x # None => mandates[x].on /\ MandateUsed(x) + u <= mandates[x].total
      BY <1>1, <2>3, NewPayout
    <2>5. j = i /\ x = m BY <2>1, <2>2, <2>4
    <2>6. \A l \in T : l # i => l \in S BY <1>1, <1>3, <2>4, <2>5, UsedShrinks
    <2> QED BY <1>3, <1>4, <1>6, <2>1, <2>4, <2>5, <2>6
  <1> HIDE DEF w, v, S, T
  <1>11. SumOver(v, S) = SumOver(w, S) BY <1>3, <1>6, <1>7, SumCongruent
  <1>12. SumOver(v, S) \in Nat /\ SumOver(v, T) \in Nat BY <1>3, <1>6, SumType
  <1>13. CASE T \subseteq S
    <2>1. SumOver(v, T) <= SumOver(v, S) BY <1>3, <1>6, <1>13, SumMonotone
    <2>2. CASE mandates[m].on
      <3>1. SumOver(w, S) <= mandates'[m].total BY <1>4, <1>8, <2>2 DEF UsedWithinTotal
      <3> QED BY <1>5, <1>9, <1>11, <1>12, <2>1, <3>1
    <2>3. CASE ~mandates[m].on
      <3>1. S = {} BY <1>7, <2>3
      <3>2. SumOver(v, S) = 0 BY <3>1, FS_EmptySet, SumStep
      <3> QED BY <1>5, <1>9, <1>12, <2>1, <3>2
    <2> QED BY <2>2, <2>3
  <1>14. ASSUME NEW i \in T, i \notin S PROVE MandateUsed(m)' <= mandates'[m].total
    <2>1. /\ S \cup {i} \in SUBSET IntentIds /\ T \subseteq S \cup {i}
          /\ i \in S \cup {i} /\ (S \cup {i}) \ {i} = S
      BY <1>3, <1>10, <1>14
    <2>2. SumOver(v, T) <= SumOver(v, S \cup {i})
      BY <1>6, <2>1, SumMonotone
    <2>3. SumOver(v, S \cup {i}) = v[i] + SumOver(v, S)
      <3>1. IsFiniteSet(S \cup {i}) /\ \A y \in S \cup {i} : v[y] \in Int BY <1>6, <2>1
      <3>2. SumOver(v, S \cup {i}) = v[i] + SumOver(v, (S \cup {i}) \ {i})
        BY <2>1, <3>1, SumRemove
      <3> QED BY <2>1, <3>2
    <2>4. v[i] \in Nat BY <1>3, <1>6, <1>14
    <2>5. SumOver(w, S) + v[i] <= mandates'[m].total BY <1>8, <1>10, <1>14
    <2> QED BY <1>5, <1>9, <1>11, <1>12, <2>2, <2>3, <2>4, <2>5
  <1> QED BY <1>13, <1>14

(* No mix of open, expired, cancelled and signed payouts takes more out of a
   mandate than its total (mandateUsed, mandateCovers, sign). *)
THEOREM MandateWithinTotalAlways == Spec => []MandateWithinTotal
  <1>1. Init => UsedWithinTotal /\ VetoedLists
    BY DEF Init, UsedWithinTotal, VetoedLists
  <1>2. RulesInv /\ RulesInv' /\ UsedWithinTotal /\ VetoedLists /\ [Next]_vars =>
          UsedWithinTotal' /\ VetoedLists'
    BY UsedStep, VetoedListsStep DEF RulesInv, SigInv
  <1>3. ASSUME RulesInv, UsedWithinTotal, VetoedLists, CancelIsFinal PROVE MandateWithinTotal
    <2> SUFFICES ASSUME NEW m \in Mandates
                 PROVE  AmountOf({i \in IntentIds : intents[i].mandate = m /\ Signed(i)})
                          <= mandates[m].total
      BY DEF MandateWithinTotal
    <2> DEFINE w == Weights(intents)
               S == Used(m)
               T == {i \in IntentIds : intents[i].mandate = m /\ Signed(i)}
    <2>1. TypeOK /\ MandatesOn /\ m # None BY <1>3, ConstantsAssumption DEF RulesInv, SigInv
    <2>2. S \in SUBSET IntentIds /\ T \in SUBSET IntentIds BY DEF Used
    <2>3. T \subseteq S
      BY <1>3, <2>1 DEF Used, MandatesOn, VetoedLists, CancelIsFinal, Signed
    <2>4. AmountOf(T) = SumOver(w, T) /\ MandateUsed(m) = SumOver(w, S)
      BY <2>2, AmountIsSum DEF MandateUsed, Used
    <2>5. /\ \A R \in SUBSET IntentIds : IsFiniteSet(R)
          /\ \A i \in IntentIds : w[i] \in Nat
      BY <2>1, AmountsFinite DEF TypeOK
    <2>6. mandates[m].total \in Nat BY <2>1 DEF TypeOK, MandateType
    <2>7. T # {} => mandates[m].on BY <2>1 DEF MandatesOn
    <2> HIDE DEF w, S, T
    <2>8. SumOver(w, T) \in Nat /\ SumOver(w, S) \in Nat BY <2>2, <2>5, SumType
    <2>9. CASE T # {}
      <3>1. SumOver(w, T) <= SumOver(w, S) BY <2>2, <2>3, <2>5, SumMonotone
      <3>2. SumOver(w, S) <= mandates[m].total BY <1>3, <2>4, <2>7, <2>9 DEF UsedWithinTotal
      <3>3. AmountOf(T) <= mandates[m].total BY <2>4, <2>6, <2>8, <3>1, <3>2
      <3> QED BY <3>3 DEF T
    <2>10. CASE T = {}
      <3>1. SumOver(w, T) = 0 BY <2>10, FS_EmptySet, SumStep
      <3>2. AmountOf(T) <= mandates[m].total BY <2>4, <2>6, <3>1
      <3> QED BY <3>2 DEF T
    <2> QED BY <2>9, <2>10
  <1> QED BY <1>1, <1>2, <1>3, RulesInvariant, CancelIsFinalAlways, PTL DEF Spec
=============================================================================
