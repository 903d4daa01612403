------------------------------- MODULE Signer -------------------------------
(***************************************************************************)
(* The offline signer (signer/service.ts, signer/state.ts): the only       *)
(* process that holds keys of the hot wallets.  Its handlers run one after *)
(* the other (Node, synchronous) and each of them journals at most one     *)
(* event before it answers, so a handler is one action.  The module starts *)
(* right after `initCommit`; what happens before is SignerHome's.          *)
(*                                                                         *)
(* Abstractions.  Seconds are ticks of `now`.  A random intent id is the   *)
(* next unused number.  WebAuthn verification is external: an approval     *)
(* reaches the model only when it verifies.  Fees are integers and a fee   *)
(* rate is a fee (a transaction has size 1).  An outpoint belongs to one   *)
(* account, with the value its previous transaction proves.                *)
(***************************************************************************)
EXTENDS Integers, FiniteSets, Sequences, FiniteSetsExt

CONSTANTS
  Networks,        \* networks whose seed is in seeds.json (never a live one)
  ChainOf,         \* [Networks -> {"bitcoin", "ethereum"}]
  Accounts,        \* account ids the app may create
  Assets,          \* asset codes
  AssetsOf,        \* [Networks -> SUBSET Assets]
  Destinations,    \* addresses of recipients
  Outpoints,       \* bitcoin outputs the accounts may own
  OutpointsOf,     \* [Accounts -> SUBSET Outpoints]
  ValueOf,         \* [Outpoints -> Nat]
  Persons,
  Keys,            \* security keys (credential ids)
  EnrolIds,
  MaxIntents,      \* bound: intents created in a behaviour
  Mandates,        \* mandate ids
  MandateTerms,    \* the mandate texts the app may submit
  Policies,        \* the policies root or the app may submit
  DefaultPolicy,   \* defaultPolicy(networks, dev)
  Amounts, Fees, Nonces,  \* amounts, fees and nonces of plans
  PROD_MIN,        \* [soloMinKeys, soloDelay, cooldown]: floor of every policy
  PAYOUT_TTL, WHITELIST_TTL, MANDATE_TTL, ENROL_TTL,
  DAY,             \* 86_400 s
  MAX_OPEN, MAX_PER_DAY, DUST,
  MaxTime,         \* bound: the last tick
  MaxVersion,      \* bound: the last policy version
  None

VARIABLES
  now,             \* the signer's clock
  policy,          \* policy in force, without its version
  version,
  rootPolicy,      \* history: the policy root set last (journal: by = "admin")
  frozen,          \* "no", or who froze
  accounts,        \* [Accounts -> [net, index]], net = None: not created
  nextIndex,       \* [Networks -> Nat]
  enrolments,      \* [EnrolIds -> [person, expiresAt, done]]
  keyPerson,       \* [Keys -> Persons or None]
  active,          \* keys that are enrolled and not revoked
  intents,         \* [IntentIds -> what the canonical text fixes]
  approvals,       \* [IntentIds -> SUBSET Keys]
  times,           \* [IntentIds -> the times `settle` sets]
  cancelled, vetoed,
  signatures,      \* [IntentIds -> Seq(Signature)]
  mandates,        \* [Mandates -> terms and createdAt]
  mandateApprovals, mandateApprovedAt, revoked,
  reserved,        \* [Outpoints -> intent that spends it, or 0]
  nonces,          \* [Accounts -> highest signed nonce, or -1]
  nextChange       \* [Accounts -> next index of the change branch]

registry == <<accounts, nextIndex, enrolments, keyPerson, active>>
rules    == <<policy, version, rootPolicy>>
wishes   == <<intents, approvals, times, cancelled, vetoed>>
granted  == <<mandates, mandateApprovals, mandateApprovedAt, revoked>>
signed   == <<signatures, reserved, nonces, nextChange>>
vars     == <<now, rules, frozen, registry, wishes, granted, signed>>

-----------------------------------------------------------------------------
(* Types                                                                    *)

NoTime  == -1
NoIndex == -1
NoNonce == -1
IntentIds == 1..MaxIntents
Time     == 0..MaxTime
TimeOpt  == Int
Chains   == {"bitcoin", "ethereum"}
Modes    == {"first", "bump", "cancel"}

PolicyType ==
  [mode: {"solo", "four_eyes"}, soloMinKeys: Nat, soloDelay: Nat, cooldown: Nat,
   window: Nat, limits: [Assets -> [on: BOOLEAN, perPayout: Nat, perDay: Nat]],
   feeCaps: [Chains -> Nat], networks: SUBSET Networks]

IntentType ==
  [kind: {"none", "whitelist", "payout"}, net: Networks \cup {None},
   account: Accounts \cup {None}, dest: Destinations \cup {None},
   asset: Assets \cup {None}, amount: Nat, feeCap: Nat,
   initiator: Persons \cup {None}, createdAt: Int, expiresAt: Int,
   mandate: Mandates \cup {None}]

TimesType == [approvedAt: TimeOpt, signableAt: TimeOpt, signUntil: TimeOpt,
              activeFrom: TimeOpt]

SignatureType ==
  [mode: Modes, at: Int, fee: Nat, inputs: SUBSET Outpoints, nonce: Nat \cup {NoNonce},
   change: Nat \cup {NoIndex}]

TermsType ==
  [grantee: Persons, issuer: Persons, net: Networks, asset: Assets, perPayout: Nat,
   total: Nat, dests: SUBSET Destinations, validFrom: Int, validUntil: Int]

MandateType ==
  [on: BOOLEAN, grantee: Persons \cup {None}, net: Networks \cup {None},
   asset: Assets \cup {None}, perPayout: Nat, total: Nat,
   dests: SUBSET Destinations, validFrom: Int, validUntil: Int, createdAt: Int]

ASSUME ConstantsAssumption ==
  /\ ChainOf \in [Networks -> Chains]
  /\ AssetsOf \in [Networks -> SUBSET Assets]
  /\ OutpointsOf \in [Accounts -> SUBSET Outpoints]
  /\ ValueOf \in [Outpoints -> Nat]
  /\ MaxIntents \in Nat /\ MaxTime \in Nat /\ MaxVersion \in Nat
  /\ Policies \subseteq PolicyType /\ DefaultPolicy \in PolicyType
  /\ MandateTerms \subseteq TermsType
  /\ Amounts \subseteq Nat \ {0} /\ Fees \subseteq Nat /\ Nonces \subseteq Nat
  /\ PROD_MIN \in [soloMinKeys: Nat, soloDelay: Nat, cooldown: Nat]
  /\ {PAYOUT_TTL, WHITELIST_TTL, MANDATE_TTL, ENROL_TTL, DAY, MAX_OPEN, MAX_PER_DAY, DUST}
       \subseteq Nat
  /\ None \notin Networks \cup Accounts \cup Assets \cup Persons \cup Mandates
  /\ IsFiniteSet(Keys)

(* No outpoint pays to two accounts: two accounts never share an address.   *)
ASSUME OwnOutpoints ==
  \A a, b \in Accounts : a # b => OutpointsOf[a] \cap OutpointsOf[b] = {}

(* The default policy passes the checks every later policy must pass.       *)
ASSUME DefaultAssumption ==
  /\ DefaultPolicy.soloMinKeys >= PROD_MIN.soloMinKeys
  /\ DefaultPolicy.soloDelay >= PROD_MIN.soloDelay
  /\ DefaultPolicy.cooldown >= PROD_MIN.cooldown

TypeOK ==
  /\ now \in Time
  /\ policy \in PolicyType /\ rootPolicy \in PolicyType /\ version \in 1..(MaxVersion + 1)
  /\ frozen \in {"no", "app", "admin"}
  /\ accounts \in [Accounts -> [net: Networks \cup {None}, index: Nat]]
  /\ nextIndex \in [Networks -> Nat]
  /\ enrolments \in [EnrolIds -> [person: Persons \cup {None}, expiresAt: Int, done: BOOLEAN]]
  /\ keyPerson \in [Keys -> Persons \cup {None}] /\ active \in SUBSET Keys
  /\ intents \in [IntentIds -> IntentType]
  /\ approvals \in [IntentIds -> SUBSET Keys]
  /\ times \in [IntentIds -> TimesType]
  /\ cancelled \in SUBSET IntentIds /\ vetoed \in SUBSET IntentIds
  /\ signatures \in [IntentIds -> Seq(SignatureType)]
  /\ mandates \in [Mandates -> MandateType]
  /\ mandateApprovals \in [Mandates -> SUBSET Keys]
  /\ mandateApprovedAt \in [Mandates -> Int] /\ revoked \in SUBSET Mandates
  /\ reserved \in [Outpoints -> IntentIds \cup {0}]
  /\ nonces \in [Accounts -> Nat \cup {NoNonce}] /\ nextChange \in [Accounts -> Nat]

-----------------------------------------------------------------------------
(* Policy (lib/wallet/core/policy.ts)                                       *)

(* policyIssues is empty: the floor of the build, and no payout limit above
   the day's. The remaining checks are about the form of the values. *)
PolicyValid(p) ==
  /\ p.soloMinKeys >= PROD_MIN.soloMinKeys
  /\ p.soloDelay >= PROD_MIN.soloDelay
  /\ p.cooldown >= PROD_MIN.cooldown
  /\ \A a \in Assets : p.limits[a].on => p.limits[a].perPayout <= p.limits[a].perDay

(* isTightening: `next` is at least as strict as `prev` in every respect.   *)
IsTightening(prev, next) ==
  /\ ~(prev.mode = "four_eyes" /\ next.mode = "solo")
  /\ next.soloMinKeys >= prev.soloMinKeys
  /\ next.soloDelay >= prev.soloDelay
  /\ next.cooldown >= prev.cooldown
  /\ next.window <= prev.window
  /\ \A c \in Chains : next.feeCaps[c] <= prev.feeCaps[c]
  /\ next.networks \subseteq prev.networks
  /\ \A a \in Assets : next.limits[a].on =>
       /\ prev.limits[a].on
       /\ next.limits[a].perPayout <= prev.limits[a].perPayout
       /\ next.limits[a].perDay <= prev.limits[a].perDay

SpendAllowed(asset, amount, signedLast24h) ==
  LET l == policy.limits[asset] IN
  l.on /\ amount <= l.perPayout /\ signedLast24h + amount <= l.perDay

(* approvalsSatisfied, over the keys that are active now.                   *)
KeysOf(p) == {k \in active : keyPerson[k] = p}

ApprovalsQuorum(keys) ==
  LET persons == {keyPerson[k] : k \in keys \cap active} IN
  IF policy.mode = "four_eyes"
  THEN Cardinality(persons) >= 2
  ELSE \E p \in persons : Cardinality(KeysOf(p)) >= policy.soloMinKeys

-----------------------------------------------------------------------------
(* State of intents and mandates (signer/state.ts, queries of service.ts)   *)

Created(i) == intents[i].kind # "none"
Fresh(i) == ~Created(i) /\ \A j \in 1..(i - 1) : Created(j)

MandateQuorum(m) == m \notin revoked /\ ApprovalsQuorum(mandateApprovals[m])

\* Mutant of quorum: an intent on a mandate stays approved for good.
QuorumSticky(i) ==
  \/ times[i].approvedAt # NoTime
  \/ intents[i].mandate = None /\ ApprovalsQuorum(approvals[i])

Quorum(i) ==
  IF intents[i].mandate # None
  THEN mandates[intents[i].mandate].on /\ MandateQuorum(intents[i].mandate)
  ELSE ApprovalsQuorum(approvals[i])

NoTimes == [approvedAt |-> NoTime, signableAt |-> NoTime,
            signUntil |-> NoTime, activeFrom |-> NoTime]

\* Mutant of ActiveFrom: a new destination is usable as soon as it is approved.
ActiveFromApproval == now

ActiveFrom == now + policy.cooldown

SignableAt == now + (IF policy.mode = "solo" THEN policy.soloDelay ELSE 0)

(* settle: the first time the quorum is reached fixes all times for good.   *)
Settle(kind, old, reached) ==
  IF old.approvedAt # NoTime \/ ~reached THEN old
  ELSE IF kind = "payout"
  THEN [old EXCEPT !.approvedAt = now, !.signableAt = SignableAt,
                   !.signUntil = SignableAt + policy.window]
  ELSE [old EXCEPT !.approvedAt = now, !.activeFrom = ActiveFrom]

IsOpen(i) ==
  /\ Created(i) /\ i \notin cancelled \cup vetoed
  /\ IF intents[i].kind = "whitelist"
     THEN times[i].approvedAt = NoTime /\ now <= intents[i].expiresAt
     ELSE /\ signatures[i] = <<>>
          /\ IF times[i].approvedAt = NoTime
             THEN now <= intents[i].expiresAt
             ELSE now <= times[i].signUntil

(* activeDestination: approved, its cooldown over, neither vetoed nor
   cancelled. *)
ActiveWhitelist(net, dest) ==
  {w \in IntentIds :
     /\ intents[w].kind = "whitelist" /\ intents[w].net = net /\ intents[w].dest = dest
     /\ w \notin cancelled \cup vetoed
     /\ times[w].activeFrom # NoTime /\ times[w].activeFrom <= now}

CheckNetwork(net) == net \in policy.networks

(* sum += amount over these intents                                         *)
AmountOf(ids) == MapThenSumSet(LAMBDA i : intents[i].amount, ids)

\* Mutant of signedLast24h: counts by calendar day, so the window never rolls.
SignedToday(asset) ==
  AmountOf({i \in IntentIds : /\ signatures[i] # <<>> /\ intents[i].asset = asset
                              /\ signatures[i][1].at \div DAY = now \div DAY})

SignedLast24h(asset) ==
  AmountOf({i \in IntentIds : /\ signatures[i] # <<>> /\ intents[i].asset = asset
                              /\ signatures[i][1].at > now - DAY})

\* Mutant of mandateUsed: only what is signed counts, not what is open.
MandateUsedSigned(m) ==
  AmountOf({i \in IntentIds : intents[i].mandate = m /\ signatures[i] # <<>>})

(* mandateUsed: payouts on the mandate that are signed or still open.       *)
MandateUsed(m) ==
  AmountOf({i \in IntentIds : /\ intents[i].mandate = m /\ i \notin cancelled \cup vetoed
                              /\ signatures[i] # <<>> \/ IsOpen(i)})

MandateCovers(m, person, net, asset, amount, dest) ==
  LET t == mandates[m] IN
  /\ person = t.grantee /\ net = t.net /\ asset = t.asset /\ dest \in t.dests
  /\ t.validFrom <= now /\ now < t.validUntil
  /\ amount <= t.perPayout /\ MandateUsed(m) + amount <= t.total

-----------------------------------------------------------------------------
(* Registry: accounts and security keys                                     *)

AccountCreate(a, net) ==
  /\ accounts[a].net = None
  /\ accounts' = [accounts EXCEPT ![a] = [net |-> net, index |-> nextIndex[net]]]
  /\ nextIndex' = [nextIndex EXCEPT ![net] = @ + 1]
  /\ UNCHANGED <<now, rules, frozen, enrolments, keyPerson, active, wishes, granted, signed>>

(* enrolStart: only root, over admin.sock.                                  *)
EnrolStart(e, p) ==
  /\ enrolments[e].person = None
  /\ enrolments' = [enrolments EXCEPT
       ![e] = [person |-> p, expiresAt |-> now + ENROL_TTL, done |-> FALSE]]
  /\ UNCHANGED <<now, rules, frozen, accounts, nextIndex, keyPerson, active,
                 wishes, granted, signed>>

EnrolFinish(e, k) ==
  /\ enrolments[e].person # None /\ ~enrolments[e].done
  /\ now <= enrolments[e].expiresAt
  /\ keyPerson[k] = None
  /\ enrolments' = [enrolments EXCEPT ![e].done = TRUE]
  /\ keyPerson' = [keyPerson EXCEPT ![k] = enrolments[e].person]
  /\ active' = active \cup {k}
  /\ UNCHANGED <<now, rules, frozen, accounts, nextIndex, wishes, granted, signed>>

KeyRevoke(k) ==
  /\ k \in active
  /\ active' = active \ {k}
  /\ UNCHANGED <<now, rules, frozen, accounts, nextIndex, enrolments, keyPerson,
                 wishes, granted, signed>>

-----------------------------------------------------------------------------
(* Brakes of the app, levers of root                                        *)

Freeze(by) ==
  /\ frozen = "no"
  /\ frozen' = by
  /\ UNCHANGED <<now, rules, registry, wishes, granted, signed>>

Unfreeze ==
  /\ frozen # "no"
  /\ frozen' = "no"
  /\ UNCHANGED <<now, rules, registry, wishes, granted, signed>>

(* checkPolicyChain: the next version, built on the policy in force.        *)
CheckPolicyChain(next) == PolicyValid(next) /\ version <= MaxVersion

\* Mutant of PolicyTighten: the app's policy is not compared with the one in force.
PolicyTightenUnchecked(next) ==
  /\ CheckPolicyChain(next)
  /\ policy' = next /\ version' = version + 1
  /\ UNCHANGED <<now, rootPolicy, frozen, registry, wishes, granted, signed>>

PolicyTighten(next) ==
  /\ CheckPolicyChain(next)
  /\ IsTightening(policy, next)
  /\ policy' = next /\ version' = version + 1
  /\ UNCHANGED <<now, rootPolicy, frozen, registry, wishes, granted, signed>>

PolicySet(next) ==
  /\ CheckPolicyChain(next)
  /\ policy' = next /\ version' = version + 1 /\ rootPolicy' = next
  /\ UNCHANGED <<now, frozen, registry, wishes, granted, signed>>

-----------------------------------------------------------------------------
(* Intents                                                                  *)

Unfrozen == frozen = "no"

CreateGate ==
  /\ Unfrozen
  /\ Cardinality({i \in IntentIds : IsOpen(i)}) < MAX_OPEN
  /\ Cardinality({i \in IntentIds : Created(i) /\ intents[i].createdAt > now - DAY})
       < MAX_PER_DAY

DestinationTaken(net, dest) ==
  \E w \in IntentIds :
    /\ intents[w].kind = "whitelist" /\ intents[w].net = net /\ intents[w].dest = dest
    /\ w \notin cancelled \cup vetoed
    /\ times[w].approvedAt # NoTime \/ now <= intents[w].expiresAt

(* intentCreate, kind "whitelist".                                          *)
CreateWhitelist(i, net, dest, person) ==
  /\ CreateGate /\ Fresh(i)
  /\ CheckNetwork(net)
  /\ ~DestinationTaken(net, dest)
  /\ intents' = [intents EXCEPT ![i] =
       [kind |-> "whitelist", net |-> net, account |-> None, dest |-> dest,
        asset |-> None, amount |-> 0, feeCap |-> 0, initiator |-> person,
        createdAt |-> now, expiresAt |-> now + WHITELIST_TTL, mandate |-> None]]
  /\ UNCHANGED <<now, rules, frozen, registry, approvals, times, cancelled, vetoed,
                 granted, signed>>

(* intentCreate, kind "payout"; with a mandate m it is approved at once.    *)
CreatePayout(i, a, asset, amount, feeCap, dest, person, m) ==
  LET net == accounts[a].net IN
  /\ CreateGate /\ Fresh(i)
  /\ net # None /\ CheckNetwork(net) /\ asset \in AssetsOf[net]
  /\ feeCap <= policy.feeCaps[ChainOf[net]]
  /\ SpendAllowed(asset, amount, 0)
  /\ ActiveWhitelist(net, dest) # {}
  /\ m # None => /\ mandates[m].on /\ MandateQuorum(m)
                 /\ MandateCovers(m, person, net, asset, amount, dest)
  /\ intents' = [intents EXCEPT ![i] =
       [kind |-> "payout", net |-> net, account |-> a, dest |-> dest,
        asset |-> asset, amount |-> amount, feeCap |-> feeCap, initiator |-> person,
        createdAt |-> now, expiresAt |-> now + PAYOUT_TTL, mandate |-> m]]
  /\ times' = [times EXCEPT ![i] = Settle("payout", @, m # None)]
  /\ UNCHANGED <<now, rules, frozen, registry, approvals, cancelled, vetoed, granted, signed>>

(* approve: one verified tap of key k on the text of intent i. The quorum is
   taken with the approval just added, `settle` runs inside `apply`. *)
Approve(i, k) ==
  /\ Unfrozen
  /\ Created(i) /\ i \notin cancelled \cup vetoed
  /\ now <= intents[i].expiresAt
  /\ intents[i].mandate = None
  /\ k \in active /\ k \notin approvals[i]
  /\ approvals' = [approvals EXCEPT ![i] = @ \cup {k}]
  /\ times' = [times EXCEPT
       ![i] = Settle(intents[i].kind, @, ApprovalsQuorum(approvals[i] \cup {k}))]
  /\ UNCHANGED <<now, rules, frozen, registry, intents, cancelled, vetoed, granted, signed>>

\* Mutant of IntentCancel: a payout that is already signed may be cancelled.
IntentCancelSigned(i) ==
  /\ Created(i) /\ i \notin cancelled
  /\ cancelled' = cancelled \cup {i}
  /\ UNCHANGED <<now, rules, frozen, registry, intents, approvals, times, vetoed, granted, signed>>

IntentCancel(i) ==
  /\ Created(i) /\ signatures[i] = <<>> /\ i \notin cancelled
  /\ cancelled' = cancelled \cup {i}
  /\ UNCHANGED <<now, rules, frozen, registry, intents, approvals, times, vetoed, granted, signed>>

WhitelistVeto(i) ==
  /\ intents[i].kind = "whitelist" /\ i \notin vetoed
  /\ vetoed' = vetoed \cup {i}
  /\ UNCHANGED <<now, rules, frozen, registry, intents, approvals, times, cancelled,
                 granted, signed>>

-----------------------------------------------------------------------------
(* Mandates                                                                 *)

\* validate(m) of lib/wallet/core/mandate.ts
TermsValid(t) ==
  /\ t.grantee # t.issuer /\ t.asset \in AssetsOf[t.net]
  /\ 0 < t.perPayout /\ t.perPayout <= t.total
  /\ t.dests # {} /\ t.validFrom < t.validUntil

(* mandateCreate with a text the signer does not know yet; the same text
   again only returns the view, another text for the id is refused. *)
MandateCreate(m, t) ==
  /\ Unfrozen /\ TermsValid(t)
  /\ ~mandates[m].on
  /\ CheckNetwork(t.net) /\ policy.limits[t.asset].on
  /\ now < t.validUntil
  /\ \A d \in t.dests : ActiveWhitelist(t.net, d) # {}
  /\ Cardinality({x \in Mandates : /\ mandates[x].on /\ mandateApprovedAt[x] = NoTime
                                   /\ x \notin revoked
                                   /\ now <= mandates[x].createdAt + MANDATE_TTL}) < MAX_OPEN
  /\ mandates' = [mandates EXCEPT ![m] =
       [on |-> TRUE, grantee |-> t.grantee, net |-> t.net, asset |-> t.asset,
        perPayout |-> t.perPayout, total |-> t.total, dests |-> t.dests,
        validFrom |-> t.validFrom, validUntil |-> t.validUntil, createdAt |-> now]]
  /\ UNCHANGED <<now, rules, frozen, registry, wishes, mandateApprovals,
                 mandateApprovedAt, revoked, signed>>

\* Mutant of NotSelf: the person the mandate is for may approve it as well.
SelfToo(m, k) == mandates[m].on

(* the person the mandate is for never approves it                          *)
NotSelf(m, k) == keyPerson[k] # mandates[m].grantee

MandateApprove(m, k) ==
  /\ Unfrozen
  /\ mandates[m].on /\ m \notin revoked
  /\ now < mandates[m].validUntil
  /\ mandateApprovedAt[m] = NoTime => now <= mandates[m].createdAt + MANDATE_TTL
  /\ k \in active /\ k \notin mandateApprovals[m]
  /\ NotSelf(m, k)
  /\ mandateApprovals' = [mandateApprovals EXCEPT ![m] = @ \cup {k}]
  /\ mandateApprovedAt' = [mandateApprovedAt EXCEPT ![m] =
       IF @ = NoTime /\ ApprovalsQuorum(mandateApprovals[m] \cup {k}) THEN now ELSE @]
  /\ UNCHANGED <<now, rules, frozen, registry, wishes, mandates, revoked, signed>>

MandateRevoke(m) ==
  /\ mandates[m].on /\ m \notin revoked
  /\ revoked' = revoked \cup {m}
  /\ UNCHANGED <<now, rules, frozen, registry, wishes, mandates, mandateApprovals,
                 mandateApprovedAt, signed>>

-----------------------------------------------------------------------------
(* Signing.  `sign` with mode "first" on a signed intent returns the last
   signature again and changes nothing. *)

First(i) == signatures[i][1]
Last(i)  == signatures[i][Len(signatures[i])]

SignGate(i) ==
  /\ Unfrozen
  /\ intents[i].kind = "payout" /\ i \notin cancelled \cup vetoed

\* Mutant of MandateStands: validUntil is only looked at when the intent is created.
MandateStandsUnlessRevoked(i) ==
  intents[i].mandate # None => intents[i].mandate \notin revoked

(* the mandate of the intent is neither revoked nor over                    *)
MandateStands(i) ==
  LET m == intents[i].mandate IN
  m # None => m \notin revoked /\ now < mandates[m].validUntil

\* Mutant of InWindow: the window never closes.
InWindowForever(i) == times[i].signableAt # NoTime /\ times[i].signableAt <= now

InWindow(i) ==
  /\ times[i].signableAt # NoTime
  /\ times[i].signableAt <= now /\ now <= times[i].signUntil

FirstAllowed(i) ==
  /\ signatures[i] = <<>>
  /\ MandateStands(i)
  /\ InWindow(i)
  /\ Quorum(i)
  /\ ActiveWhitelist(intents[i].net, intents[i].dest) # {}
  /\ CheckNetwork(intents[i].net)
  /\ SpendAllowed(intents[i].asset, intents[i].amount, SignedLast24h(intents[i].asset))

ReplaceAllowed(i, mode) ==
  /\ signatures[i] # <<>>
  /\ ~(Last(i).mode = "cancel" /\ mode = "bump")

\* Mutant of NextChange: the index itself is kept, "none" and lower ones included.
NextChangeRaw(a, sig) == sig.change

NextChange(a, sig) ==
  IF sig.change + 1 > nextChange[a] THEN sig.change + 1 ELSE nextChange[a]

(* the event "signed" (state.ts): the signature is kept, its outpoints are
   reserved, nonce and change index move on. *)
Record(i, sig) ==
  LET a == intents[i].account IN
  /\ signatures' = [signatures EXCEPT ![i] = Append(@, sig)]
  /\ reserved' = [o \in Outpoints |-> IF o \in sig.inputs THEN i ELSE reserved[o]]
  /\ nonces' = [nonces EXCEPT ![a] = IF sig.nonce > @ THEN sig.nonce ELSE @]
  /\ nextChange' = [nextChange EXCEPT ![a] = NextChange(a, sig)]
  /\ UNCHANGED <<now, rules, frozen, registry, wishes, granted>>

Total(inputs) == MapThenSumSet(LAMBDA o : ValueOf[o], inputs)

\* Mutant of InputsFree: an input that another payout spends is taken again.
InputsAny(i, inputs) == inputs # {}

InputsFree(i, inputs) == \A o \in inputs : reserved[o] \in {0, i}

\* Mutant of SameInputs: one common input is not asked for any more.
OtherInputs(i, inputs) == \A o \in inputs : reserved[o] \in {0, i}

(* a replacement spends exactly the inputs of the first signature           *)
SameInputs(i, inputs) == inputs = First(i).inputs

\* Mutant of ChangeIndex: every payout takes the first change address.
ChangeIndexZero(i, mode) == 0

(* change of a replacement goes where the first signature's change went     *)
ChangeIndex(i, mode) ==
  IF mode # "first" /\ First(i).change # NoIndex THEN First(i).change
  ELSE nextChange[intents[i].account]

(* fee_cap of the intent, and the rate cap of the policy in force           *)
FeeAllowed(i, chain, fee) == fee <= intents[i].feeCap /\ fee <= policy.feeCaps[chain]

(* sign on bitcoin; a cancel pays everything back to the own change branch  *)
SignBtc(i, mode, inputs, fee) ==
  LET paid   == IF mode = "cancel" THEN Total(inputs) - fee ELSE intents[i].amount
      change == Total(inputs) - paid - fee
  IN
  /\ SignGate(i) /\ ChainOf[intents[i].net] = "bitcoin"
  /\ IF mode = "first" THEN FirstAllowed(i) ELSE ReplaceAllowed(i, mode)
  /\ inputs # {} /\ inputs \subseteq OutpointsOf[intents[i].account]
  /\ IF mode = "first" THEN InputsFree(i, inputs)
     ELSE SameInputs(i, inputs) /\ fee > Last(i).fee
  /\ FeeAllowed(i, "bitcoin", fee)
  /\ paid > 0 /\ (change = 0 \/ change >= DUST)
  /\ Record(i, [mode |-> mode, at |-> now, fee |-> fee, inputs |-> inputs, nonce |-> NoNonce,
                change |-> IF mode = "cancel" \/ change > 0 THEN ChangeIndex(i, mode)
                           ELSE NoIndex])

\* Mutant of NonceNext: any nonce above the highest one signed.
NonceAbove(i, nonce) == nonce > nonces[intents[i].account]

(* the first nonce of an account is the app's, every further one the next   *)
NonceNext(i, nonce) ==
  LET max == nonces[intents[i].account] IN max # NoNonce => nonce = max + 1

(* sign on ethereum; a replacement keeps the nonce and pays 10 % more       *)
SignEth(i, mode, nonce, fee) ==
  /\ SignGate(i) /\ ChainOf[intents[i].net] = "ethereum" /\ fee > 0
  /\ IF mode = "first" THEN FirstAllowed(i) ELSE ReplaceAllowed(i, mode)
  /\ IF mode = "first" THEN NonceNext(i, nonce)
     ELSE nonce = First(i).nonce /\ fee * 10 >= Last(i).fee * 11
  /\ FeeAllowed(i, "ethereum", fee)
  /\ Record(i, [mode |-> mode, at |-> now, fee |-> fee, inputs |-> {}, nonce |-> nonce,
                change |-> NoIndex])

-----------------------------------------------------------------------------
(* Specification                                                            *)

Tick ==
  /\ now < MaxTime
  /\ now' = now + 1
  /\ UNCHANGED <<rules, frozen, registry, wishes, granted, signed>>

Init ==
  /\ now = 0 /\ frozen = "no"
  /\ policy = DefaultPolicy /\ rootPolicy = DefaultPolicy /\ version = 1
  /\ accounts = [a \in Accounts |-> [net |-> None, index |-> 0]]
  /\ nextIndex = [n \in Networks |-> 0]
  /\ enrolments = [e \in EnrolIds |-> [person |-> None, expiresAt |-> 0, done |-> FALSE]]
  /\ keyPerson = [k \in Keys |-> None] /\ active = {}
  /\ intents = [i \in IntentIds |->
       [kind |-> "none", net |-> None, account |-> None, dest |-> None, asset |-> None,
        amount |-> 0, feeCap |-> 0, initiator |-> None, createdAt |-> 0,
        expiresAt |-> 0, mandate |-> None]]
  /\ approvals = [i \in IntentIds |-> {}] /\ times = [i \in IntentIds |-> NoTimes]
  /\ cancelled = {} /\ vetoed = {}
  /\ signatures = [i \in IntentIds |-> <<>>]
  /\ mandates = [m \in Mandates |->
       [on |-> FALSE, grantee |-> None, net |-> None, asset |-> None, perPayout |-> 0,
        total |-> 0, dests |-> {}, validFrom |-> 0, validUntil |-> 0, createdAt |-> 0]]
  /\ mandateApprovals = [m \in Mandates |-> {}]
  /\ mandateApprovedAt = [m \in Mandates |-> NoTime] /\ revoked = {}
  /\ reserved = [o \in Outpoints |-> 0]
  /\ nonces = [a \in Accounts |-> NoNonce] /\ nextChange = [a \in Accounts |-> 0]

(* commands of app.sock                                                     *)
AppStep ==
  \/ \E a \in Accounts, n \in Networks : AccountCreate(a, n)
  \/ \E i \in IntentIds, n \in Networks, d \in Destinations, p \in Persons :
       CreateWhitelist(i, n, d, p)
  \/ \E i \in IntentIds, a \in Accounts, s \in Assets, v \in Amounts, f \in Fees,
        d \in Destinations, p \in Persons, m \in Mandates \cup {None} :
       CreatePayout(i, a, s, v, f, d, p, m)
  \/ \E i \in IntentIds, k \in Keys : Approve(i, k)
  \/ \E i \in IntentIds : IntentCancel(i) \/ WhitelistVeto(i)
  \/ \E m \in Mandates, t \in MandateTerms : MandateCreate(m, t)
  \/ \E m \in Mandates, k \in Keys : MandateApprove(m, k)
  \/ \E m \in Mandates : MandateRevoke(m)
  \/ \E i \in IntentIds, mode \in Modes, ins \in SUBSET Outpoints, f \in Fees :
       SignBtc(i, mode, ins, f)
  \/ \E i \in IntentIds, mode \in Modes, n \in Nonces, f \in Fees : SignEth(i, mode, n, f)
  \/ Freeze("app")
  \/ \E p \in Policies : PolicyTighten(p)
  \/ \E e \in EnrolIds, k \in Keys : EnrolFinish(e, k)

(* commands of admin.sock                                                   *)
RootStep ==
  \/ \E e \in EnrolIds, p \in Persons : EnrolStart(e, p)
  \/ \E k \in Keys : KeyRevoke(k)
  \/ \E p \in Policies : PolicySet(p)
  \/ Freeze("admin") \/ Unfreeze

Next == AppStep \/ RootStep \/ Tick

Spec == Init /\ [][Next]_vars

-----------------------------------------------------------------------------
(* Properties                                                               *)

Signed(i) == signatures[i] # <<>>

(* What ties two signatures together: they cannot both enter the chain.     *)
Exclude(s, t) == s.inputs \cap t.inputs # {} \/ (s.nonce # NoNonce /\ s.nonce = t.nonce)

(* However often a payout is bumped or cancelled (sign, modes bump and cancel),
   each of its signatures excludes every other, and each replacement outbids
   the ones before: at most one of them ever moves money. *)
ReplacementsExclude ==
  \A i \in IntentIds : \A x, y \in DOMAIN signatures[i] :
    /\ Exclude(signatures[i][x], signatures[i][y])
    /\ x < y => signatures[i][x].fee < signatures[i][y].fee

(* Two payouts never compete for an output or, on one account, for a nonce
   (signBtc: input_reserved, signEth: nonce): no payout can push out another. *)
PayoutsIndependent ==
  \A i, j \in IntentIds : i # j =>
    \A x \in DOMAIN signatures[i], y \in DOMAIN signatures[j] :
      /\ signatures[i][x].inputs \cap signatures[j][y].inputs = {}
      /\ intents[i].account = intents[j].account /\ signatures[i][x].nonce # NoNonce
           => signatures[i][x].nonce # signatures[j][y].nonce

SignedNonces(a) ==
  {First(i).nonce : i \in {j \in IntentIds : Signed(j) /\ intents[j].account = a}} \ {NoNonce}

(* The nonces signed for an account have no hole: every signed payout can be
   mined once those before it are (signEth: "expected max + 1"). *)
NoncesContiguous ==
  \A a \in Accounts : \A n, m \in SignedNonces(a) : n..m \subseteq SignedNonces(a)

(* A payout is signed only between the end of its waiting time and the end of
   its window, both fixed when it was approved, and one on a mandate only
   before the mandate ends; later approvals or policies never move them. *)
SignedInTime ==
  \A i \in IntentIds : Signed(i) =>
    /\ times[i].approvedAt # NoTime
    /\ times[i].signableAt <= First(i).at /\ First(i).at <= times[i].signUntil
    /\ intents[i].mandate # None => First(i).at < mandates[intents[i].mandate].validUntil

(* Money goes only to a destination that the quorum approved at least the
   minimum cooldown before: whatever was set, vetoed, cancelled or listed
   again in between (settle, activeDestination, policyIssues). *)
CooldownKept ==
  \A i \in IntentIds : Signed(i) =>
    \E w \in IntentIds :
      /\ intents[w].kind = "whitelist"
      /\ intents[w].net = intents[i].net /\ intents[w].dest = intents[i].dest
      /\ times[w].approvedAt # NoTime
      /\ times[w].approvedAt + PROD_MIN.cooldown <= First(i).at

(* A payout on a mandate carries the tap of someone other than the person who
   started it (mandateApprove: mandate_self, mandateCovers: grantee). *)
MandateNeedsOther ==
  \A i \in IntentIds : Signed(i) /\ intents[i].mandate # None =>
    \E k \in mandateApprovals[intents[i].mandate] : keyPerson[k] # intents[i].initiator

(* What is signed on a mandate never exceeds its total, whatever mix of open,
   expired, cancelled and signed payouts it saw (mandateUsed, isOpen). *)
MandateWithinTotal ==
  \A m \in Mandates :
    AmountOf({i \in IntentIds : intents[i].mandate = m /\ Signed(i)}) <= mandates[m].total

SignedWithin(asset, t) ==
  AmountOf({i \in IntentIds : /\ Signed(i) /\ intents[i].asset = asset
                              /\ t - DAY < First(i).at /\ First(i).at <= t})

(* In no stretch of 24 hours, wherever it begins, more of an asset is signed
   away than the daily limit of some policy that root or the app set, and
   nothing of an asset without one (signedLast24h, spendAllowed). *)
DailyLimitKept ==
  \A asset \in Assets, t \in Time :
    \/ SignedWithin(asset, t) = 0
    \/ \E p \in Policies \cup {DefaultPolicy} :
         p.limits[asset].on /\ SignedWithin(asset, t) <= p.limits[asset].perDay

(* The policy in force is never looser than the one root set last: the app
   only tightens, over any number of steps (policyTighten, isTightening). *)
AppOnlyTightens == IsTightening(rootPolicy, policy)

(* A cancelled intent is never signed and a signed one never cancelled: the
   answer of intent.cancel is final (intentCancel, sign: intent_closed). *)
CancelIsFinal == \A i \in cancelled : ~Signed(i)

(* No two payouts of an account send change to the same address (nextChange). *)
ChangeFresh ==
  \A i, j \in IntentIds : i # j /\ intents[i].account = intents[j].account =>
    \A x \in DOMAIN signatures[i], y \in DOMAIN signatures[j] :
      signatures[i][x].change # NoIndex => signatures[i][x].change # signatures[j][y].change

Backing(i) ==
  IF intents[i].mandate = None THEN approvals[i] ELSE mandateApprovals[intents[i].mandate]

(* An approval reached earlier is worth nothing once its keys are revoked or
   the policy asks for more: at the first signature the approving keys that
   are still active carry it, under four_eyes those of two persons (sign
   takes the quorum again; approvedAt alone never suffices). *)
SignedByActiveKeys ==
  [][\A i \in IntentIds : signatures[i] = <<>> /\ signatures'[i] # <<>> =>
       LET keys == Backing(i) \cap active IN
       /\ keys # {}
       /\ policy.mode = "four_eyes" =>
            \E k, l \in keys : keyPerson[k] # keyPerson[l]]_vars
=============================================================================
