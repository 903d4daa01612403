------------------------------ MODULE MCSigner ------------------------------
(* Small instances of Signer for TLC.  Each run starts from a signer that is
   set up: the accounts of `NetOf` created, the keys of `Owner` enrolled. *)
EXTENDS SignerRefinement, TLC

CONSTANTS Owner,   \* [Keys -> Persons or None]: enrolled keys
          NetOf,   \* [Accounts -> Networks or None]: created accounts
          ListedBy \* keys that listed dest1 at tick 0 already; {}: not listed

CONSTANTS btc, eth, acc1, acc2, BTC, ETH, dest1, o1, o2, p1, p2, k1, k2, k3, m1, e1

Limit(p, d) == [on |-> TRUE, perPayout |-> p, perDay |-> d]

Listed(i) == i = 1 /\ ListedBy # {}

(* an intent that does not exist, or the listing of dest1 at tick 0 *)
ReadyIntent(i) ==
  [kind |-> IF Listed(i) THEN "whitelist" ELSE "none",
   net |-> IF Listed(i) THEN NetOf[acc1] ELSE None,
   account |-> None, dest |-> IF Listed(i) THEN dest1 ELSE None, asset |-> None,
   amount |-> 0, feeCap |-> 0, initiator |-> IF Listed(i) THEN p1 ELSE None,
   createdAt |-> 0, expiresAt |-> IF Listed(i) THEN WHITELIST_TTL ELSE 0, mandate |-> None]

ReadyInit ==
  /\ now = (IF ListedBy = {} THEN 0 ELSE DefaultPolicy.cooldown) /\ frozen = "no"
  /\ policy = DefaultPolicy /\ rootPolicy = DefaultPolicy /\ version = 1
  /\ accounts = [a \in Accounts |-> [net |-> NetOf[a], index |-> 0]]
  /\ nextIndex = [n \in Networks |-> Cardinality({a \in Accounts : NetOf[a] = n})]
  /\ enrolments = [e \in EnrolIds |-> [person |-> None, expiresAt |-> 0, done |-> FALSE]]
  /\ keyPerson = Owner /\ active = {k \in Keys : Owner[k] # None}
  /\ intents = [i \in IntentIds |-> ReadyIntent(i)]
  /\ approvals = [i \in IntentIds |-> IF Listed(i) THEN ListedBy ELSE {}]
  /\ times = [i \in IntentIds |->
       IF Listed(i) THEN [NoTimes EXCEPT !.approvedAt = 0, !.activeFrom = DefaultPolicy.cooldown]
       ELSE NoTimes]
  /\ cancelled = {} /\ vetoed = {}
  /\ signatures = [i \in IntentIds |-> <<>>]
  /\ mandates = [m \in Mandates |->
       [on |-> FALSE, grantee |-> None, net |-> None, asset |-> None, perPayout |-> 0,
        total |-> 0, dests |-> {}, validFrom |-> 0, validUntil |-> 0, createdAt |-> 0]]
  /\ mandateApprovals = [m \in Mandates |-> {}]
  /\ mandateApprovedAt = [m \in Mandates |-> NoTime] /\ revoked = {}
  /\ reserved = [o \in Outpoints |-> 0]
  /\ nonces = [a \in Accounts |-> NoNonce] /\ nextChange = [a \in Accounts |-> 0]

ReadySpec == ReadyInit /\ [][Next]_vars

-----------------------------------------------------------------------------

DevMin == [soloMinKeys |-> 1, soloDelay |-> 0, cooldown |-> 1]

PolicyOf(net, asset, perPayout, perDay, cap) ==
  [mode |-> "solo", soloMinKeys |-> 1, soloDelay |-> 0, cooldown |-> 1, window |-> 1,
   limits |-> asset :> Limit(perPayout, perDay), feeCaps |-> [c \in Chains |-> cap],
   networks |-> {net}]

SoloOwner == k1 :> p1

(* signer_btc: replacements, reserved outputs, change *)
BtcPolicy    == PolicyOf(btc, BTC, 1, 1, 2)
BtcChain     == btc :> "bitcoin"
BtcAssets    == btc :> {BTC}
BtcNet       == acc1 :> None
BtcOutpoints == acc1 :> {o1, o2}
BtcValues    == (o1 :> 4) @@ (o2 :> 3)
NoPolicies   == {}

(* signer_eth: one ethereum account with a listed destination.  The first steps
   of a behaviour decide what it is about: a mandate, payouts that use up the
   daily limit, or changing rules. *)
EthChain     == eth :> "ethereum"
EthAssets    == eth :> {ETH}
EthNet       == (acc1 :> eth) @@ (acc2 :> None)
EthOutpoints == (acc1 :> {}) @@ (acc2 :> {})
NoValues     == [o \in {} |-> 0]
EthOwner     == (k1 :> p1) @@ (k2 :> p2) @@ (k3 :> None)

EthPolicy   == PolicyOf(eth, ETH, 2, 3, 11)
Tighter     == [EthPolicy EXCEPT !.mode = "four_eyes", !.window = 0]
Looser      == [EthPolicy EXCEPT !.soloMinKeys = 2, !.window = 2]
LowerLimit  == [EthPolicy EXCEPT !.limits = ETH :> Limit(2, 2)]
EthPolicies == {EthPolicy, Tighter, Looser}

Terms ==
  {[grantee |-> p2, issuer |-> p1, net |-> eth, asset |-> ETH, perPayout |-> 2,
    total |-> 2, dests |-> {dest1}, validFrom |-> 1, validUntil |-> 4]}

(* p2 pays on a mandate that p1 approves *)
MandateNext ==
  \/ \E i \in IntentIds, v \in Amounts : CreatePayout(i, acc1, ETH, v, 11, dest1, p2, m1)
  \/ \E i \in IntentIds : IntentCancel(i) \/ WhitelistVeto(i)
  \/ \E k \in Keys : MandateApprove(m1, k)
  \/ MandateRevoke(m1)
  \/ \E i \in IntentIds, n \in Nonces :
       SignEth(i, "first", n, 10) \/ SignEth(i, "bump", n, 11)
  \/ \E k \in Keys : KeyRevoke(k)
  \/ Tick

(* p1 pays up to the daily limit, signed at once, late or never, the first payout
   replaced afterwards; a day has two ticks: windows of 24 hours overlap *)
DailyNext ==
  \/ \E i \in IntentIds, v \in Amounts : CreatePayout(i, acc1, ETH, v, 11, dest1, p1, None)
  \/ \E i \in IntentIds : Approve(i, k1)
  \/ \E i \in IntentIds : SignEth(i, "first", nonces[acc1] + 1, 10)
  \/ \E n \in Nonces : SignEth(2, "bump", n, 11)
  \/ PolicyTighten(LowerLimit)
  \/ Tick

(* keys come and go and the policy changes under one open payout *)
RulesNext ==
  \/ CreatePayout(2, acc1, ETH, 1, 11, dest1, p1, None)
  \/ \E k \in Keys : Approve(2, k)
  \/ SignEth(2, "first", 0, 10)
  \/ \E p \in Policies : PolicyTighten(p)
  \/ \E e \in EnrolIds, k \in Keys : EnrolFinish(e, k)
  \/ RootStep
  \/ now < 3 /\ Tick

Untouched == intents[2].kind = "none" /\ version = 1
OnMandate == mandates[m1].on
ForRules  == accounts[acc2].net # None

EthNext ==
  \/ Untouched /\ ~ForRules /\ \E t \in MandateTerms : MandateCreate(m1, t)
  \/ Untouched /\ ~OnMandate /\ AccountCreate(acc2, eth)
  \/ OnMandate /\ MandateNext
  \/ ForRules /\ RulesNext
  \/ ~OnMandate /\ ~ForRules /\ DailyNext
EthSpec == ReadyInit /\ [][EthNext]_vars
=============================================================================
