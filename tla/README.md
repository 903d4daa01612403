# TLA+ verification of klick / both.money

klick is a management system for regulated companies; both.money (`apps/wallet`)
is its wallet application. Money leaves the system on one path only: a user's
wish becomes an *intent* in an offline signer, people approve it with security
keys, a job has it signed, stores and sends the transaction, and follows it on
the chain. What happens in both.money is exported to klick, where it becomes
registers, tasks and incidents; and in klick nothing comes into force unless the
people named by a workflow approve it. This project models these three: the
payment path (signer, its files, payouts), the link, and the approvals.

## 1. Inventory

| Component | State | Operations | Talks to |
|---|---|---|---|
| Signer (`signer/service.ts`, `state.ts`, `lib/wallet/core/*`) | policy, accounts, keys, enrolments, intents with approvals and times, mandates, signatures, reserved outputs, nonces, change indexes, freeze | commands of `app.sock` and `admin.sock`; handlers are synchronous, one after the other | journal; app over a Unix socket |
| Journal (`signer/journal.ts`) | append-only file with chained hashes | append (write, fsync), open (verify, cut a torn line, replay) | signer |
| Payouts (`wallet-payouts.ts`, `wallet-send.ts`, `payouts/build.ts`, `payouts/plan.ts`) | table `wallet_payouts` | server actions create/cancel/bump; the job every minute | signer, bitcoin and ethereum nodes, PostgreSQL |
| Signer setup (`seed.prepare`, `init.commit`, `network.commit`, `rekey`; `keys.ts`) | `seeds.json`, journal, prepared seeds in memory | root at the terminal | journal |
| Anchor (`signer/anchor.ts`) | highest head and sequence number the app has seen | `recordAnchor` after every signer call | signer, payouts |
| Address book and mandates of the app | rows that mirror intents and mandates | propose, veto, relay, refresh | signer |
| Chain sync (`wallet-sync.ts`) | transfers, balances, finality | job | nodes |
| Link both.money → klick (`apps/wallet/lib/export/*`, `klick-export.ts`, `lib/wallet-link-ingest/*`) | links with cursor and token, noted changes, numbered outbox; in klick the bound link, known events, revisions, tasks | triggers, server actions connect/renew/pause/revoke, the job every minute, ingest endpoint | PostgreSQL on both sides, HTTP |
| Approvals of klick (`lib/approvals/*`, `documents.ts`, `lib/documents/*`) | requests with a snapshot of their steps, decisions, documents, versions | submit, decide, withdraw, edit, publish, retire, new version | PostgreSQL |
| Rest of klick: audit hash chains, identity, platform access, network agent, notifications, compliance content, UI | database rows | server actions and jobs | PostgreSQL, external services |

**What is hard here.** The signer decides on state that other calls change in
between (keys revoked, policies tightened, mandates ended, destinations vetoed).
The job reads rows, awaits the signer, the node and the database in turn, and
writes by id, while users write the same rows. Any of the awaited calls may
fail after it took effect, and the process may die between any two. Blocks are
rolled back. The journal must survive kills, power losses and a bad disk, and
must fit a second file that is written at another moment. The link has to catch
changes of transactions that were running when it was made, and to deliver over
calls that are lost, repeated or late while tokens change. Approvals run in
transactions that read without locks and write by id.

**What makes it correct.** Signer: one payout moves money at most once, payouts
do not disturb each other, limits, cooldowns, windows, quorums and mandates hold
*at the signature*, a cancel is final. Journal: what was answered is kept, and
the state is what the journal says. Payouts: nothing is on the network that is
not in the row, the status tells the truth, decisions taken in the signer or on
the chain reach the row. Link: a new link misses nothing, the cursor never passes
what klick does not have, klick ends up with the current state. Approvals: every
step was earned, what is approved is what was reviewed, only that is published,
and a request that is accepted can be finished.

`PROJECT.json` lists every component with its status, the hazards with their
lines and the properties that cover them, and the map from definitions to lines.

## 2. Modules

| Module | Role |
|---|---|
| `Signer` | all commands that change the signer's state after `init.commit`; its safety properties |
| `SignerPromise` | the abstract specification: what the signer promises about a payout, without keys, policies, mandates or clocks |
| `SignerRefinement` | the refinement mapping `Signer` → `SignerPromise` and the property `KeepsPromise` |
| `Payouts` | extends `SignerPromise`: rows, job, user actions and node around a signer that keeps its promise |
| `Journal` | file, page cache and signer memory; crashes and disk errors |
| `SignerHome` | extends `Journal`: `seeds.json` beside `journal.log`, setup of networks |
| `WalletLink` | both.money's export and klick's ingest |
| `Approvals` | klick's approvals of a document through its life |
| `SumLemmas` | induction by the least counterexample, sums over finite sets |
| `SignerProofs`, `SignerRulesProofs`, `SignerRefinementProofs` | theorems about `Signer` and the refinement |
| `HomeProofs`, `PayoutsProofs`, `WalletLinkProofs`, `ApprovalsProofs` | theorems about the other modules |
| `MCSigner`, `MCPayouts`, `MCJournal`, `MCWalletLink`, `MCApprovals` | instances for TLC |

The composition is: `Journal` justifies that a handler of `Signer` is one atomic
action; `SignerHome` composes it with the seed file; `Signer` implements
`SignerPromise`; `Payouts` uses only `SignerPromise`. `WalletLink` composes the two
applications at the ends of the link; the row it exports stands for the accounts,
transfers and payouts of both.money.

### Signer

One action per command. A handler is one action because Node runs it without
interruption and it journals at most one event before it answers. Reading
commands (`hello`, `status`, `intent.get`, ...) change nothing and have no
action; neither has `sign` with mode "first" on a signed intent, which returns
the last signature again (`Payouts!SignAgain` uses that). Commands that are
refused are disabled actions.

Abstractions: seconds are ticks; random ids are the next number; a tap arrives
only if WebAuthn verifies it; transactions have size 1, so fee and fee rate are
one number, and on ethereum the two fee fields are one; outputs belong to fixed
accounts, with fixed values. `rootPolicy` is a history variable. `Init` is the
state after `init.commit`; `ReadyInit` of `MCSigner` is a state a few commands
later (keys enrolled, on ethereum an account created and a destination listed),
which keeps the state space for what follows.

Left out because it only makes the model allow more: the bounds of windows and fee
caps in `policyIssues` (`policy.ts:69-88`) and the limits of 90 days and 20
destinations of a mandate (`mandate.ts:72,85`).

### Payouts

Every `await` on signer, node or database is a step of the job, whose program
counter, row in hand and batch of rows are in `job` and `batch`. `StepFails` is
a call that throws, before or after it took effect (the effect is the previous
step); `Crash` also forgets the batch. `Hold` stands for the returns that leave
the row as it is: frozen, too early, no plan, a refusal that may go away.
`track` asks the node once per version, newest first: each question is a step
(`GetTransaction`; on ethereum `GetFinalized`, then `GetReceipt`), and blocks may
come and go between two of them. `job.left` are the versions still to be asked
for, `job.gone` says that all answers so far were about displaced ones.
`GetNothing` is a node that does not answer, which the code takes for "not in a
block". The chain of the account is chosen in `Init`. A user action is two steps,
the call of the signer and the write by id (`AskCancel`/`AskBump`, then
`UserWrite`). The second sign call after a wrong nonce (`wallet-payouts.ts:449-455`)
is one step with the first: the refused call changes nothing. The node
is external (its answers are those the test chain in `scripts/devchain` gives): it
accepts transactions, mines any version it knows, rolls blocks
back, makes them final; somebody else may spend a coin.

Not in the module: anchor checks, the custody gate and the ceremony record at
the start of a run (a run that stops there does nothing), texts, audit entries,
notifications, the `attempts` counter.

### Journal

`file` is what the kernel holds, `synced` how much of it is on the disk. A line
is the history its hash covers, so a line that continues the wrong history is
visible. `Write`/`Fsync` are the two system calls of `append`; `Fsync` includes
`apply` and the answer, which happen without another system call. `WriteShort`
and `FsyncFails` are disk errors, `Kill` keeps the page cache, `PowerLoss` may
lose what is not synced.

### SignerHome

`seeds` is `seeds.json` as the kernel has it, `durable` what a power loss leaves of
it while its directory is not synced. `TakePrepared` ends with the rename of
`writeSeedFile`, `SyncSeeds` is its last fsync, `RecordSeeds` the journal entry
(one for `init.commit`, one per network for `network.commit`), so a crash, a short
write or a failed fsync may come between any two. `Open` is `Signer.open` with the
check that seeds and fingerprints fit. A seed and its fingerprint are one value.

### WalletLink

A business transaction is two steps: the change with its trigger, which looks for a
link at that moment, and the commit (`WriterBegins`, `WriterCommits`). `request` is
a `createLink` or `renewLinkToken` between the answer of hello and its transaction.
`fill` is `completeBackfill`, run by the request that connects and by the job: the
snapshot of running transactions, the wait for them, then the read and the commit
under the locks of the link's row and of `export_seq`. `job` is `runKlickExport`
with `convertChanges` (take, read, commit) and `sendLink` (read, post, wait). `net`
holds the batches klick is working on, which may go on after their caller gave up.
klick applies one event per transaction.

One row stands for all that is exported with its current state, one alert for what
causes work once. `owed` and `tainted` are history variables. `tainted` marks the
two situations in which the code does lose data and no property claims otherwise:

* a link is revoked while a call to klick about it is under way, and the answer
  (a refusal that pauses, a renewal that activates) is written by id over the
  revoke: meanwhile nothing was noted or kept for it;
* a link is made while notes for a revoked one are left: `convertChanges` reads the
  row before it takes the number lock, so it may number an old version after the
  backfill of the new link, while the change in between, made without a link, was
  not noted. Without this exception TLC violates `NothingMissed` at once, against
  the comment at `link-service.ts:199-203`.

The constraint `NotTainted` of `MCWalletLink` does not follow such states: every
property has `~tainted` (or, for `Convergence`, its persistence) as a hypothesis
and `tainted` never becomes false again, so nothing is hidden by it.

### Approvals

Every server action is one transaction at READ COMMITTED. An action is split where
it reads something it later relies on; what it writes becomes visible with the
last step. `decide` is: read and check; insert and count (`DecideCounts`); write
the request by id (`DecideMoves`, or `DecideMarks`, which keeps the row locked);
look at the document; apply the outcome and commit. `RollsBack` ends any of them.
Rules, eligibility, routes and their warnings are operators with the names of
`rules.ts` and `route.ts`. Delegations and the workflow are read anew by every
action and may be different each time.

Three history variables name what the code does not protect against: `overtaken`
(requests a decision was written to that was read while they were pending and
written after they had ended), `overlapped` (requests with two decisions under way
at the same time; each counts without the other, so that a step may be complete and
nobody notices) and `strayed` (versions the document stood at when an approval of
*another* version was written to it by id, by such a late decision or by a
submission that is approved at once). Each property names the ones it has to leave
out, per request or per version, and no other part of the behaviour: a late decision
on one request excuses nothing of the others.

Small simplifications: `SubmitCommits` is the snapshot, the withdrawal, the new request
and the document's update in one step, all under the transaction that ends with it;
requests to destroy a document, which also withdraw an open one, are left out;
`OpenRules` counts people where `rules.ts:228-233` counts rows (a person decides once
per step); `CanDecideNow` is the condition of `decide`, without the shortcut for a
single rule of `rules.ts:278`.

## 3. Runs

Bounds are the constants of the `.cfg` files. Deadlock is not checked: counters
are bounded, intents run out, a payout that ended has nothing left to do, and
links and documents may rest for ever.

| Run | States | Shows |
|---|---|---|
| `signer_btc` | 240 k | an account, three intents (one lists the destination), two outputs: replacements exclude one another, outputs are never shared, cooldown, cancel is final, change addresses are fresh; and `Signer` implements `SignerPromise` |
| `signer_eth` | 1.3 M | an ethereum account, in three stories the first steps decide between. A mandate: time limits, second person, total, nonces of three payouts and their bumps. The daily limit: three payouts of one or two units, a day of two ticks, a limit of three that is lowered to two, late signatures and a bump. The rules: three policies, three keys, freezes: the app only tightens, times stay fixed, approvals of revoked keys are worth nothing |
| `payouts` | 1.6 M | one payout on a mandate with up to three versions, on either chain, two failures, reorganisations, a competing spend, reverted calls; or two bitcoin payouts of one account, signed once, with one failure |
| `payouts_heal` | 121 k | liveness on either chain with two failures, see below |
| `journal` | 307 k | two networks are set up with three seeds, other commands follow; three lines, three crashes, two disk errors: the journal is readable and complete, never a mixture; the two files fit; no seed that is durable is replaced |
| `link` | 1.7 M | two links to one klick link, two changes of a row, batches of two, one failure: nothing is missed, the cursor is honest, klick takes events in order |
| `link_live` | 615 k | one link, a row and an alert, batches of one, two tokens, one failure: convergence (see fairness), with one task for an alert that is sent again |
| `approvals` | 704 k | an author and two managers who may all decide and delegate; two versions, texts and requests; two transactions at a time; a workflow of three steps, one of a vacant function, the last waiting on everyone, and another workflow that is refused: every step was earned, a decision without overlap counts, a step that waits on everyone can be finished |
| `approvals_texts` | 2.4 M | two authors and a decider, all three at work at once; approvals and refusals, workflows with one step and with none; a second text with two requests or three requests of one text: what is approved is the text its request was made for, and only approved versions come into force, with the exceptions the properties name |

Why the bounds are enough for the questions asked: a replacement needs one
earlier signature and the fee set allows two of them; two payouts are the least
that can compete, and nothing in the code relates three; clocks run past every
window, cooldown and day of the instance; one failure reaches every window
between two awaits, a second one the recovery from the first; after a crash
during recovery the journal is in a state that one crash can reach as well. Two
links are the least for a link that replaces another, two changes of the row the
least for an old version after a new one; one failure reaches every point where the
job, a request or a call can break off, and the retry follows it. For approvals,
two versions, texts and requests are the least for a decision that belongs to an
earlier text. Two transactions are the least that can interleave and are enough for
the steps of one request (`approvals`); texts and publication get three, of two authors
and a decider, since two authors may race each other and a decision at once. The bound
`TextsOrRequests` keeps the run in reach; with two texts *and* three requests (6.4 M states) both invariants
hold as well. The exceptions are needed: without `overtaken` TLC violates `ReviewedContent`,
without `strayed` it violates `PublishedIsApproved`, in this very instance. A day of
two ticks in `signer_eth` is the least in which windows of 24 hours overlap; the
mutant that counts by calendar day is caught. The bounds matter less than usual: all safety properties are proved for every bound
(section 4), so that what rests on an instance is liveness.

The stories of `signer_eth` (`MandateNext`, `DailyNext`, `RulesNext`) are not mixed with
each other and leave out commands that do not belong to them, to keep the question in
reach; `signer_btc` uses `Next` with all commands. `OneOrTwo` of `MCPayouts` does the
same for one payout with everything that may happen to it, and two payouts.

**Fairness.** `payouts_heal` and `payouts_settled` use `WF_vars(JobStep)`.
The job is scheduled every minute as a singleton (`apps/wallet/lib/jobs/register.ts`), so
while a step of it is possible one is taken in the end; failures and crashes are
finitely many (`MaxFails`). Nothing is assumed about users, blocks or finality.
In `payouts_heal` holds and competing spends are off: a signer that stays frozen
excuses the job for ever. The payout there is not on a mandate, since an ended
mandate closes the row whatever was signed (see the hazards).

`link_live` assumes weak fairness of the job's steps (it is started every minute),
of klick's work on a batch it has begun, of backfills, and of transactions and
requests, which commit or are rolled back. Nothing is assumed about users: nobody has
to resume a paused link or enter a new token. `Convergence` therefore only speaks of
links that work in the end (active, with the token klick accepts); that a link which
stops working is noticed by people is outside the code.

### Where code and documents disagree

Three runs end in a counterexample, each against a sentence of the repository:

* `payouts_settled`: on ethereum a second attempt to send a transaction that is in a
  block by then is answered "nonce too low", which `broadcast` takes for a failure
  on every run: the row stays "signed" (`wallet-payouts.ts:511`, against lines 495 and
  63-65). `EndReachesRow` of `payouts_heal` is what does hold: what is final reaches the
  row, on ethereum once the row says that it was sent.
  On bitcoin it fails in another way: `track` gives a payout up when every version was
  displaced, but asks for one version at a time (line 554, against lines 550-551). If the
  block with the first version is rolled back and the second is mined between the two
  questions, each looks displaced by the other, and the row becomes "dropped" although
  a version is in a block. With `Chains = {"bitcoin"}` TLC shows this one.
  `EndReachesRow` therefore leaves out the round of questions that is under way, and rows
  that were given up: any other round finds what is final.
* `approvals_late`: a decision counts for the text that was submitted, says
  `outcomes.ts:332-334`; what line 335 compares is the status and the version number.
  The number stays when a document goes back to draft, is edited and submitted again,
  so a decision on the first text that is written late approves the second.
  `ReviewedContent` of `approvals_texts` is what does hold.
* `approvals_hang`: a step that waits on everyone is accepted although it can never
  be finished. Each seat has someone who may decide for it, but a person decides once
  per step and with a seat of their own only for that one; in the
  run a manager delegated to another one and then lost the right to decide: nobody
  decides for her
  (`lib/approvals/service.ts:866`, against lines 539-540). `EveryoneCanFinish` of
  `approvals` is what does hold: as long as the people it waits for may decide
  themselves, the request can be finished.

Others shaped what the properties claim, and are listed with their hazards:

* A replacement that was stored but not sent is never sent again
  (`wallet-payouts.ts:711`, against lines 63-65); `SignedIsSent` is about first
  transactions.
* After a crash between signature and row the old signature is stored with a new
  plan; bump and cancel are refused from then on (`wallet-payouts.ts:457`, against
  line 632).
* After a failed fsync the signer goes on with a state behind its journal
  (`journal.ts:137`), and a short write is answered as recorded (`journal.ts:136`),
  against `state.ts:7-9` and `journal.ts:130`. The invariants of `Journal` other than
  `NoMixture` are therefore stated for a disk that has not failed (`errors = 0`).
  `NoMixture` shows the limit: whatever the disk does, the hash chain keeps a signer
  from starting in a state that never was.
* A replayed line may not be on the disk yet (`journal.ts:113`, against lines 15-16).
* A network whose seed was stored and whose event was not recorded can be neither
  used nor set up again (`service.ts:1073`); `SeedsStay` shows what this is good for.
* After a crash between the signature of a bump or cancel and its row the job offers
  the same fee every minute and is refused (`wallet-payouts.ts:684`); the fee-cap
  branch drops a cancel asked for meanwhile (653); "dropped" is final for the row but
  not for the chain (570), also when every version was displaced in truth and the block
  that displaced them is rolled back. No document promises otherwise.
* Two klick links of one klick organisation to one both.money organisation would share
  their event ids (`wallet-link-ingest/service.ts:277`); the model has one.
* In mode "all" a decision counts for the first open rule (`approvals/service.ts:873`),
  which may leave another rule to nobody; a later step without approver is only warned
  of (586); an edit racing a submit leaves a working copy that differs from the
  snapshot (`documents.ts:246`).
* `recordAnchor` reads and writes by id without a lock (`anchor.ts:72`).
* The two situations of `tainted`, those of `overlapped`, and a submission that is approved
  at once while another author moves the document on (`strayed`), above.

## 4. Proofs

Every invariant and every action property that a passing run checks is proved, for
all values of the constants, as is the refinement. What follows says from which
assumptions and along which argument; `PROJECT.json` lists the theorems.

**Assumptions.** They stand in the modules that declare the constants, and TLC
evaluates them for every instance. Most only give the constants their types; the
others are:

* `Signer`: the set of keys is finite; no output pays to two accounts
  (`OwnOutpoints`); the default policy passes the checks later ones must pass
  (`DefaultAssumption`);
* `Payouts`: every whole number up to the cap is a fee a transaction can have
  (`PayoutsAssumption`);
* `Approvals`: people are finitely many, a workflow has a step and a step needs a
  person, as the schema of workflows demands;
* `SignerHome`, `WalletLink`: networks, links and klick links are finitely many, a
  batch has room for an event.

Number of accounts, intents, keys, payouts, versions, people and failures, and the
values of all limits and times, are arbitrary.

**Sums and numbers** (`SumLemmas`). The library's induction theorems cannot be
instantiated by the installed provers. The least counterexample can be taken
instead: the set of numbers (or of subsets of a finite set) where a claim fails has
a minimal member if it is not empty. From `LeastNumber` and `LeastSubset` follows what
the limits need of sums over sets: existence, taking out any element, monotonicity.

**Signer** (`SignerProofs`, `SignerRulesProofs`).

* `TypeCorrect` is inductive with `PayoutsNamed` (a payout names an account and its
  network), without which `nonces` and `nextChange` could be updated outside their
  domain. `StepCases` sorts the steps of `Next`; one lemma per sort.
* `ReplacementsExcludeAlways`, `PayoutsIndependentAlways`. Neither is inductive: the
  signer compares a replacement with the *first* signature and a first signature
  with `reserved` and `nonces`. `SigInv` adds what links them: every signature of
  a payout spends exactly what the first spent, `reserved` names the payout for
  each of these outputs, fees rise, first nonces of an account differ.
* `NoncesContiguousAlways`, `ChangeFreshAlways` from `CountInv`: `nonces` is the
  greatest signed nonce of the account, `nextChange` is above every index in use.
* `AppOnlyTightensAlways`: `isTightening` is reflexive and transitive, so a chain of
  tightenings since the last `policy.set` is one. `CancelIsFinalAlways`: from `SigInv`
  and the guards of cancel and sign.
* `SignedInTimeAlways`, `CooldownKeptAlways`, `MandateNeedsOtherAlways` from
  `RulesInv`. A signature is judged once, against the state of its moment, and the
  state moves on; `RulesInv` ties that moment to what no command changes any more
  (`Lasting`): times are written once and by `settle` only, a mandate keeps its
  terms, keys keep their person, every policy passed the floor.
* `DailyLimitKeptAlways`: the signer adds up the day *before* each first signature, the
  property speaks of *every* stretch of 24 hours. The last signature in a stretch saw
  all the others of it.
* `MandateWithinTotalAlways` from `UsedWithinTotal`: what counts as used at any time,
  signed and open payouts, stays within the total; what expires or is cancelled
  only leaves the sum.
* `SignedByActiveKeysAlways`: an action property, from the guard of `sign` under the
  types.

**Refinement** (`SignerRefinementProofs`). `SignerKeepsPromise`: `Spec => KeepsPromise`,
step by step under `RulesInv`: creating, cancelling and signing a payout are the steps
of `SignerPromise` of that name, everything else stutters. `Payouts`
uses the promise alone, so what is proved there holds of the real signer.

**Journal and seeds** (`HomeProofs`). `LinesDrafted` (every line is a history that was
being recorded) gives `NoMixtureAlways` whatever the disk does; `Healthy` ties memory,
draft and the synced part to the last line and gives `AnsweredIsKeptAlways`,
`RestartableAlways` and `JournalIsStateAlways`. `HomeUsesJournal` (`HomeSpec => Spec`)
shows that the commands that store seeds use the journal as the journal allows, so
these hold for them too. `SeedsFitAlways`, `SeedsStayAlways`: `Lasts` says that what
any line of the journal knows fits what no power loss takes away, `Staged` how far the
running command is. `SeedsStay` is about durable seeds: one that a start loaded after a
kill, and that a power loss took away before its directory was synced, may be replaced
(no line of the journal knows it, by `SeedsFit`).

**Payouts** (`PayoutsProofs`). All five properties rest on `PayoutInv`. The point of it
is what the job may believe of a row it read several awaits ago: between the steps of
the job only users write to that row, and all a user can do there is to take back a
payout that was never signed (`BatchFits`, `JobFits`). `RowsFit` and `SignerKeeps`
relate a row to the signer, `NodeFits` to the chain, `PlanApart` a plan to the other
rows. `PlansDisjointOnBitcoin` says what its name says: on ethereum the "coins" are
nonces, and a row whose first signature was stored with a new plan after a crash may
name the nonce another row was planned with; the runs with two payouts are on bitcoin.

**Link** (`WalletLinkProofs`).

* `LinkTypeCorrect`: `Fits` (rows, requests, events, batches name links and events that
  exist) with `Awaited` (one batch at most is waited for, and of that batch klick has
  what is no longer in it).
* `CursorHonestAlways`, `InOrderAlways` from `Order`. Its core is `Covers`: before any
  event of a set, every event of the klick link numbered after its last link was made
  is known to klick or in the set. What klick knows covers, every batch in work covers
  (also those nobody waits for), the batch in the job's hand covers. Batches are
  closed downwards when they are read (`BatchIs`), taking the smallest event keeps
  both sides covering, and an answered batch has no event left. `PrunedBehind`,
  `OneLink` and `OwnEvents` exclude gaps from pruning and from an earlier link.
* `NothingMissedAlways` from `Notes`. A transaction that began before there was a link
  notes nothing (`unseen`). While it runs no link is ready (`ReadySeen`), a backfill
  waits for it (`WaitSees`), no backfill has read (`LockSees`), and nothing is noted
  that it could make stale (`UnseenFirst`, `JobNotes`).

All of it is under `~tainted`, as the properties are. `InOrder` is about events numbered
after the klick link was last connected; an older batch may come late after that.

**Approvals** (`ApprovalsProofs`). Transactions read without locks, so each invariant
has a part about what is in hand between two steps of a transaction:
`EveryStepEarnedAlways` from `EarnedInv` (what a transaction counted stays true while
others add decisions); `NoVoteLostAlways` and `EveryoneCanFinishAlways` from `WaitInv`
(a decision on a request without overlap was counted with all the others);
`PublishedIsApprovedAlways` and `ReviewedContentAlways` from `ContentInv`, for any number
of authors, deciders and open transactions and for any workflow, those that leave
nothing to decide too. `ContentInv` says, request by request and version by version:
one transaction at a time writes the end of a request (`OneMarks`); what was submitted,
approved or published is there as a version (`Submitted`); an approved document stands
at an approved or strayed version, also for an author who read it and is about to
publish (`StandsApproved`); a last decision in time holds its request, and with it the
document at that version, until it is written (`HoldsRequest`); the version under review
holds the text of the pending request, and an approved one the text of the request that
approved it, unless that request was overtaken or the version strayed (`TextKept`).
The exceptions are local:
what a late decision does to its own request does not weaken the claim about another.

**Only model-checked**: liveness (`CancelReachesRow`, `EndReachesRow`, `SignedIsSent`,
`Convergence`), since fairness and ENABLED are out of the prover's reach, and the
three counterexamples. Nothing is claimed of `PlansDisjoint` for two payouts on ethereum.

## 5. Plan

1. Done: `Signer`, `SignerPromise`, `SignerRefinement`, `Payouts`, `Journal`,
   `SignerHome`, `WalletLink`, `Approvals`; the theorems of section 4.
2. Left for proofs: `PlansDisjoint` on ethereum in the form that does hold (a nonce is
   shared only with a row whose plan was replaced after a crash), and the safety half
   of `Convergence` (what klick shows is the version of the last event it applied).
3. Worth a module after that: the anchor of the signer's head in the app, rekey, the
   app's mirror of mandates and address book (replacing `Lapse` of `Payouts`), the
   audit hash chains, chain sync under reorganisations.

## 6. Not modelled

Cryptography (key derivation, WebAuthn, seed encryption, rekey), parsing and encoding
of intents, the socket framing, the nodes' internals. Of the link: selected accounts,
heartbeats, day closes, ceremonies, the reconciliation of the signer's state, waiting
times, and hash conflicts. Of approvals: kinds of entities other than documents, solo
mode, disabled workflows, the choice among workflows, changes of offices, passkey
signatures, due dates, notifications. A wall clock that is set back is a hazard of the
signer that the monotone clock of the model does not show.

By far the most of the repository's 360 000 lines is not the kind of code a state
machine says anything about: pages and components, catalogues of regulations and
texts, forms over single database rows, clients of external services. The modules
cover the parts with concurrency, failures or rules that build on each other, and the
mapped share of all lines is small for that reason.
