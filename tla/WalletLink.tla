----------------------------- MODULE WalletLink -----------------------------
(***************************************************************************)
(* The export of both.money to klick: changes are noted by triggers in the *)
(* transaction that makes them (migration 0002_export.sql), turned into    *)
(* numbered events by the job klick-export, sent in batches per link, and  *)
(* applied by klick (lib/wallet-link-ingest).  Transactions of users, the  *)
(* job, the requests that connect and renew a link, and klick's handling   *)
(* of a batch interleave between any two statements that read or commit;   *)
(* calls are lost, answers come late, the job dies.                        *)
(*                                                                         *)
(* Abstractions.  One row stands for the accounts, transfers and payouts   *)
(* that are sent with their current state; it is a version number.  One    *)
(* alert stands for the events that cause work in klick once.  An event is *)
(* its position in the outbox (seq).  All accounts are selected, so        *)
(* scopeEvent drops nothing.  Waiting times are left out: a retry may come *)
(* at any time.                                                            *)
(***************************************************************************)
EXTENDS Naturals, Sequences, FiniteSets, SequencesExt, FiniteSetsExt

CONSTANTS
  Links,       \* ids of klick_links
  KLinks,      \* ids of klick's wallet_links, each of another klick organisation
  NoLink,
  Kinds,       \* what is exported: "row" and, or not, "alert"
  BatchSize,   \* MAX_BATCH
  MaxVer,      \* bound: changes of the row
  MaxToken,    \* bound: tokens klick issues for a link
  MaxFails     \* bound: lost calls, crashes, rollbacks, pauses by hand, second
               \* connections to a klick link, tokens of another one, revokes
               \* that overtake a call to klick, and links klick revokes

VARIABLES
  ver, alerted,  \* committed state of both.money
  writer,        \* the transaction on the row, and the one that writes the alert
  changes,       \* export_changes: what was noted and not yet taken
  outbox,        \* export_outbox: position is seq
  pruned,        \* rows up to here are deleted
  links,         \* klick_links
  request,       \* per link: connect or renew between hello and the commit
  job,           \* klick-export
  fill,          \* completeBackfill, run by the connecting request or by the job
  net,           \* batches klick is working on
  klick,         \* wallet_links of klick and what was applied for each
  owed,          \* history: links that were there when the alert was noted
  tainted,       \* history: was a revoke overwritten by a late answer of klick, or a link
                 \* made while notes for an earlier one were left?
  fails

wallet == <<ver, alerted, writer, changes>>
vars == <<wallet, outbox, pruned, links, request, job, fill, net, klick, owed, tainted, fails>>

Fillers == {"user", "job"}

ASSUME LinkAssumption ==
  /\ IsFiniteSet(Links) /\ IsFiniteSet(KLinks) /\ NoLink \notin Links \cup KLinks
  /\ "row" \in Kinds /\ Kinds \subseteq {"row", "alert"}
  /\ BatchSize \in Nat \ {0} /\ MaxVer \in Nat /\ MaxToken \in Nat \ {0}
  /\ MaxFails \in Nat

Event == [kind : Kinds, ver : 0..MaxVer, link : Links \cup {NoLink}]

LinkRow ==
  [status : {"none", "active", "paused", "revoked"}, ref : KLinks \cup {NoLink},
   acked : Nat, start : Nat, ready : BOOLEAN, token : 0..MaxToken]

RequestRow ==
  [what : {"none", "connect", "renew"}, ref : KLinks \cup {NoLink}, token : 0..MaxToken]

JobRow ==
  [pc : {"idle", "take", "read", "links", "fill", "send", "post", "wait"},
   taken : SUBSET Kinds, linked : BOOLEAN, read : 0..MaxVer, todo : SUBSET (Links \X BOOLEAN),
   link : Links \cup {NoLink}, batch : SUBSET Nat, token : 0..MaxToken]

FillRow ==
  [pc : {"off", "begin", "wait", "locked"}, link : Links \cup {NoLink},
   waits : SUBSET Kinds, read : 0..MaxVer]

BatchRow == [ref : KLinks, rest : SUBSET Nat, awaited : BOOLEAN]

KlickRow ==
  [status : {"active", "revoked"}, bound : Links \cup {NoLink}, token : 1..MaxToken,
   known : SUBSET Nat, rev : Nat, ver : 0..MaxVer, tasks : Nat]

LinkTypeOK ==
  /\ ver \in 0..MaxVer /\ alerted \in BOOLEAN
  /\ writer \in [Kinds -> {"idle", "unseen", "seen"}]
  /\ changes \subseteq Kinds
  /\ outbox \in Seq(Event) /\ pruned \in 0..Len(outbox)
  /\ links \in [Links -> LinkRow]
  /\ request \in [Links -> RequestRow]
  /\ job \in JobRow
  /\ fill \in [Fillers -> FillRow]
  /\ net \in Seq(BatchRow)
  /\ klick \in [KLinks -> KlickRow]
  /\ owed \subseteq Links /\ tainted \in BOOLEAN
  /\ fails \in 0..MaxFails

-----------------------------------------------------------------------------
(* Views                                                                    *)

Connected(l) == links[l].status \in {"active", "paused"}

HasLinks == \E l \in Links : Connected(l)

(* nextSeq, and createLink's FOR UPDATE: one transaction at a time holds
   org_settings.export_seq; the backfill holds it while it reads *)
SeqFree == \A p \in Fillers : fill[p].pc # "locked"

(* completeBackfill holds the link's row while it reads *)
RowFree(l) == \A p \in Fillers : fill[p].pc = "locked" => fill[p].link # l

(* notes that were made for an earlier link and not yet converted or dropped *)
Leftovers ==
  ~HasLinks /\ (changes \cup job.taken # {} \/ \E k \in Kinds : writer[k] = "seen")

Revives(l) == tainted' = (tainted \/ links[l].status = "revoked")

Fail == fails < MaxFails /\ fails' = fails + 1

-----------------------------------------------------------------------------
(* Business transactions with the triggers export_capture                    *)

(* the change and its trigger, in a transaction that is not yet committed *)
WriterBegins(k) ==
  /\ writer[k] = "idle"
  /\ IF k = "row" THEN ver < MaxVer ELSE ~alerted
  /\ writer' = [writer EXCEPT ![k] = IF HasLinks THEN "seen" ELSE "unseen"]
  /\ owed' = IF k = "alert" THEN {l \in Links : Connected(l)} ELSE owed
  /\ UNCHANGED <<ver, alerted, changes, outbox, pruned, links, request, job, fill, net, klick, tainted, fails>>

WriterCommits(k) ==
  /\ writer[k] # "idle"
  /\ ver' = IF k = "row" THEN ver + 1 ELSE ver
  /\ alerted' = (alerted \/ k = "alert")
  /\ changes' = IF writer[k] = "seen" THEN changes \cup {k} ELSE changes
  /\ writer' = [writer EXCEPT ![k] = "idle"]
  /\ fill' = [p \in Fillers |-> [fill[p] EXCEPT !.waits = @ \ {k}]]
  /\ UNCHANGED <<outbox, pruned, links, request, job, net, klick, owed, tainted, fails>>

WriterRollsBack(k) ==
  /\ writer[k] # "idle" /\ Fail
  /\ writer' = [writer EXCEPT ![k] = "idle"]
  /\ fill' = [p \in Fillers |-> [fill[p] EXCEPT !.waits = @ \ {k}]]
  /\ owed' = IF k = "alert" THEN {} ELSE owed
  /\ UNCHANGED <<ver, alerted, changes, outbox, pruned, links, request, job, net, klick, tainted>>

-----------------------------------------------------------------------------
(* Connecting, renewing, pausing and revoking a link (link-service.ts)       *)

Idle == [what |-> "none", ref |-> NoLink, token |-> 0]

(* receiveHello: klick binds its link to the caller's link id *)
Hello(l, k) ==
  /\ klick[k].status = "active"
  /\ klick' = [klick EXCEPT ![k].bound = l]

Taken(k) == \E m \in Links : Connected(m) /\ links[m].ref = k

(* createLink up to the answer of hello; only the transaction that follows
   asks whether the klick link is connected already *)
ConnectHello(l, k) ==
  /\ links[l].status = "none" /\ request[l] = Idle
  /\ IF Taken(k) \/ \E m \in Links : request[m].ref = k THEN Fail ELSE UNCHANGED fails
  /\ Hello(l, k)
  /\ request' = [request EXCEPT ![l] = [what |-> "connect", ref |-> k, token |-> klick[k].token]]
  /\ UNCHANGED <<wallet, outbox, pruned, links, job, fill, net, owed, tainted>>

(* createLink, the transaction: refused if there is a link to the same klick
   link; else the row is there and the request goes on to the backfill *)
Connect(l) ==
  LET k == request[l].ref IN
  /\ request[l].what = "connect" /\ SeqFree
  /\ request' = [request EXCEPT ![l] = Idle]
  /\ Taken(k) => UNCHANGED <<links, fill, tainted>>
  /\ ~Taken(k) =>
       /\ fill["user"].pc = "off"
       /\ tainted' = (tainted \/ Leftovers)
       /\ links' = [links EXCEPT ![l] =
            [status |-> "active", ref |-> k, acked |-> Len(outbox), start |-> Len(outbox),
             ready |-> FALSE, token |-> request[l].token]]
       /\ fill' = [fill EXCEPT !["user"] = [pc |-> "begin", link |-> l, waits |-> {}, read |-> 0]]
  /\ UNCHANGED <<wallet, outbox, pruned, job, net, klick, owed, fails>>

(* the answer of hello is lost, or the request dies before it stores anything *)
RequestDies(l) ==
  /\ request[l] # Idle /\ Fail
  /\ request' = [request EXCEPT ![l] = Idle]
  /\ UNCHANGED <<wallet, outbox, pruned, links, job, fill, net, klick, owed, tainted>>

(* renewLinkToken up to the answer of hello: a token of another klick link is
   refused, after klick has bound that link too.  A token that is stored and
   bound already is left out: it would do what Resume does. *)
RenewHello(l, k) ==
  /\ Connected(l) /\ request[l] = Idle
  /\ links[l].token # klick[k].token \/ klick[k].bound # l
  /\ IF k = links[l].ref THEN UNCHANGED fails ELSE Fail
  /\ Hello(l, k)
  /\ request' = IF k # links[l].ref THEN request
                ELSE [request EXCEPT ![l] = [what |-> "renew", ref |-> k, token |-> klick[k].token]]
  /\ UNCHANGED <<wallet, outbox, pruned, links, job, fill, net, owed, tainted>>

(* renewLinkToken, the transaction: written by id *)
Renew(l) ==
  /\ request[l].what = "renew" /\ RowFree(l)
  /\ links' = [links EXCEPT ![l].token = request[l].token, ![l].status = "active"]
  /\ Revives(l)
  /\ request' = [request EXCEPT ![l] = Idle]
  /\ UNCHANGED <<wallet, outbox, pruned, job, fill, net, klick, owed, fails>>

(* setLinkState *)
Pause(l) ==
  /\ links[l].status = "active" /\ RowFree(l) /\ Fail
  /\ links' = [links EXCEPT ![l].status = "paused"]
  /\ UNCHANGED <<wallet, outbox, pruned, request, job, fill, net, klick, owed, tainted>>

Resume(l) ==
  /\ links[l].status = "paused" /\ RowFree(l)
  /\ links' = [links EXCEPT ![l].status = "active"]
  /\ UNCHANGED <<wallet, outbox, pruned, request, job, fill, net, klick, owed, tainted, fails>>

(* a call to klick about the link is under way *)
Calling(l) == request[l].what = "renew" \/ (job.link = l /\ job.pc \in {"post", "wait"})

Revoke(l) ==
  /\ Connected(l) /\ RowFree(l)
  /\ IF Calling(l) THEN Fail ELSE UNCHANGED fails
  /\ links' = [links EXCEPT ![l].status = "revoked"]
  /\ UNCHANGED <<wallet, outbox, pruned, request, job, fill, net, klick, owed, tainted>>

-----------------------------------------------------------------------------
(* completeBackfill                                                          *)

Off == [pc |-> "off", link |-> NoLink, waits |-> {}, read |-> 0]

\* Mutant of FillBegins: no barrier.
FillBeginsAtOnce(p) ==
  /\ fill[p].pc = "begin"
  /\ fill' = [fill EXCEPT ![p].pc = "wait"]
  /\ UNCHANGED <<wallet, outbox, pruned, links, request, job, net, klick, owed, tainted, fails>>

(* waitForEarlierWriters: the transactions that are running now *)
FillBegins(p) ==
  /\ fill[p].pc = "begin"
  /\ fill' = [fill EXCEPT ![p].pc = "wait", ![p].waits = {k \in Kinds : writer[k] # "idle"}]
  /\ UNCHANGED <<wallet, outbox, pruned, links, request, job, net, klick, owed, tainted, fails>>

(* they are done: lock the link; emitOrgUpdated takes the number lock, then
   the state is read.  A link that is done or revoked is left alone. *)
FillReads(p) ==
  LET l == fill[p].link IN
  /\ fill[p].pc = "wait" /\ fill[p].waits = {} /\ SeqFree
  /\ fill' = [fill EXCEPT ![p] =
       IF links[l].ready \/ ~Connected(l) THEN Off
       ELSE [@ EXCEPT !.pc = "locked", !.read = ver]]
  /\ UNCHANGED <<wallet, outbox, pruned, links, request, job, net, klick, owed, tainted, fails>>

(* the events for this link and backfilledAt, in one commit *)
FillCommits(p) ==
  LET l == fill[p].link IN
  /\ fill[p].pc = "locked"
  /\ outbox' = Append(outbox, [kind |-> "row", ver |-> fill[p].read, link |-> l])
  /\ links' = [links EXCEPT ![l].ready = TRUE]
  /\ fill' = [fill EXCEPT ![p] = Off]
  /\ UNCHANGED <<wallet, pruned, request, job, net, klick, owed, tainted, fails>>

(* earlier writers take too long, or the request dies: the job makes up for it *)
FillDies ==
  /\ fill["user"].pc # "off" /\ Fail
  /\ fill' = [fill EXCEPT !["user"] = Off]
  /\ UNCHANGED <<wallet, outbox, pruned, links, request, job, net, klick, owed, tainted>>

-----------------------------------------------------------------------------
(* runKlickExport                                                            *)

Resting ==
  [pc |-> "idle", taken |-> {}, linked |-> FALSE, read |-> 0, todo |-> {},
   link |-> NoLink, batch |-> {}, token |-> 0]

(* convertChanges: the noted changes, FOR UPDATE SKIP LOCKED *)
JobTakes ==
  /\ job.pc = "idle" /\ HasLinks
  /\ job' = [Resting EXCEPT !.pc = "take", !.taken = changes]
  /\ changes' = {}
  /\ UNCHANGED <<ver, alerted, writer, outbox, pruned, links, request, fill, net, klick, owed, tainted, fails>>

(* then hasLinks and the current state of what changed *)
JobReads ==
  /\ job.pc = "take"
  /\ job' = [job EXCEPT !.pc = "read", !.linked = HasLinks, !.read = ver]
  /\ UNCHANGED <<wallet, outbox, pruned, links, request, fill, net, klick, owed, tainted, fails>>

(* accounts, transfers, payouts: one event per changed row, with its state *)
RowEvents(taken, v) ==
  IF "row" \in taken THEN <<[kind |-> "row", ver |-> v, link |-> NoLink]>> ELSE <<>>

(* auditAlerts *)
AlertEvents(taken) ==
  IF "alert" \in taken THEN <<[kind |-> "alert", ver |-> 0, link |-> NoLink]>> ELSE <<>>

(* the events are written, the notes deleted, linked or not *)
JobCommits ==
  /\ job.pc = "read" /\ SeqFree
  /\ outbox' = IF job.linked THEN outbox \o RowEvents(job.taken, job.read) \o AlertEvents(job.taken)
               ELSE outbox
  /\ job' = [Resting EXCEPT !.pc = "links",
       !.todo = {<<l, links[l].ready>> : l \in {m \in Links : links[m].status = "active"}}]
  /\ UNCHANGED <<wallet, pruned, links, request, fill, net, klick, owed, tainted, fails>>

(* the next link: an open backfill first *)
JobNext ==
  /\ job.pc = "links" /\ job.todo # {}
  /\ \E t \in job.todo :
       /\ job' = [job EXCEPT !.todo = @ \ {t}, !.link = t[1], !.pc = IF t[2] THEN "send" ELSE "fill"]
       /\ fill' = IF t[2] THEN fill
                  ELSE [fill EXCEPT !["job"] = [Off EXCEPT !.pc = "begin", !.link = t[1]]]
  /\ UNCHANGED <<wallet, outbox, pruned, links, request, net, klick, owed, tainted, fails>>

JobFilled ==
  /\ job.pc = "fill" /\ fill["job"].pc = "off"
  /\ job' = [job EXCEPT !.pc = "send"]
  /\ UNCHANGED <<wallet, outbox, pruned, links, request, fill, net, klick, owed, tainted, fails>>

JobEnds ==
  /\ job.pc = "links" /\ job.todo = {}
  /\ job' = Resting
  /\ UNCHANGED <<wallet, outbox, pruned, links, request, fill, net, klick, owed, tainted, fails>>

(* nobody waits for an answer any more: klick goes on with the batch or loses it *)
BatchLeft ==
  \/ net' = [i \in DOMAIN net |-> [net[i] EXCEPT !.awaited = FALSE]]
  \/ \E i \in DOMAIN net : net[i].awaited /\ net' = RemoveAt(net, i)

\* Mutant of JobDies: the notes were deleted before their events were written.
JobDiesForgetful ==
  /\ job.pc # "idle" /\ Fail
  /\ job' = Resting
  /\ fill' = [fill EXCEPT !["job"] = Off]
  /\ BatchLeft
  /\ UNCHANGED <<wallet, outbox, pruned, links, request, klick, owed, tainted>>

(* the process dies: what was not committed is rolled back *)
JobDies ==
  /\ job.pc # "idle" /\ Fail
  /\ changes' = IF job.pc \in {"take", "read"} THEN changes \cup job.taken ELSE changes
  /\ job' = Resting
  /\ fill' = [fill EXCEPT !["job"] = Off]
  /\ BatchLeft
  /\ UNCHANGED <<ver, alerted, writer, outbox, pruned, links, request, klick, owed, tainted>>

-----------------------------------------------------------------------------
(* sendLink                                                                  *)

(* what the link has not acknowledged, in order *)
Pending(l) ==
  {n \in (links[l].acked + 1)..Len(outbox) : n > pruned /\ outbox[n].link \in {NoLink, l}}

(* the first MAX_BATCH of them *)
Batch(l) == {n \in Pending(l) : Cardinality({m \in Pending(l) : m <= n}) <= BatchSize}

(* an active link with its backfill done, and rows to send *)
SendReads ==
  LET l == job.link
      ok == links[l].status = "active" /\ links[l].ready /\ Pending(l) # {}
  IN
  /\ job.pc = "send"
  /\ job' = IF ok THEN [job EXCEPT !.pc = "post", !.batch = Batch(l), !.token = links[l].token]
            ELSE [job EXCEPT !.pc = "links", !.link = NoLink]
  /\ UNCHANGED <<wallet, outbox, pruned, links, request, fill, net, klick, owed, tainted, fails>>

(* tokenAuth, linkForToken, receiveBatch up to its checks *)
Accepts(k, l, token) ==
  klick[k].status = "active" /\ klick[k].token = token /\ klick[k].bound = l

(* the batch reaches klick *)
Post ==
  LET l == job.link IN
  /\ job.pc = "post" /\ Accepts(links[l].ref, l, job.token)
  /\ net' = Append(net, [ref |-> links[l].ref, rest |-> job.batch, awaited |-> TRUE])
  /\ job' = [job EXCEPT !.pc = "wait"]
  /\ UNCHANGED <<wallet, outbox, pruned, links, request, fill, klick, owed, tainted, fails>>

Done == [job EXCEPT !.pc = "links", !.link = NoLink, !.batch = {}, !.token = 0]

(* 401, 403: fail("pause") writes by id *)
PostRefused ==
  LET l == job.link IN
  /\ job.pc = "post" /\ ~Accepts(links[l].ref, l, job.token)
  /\ RowFree(l)
  /\ links' = [links EXCEPT ![l].status = "paused"]
  /\ Revives(l)
  /\ job' = Done
  /\ UNCHANGED <<wallet, outbox, pruned, request, fill, net, klick, owed, fails>>

(* the call does not reach klick: fail("retry") *)
PostFails ==
  /\ job.pc = "post" /\ Fail
  /\ job' = Done
  /\ UNCHANGED <<wallet, outbox, pruned, links, request, fill, net, klick, owed, tainted>>

(* the answer does not come in time: klick dies with the batch, or is only slow *)
AnswerLost ==
  /\ job.pc = "wait" /\ Fail
  /\ BatchLeft
  /\ job' = Done
  /\ UNCHANGED <<wallet, outbox, pruned, links, request, fill, klick, owed, tainted>>

(* every event has its result, rejected ones too: the cursor moves on *)
Answered ==
  /\ job.pc = "wait"
  /\ \E i \in DOMAIN net :
       /\ net[i].awaited /\ net[i].rest = {}
       /\ net' = RemoveAt(net, i)
  /\ links' = [links EXCEPT ![job.link].acked = Max(job.batch)]
  /\ job' = [job EXCEPT !.pc = "send", !.batch = {}, !.token = 0]
  /\ UNCHANGED <<wallet, outbox, pruned, request, fill, klick, owed, tainted, fails>>

\* Mutant of Prune: a paused link does not hold events back.
PruneActive ==
  LET keep == {links[l].acked : l \in {m \in Links : links[m].status = "active"}} IN
  /\ \E n \in (pruned + 1)..(IF keep = {} THEN Len(outbox) ELSE Min(keep)) : pruned' = n
  /\ UNCHANGED <<wallet, outbox, links, request, job, fill, net, klick, owed, tainted, fails>>

\* Mutant of Prune: the first event that is not acknowledged goes too.
PruneNext ==
  LET keep == {links[l].acked : l \in {m \in Links : Connected(m)}} IN
  /\ \E n \in (pruned + 1)..(IF keep = {} THEN Len(outbox) ELSE Min(keep) + 1) : pruned' = n
  /\ UNCHANGED <<wallet, outbox, links, request, job, fill, net, klick, owed, tainted, fails>>

(* pruneOutbox: old rows that every link has acknowledged *)
Prune ==
  LET keep == {links[l].acked : l \in {m \in Links : Connected(m)}} IN
  /\ \E n \in (pruned + 1)..(IF keep = {} THEN Len(outbox) ELSE Min(keep)) : pruned' = n
  /\ UNCHANGED <<wallet, outbox, links, request, job, fill, net, klick, owed, tainted, fails>>

-----------------------------------------------------------------------------
(* klick                                                                     *)

(* applyAccount, applyTransfer, applyPayout: the newer revision wins *)
RowApplied(r, n, e) == IF n > r.rev THEN [r EXCEPT !.rev = n, !.ver = e.ver] ELSE r

(* applyAlertRaised: one task for an alert *)
AlertApplied(r) == IF r.tasks = 0 THEN [r EXCEPT !.tasks = 1] ELSE r

(* eventOutcome, applyEvent: an event that is known has no effect *)
Applied(r, n, e) ==
  IF n \in r.known THEN r
  ELSE [(IF e.kind = "row" THEN RowApplied(r, n, e) ELSE AlertApplied(r)) EXCEPT !.known = @ \cup {n}]

\* Mutant of ReceiveEvent: the events of a batch are not taken in order.
ReceiveEventAny(i) ==
  LET k == net[i].ref IN
  /\ \E n \in net[i].rest :
       /\ klick' = IF klick[k].status = "active"
                   THEN [klick EXCEPT ![k] = Applied(@, n, outbox[n])] ELSE klick
       /\ net' = [net EXCEPT ![i].rest = @ \ {n}]
  /\ UNCHANGED <<wallet, outbox, pruned, links, request, job, fill, owed, tainted, fails>>

(* receiveEvent: one transaction per event, the link's row locked; on a link
   that was revoked meanwhile the event is rejected *)
ReceiveEvent(i) ==
  LET k == net[i].ref
      n == Min(net[i].rest)
  IN
  /\ net[i].rest # {}
  /\ klick' = IF klick[k].status = "active"
              THEN [klick EXCEPT ![k] = Applied(@, n, outbox[n])] ELSE klick
  /\ net' = [net EXCEPT ![i].rest = @ \ {n}]
  /\ UNCHANGED <<wallet, outbox, pruned, links, request, job, fill, owed, tainted, fails>>

(* a batch whose caller is gone ends *)
BatchEnds(i) ==
  /\ net[i].rest = {} /\ ~net[i].awaited
  /\ net' = RemoveAt(net, i)
  /\ UNCHANGED <<wallet, outbox, pruned, links, request, job, fill, klick, owed, tainted, fails>>

(* renewWalletLinkToken of klick: the old token is worth nothing any more *)
NewToken(k) ==
  /\ klick[k].status = "active" /\ klick[k].token < MaxToken
  /\ klick' = [klick EXCEPT ![k].token = @ + 1]
  /\ UNCHANGED <<wallet, outbox, pruned, links, request, job, fill, net, owed, tainted, fails>>

(* revokeWalletLink of klick *)
KlickRevokes(k) ==
  /\ klick[k].status = "active" /\ Fail
  /\ klick' = [klick EXCEPT ![k].status = "revoked"]
  /\ UNCHANGED <<wallet, outbox, pruned, links, request, job, fill, net, owed, tainted>>

-----------------------------------------------------------------------------

Init ==
  /\ ver = 0 /\ alerted = FALSE /\ changes = {}
  /\ writer = [k \in Kinds |-> "idle"]
  /\ outbox = <<>> /\ pruned = 0
  /\ links = [l \in Links |-> [status |-> "none", ref |-> NoLink, acked |-> 0, start |-> 0,
                               ready |-> FALSE, token |-> 0]]
  /\ request = [l \in Links |-> Idle]
  /\ job = Resting /\ fill = [p \in Fillers |-> Off]
  /\ net = <<>>
  /\ klick = [k \in KLinks |-> [status |-> "active", bound |-> NoLink, token |-> 1,
                                known |-> {}, rev |-> 0, ver |-> 0, tasks |-> 0]]
  /\ owed = {} /\ tainted = FALSE /\ fails = 0

Writing == \E k \in Kinds : WriterBegins(k) \/ WriterCommits(k) \/ WriterRollsBack(k)

Users ==
  \E l \in Links :
    \/ \E k \in KLinks : ConnectHello(l, k) \/ RenewHello(l, k)
    \/ Connect(l) \/ RequestDies(l) \/ Renew(l)
    \/ Pause(l) \/ Resume(l) \/ Revoke(l)

Filling(p) == FillBegins(p) \/ FillReads(p) \/ FillCommits(p)

Exporting == JobTakes \/ JobReads \/ JobCommits \/ JobNext \/ JobFilled \/ JobEnds

Sending == SendReads \/ Post \/ PostRefused \/ Answered

Receiving == \E i \in DOMAIN net : ReceiveEvent(i) \/ BatchEnds(i)

Next ==
  \/ Writing \/ Users
  \/ (\E p \in Fillers : Filling(p)) \/ FillDies
  \/ Exporting \/ JobDies
  \/ Sending \/ PostFails \/ AnswerLost \/ Prune
  \/ Receiving \/ (\E k \in KLinks : NewToken(k) \/ KlickRevokes(k))

Spec == Init /\ [][Next]_vars

(* pg-boss starts the job every minute; transactions and requests end, and
   klick finishes a batch it has begun *)
FairSpec ==
  /\ Spec
  /\ WF_vars(Exporting) /\ WF_vars(Sending) /\ WF_vars(Receiving)
  /\ \A p \in Fillers : WF_vars(Filling(p))
  /\ \A k \in Kinds : WF_vars(WriterCommits(k))
  /\ \A l \in Links : WF_vars(Connect(l)) /\ WF_vars(Renew(l))

-----------------------------------------------------------------------------
(* Properties                                                                *)

(* the last version of the row in the outbox that the link gets *)
LastSent(l) ==
  LET rows == {n \in 1..Len(outbox) :
                 n > links[l].start /\ outbox[n].kind = "row" /\ outbox[n].link \in {NoLink, l}}
  IN  IF rows = {} THEN 0 ELSE outbox[Max(rows)].ver

(* From the backfill on nothing is missed: what a link will be sent ends with
   the current version, or a note of the change is waiting.  A transaction that
   was running when the link was created is what makes it hard
   (waitForEarlierWriters, export_capture, convertChanges).  Two cases are left
   out.  A late answer of klick overwrites a revoke: nothing was noted or kept
   for the link meanwhile.  And a link is made while the job still works on
   notes for a revoked one: it may number an old version after the backfill,
   and nobody noted the change in between. *)
NothingMissed ==
  ~tainted => \A l \in Links :
    Connected(l) /\ links[l].ready => LastSent(l) = ver \/ "row" \in changes \cup job.taken

(* The cursor of a link passes an event only when klick has it, whatever was
   lost, repeated or deleted from the outbox (sendLink, pruneOutbox; the
   deployment guide: a long pause costs storage but no data), with the same
   exceptions. *)
CursorHonest ==
  ~tainted => \A l \in Links :
    Connected(l) /\ klick[links[l].ref].status = "active" =>
      \A n \in (links[l].start + 1)..links[l].acked :
        outbox[n].link \in {NoLink, l} => n \in klick[links[l].ref].known

(* An event takes effect in klick at most once and after all earlier ones of
   its link, also when a batch that timed out is still being worked on beside
   its repetition: events without a revision rely on it (receiveEvent).  Late
   events from before the klick link was last connected are left out; the same
   exceptions. *)
InOrder ==
  [][~tainted => \A k \in KLinks :
       \A n \in klick'[k].known \ klick[k].known, m \in klick[k].known :
         (\A l \in Links : links[l].ref = k => links[l].start < n) => m < n]_vars

(* the link works: active on both sides, with klick's token *)
Working(l) ==
  /\ links[l].status = "active"
  /\ Accepts(links[l].ref, l, links[l].token)

(* klick has the current version, and every alert raised since the link was made *)
UpToDate(l) ==
  /\ Working(l)
  /\ klick[links[l].ref].ver = ver
  /\ alerted /\ l \in owed => klick[links[l].ref].tasks = 1

(* A link that works in the end brings klick up to date, whatever was lost on
   the way (runKlickExport, receiveBatch; the deployment guide: nothing is lost
   while a link is paused or its token is renewed), with the same exceptions. *)
Convergence == \A l \in Links : <>[](Working(l) /\ ~tainted) => <>[]UpToDate(l)
=============================================================================
