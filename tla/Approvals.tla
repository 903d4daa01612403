------------------------------ MODULE Approvals ------------------------------
(***************************************************************************)
(* klick's approvals (lib/approvals) of one document (app/actions/         *)
(* documents.ts, lib/documents): it is written, submitted, decided step by *)
(* step, published, replaced and retired.  Every server action is one      *)
(* PostgreSQL transaction at READ COMMITTED (lib/db/with-org.ts) without   *)
(* SELECT ... FOR UPDATE: an action is therefore split where it reads what *)
(* it later relies on.  What it writes is seen by others when it commits.  *)
(* The only lock that is held between two steps is the one decide takes    *)
(* with its UPDATE of the request; the one a submit that needs a new       *)
(* number takes on the document is left out, which only allows more.       *)
(*                                                                         *)
(* Abstractions.  A text is a number, a version is a number, a step's      *)
(* order is its position.  The rules of a step are a set: which of several *)
(* a decision counts for, the first in the code, may be any.  Delegations  *)
(* and the steps of the workflow are read anew by each action, so they may *)
(* differ from one to the next.  A workflow is enabled, the organisation   *)
(* has more than one member (no solo mode), and who holds which function   *)
(* does not change.  Due dates, notifications, resolutions, audit entries  *)
(* and passkey signatures are left out.                                    *)
(***************************************************************************)
EXTENDS Naturals, Sequences, FiniteSets, SequencesExt

CONSTANTS
  People,
  Authors,      \* people with the permission document:update
  Deciders,     \* people with the permission approval:decide
  Offices,      \* functions and roles
  Holds,        \* [People -> SUBSET Offices]: held in person
  Deputises,    \* [People -> SUBSET Offices]: as deputy of the holder
  Management,   \* the function management_body
  Owner,        \* documents.ownerUserId
  ApproverFn,   \* documents.approverFunction, or NoOffice
  NoOffice,
  Workflows,    \* steps of the enabled workflow, now these, now those
  Answers,      \* the answers people give
  Delegations,  \* pairs <<from, to>>; any of them may be in force at a time
  MaxVersion, MaxText, MaxRequests,  \* bounds
  MaxOpen       \* bound: transactions that run at the same time

VARIABLES
  doc,        \* documents: status, version and working copy
  vers,       \* document_versions
  reqs,       \* approval_requests, in the order of their creation
  decisions,  \* approval_decisions
  tx,         \* the transaction each person's request is in
  text,       \* texts written so far
  overtaken,  \* history: requests decided after they were no longer pending
  overlapped, \* history: requests with two decisions under way at once
  strayed     \* history: versions the document stood at when an approval of
              \* another one was written to it, too late or at once

data == <<doc, vers, reqs, decisions, text>>
history == <<overtaken, overlapped, strayed>>
vars == <<data, tx, history>>

Versions == 1..MaxVersion

Rule == [kind : {"function", "role"}, of : Offices] \cup [kind : {"user"}, of : People]
        \cup [kind : {"owner_of_entity", "approver_of_entity", "not_requester"}, of : {NoOffice}]

(* a step of the workflow, and what a request keeps of it; at least one person
   decides (workflowStepSchema: minApprovers) *)
Step ==
  [rules : SUBSET Rule, mode : {"any", "all"}, min : Nat \ {0}, everyone : BOOLEAN,
   skipIf : SUBSET Rule, onlyIf : BOOLEAN]

RouteStep ==
  [rules : SUBSET Rule, mode : {"any", "all"}, min : Nat \ {0}, everyone : BOOLEAN,
   skipped : BOOLEAN]

ASSUME ApprovalsAssumption ==
  /\ IsFiniteSet(People) /\ Authors \subseteq People /\ Deciders \subseteq People
  /\ Holds \in [People -> SUBSET Offices] /\ Deputises \in [People -> SUBSET Offices]
  /\ Management \in Offices /\ Owner \in People
  /\ NoOffice \notin Offices \cup People /\ ApproverFn \in Offices \cup {NoOffice}
  /\ Workflows \subseteq Seq(Step) /\ <<>> \notin Workflows
  /\ Answers \subseteq {"approved", "rejected", "changes_requested"}
  /\ Delegations \subseteq People \X People
  /\ MaxVersion \in Nat \ {0} /\ MaxText \in Nat \ {0}
  /\ MaxRequests \in Nat /\ MaxOpen \in Nat \ {0}

-----------------------------------------------------------------------------
(* Who may decide (rules.ts)                                                 *)

Functions(p) == Holds[p] \cup Deputises[p]

(* matchesRule *)
Matches(rule, p, by) ==
  CASE rule.kind = "function"        -> rule.of \in Functions(p)
    [] rule.kind = "role"            -> rule.of \in Holds[p]
    [] rule.kind = "user"            -> rule.of = p
    [] rule.kind = "owner_of_entity" -> p = Owner
    [] rule.kind = "not_requester"   -> p # by
    [] OTHER                         -> ApproverFn \in Functions(p)

Direct(step, p, by) == {r \in step.rules : Matches(r, p, by)}

\* Mutant of Voices: delegated rules count beside one's own.
VoicesMixed(step, p, by, dels) ==
  IF p = by \/ p \notin Deciders THEN {}
  ELSE {Direct(step, q, by) : q \in {o \in People : (o = p \/ <<o, p>> \in dels) /\ o # by}} \ {{}}

(* approverEligibility: the sets of rules p may decide for, in person or else
   for someone who delegated to p; none for the requester *)
Voices(step, p, by, dels) ==
  IF p = by \/ p \notin Deciders THEN {}
  ELSE IF Direct(step, p, by) # {} THEN {Direct(step, p, by)}
  ELSE {Direct(step, q, by) : q \in {o \in People : <<o, p>> \in dels /\ o # by}} \ {{}}

(* eligibleApprovers *)
HasApprover(step, by, dels) == \E p \in People : Voices(step, p, by, dels) # {}

Yes(ds) == {d \in ds : d.decision = "approved"}

(* stepSatisfied *)
StepSatisfied(step, ds) ==
  LET Enough(yes) == Cardinality({d.who : d \in yes}) >= step.min IN
  IF step.mode = "all" /\ Cardinality(step.rules) > 1
  THEN \A r \in step.rules : Enough({d \in Yes(ds) : d.rule = r})
  ELSE Enough(Yes(ds))

(* openRules *)
OpenRules(step, ds) ==
  {r \in step.rules : step.mode = "all" /\ Cardinality({d \in Yes(ds) : d.rule = r}) < step.min}

Active(steps) == {i \in DOMAIN steps : ~steps[i].skipped}

Least(S) == CHOOSE i \in S : \A j \in S : i <= j

\* Mutant of Advance: one decision is enough for a step.
AdvanceEasy(steps, cur, ds) ==
  LET later == {i \in Active(steps) : i > cur} IN
  IF later = {} THEN [status |-> "approved", cur |-> cur]
  ELSE [status |-> "pending", cur |-> Least(later)]

\* Mutant of Advance: a skipped step is not passed over.
AdvanceOn(steps, cur, ds) ==
  LET no == {d.decision : d \in ds} \ {"approved"} IN
  IF no # {} THEN [status |-> CHOOSE a \in no : TRUE, cur |-> cur]
  ELSE [status |-> "pending", cur |-> IF StepSatisfied(steps[cur], ds) THEN cur + 1 ELSE cur]

(* advance: the request's status and current step after a decision *)
Advance(steps, cur, ds) ==
  LET later == {i \in Active(steps) : i > cur}
      Has(answer) == \E d \in ds : d.decision = answer
  IN
  CASE Has("rejected")                  -> [status |-> "rejected", cur |-> cur]
    [] ~Has("rejected") /\ Has("changes_requested") -> [status |-> "changes_requested", cur |-> cur]
    [] OTHER ->
         IF ~StepSatisfied(steps[cur], ds) THEN [status |-> "pending", cur |-> cur]
         ELSE IF later = {} THEN [status |-> "approved", cur |-> cur]
         ELSE [status |-> "pending", cur |-> Least(later)]

-----------------------------------------------------------------------------
(* The route of a request (route.ts)                                         *)

(* resolveEntityApprover *)
Resolved(rules) ==
  {r \in rules : r.kind # "approver_of_entity"}
  \cup {[kind |-> "function", of |-> f] :
          f \in {g \in {ApproverFn} \ {NoOffice} : \E r \in rules : r.kind = "approver_of_entity"}}

(* stepVacant: functions nobody holds; the management is never passed over *)
Vacant(rules) ==
  \A r \in rules :
    r.kind = "function" /\ r.of # Management /\ \A p \in People : r.of \notin Functions(p)

(* expandEveryone: holders become seats of their own; the requester's is given *)
Expanded(step, by) ==
  LET people == {p \in People : \E r \in step.rules :
                   \/ r.kind = "function" /\ r.of \in Holds[p]
                   \/ r.kind \in {"role", "user"} /\ Matches(r, p, by)}
      others == people \ {by}
  IN
  CASE people = {} -> step
    [] people # {} /\ others = {} -> [step EXCEPT !.skipped = TRUE]
    [] OTHER -> [step EXCEPT !.mode = "all", !.min = 1,
                             !.rules = {[kind |-> "user", of |-> p] : p \in others}]

(* planRoute: the snapshot of the steps that a request carries *)
Planned(raw, by) ==
  LET rules == Resolved(raw.rules)
      skip == \/ rules = {} \/ ~raw.onlyIf
              \/ \E r \in raw.skipIf : Matches(r, by, by)
              \/ Vacant(rules)
      step == [rules |-> rules, mode |-> raw.mode, min |-> raw.min, everyone |-> raw.everyone,
               skipped |-> skip]
  IN
  IF ~skip /\ step.everyone THEN Expanded(step, by) ELSE step

Route(workflow, by) == [i \in DOMAIN workflow |-> Planned(workflow[i], by)]

(* the warnings of planRoute: nobody can decide, in mode "all" for one rule *)
Warned(step, by, dels) ==
  IF step.mode = "all" /\ Cardinality(step.rules) > 1
  THEN \E r \in step.rules : ~HasApprover([step EXCEPT !.rules = {r}], by, dels)
  ELSE ~HasApprover(step, by, dels)

(* requestApproval, no_approver: an everyone step with a warning, or a first
   step without approver *)
Refused(steps, by, dels) ==
  \/ \E i \in Active(steps) : steps[i].everyone /\ Warned(steps[i], by, dels)
  \/ Active(steps) # {} /\ ~HasApprover(steps[Least(Active(steps))], by, dels)

-----------------------------------------------------------------------------
(* Transactions                                                              *)

NoTx == [op |-> "none"]

Open == {p \in People : tx[p] # NoTx}

Begin(p, t) ==
  /\ tx[p] = NoTx /\ Cardinality(Open) < MaxOpen
  /\ tx' = [tx EXCEPT ![p] = t]

End(p) == tx' = [tx EXCEPT ![p] = NoTx]

(* an error, a time limit or a deadlock ends the transaction *)
RollsBack(p) ==
  /\ tx[p] # NoTx
  /\ End(p)
  /\ UNCHANGED <<data, history>>

(* decide has updated the request and not yet committed *)
Locked(r) == \E p \in People : tx[p].op \in {"marked", "looked"} /\ tx[p].req = r

Pending == {r \in DOMAIN reqs : reqs[r].status = "pending"}

\* Mutant of Withdrawn: the open request stays.
NotWithdrawn == reqs

(* withdrawOpenRequests, and the same statement in requestApproval *)
Withdrawn == [r \in DOMAIN reqs |->
                IF r \in Pending THEN [reqs[r] EXCEPT !.status = "withdrawn"] ELSE reqs[r]]

On(r, i) == {d \in decisions : d.req = r /\ d.step = i}

-----------------------------------------------------------------------------
(* decide (service.ts) with approvalEffects                                  *)

(* the request is pending and p may decide on its current step: not twice,
   and in mode "all" only for a rule that is open *)
DecideReads(p, r, answer) ==
  LET q == reqs[r]
      step == q.steps[q.cur]
      open == OpenRules(step, On(r, q.cur))
  IN
  /\ q.status = "pending"
  /\ \A d \in On(r, q.cur) : d.who # p
  /\ \E dels \in SUBSET {d \in Delegations : d[2] = p} : \E rules \in Voices(step, p, q.by, dels) :
       /\ step.mode = "all" => rules \cap open # {}
       /\ \E rule \in (IF rules \cap open # {} THEN rules \cap open ELSE rules) :
            Begin(p, [op |-> "decide", req |-> r, step |-> q.cur,
                      vote |-> [req |-> r, step |-> q.cur, who |-> p, rule |-> rule,
                                decision |-> answer]])
  /\ overlapped' = IF \E o \in People : tx[o].op \in {"decide", "counted", "marked", "looked"}
                                        /\ tx[o].req = r
                   THEN overlapped \cup {r} ELSE overlapped
  /\ UNCHANGED <<data, overtaken, strayed>>

\* Mutant of DecideCounts: the decisions were read before this one was made.
DecideCountsBefore(p) ==
  LET t == tx[p] IN
  /\ t.op = "decide"
  /\ tx' = [tx EXCEPT ![p] =
       [op |-> "counted", req |-> t.req, vote |-> t.vote,
        out |-> Advance(reqs[t.req].steps, t.step, On(t.req, t.step))]]
  /\ UNCHANGED <<data, history>>

(* the decision is inserted, then the decisions on the step are read: the
   committed ones and this one *)
DecideCounts(p) ==
  LET t == tx[p] IN
  /\ t.op = "decide"
  /\ tx' = [tx EXCEPT ![p] =
       [op |-> "counted", req |-> t.req, vote |-> t.vote,
        out |-> Advance(reqs[t.req].steps, t.step, On(t.req, t.step) \cup {t.vote})]]
  /\ UNCHANGED <<data, history>>

Late(r) == overtaken' = IF r \in Pending THEN overtaken ELSE overtaken \cup {r}

(* not the last decision: the step is written by id, and nothing else *)
DecideMoves(p) ==
  LET t == tx[p] IN
  /\ t.op = "counted" /\ t.out.status = "pending" /\ ~Locked(t.req)
  /\ reqs' = [reqs EXCEPT ![t.req].cur = t.out.cur]
  /\ decisions' = decisions \cup {t.vote}
  /\ End(p)
  /\ UNCHANGED <<doc, vers, text, history>>

(* the last decision: the status is written by id, which locks the row *)
DecideMarks(p) ==
  LET t == tx[p] IN
  /\ t.op = "counted" /\ t.out.status # "pending" /\ ~Locked(t.req)
  /\ tx' = [tx EXCEPT ![p] = [op |-> "marked", req |-> t.req, vote |-> t.vote,
                              status |-> t.out.status]]
  /\ Late(t.req)
  /\ UNCHANGED <<data, overlapped, strayed>>

(* applyApprovalOutcome reads the document: has it moved on? *)
DecideLooks(p) ==
  LET t == tx[p] IN
  /\ t.op = "marked"
  /\ tx' = [tx EXCEPT ![p] =
       [op |-> "looked", req |-> t.req, vote |-> t.vote, status |-> t.status,
        fresh |-> doc.status = "in_review" /\ doc.version = reqs[t.req].ver]]
  /\ UNCHANGED <<data, history>>

(* markVersionApproved: once per version *)
MarkApproved(vs, v, r) ==
  IF vs[v].there /\ ~vs[v].approved
  THEN [vs EXCEPT ![v].approved = TRUE, ![v].req = r] ELSE vs

(* the document is set to "approved" by id, although it stands at another version *)
Strays(astray, at) == strayed' = IF astray THEN strayed \cup {at} ELSE strayed

(* the outcome is applied, unless the document had moved on, and committed *)
DecideCommits(p) ==
  LET t == tx[p]
      ok == t.status = "approved"
  IN
  /\ t.op = "looked"
  /\ reqs' = [reqs EXCEPT ![t.req].status = t.status]
  /\ decisions' = decisions \cup {t.vote}
  /\ doc' = IF t.fresh THEN [doc EXCEPT !.status = IF ok THEN "approved" ELSE "draft"] ELSE doc
  /\ vers' = IF t.fresh /\ ok THEN MarkApproved(vers, reqs[t.req].ver, t.req) ELSE vers
  /\ Strays(t.fresh /\ ok /\ t.req \in overtaken /\ doc.version # reqs[t.req].ver, doc.version)
  /\ End(p)
  /\ UNCHANGED <<text, overtaken, overlapped>>

(* withdraw: one statement, only a pending request of one's own *)
Withdraw(p, r) ==
  /\ tx[p] = NoTx /\ reqs[r].by = p /\ r \in Pending /\ ~Locked(r)
  /\ reqs' = [reqs EXCEPT ![r].status = "withdrawn"]
  /\ UNCHANGED <<doc, vers, decisions, tx, text, history>>

-----------------------------------------------------------------------------
(* The document's life (documents.ts, version-service.ts)                    *)

(* DOCUMENT_STATUS_MACHINE, updateDocument and newDocumentVersion: what may be
   done in which status *)
MayDo(op) ==
  CASE op \in {"edit", "submit"} -> {"draft"}
    [] op = "back"    -> {"in_review"}
    [] op = "publish" -> {"approved"}
    [] op = "retire"  -> {"published"}
    [] op = "version" -> {"approved", "published", "retired"}

\* Bounds: an action that could not be finished is not begun.
Within(op) ==
  /\ op = "edit" => text < MaxText
  /\ op = "submit" => Len(reqs) < MaxRequests
  /\ op = "version" => doc.version < MaxVersion

(* an author's action reads the document *)
AuthorReads(p, op) ==
  /\ p \in Authors /\ doc.status \in MayDo(op) /\ Within(op)
  /\ Begin(p, [op |-> op, at |-> doc.version, body |-> doc.body])
  /\ UNCHANGED <<data, history>>

(* updateDocument, by id *)
EditCommits(p) ==
  /\ tx[p].op = "edit" /\ text < MaxText
  /\ text' = text + 1
  /\ doc' = [doc EXCEPT !.body = text']
  /\ End(p)
  /\ UNCHANGED <<vers, reqs, decisions, history>>

(* snapshotForReview: the number, a new one if it is taken *)
SubmitNumbers(p) ==
  LET t == tx[p]
      taken == vers[t.at].approved \/ vers[t.at].published > 0
  IN
  /\ t.op = "submit" /\ (taken => t.at < MaxVersion)
  /\ tx' = [tx EXCEPT ![p] = [op |-> "numbered", at |-> t.at, body |-> t.body,
                              ver |-> IF taken THEN t.at + 1 ELSE t.at]]
  /\ UNCHANGED <<data, history>>

(* the text becomes the version, unless that is approved or published *)
Snapshot(t) ==
  IF vers[t.ver].approved \/ vers[t.ver].published > 0 THEN vers
  ELSE [vers EXCEPT ![t.ver].there = TRUE, ![t.ver].body = t.body]

(* requestApproval: the request; without a step left it is approved at once *)
NewRequest(p, t, steps) ==
  LET active == Active(steps) IN
  [by |-> p, ver |-> t.ver, body |-> t.body, steps |-> steps,
   status |-> IF active = {} THEN "approved" ELSE "pending",
   cur |-> IF active = {} THEN 1 ELSE Least(active)]

(* the snapshot, the request and the document's status; refused: all is rolled back *)
SubmitCommits(p, workflow) ==
  LET t == tx[p]
      steps == Route(workflow, p)
      req == NewRequest(p, t, steps)
  IN
  /\ t.op = "numbered" /\ \A r \in Pending : ~Locked(r)
  /\ \E refused \in {Refused(steps, p, dels) : dels \in SUBSET Delegations} :
     \/ /\ refused
        /\ UNCHANGED <<doc, vers, reqs, strayed>>
     \/ /\ ~refused
        /\ Len(reqs) < MaxRequests
        /\ reqs' = Append(Withdrawn, req)
        /\ doc' = [doc EXCEPT !.status = IF req.status = "approved" THEN "approved" ELSE "in_review",
                              !.version = IF t.ver = t.at THEN @ ELSE t.ver]
        /\ vers' = IF req.status = "approved" THEN MarkApproved(Snapshot(t), t.ver, Len(reqs'))
                   ELSE Snapshot(t)
        /\ Strays(req.status = "approved" /\ doc'.version # t.ver, doc'.version)
  /\ End(p)
  /\ UNCHANGED <<decisions, text, overtaken, overlapped>>

(* from review back to draft: the number stays, the request ends *)
BackCommits(p) ==
  /\ tx[p].op = "back" /\ \A r \in Pending : ~Locked(r)
  /\ reqs' = Withdrawn
  /\ doc' = [doc EXCEPT !.status = "draft"]
  /\ End(p)
  /\ UNCHANGED <<vers, decisions, text, history>>

(* beginNewVersion: the next number, from the text that was read or from an
   earlier version *)
VersionCommits(p) ==
  LET t == tx[p] IN
  /\ t.op = "version" /\ t.at < MaxVersion /\ \A r \in Pending : ~Locked(r)
  /\ reqs' = Withdrawn
  /\ \E body \in {t.body} \cup {vers[v].body : v \in {u \in Versions : vers[u].there}} :
       doc' = [status |-> "draft", version |-> t.at + 1, body |-> body]
  /\ End(p)
  /\ UNCHANGED <<vers, decisions, text, history>>

LastPublished == CHOOSE n \in 0..MaxVersion :
  /\ \A v \in Versions : vers[v].published <= n
  /\ n = 0 \/ \E v \in Versions : vers[v].published = n

\* Mutant of PublishCommits: the version the document stands at by now.
PublishCommitsNow(p) ==
  /\ tx[p].op = "publish"
  /\ doc' = [doc EXCEPT !.status = "published"]
  /\ vers' = IF vers[doc.version].there /\ vers[doc.version].published = 0
             THEN [vers EXCEPT ![doc.version].published = LastPublished + 1] ELSE vers
  /\ End(p)
  /\ UNCHANGED <<reqs, decisions, text, history>>

(* published: the version that was read is in force from now on *)
PublishCommits(p) ==
  LET t == tx[p] IN
  /\ t.op = "publish"
  /\ doc' = [doc EXCEPT !.status = "published"]
  /\ vers' = IF vers[t.at].there /\ vers[t.at].published = 0
             THEN [vers EXCEPT ![t.at].published = LastPublished + 1] ELSE vers
  /\ End(p)
  /\ UNCHANGED <<reqs, decisions, text, history>>

(* currentPublished: the last one published, unless it is retired *)
InForce == {v \in Versions : vers[v].published > 0 /\ vers[v].published = LastPublished
                             /\ ~vers[v].retired}

RetireCommits(p) ==
  /\ tx[p].op = "retire"
  /\ doc' = [doc EXCEPT !.status = "retired"]
  /\ vers' = [v \in Versions |-> IF v \in InForce THEN [vers[v] EXCEPT !.retired = TRUE] ELSE vers[v]]
  /\ End(p)
  /\ UNCHANGED <<reqs, decisions, text, history>>

-----------------------------------------------------------------------------

Init ==
  /\ doc = [status |-> "draft", version |-> 1, body |-> 1] /\ text = 1
  /\ vers = [v \in Versions |-> [there |-> FALSE, body |-> 0, approved |-> FALSE, req |-> 0,
                                 published |-> 0, retired |-> FALSE]]
  /\ reqs = <<>> /\ decisions = {}
  /\ tx = [p \in People |-> NoTx]
  /\ overtaken = {} /\ overlapped = {} /\ strayed = {}

Deciding(p) ==
  \/ \E r \in DOMAIN reqs : (\E a \in Answers : DecideReads(p, r, a)) \/ Withdraw(p, r)
  \/ DecideCounts(p) \/ DecideMoves(p) \/ DecideMarks(p) \/ DecideLooks(p) \/ DecideCommits(p)

Writing(p) ==
  \/ \E op \in {"edit", "submit", "back", "publish", "retire", "version"} : AuthorReads(p, op)
  \/ EditCommits(p) \/ SubmitNumbers(p) \/ BackCommits(p)
  \/ \E w \in Workflows : SubmitCommits(p, w)
  \/ VersionCommits(p) \/ PublishCommits(p) \/ RetireCommits(p)

Next == \E p \in People : Deciding(p) \/ Writing(p) \/ RollsBack(p)

Spec == Init /\ [][Next]_vars

-----------------------------------------------------------------------------
(* Properties                                                                *)

Vote == [req : 1..MaxRequests, step : Nat, who : People, rule : Rule, decision : Answers]

ApprovalTypeOK ==
  /\ doc \in [status : {"draft", "in_review", "approved", "published", "retired"},
              version : Versions, body : 1..MaxText]
  /\ vers \in [Versions -> [there : BOOLEAN, body : 0..MaxText, approved : BOOLEAN,
                            req : 0..MaxRequests, published : 0..MaxVersion, retired : BOOLEAN]]
  /\ reqs \in Seq([by : Authors, ver : Versions, body : 1..MaxText, steps : Seq(RouteStep),
                   status : Answers \cup {"approved", "pending", "withdrawn"}, cur : Nat])
  /\ Len(reqs) <= MaxRequests
  /\ \A r \in Pending : reqs[r].cur \in Active(reqs[r].steps)
  /\ decisions \subseteq Vote
  /\ text \in 1..MaxText
  /\ overtaken \subseteq DOMAIN reqs /\ overlapped \subseteq DOMAIN reqs
  /\ strayed \subseteq Versions

(* An approved request was earned: on every step of its snapshot enough people
   agreed, on an everyone step every seat, none of them the requester, and each
   for an office someone else than the requester holds.  Decisions overlap, the
   current step is written by id, delegations come and go and the workflow is
   changed meanwhile (decide, advance, requestSteps). *)
EveryStepEarned ==
  \A r \in DOMAIN reqs : reqs[r].status = "approved" =>
    \A i \in Active(reqs[r].steps) :
      /\ StepSatisfied(reqs[r].steps[i], On(r, i))
      /\ \A d \in Yes(On(r, i)) :
           /\ d.who # reqs[r].by
           /\ \E q \in People \ {reqs[r].by} : Matches(d.rule, q, reqs[r].by)

(* What is approved is what was reviewed: the text of an approved version is
   the one its request was made for, and that request ended approved.  The
   number of a version stays when it goes back to draft and is submitted again
   with another text, several authors submit, edit and publish at once, and a
   submission may be approved without a decision (applyApprovalOutcome,
   snapshotForReview, requestApproval).  What can break it is a decision on that
   very request written after the request had ended, or a version that came
   into force astray (PublishedIsApproved). *)
ReviewedContent ==
  \A v \in Versions : vers[v].approved =>
    LET r == vers[v].req IN
    r \in overtaken \/ v \in strayed \/ (reqs[r].status = "approved" /\ reqs[r].body = vers[v].body)

(* Only approved versions come into force, however publishing, new versions,
   submissions and decisions of several authors and deciders interleave: a
   decision in time keeps the document where it is until it is applied, and who
   publishes publishes the version that was approved.  The only way round is an
   approval written by id to a document that has moved on: by a decision on a
   request that had ended, or by a submission that is approved at once
   (applyApprovalOutcome, transitionDocument). *)
PublishedIsApproved ==
  \A v \in Versions : vers[v].published > 0 => vers[v].approved \/ v \in strayed

(* A decision counts for the text that was submitted and for no other, also when
   it comes late (applyApprovalOutcome: "Die Entscheidung gilt genau der
   eingereichten Fassung"). *)
DecidedAsSubmitted ==
  \A v \in Versions : vers[v].approved => reqs[vers[v].req].body = vers[v].body

(* A decision takes effect: a pending request waits on a step that is not
   satisfied, and nobody has refused on it, unless two people decided on it at
   the same time (decide counts what is committed). *)
NoVoteLost ==
  \A r \in Pending \ overlapped :
    /\ ~StepSatisfied(reqs[r].steps[reqs[r].cur], On(r, reqs[r].cur))
    /\ \A d \in On(r, reqs[r].cur) : d.decision = "approved"

(* canDecideNow *)
CanDecideNow(p, r) ==
  LET step == reqs[r].steps[reqs[r].cur]
      ds == On(r, reqs[r].cur)
  IN
  /\ \A d \in ds : d.who # p
  /\ \E rules \in Voices(step, p, reqs[r].by, Delegations) :
       step.mode = "all" => rules \cap OpenRules(step, ds) # {}

(* A request that waits on everyone can be finished: as long as the people it
   waits for may decide, each open seat has someone who still can
   (expandEveryone, approverEligibility, openRules). *)
EveryoneCanFinish ==
  \A r \in Pending \ overlapped :
    LET step == reqs[r].steps[reqs[r].cur] IN
    step.everyone /\ step.rules # {} =>
      \A rule \in OpenRules(step, On(r, reqs[r].cur)) :
        rule.kind = "user" /\ rule.of \in Deciders => CanDecideNow(rule.of, r)

(* Nothing hangs: a request that waits on everyone and was not refused for want
   of an approver has someone who can decide, while delegations last
   (requestApproval: "gleich melden statt haengen"). *)
NothingHangs ==
  \A r \in Pending \ overlapped :
    reqs[r].steps[reqs[r].cur].everyone => \E p \in People : CanDecideNow(p, r)
=============================================================================
