--------------------------- MODULE ApprovalsProofs ---------------------------
(* Theorems about the approvals of a document: any number of people, offices,
   delegations and workflows, and any number of transactions at a time. *)
EXTENDS Approvals, SumLemmas

-----------------------------------------------------------------------------
(* Routes                                                                    *)

(* What a request relies on in a step of its snapshot: a step that counts has
   rules, and one that waits on everyone has a seat for each of them but the
   requester. *)
StepFits(s, by) ==
  /\ s \in RouteStep
  /\ ~s.skipped => s.rules # {}
  /\ ~s.skipped /\ s.everyone =>
       \A rule \in s.rules : rule.kind = "user" =>
         /\ s.mode = "all" /\ s.min = 1 /\ rule.of # by
         /\ \A other \in s.rules : other.kind = "user"

(* resolveEntityApprover leaves rules of the same kind. *)
LEMMA ResolvedType ==
  ASSUME NEW rules \in SUBSET Rule
  PROVE  Resolved(rules) \in SUBSET Rule
  <1>1. ApproverFn # NoOffice => ApproverFn \in Offices BY ApprovalsAssumption
  <1> QED BY <1>1 DEF Resolved, Rule

(* expandEveryone keeps a step fit. *)
LEMMA ExpandedFits ==
  ASSUME NEW step \in RouteStep, step.rules # {}, ~step.skipped, NEW by \in People
  PROVE  StepFits(Expanded(step, by), by)
  <1> DEFINE people == {p \in People : \E r \in step.rules :
                          \/ r.kind = "function" /\ r.of \in Holds[p]
                          \/ r.kind \in {"role", "user"} /\ Matches(r, p, by)}
             others == people \ {by}
             seats == {[kind |-> "user", of |-> p] : p \in others}
  <1>1. CASE people = {}
    <2>1. Expanded(step, by) = step BY <1>1 DEF Expanded
    <2>2. ASSUME NEW rule \in step.rules, rule.kind = "user" PROVE FALSE
      <3>1. rule \in Rule BY DEF RouteStep
      <3>2. rule.of \in People BY <2>2, <3>1 DEF Rule
      <3>3. Matches(rule, rule.of, by) BY <2>2 DEF Matches
      <3>4. rule.of \in people BY <2>2, <3>2, <3>3
      <3> QED BY <1>1, <3>4
    <2> QED BY <2>1, <2>2 DEF StepFits
  <1>2. CASE people # {} /\ others = {}
    <2>1. Expanded(step, by) = [step EXCEPT !.skipped = TRUE] BY <1>2 DEF Expanded
    <2> QED BY <2>1 DEF StepFits, RouteStep
  <1>3. CASE others # {}
    <2>1. Expanded(step, by) = [step EXCEPT !.mode = "all", !.min = 1, !.rules = seats]
      BY <1>3 DEF Expanded
    <2>2. PICK p \in others : TRUE BY <1>3
    <2>3. seats # {}
      <3>1. [kind |-> "user", of |-> p] \in seats BY <2>2
      <3> QED BY <3>1
    <2>4. \A rule \in seats : rule \in [kind : {"user"}, of : People] /\ rule.of # by
      OBVIOUS
    <2>5. seats \in SUBSET Rule BY <2>4 DEF Rule
    <2> DEFINE s == [step EXCEPT !.mode = "all", !.min = 1, !.rules = seats]
    <2> HIDE DEF seats
    <2>6. /\ s.rules = seats /\ s.mode = "all" /\ s.min = 1
          /\ s.everyone = step.everyone /\ s.skipped = step.skipped
      BY DEF RouteStep
    <2>7. s \in RouteStep
      <3> DEFINE a == [step EXCEPT !.mode = "all"]
                 b == [a EXCEPT !.min = 1]
      <3>1. a \in RouteStep BY DEF RouteStep
      <3>2. 1 \in Nat \ {0} OBVIOUS
      <3> HIDE DEF a
      <3>3. b \in RouteStep BY <3>1, <3>2 DEF RouteStep
      <3> HIDE DEF b
      <3>4. [b EXCEPT !.rules = seats] \in RouteStep BY <2>5, <3>3 DEF RouteStep
      <3> QED BY <3>4 DEF a, b
    <2> HIDE DEF s
    <2> QED BY <2>1, <2>3, <2>4, <2>6, <2>7 DEF StepFits, s
  <1> QED BY <1>1, <1>2, <1>3

(* planRoute yields steps that fit. *)
LEMMA PlannedFits ==
  ASSUME NEW raw \in Step, NEW by \in People
  PROVE  StepFits(Planned(raw, by), by)
  <1> DEFINE rules == Resolved(raw.rules)
             skip == \/ rules = {} \/ ~raw.onlyIf
                     \/ \E r \in raw.skipIf : Matches(r, by, by)
                     \/ Vacant(rules)
             step == [rules |-> rules, mode |-> raw.mode, min |-> raw.min,
                      everyone |-> raw.everyone, skipped |-> skip]
  <1>1. Planned(raw, by) = IF ~skip /\ step.everyone THEN Expanded(step, by) ELSE step
    BY DEF Planned
  <1>2. rules \in SUBSET Rule BY ResolvedType DEF Step
  <1>3. skip \in BOOLEAN /\ (rules = {} => skip) OBVIOUS
  <1> HIDE DEF rules, skip
  <1>4. step \in RouteStep BY <1>2, <1>3 DEF Step, RouteStep
  <1>5. CASE ~skip /\ step.everyone
    <2>1. step.rules # {} /\ ~step.skipped BY <1>3, <1>5
    <2> HIDE DEF step
    <2> QED BY <1>1, <1>4, <1>5, <2>1, ExpandedFits
  <1>6. CASE ~(~skip /\ step.everyone)
    <2>1. step.rules = rules /\ step.skipped = skip OBVIOUS
    <2> HIDE DEF step
    <2> QED BY <1>1, <1>3, <1>4, <1>6, <2>1 DEF StepFits
  <1> QED BY <1>5, <1>6

(* The route of a request is a sequence of steps that fit. *)
LEMMA RouteFits ==
  ASSUME NEW workflow \in Workflows, NEW by \in People
  PROVE  /\ Route(workflow, by) \in Seq(RouteStep)
         /\ \A i \in DOMAIN Route(workflow, by) : StepFits(Route(workflow, by)[i], by)
  <1>1. workflow \in Seq(Step) BY ApprovalsAssumption
  <1>2. \A i \in DOMAIN workflow : StepFits(Planned(workflow[i], by), by) BY <1>1, PlannedFits
  <1>3. \A i \in DOMAIN workflow : Planned(workflow[i], by) \in RouteStep BY <1>2 DEF StepFits
  <1>4. DOMAIN workflow = 1..Len(workflow) /\ Len(workflow) \in Nat BY <1>1
  <1> QED BY <1>2, <1>3, <1>4 DEF Route

(* The first of some steps is one of them. *)
LEMMA LeastIn ==
  ASSUME NEW S \in SUBSET Nat, S # {}
  PROVE  Least(S) \in S /\ \A j \in S : Least(S) <= j
  BY LeastNumber DEF Least

(* The steps that count are positions of the route. *)
LEMMA ActiveType ==
  ASSUME NEW steps \in Seq(RouteStep)
  PROVE  Active(steps) \subseteq DOMAIN steps /\ Active(steps) \subseteq Nat
  BY DEF Active

(* advance: where a request stands after a decision. *)
LEMMA AdvanceIs ==
  ASSUME NEW steps \in Seq(RouteStep), NEW cur \in Active(steps),
         NEW ds, \A d \in ds : d.decision \in Answers,
         NEW out, out = Advance(steps, cur, ds)
  PROVE  /\ out \in [status : Answers \cup {"approved", "pending"}, cur : Active(steps)]
         /\ out.status = "approved" =>
              /\ \A d \in ds : d.decision = "approved"
              /\ StepSatisfied(steps[cur], ds) /\ \A i \in Active(steps) : i <= cur
         /\ out.status = "pending" =>
              /\ \A d \in ds : d.decision = "approved"
              /\ \/ out.cur = cur /\ ~StepSatisfied(steps[cur], ds)
                 \/ /\ StepSatisfied(steps[cur], ds) /\ out.cur > cur
                    /\ \A i \in Active(steps) : i <= cur \/ i >= out.cur
  <1> DEFINE later == {i \in Active(steps) : i > cur}
             Has(answer) == \E d \in ds : d.decision = answer
  <1>0. /\ Answers \subseteq {"approved", "rejected", "changes_requested"}
        /\ Active(steps) \subseteq Nat
    BY ApprovalsAssumption, ActiveType
  <1>1. CASE Has("rejected")
    <2>1. out = [status |-> "rejected", cur |-> cur] BY <1>1 DEF Advance
    <2> QED BY <1>1, <2>1
  <1>2. CASE ~Has("rejected") /\ Has("changes_requested")
    <2>1. out = [status |-> "changes_requested", cur |-> cur] BY <1>2 DEF Advance
    <2> QED BY <1>2, <2>1
  <1>3. CASE ~Has("rejected") /\ ~Has("changes_requested")
    <2>1. \A d \in ds : d.decision = "approved" BY <1>0, <1>3
    <2>2. CASE ~StepSatisfied(steps[cur], ds)
      <3>1. out = [status |-> "pending", cur |-> cur] BY <1>3, <2>2 DEF Advance
      <3> QED BY <2>1, <2>2, <3>1
    <2>3. CASE StepSatisfied(steps[cur], ds) /\ later = {}
      <3>1. out = [status |-> "approved", cur |-> cur] BY <1>3, <2>3 DEF Advance
      <3>2. \A i \in Active(steps) : i <= cur BY <1>0, <2>3
      <3> QED BY <2>1, <2>3, <3>1, <3>2
    <2>4. CASE StepSatisfied(steps[cur], ds) /\ later # {}
      <3>1. out = [status |-> "pending", cur |-> Least(later)] BY <1>3, <2>4 DEF Advance
      <3>2. Least(later) \in later /\ \A j \in later : Least(later) <= j
        BY <1>0, <2>4, LeastIn
      <3>3. \A i \in Active(steps) : i <= cur \/ i >= Least(later) BY <1>0, <3>2
      <3>4. Least(later) > cur /\ Least(later) \in Active(steps) BY <3>2
      <3>5. out.status = "pending" /\ out.cur = Least(later) BY <3>1
      <3>6. out \in [status : Answers \cup {"approved", "pending"}, cur : Active(steps)]
        BY <3>1, <3>4
      <3> HIDE DEF later
      <3> QED BY <2>1, <2>4, <3>3, <3>4, <3>5, <3>6
    <2> QED BY <2>2, <2>3, <2>4
  <1> QED BY <1>1, <1>2, <1>3

-----------------------------------------------------------------------------
(* Types                                                                     *)

Texts == 1..MaxText
Ends == Answers \cup {"approved"}

Document ==
  [status : {"draft", "in_review", "approved", "published", "retired"},
   version : Versions, body : Texts]

Version ==
  [there : BOOLEAN, body : 0..MaxText, approved : BOOLEAN, req : 0..MaxRequests,
   published : 0..MaxVersion, retired : BOOLEAN]

Request ==
  [by : Authors, ver : Versions, body : Texts, steps : Seq(RouteStep),
   status : Answers \cup {"approved", "pending", "withdrawn"}, cur : Nat]

(* The transactions, by what they have read. *)
AuthorTx ==
  [op : {"edit", "submit", "back", "publish", "retire", "version"}, at : Versions, body : Texts]
NumberedTx == [op : {"numbered"}, at : Versions, body : Texts, ver : Versions]
DecideTx == [op : {"decide"}, req : 1..MaxRequests, step : Nat, vote : Vote]
CountedTx ==
  [op : {"counted"}, req : 1..MaxRequests, vote : Vote,
   out : [status : Ends \cup {"pending"}, cur : Nat]]
MarkedTx == [op : {"marked"}, req : 1..MaxRequests, vote : Vote, status : Ends]
LookedTx == [op : {"looked"}, req : 1..MaxRequests, vote : Vote, status : Ends, fresh : BOOLEAN]

Transaction ==
  {NoTx} \cup AuthorTx \cup NumberedTx \cup DecideTx \cup CountedTx \cup MarkedTx \cup LookedTx

(* A transaction of an operation has the fields of that operation. *)
LEMMA TxKinds ==
  ASSUME NEW t \in Transaction
  PROVE  /\ t.op \in {"edit", "submit", "back", "publish", "retire", "version"} => t \in AuthorTx
         /\ t.op = "numbered" => t \in NumberedTx
         /\ t.op = "decide" => t \in DecideTx
         /\ t.op = "counted" => t \in CountedTx
         /\ t.op = "marked" => t \in MarkedTx
         /\ t.op = "looked" => t \in LookedTx
  BY DEF Transaction, NoTx, AuthorTx, NumberedTx, DecideTx, CountedTx, MarkedTx, LookedTx

(* A decision counts for a step of its request, by someone who may decide on it. *)
VoteFits(d, rs) ==
  /\ d \in Vote
  /\ d.req \in DOMAIN rs
  /\ d.step \in Active(rs[d.req].steps)
  /\ \E dels \in SUBSET Delegations :
       \E rules \in Voices(rs[d.req].steps[d.step], d.who, rs[d.req].by, dels) : d.rule \in rules

(* What a deciding transaction knows of its request. *)
TxFits(t, rs) ==
  /\ t.op \in {"decide", "counted", "marked", "looked"} => VoteFits(t.vote, rs) /\ t.vote.req = t.req
  /\ t.op = "decide" => t.vote.step = t.step
  /\ t.op = "counted" => t.out.cur \in Active(rs[t.req].steps)

RequestsFit ==
  /\ reqs \in Seq(Request) /\ Len(reqs) <= MaxRequests
  /\ \A r \in DOMAIN reqs : \A i \in DOMAIN reqs[r].steps : StepFits(reqs[r].steps[i], reqs[r].by)
  /\ \A r \in Pending : reqs[r].cur \in Active(reqs[r].steps)

TransactionsFit ==
  /\ tx \in [People -> Transaction]
  /\ \A p \in People : TxFits(tx[p], reqs)

(* What was submitted has a text; the published versions are numbered through. *)
VersionsFit(vs) ==
  /\ vs \in [Versions -> Version]
  /\ \A v \in Versions : vs[v].there => vs[v].body \in Texts
  /\ \E n \in 0..MaxVersion :
       /\ \A v \in Versions : vs[v].published <= n
       /\ \A k \in 1..n : \E v \in Versions : vs[v].published = k

Fits ==
  /\ doc \in Document
  /\ VersionsFit(vers)
  /\ RequestsFit
  /\ \A d \in decisions : VoteFits(d, reqs)
  /\ TransactionsFit
  /\ text \in Texts
  /\ overtaken \subseteq DOMAIN reqs /\ overlapped \subseteq DOMAIN reqs
  /\ strayed \subseteq Versions

(* The type invariant is a part of this. *)
LEMMA FitsType == Fits => ApprovalTypeOK
  <1> SUFFICES ASSUME Fits PROVE ApprovalTypeOK OBVIOUS
  <1>1. doc \in Document /\ text \in Texts BY DEF Fits
  <1>2. vers \in [Versions -> Version] BY DEF Fits, VersionsFit
  <1>3. reqs \in Seq(Request) /\ Len(reqs) <= MaxRequests
        /\ \A r \in Pending : reqs[r].cur \in Active(reqs[r].steps)
    BY DEF Fits, RequestsFit
  <1>4. decisions \subseteq Vote BY DEF Fits, VoteFits
  <1>5. /\ overtaken \subseteq DOMAIN reqs /\ overlapped \subseteq DOMAIN reqs
        /\ strayed \subseteq Versions
    BY DEF Fits
  <1> QED
    BY <1>1, <1>2, <1>3, <1>4, <1>5 DEF ApprovalTypeOK, Document, Version, Request, Texts

(* It holds at the start. *)
LEMMA ApprovalsInit == Init => Fits
  <1> SUFFICES ASSUME Init PROVE Fits OBVIOUS
  <1>1. doc \in Document /\ text \in Texts
    BY ApprovalsAssumption DEF Init, Document, Texts, Versions
  <1>2. vers \in [Versions -> Version]
    BY ApprovalsAssumption DEF Init, Version, Versions
  <1>3. \A v \in Versions : vers[v].published = 0 /\ ~vers[v].there BY DEF Init
  <1>4. VersionsFit(vers) BY ApprovalsAssumption, <1>2, <1>3 DEF VersionsFit
  <1>5. RequestsFit BY ApprovalsAssumption DEF Init, RequestsFit, Pending
  <1>6. TransactionsFit
    BY DEF Init, TransactionsFit, Transaction, TxFits, NoTx
  <1> QED BY <1>1, <1>4, <1>5, <1>6 DEF Fits, Init

-----------------------------------------------------------------------------
(* What lasts: a request keeps what it was made for, and once it has ended it
   is not pending again. *)

Lasts(rs, qs) ==
  /\ DOMAIN rs \subseteq DOMAIN qs
  /\ \A r \in DOMAIN rs :
       /\ qs[r].by = rs[r].by /\ qs[r].ver = rs[r].ver
       /\ qs[r].body = rs[r].body /\ qs[r].steps = rs[r].steps
       /\ qs[r].status = "pending" => rs[r].status = "pending"

(* A decision keeps counting. *)
LEMMA VoteLasts ==
  ASSUME NEW rs, NEW qs, Lasts(rs, qs), NEW d, VoteFits(d, rs)
  PROVE  VoteFits(d, qs)
  BY DEF Lasts, VoteFits

(* A transaction keeps knowing what it knows. *)
LEMMA TxLasts ==
  ASSUME NEW rs, NEW qs, Lasts(rs, qs), NEW t, TxFits(t, rs)
  PROVE  TxFits(t, qs)
  <1>1. ASSUME t.op \in {"decide", "counted", "marked", "looked"}
        PROVE  VoteFits(t.vote, qs) /\ t.vote.req = t.req /\ t.req \in DOMAIN rs
    <2>1. VoteFits(t.vote, rs) /\ t.vote.req = t.req BY <1>1 DEF TxFits
    <2> QED BY <2>1, VoteLasts DEF VoteFits
  <1>2. t.op = "counted" => t.out.cur \in Active(qs[t.req].steps)
    BY <1>1 DEF TxFits, Lasts
  <1> QED BY <1>1, <1>2 DEF TxFits

(* One transaction changes, the others keep what they know. *)
LEMMA TransactionsStep ==
  ASSUME TransactionsFit, Lasts(reqs, reqs'), NEW p \in People, NEW t \in Transaction,
         TxFits(t, reqs'), tx' = [tx EXCEPT ![p] = t]
  PROVE  TransactionsFit'
  <1>1. tx' \in [People -> Transaction] BY DEF TransactionsFit
  <1>2. ASSUME NEW o \in People PROVE TxFits(tx'[o], reqs')
    <2>1. CASE o = p BY <2>1 DEF TransactionsFit
    <2>2. CASE o # p
      <3>1. tx'[o] = tx[o] /\ TxFits(tx[o], reqs) BY <2>2 DEF TransactionsFit
      <3> QED BY <3>1, TxLasts
    <2> QED BY <2>1, <2>2
  <1> QED BY <1>1, <1>2 DEF TransactionsFit

(* The transaction ends. *)
LEMMA EndStep ==
  ASSUME TransactionsFit, Lasts(reqs, reqs'), NEW p \in People, End(p)
  PROVE  TransactionsFit'
  <1>1. NoTx \in Transaction /\ TxFits(NoTx, reqs') BY DEF Transaction, TxFits, NoTx
  <1> QED BY <1>1, TransactionsStep DEF End

(* Nothing is added, and nothing changes but status and current step. *)
LEMMA RequestsStep ==
  ASSUME RequestsFit, Lasts(reqs, reqs'), reqs' \in Seq(Request), Len(reqs') = Len(reqs),
         \A r \in DOMAIN reqs : reqs'[r].cur = reqs[r].cur \/ reqs'[r].cur \in Active(reqs[r].steps)
  PROVE  RequestsFit'
  <1>1. DOMAIN reqs' = DOMAIN reqs BY DEF RequestsFit
  <1>2. ASSUME NEW r \in Pending' PROVE reqs'[r].cur \in Active(reqs'[r].steps)
    <2>1. r \in Pending BY <1>1, <1>2 DEF Pending, Lasts
    <2> QED BY <1>1, <2>1 DEF RequestsFit, Lasts, Pending
  <1>3. \A r \in DOMAIN reqs' : \A i \in DOMAIN reqs'[r].steps :
           StepFits(reqs'[r].steps[i], reqs'[r].by)
    BY <1>1 DEF RequestsFit, Lasts
  <1>4. Len(reqs') <= MaxRequests BY DEF RequestsFit
  <1> QED BY <1>2, <1>3, <1>4 DEF RequestsFit

(* One request's status changes. *)
LEMMA StatusStep ==
  ASSUME RequestsFit, NEW r \in DOMAIN reqs, NEW s \in Ends \cup {"withdrawn"},
         reqs' = [reqs EXCEPT ![r].status = s]
  PROVE  /\ RequestsFit' /\ Lasts(reqs, reqs') /\ DOMAIN reqs' = DOMAIN reqs
         /\ \A q \in DOMAIN reqs : /\ reqs'[q].status = IF q = r THEN s ELSE reqs[q].status
                                   /\ reqs'[q].cur = reqs[q].cur
  <1>1. reqs \in Seq(Request) BY DEF RequestsFit
  <1>2. reqs[r] \in Request BY <1>1
  <1>3. [reqs[r] EXCEPT !.status = s] \in Request BY <1>2 DEF Request, Ends
  <1>4. reqs' \in Seq(Request) /\ Len(reqs') = Len(reqs) /\ DOMAIN reqs' = DOMAIN reqs
    BY <1>1, <1>3
  <1>5. s # "pending" BY ApprovalsAssumption DEF Ends
  <1>6. \A q \in DOMAIN reqs :
           reqs'[q] = IF q = r THEN [reqs[r] EXCEPT !.status = s] ELSE reqs[q]
    BY <1>1
  <1>7. \A q \in DOMAIN reqs : reqs[q] \in Request BY <1>1
  <1>8. \A q \in DOMAIN reqs :
           /\ reqs'[q].by = reqs[q].by /\ reqs'[q].ver = reqs[q].ver
           /\ reqs'[q].body = reqs[q].body /\ reqs'[q].steps = reqs[q].steps
           /\ reqs'[q].cur = reqs[q].cur
           /\ reqs'[q].status = IF q = r THEN s ELSE reqs[q].status
    BY <1>2, <1>6 DEF Request
  <1>9. Lasts(reqs, reqs') BY <1>4, <1>5, <1>8 DEF Lasts
  <1> QED BY <1>4, <1>8, <1>9, RequestsStep

(* withdrawOpenRequests *)
LEMMA WithdrawnIs ==
  ASSUME RequestsFit
  PROVE  /\ Withdrawn \in Seq(Request) /\ Len(Withdrawn) = Len(reqs)
         /\ Lasts(reqs, Withdrawn)
         /\ \A r \in DOMAIN reqs : /\ Withdrawn[r].status # "pending"
                                   /\ Withdrawn[r].cur = reqs[r].cur
                                   /\ Withdrawn[r].status = reqs[r].status \/ r \in Pending
  <1>1. reqs \in Seq(Request) BY DEF RequestsFit
  <1>2. \A r \in DOMAIN reqs : [reqs[r] EXCEPT !.status = "withdrawn"] \in Request
    <2> TAKE r \in DOMAIN reqs
    <2>1. reqs[r] \in Request BY <1>1
    <2> QED BY <2>1 DEF Request
  <1>3. DOMAIN reqs = 1..Len(reqs) /\ Len(reqs) \in Nat BY <1>1
  <1>4. Withdrawn \in [1..Len(reqs) -> Request]
    BY <1>1, <1>2, <1>3 DEF Withdrawn
  <1>5. Withdrawn \in Seq(Request) /\ Len(Withdrawn) = Len(reqs)
    BY <1>3, <1>4
  <1>6. \A r \in DOMAIN reqs :
           /\ Withdrawn[r].by = reqs[r].by /\ Withdrawn[r].ver = reqs[r].ver
           /\ Withdrawn[r].body = reqs[r].body /\ Withdrawn[r].steps = reqs[r].steps
           /\ Withdrawn[r].cur = reqs[r].cur /\ Withdrawn[r].status # "pending"
           /\ Withdrawn[r].status = reqs[r].status \/ r \in Pending
    <2> TAKE r \in DOMAIN reqs
    <2>1. reqs[r] \in Request BY <1>1
    <2> QED BY <2>1 DEF Request, Withdrawn, Pending
  <1>7. DOMAIN Withdrawn = DOMAIN reqs BY DEF Withdrawn
  <1> QED BY <1>5, <1>6, <1>7 DEF Lasts

-----------------------------------------------------------------------------
(* Deciding                                                                  *)

(* decide: what p votes for is a rule p may decide for. *)
LEMMA ReadsFits ==
  ASSUME Fits, NEW p \in People, NEW r \in DOMAIN reqs, NEW answer \in Answers,
         DecideReads(p, r, answer)
  PROVE  \E t \in DecideTx : tx' = [tx EXCEPT ![p] = t] /\ TxFits(t, reqs) /\ t.req = r
                            /\ t.step = reqs[r].cur /\ t.vote.who = p /\ t.vote.decision = answer
  <1> DEFINE q == reqs[r]
             step == q.steps[q.cur]
             open == OpenRules(step, On(r, q.cur))
  <1>1. r \in Pending BY DEF DecideReads, Pending
  <1>2. q.cur \in Active(q.steps) /\ q \in Request BY <1>1 DEF Fits, RequestsFit
  <1>3. step \in RouteStep /\ q.cur \in Nat /\ q.by \in People
    BY <1>2, ActiveType, ApprovalsAssumption DEF Request
  <1> DEFINE vote(rule) == [req |-> r, step |-> q.cur, who |-> p, rule |-> rule,
                            decision |-> answer]
             t(rule) == [op |-> "decide", req |-> r, step |-> q.cur, vote |-> vote(rule)]
  <1>4. \E dels \in SUBSET {d \in Delegations : d[2] = p} : \E rules \in Voices(step, p, q.by, dels) :
          \E rule \in rules : Begin(p, t(rule))
    BY DEF DecideReads
  <1> HIDE DEF t
  <1>5. PICK dels \in SUBSET {d \in Delegations : d[2] = p} :
           \E rules \in Voices(step, p, q.by, dels) : \E rule \in rules : Begin(p, t(rule))
    BY <1>4
  <1>6. PICK rules \in Voices(step, p, q.by, dels) : \E rule \in rules : Begin(p, t(rule))
    BY <1>5
  <1>7. PICK rule \in rules : Begin(p, t(rule)) BY <1>6
  <1>8. rules \subseteq step.rules BY DEF Voices, Direct
  <1>9. rule \in Rule BY <1>3, <1>7, <1>8 DEF RouteStep
  <1>10. r \in 1..MaxRequests
    <2>1. reqs \in Seq(Request) /\ Len(reqs) <= MaxRequests BY DEF Fits, RequestsFit
    <2> QED BY <2>1, ApprovalsAssumption
  <1>11. vote(rule) \in Vote BY <1>3, <1>9, <1>10 DEF Vote
  <1>12. dels \in SUBSET Delegations OBVIOUS
  <1>13. VoteFits(vote(rule), reqs)
    <2>1. /\ vote(rule).req = r /\ vote(rule).step = q.cur /\ vote(rule).who = p
          /\ vote(rule).rule = rule
      OBVIOUS
    <2> HIDE DEF vote
    <2> QED BY <1>2, <1>7, <1>11, <1>12, <2>1 DEF VoteFits
  <1>14. t(rule) \in DecideTx BY <1>3, <1>10, <1>11 DEF DecideTx, t
  <1>15. TxFits(t(rule), reqs) BY <1>13 DEF TxFits, t
  <1>16. /\ t(rule).req = r /\ t(rule).step = q.cur
         /\ t(rule).vote.who = p /\ t(rule).vote.decision = answer
    BY DEF t
  <1> QED BY <1>7, <1>14, <1>15, <1>16 DEF Begin

(* A decision counted with the others on its step. *)
LEMMA CountsFits ==
  ASSUME Fits, NEW p \in People, DecideCounts(p)
  PROVE  \E out : LET t == tx[p] IN
           /\ t \in DecideTx /\ TxFits(t, reqs)
           /\ out = Advance(reqs[t.req].steps, t.step, On(t.req, t.step) \cup {t.vote})
           /\ out \in [status : Ends \cup {"pending"}, cur : Active(reqs[t.req].steps)]
           /\ \A d \in On(t.req, t.step) \cup {t.vote} : d.decision \in Answers
           /\ reqs[t.req].steps \in Seq(RouteStep) /\ t.step \in Active(reqs[t.req].steps)
           /\ tx' = [tx EXCEPT ![p] =
                       [op |-> "counted", req |-> t.req, vote |-> t.vote, out |-> out]]
  <1> DEFINE t == tx[p]
             ds == On(t.req, t.step) \cup {t.vote}
             steps == reqs[t.req].steps
             out == Advance(steps, t.step, ds)
  <1>1. t.op = "decide" BY DEF DecideCounts
  <1>2. t \in DecideTx /\ TxFits(t, reqs) BY <1>1, TxKinds DEF Fits, TransactionsFit
  <1>3. VoteFits(t.vote, reqs) /\ t.vote.req = t.req /\ t.vote.step = t.step
    BY <1>1, <1>2 DEF TxFits
  <1>4. \A d \in ds : d \in Vote BY <1>3 DEF Fits, VoteFits, On
  <1>5. \A d \in ds : d.decision \in Answers BY <1>4 DEF Vote
  <1>6. t.req \in DOMAIN reqs /\ t.step \in Active(steps) BY <1>3 DEF VoteFits
  <1>7. steps \in Seq(RouteStep)
    <2>1. reqs[t.req] \in Request BY <1>6 DEF Fits, RequestsFit
    <2> QED BY <2>1 DEF Request
  <1> HIDE DEF ds
  <1>8. out \in [status : Answers \cup {"approved", "pending"}, cur : Active(steps)]
    BY <1>5, <1>6, <1>7, AdvanceIs
  <1>9. out \in [status : Ends \cup {"pending"}, cur : Active(steps)] BY <1>8 DEF Ends
  <1>10. tx' = [tx EXCEPT ![p] = [op |-> "counted", req |-> t.req, vote |-> t.vote, out |-> out]]
    BY DEF DecideCounts, ds
  <1> QED BY <1>2, <1>5, <1>6, <1>7, <1>9, <1>10 DEF ds

(* Looking at the request keeps everything but the transaction of p. *)
LEMMA ReadsStep ==
  ASSUME Fits, UNCHANGED data, NEW p \in People, NEW t \in Transaction, TxFits(t, reqs),
         tx' = [tx EXCEPT ![p] = t], overtaken' \subseteq DOMAIN reqs, overlapped' \subseteq DOMAIN reqs,
         strayed' = strayed
  PROVE  Fits'
  <1>1. Lasts(reqs, reqs') BY DEF Lasts, data
  <1>2. TransactionsFit' BY <1>1, TransactionsStep DEF data, Fits
  <1>3. RequestsFit' /\ VersionsFit(vers)' BY DEF Fits, RequestsFit, VersionsFit, Pending, data
  <1> QED BY <1>2, <1>3 DEF Fits, data

(* The steps of decide that only look. *)
LEMMA DecideFits ==
  ASSUME Fits, NEW p \in People,
         \/ \E r \in DOMAIN reqs, a \in Answers : DecideReads(p, r, a)
         \/ DecideCounts(p) \/ DecideMarks(p) \/ DecideLooks(p)
  PROVE  Fits'
  <1> DEFINE t == tx[p]
  <1>0. t \in Transaction /\ TxFits(t, reqs) BY DEF Fits, TransactionsFit
  <1>1. CASE \E r \in DOMAIN reqs, a \in Answers : DecideReads(p, r, a)
    <2>1. PICK r \in DOMAIN reqs, a \in Answers : DecideReads(p, r, a) BY <1>1
    <2>2. PICK u \in DecideTx : tx' = [tx EXCEPT ![p] = u] /\ TxFits(u, reqs)
      BY <2>1, ReadsFits
    <2>3. /\ UNCHANGED data /\ overtaken' = overtaken /\ overlapped' \subseteq overlapped \cup {r}
          /\ strayed' = strayed
      BY <2>1 DEF DecideReads
    <2> QED BY <2>2, <2>3, ReadsStep DEF Transaction, Fits
  <1>2. CASE DecideCounts(p)
    <2>1. PICK out :
            /\ t \in DecideTx /\ TxFits(t, reqs)
            /\ out \in [status : Ends \cup {"pending"}, cur : Active(reqs[t.req].steps)]
            /\ reqs[t.req].steps \in Seq(RouteStep)
            /\ tx' = [tx EXCEPT ![p] =
                        [op |-> "counted", req |-> t.req, vote |-> t.vote, out |-> out]]
      BY <1>2, CountsFits
    <2> DEFINE u == [op |-> "counted", req |-> t.req, vote |-> t.vote, out |-> out]
    <2>2. out \in [status : Ends \cup {"pending"}, cur : Nat] BY <2>1, ActiveType
    <2>3. u \in CountedTx BY <2>1, <2>2 DEF DecideTx, CountedTx
    <2>4. TxFits(u, reqs) BY <2>1 DEF TxFits, DecideTx
    <2>5. UNCHANGED data /\ UNCHANGED history BY <1>2 DEF DecideCounts
    <2> QED BY <2>1, <2>3, <2>4, <2>5, ReadsStep DEF Transaction, history, Fits
  <1>3. CASE DecideMarks(p)
    <2> DEFINE u == [op |-> "marked", req |-> t.req, vote |-> t.vote, status |-> t.out.status]
    <2>1. t \in CountedTx BY <1>0, <1>3, TxKinds DEF DecideMarks
    <2>2. u \in MarkedTx BY <1>3, <2>1 DEF DecideMarks, CountedTx, MarkedTx
    <2>3. TxFits(u, reqs) BY <1>0, <1>3 DEF TxFits, DecideMarks
    <2>4. t.req \in DOMAIN reqs BY <1>0, <1>3 DEF TxFits, VoteFits, DecideMarks
    <2>5. /\ UNCHANGED data /\ overlapped' = overlapped /\ overtaken' \subseteq overtaken \cup {t.req}
          /\ strayed' = strayed
      BY <1>3 DEF DecideMarks, Late
    <2>6. tx' = [tx EXCEPT ![p] = u] BY <1>3 DEF DecideMarks
    <2> HIDE DEF u
    <2> QED BY <2>2, <2>3, <2>4, <2>5, <2>6, ReadsStep DEF Transaction, Fits
  <1>4. CASE DecideLooks(p)
    <2> DEFINE u == [op |-> "looked", req |-> t.req, vote |-> t.vote, status |-> t.status,
                     fresh |-> doc.status = "in_review" /\ doc.version = reqs[t.req].ver]
    <2>1. t \in MarkedTx BY <1>0, <1>4, TxKinds DEF DecideLooks
    <2>2. u \in LookedTx BY <2>1 DEF MarkedTx, LookedTx
    <2>3. TxFits(u, reqs) BY <1>0, <1>4 DEF TxFits, DecideLooks
    <2>4. UNCHANGED data /\ UNCHANGED history BY <1>4 DEF DecideLooks
    <2>5. tx' = [tx EXCEPT ![p] = u] BY <1>4 DEF DecideLooks
    <2> HIDE DEF u
    <2> QED BY <2>2, <2>3, <2>4, <2>5, ReadsStep DEF Transaction, history, Fits
  <1> QED BY <1>1, <1>2, <1>3, <1>4

(* What changes a version but not which are there, their text or number. *)
LEMMA VersionsKeep ==
  ASSUME NEW vs, VersionsFit(vs), NEW ws, ws \in [Versions -> Version],
         \A v \in Versions : /\ ws[v].there = vs[v].there /\ ws[v].body = vs[v].body
                             /\ ws[v].published = vs[v].published
  PROVE  VersionsFit(ws)
  BY DEF VersionsFit

(* markVersionApproved *)
LEMMA MarkApprovedFits ==
  ASSUME NEW vs, VersionsFit(vs), NEW v \in Versions, NEW r \in 0..MaxRequests
  PROVE  VersionsFit(MarkApproved(vs, v, r))
  <1> DEFINE w == [vs[v] EXCEPT !.approved = TRUE, !.req = r]
  <1>1. vs[v] \in Version /\ vs \in [Versions -> Version] BY DEF VersionsFit
  <1>2. /\ w \in Version /\ w.there = vs[v].there /\ w.body = vs[v].body
        /\ w.published = vs[v].published
    BY <1>1 DEF Version
  <1> HIDE DEF w
  <1>3. VersionsFit([vs EXCEPT ![v] = w])
    <2>1. [vs EXCEPT ![v] = w] \in [Versions -> Version] BY <1>1, <1>2
    <2>2. \A u \in Versions : [vs EXCEPT ![v] = w][u] = IF u = v THEN w ELSE vs[u]
      BY <1>1
    <2> QED BY <1>2, <2>1, <2>2, VersionsKeep
  <1>4. [vs EXCEPT ![v].approved = TRUE, ![v].req = r] = [vs EXCEPT ![v] = w]
    BY <1>1 DEF w
  <1> QED BY <1>3, <1>4 DEF MarkApproved

(* A decision is written and the transaction ends. *)
LEMMA VoteStep ==
  ASSUME Fits, NEW p \in People, tx[p].op \in {"counted", "looked"},
         RequestsFit', Lasts(reqs, reqs'), DOMAIN reqs' = DOMAIN reqs,
         decisions' = decisions \cup {tx[p].vote}, End(p),
         doc' \in Document, VersionsFit(vers'), UNCHANGED <<text, overtaken, overlapped>>,
         strayed' \subseteq Versions
  PROVE  Fits'
  <1>1. TxFits(tx[p], reqs) BY DEF Fits, TransactionsFit
  <1>2. VoteFits(tx[p].vote, reqs) BY <1>1 DEF TxFits
  <1>3. ASSUME NEW d \in decisions' PROVE VoteFits(d, reqs')
    <2>1. VoteFits(d, reqs) BY <1>2 DEF Fits
    <2> QED BY <2>1, VoteLasts
  <1>4. TransactionsFit' BY EndStep DEF Fits
  <1> QED BY <1>3, <1>4 DEF Fits

(* The rest of decide, and withdraw. *)
LEMMA DecidedFits ==
  ASSUME Fits, NEW p \in People,
         DecideMoves(p) \/ DecideCommits(p) \/ \E r \in DOMAIN reqs : Withdraw(p, r)
  PROVE  Fits'
  <1> DEFINE t == tx[p]
  <1>0. /\ t \in Transaction /\ TxFits(t, reqs) /\ RequestsFit /\ TransactionsFit
        /\ reqs \in Seq(Request)
    BY DEF Fits, TransactionsFit, RequestsFit
  <1>1. CASE DecideMoves(p)
    <2>1. t \in CountedTx BY <1>0, <1>1, TxKinds DEF DecideMoves
    <2>2. t.req \in DOMAIN reqs /\ t.out.cur \in Active(reqs[t.req].steps)
      BY <1>0, <1>1 DEF TxFits, VoteFits, DecideMoves
    <2>3. reqs[t.req] \in Request /\ t.out.cur \in Nat BY <1>0, <2>1, <2>2 DEF CountedTx
    <2> DEFINE q == [reqs[t.req] EXCEPT !.cur = t.out.cur]
    <2>4. /\ q \in Request /\ q.by = reqs[t.req].by /\ q.ver = reqs[t.req].ver
          /\ q.body = reqs[t.req].body /\ q.steps = reqs[t.req].steps
          /\ q.status = reqs[t.req].status /\ q.cur = t.out.cur
      BY <2>3 DEF Request
    <2>5. reqs' = [reqs EXCEPT ![t.req] = q] BY <1>1 DEF DecideMoves
    <2> HIDE DEF q
    <2>6. reqs' \in Seq(Request) /\ Len(reqs') = Len(reqs) /\ DOMAIN reqs' = DOMAIN reqs
      BY <1>0, <2>2, <2>4, <2>5
    <2>7. \A r \in DOMAIN reqs : reqs'[r] = IF r = t.req THEN q ELSE reqs[r]
      BY <1>0, <2>5
    <2>8. Lasts(reqs, reqs') BY <2>4, <2>6, <2>7 DEF Lasts
    <2>9. RequestsFit' BY <1>0, <2>2, <2>4, <2>6, <2>7, <2>8, RequestsStep
    <2> QED BY <1>1, <2>6, <2>8, <2>9, VoteStep DEF DecideMoves, Fits, history
  <1>2. CASE DecideCommits(p)
    <2>1. t \in LookedTx BY <1>0, <1>2, TxKinds DEF DecideCommits
    <2>2. t.req \in DOMAIN reqs /\ t.status \in Ends /\ t.req \in 0..MaxRequests
      BY <1>0, <1>2, <2>1 DEF TxFits, VoteFits, DecideCommits, LookedTx
    <2>3. RequestsFit' /\ Lasts(reqs, reqs') /\ DOMAIN reqs' = DOMAIN reqs
      BY <1>0, <1>2, <2>2, StatusStep DEF DecideCommits
    <2>4. reqs[t.req].ver \in Versions
      <3>1. reqs[t.req] \in Request BY <1>0, <2>2
      <3> QED BY <3>1 DEF Request
    <2>5. VersionsFit(vers') BY <1>2, <2>2, <2>4, MarkApprovedFits DEF DecideCommits, Fits
    <2>6. doc' \in Document BY <1>2 DEF DecideCommits, Fits, Document
    <2>7. strayed' \subseteq Versions BY <1>2 DEF DecideCommits, Strays, Fits, Document
    <2> QED BY <1>2, <2>3, <2>5, <2>6, <2>7, VoteStep DEF DecideCommits
  <1>3. CASE \E r \in DOMAIN reqs : Withdraw(p, r)
    <2>1. PICK r \in DOMAIN reqs : Withdraw(p, r) BY <1>3
    <2>2. RequestsFit' /\ Lasts(reqs, reqs') /\ DOMAIN reqs' = DOMAIN reqs
      BY <1>0, <2>1, StatusStep DEF Withdraw
    <2>3. tx' = [tx EXCEPT ![p] = tx[p]] /\ TxFits(tx[p], reqs')
      BY <1>0, <2>1, <2>2, TxLasts DEF Withdraw, TransactionsFit
    <2>4. TransactionsFit' BY <1>0, <2>2, <2>3, TransactionsStep
    <2>5. \A d \in decisions' : VoteFits(d, reqs') BY <2>1, <2>2, VoteLasts DEF Withdraw, Fits
    <2> QED BY <2>1, <2>2, <2>4, <2>5 DEF Withdraw, Fits, history
  <1> QED BY <1>1, <1>2, <1>3

-----------------------------------------------------------------------------
(* Writing                                                                   *)

(* The number of the version that was published last. *)
LEMMA LastPublishedIs ==
  ASSUME VersionsFit(vers)
  PROVE  /\ LastPublished \in 0..MaxVersion
         /\ \A v \in Versions : vers[v].published <= LastPublished
         /\ \A k \in 1..LastPublished : \E v \in Versions : vers[v].published = k
  <1> DEFINE Is(n) == /\ \A v \in Versions : vers[v].published <= n
                      /\ n = 0 \/ \E v \in Versions : vers[v].published = n
  <1>1. PICK n \in 0..MaxVersion :
          /\ \A v \in Versions : vers[v].published <= n
          /\ \A k \in 1..n : \E v \in Versions : vers[v].published = k
    BY DEF VersionsFit
  <1>2. Is(n) BY <1>1, ApprovalsAssumption
  <1>3. \A m \in 0..MaxVersion : Is(m) => m = n
    <2>1. ASSUME NEW m \in 0..MaxVersion, Is(m) PROVE m <= n /\ n <= m
      BY <1>1, <1>2, <2>1, ApprovalsAssumption
    <2> QED BY <2>1, ApprovalsAssumption
  <1>4. LastPublished = CHOOSE m \in 0..MaxVersion : Is(m) BY DEF LastPublished
  <1> HIDE DEF Is
  <1>5. LastPublished = n BY <1>2, <1>3, <1>4
  <1> QED BY <1>1, <1>5

(* There is a number left for a version that was not published yet. *)
LEMMA NumberLeft ==
  ASSUME VersionsFit(vers), NEW at \in Versions, vers[at].published = 0
  PROVE  LastPublished < MaxVersion
  <1> DEFINE L == LastPublished
             U == Versions \ {at}
             g == [k \in 1..L |-> CHOOSE v \in Versions : vers[v].published = k]
  <1>1. L \in Nat /\ MaxVersion \in Nat /\ Versions = 1..MaxVersion
    BY LastPublishedIs, ApprovalsAssumption DEF Versions
  <1>2. \A k \in 1..L : g[k] \in Versions /\ vers[g[k]].published = k
    BY LastPublishedIs
  <1>3. g \in Injection(1..L, U)
    <2>1. DOMAIN g = 1..L OBVIOUS
    <2>2. \A k \in 1..L : g[k] \in U BY <1>1, <1>2
    <2>3. g \in [1..L -> U] BY <2>2
    <2> HIDE DEF g, U, L
    <2>4. \A j, k \in DOMAIN g : g[j] = g[k] => j = k BY <1>2, <2>1
    <2> QED BY <2>3, <2>4 DEF Injection, IsInjective
  <1>4. IsFiniteSet(Versions) /\ Cardinality(Versions) = MaxVersion
    <2>1. MaxVersion > 0 BY <1>1, ApprovalsAssumption
    <2> QED BY <1>1, <2>1, FS_Interval
  <1>5. IsFiniteSet(U) /\ Cardinality(U) = MaxVersion - 1 BY <1>4, FS_RemoveElement
  <1> HIDE DEF g, U
  <1>6. Cardinality(1..L) <= Cardinality(U) BY <1>3, <1>5, FS_Injection
  <1>7. Cardinality(1..L) = L BY <1>1, FS_Interval
  <1> QED BY <1>1, <1>5, <1>6, <1>7

(* An author's action writes and ends. *)
LEMMA WriteStep ==
  ASSUME Fits, NEW p \in People, RequestsFit', Lasts(reqs, reqs'), End(p),
         doc' \in Document, VersionsFit(vers'), text' \in Texts,
         UNCHANGED <<decisions, overtaken, overlapped>>, strayed' \subseteq Versions
  PROVE  Fits'
  <1>1. TransactionsFit' BY EndStep DEF Fits
  <1>2. \A d \in decisions' : VoteFits(d, reqs') BY VoteLasts DEF Fits
  <1>3. overtaken' \subseteq DOMAIN reqs' /\ overlapped' \subseteq DOMAIN reqs'
    BY DEF Fits, Lasts
  <1> QED BY <1>1, <1>2, <1>3 DEF Fits

(* Requests that stay as they are, or are withdrawn. *)
LEMMA WithdrawStep ==
  ASSUME RequestsFit, reqs' \in {reqs, Withdrawn}
  PROVE  RequestsFit' /\ Lasts(reqs, reqs')
  <1>1. CASE reqs' = reqs
    <2>1. Lasts(reqs, reqs') BY <1>1 DEF Lasts
    <2> QED BY <1>1, <2>1 DEF RequestsFit, Pending
  <1>2. CASE reqs' = Withdrawn
    <2>1. /\ Withdrawn \in Seq(Request) /\ Len(Withdrawn) = Len(reqs) /\ Lasts(reqs, Withdrawn)
          /\ \A r \in DOMAIN reqs : Withdrawn[r].cur = reqs[r].cur
      BY WithdrawnIs
    <2>2. /\ reqs' \in Seq(Request) /\ Len(reqs') = Len(reqs) /\ Lasts(reqs, reqs')
          /\ \A r \in DOMAIN reqs : reqs'[r].cur = reqs[r].cur
      BY <1>2, <2>1
    <2> QED BY <2>2, RequestsStep
  <1> QED BY <1>1, <1>2

(* A version's text is one that was written. *)
LEMMA TxText ==
  ASSUME Fits, NEW p \in People,
         tx[p].op \in {"edit", "submit", "back", "publish", "retire", "version", "numbered"}
  PROVE  tx[p].at \in Versions /\ tx[p].body \in Texts
  BY TxKinds DEF Fits, TransactionsFit, AuthorTx, NumberedTx

(* An author's action begins, a number is chosen, an action is given up. *)
LEMMA AuthorFits ==
  ASSUME Fits, NEW p \in People,
         \/ \E op \in {"edit", "submit", "back", "publish", "retire", "version"} : AuthorReads(p, op)
         \/ SubmitNumbers(p) \/ RollsBack(p)
  PROVE  Fits'
  <1>1. CASE \E op \in {"edit", "submit", "back", "publish", "retire", "version"} : AuthorReads(p, op)
    <2>1. PICK op \in {"edit", "submit", "back", "publish", "retire", "version"} : AuthorReads(p, op)
      BY <1>1
    <2> DEFINE u == [op |-> op, at |-> doc.version, body |-> doc.body]
    <2>2. u \in AuthorTx BY DEF AuthorTx, Fits, Document
    <2>3. TxFits(u, reqs) BY DEF TxFits
    <2>4. UNCHANGED data /\ UNCHANGED history /\ tx' = [tx EXCEPT ![p] = u]
      BY <2>1 DEF AuthorReads, Begin
    <2> HIDE DEF u
    <2> QED BY <2>2, <2>3, <2>4, ReadsStep DEF Transaction, history, Fits
  <1>2. CASE SubmitNumbers(p)
    <2> DEFINE t == tx[p]
               taken == vers[t.at].approved \/ vers[t.at].published > 0
               u == [op |-> "numbered", at |-> t.at, body |-> t.body,
                     ver |-> IF taken THEN t.at + 1 ELSE t.at]
    <2>1. t.at \in Versions /\ t.body \in Texts BY <1>2, TxText DEF SubmitNumbers
    <2>2. (IF taken THEN t.at + 1 ELSE t.at) \in Versions
      BY <1>2, <2>1, ApprovalsAssumption DEF SubmitNumbers, Versions
    <2>3. u \in NumberedTx BY <2>1, <2>2 DEF NumberedTx
    <2>4. TxFits(u, reqs) BY DEF TxFits
    <2>5. UNCHANGED data /\ UNCHANGED history /\ tx' = [tx EXCEPT ![p] = u]
      BY <1>2 DEF SubmitNumbers
    <2> HIDE DEF u
    <2> QED BY <2>3, <2>4, <2>5, ReadsStep DEF Transaction, history, Fits
  <1>3. CASE RollsBack(p)
    <2>1. NoTx \in Transaction /\ TxFits(NoTx, reqs) BY DEF Transaction, TxFits, NoTx
    <2> QED BY <1>3, <2>1, ReadsStep DEF RollsBack, End, history, Fits
  <1> QED BY <1>1, <1>2, <1>3

(* A number is given to a version that has none. *)
LEMMA PublishedFits ==
  ASSUME VersionsFit(vers), NEW at \in Versions, vers[at].published = 0
  PROVE  VersionsFit([vers EXCEPT ![at].published = LastPublished + 1])
  <1> DEFINE L == LastPublished
             ws == [vers EXCEPT ![at].published = L + 1]
  <1>1. /\ L \in Nat /\ L + 1 \in 0..MaxVersion
        /\ \A v \in Versions : vers[v].published <= L
        /\ \A k \in 1..L : \E v \in Versions : vers[v].published = k
    BY LastPublishedIs, NumberLeft, ApprovalsAssumption
  <1> HIDE DEF L
  <1>2. vers \in [Versions -> Version] BY DEF VersionsFit
  <1>3. \A v \in Versions : vers[v].published \in Nat BY <1>2 DEF Version
  <1>4. ws \in [Versions -> Version]
    <2>1. vers[at] \in Version BY <1>2
    <2>2. [vers[at] EXCEPT !.published = L + 1] \in Version BY <1>1, <2>1 DEF Version
    <2> QED BY <1>2, <2>2
  <1>5. \A v \in Versions : /\ ws[v].published = IF v = at THEN L + 1 ELSE vers[v].published
                            /\ ws[v].there = vers[v].there /\ ws[v].body = vers[v].body
    BY <1>2 DEF Version
  <1> HIDE DEF ws
  <1>6. \A v \in Versions : ws[v].published <= L + 1 BY <1>1, <1>3, <1>5
  <1>7. ASSUME NEW k \in 1..(L + 1) PROVE \E v \in Versions : ws[v].published = k
    <2>1. CASE k = L + 1 BY <1>5, <2>1
    <2>2. CASE k \in 1..L
      <3>1. PICK v \in Versions : vers[v].published = k BY <1>1, <2>2
      <3> QED BY <1>5, <2>2, <3>1
    <2> QED BY <1>1, <2>1, <2>2
  <1>8. \A v \in Versions : ws[v].there => ws[v].body \in Texts BY <1>5 DEF VersionsFit
  <1>9. VersionsFit(ws) BY <1>1, <1>4, <1>6, <1>7, <1>8 DEF VersionsFit
  <1> QED BY <1>9 DEF ws, L

(* An author's action that is finished, but for submitting. *)
LEMMA WrittenFits ==
  ASSUME Fits, NEW p \in People,
         EditCommits(p) \/ BackCommits(p) \/ VersionCommits(p) \/ PublishCommits(p) \/ RetireCommits(p)
  PROVE  Fits'
  <1> DEFINE t == tx[p]
  <1>0. /\ doc \in Document /\ VersionsFit(vers) /\ vers \in [Versions -> Version]
        /\ RequestsFit /\ text \in Texts /\ strayed \subseteq Versions
    BY DEF Fits, VersionsFit
  <1>1. CASE EditCommits(p)
    <2>1. text' \in Texts BY <1>0, <1>1, ApprovalsAssumption DEF EditCommits, Texts
    <2>2. doc' \in Document BY <1>0, <1>1, <2>1 DEF EditCommits, Document
    <2>3. RequestsFit' /\ Lasts(reqs, reqs') BY <1>0, <1>1, WithdrawStep DEF EditCommits
    <2> QED BY <1>0, <1>1, <2>1, <2>2, <2>3, WriteStep DEF EditCommits, history
  <1>2. CASE BackCommits(p)
    <2>1. doc' \in Document BY <1>0, <1>2 DEF BackCommits, Document
    <2>2. RequestsFit' /\ Lasts(reqs, reqs') BY <1>0, <1>2, WithdrawStep DEF BackCommits
    <2> QED BY <1>0, <1>2, <2>1, <2>2, WriteStep DEF BackCommits, history
  <1>3. CASE VersionCommits(p)
    <2>1. t.at \in Versions /\ t.body \in Texts BY <1>3, TxText DEF VersionCommits
    <2>2. t.at + 1 \in Versions
      BY <1>3, <2>1, ApprovalsAssumption DEF VersionCommits, Versions
    <2>3. PICK body \in {t.body} \cup {vers[v].body : v \in {u \in Versions : vers[u].there}} :
            doc' = [status |-> "draft", version |-> t.at + 1, body |-> body]
      BY <1>3 DEF VersionCommits
    <2>4. body \in Texts BY <1>0, <2>1, <2>3 DEF VersionsFit
    <2>5. doc' \in Document BY <2>2, <2>3, <2>4 DEF Document
    <2>6. RequestsFit' /\ Lasts(reqs, reqs') BY <1>0, <1>3, WithdrawStep DEF VersionCommits
    <2> QED BY <1>0, <1>3, <2>5, <2>6, WriteStep DEF VersionCommits, history
  <1>4. CASE PublishCommits(p)
    <2>1. t.at \in Versions BY <1>4, TxText DEF PublishCommits
    <2>2. doc' \in Document BY <1>0, <1>4 DEF PublishCommits, Document
    <2>3. VersionsFit(vers') BY <1>0, <1>4, <2>1, PublishedFits DEF PublishCommits
    <2>4. RequestsFit' /\ Lasts(reqs, reqs') BY <1>0, <1>4, WithdrawStep DEF PublishCommits
    <2> QED BY <1>0, <1>4, <2>2, <2>3, <2>4, WriteStep DEF PublishCommits, history
  <1>5. CASE RetireCommits(p)
    <2>1. doc' \in Document BY <1>0, <1>5 DEF RetireCommits, Document
    <2>2. vers' = [v \in Versions |->
                     IF v \in InForce THEN [vers[v] EXCEPT !.retired = TRUE] ELSE vers[v]]
      BY <1>5 DEF RetireCommits
    <2>3. ASSUME NEW v \in Versions
          PROVE  /\ vers'[v] \in Version /\ vers'[v].there = vers[v].there
                 /\ vers'[v].body = vers[v].body /\ vers'[v].published = vers[v].published
      <3>1. vers[v] \in Version BY <1>0
      <3>2. vers'[v] = vers[v] \/ vers'[v] = [vers[v] EXCEPT !.retired = TRUE] BY <2>2
      <3> QED BY <3>1, <3>2 DEF Version
    <2>4. vers' \in [Versions -> Version] BY <2>2, <2>3
    <2>5. VersionsFit(vers') BY <1>0, <2>3, <2>4, VersionsKeep
    <2>6. RequestsFit' /\ Lasts(reqs, reqs') BY <1>0, <1>5, WithdrawStep DEF RetireCommits
    <2> QED BY <1>0, <1>5, <2>1, <2>5, <2>6, WriteStep DEF RetireCommits, history
  <1> QED BY <1>1, <1>2, <1>3, <1>4, <1>5

(* snapshotForReview: the text is written unless the number is taken. *)
LEMMA SnapshotFits ==
  ASSUME VersionsFit(vers), NEW t \in NumberedTx
  PROVE  /\ VersionsFit(Snapshot(t))
         /\ Snapshot(t) \in {vers, [vers EXCEPT ![t.ver].there = TRUE, ![t.ver].body = t.body]}
  <1> DEFINE w == [vers[t.ver] EXCEPT !.there = TRUE, !.body = t.body]
             ws == [vers EXCEPT ![t.ver].there = TRUE, ![t.ver].body = t.body]
  <1>1. t.ver \in Versions /\ t.body \in Texts BY DEF NumberedTx
  <1>2. vers \in [Versions -> Version] /\ vers[t.ver] \in Version BY <1>1 DEF VersionsFit
  <1>3. t.body \in 0..MaxText BY <1>1, ApprovalsAssumption DEF Texts
  <1>4. /\ w \in Version /\ w.there /\ w.body = t.body /\ w.published = vers[t.ver].published
    BY <1>2, <1>3 DEF Version
  <1>5. ws = [vers EXCEPT ![t.ver] = w] BY <1>2
  <1> HIDE DEF w, ws
  <1>6. /\ ws \in [Versions -> Version]
        /\ \A v \in Versions : ws[v] = IF v = t.ver THEN w ELSE vers[v]
    BY <1>1, <1>2, <1>4, <1>5
  <1>7. \A v \in Versions : ws[v].there => ws[v].body \in Texts
    BY <1>1, <1>4, <1>6 DEF VersionsFit
  <1>8. \A v \in Versions : ws[v].published = vers[v].published BY <1>4, <1>6
  <1>9. VersionsFit(ws) BY <1>6, <1>7, <1>8 DEF VersionsFit
  <1> QED BY <1>9 DEF Snapshot, ws

(* requestApproval: the request that is made. *)
LEMMA NewRequestFits ==
  ASSUME NEW p \in Authors, NEW t \in NumberedTx, NEW w \in Workflows,
         NEW steps, steps = Route(w, p), NEW req, req = NewRequest(p, t, steps)
  PROVE  /\ req \in Request
         /\ req.by = p /\ req.ver = t.ver /\ req.body = t.body /\ req.steps = steps
         /\ req.status \in {"approved", "pending"}
         /\ req.status = "approved" <=> Active(steps) = {}
         /\ req.status = "pending" =>
              req.cur \in Active(steps) /\ \A i \in Active(steps) : req.cur <= i
         /\ \A i \in DOMAIN steps : StepFits(steps[i], p)
  <1> DEFINE active == Active(steps)
  <1>1. p \in People BY ApprovalsAssumption
  <1>2. steps \in Seq(RouteStep) /\ \A i \in DOMAIN steps : StepFits(steps[i], p)
    BY <1>1, RouteFits
  <1>3. active \in SUBSET Nat BY <1>2, ActiveType
  <1>4. active # {} => Least(active) \in active /\ \A i \in active : Least(active) <= i
    BY <1>3, LeastIn
  <1> HIDE DEF active
  <1>5. req = [by |-> p, ver |-> t.ver, body |-> t.body, steps |-> steps,
               status |-> IF active = {} THEN "approved" ELSE "pending",
               cur |-> IF active = {} THEN 1 ELSE Least(active)]
    BY DEF NewRequest, active
  <1>6. t.ver \in Versions /\ t.body \in Texts BY DEF NumberedTx
  <1>7. req \in Request
    <2>1. (IF active = {} THEN 1 ELSE Least(active)) \in Nat BY <1>3, <1>4
    <2>2. (IF active = {} THEN "approved" ELSE "pending")
            \in Answers \cup {"approved", "pending", "withdrawn"}
      OBVIOUS
    <2> QED BY <1>2, <1>5, <1>6, <2>1, <2>2 DEF Request
  <1>8. /\ req.by = p /\ req.ver = t.ver /\ req.body = t.body /\ req.steps = steps
        /\ req.status = IF active = {} THEN "approved" ELSE "pending"
        /\ req.cur = IF active = {} THEN 1 ELSE Least(active)
    BY <1>5
  <1> QED BY <1>2, <1>4, <1>7, <1>8 DEF active

(* A request is added after the open ones were withdrawn. *)
LEMMA AddedFits ==
  ASSUME RequestsFit, Len(reqs) < MaxRequests, NEW req \in Request,
         req.status = "pending" => req.cur \in Active(req.steps),
         \A i \in DOMAIN req.steps : StepFits(req.steps[i], req.by),
         reqs' = Append(Withdrawn, req)
  PROVE  /\ RequestsFit' /\ Lasts(reqs, reqs') /\ DOMAIN reqs' = DOMAIN reqs \cup {Len(reqs')}
         /\ Len(reqs') = Len(reqs) + 1 /\ reqs'[Len(reqs')] = req
         /\ \A r \in DOMAIN reqs : reqs'[r] = Withdrawn[r]
  <1> DEFINE n == Len(reqs)
             W == Withdrawn
  <1>1. /\ W \in Seq(Request) /\ Len(W) = n /\ Lasts(reqs, W)
        /\ \A r \in DOMAIN reqs : W[r].status # "pending"
    BY WithdrawnIs
  <1>2. reqs \in Seq(Request) /\ n \in Nat /\ DOMAIN reqs = 1..n BY DEF RequestsFit
  <1> HIDE DEF W
  <1>3. /\ reqs' \in Seq(Request) /\ Len(reqs') = n + 1 /\ DOMAIN reqs' = 1..(n + 1)
        /\ reqs'[n + 1] = req /\ \A r \in 1..n : reqs'[r] = W[r]
    BY <1>1, <1>2 DEF W
  <1>4. Lasts(reqs, reqs') BY <1>1, <1>2, <1>3 DEF Lasts
  <1>5. DOMAIN reqs' = DOMAIN reqs \cup {n + 1} BY <1>2, <1>3
  <1>6. ASSUME NEW r \in Pending' PROVE reqs'[r].cur \in Active(reqs'[r].steps)
    <2>1. r \in DOMAIN reqs' /\ reqs'[r].status = "pending" BY <1>6 DEF Pending
    <2>2. r = n + 1 BY <1>1, <1>2, <1>3, <2>1
    <2> QED BY <1>3, <2>1, <2>2
  <1>7. ASSUME NEW r \in DOMAIN reqs', NEW i \in DOMAIN reqs'[r].steps
        PROVE  StepFits(reqs'[r].steps[i], reqs'[r].by)
    <2>1. CASE r = n + 1 BY <1>3, <1>7, <2>1
    <2>2. CASE r \in DOMAIN reqs BY <1>4, <1>7, <2>2 DEF Lasts, RequestsFit
    <2> QED BY <1>5, <2>1, <2>2
  <1>8. Len(reqs') <= MaxRequests BY <1>2, <1>3, ApprovalsAssumption
  <1>9. RequestsFit' BY <1>3, <1>6, <1>7, <1>8 DEF RequestsFit
  <1> QED BY <1>2, <1>3, <1>4, <1>5, <1>9 DEF W

(* Submitting: refused, or a request, its snapshot and the document's status. *)
LEMMA SubmitFits ==
  ASSUME Fits, NEW p \in People, NEW w \in Workflows, p \in Authors, SubmitCommits(p, w)
  PROVE  Fits'
  <1> DEFINE t == tx[p]
             steps == Route(w, p)
             req == NewRequest(p, t, steps)
  <1>0. /\ doc \in Document /\ VersionsFit(vers) /\ RequestsFit /\ text \in Texts
        /\ t \in Transaction
    BY DEF Fits, TransactionsFit
  <1>1. t.op = "numbered" /\ End(p) /\ UNCHANGED <<decisions, text, overtaken, overlapped>>
    BY DEF SubmitCommits
  <1>2. t \in NumberedTx BY <1>0, <1>1, TxKinds
  <1>3. CASE UNCHANGED <<doc, vers, reqs, strayed>>
    <2>1. RequestsFit' /\ Lasts(reqs, reqs') BY <1>0, <1>3, WithdrawStep
    <2> QED BY <1>0, <1>1, <1>3, <2>1, WriteStep DEF Fits
  <1>4. CASE ~UNCHANGED <<doc, vers, reqs, strayed>>
    <2>1. /\ Len(reqs) < MaxRequests
          /\ reqs' = Append(Withdrawn, req)
          /\ doc' = [doc EXCEPT !.status = IF req.status = "approved" THEN "approved" ELSE "in_review",
                                !.version = IF t.ver = t.at THEN @ ELSE t.ver]
          /\ vers' = IF req.status = "approved" THEN MarkApproved(Snapshot(t), t.ver, Len(reqs'))
                     ELSE Snapshot(t)
          /\ Strays(req.status = "approved" /\ doc'.version # t.ver, doc'.version)
      BY <1>4, Zenon DEF SubmitCommits
    <2>2. /\ req \in Request /\ req.by = p /\ req.steps = steps
          /\ req.status = "pending" => req.cur \in Active(steps)
          /\ \A i \in DOMAIN steps : StepFits(steps[i], p)
      BY <1>2, NewRequestFits
    <2> HIDE DEF t, steps, req
    <2>3. RequestsFit' /\ Lasts(reqs, reqs') /\ Len(reqs') = Len(reqs) + 1
      BY <1>0, <2>1, <2>2, AddedFits
    <2>4. t.ver \in Versions /\ t.at \in Versions BY <1>2 DEF NumberedTx
    <2>5. doc' \in Document BY <1>0, <2>1, <2>4 DEF Document
    <2>6. Len(reqs') \in 0..MaxRequests BY <2>3, ApprovalsAssumption DEF RequestsFit
    <2>7. VersionsFit(vers') BY <1>0, <1>2, <2>1, <2>4, <2>6, SnapshotFits, MarkApprovedFits
    <2>8. strayed' \subseteq Versions
      <3>1. doc'.version \in Versions BY <2>5 DEF Document
      <3> QED BY <2>1, <3>1 DEF Strays, Fits
    <2> QED BY <1>0, <1>1, <2>3, <2>5, <2>7, <2>8, WriteStep
  <1> QED BY <1>3, <1>4

(* A step is one of these. *)
LEMMA ApprovalSteps ==
  ASSUME Next
  PROVE  \E p \in People :
           \/ \E r \in DOMAIN reqs, a \in Answers : DecideReads(p, r, a)
           \/ DecideCounts(p) \/ DecideMarks(p) \/ DecideLooks(p)
           \/ DecideMoves(p) \/ DecideCommits(p) \/ \E r \in DOMAIN reqs : Withdraw(p, r)
           \/ \E op \in {"edit", "submit", "back", "publish", "retire", "version"} : AuthorReads(p, op)
           \/ SubmitNumbers(p) \/ RollsBack(p)
           \/ EditCommits(p) \/ BackCommits(p) \/ VersionCommits(p) \/ PublishCommits(p)
           \/ RetireCommits(p)
           \/ \E w \in Workflows : SubmitCommits(p, w)
  BY Zenon DEF Next, Deciding, Writing

(* Only authors write. *)
WritersAre ==
  \A p \in People :
    tx[p].op \in {"edit", "submit", "back", "publish", "retire", "version", "numbered"} => p \in Authors

(* And nobody else starts to. *)
LEMMA WritersStep ==
  ASSUME Fits, WritersAre, Next
  PROVE  WritersAre'
  <1> DEFINE Writes(op) ==
        op \in {"edit", "submit", "back", "publish", "retire", "version", "numbered"}
  <1>0. tx \in [People -> Transaction] BY DEF Fits, TransactionsFit
  <1>1. ASSUME NEW p \in People, NEW t, tx' = [tx EXCEPT ![p] = t], Writes(t.op) => p \in Authors
        PROVE  WritersAre'
    BY <1>0, <1>1 DEF WritersAre
  <1>2. ASSUME NEW p \in People, End(p) PROVE WritersAre'
    <2>1. ~Writes(NoTx.op) BY DEF NoTx
    <2> QED BY <1>1, <1>2, <2>1 DEF End
  <1>3. PICK p \in People :
          \/ \E r \in DOMAIN reqs, a \in Answers : DecideReads(p, r, a)
          \/ DecideCounts(p) \/ DecideMarks(p) \/ DecideLooks(p)
          \/ DecideMoves(p) \/ DecideCommits(p) \/ \E r \in DOMAIN reqs : Withdraw(p, r)
          \/ \E op \in {"edit", "submit", "back", "publish", "retire", "version"} : AuthorReads(p, op)
          \/ SubmitNumbers(p) \/ RollsBack(p)
          \/ EditCommits(p) \/ BackCommits(p) \/ VersionCommits(p) \/ PublishCommits(p)
          \/ RetireCommits(p)
          \/ \E w \in Workflows : SubmitCommits(p, w)
    BY ApprovalSteps
  <1>4. CASE \E r \in DOMAIN reqs, a \in Answers : DecideReads(p, r, a)
    <2>1. PICK t \in DecideTx : tx' = [tx EXCEPT ![p] = t] BY <1>4, ReadsFits
    <2> QED BY <1>1, <2>1 DEF DecideTx
  <1>5. CASE DecideCounts(p) \/ DecideMarks(p) \/ DecideLooks(p)
    <2>1. CASE DecideCounts(p) BY <1>1, <2>1 DEF DecideCounts
    <2>2. CASE DecideMarks(p) BY <1>1, <2>2 DEF DecideMarks
    <2>3. CASE DecideLooks(p) BY <1>1, <2>3 DEF DecideLooks
    <2> QED BY <1>5, <2>1, <2>2, <2>3
  <1>6. CASE \E r \in DOMAIN reqs : Withdraw(p, r) BY <1>6 DEF Withdraw, WritersAre
  <1>7. CASE \E op \in {"edit", "submit", "back", "publish", "retire", "version"} : AuthorReads(p, op)
    <2>1. PICK op \in {"edit", "submit", "back", "publish", "retire", "version"} : AuthorReads(p, op)
      BY <1>7
    <2>2. p \in Authors BY <2>1 DEF AuthorReads
    <2> QED BY <1>1, <2>1, <2>2 DEF AuthorReads, Begin
  <1>8. CASE SubmitNumbers(p)
    <2>1. p \in Authors BY <1>8 DEF SubmitNumbers, WritersAre
    <2> QED BY <1>1, <1>8, <2>1 DEF SubmitNumbers
  <1>9. CASE \/ DecideMoves(p) \/ DecideCommits(p) \/ RollsBack(p)
             \/ EditCommits(p) \/ BackCommits(p) \/ VersionCommits(p) \/ PublishCommits(p)
             \/ RetireCommits(p)
             \/ \E w \in Workflows : SubmitCommits(p, w)
    <2>1. End(p)
      BY <1>9 DEF DecideMoves, DecideCommits, RollsBack, EditCommits, BackCommits, VersionCommits,
                  PublishCommits, RetireCommits, SubmitCommits
    <2> QED BY <1>2, <2>1
  <1> QED BY <1>3, <1>4, <1>5, <1>6, <1>7, <1>8, <1>9

(* The inductive invariant of the types, preserved by every step. *)
LEMMA FitsStep ==
  ASSUME Fits, WritersAre, [Next]_vars
  PROVE  Fits' /\ WritersAre'
  <1>1. CASE UNCHANGED vars
    BY <1>1 DEF vars, data, history, Fits, VersionsFit, RequestsFit, TransactionsFit, Pending,
                WritersAre
  <1>2. CASE Next
    <2>1. WritersAre' BY <1>2, WritersStep
    <2>2. PICK p \in People :
            \/ \E r \in DOMAIN reqs, a \in Answers : DecideReads(p, r, a)
            \/ DecideCounts(p) \/ DecideMarks(p) \/ DecideLooks(p)
            \/ DecideMoves(p) \/ DecideCommits(p) \/ \E r \in DOMAIN reqs : Withdraw(p, r)
            \/ \E op \in {"edit", "submit", "back", "publish", "retire", "version"} : AuthorReads(p, op)
            \/ SubmitNumbers(p) \/ RollsBack(p)
            \/ EditCommits(p) \/ BackCommits(p) \/ VersionCommits(p) \/ PublishCommits(p)
            \/ RetireCommits(p)
            \/ \E w \in Workflows : SubmitCommits(p, w)
      BY <1>2, ApprovalSteps
    <2>3. CASE \E w \in Workflows : SubmitCommits(p, w)
      <3>1. p \in Authors BY <2>3 DEF SubmitCommits, WritersAre
      <3> QED BY <2>1, <2>3, <3>1, SubmitFits
    <2> QED BY <2>1, <2>2, <2>3, DecideFits, DecidedFits, AuthorFits, WrittenFits
  <1> QED BY <1>1, <1>2

(* So it holds throughout. *)
LEMMA FitsInvariant == Spec => [](Fits /\ WritersAre)
  <1>1. Init => Fits /\ WritersAre BY ApprovalsInit DEF Init, WritersAre, NoTx
  <1>2. (Fits /\ WritersAre) /\ [Next]_vars => (Fits /\ WritersAre)' BY FitsStep
  <1> QED BY <1>1, <1>2, PTL DEF Spec

(* Types: every number given to a version or a request is one there is, a
   pending request waits on a step that counts, and every decision answers a
   request that was made (service.ts, documents.ts). *)
THEOREM ApprovalTypeCorrect == Spec => []ApprovalTypeOK
  <1>1. Fits /\ WritersAre => ApprovalTypeOK BY FitsType
  <1> QED BY <1>1, FitsInvariant, PTL

-----------------------------------------------------------------------------
(* Every step is earned                                                      *)

(* More decisions never undo a step. *)
LEMMA SatisfiedGrows ==
  ASSUME NEW step \in RouteStep, NEW ds, NEW es \in SUBSET Vote, ds \subseteq es,
         StepSatisfied(step, ds)
  PROVE  StepSatisfied(step, es)
  <1> DEFINE Enough(yes) == Cardinality({d.who : d \in yes}) >= step.min
  <1>1. ASSUME NEW xs, NEW ys \in SUBSET Vote, xs \subseteq ys, Enough(xs) PROVE Enough(ys)
    <2> DEFINE X == {d.who : d \in xs}
               Y == {d.who : d \in ys}
    <2>1. Y \subseteq People /\ X \subseteq Y BY <1>1 DEF Vote
    <2> HIDE DEF X, Y
    <2>2. IsFiniteSet(Y) BY <2>1, FS_Subset, ApprovalsAssumption
    <2>3. Cardinality(X) <= Cardinality(Y) /\ IsFiniteSet(X) BY <2>1, <2>2, FS_Subset
    <2>4. Cardinality(X) \in Nat /\ Cardinality(Y) \in Nat BY <2>2, <2>3, FS_CardinalityType
    <2>5. step.min \in Nat BY DEF RouteStep
    <2> QED BY <1>1, <2>3, <2>4, <2>5 DEF X, Y
  <1>2. CASE step.mode = "all" /\ Cardinality(step.rules) > 1
    <2>1. \A r \in step.rules : Enough({d \in Yes(ds) : d.rule = r})
      BY <1>2 DEF StepSatisfied
    <2>2. \A r \in step.rules : /\ {d \in Yes(ds) : d.rule = r} \subseteq {d \in Yes(es) : d.rule = r}
                               /\ {d \in Yes(es) : d.rule = r} \in SUBSET Vote
      BY DEF Yes
    <2> HIDE DEF Enough
    <2>3. \A r \in step.rules : Enough({d \in Yes(es) : d.rule = r}) BY <1>1, <2>1, <2>2
    <2> QED BY <1>2, <2>3 DEF StepSatisfied, Enough
  <1>3. CASE ~(step.mode = "all" /\ Cardinality(step.rules) > 1)
    <2>1. Enough(Yes(ds)) BY <1>3 DEF StepSatisfied
    <2>2. Yes(ds) \subseteq Yes(es) /\ Yes(es) \in SUBSET Vote BY DEF Yes
    <2> HIDE DEF Enough
    <2>3. Enough(Yes(es)) BY <1>1, <2>1, <2>2
    <2> QED BY <1>3, <2>3 DEF StepSatisfied, Enough
  <1> QED BY <1>2, <1>3

OnIn(D, r, i) == {d \in D : d.req = r /\ d.step = i}

(* With the decisions D, request r has passed the steps before n, or all. *)
Passed(steps, n, D, r) ==
  \A i \in Active(steps) : i < n => StepSatisfied(steps[i], OnIn(D, r, i))
Done(steps, D, r) == \A i \in Active(steps) : StepSatisfied(steps[i], OnIn(D, r, i))

(* What has been passed stays so. *)
LEMMA PassedGrows ==
  ASSUME NEW steps \in Seq(RouteStep), NEW n, NEW D, NEW E \in SUBSET Vote, D \subseteq E, NEW r
  PROVE  /\ Passed(steps, n, D, r) => Passed(steps, n, E, r)
         /\ Done(steps, D, r) => Done(steps, E, r)
  <1>1. ASSUME NEW i \in Active(steps), StepSatisfied(steps[i], OnIn(D, r, i))
        PROVE  StepSatisfied(steps[i], OnIn(E, r, i))
    <2>1. steps[i] \in RouteStep BY ActiveType
    <2>2. OnIn(D, r, i) \subseteq OnIn(E, r, i) /\ OnIn(E, r, i) \in SUBSET Vote BY DEF OnIn
    <2> QED BY <1>1, <2>1, <2>2, SatisfiedGrows
  <1> QED BY <1>1 DEF Passed, Done

(* A request has earned where it stands. *)
RequestEarned(r, rs, D) ==
  /\ rs[r].status = "pending" => Passed(rs[r].steps, rs[r].cur, D, r)
  /\ rs[r].status = "approved" => Done(rs[r].steps, D, r)

(* A transaction that has counted its decision knows what is passed with it. *)
TxEarned(t, rs, D) ==
  /\ t.op = "decide" => Passed(rs[t.req].steps, t.step, D, t.req)
  /\ t.op = "counted" /\ t.out.status = "approved" => Done(rs[t.req].steps, D \cup {t.vote}, t.req)
  /\ t.op = "counted" /\ t.out.status = "pending" =>
       Passed(rs[t.req].steps, t.out.cur, D \cup {t.vote}, t.req)
  /\ t.op \in {"marked", "looked"} /\ t.status = "approved" =>
       Done(rs[t.req].steps, D \cup {t.vote}, t.req)

EarnedInv ==
  /\ \A r \in DOMAIN reqs : RequestEarned(r, reqs, decisions)
  /\ \A p \in People : TxEarned(tx[p], reqs, decisions)

(* Decisions of others do not take away what a transaction knows. *)
LEMMA TxEarnedLasts ==
  ASSUME NEW rs \in Seq(Request), NEW qs, Lasts(rs, qs), NEW D, NEW E \in SUBSET Vote, D \subseteq E,
         NEW t, TxFits(t, rs), TxEarned(t, rs, D)
  PROVE  TxEarned(t, qs, E)
  <1>1. CASE t.op \in {"decide", "counted", "marked", "looked"}
    <2>1. t.req \in DOMAIN rs /\ t.vote \in Vote BY <1>1 DEF TxFits, VoteFits
    <2>2. qs[t.req].steps = rs[t.req].steps /\ rs[t.req].steps \in Seq(RouteStep)
      <3>1. rs[t.req] \in Request BY <2>1
      <3> QED BY <2>1, <3>1 DEF Lasts, Request
    <2> DEFINE steps == rs[t.req].steps
               F == E \cup {t.vote}
    <2>3. F \in SUBSET Vote /\ D \cup {t.vote} \subseteq F BY <2>1
    <2>4. \A n : Passed(steps, n, D, t.req) => Passed(steps, n, E, t.req)
      BY <2>2, PassedGrows
    <2> HIDE DEF F
    <2>5. /\ \A n : Passed(steps, n, D \cup {t.vote}, t.req) => Passed(steps, n, F, t.req)
          /\ Done(steps, D \cup {t.vote}, t.req) => Done(steps, F, t.req)
      BY <2>2, <2>3, PassedGrows
    <2> QED BY <2>2, <2>4, <2>5 DEF TxEarned, F
  <1>2. CASE t.op \notin {"decide", "counted", "marked", "looked"} BY <1>2 DEF TxEarned
  <1> QED BY <1>1, <1>2

(* A request that was not decided has earned where it stands. *)
LEMMA RequestEarnedLasts ==
  ASSUME NEW rs \in Seq(Request), NEW qs, Lasts(rs, qs), NEW D, NEW E \in SUBSET Vote, D \subseteq E,
         NEW r \in DOMAIN rs, RequestEarned(r, rs, D),
         qs[r].status = rs[r].status \/ qs[r].status \notin {"pending", "approved"},
         qs[r].status = "pending" => qs[r].cur = rs[r].cur
  PROVE  RequestEarned(r, qs, E)
  <1>1. rs[r] \in Request OBVIOUS
  <1>2. qs[r].steps = rs[r].steps /\ rs[r].steps \in Seq(RouteStep) BY <1>1 DEF Lasts, Request
  <1>3. /\ Passed(rs[r].steps, rs[r].cur, D, r) => Passed(rs[r].steps, rs[r].cur, E, r)
        /\ Done(rs[r].steps, D, r) => Done(rs[r].steps, E, r)
    BY <1>2, PassedGrows
  <1> QED BY <1>2, <1>3 DEF RequestEarned

(* One transaction moves: what it and the requests have earned is enough. *)
LEMMA EarnedStep ==
  ASSUME Fits, Fits', EarnedInv, Lasts(reqs, reqs'), decisions \subseteq decisions', NEW p \in People,
         \A o \in People : o # p => tx'[o] = tx[o],
         TxEarned(tx'[p], reqs', decisions'),
         \A r \in DOMAIN reqs' : RequestEarned(r, reqs', decisions')
  PROVE  EarnedInv'
  <1>1. reqs \in Seq(Request) /\ decisions' \in SUBSET Vote BY DEF Fits, RequestsFit, VoteFits
  <1>2. ASSUME NEW o \in People PROVE TxEarned(tx'[o], reqs', decisions')
    <2>1. CASE o = p BY <2>1
    <2>2. CASE o # p
      <3>1. /\ tx'[o] = tx[o] /\ TxFits(tx[o], reqs) /\ TxEarned(tx[o], reqs, decisions)
        BY <2>2 DEF Fits, TransactionsFit, EarnedInv
      <3> QED BY <1>1, <3>1, TxEarnedLasts
    <2> QED BY <2>1, <2>2
  <1> QED BY <1>2 DEF EarnedInv

(* Nothing was decided: the requests are as they were, or withdrawn. *)
LEMMA KeptEarned ==
  ASSUME Fits, Fits', EarnedInv, Lasts(reqs, reqs'), decisions' = decisions,
         NEW r \in DOMAIN reqs,
         reqs'[r].status = reqs[r].status \/ reqs'[r].status = "withdrawn",
         reqs'[r].cur = reqs[r].cur
  PROVE  RequestEarned(r, reqs', decisions')
  <1>1. reqs \in Seq(Request) /\ decisions' \in SUBSET Vote BY DEF Fits, RequestsFit, VoteFits
  <1>2. RequestEarned(r, reqs, decisions) BY DEF EarnedInv
  <1> QED BY <1>1, <1>2, RequestEarnedLasts

(* decide reads a pending request, and counts. *)
LEMMA CountsEarned ==
  ASSUME Fits, Fits', EarnedInv, NEW p \in People,
         (\E r \in DOMAIN reqs, a \in Answers : DecideReads(p, r, a)) \/ DecideCounts(p)
  PROVE  EarnedInv'
  <1> DEFINE t == tx[p]
  <1>1. UNCHANGED <<reqs, decisions>> BY DEF DecideReads, DecideCounts, data
  <1>2. Lasts(reqs, reqs') BY <1>1 DEF Lasts
  <1>3. \A r \in DOMAIN reqs' : RequestEarned(r, reqs', decisions') BY <1>1 DEF EarnedInv
  <1>4. tx \in [People -> Transaction] BY DEF Fits, TransactionsFit
  <1>5. ASSUME NEW u, tx' = [tx EXCEPT ![p] = u], TxEarned(u, reqs, decisions) PROVE EarnedInv'
    <2>1. tx'[p] = u /\ \A o \in People : o # p => tx'[o] = tx[o] BY <1>4, <1>5
    <2> QED BY <1>1, <1>2, <1>3, <1>5, <2>1, EarnedStep
  <1>6. CASE \E r \in DOMAIN reqs, a \in Answers : DecideReads(p, r, a)
    <2>1. PICK r \in DOMAIN reqs, a \in Answers : DecideReads(p, r, a) BY <1>6
    <2>2. PICK u \in DecideTx : tx' = [tx EXCEPT ![p] = u] /\ u.req = r /\ u.step = reqs[r].cur
      BY <2>1, ReadsFits
    <2>3. reqs[r].status = "pending" BY <2>1 DEF DecideReads
    <2>4. Passed(reqs[r].steps, u.step, decisions, r)
      BY <2>2, <2>3 DEF EarnedInv, RequestEarned
    <2>5. TxEarned(u, reqs, decisions) BY <2>2, <2>4 DEF TxEarned, DecideTx
    <2> QED BY <1>5, <2>2, <2>5
  <1>7. CASE DecideCounts(p)
    <2> DEFINE steps == reqs[t.req].steps
               ds == On(t.req, t.step) \cup {t.vote}
               D == decisions \cup {t.vote}
    <2>1. PICK out :
            /\ t \in DecideTx /\ TxFits(t, reqs)
            /\ out = Advance(steps, t.step, ds)
            /\ \A d \in ds : d.decision \in Answers
            /\ steps \in Seq(RouteStep) /\ t.step \in Active(steps)
            /\ tx' = [tx EXCEPT ![p] =
                        [op |-> "counted", req |-> t.req, vote |-> t.vote, out |-> out]]
      BY <1>7, CountsFits
    <2>2. t.op = "decide" BY <1>7 DEF DecideCounts
    <2>3. t.vote.req = t.req /\ t.vote.step = t.step /\ t.vote \in Vote
      BY <2>1, <2>2 DEF TxFits, VoteFits
    <2>4. ds = OnIn(D, t.req, t.step) BY <2>3 DEF On, OnIn
    <2>5. D \in SUBSET Vote BY <2>3 DEF Fits, VoteFits
    <2>6. Passed(steps, t.step, D, t.req)
      <3>1. Passed(steps, t.step, decisions, t.req) BY <2>2 DEF EarnedInv, TxEarned
      <3>2. decisions \subseteq D OBVIOUS
      <3> HIDE DEF D
      <3> QED BY <2>1, <2>5, <3>1, <3>2, PassedGrows
    <2>7. Active(steps) \subseteq Nat BY <2>1, ActiveType
    <2> HIDE DEF ds, D, steps
    <2>8. /\ out.status = "approved" =>
               StepSatisfied(steps[t.step], ds) /\ \A i \in Active(steps) : i <= t.step
          /\ out.status = "pending" =>
               \/ out.cur = t.step
               \/ /\ StepSatisfied(steps[t.step], ds) /\ out.cur > t.step
                  /\ \A i \in Active(steps) : i <= t.step \/ i >= out.cur
          /\ out.cur \in Active(steps)
      BY <2>1, AdvanceIs
    <2>9. out.status = "approved" => Done(steps, D, t.req)
      BY <2>1, <2>4, <2>6, <2>7, <2>8 DEF Passed, Done
    <2>10. out.status = "pending" => Passed(steps, out.cur, D, t.req)
      BY <2>1, <2>4, <2>6, <2>7, <2>8 DEF Passed
    <2> DEFINE u == [op |-> "counted", req |-> t.req, vote |-> t.vote, out |-> out]
    <2>11. TxEarned(u, reqs, decisions) BY <2>9, <2>10 DEF TxEarned, steps, D
    <2> QED BY <1>5, <2>1, <2>11
  <1> QED BY <1>6, <1>7

(* The steps that decide nothing. *)
OtherStep(p) ==
  \/ \E r \in DOMAIN reqs : Withdraw(p, r)
  \/ \E op \in {"edit", "submit", "back", "publish", "retire", "version"} : AuthorReads(p, op)
  \/ SubmitNumbers(p) \/ RollsBack(p)
  \/ EditCommits(p) \/ BackCommits(p) \/ VersionCommits(p) \/ PublishCommits(p) \/ RetireCommits(p)
  \/ \E w \in Workflows : SubmitCommits(p, w)

(* They may withdraw requests and make a new one, and end at most a
   transaction of p. *)
LEMMA OtherIs ==
  ASSUME Fits, WritersAre, NEW p \in People, OtherStep(p)
  PROVE  /\ decisions' = decisions /\ UNCHANGED <<overtaken, overlapped>> /\ strayed \subseteq strayed'
         /\ Lasts(reqs, reqs')
         /\ \A o \in People : o # p => tx'[o] = tx[o]
         /\ tx'[p].op \notin {"decide", "counted", "marked", "looked"}
         /\ \A r \in DOMAIN reqs :
              /\ reqs'[r].cur = reqs[r].cur
              /\ reqs'[r].status = reqs[r].status \/ reqs'[r].status = "withdrawn"
         /\ \A r \in DOMAIN reqs' \ DOMAIN reqs :
              /\ reqs'[r].status = "approved" => Active(reqs'[r].steps) = {}
              /\ reqs'[r].status = "pending" =>
                   /\ reqs'[r].cur \in Active(reqs'[r].steps)
                   /\ \A i \in Active(reqs'[r].steps) : reqs'[r].cur <= i
  <1> DEFINE ops == {"decide", "counted", "marked", "looked"}
             t == tx[p]
  <1>0. tx \in [People -> Transaction] /\ RequestsFit BY DEF Fits, TransactionsFit
  <1>1. ASSUME NEW u, tx' = [tx EXCEPT ![p] = u], u.op \notin ops
        PROVE  (\A o \in People : o # p => tx'[o] = tx[o]) /\ tx'[p].op \notin ops
    BY <1>0, <1>1
  <1>2. ASSUME End(p) PROVE (\A o \in People : o # p => tx'[o] = tx[o]) /\ tx'[p].op \notin ops
    <2>1. NoTx.op \notin ops BY DEF NoTx
    <2> QED BY <1>1, <1>2, <2>1 DEF End
  <1>3. ASSUME reqs' = reqs
        PROVE  /\ Lasts(reqs, reqs')
               /\ \A r \in DOMAIN reqs : reqs'[r].cur = reqs[r].cur /\ reqs'[r].status = reqs[r].status
    BY <1>3 DEF Lasts
  <1>4. ASSUME reqs' = Withdrawn
        PROVE  /\ Lasts(reqs, reqs') /\ DOMAIN reqs' = DOMAIN reqs
               /\ \A r \in DOMAIN reqs :
                    /\ reqs'[r].cur = reqs[r].cur
                    /\ reqs'[r].status = reqs[r].status \/ reqs'[r].status = "withdrawn"
    <2>1. \A r \in DOMAIN reqs : Withdrawn[r].status = reqs[r].status \/ Withdrawn[r].status = "withdrawn"
      <3> TAKE r \in DOMAIN reqs
      <3>1. reqs[r] \in Request BY <1>0 DEF RequestsFit
      <3> QED BY <3>1 DEF Withdrawn, Request
    <2>2. DOMAIN Withdrawn = DOMAIN reqs BY DEF Withdrawn
    <2> QED BY <1>0, <1>4, <2>1, <2>2, WithdrawnIs
  <1>5. CASE \E r \in DOMAIN reqs : Withdraw(p, r)
    <2>1. PICK r \in DOMAIN reqs : Withdraw(p, r) BY <1>5
    <2>2. /\ Lasts(reqs, reqs') /\ DOMAIN reqs' = DOMAIN reqs
          /\ \A q \in DOMAIN reqs :
               /\ reqs'[q].status = IF q = r THEN "withdrawn" ELSE reqs[q].status
               /\ reqs'[q].cur = reqs[q].cur
      BY <1>0, <2>1, StatusStep DEF Withdraw
    <2>3. tx' = tx /\ tx[p].op = "none" /\ decisions' = decisions /\ UNCHANGED history
      BY <2>1 DEF Withdraw, NoTx
    <2> QED BY <2>2, <2>3 DEF history
  <1>6. CASE \E op \in {"edit", "submit", "back", "publish", "retire", "version"} : AuthorReads(p, op)
    <2>1. PICK op \in {"edit", "submit", "back", "publish", "retire", "version"} : AuthorReads(p, op)
      BY <1>6
    <2> DEFINE u == [op |-> op, at |-> doc.version, body |-> doc.body]
    <2>2. tx' = [tx EXCEPT ![p] = u] /\ u.op \notin ops /\ UNCHANGED data /\ UNCHANGED history
      BY <2>1 DEF AuthorReads, Begin
    <2> HIDE DEF u
    <2> QED BY <1>1, <1>3, <2>2 DEF data, history
  <1>7. CASE SubmitNumbers(p)
    <2> DEFINE taken == vers[t.at].approved \/ vers[t.at].published > 0
               u == [op |-> "numbered", at |-> t.at, body |-> t.body,
                     ver |-> IF taken THEN t.at + 1 ELSE t.at]
    <2>1. tx' = [tx EXCEPT ![p] = u] /\ u.op \notin ops /\ UNCHANGED data /\ UNCHANGED history
      BY <1>7 DEF SubmitNumbers
    <2> HIDE DEF u
    <2> QED BY <1>1, <1>3, <2>1 DEF data, history
  <1>8. CASE RollsBack(p) \/ EditCommits(p) \/ PublishCommits(p) \/ RetireCommits(p)
    <2>1. End(p) /\ reqs' = reqs /\ decisions' = decisions /\ UNCHANGED history
      BY <1>8 DEF RollsBack, EditCommits, PublishCommits, RetireCommits, data
    <2> QED BY <1>2, <1>3, <2>1 DEF history
  <1>9. CASE BackCommits(p) \/ VersionCommits(p)
    <2>1. End(p) /\ reqs' = Withdrawn /\ decisions' = decisions /\ UNCHANGED history
      BY <1>9 DEF BackCommits, VersionCommits
    <2> QED BY <1>2, <1>4, <2>1 DEF history
  <1>10. CASE \E w \in Workflows : SubmitCommits(p, w)
    <2>1. PICK w \in Workflows : SubmitCommits(p, w) BY <1>10
    <2> DEFINE steps == Route(w, p)
               req == NewRequest(p, t, steps)
    <2>2. /\ t.op = "numbered" /\ End(p) /\ decisions' = decisions
          /\ UNCHANGED <<overtaken, overlapped>> /\ strayed \subseteq strayed'
      BY <2>1 DEF SubmitCommits, Strays
    <2>3. CASE reqs' = reqs BY <1>2, <1>3, <2>2, <2>3
    <2>4. CASE reqs' # reqs
      <3>1. Len(reqs) < MaxRequests /\ reqs' = Append(Withdrawn, req)
        BY <2>1, <2>4, Zenon DEF SubmitCommits
      <3>2. p \in Authors BY <2>2 DEF WritersAre
      <3>3. t \in NumberedTx BY <1>0, <2>2, TxKinds
      <3>4. /\ req \in Request /\ req.by = p /\ req.steps = steps
            /\ req.status = "approved" <=> Active(steps) = {}
            /\ req.status = "pending" =>
                 req.cur \in Active(steps) /\ \A i \in Active(steps) : req.cur <= i
            /\ \A i \in DOMAIN steps : StepFits(steps[i], p)
        BY <3>2, <3>3, NewRequestFits
      <3> HIDE DEF steps, req
      <3>5. /\ Lasts(reqs, reqs') /\ DOMAIN reqs' = DOMAIN reqs \cup {Len(reqs')}
            /\ reqs'[Len(reqs')] = req
            /\ \A r \in DOMAIN reqs : reqs'[r] = Withdrawn[r]
        BY <1>0, <3>1, <3>4, AddedFits
      <3>6. \A r \in DOMAIN reqs :
              /\ reqs'[r].cur = reqs[r].cur
              /\ reqs'[r].status = reqs[r].status \/ reqs'[r].status = "withdrawn"
        <4> TAKE r \in DOMAIN reqs
        <4>1. reqs[r] \in Request BY <1>0 DEF RequestsFit
        <4> QED BY <3>5, <4>1 DEF Withdrawn, Request
      <3> QED BY <1>2, <2>2, <3>4, <3>5, <3>6
    <2> QED BY <2>3, <2>4
  <1> QED BY <1>5, <1>6, <1>7, <1>8, <1>9, <1>10 DEF OtherStep

(* What DecideMoves and DecideCommits do to the requests: one of them moves. *)
LEMMA DecidedIs ==
  ASSUME Fits, NEW p \in People, DecideMoves(p) \/ DecideCommits(p)
  PROVE  LET t == tx[p] IN
         /\ t.req \in DOMAIN reqs /\ VoteFits(t.vote, reqs) /\ t.vote.req = t.req
         /\ Lasts(reqs, reqs') /\ DOMAIN reqs' = DOMAIN reqs
         /\ decisions' = decisions \cup {t.vote}
         /\ UNCHANGED <<overtaken, overlapped>> /\ strayed \subseteq strayed'
         /\ \A o \in People : o # p => tx'[o] = tx[o]
         /\ tx'[p] = NoTx
         /\ \A r \in DOMAIN reqs : r # t.req => reqs'[r] = reqs[r]
         /\ DecideMoves(p) => /\ reqs'[t.req].status = reqs[t.req].status
                              /\ reqs'[t.req].cur = t.out.cur
                              /\ t.op = "counted" /\ t.out.status = "pending"
         /\ DecideCommits(p) => reqs'[t.req].status = t.status /\ t.op = "looked"
  <1> DEFINE t == tx[p]
  <1>0. tx \in [People -> Transaction] /\ RequestsFit /\ reqs \in Seq(Request) /\ TxFits(t, reqs)
    BY DEF Fits, TransactionsFit, RequestsFit
  <1>1. /\ t.op \in {"counted", "looked"} /\ End(p) /\ decisions' = decisions \cup {t.vote}
        /\ UNCHANGED <<overtaken, overlapped>> /\ strayed \subseteq strayed'
    BY DEF DecideMoves, DecideCommits, Strays, history
  <1>2. t.req \in DOMAIN reqs /\ VoteFits(t.vote, reqs) /\ t.vote.req = t.req
    BY <1>0, <1>1 DEF TxFits, VoteFits
  <1>3. tx'[p] = NoTx /\ \A o \in People : o # p => tx'[o] = tx[o] BY <1>0, <1>1 DEF End
  <1>4. \A r \in DOMAIN reqs : reqs[r] \in Request BY <1>0
  <1>5. ASSUME DecideMoves(p)
        PROVE  /\ DOMAIN reqs' = DOMAIN reqs /\ \A r \in DOMAIN reqs : r # t.req => reqs'[r] = reqs[r]
               /\ reqs'[t.req] = [reqs[t.req] EXCEPT !.cur = t.out.cur]
               /\ t.op = "counted" /\ t.out.status = "pending"
    BY <1>0, <1>2, <1>5 DEF DecideMoves
  <1>6. ASSUME DecideCommits(p)
        PROVE  /\ DOMAIN reqs' = DOMAIN reqs /\ \A r \in DOMAIN reqs : r # t.req => reqs'[r] = reqs[r]
               /\ reqs'[t.req] = [reqs[t.req] EXCEPT !.status = t.status]
               /\ t.op = "looked" /\ t.status # "pending"
    <2>1. t \in LookedTx BY <1>0, <1>6, TxKinds DEF DecideCommits
    <2>2. t.status # "pending" BY <2>1, ApprovalsAssumption DEF LookedTx, Ends
    <2> QED BY <1>0, <1>2, <1>6, <2>2 DEF DecideCommits
  <1>7. reqs[t.req] \in Request BY <1>2, <1>4
  <1>8. Lasts(reqs, reqs')
    <2>1. CASE DecideMoves(p) BY <1>5, <1>7, <2>1 DEF Lasts, Request
    <2>2. CASE DecideCommits(p) BY <1>6, <1>7, <2>2 DEF Lasts, Request
    <2> QED BY <2>1, <2>2
  <1>9. DecideMoves(p) => /\ reqs'[t.req].status = reqs[t.req].status
                          /\ reqs'[t.req].cur = t.out.cur
    BY <1>5, <1>7 DEF Request
  <1>10. DecideCommits(p) => reqs'[t.req].status = t.status BY <1>6, <1>7 DEF Request
  <1> QED BY <1>1, <1>2, <1>3, <1>5, <1>6, <1>8, <1>9, <1>10

(* The rest of decide. *)
LEMMA DecidedEarned ==
  ASSUME Fits, Fits', EarnedInv, NEW p \in People,
         DecideMarks(p) \/ DecideLooks(p) \/ DecideMoves(p) \/ DecideCommits(p)
  PROVE  EarnedInv'
  <1> DEFINE t == tx[p]
  <1>0. tx \in [People -> Transaction] /\ TxEarned(t, reqs, decisions) /\ t \in Transaction
    BY DEF Fits, TransactionsFit, EarnedInv
  <1>1. CASE DecideMarks(p) \/ DecideLooks(p)
    <2>1. UNCHANGED <<reqs, decisions>> BY <1>1 DEF DecideMarks, DecideLooks, data
    <2>2. Lasts(reqs, reqs') BY <2>1 DEF Lasts
    <2>3. \A r \in DOMAIN reqs' : RequestEarned(r, reqs', decisions') BY <2>1 DEF EarnedInv
    <2>4. /\ \A o \in People : o # p => tx'[o] = tx[o]
          /\ tx'[p].op \in {"marked", "looked"} /\ tx'[p].req = t.req /\ tx'[p].vote = t.vote
          /\ tx'[p].status = "approved" =>
               \/ t.op = "counted" /\ t.out.status = "approved"
               \/ t.op = "marked" /\ t.status = "approved"
      BY <1>0, <1>1 DEF DecideMarks, DecideLooks
    <2>5. tx'[p].status = "approved" => Done(reqs[t.req].steps, decisions \cup {t.vote}, t.req)
      BY <1>0, <2>4 DEF TxEarned
    <2>6. TxEarned(tx'[p], reqs', decisions') BY <2>1, <2>4, <2>5 DEF TxEarned
    <2> QED BY <2>1, <2>2, <2>3, <2>4, <2>6, EarnedStep
  <1>2. CASE DecideMoves(p) \/ DecideCommits(p)
    <2>1. /\ t.req \in DOMAIN reqs
          /\ Lasts(reqs, reqs') /\ DOMAIN reqs' = DOMAIN reqs
          /\ decisions' = decisions \cup {t.vote}
          /\ \A o \in People : o # p => tx'[o] = tx[o]
          /\ tx'[p] = NoTx
          /\ \A r \in DOMAIN reqs : r # t.req => reqs'[r] = reqs[r]
          /\ DecideMoves(p) => /\ reqs'[t.req].status = reqs[t.req].status
                               /\ reqs'[t.req].cur = t.out.cur
                               /\ t.op = "counted" /\ t.out.status = "pending"
          /\ DecideCommits(p) => reqs'[t.req].status = t.status /\ t.op = "looked"
      BY <1>2, DecidedIs
    <2>2. reqs \in Seq(Request) /\ decisions' \in SUBSET Vote BY DEF Fits, RequestsFit, VoteFits
    <2>3. TxEarned(tx'[p], reqs', decisions') BY <2>1 DEF TxEarned, NoTx
    <2>4. ASSUME NEW r \in DOMAIN reqs, r # t.req PROVE RequestEarned(r, reqs', decisions')
      <3>1. reqs'[r] = reqs[r] /\ RequestEarned(r, reqs, decisions) BY <2>1, <2>4 DEF EarnedInv
      <3>2. decisions \subseteq decisions' BY <2>1
      <3> QED BY <2>1, <2>2, <3>1, <3>2, RequestEarnedLasts
    <2>5. RequestEarned(t.req, reqs', decisions')
      <3>0. reqs'[t.req].steps = reqs[t.req].steps /\ reqs[t.req].steps \in Seq(RouteStep)
        <4>1. reqs[t.req] \in Request BY <2>1, <2>2
        <4> QED BY <2>1, <4>1 DEF Lasts, Request
      <3>1. CASE DecideMoves(p)
        <4>1. Passed(reqs[t.req].steps, t.out.cur, decisions', t.req) BY <1>0, <2>1, <3>1 DEF TxEarned
        <4>0. decisions \subseteq decisions' BY <2>1
        <4>2. Done(reqs[t.req].steps, decisions, t.req) => Done(reqs[t.req].steps, decisions', t.req)
          BY <2>2, <3>0, <4>0, PassedGrows
        <4>3. reqs[t.req].status = "approved" => Done(reqs[t.req].steps, decisions, t.req)
          BY <2>1 DEF EarnedInv, RequestEarned
        <4> QED BY <2>1, <3>0, <3>1, <4>1, <4>2, <4>3 DEF RequestEarned
      <3>2. CASE DecideCommits(p)
        <4>1. t \in LookedTx BY <1>0, <2>1, <3>2, TxKinds
        <4>2. t.status # "pending" BY <4>1, ApprovalsAssumption DEF LookedTx, Ends
        <4>3. t.status = "approved" => Done(reqs[t.req].steps, decisions', t.req)
          BY <1>0, <2>1, <3>2 DEF TxEarned
        <4> QED BY <2>1, <3>0, <3>2, <4>2, <4>3 DEF RequestEarned
      <3> QED BY <1>2, <3>1, <3>2
    <2> QED BY <2>1, <2>3, <2>4, <2>5, EarnedStep
  <1> QED BY <1>1, <1>2

(* A step that decides nothing. *)
LEMMA OtherEarned ==
  ASSUME Fits, Fits', WritersAre, EarnedInv, NEW p \in People, OtherStep(p)
  PROVE  EarnedInv'
  <1>1. /\ decisions' = decisions /\ Lasts(reqs, reqs')
        /\ \A o \in People : o # p => tx'[o] = tx[o]
        /\ tx'[p].op \notin {"decide", "counted", "marked", "looked"}
        /\ \A r \in DOMAIN reqs :
             /\ reqs'[r].cur = reqs[r].cur
             /\ reqs'[r].status = reqs[r].status \/ reqs'[r].status = "withdrawn"
        /\ \A r \in DOMAIN reqs' \ DOMAIN reqs :
             /\ reqs'[r].status = "approved" => Active(reqs'[r].steps) = {}
             /\ reqs'[r].status = "pending" =>
                  /\ reqs'[r].cur \in Active(reqs'[r].steps)
                  /\ \A i \in Active(reqs'[r].steps) : reqs'[r].cur <= i
    BY OtherIs
  <1>2. TxEarned(tx'[p], reqs', decisions') BY <1>1 DEF TxEarned
  <1>3. ASSUME NEW r \in DOMAIN reqs' PROVE RequestEarned(r, reqs', decisions')
    <2>1. CASE r \in DOMAIN reqs BY <1>1, <2>1, KeptEarned
    <2>2. CASE r \notin DOMAIN reqs
      <3>1. Active(reqs'[r].steps) \subseteq Nat
        <4>1. reqs'[r] \in Request BY <1>3 DEF Fits, RequestsFit
        <4> QED BY <4>1, ActiveType DEF Request
      <3> QED BY <1>1, <1>3, <2>2, <3>1 DEF RequestEarned, Passed, Done
    <2> QED BY <2>1, <2>2
  <1> QED BY <1>1, <1>2, <1>3, EarnedStep

(* What is earned, throughout. *)
LEMMA EarnedInvariant == Spec => []EarnedInv
  <1>1. Init => EarnedInv BY DEF Init, EarnedInv, TxEarned, NoTx
  <1>2. ASSUME Fits, Fits', WritersAre, EarnedInv, [Next]_vars PROVE EarnedInv'
    <2>1. CASE UNCHANGED vars BY <1>2, <2>1 DEF vars, data, EarnedInv
    <2>2. CASE Next
      <3>1. PICK p \in People :
              \/ (\E r \in DOMAIN reqs, a \in Answers : DecideReads(p, r, a)) \/ DecideCounts(p)
              \/ DecideMarks(p) \/ DecideLooks(p) \/ DecideMoves(p) \/ DecideCommits(p)
              \/ OtherStep(p)
        BY <2>2, ApprovalSteps DEF OtherStep
      <3> QED BY <1>2, <3>1, CountsEarned, DecidedEarned, OtherEarned
    <2> QED BY <1>2, <2>1, <2>2
  <1> QED BY <1>1, <1>2, FitsInvariant, PTL DEF Spec

(* EveryStepEarned for any people, workflows and delegations and any number of
   decisions at a time: an approved request was agreed to by enough people on
   every step of its snapshot, none of them the requester and each for an office
   someone else than the requester holds (decide, advance, approverEligibility). *)
THEOREM EveryStepEarnedAlways == Spec => []EveryStepEarned
  <1>1. ASSUME Fits, EarnedInv PROVE EveryStepEarned
    <2>1. ASSUME NEW r \in DOMAIN reqs, reqs[r].status = "approved", NEW i \in Active(reqs[r].steps)
          PROVE  StepSatisfied(reqs[r].steps[i], On(r, i))
      BY <1>1, <2>1 DEF EarnedInv, RequestEarned, Done, On, OnIn
    <2>2. ASSUME NEW r \in DOMAIN reqs, NEW i, NEW d \in On(r, i)
          PROVE  /\ d.who # reqs[r].by
                 /\ \E q \in People \ {reqs[r].by} : Matches(d.rule, q, reqs[r].by)
      <3>1. VoteFits(d, reqs) /\ d.req = r /\ d.who \in People BY <1>1, <2>2 DEF Fits, On, VoteFits, Vote
      <3> DEFINE step == reqs[r].steps[d.step]
                 by == reqs[r].by
      <3>2. PICK dels \in SUBSET Delegations :
              \E rules \in Voices(step, d.who, by, dels) : d.rule \in rules
        BY <3>1 DEF VoteFits
      <3>3. PICK rules \in Voices(step, d.who, by, dels) : d.rule \in rules BY <3>2
      <3>4. d.who # by BY <3>3 DEF Voices
      <3>5. \E q \in People \ {by} : rules = Direct(step, q, by) BY <3>1, <3>3, <3>4 DEF Voices
      <3> QED BY <3>3, <3>4, <3>5 DEF Direct
    <2>3. \A r, i : Yes(On(r, i)) \subseteq On(r, i) BY DEF Yes
    <2> QED BY <2>1, <2>2, <2>3 DEF EveryStepEarned
  <1> QED BY <1>1, FitsInvariant, EarnedInvariant, PTL

-----------------------------------------------------------------------------
(* No decision is lost                                                       *)

(* Nothing was decided: the step waits. *)
LEMMA NothingSatisfied ==
  ASSUME NEW step, NEW by, StepFits(step, by), ~step.skipped
  PROVE  ~StepSatisfied(step, {})
  <1>1. step.min \in Nat /\ step.min > 0 BY DEF StepFits, RouteStep
  <1>2. PICK rule \in step.rules : TRUE BY DEF StepFits
  <1>3. Yes({}) = {} /\ {d \in {} : d.rule = rule} = {} /\ {d.who : d \in {}} = {} BY DEF Yes
  <1>4. Cardinality({}) = 0 BY FS_EmptySet
  <1>5. ~(Cardinality({d.who : d \in {}}) >= step.min) BY <1>1, <1>3, <1>4
  <1> QED BY <1>2, <1>3, <1>5 DEF StepSatisfied

(* A pending request waits: not enough agree, nobody refused, and nobody has
   decided on a later step. *)
Waits(r, rs, D) ==
  /\ ~StepSatisfied(rs[r].steps[rs[r].cur], OnIn(D, r, rs[r].cur))
  /\ \A d \in OnIn(D, r, rs[r].cur) : d.decision = "approved"
  /\ \A d \in D : d.req = r => d.step <= rs[r].cur

Decides(t) == t.op \in {"decide", "counted", "marked", "looked"}

(* A decision is about the current step, and was counted with all others. *)
Current(t, rs, D) ==
  /\ t.vote.step = rs[t.req].cur
  /\ t.op = "counted" =>
       t.out = Advance(rs[t.req].steps, t.vote.step, OnIn(D \cup {t.vote}, t.req, t.vote.step))

(* Requests that never had two decisions under way wait as they should. *)
WaitInv ==
  /\ \A r \in Pending \ overlapped : Waits(r, reqs, decisions)
  /\ \A p, o \in People : p # o /\ Decides(tx[p]) /\ Decides(tx[o]) /\ tx[p].req = tx[o].req =>
       tx[p].req \in overlapped
  /\ \A p \in People : Decides(tx[p]) /\ tx[p].req \in Pending \ overlapped =>
       Current(tx[p], reqs, decisions)

(* Looking changes only what one transaction knows. *)
LEMMA LooksWait ==
  ASSUME Fits, WaitInv, UNCHANGED <<reqs, decisions>>, overlapped \subseteq overlapped',
         NEW p \in People, NEW u, tx' = [tx EXCEPT ![p] = u],
         Decides(u) => \A o \in People : o # p /\ Decides(tx[o]) /\ tx[o].req = u.req => u.req \in overlapped',
         Decides(u) /\ u.req \in Pending \ overlapped' => Current(u, reqs, decisions)
  PROVE  WaitInv'
  <1>1. tx \in [People -> Transaction] BY DEF Fits, TransactionsFit
  <1>2. tx'[p] = u /\ \A o \in People : o # p => tx'[o] = tx[o] BY <1>1
  <1>3. Pending' = Pending BY DEF Pending
  <1>4. \A r \in Pending' \ overlapped' : Waits(r, reqs', decisions') BY <1>3 DEF WaitInv
  <1>5. ASSUME NEW a \in People, NEW o \in People, a # o, Decides(tx'[a]), Decides(tx'[o]),
               tx'[a].req = tx'[o].req
        PROVE  tx'[a].req \in overlapped'
    <2>1. CASE a = p BY <1>2, <1>5, <2>1
    <2>2. CASE o = p BY <1>2, <1>5, <2>2
    <2>3. CASE a # p /\ o # p BY <1>2, <1>5, <2>3 DEF WaitInv
    <2> QED BY <2>1, <2>2, <2>3
  <1>6. ASSUME NEW a \in People, Decides(tx'[a]), tx'[a].req \in Pending' \ overlapped'
        PROVE  Current(tx'[a], reqs', decisions')
    <2>1. CASE a = p BY <1>2, <1>3, <1>6, <2>1
    <2>2. CASE a # p BY <1>2, <1>3, <1>6, <2>2 DEF WaitInv
    <2> QED BY <2>1, <2>2
  <1> QED BY <1>4, <1>5, <1>6 DEF WaitInv, Decides

(* The steps of decide that only look. *)
LEMMA DecideWaits ==
  ASSUME Fits, WaitInv, NEW p \in People,
         \/ \E r \in DOMAIN reqs, a \in Answers : DecideReads(p, r, a)
         \/ DecideCounts(p) \/ DecideMarks(p) \/ DecideLooks(p)
  PROVE  WaitInv'
  <1> DEFINE t == tx[p]
  <1>0. t \in Transaction /\ TxFits(t, reqs) BY DEF Fits, TransactionsFit
  <1>1. UNCHANGED <<reqs, decisions>>
    BY DEF DecideReads, DecideCounts, DecideMarks, DecideLooks, data
  <1>2. ASSUME NEW u, tx' = [tx EXCEPT ![p] = u], overlapped' = overlapped, Decides(t), u.req = t.req,
               t.req \in Pending \ overlapped => Current(u, reqs, decisions)
        PROVE  WaitInv'
    <2>1. ASSUME NEW o \in People, o # p, Decides(tx[o]), tx[o].req = u.req PROVE u.req \in overlapped'
      BY <1>2, <2>1 DEF WaitInv
    <2> QED BY <1>1, <1>2, <2>1, LooksWait
  <1>3. CASE \E r \in DOMAIN reqs, a \in Answers : DecideReads(p, r, a)
    <2>1. PICK r \in DOMAIN reqs, a \in Answers : DecideReads(p, r, a) BY <1>3
    <2>2. PICK u \in DecideTx : tx' = [tx EXCEPT ![p] = u] /\ TxFits(u, reqs) /\ u.req = r
                                /\ u.step = reqs[r].cur
      BY <2>1, ReadsFits
    <2>3. overlapped' = IF \E o \in People : Decides(tx[o]) /\ tx[o].req = r
                        THEN overlapped \cup {r} ELSE overlapped
      BY <2>1 DEF DecideReads, Decides
    <2>4. Current(u, reqs, decisions) BY <2>2 DEF Current, TxFits, DecideTx
    <2>5. \A o \in People : o # p /\ Decides(tx[o]) /\ tx[o].req = u.req => u.req \in overlapped'
      BY <2>2, <2>3
    <2>6. overlapped \subseteq overlapped' BY <2>3
    <2> QED BY <1>1, <2>2, <2>4, <2>5, <2>6, LooksWait
  <1>4. CASE DecideCounts(p)
    <2> DEFINE steps == reqs[t.req].steps
               ds == On(t.req, t.step) \cup {t.vote}
    <2>1. PICK out :
            /\ t \in DecideTx /\ TxFits(t, reqs)
            /\ out = Advance(steps, t.step, ds)
            /\ tx' = [tx EXCEPT ![p] =
                        [op |-> "counted", req |-> t.req, vote |-> t.vote, out |-> out]]
      BY <1>4, CountsFits
    <2>2. t.op = "decide" /\ UNCHANGED history BY <1>4 DEF DecideCounts
    <2>3. t.vote.req = t.req /\ t.vote.step = t.step BY <2>1, <2>2 DEF TxFits
    <2>4. ds = OnIn(decisions \cup {t.vote}, t.req, t.step) BY <2>3 DEF On, OnIn
    <2> DEFINE u == [op |-> "counted", req |-> t.req, vote |-> t.vote, out |-> out]
    <2>5. t.req \in Pending \ overlapped => t.step = reqs[t.req].cur
      BY <2>2, <2>3 DEF WaitInv, Current, Decides
    <2>6. t.req \in Pending \ overlapped => Current(u, reqs, decisions)
      BY <2>1, <2>3, <2>4, <2>5 DEF Current
    <2> QED BY <1>2, <2>1, <2>2, <2>6 DEF Decides, history
  <1>5. CASE DecideMarks(p)
    <2> DEFINE u == [op |-> "marked", req |-> t.req, vote |-> t.vote, status |-> t.out.status]
    <2>1. t.op = "counted" /\ tx' = [tx EXCEPT ![p] = u] /\ overlapped' = overlapped
      BY <1>5 DEF DecideMarks
    <2>2. t.req \in Pending \ overlapped => Current(u, reqs, decisions)
      BY <2>1 DEF WaitInv, Current, Decides
    <2> QED BY <1>2, <2>1, <2>2 DEF Decides
  <1>6. CASE DecideLooks(p)
    <2> DEFINE u == [op |-> "looked", req |-> t.req, vote |-> t.vote, status |-> t.status,
                     fresh |-> doc.status = "in_review" /\ doc.version = reqs[t.req].ver]
    <2>1. t.op = "marked" /\ tx' = [tx EXCEPT ![p] = u] /\ UNCHANGED history
      BY <1>6 DEF DecideLooks
    <2>2. t.req \in Pending \ overlapped => Current(u, reqs, decisions)
      BY <2>1 DEF WaitInv, Current, Decides
    <2> QED BY <1>2, <2>1, <2>2 DEF Decides, history
  <1> QED BY <1>3, <1>4, <1>5, <1>6

(* The current step is written: the next one waits, with no decision yet, or
   the same one, with one decision more. *)
LEMMA MovesWait ==
  ASSUME Fits, WaitInv, NEW p \in People, DecideMoves(p), tx[p].req \in Pending \ overlapped
  PROVE  Waits(tx[p].req, reqs', decisions')
  <1> DEFINE t == tx[p]
             r == t.req
             steps == reqs[r].steps
             cur == reqs[r].cur
             ds == OnIn(decisions \cup {t.vote}, r, cur)
  <1>1. /\ r \in DOMAIN reqs /\ VoteFits(t.vote, reqs) /\ t.vote.req = r
        /\ decisions' = decisions \cup {t.vote} /\ Lasts(reqs, reqs')
        /\ reqs'[r].cur = t.out.cur /\ t.op = "counted" /\ t.out.status = "pending"
    BY DecidedIs
  <1>2. t.vote.step = cur /\ t.out = Advance(steps, cur, ds) BY <1>1 DEF WaitInv, Current, Decides
  <1>3. steps \in Seq(RouteStep) /\ reqs'[r].steps = steps /\ cur \in Active(steps) /\ reqs[r] \in Request
    <2>1. reqs[r] \in Request BY <1>1 DEF Fits, RequestsFit
    <2>2. reqs'[r].steps = steps BY <1>1 DEF Lasts
    <2> QED BY <2>1, <2>2 DEF Fits, RequestsFit, Request
  <1>4. decisions \subseteq Vote /\ t.vote \in Vote BY <1>1 DEF Fits, VoteFits
  <1>5. \A d \in ds : d.decision \in Answers BY <1>4 DEF OnIn, Vote
  <1>6. Active(steps) \subseteq Nat BY <1>3, ActiveType
  <1>7. \A d \in decisions' : d.req = r => d.step <= cur
    BY <1>1, <1>2, <1>3, <1>6 DEF WaitInv, Waits
  <1> HIDE DEF ds, steps, cur, r
  <1>8. /\ \A d \in ds : d.decision = "approved"
        /\ t.out.cur \in Active(steps)
        /\ \/ t.out.cur = cur /\ ~StepSatisfied(steps[cur], ds)
           \/ t.out.cur > cur
    BY <1>1, <1>2, <1>3, <1>5, AdvanceIs
  <1>9. CASE t.out.cur = cur /\ ~StepSatisfied(steps[cur], ds)
    <2>1. OnIn(decisions', r, cur) = ds BY <1>1 DEF ds
    <2> QED BY <1>1, <1>3, <1>7, <1>8, <1>9, <2>1 DEF Waits, r
  <1>10. CASE t.out.cur > cur
    <2>1. cur \in Nat /\ t.out.cur \in Nat BY <1>3, <1>6, <1>8
    <2>2. ASSUME NEW d \in decisions', d.req = r PROVE d.step \in Nat /\ d.step # t.out.cur /\ d.step <= t.out.cur
      <3>1. d.step \in Nat /\ d.step <= cur BY <1>1, <1>4, <1>7, <2>2 DEF Vote
      <3> QED BY <1>10, <2>1, <3>1
    <2>3. OnIn(decisions', r, t.out.cur) = {} BY <2>2 DEF OnIn
    <2>4. ~StepSatisfied(steps[t.out.cur], {})
      <3>1. ~steps[t.out.cur].skipped /\ t.out.cur \in DOMAIN steps BY <1>8 DEF Active
      <3>2. StepFits(steps[t.out.cur], reqs[r].by) BY <1>1, <3>1 DEF Fits, RequestsFit, steps, r
      <3> QED BY <3>1, <3>2, NothingSatisfied
    <2> QED BY <1>1, <1>3, <2>2, <2>3, <2>4 DEF Waits, r
  <1> QED BY <1>8, <1>9, <1>10

(* A decision is written. *)
LEMMA DecidedWaits ==
  ASSUME Fits, WaitInv, NEW p \in People, DecideMoves(p) \/ DecideCommits(p)
  PROVE  WaitInv'
  <1> DEFINE t == tx[p]
  <1>1. /\ t.req \in DOMAIN reqs /\ t.vote.req = t.req
        /\ Lasts(reqs, reqs') /\ DOMAIN reqs' = DOMAIN reqs
        /\ decisions' = decisions \cup {t.vote} /\ UNCHANGED overlapped
        /\ \A o \in People : o # p => tx'[o] = tx[o]
        /\ tx'[p] = NoTx
        /\ \A r \in DOMAIN reqs : r # t.req => reqs'[r] = reqs[r]
        /\ DecideMoves(p) => t.op = "counted"
        /\ DecideCommits(p) => reqs'[t.req].status = t.status /\ t.op = "looked"
    BY DecidedIs
  <1>2. overlapped' = overlapped BY <1>1
  <1>3. ~Decides(tx'[p]) /\ Decides(t) BY <1>1 DEF Decides, NoTx
  <1>4. \A r \in DOMAIN reqs : r \in Pending' => r \in Pending BY <1>1 DEF Pending, Lasts
  <1>5. ASSUME NEW r \in DOMAIN reqs, r # t.req
        PROVE  /\ \A i : OnIn(decisions', r, i) = OnIn(decisions, r, i)
               /\ \A d \in decisions' : d.req = r => d \in decisions
    BY <1>1, <1>5 DEF OnIn
  <1>6. ASSUME NEW r \in Pending' \ overlapped' PROVE Waits(r, reqs', decisions')
    <2>1. r \in Pending \ overlapped /\ r \in DOMAIN reqs BY <1>1, <1>2, <1>4, <1>6 DEF Pending
    <2>2. CASE r # t.req
      <3>1. Waits(r, reqs, decisions) BY <2>1 DEF WaitInv
      <3>2. reqs'[r] = reqs[r] BY <1>1, <2>1, <2>2
      <3> QED BY <1>5, <2>1, <2>2, <3>1, <3>2 DEF Waits
    <2>3. CASE r = t.req /\ DecideMoves(p) BY <2>1, <2>3, MovesWait
    <2>4. CASE r = t.req /\ DecideCommits(p)
      <3>1. t \in LookedTx BY <1>1, <2>4, TxKinds DEF Fits, TransactionsFit
      <3>2. t.status # "pending" BY <3>1, ApprovalsAssumption DEF LookedTx, Ends
      <3>3. reqs'[r].status = "pending" BY <1>6 DEF Pending
      <3> QED BY <1>1, <2>4, <3>2, <3>3
    <2> QED BY <2>2, <2>3, <2>4
  <1>7. ASSUME NEW a \in People, NEW o \in People, a # o, Decides(tx'[a]), Decides(tx'[o]),
               tx'[a].req = tx'[o].req
        PROVE  tx'[a].req \in overlapped'
    BY <1>1, <1>2, <1>3, <1>7 DEF WaitInv
  <1>8. ASSUME NEW a \in People, Decides(tx'[a]), tx'[a].req \in Pending' \ overlapped'
        PROVE  Current(tx'[a], reqs', decisions')
    <2> DEFINE u == tx[a]
    <2>1. a # p /\ tx'[a] = u BY <1>1, <1>3, <1>8
    <2>2. TxFits(u, reqs) BY DEF Fits, TransactionsFit
    <2>3. u.req \in DOMAIN reqs /\ u.vote.req = u.req BY <1>8, <2>1, <2>2 DEF TxFits, VoteFits, Decides
    <2>4. u.req \in Pending \ overlapped BY <1>2, <1>4, <1>8, <2>1, <2>3
    <2>5. u.req # t.req BY <1>3, <1>8, <2>1, <2>4 DEF WaitInv
    <2>6. Current(u, reqs, decisions) BY <1>8, <2>1, <2>4 DEF WaitInv
    <2>7. reqs'[u.req] = reqs[u.req] BY <1>1, <2>3, <2>5
    <2>8. \A i : OnIn(decisions' \cup {u.vote}, u.req, i) = OnIn(decisions \cup {u.vote}, u.req, i)
      BY <1>1, <2>5 DEF OnIn
    <2> QED BY <2>1, <2>6, <2>7, <2>8 DEF Current
  <1> QED BY <1>6, <1>7, <1>8 DEF WaitInv, Decides

(* A step that decides nothing: a new request has no decisions. *)
LEMMA OtherWaits ==
  ASSUME Fits, Fits', WritersAre, WaitInv, NEW p \in People, OtherStep(p)
  PROVE  WaitInv'
  <1>1. /\ decisions' = decisions /\ UNCHANGED overlapped /\ Lasts(reqs, reqs')
        /\ \A o \in People : o # p => tx'[o] = tx[o]
        /\ tx'[p].op \notin {"decide", "counted", "marked", "looked"}
        /\ \A r \in DOMAIN reqs : reqs'[r].cur = reqs[r].cur
    BY OtherIs
  <1>2. overlapped' = overlapped BY <1>1
  <1>3. \A r \in DOMAIN reqs :
          /\ r \in Pending' => r \in Pending
          /\ reqs'[r].cur = reqs[r].cur /\ reqs'[r].steps = reqs[r].steps
    BY <1>1 DEF Pending, Lasts
  <1>4. ASSUME NEW r \in Pending' \ overlapped' PROVE Waits(r, reqs', decisions')
    <2>1. CASE r \in DOMAIN reqs
      <3>1. Waits(r, reqs, decisions) BY <1>2, <1>3, <1>4, <2>1 DEF WaitInv
      <3> QED BY <1>1, <1>3, <2>1, <3>1 DEF Waits
    <2>2. CASE r \notin DOMAIN reqs
      <3> DEFINE step == reqs'[r].steps[reqs'[r].cur]
      <3>1. r \in DOMAIN reqs' /\ reqs'[r].cur \in Active(reqs'[r].steps)
        BY <1>4 DEF Fits, RequestsFit, Pending
      <3>2. StepFits(step, reqs'[r].by) /\ ~step.skipped
        BY <3>1 DEF Fits, RequestsFit, Active
      <3>3. \A d \in decisions' : d.req # r BY <1>1, <2>2 DEF Fits, VoteFits
      <3>4. OnIn(decisions', r, reqs'[r].cur) = {} BY <3>3 DEF OnIn
      <3>5. ~StepSatisfied(step, {}) BY <3>2, NothingSatisfied
      <3> QED BY <3>3, <3>4, <3>5 DEF Waits
    <2> QED BY <2>1, <2>2
  <1>5. ASSUME NEW a \in People, Decides(tx'[a])
        PROVE  a # p /\ tx'[a] = tx[a] /\ tx[a].req \in DOMAIN reqs
    <2>1. a # p /\ tx'[a] = tx[a] BY <1>1, <1>5 DEF Decides
    <2>2. TxFits(tx[a], reqs) BY DEF Fits, TransactionsFit
    <2> QED BY <1>5, <2>1, <2>2 DEF TxFits, VoteFits, Decides
  <1>6. ASSUME NEW a \in People, NEW o \in People, a # o, Decides(tx'[a]), Decides(tx'[o]),
               tx'[a].req = tx'[o].req
        PROVE  tx'[a].req \in overlapped'
    BY <1>2, <1>5, <1>6 DEF WaitInv
  <1>7. ASSUME NEW a \in People, Decides(tx'[a]), tx'[a].req \in Pending' \ overlapped'
        PROVE  Current(tx'[a], reqs', decisions')
    <2>1. tx'[a] = tx[a] /\ tx[a].req \in Pending \ overlapped /\ tx[a].req \in DOMAIN reqs
      BY <1>2, <1>3, <1>5, <1>7
    <2>2. Current(tx[a], reqs, decisions) BY <1>7, <2>1 DEF WaitInv
    <2> QED BY <1>1, <1>3, <2>1, <2>2 DEF Current
  <1> QED BY <1>4, <1>6, <1>7 DEF WaitInv, Decides

(* Requests wait as they should, throughout. *)
LEMMA WaitInvariant == Spec => []WaitInv
  <1>1. Init => WaitInv BY DEF Init, WaitInv, Pending, Decides, NoTx
  <1>2. ASSUME Fits, Fits', WritersAre, WaitInv, [Next]_vars PROVE WaitInv'
    <2>1. CASE UNCHANGED vars
      BY <1>2, <2>1 DEF vars, data, history, WaitInv, Pending, Decides
    <2>2. CASE Next
      <3>1. PICK p \in People :
              \/ \E r \in DOMAIN reqs, a \in Answers : DecideReads(p, r, a)
              \/ DecideCounts(p) \/ DecideMarks(p) \/ DecideLooks(p)
              \/ DecideMoves(p) \/ DecideCommits(p)
              \/ OtherStep(p)
        BY <2>2, ApprovalSteps DEF OtherStep
      <3> QED BY <1>2, <3>1, DecideWaits, DecidedWaits, OtherWaits
    <2> QED BY <1>2, <2>1, <2>2
  <1> QED BY <1>1, <1>2, FitsInvariant, PTL DEF Spec

(* NoVoteLost for any people and workflows: unless two people decided on it at
   the same time, a pending request waits on a step that is not satisfied, and
   nobody has refused on it (decide, advance). *)
THEOREM NoVoteLostAlways == Spec => []NoVoteLost
  <1>1. ASSUME WaitInv PROVE NoVoteLost BY <1>1 DEF WaitInv, Waits, NoVoteLost, On, OnIn
  <1> QED BY <1>1, WaitInvariant, PTL

(* A seat that someone agreed for is not open. *)
LEMMA SeatTaken ==
  ASSUME NEW step, step.min = 1, NEW D \in SUBSET Vote, NEW r, NEW i, NEW d \in OnIn(D, r, i),
         d.decision = "approved"
  PROVE  d.rule \notin OpenRules(step, OnIn(D, r, i))
  <1> DEFINE S == {e \in Yes(OnIn(D, r, i)) : e.rule = d.rule}
             who == [e \in S |-> e.who]
  <1>1. d \in S BY DEF Yes
  <1>2. \A e \in S : /\ e \in Vote /\ e.req = r /\ e.step = i /\ e.rule = d.rule
                     /\ e.decision = "approved" /\ e.who \in People
    BY DEF Yes, OnIn, Vote
  <1>3. \A e, f \in S : e.who = f.who => e = f BY <1>2 DEF Vote
  <1>4. who \in Injection(S, People) BY <1>2, <1>3 DEF Injection, IsInjective
  <1> HIDE DEF S
  <1>5. IsFiniteSet(S) BY <1>4, FS_Injection, ApprovalsAssumption
  <1>6. Cardinality(S) \in Nat /\ Cardinality(S) # 0
    BY <1>1, <1>5, FS_CardinalityType, FS_EmptySet
  <1>7. ~(Cardinality(S) < step.min) BY <1>6
  <1> QED BY <1>7 DEF OpenRules, S

(* EveryoneCanFinish for any people and workflows: a request that waits on
   everyone has, for each open seat whose holder may decide, someone who still
   can (expandEveryone, approverEligibility, openRules). *)
THEOREM EveryoneCanFinishAlways == Spec => []EveryoneCanFinish
  <1>1. ASSUME Fits, WaitInv PROVE EveryoneCanFinish
    <2> DEFINE step(r) == reqs[r].steps[reqs[r].cur]
               ds(r) == On(r, reqs[r].cur)
    <2> SUFFICES ASSUME NEW r \in Pending \ overlapped, step(r).everyone,
                        NEW rule \in OpenRules(step(r), ds(r)),
                        rule.kind = "user", rule.of \in Deciders
                 PROVE  CanDecideNow(rule.of, r)
      BY DEF EveryoneCanFinish
    <2> DEFINE p == rule.of
               by == reqs[r].by
    <2>1. r \in DOMAIN reqs /\ reqs[r].cur \in Active(reqs[r].steps)
      BY <1>1 DEF Pending, Fits, RequestsFit
    <2>2. StepFits(step(r), by) /\ ~step(r).skipped BY <1>1, <2>1 DEF Fits, RequestsFit, Active
    <2>3. rule \in step(r).rules BY DEF OpenRules
    <2>4. /\ step(r).mode = "all" /\ step(r).min = 1 /\ p # by
          /\ \A other \in step(r).rules : other.kind = "user"
      BY <2>2, <2>3 DEF StepFits
    <2>5. \A other \in step(r).rules : Matches(other, p, by) => other = rule
      <3>1. step(r).rules \subseteq Rule BY <2>2 DEF StepFits, RouteStep
      <3>2. \A other \in step(r).rules : other \in [kind : {"user"}, of : People]
        BY <2>4, <3>1 DEF Rule
      <3>3. \A other \in step(r).rules : Matches(other, p, by) => other.of = p
        BY <2>4 DEF Matches
      <3> QED BY <2>3, <3>2, <3>3
    <2>6. Matches(rule, p, by) BY DEF Matches
    <2>7. Direct(step(r), p, by) = {rule} BY <2>3, <2>5, <2>6 DEF Direct
    <2>8. \A dels : Voices(step(r), p, by, dels) = {{rule}} BY <2>4, <2>7 DEF Voices
    <2>9. ASSUME NEW d \in ds(r) PROVE d.who # p
      <3>1. d \in decisions /\ d.req = r /\ d.step = reqs[r].cur BY <2>9 DEF On
      <3>2. VoteFits(d, reqs) BY <1>1, <3>1 DEF Fits
      <3>3. d.who = p => d.rule = rule BY <2>8, <3>1, <3>2 DEF VoteFits
      <3>4. decisions \in SUBSET Vote BY <1>1 DEF Fits, VoteFits
      <3>5. ds(r) = OnIn(decisions, r, reqs[r].cur) BY DEF On, OnIn
      <3>6. d.decision = "approved" BY <1>1, <2>9, <3>5 DEF WaitInv, Waits
      <3>7. d.rule \notin OpenRules(step(r), ds(r)) BY <2>4, <2>9, <3>4, <3>5, <3>6, SeatTaken
      <3> QED BY <3>3, <3>7
    <2>10. {rule} \cap OpenRules(step(r), ds(r)) # {} BY <2>3
    <2> QED BY <2>8, <2>9, <2>10 DEF CanDecideNow
  <1> QED BY <1>1, FitsInvariant, WaitInvariant, PTL

-----------------------------------------------------------------------------
(* What is approved is what was reviewed                                     *)

Marked(t) == t.op \in {"marked", "looked"}

(* The last decision on a request is written by one transaction at a time. *)
OneMarks ==
  \A p, o \in People : p # o /\ Marked(tx[p]) /\ Marked(tx[o]) => tx[p].req # tx[o].req

(* What is submitted is there, and so is what is approved or published. *)
Submitted ==
  /\ \A r \in DOMAIN reqs : vers[reqs[r].ver].there
  /\ \A v \in Versions : vers[v].approved \/ vers[v].published > 0 => vers[v].there

(* The version that an approved document stands at is approved, also for an
   author who has read it and is about to publish, or the approval of another
   version was written to it. *)
StandsApproved ==
  /\ doc.status = "approved" => vers[doc.version].approved \/ doc.version \in strayed
  /\ \A p \in People : tx[p].op = "publish" => vers[tx[p].at].approved \/ tx[p].at \in strayed
  /\ \A v \in Versions : vers[v].published > 0 => vers[v].approved \/ v \in strayed

(* A last decision in time holds its request, and so its document, until it is
   written. *)
HoldsRequest ==
  \A p \in People : Marked(tx[p]) /\ tx[p].req \notin overtaken =>
    /\ tx[p].req \in Pending
    /\ tx[p].op = "looked" /\ tx[p].fresh => doc.version = reqs[tx[p].req].ver

(* The text of version v is the one of the request that approved it. *)
AsReviewed(v, vs, rs, late, astray) ==
  LET r == vs[v].req IN
  /\ r \in DOMAIN rs
  /\ r \in late \/ v \in astray \/ (rs[r].status = "approved" /\ rs[r].body = vs[v].body)

(* The text under review is the one of the request. *)
UnderReview(r, vs, rs, astray) ==
  vs[rs[r].ver].approved \/ rs[r].ver \in astray \/ vs[rs[r].ver].body = rs[r].body

TextKept ==
  /\ \A r \in Pending : UnderReview(r, vers, reqs, strayed)
  /\ \A v \in Versions : vers[v].approved => AsReviewed(v, vers, reqs, overtaken, strayed)

ContentInv == OneMarks /\ Submitted /\ StandsApproved /\ HoldsRequest /\ TextKept

(* A version keeps what it was approved for. *)
VersionsLast(vs, ws) ==
  \A v \in Versions :
    /\ vs[v].there => ws[v].there
    /\ vs[v].approved => ws[v].approved /\ ws[v].req = vs[v].req /\ ws[v].body = vs[v].body
    /\ ws[v].approved => ws[v].there
    /\ ws[v].published > 0 =>
         ws[v].there /\ (ws[v].approved \/ vs[v].published > 0 \/ v \in strayed)

StepOf(p) ==
  \/ \E r \in DOMAIN reqs, a \in Answers : DecideReads(p, r, a)
  \/ DecideCounts(p) \/ DecideMarks(p) \/ DecideLooks(p)
  \/ DecideMoves(p) \/ DecideCommits(p) \/ OtherStep(p)

(* A transaction of p, and how far it may hold a request or publish. *)
LEMMA StepTx ==
  ASSUME Fits, WritersAre, NEW p \in People, StepOf(p)
  PROVE  /\ \A o \in People : o # p => tx'[o] = tx[o]
         /\ Marked(tx'[p]) => DecideMarks(p) \/ DecideLooks(p)
         /\ tx'[p].op = "publish" =>
              doc.status = "approved" /\ tx'[p].at = doc.version /\ UNCHANGED data
         /\ overtaken \subseteq overtaken' /\ strayed \subseteq strayed' /\ Lasts(reqs, reqs')
  <1>0. tx \in [People -> Transaction] BY DEF Fits, TransactionsFit
  <1>1. CASE \E r \in DOMAIN reqs, a \in Answers : DecideReads(p, r, a)
    <2>1. PICK r \in DOMAIN reqs, a \in Answers : DecideReads(p, r, a) BY <1>1
    <2>2. PICK t \in DecideTx : tx' = [tx EXCEPT ![p] = t] BY <2>1, ReadsFits
    <2>3. UNCHANGED data /\ UNCHANGED <<overtaken, strayed>> BY <2>1 DEF DecideReads
    <2> QED BY <1>0, <2>2, <2>3 DEF DecideTx, Marked, data, Lasts
  <1>2. CASE DecideCounts(p)
    BY <1>0, <1>2 DEF DecideCounts, Marked, data, history, Lasts
  <1>3. CASE DecideMarks(p)
    BY <1>0, <1>3 DEF DecideMarks, Marked, data, Late, Lasts
  <1>4. CASE DecideLooks(p)
    BY <1>0, <1>4 DEF DecideLooks, Marked, data, history, Lasts
  <1>5. CASE DecideMoves(p) \/ DecideCommits(p)
    <2>1. /\ Lasts(reqs, reqs') /\ UNCHANGED overtaken /\ strayed \subseteq strayed' /\ tx'[p] = NoTx
          /\ \A o \in People : o # p => tx'[o] = tx[o]
      BY <1>5, DecidedIs
    <2> QED BY <2>1 DEF Marked, NoTx
  <1>6. CASE OtherStep(p)
    <2>1. /\ UNCHANGED overtaken /\ strayed \subseteq strayed' /\ Lasts(reqs, reqs')
          /\ \A o \in People : o # p => tx'[o] = tx[o]
          /\ tx'[p].op \notin {"decide", "counted", "marked", "looked"}
      BY <1>6, OtherIs
    <2>2. ASSUME tx'[p].op = "publish"
          PROVE  doc.status = "approved" /\ tx'[p].at = doc.version /\ UNCHANGED data
      <3>1. CASE \E op \in {"edit", "submit", "back", "publish", "retire", "version"} : AuthorReads(p, op)
        <4>1. PICK op \in {"edit", "submit", "back", "publish", "retire", "version"} : AuthorReads(p, op)
          BY <3>1
        <4>2. tx'[p] = [op |-> op, at |-> doc.version, body |-> doc.body] BY <1>0, <4>1 DEF AuthorReads, Begin
        <4>3. op = "publish" BY <2>2, <4>2
        <4>4. doc.status \in MayDo("publish") /\ UNCHANGED data BY <4>1, <4>3 DEF AuthorReads
        <4> QED BY <4>2, <4>4 DEF MayDo
      <3>2. CASE End(p) BY <1>0, <2>2, <3>2 DEF End, NoTx
      <3>3. CASE SubmitNumbers(p) BY <1>0, <2>2, <3>3 DEF SubmitNumbers
      <3>4. CASE \E r \in DOMAIN reqs : Withdraw(p, r) BY <2>2, <3>4 DEF Withdraw, NoTx
      <3> QED
        BY <1>6, <3>1, <3>2, <3>3, <3>4
        DEF OtherStep, RollsBack, EditCommits, BackCommits, VersionCommits, PublishCommits,
            RetireCommits, SubmitCommits
    <2> QED BY <2>1, <2>2 DEF Marked
  <1> QED BY <1>1, <1>2, <1>3, <1>4, <1>5, <1>6 DEF StepOf

(* One transaction at a time: the request it marks is not marked by another. *)
LEMMA MarksStep ==
  ASSUME Fits, WritersAre, OneMarks, NEW p \in People, StepOf(p)
  PROVE  OneMarks'
  <1>0. tx \in [People -> Transaction] BY DEF Fits, TransactionsFit
  <1>1. /\ \A o \in People : o # p => tx'[o] = tx[o]
        /\ Marked(tx'[p]) => DecideMarks(p) \/ DecideLooks(p)
    BY StepTx
  <1>2. ASSUME Marked(tx'[p]), NEW o \in People, o # p, Marked(tx[o]) PROVE tx'[p].req # tx[o].req
    <2>1. CASE DecideMarks(p)
      <3>1. tx'[p].req = tx[p].req /\ ~Locked(tx[p].req) BY <1>0, <2>1 DEF DecideMarks
      <3> QED BY <1>2, <3>1 DEF Locked, Marked
    <2>2. CASE DecideLooks(p)
      <3>1. tx'[p].req = tx[p].req /\ Marked(tx[p]) BY <1>0, <2>2 DEF DecideLooks, Marked
      <3> QED BY <1>2, <3>1 DEF OneMarks
    <2> QED BY <1>1, <1>2, <2>1, <2>2
  <1>3. ASSUME NEW a \in People, NEW o \in People, a # o, Marked(tx'[a]), Marked(tx'[o])
        PROVE  tx'[a].req # tx'[o].req
    <2>1. CASE a = p BY <1>1, <1>2, <1>3, <2>1
    <2>2. CASE o = p BY <1>1, <1>2, <1>3, <2>2
    <2>3. CASE a # p /\ o # p BY <1>1, <1>3, <2>3 DEF OneMarks
    <2> QED BY <2>1, <2>2, <2>3
  <1> QED BY <1>3 DEF OneMarks, Marked

(* What an action has to show: the document stands at an approved version if it
   is approved, the requests that are held in time stay as they are, the texts
   under review stay, and what becomes approved is the text of its request. *)
LEMMA ContentStep ==
  ASSUME Fits, Fits', WritersAre, ContentInv, NEW p \in People, StepOf(p),
         VersionsLast(vers, vers'),
         \A r \in DOMAIN reqs' \ DOMAIN reqs : vers'[reqs'[r].ver].there,
         doc'.status = "approved" => vers'[doc'.version].approved \/ doc'.version \in strayed',
         \A o \in People : o # p /\ Marked(tx[o]) /\ tx[o].req \notin overtaken =>
           tx[o].req \in Pending' /\ doc'.version = doc.version,
         \A r \in Pending' : UnderReview(r, vers', reqs', strayed'),
         \A v \in Versions : vers'[v].approved /\ ~vers[v].approved =>
           AsReviewed(v, vers', reqs', overtaken', strayed'),
         \A r \in DOMAIN reqs :
           reqs[r].status = "approved" => reqs'[r].status = "approved" \/ r \in overtaken
  PROVE  ContentInv'
  <1>0. tx \in [People -> Transaction] BY DEF Fits, TransactionsFit
  <1>1. /\ \A o \in People : o # p => tx'[o] = tx[o]
        /\ Marked(tx'[p]) => DecideMarks(p) \/ DecideLooks(p)
        /\ tx'[p].op = "publish" =>
             doc.status = "approved" /\ tx'[p].at = doc.version /\ UNCHANGED data
        /\ overtaken \subseteq overtaken' /\ strayed \subseteq strayed' /\ Lasts(reqs, reqs')
    BY StepTx
  <1>2. OneMarks' BY MarksStep DEF ContentInv
  <1>3. \A r \in DOMAIN reqs : reqs[r].ver \in Versions /\ reqs'[r].ver = reqs[r].ver
                               /\ reqs'[r].body = reqs[r].body /\ r \in DOMAIN reqs'
    <2>1. \A r \in DOMAIN reqs : reqs[r] \in Request BY DEF Fits, RequestsFit
    <2>2. \A r \in DOMAIN reqs : reqs[r].ver \in Versions BY <2>1 DEF Request
    <2> QED BY <1>1, <2>2 DEF Lasts
  <1>4. Submitted'
    <2>1. \A r \in DOMAIN reqs' : vers'[reqs'[r].ver].there
      BY <1>3 DEF ContentInv, Submitted, VersionsLast
    <2> QED BY <2>1 DEF VersionsLast, Submitted
  <1>5. StandsApproved /\ HoldsRequest /\ TextKept BY DEF ContentInv
  <1>6. StandsApproved'
    <2>1. \A v \in Versions : vers'[v].published > 0 => vers'[v].approved \/ v \in strayed'
      BY <1>1, <1>5 DEF VersionsLast, StandsApproved
    <2>2. ASSUME NEW o \in People, tx'[o].op = "publish"
          PROVE  vers'[tx'[o].at].approved \/ tx'[o].at \in strayed'
      <3>1. CASE o = p
        BY <1>1, <1>5, <2>2, <3>1 DEF StandsApproved, data
      <3>2. CASE o # p
        <4>1. /\ tx'[o] = tx[o] /\ tx[o].at \in Versions
              /\ vers[tx[o].at].approved \/ tx[o].at \in strayed
          BY <1>1, <1>5, <2>2, <3>2, TxText DEF StandsApproved
        <4> QED BY <1>1, <4>1 DEF VersionsLast
      <3> QED BY <3>1, <3>2
    <2> QED BY <2>1, <2>2 DEF StandsApproved
  <1>7. HoldsRequest'
    <2>1. ASSUME NEW o \in People, Marked(tx'[o]), tx'[o].req \notin overtaken', o # p
          PROVE  /\ tx'[o].req \in Pending'
                 /\ tx'[o].op = "looked" /\ tx'[o].fresh => doc'.version = reqs'[tx'[o].req].ver
      <3>1. /\ tx'[o] = tx[o] /\ tx[o].req \notin overtaken
            /\ tx[o].req \in Pending' /\ doc'.version = doc.version
        BY <1>1, <2>1
      <3>2. tx[o].req \in DOMAIN reqs BY <1>5, <2>1, <3>1 DEF HoldsRequest, Pending
      <3> QED BY <1>3, <1>5, <2>1, <3>1, <3>2 DEF HoldsRequest
    <2>2. ASSUME Marked(tx'[p]), tx'[p].req \notin overtaken'
          PROVE  /\ tx'[p].req \in Pending'
                 /\ tx'[p].op = "looked" /\ tx'[p].fresh => doc'.version = reqs'[tx'[p].req].ver
      <3>1. CASE DecideMarks(p)
        <4>1. /\ tx'[p] = [op |-> "marked", req |-> tx[p].req, vote |-> tx[p].vote,
                           status |-> tx[p].out.status]
              /\ Late(tx[p].req) /\ UNCHANGED data
          BY <1>0, <3>1 DEF DecideMarks
        <4>2. tx[p].req \in Pending BY <2>2, <4>1 DEF Late
        <4> QED BY <4>1, <4>2 DEF data, Pending
      <3>2. CASE DecideLooks(p)
        <4>1. /\ tx'[p] = [op |-> "looked", req |-> tx[p].req, vote |-> tx[p].vote,
                           status |-> tx[p].status,
                           fresh |-> doc.status = "in_review" /\ doc.version = reqs[tx[p].req].ver]
              /\ UNCHANGED data /\ Marked(tx[p])
          BY <1>0, <3>2 DEF DecideLooks, Marked
        <4>2. tx'[p].req = tx[p].req BY <4>1
        <4>3. tx[p].req \in Pending BY <1>1, <1>5, <2>2, <4>1, <4>2 DEF HoldsRequest
        <4>4. tx'[p].fresh => doc.version = reqs[tx[p].req].ver
          <5> DEFINE f == doc.status = "in_review" /\ doc.version = reqs[tx[p].req].ver
          <5>1. PICK g : g = f OBVIOUS
          <5>2. tx'[p] = [op |-> "looked", req |-> tx[p].req, vote |-> tx[p].vote,
                          status |-> tx[p].status, fresh |-> g]
            BY <4>1, <5>1
          <5>3. tx'[p].fresh = g BY <5>2
          <5> QED BY <5>1, <5>3
        <4>5. doc' = doc /\ reqs' = reqs /\ Pending' = Pending BY <4>1 DEF data, Pending
        <4> QED BY <4>2, <4>3, <4>4, <4>5
      <3> QED BY <1>1, <2>2, <3>1, <3>2
    <2> QED BY <2>1, <2>2 DEF HoldsRequest, Marked
  <1>8. TextKept'
    <2>1. ASSUME NEW v \in Versions, vers'[v].approved
          PROVE  AsReviewed(v, vers', reqs', overtaken', strayed')
      <3>1. CASE vers[v].approved
        <4>1. vers'[v].req = vers[v].req /\ vers'[v].body = vers[v].body BY <3>1 DEF VersionsLast
        <4>2. AsReviewed(v, vers, reqs, overtaken, strayed) BY <1>5, <3>1 DEF TextKept
        <4> QED BY <1>1, <1>3, <4>1, <4>2 DEF AsReviewed
      <3>2. CASE ~vers[v].approved BY <2>1, <3>2
      <3> QED BY <3>1, <3>2
    <2> QED BY <2>1 DEF TextKept
  <1> QED BY <1>2, <1>4, <1>6, <1>7, <1>8 DEF ContentInv

(* Nothing is approved, published or submitted, and no request that is held ends. *)
LEMMA KeptContent ==
  ASSUME Fits, Fits', WritersAre, ContentInv, NEW p \in People, StepOf(p),
         \A v \in Versions :
           /\ vers'[v].there = vers[v].there /\ vers'[v].body = vers[v].body
           /\ vers'[v].approved = vers[v].approved /\ vers'[v].req = vers[v].req
           /\ vers'[v].published = vers[v].published,
         DOMAIN reqs' = DOMAIN reqs,
         \A r \in DOMAIN reqs : reqs[r].status = "approved" => reqs'[r].status = "approved",
         doc'.status = "approved" => doc.status = "approved" /\ doc'.version = doc.version,
         \A o \in People : o # p /\ Marked(tx[o]) /\ tx[o].req \in Pending =>
           tx[o].req \in Pending' /\ doc'.version = doc.version
  PROVE  ContentInv'
  <1>1. VersionsLast(vers, vers') BY DEF ContentInv, Submitted, VersionsLast
  <1>2. Lasts(reqs, reqs') /\ strayed \subseteq strayed' BY StepTx
  <1>3. doc.version \in Versions BY DEF Fits, Document
  <1>4. StandsApproved /\ HoldsRequest /\ TextKept BY DEF ContentInv
  <1>5. doc'.status = "approved" => vers'[doc'.version].approved \/ doc'.version \in strayed'
    BY <1>2, <1>3, <1>4 DEF StandsApproved
  <1>6. \A o \in People : o # p /\ Marked(tx[o]) /\ tx[o].req \notin overtaken =>
          tx[o].req \in Pending' /\ doc'.version = doc.version
    BY <1>4 DEF HoldsRequest
  <1>7. ASSUME NEW r \in Pending' PROVE UnderReview(r, vers', reqs', strayed')
    <2>1. r \in DOMAIN reqs /\ reqs'[r].status = "pending" BY <1>7 DEF Pending
    <2>2. /\ r \in Pending /\ reqs'[r].ver = reqs[r].ver /\ reqs'[r].body = reqs[r].body
      BY <1>2, <2>1 DEF Lasts, Pending
    <2>3. reqs[r] \in Request BY <2>1 DEF Fits, RequestsFit
    <2>4. reqs[r].ver \in Versions BY <2>3 DEF Request
    <2>5. UnderReview(r, vers, reqs, strayed) BY <1>4, <2>2 DEF TextKept
    <2> QED BY <1>2, <2>2, <2>4, <2>5 DEF UnderReview
  <1> QED BY <1>1, <1>5, <1>6, <1>7, ContentStep

(* A step that only reads, or ends a transaction without writing. *)
LEMMA LooksContent ==
  ASSUME Fits, Fits', WritersAre, ContentInv, NEW p \in People, StepOf(p), UNCHANGED data
  PROVE  ContentInv'
  <1>1. doc' = doc /\ vers' = vers /\ reqs' = reqs /\ Pending' = Pending BY DEF data, Pending
  <1> QED BY <1>1, KeptContent

(* Nothing that is pending is marked, or a single request that is not. *)
LEMMA EndsContent ==
  ASSUME Fits, Fits', WritersAre, ContentInv, NEW p \in People, StepOf(p),
         \/ DecideMoves(p) \/ \E r \in DOMAIN reqs : Withdraw(p, r)
         \/ EditCommits(p) \/ BackCommits(p) \/ VersionCommits(p) \/ RetireCommits(p)
  PROVE  ContentInv'
  <1>0. /\ RequestsFit /\ doc \in Document /\ vers \in [Versions -> Version]
        /\ \A r \in DOMAIN reqs : reqs[r] \in Request
    BY DEF Fits, RequestsFit, VersionsFit
  <1>1. CASE DecideMoves(p)
    <2>1. /\ DOMAIN reqs' = DOMAIN reqs /\ \A r \in DOMAIN reqs : reqs'[r].status = reqs[r].status
      <3>1. /\ DOMAIN reqs' = DOMAIN reqs /\ reqs'[tx[p].req].status = reqs[tx[p].req].status
            /\ \A r \in DOMAIN reqs : r # tx[p].req => reqs'[r] = reqs[r]
        BY <1>1, DecidedIs
      <3> QED BY <3>1
    <2>2. doc' = doc /\ vers' = vers BY <1>1 DEF DecideMoves
    <2>3. Pending' = Pending BY <2>1 DEF Pending
    <2> QED BY <2>1, <2>2, <2>3, KeptContent
  <1>2. CASE \E r \in DOMAIN reqs : Withdraw(p, r)
    <2>1. PICK r \in DOMAIN reqs : Withdraw(p, r) BY <1>2
    <2>2. /\ r \in Pending /\ ~Locked(r) /\ doc' = doc /\ vers' = vers
          /\ reqs' = [reqs EXCEPT ![r].status = "withdrawn"]
      BY <2>1 DEF Withdraw
    <2>3. /\ DOMAIN reqs' = DOMAIN reqs
          /\ \A q \in DOMAIN reqs : reqs'[q].status = IF q = r THEN "withdrawn" ELSE reqs[q].status
      BY <1>0, <2>2, StatusStep
    <2>4. \A o \in People : Marked(tx[o]) /\ tx[o].req \in Pending => tx[o].req \in Pending'
      BY <2>2, <2>3 DEF Locked, Marked, Pending
    <2>5. \A q \in DOMAIN reqs : reqs[q].status = "approved" => reqs'[q].status = "approved"
      BY <2>2, <2>3 DEF Pending
    <2> QED BY <2>2, <2>3, <2>4, <2>5, KeptContent
  <1>3. CASE EditCommits(p)
    <2>1. vers' = vers /\ reqs' = reqs /\ doc' = [doc EXCEPT !.body = text']
      BY <1>3 DEF EditCommits
    <2>2. doc'.status = doc.status /\ doc'.version = doc.version BY <1>0, <2>1 DEF Document
    <2>3. Pending' = Pending BY <2>1 DEF Pending
    <2> QED BY <2>1, <2>2, <2>3, KeptContent
  <1>4. CASE BackCommits(p) \/ VersionCommits(p)
    <2>1. /\ vers' = vers /\ reqs' = Withdrawn /\ doc'.status = "draft"
          /\ \A r \in Pending : ~Locked(r)
      BY <1>0, <1>4 DEF BackCommits, VersionCommits, Document
    <2>2. \A o \in People : ~(Marked(tx[o]) /\ tx[o].req \in Pending)
      BY <2>1 DEF Locked, Marked
    <2>3. /\ DOMAIN reqs' = DOMAIN reqs
          /\ \A q \in DOMAIN reqs : reqs[q].status = "approved" => reqs'[q].status = "approved"
      BY <2>1 DEF Withdrawn, Pending
    <2> QED BY <2>1, <2>2, <2>3, KeptContent
  <1>5. CASE RetireCommits(p)
    <2>1. /\ reqs' = reqs /\ doc' = [doc EXCEPT !.status = "retired"]
          /\ vers' = [v \in Versions |->
                        IF v \in InForce THEN [vers[v] EXCEPT !.retired = TRUE] ELSE vers[v]]
      BY <1>5 DEF RetireCommits
    <2>2. doc'.status = "retired" /\ doc'.version = doc.version BY <1>0, <2>1 DEF Document
    <2>3. ASSUME NEW v \in Versions
          PROVE  /\ vers'[v].there = vers[v].there /\ vers'[v].body = vers[v].body
                 /\ vers'[v].approved = vers[v].approved /\ vers'[v].req = vers[v].req
                 /\ vers'[v].published = vers[v].published
      <3>1. vers[v] \in Version BY <1>0
      <3>2. vers'[v] \in {vers[v], [vers[v] EXCEPT !.retired = TRUE]} BY <2>1
      <3> QED BY <3>1, <3>2 DEF Version
    <2>4. Pending' = Pending BY <2>1 DEF Pending
    <2> QED BY <2>1, <2>2, <2>3, <2>4, KeptContent
  <1> QED BY <1>1, <1>2, <1>3, <1>4, <1>5

(* markVersionApproved changes one version, and only one that is there and not
   approved. *)
LEMMA MarkApprovedIs ==
  ASSUME NEW vs \in [Versions -> Version], NEW v \in Versions, NEW r,
         NEW ws, ws = MarkApproved(vs, v, r)
  PROVE  /\ \A u \in Versions : u # v => ws[u] = vs[u]
         /\ vs[v].approved => ws[v] = vs[v]
         /\ vs[v].there => ws[v].approved
         /\ vs[v].there /\ ~vs[v].approved => ws[v].req = r
         /\ ws[v].there = vs[v].there /\ ws[v].body = vs[v].body
         /\ ws[v].published = vs[v].published
         /\ ws[v].approved => vs[v].there \/ vs[v].approved
  <1> DEFINE w == [vs[v] EXCEPT !.approved = TRUE, !.req = r]
  <1>1. vs[v] \in Version OBVIOUS
  <1>2. /\ w.approved = TRUE /\ w.req = r /\ w.there = vs[v].there /\ w.body = vs[v].body
        /\ w.published = vs[v].published
    BY <1>1 DEF Version
  <1>3. [vs EXCEPT ![v].approved = TRUE, ![v].req = r] = [vs EXCEPT ![v] = w] BY <1>1 DEF w
  <1> HIDE DEF w
  <1>4. ws = IF vs[v].there /\ ~vs[v].approved THEN [vs EXCEPT ![v] = w] ELSE vs
    BY <1>3 DEF MarkApproved
  <1>5. \A u \in Versions : [vs EXCEPT ![v] = w][u] = IF u = v THEN w ELSE vs[u] OBVIOUS
  <1> QED BY <1>2, <1>4, <1>5

(* The outcome of the last decision is applied: the version of the request, in
   its text, becomes approved, and no other. *)
LEMMA CommitContent ==
  ASSUME Fits, Fits', WritersAre, ContentInv, NEW p \in People, StepOf(p), DecideCommits(p)
  PROVE  ContentInv'
  <1> DEFINE t == tx[p]
             r == t.req
             v == reqs[r].ver
             ws == MarkApproved(vers, v, r)
             ok == t.fresh /\ t.status = "approved"
  <1>1. /\ r \in DOMAIN reqs /\ DOMAIN reqs' = DOMAIN reqs /\ Lasts(reqs, reqs')
        /\ \A q \in DOMAIN reqs : q # r => reqs'[q] = reqs[q]
        /\ reqs'[r].status = t.status /\ t.op = "looked"
    BY DecidedIs
  <1>2. vers \in [Versions -> Version] /\ doc \in Document /\ reqs[r] \in Request
    BY <1>1 DEF Fits, VersionsFit, RequestsFit
  <1>3. v \in Versions BY <1>2 DEF Request
  <1>4. /\ doc' = IF t.fresh THEN [doc EXCEPT !.status = IF t.status = "approved" THEN "approved"
                                                         ELSE "draft"]
                  ELSE doc
        /\ vers' = IF ok THEN ws ELSE vers
    BY DEF DecideCommits
  <1>5. vers[v].there BY <1>1 DEF ContentInv, Submitted
  <1>6. /\ \A u \in Versions : u # v => ws[u] = vers[u]
        /\ vers[v].approved => ws[v] = vers[v]
        /\ ws[v].approved
        /\ ~vers[v].approved => ws[v].req = r
        /\ ws[v].there = vers[v].there /\ ws[v].body = vers[v].body
        /\ ws[v].published = vers[v].published
    <2> HIDE DEF v, r
    <2>1. vers \in [Versions -> Version] /\ v \in Versions /\ vers[v].there BY <1>2, <1>3, <1>5
    <2>2. PICK n, q : n = v /\ q = r OBVIOUS
    <2>3. PICK xs : xs = MarkApproved(vers, n, q) OBVIOUS
    <2>4. ws = xs BY <2>2, <2>3
    <2>5. /\ \A u \in Versions : u # n => xs[u] = vers[u]
          /\ vers[n].approved => xs[n] = vers[n]
          /\ vers[n].there => xs[n].approved
          /\ vers[n].there /\ ~vers[n].approved => xs[n].req = q
          /\ xs[n].there = vers[n].there /\ xs[n].body = vers[n].body
          /\ xs[n].published = vers[n].published
      BY <2>1, <2>2, <2>3, MarkApprovedIs
    <2> HIDE DEF ws
    <2> QED BY <2>1, <2>2, <2>4, <2>5
  <1> HIDE DEF ws
  <1>7. VersionsLast(vers, vers')
    <2>1. \A u \in Versions : vers[u].approved \/ vers[u].published > 0 => vers[u].there
      BY DEF ContentInv, Submitted
    <2>2. CASE ok BY <1>3, <1>4, <1>5, <1>6, <2>1, <2>2 DEF VersionsLast
    <2>3. CASE ~ok BY <1>4, <2>1, <2>3 DEF VersionsLast
    <2> QED BY <2>2, <2>3
  <1>8. doc'.version = doc.version
        /\ (doc'.status = "approved" => (doc.status = "approved" /\ ~t.fresh) \/ ok)
    <2>1. CASE t.fresh BY <1>2, <1>4, <2>1 DEF Document
    <2>2. CASE ~t.fresh BY <1>2, <1>4, <2>2 DEF Document
    <2> QED BY <2>1, <2>2
  <1>9. /\ StandsApproved /\ HoldsRequest /\ TextKept /\ Marked(t)
        /\ strayed \subseteq strayed' /\ overtaken' = overtaken
    BY <1>1, DecidedIs DEF ContentInv, Marked
  <1>10. r \notin overtaken => r \in Pending /\ (t.fresh => doc.version = v)
    BY <1>1, <1>9 DEF HoldsRequest
  <1>11. strayed' = IF ok /\ r \in overtaken /\ doc.version # v THEN strayed \cup {doc.version} ELSE strayed
    BY DEF DecideCommits, Strays
  <1>12. doc'.status = "approved" => vers'[doc'.version].approved \/ doc'.version \in strayed'
    <2>1. CASE ok
      <3>1. doc.version = v \/ doc.version \in strayed' BY <1>10, <1>11, <2>1
      <3> QED BY <1>4, <1>6, <1>8, <2>1, <3>1
    <2>2. CASE ~ok BY <1>4, <1>8, <1>9, <2>2 DEF StandsApproved
    <2> QED BY <2>1, <2>2
  <1>13. ASSUME NEW o \in People, o # p, Marked(tx[o]), tx[o].req \notin overtaken
         PROVE  tx[o].req \in Pending' /\ doc'.version = doc.version
    <2>1. tx[o].req # r BY <1>9, <1>13 DEF ContentInv, OneMarks
    <2>2. tx[o].req \in Pending BY <1>9, <1>13 DEF HoldsRequest
    <2> QED BY <1>1, <1>8, <2>1, <2>2 DEF Pending
  <1>14. ASSUME NEW q \in Pending' PROVE UnderReview(q, vers', reqs', strayed')
    <2>1. /\ q \in DOMAIN reqs /\ q \in Pending
          /\ reqs'[q].ver = reqs[q].ver /\ reqs'[q].body = reqs[q].body
      BY <1>1, <1>14 DEF Lasts, Pending
    <2>2. reqs[q] \in Request BY <2>1 DEF Fits, RequestsFit
    <2>3. reqs[q].ver \in Versions BY <2>2 DEF Request
    <2>4. UnderReview(q, vers, reqs, strayed) BY <1>9, <2>1 DEF TextKept
    <2> HIDE DEF v, r, ok
    <2> QED BY <1>4, <1>6, <1>9, <2>1, <2>3, <2>4 DEF UnderReview
  <1>15. ASSUME NEW u \in Versions, vers'[u].approved, ~vers[u].approved
         PROVE  AsReviewed(u, vers', reqs', overtaken', strayed')
    <2>1. u = v /\ ok /\ vers' = ws BY <1>4, <1>6, <1>15
    <2>2. vers'[u].req = r /\ vers'[u].body = vers[v].body BY <1>6, <1>15, <2>1
    <2>3. reqs'[r].body = reqs[r].body /\ reqs'[r].status = "approved" /\ r \in DOMAIN reqs'
      BY <1>1, <2>1 DEF Lasts
    <2>4. CASE r \in overtaken BY <1>9, <2>2, <2>3, <2>4 DEF AsReviewed
    <2>5. CASE r \notin overtaken
      <3>1. UnderReview(r, vers, reqs, strayed) BY <1>9, <1>10, <2>5 DEF TextKept
      <3>2. v \in strayed \/ vers[v].body = reqs[r].body BY <1>15, <2>1, <3>1 DEF UnderReview
      <3> QED BY <1>9, <2>1, <2>2, <2>3, <3>2 DEF AsReviewed
    <2> QED BY <2>4, <2>5
  <1>16. \A q \in DOMAIN reqs :
           reqs[q].status = "approved" => reqs'[q].status = "approved" \/ q \in overtaken
    BY <1>1, <1>10 DEF Pending
  <1> HIDE DEF v, r, ok, t
  <1> QED BY <1>1, <1>7, <1>12, <1>13, <1>14, <1>15, <1>16, ContentStep

(* What an author read as approved comes into force. *)
LEMMA PublishContent ==
  ASSUME Fits, Fits', WritersAre, ContentInv, NEW p \in People, StepOf(p), PublishCommits(p)
  PROVE  ContentInv'
  <1> DEFINE t == tx[p]
             w == [vers[t.at] EXCEPT !.published = LastPublished + 1]
  <1>1. /\ t.op = "publish" /\ doc' = [doc EXCEPT !.status = "published"] /\ reqs' = reqs
        /\ vers' = IF vers[t.at].there /\ vers[t.at].published = 0
                   THEN [vers EXCEPT ![t.at].published = LastPublished + 1] ELSE vers
    BY DEF PublishCommits
  <1>2. t.at \in Versions /\ vers \in [Versions -> Version] /\ doc \in Document
    BY <1>1, TxText DEF Fits, VersionsFit
  <1>3. doc'.status = "published" /\ doc'.version = doc.version /\ Pending' = Pending
    BY <1>1, <1>2 DEF Document, Pending
  <1>4. /\ w.there = vers[t.at].there /\ w.body = vers[t.at].body
        /\ w.approved = vers[t.at].approved /\ w.req = vers[t.at].req
    <2>1. vers[t.at] \in Version BY <1>2
    <2> QED BY <2>1 DEF Version
  <1>5. [vers EXCEPT ![t.at].published = LastPublished + 1] = [vers EXCEPT ![t.at] = w] OBVIOUS
  <1> HIDE DEF w
  <1>6. \A u \in Versions :
          /\ vers'[u].there = vers[u].there /\ vers'[u].body = vers[u].body
          /\ vers'[u].approved = vers[u].approved /\ vers'[u].req = vers[u].req
          /\ vers'[u].published = vers[u].published \/ (u = t.at /\ vers[u].there)
    BY <1>1, <1>2, <1>4, <1>5
  <1>7. StandsApproved /\ HoldsRequest /\ TextKept /\ strayed \subseteq strayed'
    BY StepTx DEF ContentInv
  <1>8. vers[t.at].approved \/ t.at \in strayed BY <1>1, <1>7 DEF StandsApproved
  <1>9. VersionsLast(vers, vers') BY <1>6, <1>8 DEF ContentInv, Submitted, VersionsLast
  <1>10. \A o \in People : Marked(tx[o]) /\ tx[o].req \notin overtaken => tx[o].req \in Pending'
    BY <1>3, <1>7 DEF HoldsRequest
  <1>11. ASSUME NEW r \in Pending' PROVE UnderReview(r, vers', reqs', strayed')
    <2>1. r \in Pending /\ r \in DOMAIN reqs BY <1>3, <1>11 DEF Pending
    <2>2. reqs[r] \in Request BY <2>1 DEF Fits, RequestsFit
    <2>3. reqs[r].ver \in Versions BY <2>2 DEF Request
    <2>4. UnderReview(r, vers, reqs, strayed) BY <1>7, <2>1 DEF TextKept
    <2> QED BY <1>1, <1>6, <1>7, <2>3, <2>4 DEF UnderReview
  <1> QED BY <1>1, <1>3, <1>6, <1>9, <1>10, <1>11, ContentStep

(* The snapshot of a submission, and the mark if nobody has to decide: one
   version changes, and it keeps its text if it was approved or published. *)
Submits(ws, t, v, n, status) ==
  /\ \A u \in Versions : u # v => ws[u] = vers[u]
  /\ ws[v].there /\ ws[v].published = vers[v].published
  /\ vers[v].approved => ws[v].approved /\ ws[v].req = vers[v].req
  /\ vers[v].approved \/ vers[v].published > 0 => ws[v].body = vers[v].body
  /\ ~(vers[v].approved \/ vers[v].published > 0) => ws[v].body = t.body
  /\ status = "approved" => ws[v].approved /\ (~vers[v].approved => ws[v].req = n)
  /\ status # "approved" => ws[v].approved = vers[v].approved

(* That is what snapshotForReview and markVersionApproved do. *)
LEMMA SubmittedIs ==
  ASSUME VersionsFit(vers), NEW t \in NumberedTx, NEW n, NEW v, v = t.ver, NEW at, NEW status,
         at = IF status = "approved" THEN MarkApproved(Snapshot(t), v, n) ELSE Snapshot(t),
         vers[v].approved \/ vers[v].published > 0 => vers[v].there
  PROVE  Submits(at, t, v, n, status)
  <1> DEFINE old == vers[v].approved \/ vers[v].published > 0
             new == [vers[v] EXCEPT !.there = TRUE, !.body = t.body]
  <1>1. v \in Versions /\ vers \in [Versions -> Version] /\ vers[v] \in Version
    BY DEF NumberedTx, VersionsFit
  <1>2. /\ new.there = TRUE /\ new.body = t.body /\ new.approved = vers[v].approved
        /\ new.published = vers[v].published /\ new.req = vers[v].req
    BY <1>1 DEF Version
  <1>3. Snapshot(t) = IF old THEN vers ELSE [vers EXCEPT ![v] = new]
    <2>1. [vers EXCEPT ![v].there = TRUE, ![v].body = t.body] = [vers EXCEPT ![v] = new] BY <1>1
    <2> QED BY <2>1 DEF Snapshot
  <1> HIDE DEF new
  <1>4. PICK ss : ss = Snapshot(t) OBVIOUS
  <1>5. /\ \A u \in Versions : u # v => ss[u] = vers[u]
        /\ old => ss[v] = vers[v]
        /\ ~old => ss[v] = new
    BY <1>1, <1>3, <1>4
  <1>6. ss \in [Versions -> Version] BY <1>4, SnapshotFits DEF VersionsFit
  <1>7. ss[v].there /\ ss[v].approved = vers[v].approved /\ ss[v].published = vers[v].published
        /\ ss[v].req = vers[v].req /\ ss[v].body = IF old THEN vers[v].body ELSE t.body
    <2>1. CASE old BY <1>5, <2>1
    <2>2. CASE ~old BY <1>2, <1>5, <2>2
    <2> QED BY <2>1, <2>2
  <1>8. CASE status = "approved"
    <2>1. at = MarkApproved(ss, v, n) BY <1>4, <1>8
    <2>2. /\ \A u \in Versions : u # v => at[u] = ss[u]
          /\ ss[v].approved => at[v] = ss[v]
          /\ ss[v].there => at[v].approved
          /\ ss[v].there /\ ~ss[v].approved => at[v].req = n
          /\ at[v].there = ss[v].there /\ at[v].body = ss[v].body
          /\ at[v].published = ss[v].published
      BY <1>1, <1>6, <2>1, MarkApprovedIs
    <2> QED BY <1>5, <1>7, <1>8, <2>2 DEF Submits
  <1>9. CASE status # "approved" BY <1>4, <1>5, <1>7, <1>9 DEF Submits
  <1> QED BY <1>8, <1>9

(* The text becomes the version of the new request, the only one that is
   pending now, unless that version is approved or published already. *)
LEMMA SubmitContent ==
  ASSUME Fits, Fits', WritersAre, ContentInv, NEW p \in People, StepOf(p),
         NEW w \in Workflows, SubmitCommits(p, w)
  PROVE  ContentInv'
  <1> DEFINE t == tx[p]
             steps == Route(w, p)
             req == NewRequest(p, t, steps)
             n == Len(reqs')
             v == t.ver
             ok == req.status = "approved"
             old == vers[v].approved \/ vers[v].published > 0
  <1>1. t.op = "numbered" /\ decisions' = decisions /\ text' = text /\ \A r \in Pending : ~Locked(r)
    BY DEF SubmitCommits
  <1>2. CASE UNCHANGED <<doc, vers, reqs>> BY <1>1, <1>2, LooksContent DEF data
  <1>3. CASE ~UNCHANGED <<doc, vers, reqs>>
    <2>1. /\ Len(reqs) < MaxRequests /\ reqs' = Append(Withdrawn, req)
          /\ doc' = [doc EXCEPT !.status = IF req.status = "approved" THEN "approved" ELSE "in_review",
                                !.version = IF t.ver = t.at THEN @ ELSE t.ver]
          /\ vers' = IF req.status = "approved" THEN MarkApproved(Snapshot(t), t.ver, n)
                     ELSE Snapshot(t)
          /\ Strays(req.status = "approved" /\ doc'.version # t.ver, doc'.version)
      BY <1>3, Zenon DEF SubmitCommits
    <2>2. p \in Authors BY <1>1 DEF WritersAre
    <2>3. t \in NumberedTx /\ VersionsFit(vers) /\ vers \in [Versions -> Version]
      BY <1>1, TxKinds DEF Fits, TransactionsFit, VersionsFit
    <2>4. /\ req \in Request /\ req.by = p /\ req.ver = t.ver /\ req.body = t.body /\ req.steps = steps
          /\ req.status \in {"approved", "pending"}
          /\ req.status = "pending" => req.cur \in Active(steps)
          /\ \A i \in DOMAIN steps : StepFits(steps[i], p)
      BY <2>2, <2>3, NewRequestFits
    <2> HIDE DEF steps, req
    <2>5. /\ DOMAIN reqs' = DOMAIN reqs \cup {n} /\ reqs'[n] = req
          /\ \A r \in DOMAIN reqs : reqs'[r] = Withdrawn[r]
      BY <2>1, <2>4, AddedFits DEF Fits
    <2>6. /\ ok <=> doc'.status = "approved"
          /\ strayed' = IF ok /\ doc'.version # v THEN strayed \cup {doc'.version} ELSE strayed
      <3>1. doc \in Document BY DEF Fits
      <3> QED BY <2>1, <3>1 DEF Document, Strays
    <2>7. \A u \in Versions : vers[u].approved \/ vers[u].published > 0 => vers[u].there
      BY DEF ContentInv, Submitted
    <2>8. v \in Versions BY <2>3 DEF NumberedTx
    <2>9. /\ \A u \in Versions : u # v => vers'[u] = vers[u]
          /\ vers'[v].there /\ vers'[v].published = vers[v].published
          /\ vers[v].approved => vers'[v].approved /\ vers'[v].req = vers[v].req
          /\ old => vers'[v].body = vers[v].body
          /\ ~old => vers'[v].body = t.body
          /\ ok => vers'[v].approved /\ (~vers[v].approved => vers'[v].req = n)
          /\ ~ok => vers'[v].approved = vers[v].approved
      <3>1. PICK xs, a : xs = vers' /\ a = req.status OBVIOUS
      <3>2. xs = IF a = "approved" THEN MarkApproved(Snapshot(t), v, n) ELSE Snapshot(t)
        BY <2>1, <3>1
      <3>3. vers[v].approved \/ vers[v].published > 0 => vers[v].there BY <2>7, <2>8
      <3>4. PICK nn, vv, tt : nn = n /\ vv = v /\ tt = t OBVIOUS
      <3> HIDE DEF t, v, n, ok, old
      <3>5. tt \in NumberedTx /\ vv = tt.ver BY <2>3, <3>4 DEF v
      <3>6. /\ xs = IF a = "approved" THEN MarkApproved(Snapshot(tt), vv, nn) ELSE Snapshot(tt)
            /\ vers[vv].approved \/ vers[vv].published > 0 => vers[vv].there
        BY <3>2, <3>3, <3>4
      <3>7. Submits(xs, tt, vv, nn, a) BY <2>3, <3>5, <3>6, SubmittedIs
      <3>8. Submits(vers', t, v, n, req.status) BY <3>1, <3>4, <3>7
      <3> QED BY <3>8 DEF Submits, old, ok
    <2>10. VersionsLast(vers, vers') BY <2>7, <2>8, <2>9 DEF VersionsLast
    <2>11. \A r \in DOMAIN reqs :
             /\ reqs'[r].status # "pending"
             /\ reqs[r].status = "approved" => reqs'[r].status = "approved"
      BY <2>5, WithdrawnIs DEF Fits, Pending
    <2>12. StandsApproved /\ HoldsRequest BY DEF ContentInv
    <2>13. \A o \in People : ~(Marked(tx[o]) /\ tx[o].req \notin overtaken)
      BY <1>1, <2>12 DEF HoldsRequest, Locked, Marked
    <2>14. \A r \in DOMAIN reqs' \ DOMAIN reqs : vers'[reqs'[r].ver].there
      BY <2>4, <2>5, <2>9
    <2>15. doc'.status = "approved" => vers'[doc'.version].approved \/ doc'.version \in strayed'
      BY <2>6, <2>9
    <2>16. old => vers[v].approved \/ v \in strayed BY <2>8, <2>12 DEF StandsApproved
    <2>17. strayed \subseteq strayed' BY <2>6
    <2> HIDE DEF v, old, ok, t, n
    <2>18. ASSUME NEW r \in Pending' PROVE UnderReview(r, vers', reqs', strayed')
      <3>1. r = n /\ reqs'[r] = req BY <2>5, <2>11, <1>3, <2>18 DEF Pending
      <3>2. reqs'[r].ver = v /\ reqs'[r].body = t.body BY <2>4, <3>1 DEF v
      <3> QED BY <2>9, <2>16, <2>17, <3>2 DEF UnderReview
    <2>19. ASSUME NEW u \in Versions, vers'[u].approved, ~vers[u].approved
           PROVE  AsReviewed(u, vers', reqs', overtaken', strayed')
      <3>1. u = v /\ ok /\ vers'[u].req = n BY <2>9, <2>19
      <3>2. n \in DOMAIN reqs' /\ reqs'[n].status = "approved" /\ reqs'[n].body = t.body
        BY <2>4, <2>5, <3>1 DEF ok
      <3>3. u \in strayed' \/ vers'[u].body = t.body BY <2>9, <2>16, <2>17, <2>19, <3>1
      <3> QED BY <3>1, <3>2, <3>3 DEF AsReviewed
    <2> QED BY <2>10, <2>11, <2>13, <2>14, <2>15, <2>18, <2>19, ContentStep
  <1> QED BY <1>2, <1>3

(* The texts that people decided on are the ones that become approved, and the
   ones that come into force, throughout. *)
LEMMA ContentInvariant == Spec => []ContentInv
  <1>1. Init => ContentInv
    BY DEF Init, ContentInv, OneMarks, Submitted, StandsApproved, HoldsRequest, TextKept, Pending,
           Marked, NoTx
  <1>2. ASSUME Fits, Fits', WritersAre, ContentInv, [Next]_vars PROVE ContentInv'
    <2>1. CASE UNCHANGED vars
      BY <1>2, <2>1 DEF vars, data, history, ContentInv, OneMarks, Submitted, StandsApproved,
                        HoldsRequest, TextKept, Pending, Marked
    <2>2. CASE Next
      <3>1. PICK p \in People : StepOf(p) BY <2>2, ApprovalSteps DEF StepOf, OtherStep
      <3>2. CASE DecideCommits(p) BY <1>2, <3>1, <3>2, CommitContent
      <3>3. CASE PublishCommits(p) BY <1>2, <3>1, <3>3, PublishContent
      <3>4. CASE \E w \in Workflows : SubmitCommits(p, w) BY <1>2, <3>1, <3>4, SubmitContent
      <3>5. CASE \/ DecideMoves(p) \/ \E r \in DOMAIN reqs : Withdraw(p, r)
                 \/ EditCommits(p) \/ BackCommits(p) \/ VersionCommits(p) \/ RetireCommits(p)
        BY <1>2, <3>1, <3>5, EndsContent
      <3>6. CASE UNCHANGED data BY <1>2, <3>1, <3>6, LooksContent
      <3> QED
        BY <3>1, <3>2, <3>3, <3>4, <3>5, <3>6
        DEF StepOf, OtherStep, DecideReads, DecideCounts, DecideMarks, DecideLooks, AuthorReads,
            SubmitNumbers, RollsBack
    <2> QED BY <1>2, <2>1, <2>2
  <1> QED BY <1>1, <1>2, FitsInvariant, PTL DEF Spec

(* PublishedIsApproved for any people, any number of authors, deciders and
   transactions and any workflows, those that leave nothing to decide too: a
   version that comes into force is approved, unless the approval of another
   version was written to the document while it stood at this one, too late or
   by a submission that was approved at once (transitionDocument,
   applyApprovalOutcome, requestApproval). *)
THEOREM PublishedIsApprovedAlways == Spec => []PublishedIsApproved
  <1>1. ContentInv => PublishedIsApproved BY DEF ContentInv, StandsApproved, PublishedIsApproved
  <1> QED BY <1>1, ContentInvariant, PTL

(* ReviewedContent, as generally: an approved version holds the text its request
   was made for, and that request ended approved.  Late decisions on other
   requests do not matter; the only versions left out are those that are
   approved by a request which was decided after it had ended, or that came into
   force astray (applyApprovalOutcome, snapshotForReview, requestApproval). *)
THEOREM ReviewedContentAlways == Spec => []ReviewedContent
  <1>1. ContentInv => ReviewedContent BY DEF ContentInv, TextKept, AsReviewed, ReviewedContent
  <1> QED BY <1>1, ContentInvariant, PTL
=============================================================================
