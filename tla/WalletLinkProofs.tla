-------------------------- MODULE WalletLinkProofs --------------------------
(***************************************************************************)
(* What holds of the link between both.money and klick for every number of *)
(* links, versions, tokens, failures and every size of a batch: the types, *)
(* that no cursor passes an event klick does not have, that klick takes    *)
(* events in order, and that a link misses nothing from its backfill on.   *)
(***************************************************************************)
EXTENDS WalletLink, SumLemmas, SequenceTheorems

-----------------------------------------------------------------------------
(* Numbers and sequences                                                    *)

(* The smallest of some numbers. *)
LEMMA MinIs ==
  ASSUME NEW S \in SUBSET Nat, S # {}
  PROVE  Min(S) \in S /\ \A n \in S : Min(S) <= n
  <1>1. \E n \in S : \A m \in S : n <= m BY LeastNumber
  <1> QED BY <1>1 DEF Min

(* The greatest of some numbers up to a bound. *)
LEMMA MaxIs ==
  ASSUME NEW b \in Nat, NEW S \in SUBSET (0..b), S # {}
  PROVE  Max(S) \in S /\ \A n \in S : n <= Max(S)
  <1> DEFINE T == {n \in Nat : n <= b /\ b - n \in S}
  <1>1. T \in SUBSET Nat /\ T # {}
    <2>1. PICK x \in S : TRUE OBVIOUS
    <2>2. b - x \in Nat /\ b - x <= b /\ b - (b - x) = x BY <2>1
    <2>3. b - x \in T BY <2>1, <2>2
    <2> QED BY <2>3
  <1>2. PICK t \in T : \A u \in T : t <= u
    <2> HIDE DEF T
    <2> QED BY <1>1, LeastNumber
  <1>3. b - t \in S BY <1>2
  <1>4. ASSUME NEW n \in S PROVE n <= b - t
    <2>1. n \in Nat /\ n <= b /\ b - n \in Nat /\ b - n <= b /\ b - (b - n) = n OBVIOUS
    <2>2. b - n \in T BY <2>1
    <2>3. t <= b - n BY <1>2, <2>2
    <2> QED BY <2>1, <2>3
  <1> QED BY <1>3, <1>4 DEF Max

(* A batch that ended is gone, the others stay in order. *)
LEMMA RemoveAtIs ==
  ASSUME NEW S, NEW s \in Seq(S), NEW i \in DOMAIN s
  PROVE  /\ RemoveAt(s, i) \in Seq(S)
         /\ \A j \in DOMAIN RemoveAt(s, i) :
              /\ (IF j < i THEN j ELSE j + 1) \in DOMAIN s \ {i}
              /\ RemoveAt(s, i)[j] = s[IF j < i THEN j ELSE j + 1]
  <1> DEFINE a == SubSeq(s, 1, i - 1)
             b == SubSeq(s, i + 1, Len(s))
             c == a \o b
  <1>0. Len(s) \in Nat /\ DOMAIN s = 1..Len(s) /\ \A j \in 1..Len(s) : s[j] \in S
    BY LenProperties
  <1>i. i \in Nat /\ 1 <= i /\ i <= Len(s) BY <1>0
  <1>1. /\ a \in Seq(S) /\ Len(a) = i - 1
        /\ \A j \in 1..(i - 1) : a[j] = s[j]
    <2>1. \A j \in 1..(i - 1) : s[j] \in S BY <1>0, <1>i
    <2>2. /\ a \in Seq(S) /\ Len(a) = IF 1 <= i - 1 THEN (i - 1) - 1 + 1 ELSE 0
          /\ \A j \in 1..((i - 1) - 1 + 1) : a[j] = s[1 + j - 1]
      BY <1>i, <2>1, SubSeqProperties
    <2> HIDE DEF a
    <2> QED BY <1>i, <2>2
  <1>2. /\ b \in Seq(S) /\ Len(b) = Len(s) - i
        /\ \A j \in 1..(Len(s) - i) : b[j] = s[i + j]
    <2>1. \A j \in (i + 1)..Len(s) : s[j] \in S BY <1>0, <1>i
    <2>2. /\ b \in Seq(S) /\ Len(b) = IF i + 1 <= Len(s) THEN Len(s) - (i + 1) + 1 ELSE 0
          /\ \A j \in 1..(Len(s) - (i + 1) + 1) : b[j] = s[(i + 1) + j - 1]
      BY <1>0, <1>i, <2>1, SubSeqProperties
    <2> HIDE DEF b
    <2>3. Len(b) = Len(s) - i BY <1>0, <1>i, <2>2
    <2>4. \A j \in 1..(Len(s) - i) : (i + 1) + j - 1 = i + j BY <1>0, <1>i
    <2>5. Len(s) - (i + 1) + 1 = Len(s) - i BY <1>0, <1>i
    <2> QED BY <2>2, <2>3, <2>4, <2>5
  <1> HIDE DEF a, b
  <1>3. /\ c \in Seq(S) /\ Len(c) = Len(a) + Len(b)
        /\ \A j \in 1..(Len(a) + Len(b)) : c[j] = IF j <= Len(a) THEN a[j] ELSE b[j - Len(a)]
    BY <1>1, <1>2, ConcatProperties
  <1> HIDE DEF c
  <1>4. DOMAIN c = 1..(Len(s) - 1)
    <2>1. Len(c) = Len(s) - 1 BY <1>0, <1>i, <1>1, <1>2, <1>3
    <2> QED BY <1>3, <2>1, LenProperties
  <1>5. ASSUME NEW j \in 1..(Len(s) - 1) PROVE c[j] = s[IF j < i THEN j ELSE j + 1]
    <2>0. c[j] = IF j <= i - 1 THEN a[j] ELSE b[j - (i - 1)] BY <1>0, <1>i, <1>1, <1>2, <1>3
    <2>1. CASE j < i
      <3>1. j \in 1..(i - 1) /\ j <= i - 1 BY <1>0, <1>i, <2>1
      <3> QED BY <1>1, <2>0, <2>1, <3>1
    <2>2. CASE ~(j < i)
      <3>1. j - (i - 1) \in 1..(Len(s) - i) /\ i + (j - (i - 1)) = j + 1 /\ ~(j <= i - 1)
        BY <1>0, <1>i, <2>2
      <3> QED BY <1>2, <2>0, <2>2, <3>1
    <2> QED BY <2>1, <2>2
  <1>6. RemoveAt(s, i) = c BY DEF RemoveAt, a, b, c
  <1>7. ASSUME NEW j \in 1..(Len(s) - 1) PROVE (IF j < i THEN j ELSE j + 1) \in DOMAIN s \ {i}
    BY <1>0, <1>i
  <1> QED BY <1>3, <1>4, <1>5, <1>6, <1>7

(* Later events come after the earlier ones. *)
Longer(ob, nb) == Len(ob) <= Len(nb) /\ \A n \in 1..Len(ob) : nb[n] = ob[n]

-----------------------------------------------------------------------------
(* Types                                                                    *)

(* a link that was made *)
Made(l, ls) == l \in Links /\ ls[l].status # "none"

(* What rows, requests and events say of each other. *)
RowsFit ==
  /\ writer["row"] # "idle" => ver < MaxVer
  /\ \A l \in Links :
       /\ links[l].status = "none" => links[l].ref = NoLink
       /\ links[l].status # "none" => links[l].ref \in KLinks
       /\ links[l].acked <= Len(outbox) /\ links[l].start <= Len(outbox)
       /\ request[l].what # "none" => request[l].ref \in KLinks
       /\ request[l].what = "connect" => links[l].status = "none"
       /\ request[l].what = "renew" => links[l].status # "none"
  /\ \A n \in 1..Len(outbox) : outbox[n].link # NoLink => Made(outbox[n].link, links)

(* The job and the backfills work on links that were made, on events that are
   there and that the link has not acknowledged. *)
JobFits ==
  /\ job.pc \notin {"take", "read"} => job.taken = {}
  /\ \A t \in job.todo : Made(t[1], links)
  /\ job.pc \in {"fill", "send", "post", "wait"} => Made(job.link, links)
  /\ job.pc \in {"post", "wait"} =>
       job.batch # {} /\ job.batch \subseteq (links[job.link].acked + 1)..Len(outbox)
  /\ \A p \in Fillers : fill[p].pc # "off" => Made(fill[p].link, links)

(* klick knows and works on events that are there. *)
NetFits ==
  /\ \A i \in DOMAIN net : net[i].rest \subseteq 1..Len(outbox)
  /\ \A k \in KLinks : klick[k].known \subseteq 1..Len(outbox)

Fits == LinkTypeOK /\ RowsFit /\ JobFits /\ NetFits

(* A link that was made keeps its klick link and its start. *)
LinksLast(ls, ms) ==
  \A l \in Links : Made(l, ls) =>
    Made(l, ms) /\ ms[l].ref = ls[l].ref /\ ms[l].start = ls[l].start

(* Everything begins empty. *)
LEMMA FitsInit ==
  ASSUME Init
  PROVE  Fits
  <1>1. LinkTypeOK
    <2>1. links \in [Links -> LinkRow] BY LinkAssumption DEF Init, LinkRow
    <2>2. request \in [Links -> RequestRow] BY LinkAssumption DEF Init, RequestRow, Idle
    <2>3. job \in JobRow BY LinkAssumption DEF Init, JobRow, Resting
    <2>4. fill \in [Fillers -> FillRow] BY LinkAssumption DEF Init, FillRow, Off
    <2>5. net \in Seq(BatchRow) /\ outbox \in Seq(Event) /\ pruned \in 0..Len(outbox) BY DEF Init
    <2>6. klick \in [KLinks -> KlickRow] BY LinkAssumption DEF Init, KlickRow
    <2>7. /\ ver \in 0..MaxVer /\ changes \subseteq Kinds
          /\ writer \in [Kinds -> {"idle", "unseen", "seen"}]
          /\ owed \subseteq Links /\ fails \in 0..MaxFails
      BY LinkAssumption DEF Init
    <2>8. alerted \in BOOLEAN /\ tainted \in BOOLEAN BY Zenon DEF Init
    <2> QED BY <2>1, <2>2, <2>3, <2>4, <2>5, <2>6, <2>7, <2>8 DEF LinkTypeOK
  <1>2. RowsFit BY LinkAssumption DEF Init, RowsFit, Idle
  <1>3. JobFits BY DEF Init, JobFits, Resting, Off
  <1>4. NetFits BY DEF Init, NetFits
  <1> QED BY <1>1, <1>2, <1>3, <1>4 DEF Fits

(* A count of failures stays within its bound. *)
LEMMA FailFits ==
  ASSUME fails \in 0..MaxFails, Fail
  PROVE  fails' \in 0..MaxFails
  BY LinkAssumption DEF Fail

(* A transaction of a user begins, commits or is rolled back. *)
LEMMA WritingFits ==
  ASSUME Fits, NEW k \in Kinds, WriterBegins(k) \/ WriterCommits(k) \/ WriterRollsBack(k)
  PROVE  Fits'
  <1>0. UNCHANGED <<outbox, pruned, links, request, job, net, klick, tainted>>
    BY DEF WriterBegins, WriterCommits, WriterRollsBack
  <1>1. fill' \in [Fillers -> FillRow] /\ \A p \in Fillers : /\ fill'[p].pc = fill[p].pc
                                                            /\ fill'[p].link = fill[p].link
    <2>1. fill \in [Fillers -> FillRow] BY DEF Fits, LinkTypeOK
    <2>2. fill' = fill \/ fill' = [p \in Fillers |-> [fill[p] EXCEPT !.waits = @ \ {k}]]
      BY DEF WriterBegins, WriterCommits, WriterRollsBack
    <2>3. \A p \in Fillers :
            /\ [fill[p] EXCEPT !.waits = @ \ {k}] \in FillRow
            /\ [fill[p] EXCEPT !.waits = @ \ {k}].pc = fill[p].pc
            /\ [fill[p] EXCEPT !.waits = @ \ {k}].link = fill[p].link
      <3> TAKE p \in Fillers
      <3>1. fill[p] \in FillRow BY <2>1
      <3> QED BY <3>1 DEF FillRow
    <2> QED BY <2>1, <2>2, <2>3
  <1>2. writer' \in [Kinds -> {"idle", "unseen", "seen"}]
    BY DEF Fits, LinkTypeOK, WriterBegins, WriterCommits, WriterRollsBack
  <1>3. ver' \in 0..MaxVer /\ (writer'["row"] # "idle" => ver' < MaxVer)
    BY LinkAssumption DEF Fits, LinkTypeOK, RowsFit, WriterBegins, WriterCommits, WriterRollsBack
  <1>4. changes' \subseteq Kinds /\ owed' \subseteq Links
    BY DEF Fits, LinkTypeOK, WriterBegins, WriterCommits, WriterRollsBack
  <1>5. alerted' \in BOOLEAN /\ tainted' \in BOOLEAN
    BY Zenon DEF Fits, LinkTypeOK, WriterBegins, WriterCommits, WriterRollsBack
  <1>6. fails' \in 0..MaxFails
    BY FailFits DEF Fits, LinkTypeOK, WriterBegins, WriterCommits, WriterRollsBack
  <1>7. LinkTypeOK' BY <1>0, <1>1, <1>2, <1>3, <1>4, <1>5, <1>6 DEF Fits, LinkTypeOK
  <1>8. RowsFit' /\ JobFits' /\ NetFits'
    BY <1>0, <1>1, <1>3 DEF Fits, RowsFit, JobFits, NetFits
  <1> QED BY <1>0, <1>7, <1>8 DEF Fits

(* A request goes on or is given up, a klick link changes its binding, its token or its status. *)
LEMMA CallFits ==
  ASSUME Fits, UNCHANGED <<wallet, outbox, pruned, links, job, fill, net, owed, tainted>>,
         klick' \in [KLinks -> KlickRow], \A k \in KLinks : klick'[k].known = klick[k].known,
         request' \in [Links -> RequestRow],
         \A l \in Links :
           request'[l].what # "none" =>
             /\ request'[l].ref \in KLinks
             /\ request'[l].what = "connect" => links[l].status = "none"
             /\ request'[l].what = "renew" => links[l].status # "none",
         fails' \in 0..MaxFails
  PROVE  Fits'
  <1>1. LinkTypeOK' BY DEF Fits, LinkTypeOK, wallet
  <1>2. RowsFit' BY DEF Fits, RowsFit, wallet
  <1>3. JobFits' /\ NetFits' BY DEF Fits, JobFits, NetFits
  <1> QED BY <1>1, <1>2, <1>3 DEF Fits

(* The calls to klick about a link, and what klick itself does with its links. *)
LEMMA CallsFit ==
  ASSUME Fits,
         \/ \E l \in Links, k \in KLinks : ConnectHello(l, k) \/ RenewHello(l, k)
         \/ \E l \in Links : RequestDies(l)
         \/ \E k \in KLinks : NewToken(k) \/ KlickRevokes(k)
  PROVE  Fits'
  <1>0. /\ klick \in [KLinks -> KlickRow] /\ request \in [Links -> RequestRow]
        /\ fails \in 0..MaxFails /\ links \in [Links -> LinkRow]
    BY DEF Fits, LinkTypeOK
  <1>1. UNCHANGED <<wallet, outbox, pruned, links, job, fill, net, owed, tainted>>
    BY DEF ConnectHello, RenewHello, RequestDies, NewToken, KlickRevokes
  <1>2. klick' \in [KLinks -> KlickRow] /\ \A k \in KLinks : klick'[k].known = klick[k].known
    <2>1. CASE \E l \in Links, k \in KLinks : ConnectHello(l, k) \/ RenewHello(l, k)
      <3>1. PICK l \in Links, k \in KLinks : klick' = [klick EXCEPT ![k].bound = l]
        BY <2>1 DEF ConnectHello, RenewHello, Hello
      <3> QED BY <1>0, <3>1 DEF KlickRow
    <2>2. CASE \E l \in Links : RequestDies(l) BY <1>0, <2>2 DEF RequestDies
    <2>3. CASE \E k \in KLinks : NewToken(k)
      <3>1. PICK k \in KLinks : NewToken(k) BY <2>3
      <3>2. klick[k].token + 1 \in 1..MaxToken BY <1>0, <3>1, LinkAssumption DEF NewToken, KlickRow
      <3> QED BY <1>0, <3>1, <3>2 DEF NewToken, KlickRow
    <2>4. CASE \E k \in KLinks : KlickRevokes(k) BY <1>0, <2>4 DEF KlickRevokes, KlickRow
    <2> QED BY <2>1, <2>2, <2>3, <2>4
  <1> DEFINE Kept == /\ request' \in [Links -> RequestRow]
                     /\ \A l \in Links :
                          request'[l].what # "none" =>
                            /\ request'[l].ref \in KLinks
                            /\ request'[l].what = "connect" => links[l].status = "none"
                            /\ request'[l].what = "renew" => links[l].status # "none"
  <1>3. Kept
    <2>0. \A l \in Links :
             request[l].what # "none" =>
               /\ request[l].ref \in KLinks
               /\ request[l].what = "connect" => links[l].status = "none"
               /\ request[l].what = "renew" => links[l].status # "none"
      BY DEF Fits, RowsFit
    <2>1. ASSUME NEW l \in Links, NEW k \in KLinks, ConnectHello(l, k) \/ RenewHello(l, k)
          PROVE  Kept
      <3>1. klick[k].token \in 0..MaxToken BY <1>0, LinkAssumption DEF KlickRow
      <3>2. PICK what \in {"connect", "renew"} :
              /\ request' = request
                 \/ request' = [request EXCEPT ![l] = [what |-> what, ref |-> k, token |-> klick[k].token]]
              /\ what = "connect" => links[l].status = "none"
              /\ what = "renew" => links[l].status # "none"
        BY <2>1 DEF ConnectHello, RenewHello, Connected
      <3> QED BY <1>0, <2>0, <3>1, <3>2 DEF RequestRow
    <2>2. CASE \E l \in Links : RequestDies(l)
      BY <1>0, <2>0, <2>2, LinkAssumption DEF RequestDies, Idle, RequestRow
    <2>3. CASE \E k \in KLinks : NewToken(k) \/ KlickRevokes(k)
      BY <1>0, <2>0, <2>3 DEF NewToken, KlickRevokes
    <2> QED BY <2>1, <2>2, <2>3
  <1>4. fails' \in 0..MaxFails
    BY <1>0, FailFits DEF ConnectHello, RenewHello, RequestDies, NewToken, KlickRevokes
  <1> QED BY <1>1, <1>2, <1>3, <1>4, CallFits

(* The state of links changes, and a cursor moves on. *)
LEMMA LinkFits ==
  ASSUME Fits, UNCHANGED <<wallet, outbox, pruned, fill, klick, owed>>,
         net' \in Seq(BatchRow), \A i \in DOMAIN net' : net'[i].rest \subseteq 1..Len(outbox),
         tainted' \in BOOLEAN, fails' \in 0..MaxFails,
         links' \in [Links -> LinkRow],
         \A l \in Links :
           /\ links'[l] # links[l] => links[l].status # "none" /\ links'[l].status # "none"
           /\ links'[l].ref = links[l].ref /\ links'[l].start = links[l].start
           /\ links'[l].acked <= Len(outbox),
         \A l \in Links : request'[l] \in {request[l], Idle},
         request' \in [Links -> RequestRow],
         job' \in JobRow,
         job'.pc \notin {"take", "read"} => job'.taken = {},
         job'.todo = job.todo,
         job'.pc \in {"fill", "send", "post", "wait"} => Made(job'.link, links),
         job'.pc \in {"post", "wait"} =>
           /\ job'.batch # {}
           /\ job'.batch \subseteq (links'[job'.link].acked + 1)..Len(outbox)
  PROVE  Fits'
  <1>1. LinkTypeOK' BY DEF Fits, LinkTypeOK, wallet
  <1>2. \A l \in Links : (links[l].status = "none") = (links'[l].status = "none") OBVIOUS
  <1>3. RowsFit' BY <1>2 DEF Fits, RowsFit, wallet, Made, Idle
  <1>4. JobFits' /\ NetFits' BY <1>2 DEF Fits, JobFits, NetFits, Made
  <1> QED BY <1>1, <1>3, <1>4 DEF Fits

(* The job goes on to the next link. *)
LEMMA DoneIs ==
  ASSUME job \in JobRow
  PROVE  /\ Done \in JobRow /\ Done.pc = "links" /\ Done.todo = job.todo
         /\ Done.taken = job.taken /\ Done.linked = job.linked /\ Done.read = job.read
  <1>1. 0 \in 0..MaxToken BY LinkAssumption
  <1> QED BY <1>1 DEF Done, JobRow

(* Pausing, resuming, revoking, renewing; a refused call. *)
LEMMA StatusFits ==
  ASSUME Fits,
         \/ \E l \in Links : Renew(l) \/ Pause(l) \/ Resume(l) \/ Revoke(l)
         \/ PostRefused
  PROVE  Fits'
  <1>0. /\ links \in [Links -> LinkRow] /\ request \in [Links -> RequestRow] /\ job \in JobRow
        /\ fails \in 0..MaxFails /\ tainted \in BOOLEAN /\ net \in Seq(BatchRow)
        /\ \A i \in DOMAIN net : net[i].rest \subseteq 1..Len(outbox)
        /\ job.pc \notin {"take", "read"} => job.taken = {}
        /\ job.pc \in {"fill", "send", "post", "wait"} => Made(job.link, links)
        /\ job.pc \in {"post", "wait"} =>
             job.batch # {} /\ job.batch \subseteq (links[job.link].acked + 1)..Len(outbox)
        /\ \A l \in Links : /\ request[l].what = "renew" => links[l].status # "none"
                            /\ links[l].acked <= Len(outbox)
    BY DEF Fits, LinkTypeOK, RowsFit, JobFits, NetFits
  <1>1. UNCHANGED <<wallet, outbox, pruned, fill, net, klick, owed>>
    BY DEF Renew, Pause, Resume, Revoke, PostRefused
  <1>2. tainted' \in BOOLEAN
    <2>1. tainted' = tainted \/ \E l : tainted' = (tainted \/ links[l].status = "revoked")
      BY DEF Renew, Pause, Resume, Revoke, PostRefused, Revives
    <2> QED BY <1>0, <2>1, Zenon
  <1>3. fails' \in 0..MaxFails
    BY <1>0, FailFits DEF Renew, Pause, Resume, Revoke, PostRefused
  <1>4. ASSUME NEW l \in Links, links[l].status # "none",
               NEW s \in {"active", "paused", "revoked"}, NEW t \in 0..MaxToken,
               links' = [links EXCEPT ![l].status = s]
               \/ links' = [links EXCEPT ![l].token = t, ![l].status = s]
        PROVE  /\ links' \in [Links -> LinkRow]
               /\ \A m \in Links :
                    /\ links'[m] # links[m] => links[m].status # "none" /\ links'[m].status # "none"
                    /\ links'[m].ref = links[m].ref /\ links'[m].start = links[m].start
                    /\ links'[m].acked = links[m].acked
    <2>1. links[l] \in LinkRow BY <1>0
    <2>2. PICK row \in LinkRow :
            /\ links' = [links EXCEPT ![l] = row] /\ row.status = s
            /\ row.ref = links[l].ref /\ row.start = links[l].start /\ row.acked = links[l].acked
      <3>1. CASE links' = [links EXCEPT ![l].status = s]
        <4>1. [links[l] EXCEPT !.status = s] \in LinkRow BY <2>1 DEF LinkRow
        <4> QED BY <2>1, <3>1, <4>1 DEF LinkRow
      <3>2. CASE links' = [links EXCEPT ![l].token = t, ![l].status = s]
        <4> DEFINE row == [[links[l] EXCEPT !.token = t] EXCEPT !.status = s]
        <4>1. row \in LinkRow BY <2>1 DEF LinkRow
        <4>2. links' = [links EXCEPT ![l] = row] BY <1>0, <3>2
        <4>3. /\ row.status = s
              /\ row.ref = links[l].ref /\ row.start = links[l].start /\ row.acked = links[l].acked
          BY <2>1 DEF LinkRow
        <4> HIDE DEF row
        <4> QED BY <4>1, <4>2, <4>3
      <3> QED BY <1>4, <3>1, <3>2
    <2> QED BY <1>0, <1>4, <2>2
  <1>5. CASE \E l \in Links : Renew(l) \/ Pause(l) \/ Resume(l) \/ Revoke(l)
    <2>1. PICK l \in Links : Renew(l) \/ Pause(l) \/ Resume(l) \/ Revoke(l) BY <1>5
    <2>2. links[l].status # "none" BY <1>0, <2>1 DEF Renew, Pause, Resume, Revoke, Connected
    <2>3. request[l].token \in 0..MaxToken BY <1>0 DEF RequestRow
    <2>4. \E s \in {"active", "paused", "revoked"} :
             links' = [links EXCEPT ![l].status = s]
             \/ links' = [links EXCEPT ![l].token = request[l].token, ![l].status = s]
      BY <2>1 DEF Renew, Pause, Resume, Revoke
    <2>5. /\ links' \in [Links -> LinkRow]
          /\ \A m \in Links :
               /\ links'[m] # links[m] => links[m].status # "none" /\ links'[m].status # "none"
               /\ links'[m].ref = links[m].ref /\ links'[m].start = links[m].start
               /\ links'[m].acked = links[m].acked
      BY <1>4, <2>2, <2>3, <2>4
    <2>6. job' = job /\ (request' = request \/ request' = [request EXCEPT ![l] = Idle])
      BY <2>1 DEF Renew, Pause, Resume, Revoke
    <2>7. /\ \A m \in Links : request'[m] \in {request[m], Idle}
          /\ request' \in [Links -> RequestRow]
      <3>1. Idle \in RequestRow BY LinkAssumption DEF Idle, RequestRow
      <3> QED BY <1>0, <2>6, <3>1
    <2>8. job'.pc \in {"post", "wait"} =>
            /\ job'.batch # {}
            /\ job'.batch \subseteq (links'[job'.link].acked + 1)..Len(outbox)
      BY <1>0, <2>5, <2>6 DEF Made
    <2> QED BY <1>0, <1>1, <1>2, <1>3, <2>5, <2>6, <2>7, <2>8, LinkFits
  <1>6. CASE PostRefused
    <2>1. job.link \in Links /\ links[job.link].status # "none" BY <1>0, <1>6 DEF PostRefused, Made
    <2>2. /\ links' \in [Links -> LinkRow]
          /\ \A m \in Links :
               /\ links'[m] # links[m] => links[m].status # "none" /\ links'[m].status # "none"
               /\ links'[m].ref = links[m].ref /\ links'[m].start = links[m].start
               /\ links'[m].acked = links[m].acked
      <3>1. links' = [links EXCEPT ![job.link].status = "paused"] BY <1>6 DEF PostRefused
      <3>2. 0 \in 0..MaxToken BY LinkAssumption
      <3> QED BY <1>4, <2>1, <3>1, <3>2
    <2>4. job' \in JobRow /\ job'.pc = "links" /\ job'.todo = job.todo /\ job'.taken = {}
      <3>1. job.pc = "post" BY <1>6 DEF PostRefused
      <3> QED BY <1>0, <1>6, <3>1, DoneIs DEF PostRefused
    <2>5. request' = request BY <1>6 DEF PostRefused
    <2> QED BY <1>0, <1>1, <1>2, <1>3, <2>2, <2>4, <2>5, LinkFits
  <1> QED BY <1>5, <1>6

(* A link is made, or refused because its klick link is connected already. *)
LEMMA ConnectFits ==
  ASSUME Fits, NEW l \in Links, Connect(l)
  PROVE  Fits'
  <1>0. /\ links \in [Links -> LinkRow] /\ request \in [Links -> RequestRow]
        /\ fill \in [Fillers -> FillRow] /\ Len(outbox) \in Nat
        /\ request[l].ref \in KLinks /\ links[l].status = "none"
        /\ tainted \in BOOLEAN
    BY DEF Fits, LinkTypeOK, RowsFit, Connect
  <1>1. /\ UNCHANGED <<wallet, outbox, pruned, job, net, klick, owed, fails>>
        /\ request' = [request EXCEPT ![l] = Idle]
    BY DEF Connect
  <1>2. /\ request' \in [Links -> RequestRow] /\ request'[l] = Idle
        /\ \A m \in Links : request'[m] \in {request[m], Idle}
    <2>1. Idle \in RequestRow BY LinkAssumption DEF Idle, RequestRow
    <2> QED BY <1>0, <1>1, <2>1
  <1>3. tainted' \in BOOLEAN
    <2>1. tainted' = tainted \/ tainted' = (tainted \/ Leftovers) BY DEF Connect
    <2> QED BY <1>0, <2>1, Zenon
  <1>4. /\ links' \in [Links -> LinkRow] /\ fill' \in [Fillers -> FillRow]
        /\ \A m \in Links : m # l => links'[m] = links[m]
        /\ links'[l] = links[l] \/ (/\ links'[l].status = "active" /\ links'[l].ref \in KLinks
                                    /\ links'[l].acked = Len(outbox) /\ links'[l].start = Len(outbox))
        /\ \A p \in Fillers : fill'[p] = fill[p] \/ (fill'[p].link = l /\ links'[l].status = "active")
    <2>1. CASE Taken(request[l].ref)
      <3>1. links' = links /\ fill' = fill BY <2>1 DEF Connect
      <3> QED BY <1>0, <3>1
    <2>2. CASE ~Taken(request[l].ref)
      <3>1. /\ links' = [links EXCEPT ![l] =
                 [status |-> "active", ref |-> request[l].ref, acked |-> Len(outbox),
                  start |-> Len(outbox), ready |-> FALSE, token |-> request[l].token]]
            /\ fill' = [fill EXCEPT !["user"] = [pc |-> "begin", link |-> l, waits |-> {}, read |-> 0]]
        BY <2>2 DEF Connect
      <3>2. request[l].token \in 0..MaxToken BY <1>0 DEF RequestRow
      <3>3. links' \in [Links -> LinkRow] /\ links'[l].status = "active"
            /\ links'[l].ref \in KLinks
            /\ links'[l].acked = Len(outbox) /\ links'[l].start = Len(outbox)
            /\ \A m \in Links : m # l => links'[m] = links[m]
        BY <1>0, <3>1, <3>2 DEF LinkRow
      <3>4. fill' \in [Fillers -> FillRow] /\ \A p \in Fillers : fill'[p] = fill[p] \/ fill'[p].link = l
        BY <1>0, <3>1, LinkAssumption DEF FillRow, Fillers
      <3> QED BY <3>3, <3>4
    <2> QED BY <2>1, <2>2
  <1>5. LinkTypeOK' BY <1>1, <1>2, <1>3, <1>4 DEF Fits, LinkTypeOK, wallet
  <1>6. RowsFit' BY <1>0, <1>1, <1>2, <1>4 DEF Fits, RowsFit, wallet, Idle, Made
  <1>7. JobFits' BY <1>0, <1>1, <1>4 DEF Fits, JobFits, Made
  <1>8. NetFits' BY <1>1 DEF Fits, NetFits
  <1> QED BY <1>5, <1>6, <1>7, <1>8 DEF Fits

(* A backfill goes on, ends or is given up, the job goes on: nothing else changes. *)
LEMMA WorkFits ==
  ASSUME Fits, UNCHANGED <<ver, alerted, writer, outbox, pruned, links, request, owed, tainted>>,
         changes' \subseteq Kinds, fails' \in 0..MaxFails,
         net' \in Seq(BatchRow), \A i \in DOMAIN net' : net'[i].rest \subseteq 1..Len(outbox),
         klick' \in [KLinks -> KlickRow], \A k \in KLinks : klick'[k].known \subseteq 1..Len(outbox),
         fill' \in [Fillers -> FillRow],
         \A p \in Fillers : fill'[p].pc # "off" => Made(fill'[p].link, links),
         job' \in JobRow,
         job'.pc \notin {"take", "read"} => job'.taken = {},
         \A t \in job'.todo : Made(t[1], links),
         job'.pc \in {"fill", "send", "post", "wait"} => Made(job'.link, links),
         job'.pc \in {"post", "wait"} =>
           /\ job'.batch # {}
           /\ job'.batch \subseteq (links[job'.link].acked + 1)..Len(outbox)
  PROVE  Fits'
  <1>1. LinkTypeOK' BY DEF Fits, LinkTypeOK
  <1>2. RowsFit' BY DEF Fits, RowsFit
  <1>3. JobFits' BY DEF JobFits
  <1>4. NetFits' BY DEF NetFits
  <1> QED BY <1>1, <1>2, <1>3, <1>4 DEF Fits

(* The job rests, a backfill rests. *)
LEMMA RestingIs ==
  /\ Resting \in JobRow /\ Off \in FillRow
  /\ Resting.pc = "idle" /\ Resting.taken = {} /\ Resting.todo = {} /\ Off.pc = "off"
  <1>1. Resting \in JobRow BY LinkAssumption DEF Resting, JobRow
  <1>2. Off \in FillRow BY LinkAssumption DEF Off, FillRow
  <1> QED BY <1>1, <1>2 DEF Resting, Off

(* Waiting for earlier writers, reading the state, giving up. *)
LEMMA FillingFits ==
  ASSUME Fits, \/ \E p \in Fillers : FillBegins(p) \/ FillReads(p)
               \/ FillDies
  PROVE  Fits'
  <1>0. /\ fill \in [Fillers -> FillRow] /\ job \in JobRow /\ net \in Seq(BatchRow)
        /\ klick \in [KLinks -> KlickRow] /\ fails \in 0..MaxFails
        /\ changes \subseteq Kinds /\ ver \in 0..MaxVer
        /\ \A p \in Fillers : fill[p].pc # "off" => Made(fill[p].link, links)
    BY DEF Fits, LinkTypeOK, JobFits
  <1>1. UNCHANGED <<wallet, outbox, pruned, links, request, job, net, klick, owed, tainted>>
    BY DEF FillBegins, FillReads, FillDies
  <1>2. Off \in FillRow /\ Off.pc = "off" BY RestingIs
  <1> DEFINE Kept == /\ fill' \in [Fillers -> FillRow]
                     /\ \A p \in Fillers : fill'[p].pc # "off" => Made(fill'[p].link, links)
  <1>3. Kept
    <2>1. ASSUME NEW p \in Fillers, NEW row \in FillRow, fill' = [fill EXCEPT ![p] = row],
                 row.pc # "off" => Made(row.link, links)
          PROVE  Kept
      BY <1>0, <2>1
    <2>2. ASSUME NEW p \in Fillers, FillBegins(p) PROVE Kept
      <3>0. fill[p] \in FillRow BY <1>0
      <3> DEFINE w == {k \in Kinds : writer[k] # "idle"}
                 row == [[fill[p] EXCEPT !.pc = "wait"] EXCEPT !.waits = w]
      <3>1. row \in FillRow /\ row.link = fill[p].link BY <3>0 DEF FillRow
      <3>2. fill' = [fill EXCEPT ![p] = row] BY <1>0, <2>2 DEF FillBegins
      <3>3. Made(row.link, links) BY <1>0, <2>2, <3>1 DEF FillBegins
      <3> HIDE DEF row
      <3> QED BY <2>1, <3>1, <3>2, <3>3
    <2>3. ASSUME NEW p \in Fillers, FillReads(p) PROVE Kept
      <3>0. fill[p] \in FillRow BY <1>0
      <3> DEFINE read == [[fill[p] EXCEPT !.pc = "locked"] EXCEPT !.read = ver]
      <3>1. read \in FillRow /\ read.link = fill[p].link BY <1>0, <3>0 DEF FillRow
      <3>2. fill' = [fill EXCEPT ![p] = Off] \/ fill' = [fill EXCEPT ![p] = read]
        BY <2>3, <3>0 DEF FillReads, FillRow
      <3>3. Made(read.link, links) BY <1>0, <2>3, <3>1 DEF FillReads
      <3> HIDE DEF read
      <3> QED BY <1>2, <2>1, <3>1, <3>2, <3>3
    <2>4. CASE FillDies
      <3>1. "user" \in Fillers BY DEF Fillers
      <3> QED BY <1>2, <2>1, <2>4, <3>1 DEF FillDies
    <2> QED BY <2>2, <2>3, <2>4
  <1>4. fails' \in 0..MaxFails BY <1>0, FailFits DEF FillBegins, FillReads, FillDies
  <1>5. job' = job /\ net' = net /\ klick' = klick /\ changes' = changes BY <1>1 DEF wallet
  <1> QED BY <1>0, <1>1, <1>3, <1>4, <1>5, WorkFits DEF Fits, JobFits, NetFits, wallet

(* The steps of the job up to the call, and its end. *)
LEMMA ExportFits ==
  ASSUME Fits, JobTakes \/ JobReads \/ JobNext \/ JobFilled \/ JobEnds
  PROVE  Fits'
  <1>0. /\ fill \in [Fillers -> FillRow] /\ job \in JobRow /\ net \in Seq(BatchRow)
        /\ klick \in [KLinks -> KlickRow] /\ fails \in 0..MaxFails
        /\ changes \subseteq Kinds /\ ver \in 0..MaxVer
        /\ \A p \in Fillers : fill[p].pc # "off" => Made(fill[p].link, links)
        /\ \A t \in job.todo : Made(t[1], links)
        /\ job.pc \notin {"take", "read"} => job.taken = {}
        /\ job.pc \in {"fill", "send", "post", "wait"} => Made(job.link, links)
        /\ \A i \in DOMAIN net : net[i].rest \subseteq 1..Len(outbox)
        /\ \A k \in KLinks : klick[k].known \subseteq 1..Len(outbox)
    BY DEF Fits, LinkTypeOK, JobFits, NetFits
  <1>1. UNCHANGED <<ver, alerted, writer, outbox, pruned, links, request, net, klick, owed, tainted, fails>>
    BY DEF JobTakes, JobReads, JobNext, JobFilled, JobEnds, wallet
  <1>2. ASSUME NEW row \in JobRow, job' = row, changes' \subseteq Kinds,
               fill' \in [Fillers -> FillRow],
               \A p \in Fillers : fill'[p].pc # "off" => Made(fill'[p].link, links),
               row.pc \notin {"take", "read"} => row.taken = {},
               \A t \in row.todo : Made(t[1], links),
               row.pc \in {"fill", "send"} => Made(row.link, links),
               row.pc \notin {"post", "wait"}
        PROVE  Fits'
    BY <1>0, <1>1, <1>2, WorkFits
  <1>3. CASE JobTakes
    <2> DEFINE row == [Resting EXCEPT !.pc = "take", !.taken = changes]
    <2>1. row \in JobRow /\ row.pc = "take" /\ row.todo = {}
      BY <1>0, RestingIs DEF JobRow
    <2>2. job' = row /\ changes' = {} /\ fill' = fill BY <1>3 DEF JobTakes
    <2> HIDE DEF row
    <2> QED BY <1>0, <1>2, <2>1, <2>2
  <1>4. CASE JobReads
    <2> DEFINE row == [job EXCEPT !.pc = "read", !.linked = HasLinks, !.read = ver]
    <2>1. row \in JobRow /\ row.pc = "read" /\ row.todo = job.todo
      BY <1>0 DEF JobRow, HasLinks
    <2>2. job' = row /\ changes' = changes /\ fill' = fill BY <1>4 DEF JobReads, wallet
    <2> HIDE DEF row
    <2> QED BY <1>0, <1>2, <2>1, <2>2
  <1>5. CASE JobNext
    <2>1. PICK t \in job.todo :
            /\ job' = [job EXCEPT !.todo = @ \ {t}, !.link = t[1], !.pc = IF t[2] THEN "send" ELSE "fill"]
            /\ fill' = IF t[2] THEN fill
                       ELSE [fill EXCEPT !["job"] = [Off EXCEPT !.pc = "begin", !.link = t[1]]]
      BY <1>5 DEF JobNext
    <2>2. t \in Links \X BOOLEAN /\ Made(t[1], links) BY <1>0 DEF JobRow
    <2> DEFINE row == [job EXCEPT !.todo = @ \ {t}, !.link = t[1], !.pc = IF t[2] THEN "send" ELSE "fill"]
               new == [Off EXCEPT !.pc = "begin", !.link = t[1]]
    <2>3. row \in JobRow /\ row.pc \in {"send", "fill"} /\ row.link = t[1] /\ row.todo \subseteq job.todo
          /\ row.taken = job.taken
      BY <1>0, <2>2 DEF JobRow
    <2>4. new \in FillRow /\ new.link = t[1] BY <2>2, RestingIs DEF FillRow
    <2>5. job' = row /\ changes' = changes /\ job.taken = {} BY <1>0, <1>5, <2>1 DEF JobNext, wallet
    <2>6. fill' = fill \/ fill' = [fill EXCEPT !["job"] = new] BY <2>1
    <2> HIDE DEF row, new
    <2>7. /\ fill' \in [Fillers -> FillRow]
          /\ \A p \in Fillers : fill'[p].pc # "off" => Made(fill'[p].link, links)
      BY <1>0, <2>2, <2>4, <2>6
    <2> QED BY <1>0, <1>2, <2>2, <2>3, <2>5, <2>7
  <1>6. CASE JobFilled
    <2> DEFINE row == [job EXCEPT !.pc = "send"]
    <2>1. /\ row \in JobRow /\ row.pc = "send" /\ row.todo = job.todo /\ row.link = job.link
          /\ row.taken = job.taken
      BY <1>0 DEF JobRow
    <2>2. job' = row /\ changes' = changes /\ fill' = fill /\ job.pc = "fill" BY <1>6 DEF JobFilled, wallet
    <2> HIDE DEF row
    <2> QED BY <1>0, <1>2, <2>1, <2>2
  <1>7. CASE JobEnds
    <2>1. job' = Resting /\ changes' = changes /\ fill' = fill BY <1>7 DEF JobEnds, wallet
    <2> QED BY <1>0, <1>2, <2>1, RestingIs
  <1> QED BY <1>3, <1>4, <1>5, <1>6, <1>7

(* Events written after others. *)
LEMMA ConcatLonger ==
  ASSUME NEW s \in Seq(Event), NEW t \in Seq(Event)
  PROVE  /\ s \o t \in Seq(Event) /\ Longer(s, s \o t) /\ Len(s \o t) = Len(s) + Len(t)
         /\ \A n \in (Len(s) + 1)..Len(s \o t) :
              n - Len(s) \in 1..Len(t) /\ (s \o t)[n] = t[n - Len(s)]
  <1> DEFINE c == s \o t
  <1>1. /\ c \in Seq(Event) /\ Len(c) = Len(s) + Len(t)
        /\ \A i \in 1..(Len(s) + Len(t)) : c[i] = IF i <= Len(s) THEN s[i] ELSE t[i - Len(s)]
    BY ConcatProperties
  <1>2. Len(s) \in Nat /\ Len(t) \in Nat BY LenProperties
  <1> HIDE DEF c
  <1>3. Longer(s, c) BY <1>1, <1>2 DEF Longer
  <1>4. ASSUME NEW n \in (Len(s) + 1)..Len(c) PROVE n - Len(s) \in 1..Len(t) /\ c[n] = t[n - Len(s)]
    BY <1>1, <1>2, <1>4
  <1> QED BY <1>1, <1>3, <1>4 DEF c

(* What the job writes: an event for everyone with the version it read, if the
   row was noted, and the alert. *)
LEMMA JobWrites ==
  ASSUME Fits, JobCommits
  PROVE  /\ outbox' \in Seq(Event) /\ Longer(outbox, outbox')
         /\ \A n \in (Len(outbox) + 1)..Len(outbox') :
              /\ outbox'[n].link = NoLink
              /\ outbox'[n].kind = "row" => outbox'[n].ver = job.read
         /\ job.linked /\ "row" \in job.taken =>
              \E n \in (Len(outbox) + 1)..Len(outbox') : outbox'[n].kind = "row"
         /\ ~(job.linked /\ "row" \in job.taken) =>
              \A n \in (Len(outbox) + 1)..Len(outbox') : outbox'[n].kind # "row"
         /\ ~job.linked => outbox' = outbox
  <1> DEFINE R == RowEvents(job.taken, job.read)
             A == AlertEvents(job.taken)
             o == outbox \o R
             c == o \o A
  <1>0. outbox \in Seq(Event) /\ job.taken \subseteq Kinds /\ job.read \in 0..MaxVer
    BY DEF Fits, LinkTypeOK, JobRow
  <1>1. /\ R \in Seq(Event)
        /\ "row" \in job.taken => Len(R) = 1 /\ R[1] = [kind |-> "row", ver |-> job.read, link |-> NoLink]
        /\ "row" \notin job.taken => Len(R) = 0
    <2>1. CASE "row" \in job.taken
      <3>1. R = <<[kind |-> "row", ver |-> job.read, link |-> NoLink]>> BY <2>1 DEF RowEvents
      <3>2. [kind |-> "row", ver |-> job.read, link |-> NoLink] \in Event
        BY <1>0, <2>1 DEF Event
      <3> QED BY <2>1, <3>1, <3>2
    <2>2. CASE "row" \notin job.taken BY <2>2 DEF RowEvents
    <2> QED BY <2>1, <2>2
  <1>2. /\ A \in Seq(Event)
        /\ "alert" \in job.taken => Len(A) = 1 /\ A[1] = [kind |-> "alert", ver |-> 0, link |-> NoLink]
        /\ "alert" \notin job.taken => Len(A) = 0
    <2>1. CASE "alert" \in job.taken
      <3>1. A = <<[kind |-> "alert", ver |-> 0, link |-> NoLink]>> BY <2>1 DEF AlertEvents
      <3>2. [kind |-> "alert", ver |-> 0, link |-> NoLink] \in Event
        BY <1>0, <2>1, LinkAssumption DEF Event
      <3> QED BY <2>1, <3>1, <3>2
    <2>2. CASE "alert" \notin job.taken BY <2>2 DEF AlertEvents
    <2> QED BY <2>1, <2>2
  <1> HIDE DEF R, A
  <1>3. /\ o \in Seq(Event) /\ Longer(outbox, o) /\ Len(o) = Len(outbox) + Len(R)
        /\ \A n \in (Len(outbox) + 1)..Len(o) :
             n - Len(outbox) \in 1..Len(R) /\ o[n] = R[n - Len(outbox)]
    BY <1>0, <1>1, ConcatLonger
  <1> HIDE DEF o
  <1>4. /\ c \in Seq(Event) /\ Longer(o, c) /\ Len(c) = Len(o) + Len(A)
        /\ \A n \in (Len(o) + 1)..Len(c) : n - Len(o) \in 1..Len(A) /\ c[n] = A[n - Len(o)]
    BY <1>2, <1>3, ConcatLonger
  <1> HIDE DEF c
  <1>5. Len(outbox) \in Nat /\ Len(o) \in Nat /\ Len(c) \in Nat /\ Len(R) \in Nat /\ Len(A) \in Nat
    BY <1>0, <1>1, <1>2, <1>3, <1>4, LenProperties
  <1>6. CASE ~job.linked
    <2>1. outbox' = outbox BY <1>6 DEF JobCommits
    <2> QED BY <1>0, <1>5, <1>6, <2>1 DEF Longer
  <1>7. CASE job.linked
    <2>1. outbox' = c BY <1>7 DEF JobCommits, R, A, o, c
    <2>2. Longer(outbox, c) BY <1>3, <1>4, <1>5 DEF Longer
    <2>3. ASSUME NEW n \in (Len(outbox) + 1)..Len(c)
          PROVE  /\ c[n].link = NoLink
                 /\ c[n].kind = "row" => "row" \in job.taken /\ c[n].ver = job.read
      <3>1. CASE n <= Len(o)
        <4>1. n \in (Len(outbox) + 1)..Len(o) /\ n \in 1..Len(o) BY <1>5, <3>1
        <4>2. c[n] = o[n] BY <1>4, <4>1 DEF Longer
        <4>3. n - Len(outbox) \in 1..Len(R) /\ o[n] = R[n - Len(outbox)] BY <1>3, <4>1
        <4>4. "row" \in job.taken /\ n - Len(outbox) = 1 BY <1>1, <1>5, <4>3
        <4> QED BY <1>1, <4>2, <4>3, <4>4
      <3>2. CASE n > Len(o)
        <4>1. n \in (Len(o) + 1)..Len(c) BY <1>5, <3>2
        <4>2. n - Len(o) \in 1..Len(A) /\ c[n] = A[n - Len(o)] BY <1>4, <4>1
        <4>3. "alert" \in job.taken /\ n - Len(o) = 1 BY <1>2, <1>5, <4>2
        <4>4. c[n] = A[1] BY <4>2, <4>3
        <4> QED BY <1>2, <4>3, <4>4
      <3> QED BY <1>5, <3>1, <3>2
    <2>4. ASSUME "row" \in job.taken PROVE \E n \in (Len(outbox) + 1)..Len(c) : c[n].kind = "row"
      <3>1. Len(outbox) + 1 \in (Len(outbox) + 1)..Len(o) /\ Len(outbox) + 1 \in (Len(outbox) + 1)..Len(c)
        BY <1>1, <1>3, <1>4, <1>5, <2>4
      <3>2. Len(outbox) + 1 \in 1..Len(o) /\ Len(outbox) + 1 - Len(outbox) = 1 BY <1>5, <3>1
      <3>3. c[Len(outbox) + 1] = o[Len(outbox) + 1] BY <1>4, <3>2 DEF Longer
      <3>4. o[Len(outbox) + 1] = R[1] BY <1>3, <3>1, <3>2
      <3> QED BY <1>1, <2>4, <3>1, <3>3, <3>4
    <2> QED BY <1>4, <1>7, <2>1, <2>2, <2>3, <2>4
  <1> QED BY <1>6, <1>7

(* What a backfill writes: one event for its link with the version it read. *)
LEMMA FillWrites ==
  ASSUME Fits, NEW p \in Fillers, FillCommits(p)
  PROVE  /\ fill[p].link \in Links
         /\ outbox' \in Seq(Event) /\ Longer(outbox, outbox') /\ Len(outbox') = Len(outbox) + 1
         /\ outbox'[Len(outbox')] = [kind |-> "row", ver |-> fill[p].read, link |-> fill[p].link]
  <1>1. outbox \in Seq(Event) /\ fill[p] \in FillRow /\ fill[p].link \in Links
    BY DEF Fits, LinkTypeOK, JobFits, Made, FillCommits
  <1>2. [kind |-> "row", ver |-> fill[p].read, link |-> fill[p].link] \in Event
    BY <1>1, LinkAssumption DEF Event, FillRow
  <1> QED BY <1>1, <1>2, AppendProperties, LenProperties DEF FillCommits, Longer

(* The events of the job and the links it goes on to. *)
LEMMA JobCommitsFits ==
  ASSUME Fits, JobCommits
  PROVE  Fits'
  <1>0. /\ outbox' \in Seq(Event) /\ Longer(outbox, outbox')
        /\ \A n \in (Len(outbox) + 1)..Len(outbox') : outbox'[n].link = NoLink
    BY JobWrites
  <1>1. UNCHANGED <<wallet, pruned, links, request, fill, net, klick, owed, tainted, fails>>
    BY DEF JobCommits
  <1>2. Len(outbox) \in Nat /\ Len(outbox') \in Nat /\ Len(outbox) <= Len(outbox')
    BY <1>0, LenProperties DEF Fits, LinkTypeOK, Longer
  <1> DEFINE todo == {<<l, links[l].ready>> : l \in {m \in Links : links[m].status = "active"}}
  <1>3. links \in [Links -> LinkRow] BY DEF Fits, LinkTypeOK
  <1>4. todo \in SUBSET (Links \X BOOLEAN) /\ \A t \in todo : Made(t[1], links)
    BY <1>3 DEF LinkRow, Made
  <1>5. job' = [Resting EXCEPT !.pc = "links", !.todo = todo] BY DEF JobCommits
  <1> HIDE DEF todo
  <1>6. job' \in JobRow /\ job'.pc = "links" /\ job'.todo = todo /\ job'.taken = {}
    BY <1>4, <1>5, RestingIs DEF JobRow
  <1>7. LinkTypeOK' BY <1>0, <1>1, <1>2, <1>6 DEF Fits, LinkTypeOK, wallet
  <1>8. RowsFit'
    <2>1. \A l \in Links : links'[l].acked <= Len(outbox') /\ links'[l].start <= Len(outbox')
      BY <1>1, <1>2, <1>3 DEF Fits, RowsFit, LinkRow
    <2>2. \A n \in 1..Len(outbox') : outbox'[n].link # NoLink => Made(outbox'[n].link, links)
      BY <1>0, <1>2 DEF Fits, RowsFit, Longer
    <2> QED BY <1>1, <2>1, <2>2 DEF Fits, RowsFit, wallet
  <1>9. JobFits' BY <1>1, <1>4, <1>6 DEF Fits, JobFits
  <1>10. NetFits'
    <2>1. \A S : S \subseteq 1..Len(outbox) => S \subseteq 1..Len(outbox') BY <1>2
    <2> QED BY <1>1, <2>1 DEF Fits, NetFits
  <1> QED BY <1>7, <1>8, <1>9, <1>10 DEF Fits

(* The event of a backfill, and the link that is ready then. *)
LEMMA FillCommitsFits ==
  ASSUME Fits, NEW p \in Fillers, FillCommits(p)
  PROVE  Fits'
  <1> DEFINE l == fill[p].link
  <1>0. /\ l \in Links /\ Made(l, links)
        /\ outbox' \in Seq(Event) /\ Longer(outbox, outbox') /\ Len(outbox') = Len(outbox) + 1
        /\ outbox'[Len(outbox')].link = l
    <2>1. Made(l, links) BY DEF Fits, JobFits, FillCommits
    <2>2. /\ l \in Links
          /\ outbox' \in Seq(Event) /\ Longer(outbox, outbox') /\ Len(outbox') = Len(outbox) + 1
          /\ outbox'[Len(outbox')] = [kind |-> "row", ver |-> fill[p].read, link |-> l]
      BY FillWrites
    <2> QED BY <2>1, <2>2
  <1>1. /\ UNCHANGED <<wallet, pruned, request, job, net, klick, owed, tainted, fails>>
        /\ links' = [links EXCEPT ![l].ready = TRUE] /\ fill' = [fill EXCEPT ![p] = Off]
    BY DEF FillCommits
  <1>2. Len(outbox) \in Nat /\ Len(outbox') \in Nat /\ Len(outbox) <= Len(outbox')
    BY <1>0, LenProperties DEF Fits, LinkTypeOK, Longer
  <1>3. links \in [Links -> LinkRow] /\ fill \in [Fillers -> FillRow] BY DEF Fits, LinkTypeOK
  <1>4. /\ links' \in [Links -> LinkRow]
        /\ \A m \in Links : /\ links'[m].status = links[m].status /\ links'[m].ref = links[m].ref
                            /\ links'[m].acked = links[m].acked /\ links'[m].start = links[m].start
    <2> DEFINE new == [links[l] EXCEPT !.ready = TRUE]
    <2>1. links[l] \in LinkRow BY <1>0, <1>3
    <2>2. /\ new \in LinkRow /\ new.status = links[l].status /\ new.ref = links[l].ref
          /\ new.acked = links[l].acked /\ new.start = links[l].start
      BY <2>1 DEF LinkRow
    <2>3. links' = [links EXCEPT ![l] = new] BY <1>1
    <2> HIDE DEF new, l
    <2> QED BY <1>3, <2>2, <2>3
  <1>5. fill' \in [Fillers -> FillRow] /\ \A q \in Fillers : fill'[q] = fill[q] \/ fill'[q].pc = "off"
    BY <1>1, <1>3, RestingIs
  <1> HIDE DEF l
  <1>6. \A m : Made(m, links) => Made(m, links') BY <1>4 DEF Made
  <1>7. LinkTypeOK' BY <1>0, <1>1, <1>2, <1>4, <1>5 DEF Fits, LinkTypeOK, wallet
  <1>8. RowsFit'
    <2>1. \A m \in Links : links'[m].acked <= Len(outbox') /\ links'[m].start <= Len(outbox')
      BY <1>2, <1>3, <1>4 DEF Fits, RowsFit, LinkRow
    <2>2. \A n \in 1..Len(outbox') : outbox'[n].link # NoLink => Made(outbox'[n].link, links')
      <3> TAKE n \in 1..Len(outbox')
      <3>1. CASE n = Len(outbox') BY <1>0, <1>6, <3>1
      <3>2. CASE n # Len(outbox')
        <4>1. n \in 1..Len(outbox) BY <1>0, <1>2, <3>2
        <4> QED BY <1>0, <1>6, <4>1 DEF Longer, Fits, RowsFit
      <3> QED BY <3>1, <3>2
    <2> QED BY <1>1, <1>4, <2>1, <2>2 DEF Fits, RowsFit, wallet
  <1>9. JobFits'
    <2>1. job.pc \in {"post", "wait"} =>
            job.batch # {} /\ job.batch \subseteq (links'[job.link].acked + 1)..Len(outbox')
      <3> SUFFICES ASSUME job.pc \in {"post", "wait"}
                   PROVE  job.batch # {} /\ job.batch \subseteq (links'[job.link].acked + 1)..Len(outbox')
        OBVIOUS
      <3>1. /\ job.link \in Links /\ job.batch # {}
            /\ job.batch \subseteq (links[job.link].acked + 1)..Len(outbox)
        BY DEF Fits, JobFits, Made
      <3>2. links'[job.link].acked = links[job.link].acked /\ links[job.link].acked \in Nat
        BY <1>3, <1>4, <3>1 DEF LinkRow
      <3> QED BY <1>2, <3>1, <3>2
    <2> QED BY <1>1, <1>5, <1>6, <2>1 DEF Fits, JobFits
  <1>10. NetFits'
    <2>1. \A S : S \subseteq 1..Len(outbox) => S \subseteq 1..Len(outbox') BY <1>2
    <2> QED BY <1>1, <2>1 DEF Fits, NetFits
  <1> QED BY <1>7, <1>8, <1>9, <1>10 DEF Fits

(* Old events are deleted. *)
LEMMA PruneFits ==
  ASSUME Fits, Prune
  PROVE  /\ Fits'
         /\ UNCHANGED <<wallet, outbox, links, request, job, fill, net, klick, owed, tainted, fails>>
         /\ \A l \in Links : Connected(l) => pruned' <= links[l].acked
  <1> DEFINE keep == {links[l].acked : l \in {m \in Links : Connected(m)}}
  <1>0. /\ links \in [Links -> LinkRow] /\ Len(outbox) \in Nat /\ pruned \in 0..Len(outbox)
        /\ \A l \in Links : links[l].acked <= Len(outbox)
    BY LenProperties DEF Fits, LinkTypeOK, RowsFit
  <1>1. UNCHANGED <<wallet, outbox, links, request, job, fill, net, klick, owed, tainted, fails>>
    BY DEF Prune
  <1>2. keep \in SUBSET Nat /\ \A n \in keep : n <= Len(outbox) BY <1>0 DEF LinkRow
  <1>3. PICK n \in (pruned + 1)..(IF keep = {} THEN Len(outbox) ELSE Min(keep)) : pruned' = n
    BY DEF Prune
  <1>4. \A l \in Links : Connected(l) => links[l].acked \in keep OBVIOUS
  <1> HIDE DEF keep
  <1>5. pruned' \in 0..Len(outbox) /\ \A m \in keep : pruned' <= m
    <2>1. CASE keep = {} BY <1>0, <1>3, <2>1
    <2>2. CASE keep # {}
      <3>1. Min(keep) \in keep /\ \A m \in keep : Min(keep) <= m BY <1>2, <2>2, MinIs
      <3>2. Min(keep) \in Nat /\ Min(keep) <= Len(outbox) /\ keep \subseteq Nat BY <1>2, <3>1
      <3> DEFINE least == Min(keep)
      <3>3. pruned' \in (pruned + 1)..least /\ least \in Nat BY <1>3, <2>2, <3>2
      <3> HIDE DEF least
      <3>4. pruned' \in Nat /\ pruned' <= least BY <1>0, <3>3
      <3>5. pruned' \in 0..Len(outbox) BY <1>0, <3>2, <3>4 DEF least
      <3>6. \A m \in keep : pruned' <= m BY <3>1, <3>2, <3>4 DEF least
      <3> QED BY <3>5, <3>6
    <2> QED BY <2>1, <2>2
  <1>6. Fits' BY <1>1, <1>5 DEF Fits, LinkTypeOK, RowsFit, JobFits, NetFits, wallet
  <1> QED BY <1>1, <1>4, <1>5, <1>6

(* A batch: some of the events the link has not acknowledged, none of them
   left out before the last one. *)
LEMMA BatchIs ==
  ASSUME Fits, NEW l \in Links, Pending(l) # {}
  PROVE  /\ Batch(l) # {} /\ Batch(l) \subseteq Pending(l)
         /\ Pending(l) \subseteq (links[l].acked + 1)..Len(outbox)
         /\ \A n \in Batch(l), m \in Pending(l) : m <= n => m \in Batch(l)
  <1>0. Len(outbox) \in Nat /\ links[l].acked \in Nat
    BY LenProperties DEF Fits, LinkTypeOK, LinkRow
  <1> DEFINE P == Pending(l)
             Upto(n) == {m \in P : m <= n}
  <1>1. P \subseteq (links[l].acked + 1)..Len(outbox) /\ P \subseteq Nat
    <2>1. P \subseteq (links[l].acked + 1)..Len(outbox) BY DEF Pending
    <2> HIDE DEF P
    <2> QED BY <1>0, <2>1
  <1>2. IsFiniteSet(P)
    <2> DEFINE a == links[l].acked + 1
               b == Len(outbox)
    <2>1. a \in Int /\ b \in Int /\ P \subseteq a..b BY <1>0, <1>1
    <2> HIDE DEF a, b, P
    <2>2. IsFiniteSet(a..b) BY <2>1, FS_Interval
    <2> QED BY <2>1, <2>2, FS_Subset
  <1>3. Batch(l) = {n \in P : Cardinality(Upto(n)) <= BatchSize} BY DEF Batch
  <1> HIDE DEF P
  <1>4. \A n \in P : IsFiniteSet(Upto(n)) BY <1>2, FS_Subset
  <1>5. ASSUME NEW n \in Batch(l), NEW m \in P, m <= n PROVE m \in Batch(l)
    <2>1. n \in P /\ m \in Nat /\ n \in Nat BY <1>1, <1>3
    <2>2. Upto(m) \subseteq Upto(n)
      <3> SUFFICES ASSUME NEW i \in P, i <= m PROVE i <= n OBVIOUS
      <3>1. i \in Nat BY <1>1
      <3> QED BY <1>5, <2>1, <3>1
    <2>3. /\ Cardinality(Upto(m)) <= Cardinality(Upto(n))
          /\ Cardinality(Upto(m)) \in Nat /\ Cardinality(Upto(n)) \in Nat
      <3>1. IsFiniteSet(Upto(n)) BY <1>4, <2>1
      <3>2. IsFiniteSet(Upto(m)) BY <1>4
      <3> HIDE DEF Upto
      <3> QED BY <2>2, <3>1, <3>2, FS_Subset, FS_CardinalityType
    <2>4. Cardinality(Upto(n)) <= BatchSize BY <1>3
    <2>5. BatchSize \in Nat BY LinkAssumption
    <2> HIDE DEF Upto
    <2>6. Cardinality(Upto(m)) <= BatchSize BY <2>3, <2>4, <2>5
    <2> QED BY <1>3, <2>6
  <1>6. Min(P) \in Batch(l)
    <2>1. P # {} BY DEF P
    <2>2. Min(P) \in P /\ \A n \in P : Min(P) <= n BY <1>1, <2>1, MinIs
    <2>3. \A n \in P : n \in Nat BY <1>1
    <2>4. Upto(Min(P)) = {Min(P)} BY <2>2, <2>3
    <2>5. Cardinality({Min(P)}) = 1 BY FS_Singleton
    <2>6. 1 <= BatchSize BY LinkAssumption
    <2> QED BY <1>3, <2>2, <2>4, <2>5, <2>6
  <1> QED BY <1>1, <1>3, <1>5, <1>6 DEF P

(* The batch that is waited for is left alone: every other one is what it was. *)
LEMMA BatchLeftIs ==
  ASSUME Fits, BatchLeft, \A i, j \in DOMAIN net : net[i].awaited /\ net[j].awaited => i = j
  PROVE  /\ net' \in Seq(BatchRow)
         /\ \A i \in DOMAIN net' :
              /\ ~net'[i].awaited
              /\ \E j \in DOMAIN net : net'[i].ref = net[j].ref /\ net'[i].rest = net[j].rest
  <1>0. net \in Seq(BatchRow) /\ Len(net) \in Nat /\ DOMAIN net = 1..Len(net)
    BY LenProperties DEF Fits, LinkTypeOK
  <1>r. \A i \in DOMAIN net : net[i] \in BatchRow BY <1>0
  <1>1. CASE net' = [i \in DOMAIN net |-> [net[i] EXCEPT !.awaited = FALSE]]
    <2>1. \A i \in DOMAIN net : /\ [net[i] EXCEPT !.awaited = FALSE] \in BatchRow
                                /\ [net[i] EXCEPT !.awaited = FALSE].ref = net[i].ref
                                /\ [net[i] EXCEPT !.awaited = FALSE].rest = net[i].rest
                                /\ ~[net[i] EXCEPT !.awaited = FALSE].awaited
      BY <1>r DEF BatchRow
    <2>2. net' \in [1..Len(net) -> BatchRow] BY <1>0, <1>1, <2>1
    <2>3. net' \in Seq(BatchRow) BY <1>0, <2>2
    <2> QED BY <1>1, <2>1, <2>3
  <1>2. ASSUME NEW i \in DOMAIN net, net[i].awaited, net' = RemoveAt(net, i)
        PROVE  /\ net' \in Seq(BatchRow)
               /\ \A j \in DOMAIN net' :
                    /\ ~net'[j].awaited
                    /\ \E q \in DOMAIN net : net'[j].ref = net[q].ref /\ net'[j].rest = net[q].rest
    <2>1. /\ net' \in Seq(BatchRow)
          /\ \A j \in DOMAIN net' : /\ (IF j < i THEN j ELSE j + 1) \in DOMAIN net \ {i}
                                     /\ net'[j] = net[IF j < i THEN j ELSE j + 1]
      BY <1>0, <1>2, RemoveAtIs
    <2> QED BY <1>2, <2>1
  <1> QED BY <1>1, <1>2 DEF BatchLeft

(* At most one batch is waited for, by the job, and klick has what it took of it. *)
Awaited ==
  /\ \A i, j \in DOMAIN net : net[i].awaited /\ net[j].awaited => i = j
  /\ \A i \in DOMAIN net : net[i].awaited =>
       /\ job.pc = "wait" /\ net[i].ref = links[job.link].ref
       /\ klick[net[i].ref].status = "active" =>
            job.batch \ net[i].rest \subseteq klick[net[i].ref].known

(* The job sends, gives up, dies. *)
LEMMA SendFits ==
  ASSUME Fits, Awaited, SendReads \/ Post \/ PostFails \/ AnswerLost \/ JobDies
  PROVE  Fits'
  <1>0. /\ fill \in [Fillers -> FillRow] /\ job \in JobRow /\ net \in Seq(BatchRow)
        /\ klick \in [KLinks -> KlickRow] /\ fails \in 0..MaxFails /\ links \in [Links -> LinkRow]
        /\ changes \subseteq Kinds /\ ver \in 0..MaxVer
        /\ \A p \in Fillers : fill[p].pc # "off" => Made(fill[p].link, links)
        /\ \A t \in job.todo : Made(t[1], links)
        /\ job.pc \notin {"take", "read"} => job.taken = {}
        /\ job.pc \in {"fill", "send", "post", "wait"} => Made(job.link, links)
        /\ job.pc \in {"post", "wait"} =>
             job.batch # {} /\ job.batch \subseteq (links[job.link].acked + 1)..Len(outbox)
        /\ \A i \in DOMAIN net : net[i].rest \subseteq 1..Len(outbox)
        /\ \A k \in KLinks : klick[k].known \subseteq 1..Len(outbox)
        /\ Len(outbox) \in Nat
    BY LenProperties DEF Fits, LinkTypeOK, JobFits, NetFits
  <1>1. UNCHANGED <<ver, alerted, writer, outbox, pruned, links, request, klick, owed, tainted>>
    BY DEF SendReads, Post, PostFails, AnswerLost, JobDies, wallet
  <1>2. fails' \in 0..MaxFails BY <1>0, FailFits DEF SendReads, Post, PostFails, AnswerLost, JobDies
  <1>3. ASSUME NEW row \in JobRow, job' = row, changes' \subseteq Kinds,
               fill' \in [Fillers -> FillRow],
               \A p \in Fillers : fill'[p].pc # "off" => Made(fill'[p].link, links),
               net' \in Seq(BatchRow), \A i \in DOMAIN net' : net'[i].rest \subseteq 1..Len(outbox),
               row.pc \notin {"take", "read"} => row.taken = {},
               \A t \in row.todo : Made(t[1], links),
               row.pc \in {"fill", "send", "post", "wait"} => Made(row.link, links),
               row.pc \in {"post", "wait"} =>
                 row.batch # {} /\ row.batch \subseteq (links[row.link].acked + 1)..Len(outbox)
        PROVE  Fits'
    BY <1>0, <1>1, <1>2, <1>3, WorkFits
  <1>4. CASE SendReads
    <2>0. job.pc = "send" /\ changes' = changes /\ fill' = fill /\ net' = net /\ Made(job.link, links)
      BY <1>0, <1>4 DEF SendReads, wallet
    <2>1. job.link \in Links BY <2>0 DEF Made
    <2> DEFINE l == job.link
               row == [job EXCEPT !.pc = "post", !.batch = Batch(l), !.token = links[l].token]
               out == [job EXCEPT !.pc = "links", !.link = NoLink]
    <2>2. \/ job' = row /\ Pending(l) # {}
          \/ job' = out
      BY <1>4 DEF SendReads
    <2>3. CASE job' = out
      <3>1. out \in JobRow /\ out.pc = "links" /\ out.todo = job.todo /\ out.taken = job.taken
        BY <1>0 DEF JobRow
      <3> HIDE DEF out
      <3> QED BY <1>0, <1>3, <2>0, <2>3, <3>1
    <2>4. CASE job' = row /\ Pending(l) # {}
      <3>1. Batch(l) # {} /\ Batch(l) \subseteq (links[l].acked + 1)..Len(outbox)
        BY <2>1, <2>4, BatchIs
      <3>2. links[l].token \in 0..MaxToken /\ links[l].acked \in Nat BY <1>0, <2>1 DEF LinkRow
      <3>3. Batch(l) \subseteq Nat BY <1>0, <3>1, <3>2
      <3>4. /\ row \in JobRow /\ row.pc = "post" /\ row.todo = job.todo /\ row.taken = job.taken
            /\ row.batch = Batch(l) /\ row.link = l
        BY <1>0, <3>2, <3>3 DEF JobRow
      <3> HIDE DEF row
      <3> QED BY <1>0, <1>3, <2>0, <2>4, <3>1, <3>4
    <2> QED BY <2>2, <2>3, <2>4
  <1>5. CASE Post
    <2>0. /\ job.pc = "post" /\ changes' = changes /\ fill' = fill /\ Made(job.link, links)
          /\ net' = Append(net, [ref |-> links[job.link].ref, rest |-> job.batch, awaited |-> TRUE])
      BY <1>0, <1>5 DEF Post, wallet
    <2> DEFINE row == [job EXCEPT !.pc = "wait"]
               new == [ref |-> links[job.link].ref, rest |-> job.batch, awaited |-> TRUE]
    <2>1. /\ row \in JobRow /\ row.pc = "wait" /\ row.todo = job.todo /\ row.taken = job.taken
          /\ row.batch = job.batch /\ row.link = job.link
      BY <1>0 DEF JobRow
    <2>2. links[job.link].ref \in KLinks /\ job.batch \subseteq 1..Len(outbox)
      <3>1. job.link \in Links /\ links[job.link].acked \in Nat BY <1>0, <2>0 DEF Made, LinkRow
      <3>2. job.batch \subseteq (links[job.link].acked + 1)..Len(outbox) BY <1>0, <2>0
      <3> QED BY <1>0, <2>0, <3>1, <3>2 DEF Fits, RowsFit, Made
    <2>3. new \in BatchRow /\ new.rest = job.batch BY <1>0, <2>2 DEF BatchRow, JobRow
    <2> HIDE DEF new
    <2>4. net' = Append(net, new) BY <2>0 DEF new
    <2>5. /\ net' \in Seq(BatchRow) /\ Len(net') = Len(net) + 1
          /\ \A i \in 1..Len(net) : net'[i] = net[i]
          /\ net'[Len(net) + 1] = new
      BY <1>0, <2>3, <2>4, AppendProperties
    <2>6. DOMAIN net' = 1..Len(net') /\ DOMAIN net = 1..Len(net) /\ Len(net) \in Nat
      BY <1>0, <2>5, LenProperties
    <2>7. \A i \in DOMAIN net' : net'[i].rest \subseteq 1..Len(outbox)
      <3> TAKE i \in DOMAIN net'
      <3>1. CASE i = Len(net) + 1 BY <2>2, <2>3, <2>5, <3>1
      <3>2. CASE i # Len(net) + 1
        <4>1. i \in 1..Len(net) BY <2>5, <2>6, <3>2
        <4> QED BY <1>0, <2>5, <2>6, <4>1
      <3> QED BY <3>1, <3>2
    <2>8. job' = row BY <1>5 DEF Post
    <2> HIDE DEF row
    <2> QED BY <1>0, <1>3, <2>0, <2>1, <2>5, <2>7, <2>8
  <1>6. CASE PostFails \/ AnswerLost
    <2>1. job' = Done /\ changes' = changes /\ fill' = fill /\ job.pc \in {"post", "wait"}
      BY <1>6 DEF PostFails, AnswerLost, wallet
    <2>2. net' \in Seq(BatchRow) /\ \A i \in DOMAIN net' : net'[i].rest \subseteq 1..Len(outbox)
      <3>1. CASE PostFails BY <1>0, <3>1 DEF PostFails
      <3>2. CASE AnswerLost
        <4>1. /\ net' \in Seq(BatchRow)
              /\ \A i \in DOMAIN net' : \E j \in DOMAIN net : net'[i].rest = net[j].rest
          BY <3>2, BatchLeftIs DEF AnswerLost, Awaited
        <4> QED BY <1>0, <4>1
      <3> QED BY <1>6, <3>1, <3>2
    <2>3. Done \in JobRow /\ Done.pc = "links" /\ Done.todo = job.todo /\ Done.taken = job.taken
      BY <1>0, DoneIs
    <2> QED BY <1>0, <1>3, <2>1, <2>2, <2>3
  <1>7. CASE JobDies
    <2>1. /\ job' = Resting /\ fill' = [fill EXCEPT !["job"] = Off] /\ BatchLeft
          /\ changes' = changes \/ changes' = changes \cup job.taken
      BY <1>7 DEF JobDies
    <2>2. net' \in Seq(BatchRow) /\ \A i \in DOMAIN net' : net'[i].rest \subseteq 1..Len(outbox)
      <3>1. /\ net' \in Seq(BatchRow)
            /\ \A i \in DOMAIN net' : \E j \in DOMAIN net : net'[i].rest = net[j].rest
        BY <2>1, BatchLeftIs DEF Awaited
      <3> QED BY <1>0, <3>1
    <2>3. /\ fill' \in [Fillers -> FillRow]
          /\ \A p \in Fillers : fill'[p].pc # "off" => Made(fill'[p].link, links)
      BY <1>0, <2>1, RestingIs
    <2>4. changes' \subseteq Kinds BY <1>0, <2>1 DEF JobRow
    <2> QED BY <1>3, <2>1, <2>2, <2>3, <2>4, RestingIs
  <1> QED BY <1>4, <1>5, <1>6, <1>7

(* An answer that came in time. *)
LEMMA AnsweredIs ==
  ASSUME Fits, Answered
  PROVE  /\ Fits'
         /\ job.pc = "wait" /\ job.link \in Links
         /\ Max(job.batch) \in job.batch /\ \A n \in job.batch : n <= Max(job.batch)
         /\ job'.pc = "send" /\ job'.link = job.link /\ job'.taken = job.taken
         /\ \A l \in Links :
              /\ links'[l].status = links[l].status /\ links'[l].ref = links[l].ref
              /\ links'[l].start = links[l].start /\ links'[l].ready = links[l].ready
              /\ l # job.link => links'[l].acked = links[l].acked
         /\ links'[job.link].acked = Max(job.batch)
         /\ \E i \in DOMAIN net : net[i].awaited /\ net[i].rest = {} /\ net' = RemoveAt(net, i)
  <1>0. /\ job \in JobRow /\ net \in Seq(BatchRow) /\ links \in [Links -> LinkRow]
        /\ request \in [Links -> RequestRow] /\ fails \in 0..MaxFails /\ tainted \in BOOLEAN
        /\ job.pc = "wait" /\ job.taken = {} /\ Made(job.link, links) /\ job.link \in Links
        /\ job.batch # {} /\ job.batch \subseteq (links[job.link].acked + 1)..Len(outbox)
        /\ \A i \in DOMAIN net : net[i].rest \subseteq 1..Len(outbox)
        /\ \A l \in Links : links[l].acked <= Len(outbox)
        /\ Len(outbox) \in Nat
    BY LenProperties DEF Fits, LinkTypeOK, RowsFit, JobFits, NetFits, Answered, Made
  <1> DEFINE top == Max(job.batch)
  <1>1. /\ top \in job.batch /\ \A n \in job.batch : n <= top
        /\ top \in Nat /\ top <= Len(outbox)
    <2>1. links[job.link].acked \in Nat BY <1>0 DEF LinkRow
    <2>2. job.batch \in SUBSET (0..Len(outbox)) BY <1>0, <2>1
    <2>3. top \in job.batch /\ \A n \in job.batch : n <= top BY <1>0, <2>2, MaxIs
    <2> HIDE DEF top
    <2> QED BY <1>0, <2>2, <2>3
  <1> HIDE DEF top
  <1>2. /\ links' = [links EXCEPT ![job.link].acked = top]
        /\ job' = [job EXCEPT !.pc = "send", !.batch = {}, !.token = 0]
        /\ UNCHANGED <<wallet, outbox, pruned, request, fill, klick, owed, tainted, fails>>
    BY DEF Answered, top
  <1>3. PICK i \in DOMAIN net : net[i].awaited /\ net[i].rest = {} /\ net' = RemoveAt(net, i)
    BY DEF Answered
  <1>4. net' \in Seq(BatchRow) /\ \A j \in DOMAIN net' : net'[j].rest \subseteq 1..Len(outbox)
    <2>1. /\ net' \in Seq(BatchRow)
          /\ \A j \in DOMAIN net' : /\ (IF j < i THEN j ELSE j + 1) \in DOMAIN net \ {i}
                                    /\ net'[j] = net[IF j < i THEN j ELSE j + 1]
      BY <1>0, <1>3, RemoveAtIs
    <2> QED BY <1>0, <2>1
  <1>5. /\ links' \in [Links -> LinkRow]
        /\ \A l \in Links :
             /\ links'[l].status = links[l].status /\ links'[l].ref = links[l].ref
             /\ links'[l].start = links[l].start /\ links'[l].ready = links[l].ready
             /\ l # job.link => links'[l] = links[l]
        /\ links'[job.link].acked = top
    <2> DEFINE row == [links[job.link] EXCEPT !.acked = top]
    <2>0. links[job.link] \in LinkRow BY <1>0
    <2>1. /\ row \in LinkRow /\ row.status = links[job.link].status /\ row.ref = links[job.link].ref
          /\ row.start = links[job.link].start /\ row.acked = top
      BY <1>1, <2>0 DEF LinkRow
    <2>2. row.ready = links[job.link].ready BY <2>0 DEF LinkRow
    <2>3. links' = [links EXCEPT ![job.link] = row] BY <1>0, <1>2
    <2> HIDE DEF row
    <2> QED BY <1>0, <2>1, <2>2, <2>3
  <1>6. /\ job' \in JobRow /\ job'.pc = "send" /\ job'.link = job.link /\ job'.taken = {}
        /\ job'.todo = job.todo
    <2>1. 0 \in 0..MaxToken BY LinkAssumption
    <2> QED BY <1>0, <1>2, <2>1 DEF JobRow
  <1>7. /\ \A l \in Links :
             /\ links'[l] # links[l] => links[l].status # "none" /\ links'[l].status # "none"
             /\ links'[l].acked <= Len(outbox)
        /\ \A l \in Links : request'[l] \in {request[l], Idle}
    BY <1>0, <1>1, <1>2, <1>5 DEF Made
  <1>8. Fits'
    BY <1>0, <1>2, <1>4, <1>5, <1>6, <1>7, LinkFits
  <1> QED BY <1>0, <1>1, <1>3, <1>5, <1>6, <1>8 DEF top

(* klick takes the next event of a batch, if the link is active. *)
LEMMA ReceiveIs ==
  ASSUME Fits, NEW i \in DOMAIN net, ReceiveEvent(i)
  PROVE  /\ Fits'
         /\ UNCHANGED <<wallet, outbox, pruned, links, request, job, fill, owed, tainted, fails>>
         /\ Min(net[i].rest) \in net[i].rest /\ \A n \in net[i].rest : Min(net[i].rest) <= n
         /\ DOMAIN net' = DOMAIN net
         /\ \A j \in DOMAIN net : /\ net'[j].ref = net[j].ref /\ net'[j].awaited = net[j].awaited
                                  /\ j # i => net'[j].rest = net[j].rest
         /\ net'[i].rest = net[i].rest \ {Min(net[i].rest)}
         /\ \A k \in KLinks :
              /\ klick'[k].status = klick[k].status
              /\ k # net[i].ref => klick'[k].known = klick[k].known
         /\ klick'[net[i].ref].known =
              IF klick[net[i].ref].status = "active"
              THEN klick[net[i].ref].known \cup {Min(net[i].rest)} ELSE klick[net[i].ref].known
  <1> DEFINE k == net[i].ref
             n == Min(net[i].rest)
  <1>0. /\ net \in Seq(BatchRow) /\ DOMAIN net = 1..Len(net) /\ Len(net) \in Nat /\ net[i] \in BatchRow
        /\ klick \in [KLinks -> KlickRow] /\ k \in KLinks /\ klick[k] \in KlickRow
        /\ net[i].rest \subseteq 1..Len(outbox) /\ net[i].rest # {}
        /\ outbox \in Seq(Event) /\ Len(outbox) \in Nat
        /\ \A j \in DOMAIN net : net[j].rest \subseteq 1..Len(outbox)
        /\ \A q \in KLinks : klick[q].known \subseteq 1..Len(outbox)
    <2>1. net \in Seq(BatchRow) /\ klick \in [KLinks -> KlickRow] /\ outbox \in Seq(Event)
      BY DEF Fits, LinkTypeOK
    <2>2. DOMAIN net = 1..Len(net) /\ Len(net) \in Nat /\ net[i] \in BatchRow /\ Len(outbox) \in Nat
      BY <2>1, LenProperties
    <2>3. k \in KLinks BY <2>2 DEF BatchRow
    <2> QED BY <2>1, <2>2, <2>3 DEF Fits, NetFits, ReceiveEvent
  <1>1. UNCHANGED <<wallet, outbox, pruned, links, request, job, fill, owed, tainted, fails>>
    BY DEF ReceiveEvent
  <1>2. n \in net[i].rest /\ (\A m \in net[i].rest : n <= m)
    <2>1. net[i].rest \in SUBSET Nat BY <1>0
    <2> QED BY <1>0, <2>1, MinIs
  <1>3. n \in 1..Len(outbox) /\ outbox[n] \in Event BY <1>0, <1>2, LenProperties
  <1>4. /\ klick' = IF klick[k].status = "active"
                    THEN [klick EXCEPT ![k] = Applied(klick[k], n, outbox[n])] ELSE klick
        /\ net' = [net EXCEPT ![i].rest = net[i].rest \ {n}]
    BY DEF ReceiveEvent
  <1> HIDE DEF k, n
  <1>5. /\ Applied(klick[k], n, outbox[n]) \in KlickRow
        /\ Applied(klick[k], n, outbox[n]).known = klick[k].known \cup {n}
        /\ Applied(klick[k], n, outbox[n]).status = klick[k].status
    <2> DEFINE e == outbox[n]
               r == klick[k]
    <2>0. r \in KlickRow /\ e \in Event /\ n \in Nat BY <1>0, <1>3
    <2> HIDE DEF e, r
    <2>1. RowApplied(r, n, e) \in KlickRow /\ RowApplied(r, n, e).known = r.known
          /\ RowApplied(r, n, e).status = r.status
      BY <2>0 DEF RowApplied, KlickRow, Event
    <2>2. AlertApplied(r) \in KlickRow /\ AlertApplied(r).known = r.known
          /\ AlertApplied(r).status = r.status
      BY <2>0 DEF AlertApplied, KlickRow
    <2>3. CASE n \in r.known BY <2>0, <2>3 DEF Applied, e, r
    <2>4. CASE n \notin r.known
      <3> DEFINE x == IF e.kind = "row" THEN RowApplied(r, n, e) ELSE AlertApplied(r)
      <3>1. x \in KlickRow /\ x.known = r.known /\ x.status = r.status BY <2>1, <2>2
      <3>2. Applied(r, n, e) = [x EXCEPT !.known = x.known \cup {n}] BY <2>4 DEF Applied
      <3> HIDE DEF x
      <3>3. Applied(r, n, e) \in KlickRow BY <2>0, <3>1, <3>2 DEF KlickRow
      <3> QED BY <3>1, <3>2, <3>3 DEF e, r, KlickRow
    <2> QED BY <2>3, <2>4
  <1>6. /\ klick' \in [KLinks -> KlickRow]
        /\ \A q \in KLinks : /\ klick'[q].status = klick[q].status
                             /\ q # k => klick'[q] = klick[q]
        /\ klick'[k].known = IF klick[k].status = "active" THEN klick[k].known \cup {n} ELSE klick[k].known
    BY <1>0, <1>4, <1>5
  <1>7. [net[i] EXCEPT !.rest = net[i].rest \ {n}] \in BatchRow BY <1>0 DEF BatchRow
  <1>8. /\ net' \in Seq(BatchRow) /\ DOMAIN net' = DOMAIN net
        /\ \A j \in DOMAIN net : /\ net'[j].ref = net[j].ref /\ net'[j].awaited = net[j].awaited
                                 /\ j # i => net'[j] = net[j]
        /\ net'[i].rest = net[i].rest \ {n}
    <2>1. net' = [net EXCEPT ![i] = [net[i] EXCEPT !.rest = net[i].rest \ {n}]] BY <1>4
    <2>2. net' \in [1..Len(net) -> BatchRow] BY <1>0, <1>7, <2>1
    <2> QED BY <1>0, <1>7, <2>1, <2>2 DEF BatchRow
  <1>9. Fits'
    <2>1. \A j \in DOMAIN net' : net'[j].rest \subseteq 1..Len(outbox) BY <1>0, <1>8
    <2>2. \A q \in KLinks : klick'[q].known \subseteq 1..Len(outbox) BY <1>0, <1>3, <1>6
    <2>3. changes' = changes /\ fill' = fill /\ job' = job /\ fails' = fails BY <1>1 DEF wallet
    <2> QED BY <1>1, <1>6, <1>8, <2>1, <2>2, <2>3, WorkFits DEF Fits, LinkTypeOK, JobFits, wallet
  <1> QED BY <1>1, <1>2, <1>6, <1>8, <1>9 DEF k, n

(* A batch nobody waits for ends. *)
LEMMA BatchEndsFits ==
  ASSUME Fits, NEW i \in DOMAIN net, BatchEnds(i)
  PROVE  Fits'
  <1>1. /\ UNCHANGED <<wallet, outbox, pruned, links, request, job, fill, klick, owed, tainted, fails>>
        /\ net' = RemoveAt(net, i)
    BY DEF BatchEnds
  <1>2. net \in Seq(BatchRow) BY DEF Fits, LinkTypeOK
  <1>3. /\ net' \in Seq(BatchRow)
        /\ \A j \in DOMAIN net' : /\ (IF j < i THEN j ELSE j + 1) \in DOMAIN net \ {i}
                                  /\ net'[j] = net[IF j < i THEN j ELSE j + 1]
    BY <1>1, <1>2, RemoveAtIs
  <1>4. \A j \in DOMAIN net' : net'[j].rest \subseteq 1..Len(outbox) BY <1>3 DEF Fits, NetFits
  <1>5. LinkTypeOK' BY <1>1, <1>3 DEF Fits, LinkTypeOK, wallet
  <1> QED BY <1>1, <1>4, <1>5 DEF Fits, RowsFit, JobFits, NetFits, wallet

(* The steps, in the groups of the lemmas. *)
LEMMA LinkSteps ==
  ASSUME Next
  PROVE  \/ \E k \in Kinds : WriterBegins(k) \/ WriterCommits(k) \/ WriterRollsBack(k)
         \/ \/ \E l \in Links, k \in KLinks : ConnectHello(l, k) \/ RenewHello(l, k)
            \/ \E l \in Links : RequestDies(l)
            \/ \E k \in KLinks : NewToken(k) \/ KlickRevokes(k)
         \/ \/ \E l \in Links : Renew(l) \/ Pause(l) \/ Resume(l) \/ Revoke(l)
            \/ PostRefused
         \/ \E l \in Links : Connect(l)
         \/ \/ \E p \in Fillers : FillBegins(p) \/ FillReads(p)
            \/ FillDies
         \/ JobTakes \/ JobReads \/ JobNext \/ JobFilled \/ JobEnds
         \/ JobCommits
         \/ \E p \in Fillers : FillCommits(p)
         \/ Prune
         \/ SendReads \/ Post \/ PostFails \/ AnswerLost \/ JobDies
         \/ Answered
         \/ \E i \in DOMAIN net : ReceiveEvent(i)
         \/ \E i \in DOMAIN net : BatchEnds(i)
  <1>1. CASE Writing BY <1>1, Zenon DEF Writing
  <1>2. CASE Users BY <1>2, Zenon DEF Users
  <1>3. CASE (\E p \in Fillers : Filling(p)) \/ FillDies BY <1>3, Zenon DEF Filling
  <1>4. CASE Exporting \/ JobDies BY <1>4, Zenon DEF Exporting
  <1>5. CASE Sending \/ PostFails \/ AnswerLost \/ Prune BY <1>5, Zenon DEF Sending
  <1>6. CASE Receiving \/ (\E k \in KLinks : NewToken(k) \/ KlickRevokes(k))
    BY <1>6, Zenon DEF Receiving
  <1> QED BY <1>1, <1>2, <1>3, <1>4, <1>5, <1>6, Zenon DEF Next

(* The types are preserved. *)
LEMMA FitsStep ==
  ASSUME Fits, Awaited, Next
  PROVE  Fits'
  BY LinkSteps, WritingFits, CallsFit, StatusFits, ConnectFits, FillingFits, ExportFits,
     JobCommitsFits, FillCommitsFits, PruneFits, SendFits, AnsweredIs, ReceiveIs, BatchEndsFits, Zenon

(* What no step takes back: a link that was made, its klick link and its
   start, an event, what klick knows, that a klick link was revoked, and that
   the history is tainted.  A revoked link that is connected again taints it. *)
Lasting ==
  /\ LinksLast(links, links') /\ Longer(outbox, outbox')
  /\ \A k \in KLinks : /\ klick[k].known \subseteq klick'[k].known
                       /\ klick'[k].status = "active" => klick[k].status = "active"
  /\ tainted => tainted'
  /\ ~tainted' => \A l \in Links : Made(l, links) /\ Connected(l)' => Connected(l)

(* No step does. *)
LEMMA LastingStep ==
  ASSUME Fits, Awaited, Next
  PROVE  Lasting
  <1>0. /\ links \in [Links -> LinkRow] /\ Len(outbox) \in Nat /\ klick \in [KLinks -> KlickRow]
        /\ request \in [Links -> RequestRow]
    BY LenProperties DEF Fits, LinkTypeOK
  <1>1. ASSUME links' = links PROVE LinksLast(links, links') /\ \A l \in Links : Connected(l)' => Connected(l)
    BY <1>1 DEF LinksLast, Connected, Made
  <1>2. ASSUME outbox' = outbox PROVE Longer(outbox, outbox') BY <1>0, <1>2 DEF Longer
  <1>3. ASSUME klick' = klick
        PROVE  \A k \in KLinks : /\ klick[k].known \subseteq klick'[k].known
                                 /\ klick'[k].status = "active" => klick[k].status = "active"
    BY <1>3
  <1>4. CASE UNCHANGED <<outbox, links, klick, tainted>>
    <2>1. links' = links /\ outbox' = outbox /\ klick' = klick /\ tainted' = tainted BY <1>4
    <2> QED BY <1>1, <1>2, <1>3, <2>1 DEF Lasting
  <1>5. CASE \/ \E l \in Links, k \in KLinks : ConnectHello(l, k) \/ RenewHello(l, k)
             \/ \E k \in KLinks : NewToken(k) \/ KlickRevokes(k)
    <2>1. links' = links /\ outbox' = outbox /\ tainted' = tainted
      BY <1>5 DEF ConnectHello, RenewHello, NewToken, KlickRevokes
    <2>2. \A k \in KLinks : /\ klick[k].known \subseteq klick'[k].known
                            /\ klick'[k].status = "active" => klick[k].status = "active"
      <3>1. CASE \E l \in Links, k \in KLinks : ConnectHello(l, k) \/ RenewHello(l, k)
        <4>1. PICK l \in Links, k \in KLinks : klick' = [klick EXCEPT ![k].bound = l]
          BY <3>1 DEF ConnectHello, RenewHello, Hello
        <4> QED BY <1>0, <4>1 DEF KlickRow
      <3>2. CASE \E k \in KLinks : NewToken(k) \/ KlickRevokes(k)
        <4>1. PICK k \in KLinks : NewToken(k) \/ KlickRevokes(k) BY <3>2
        <4>2. /\ \A q \in KLinks : q # k => klick'[q] = klick[q]
              /\ klick[k].status = "active" /\ klick'[k].known = klick[k].known
          <5>1. CASE NewToken(k) BY <1>0, <5>1 DEF NewToken, KlickRow
          <5>2. CASE KlickRevokes(k) BY <1>0, <5>2 DEF KlickRevokes, KlickRow
          <5> QED BY <4>1, <5>1, <5>2
        <4> QED BY <4>2
      <3> QED BY <1>5, <3>1, <3>2
    <2> QED BY <1>1, <1>2, <2>1, <2>2 DEF Lasting
  <1>6. CASE \/ \E l \in Links : Renew(l) \/ Pause(l) \/ Resume(l) \/ Revoke(l)
             \/ PostRefused
    <2> DEFINE Changes(l) ==
          /\ links[l].status # "none"
          /\ \/ \E s \in {"active", "paused", "revoked"} : links' = [links EXCEPT ![l].status = s]
             \/ links' = [links EXCEPT ![l].token = request[l].token, ![l].status = "active"]
          /\ tainted => tainted'
          /\ Connected(l) \/ links'[l].status = "revoked" \/ tainted'
    <2>s. \A l \in Links : links[l].status \in {"none", "active", "paused", "revoked"}
      BY <1>0 DEF LinkRow
    <2>1. PICK l \in Links : Changes(l)
      <3>1. ASSUME NEW l \in Links, Renew(l) PROVE Changes(l)
        <4>1. links[l].status # "none" BY <3>1 DEF Renew, Fits, RowsFit
        <4> QED BY <2>s, <3>1, <4>1 DEF Renew, Revives, Connected
      <3>2. ASSUME NEW l \in Links, Pause(l) \/ Resume(l) \/ Revoke(l) PROVE Changes(l)
        BY <1>0, <3>2 DEF Pause, Resume, Revoke, Connected
      <3>3. CASE PostRefused
        <4>1. job.link \in Links /\ links[job.link].status # "none"
          BY <3>3 DEF PostRefused, Fits, JobFits, Made
        <4>2. Changes(job.link) BY <2>s, <3>3, <4>1 DEF PostRefused, Revives, Connected
        <4> QED BY <4>1, <4>2
      <3> QED BY <1>6, <3>1, <3>2, <3>3
    <2>2. /\ \A m \in Links : m # l => links'[m] = links[m]
          /\ links'[l].ref = links[l].ref /\ links'[l].start = links[l].start
          /\ links'[l].status # "none"
      BY <1>0, <2>1 DEF LinkRow
    <2>3. outbox' = outbox /\ klick' = klick
      BY <1>6 DEF Renew, Pause, Resume, Revoke, PostRefused
    <2>4. LinksLast(links, links') BY <2>2 DEF LinksLast, Made
    <2>5. tainted => tainted' BY <2>1
    <2>6. ASSUME ~tainted', NEW m \in Links, Connected(m)' PROVE Connected(m)
      <3>1. CASE m # l BY <2>2, <2>6, <3>1 DEF Connected
      <3>2. CASE m = l BY <2>1, <2>6, <3>2 DEF Connected
      <3> QED BY <3>1, <3>2
    <2> QED BY <1>2, <1>3, <2>3, <2>4, <2>5, <2>6 DEF Lasting
  <1>7. ASSUME NEW l \in Links, Connect(l) PROVE Lasting
    <2>1. /\ links[l].status = "none" /\ outbox' = outbox /\ klick' = klick
          /\ \A m \in Links : m # l => links'[m] = links[m]
          /\ tainted => tainted'
      <3>1. links[l].status = "none" BY <1>7 DEF Connect, Fits, RowsFit
      <3>2. \A m \in Links : m # l => links'[m] = links[m] BY <1>0, <1>7 DEF Connect
      <3>3. outbox' = outbox /\ klick' = klick BY <1>7 DEF Connect
      <3>4. tainted => tainted' BY <1>7 DEF Connect
      <3> QED BY <3>1, <3>2, <3>3, <3>4
    <2>2. LinksLast(links, links') BY <2>1 DEF LinksLast, Made
    <2>3. \A m \in Links : Made(m, links) /\ Connected(m)' => Connected(m) BY <2>1 DEF Made, Connected
    <2> QED BY <1>2, <1>3, <2>1, <2>2, <2>3 DEF Lasting
  <1>8. CASE JobCommits
    <2>1. Longer(outbox, outbox') BY <1>8, JobWrites
    <2>2. links' = links /\ klick' = klick /\ tainted' = tainted BY <1>8 DEF JobCommits
    <2> QED BY <1>1, <1>3, <2>1, <2>2 DEF Lasting
  <1>9. ASSUME NEW p \in Fillers, FillCommits(p) PROVE Lasting
    <2>1. Longer(outbox, outbox') /\ fill[p].link \in Links BY <1>9, FillWrites
    <2>2. links' = [links EXCEPT ![fill[p].link].ready = TRUE] /\ klick' = klick /\ tainted' = tainted
      BY <1>9 DEF FillCommits
    <2>3. \A l \in Links : /\ links'[l].status = links[l].status /\ links'[l].ref = links[l].ref
                           /\ links'[l].start = links[l].start
      BY <1>0, <2>1, <2>2 DEF LinkRow
    <2> QED BY <1>3, <2>1, <2>2, <2>3 DEF Lasting, LinksLast, Made, Connected
  <1>10. CASE Answered
    <2>1. /\ \A l \in Links : /\ links'[l].status = links[l].status /\ links'[l].ref = links[l].ref
                              /\ links'[l].start = links[l].start
      BY <1>10, AnsweredIs
    <2>2. outbox' = outbox /\ klick' = klick /\ tainted' = tainted BY <1>10 DEF Answered
    <2> QED BY <1>2, <1>3, <2>1, <2>2 DEF Lasting, LinksLast, Made, Connected
  <1>11. ASSUME NEW i \in DOMAIN net, ReceiveEvent(i) PROVE Lasting
    <2>1. links' = links /\ outbox' = outbox /\ tainted' = tainted BY <1>11 DEF ReceiveEvent
    <2>2. \A k \in KLinks : /\ klick[k].known \subseteq klick'[k].known
                            /\ klick'[k].status = klick[k].status
      BY <1>11, ReceiveIs
    <2> QED BY <1>1, <1>2, <2>1, <2>2 DEF Lasting
  <1>12. CASE \/ \E k \in Kinds : WriterBegins(k) \/ WriterCommits(k) \/ WriterRollsBack(k)
              \/ \E l \in Links : RequestDies(l)
              \/ \E p \in Fillers : FillBegins(p) \/ FillReads(p)
              \/ FillDies
              \/ JobTakes \/ JobReads \/ JobNext \/ JobFilled \/ JobEnds
              \/ Prune
              \/ SendReads \/ Post \/ PostFails \/ AnswerLost \/ JobDies
              \/ \E i \in DOMAIN net : BatchEnds(i)
    <2>1. UNCHANGED <<outbox, links, klick, tainted>>
      BY <1>12 DEF WriterBegins, WriterCommits, WriterRollsBack, RequestDies, FillBegins, FillReads,
                   FillDies, JobTakes, JobReads, JobNext, JobFilled, JobEnds, Prune, SendReads, Post,
                   PostFails, AnswerLost, JobDies, BatchEnds
    <2> QED BY <1>4, <2>1
  <1> QED BY <1>5, <1>6, <1>7, <1>8, <1>9, <1>10, <1>11, <1>12, LinkSteps, Zenon

(* One batch is waited for at most, by the job. *)
LEMMA AwaitedStep ==
  ASSUME Fits, Awaited, Next
  PROVE  Awaited'
  <1>0. Lasting BY LastingStep
  <1>t. net \in Seq(BatchRow) /\ job \in JobRow /\ Len(net) \in Nat /\ DOMAIN net = 1..Len(net)
    BY LenProperties DEF Fits, LinkTypeOK
  <1>r. \A i \in DOMAIN net : net[i].ref \in KLinks
    <2>1. \A i \in DOMAIN net : net[i] \in BatchRow BY <1>t
    <2> QED BY <2>1 DEF BatchRow
  <1>1. ASSUME net' = net, job' = job PROVE Awaited'
    <2>1. job.pc = "wait" => links'[job.link].ref = links[job.link].ref
      BY <1>0 DEF Fits, JobFits, Lasting, LinksLast, Made
    <2> QED BY <1>0, <1>r, <1>1, <2>1 DEF Awaited, Lasting
  <1>2. ASSUME net' = net, job.pc # "wait" PROVE Awaited' BY <1>2 DEF Awaited
  <1>3. ASSUME BatchLeft PROVE Awaited'
    <2>1. \A i \in DOMAIN net' : ~net'[i].awaited BY <1>3, BatchLeftIs DEF Awaited
    <2> QED BY <2>1 DEF Awaited
  <1>4. CASE Post
    <2>1. /\ job.pc = "post" /\ klick' = klick /\ links' = links
          /\ net' = Append(net, [ref |-> links[job.link].ref, rest |-> job.batch, awaited |-> TRUE])
          /\ job' = [job EXCEPT !.pc = "wait"]
      BY <1>4 DEF Post
    <2>2. job'.pc = "wait" /\ job'.link = job.link /\ job'.batch = job.batch BY <1>t, <2>1 DEF JobRow
    <2> DEFINE new == [ref |-> links[job.link].ref, rest |-> job.batch, awaited |-> TRUE]
    <2>3. new \in BatchRow
      <3>1. Made(job.link, links) BY <2>1 DEF Fits, JobFits
      <3>2. links[job.link].ref \in KLinks BY <3>1 DEF Made, Fits, RowsFit
      <3> QED BY <1>t, <3>2 DEF BatchRow, JobRow
    <2>4. new.ref = links[job.link].ref /\ new.rest = job.batch OBVIOUS
    <2>5. net' = Append(net, new) BY <2>1
    <2> HIDE DEF new
    <2>6. /\ net' \in Seq(BatchRow) /\ Len(net') = Len(net) + 1
          /\ \A i \in 1..Len(net) : net'[i] = net[i]
          /\ net'[Len(net) + 1] = new
      BY <1>t, <2>3, <2>5, AppendProperties
    <2>7. DOMAIN net' = 1..(Len(net) + 1) BY <2>6, LenProperties
    <2>8. \A i \in DOMAIN net' : net'[i].awaited => i = Len(net) + 1
      <3> SUFFICES ASSUME NEW i \in DOMAIN net', i # Len(net) + 1 PROVE ~net'[i].awaited OBVIOUS
      <3>1. i \in 1..Len(net) BY <1>t, <2>7
      <3> QED BY <1>t, <2>1, <2>6, <3>1 DEF Awaited
    <2>9. job'.batch \ new.rest = {} BY <2>2, <2>4
    <2> QED BY <2>1, <2>2, <2>4, <2>6, <2>8, <2>9 DEF Awaited
  <1>5. ASSUME NEW i \in DOMAIN net, net' = RemoveAt(net, i)
        PROVE  \A j \in DOMAIN net' : /\ (IF j < i THEN j ELSE j + 1) \in DOMAIN net \ {i}
                                      /\ net'[j] = net[IF j < i THEN j ELSE j + 1]
    BY <1>t, <1>5, RemoveAtIs
  <1>6. CASE Answered
    <2>1. PICK i \in DOMAIN net : net[i].awaited /\ net' = RemoveAt(net, i) BY <1>6 DEF Answered
    <2>2. \A j \in DOMAIN net' : \E q \in DOMAIN net : q # i /\ net'[j] = net[q] BY <1>5, <2>1
    <2>3. \A j \in DOMAIN net' : ~net'[j].awaited BY <2>1, <2>2 DEF Awaited
    <2> QED BY <2>3 DEF Awaited
  <1>7. ASSUME NEW i \in DOMAIN net, ReceiveEvent(i) PROVE Awaited'
    <2>1. /\ links' = links /\ job' = job /\ DOMAIN net' = DOMAIN net
          /\ \A j \in DOMAIN net : net'[j].ref = net[j].ref /\ net'[j].awaited = net[j].awaited
      BY <1>7, ReceiveIs
    <2>2. ASSUME NEW j \in DOMAIN net, net[j].awaited, klick'[net[j].ref].status = "active"
          PROVE  job.batch \ net'[j].rest \subseteq klick'[net[j].ref].known
      <3>1. net[j].ref \in KLinks BY <1>r
      <3>2. klick[net[j].ref].status = "active" /\ klick[net[j].ref].known \subseteq klick'[net[j].ref].known
        BY <1>0, <2>2, <3>1 DEF Lasting
      <3>3. job.batch \ net[j].rest \subseteq klick[net[j].ref].known BY <2>2, <3>2 DEF Awaited
      <3>4. CASE j # i
        <4>1. net'[j].rest = net[j].rest BY <1>7, <3>4, ReceiveIs
        <4> QED BY <3>2, <3>3, <4>1
      <3>5. CASE j = i
        <4>1. /\ net'[i].rest = net[i].rest \ {Min(net[i].rest)}
              /\ klick'[net[i].ref].known = klick[net[i].ref].known \cup {Min(net[i].rest)}
          BY <1>7, <3>2, <3>5, ReceiveIs
        <4> QED BY <3>3, <3>5, <4>1
      <3> QED BY <3>4, <3>5
    <2> QED BY <2>1, <2>2 DEF Awaited
  <1>8. ASSUME NEW i \in DOMAIN net, BatchEnds(i) PROVE Awaited'
    <2>1. /\ net' = RemoveAt(net, i) /\ job' = job /\ klick' = klick /\ links' = links
      BY <1>8 DEF BatchEnds
    <2>2. DOMAIN net' \subseteq Nat
      <3>1. net' \in Seq(BatchRow) BY <1>t, <2>1, RemoveAtIs
      <3> QED BY <3>1, LenProperties
    <2>3. i \in Nat BY <1>t
    <2>4. \A a, b \in Nat : (IF a < i THEN a ELSE a + 1) = (IF b < i THEN b ELSE b + 1) => a = b
      BY <2>3
    <2>5. \A j \in DOMAIN net' : \E q \in DOMAIN net : net'[j] = net[q] BY <1>5, <2>1
    <2>6. \A a, b \in DOMAIN net' : net'[a].awaited /\ net'[b].awaited => a = b
      <3> TAKE a, b \in DOMAIN net'
      <3> HAVE net'[a].awaited /\ net'[b].awaited
      <3>1. (IF a < i THEN a ELSE a + 1) = (IF b < i THEN b ELSE b + 1)
        BY <1>5, <2>1 DEF Awaited
      <3> QED BY <2>2, <2>4, <3>1
    <2> QED BY <2>1, <2>5, <2>6 DEF Awaited
  <1>9. CASE \/ \E k \in Kinds : WriterBegins(k) \/ WriterCommits(k) \/ WriterRollsBack(k)
             \/ \E l \in Links, k \in KLinks : ConnectHello(l, k) \/ RenewHello(l, k)
             \/ \E l \in Links : RequestDies(l)
             \/ \E k \in KLinks : NewToken(k) \/ KlickRevokes(k)
             \/ \E l \in Links : Renew(l) \/ Pause(l) \/ Resume(l) \/ Revoke(l)
             \/ \E l \in Links : Connect(l)
             \/ \E p \in Fillers : FillBegins(p) \/ FillReads(p)
             \/ FillDies
             \/ \E p \in Fillers : FillCommits(p)
             \/ Prune
    <2>1. net' = net /\ job' = job
      BY <1>9 DEF WriterBegins, WriterCommits, WriterRollsBack, ConnectHello, RenewHello, RequestDies,
                  NewToken, KlickRevokes, Renew, Pause, Resume, Revoke, Connect, FillBegins, FillReads,
                  FillDies, FillCommits, Prune
    <2> QED BY <1>1, <2>1
  <1>10. CASE \/ PostRefused \/ JobTakes \/ JobReads \/ JobNext \/ JobFilled \/ JobEnds \/ JobCommits
              \/ SendReads \/ PostFails
    <2>1. net' = net /\ job.pc # "wait"
      BY <1>10 DEF PostRefused, JobTakes, JobReads, JobNext, JobFilled, JobEnds, JobCommits,
                   SendReads, PostFails
    <2> QED BY <1>2, <2>1
  <1>11. CASE AnswerLost \/ JobDies BY <1>3, <1>11 DEF AnswerLost, JobDies
  <1> QED BY <1>4, <1>6, <1>7, <1>8, <1>9, <1>10, <1>11, LinkSteps, Zenon

(* The inductive invariant of the types, for every behaviour. *)
LEMMA FitsAlways == Spec => [](Fits /\ Awaited)
  <1>1. Init => Fits /\ Awaited
    <2>1. Init => Awaited BY DEF Init, Awaited
    <2> QED BY <2>1, FitsInit
  <1>2. ASSUME Fits, Awaited, UNCHANGED vars PROVE Fits' /\ Awaited'
    BY <1>2 DEF vars, wallet, Fits, LinkTypeOK, RowsFit, JobFits, NetFits, Awaited
  <1>3. Fits /\ Awaited /\ [Next]_vars => (Fits /\ Awaited)' BY <1>2, FitsStep, AwaitedStep
  <1> QED BY <1>1, <1>3, PTL DEF Spec

(* Every variable keeps its type: versions within their bound, cursors and
   batches within the outbox, requests, job and backfills on links that are
   there. *)
THEOREM LinkTypeCorrect == Spec => []LinkTypeOK
  <1>1. Fits => LinkTypeOK BY DEF Fits
  <1> QED BY <1>1, FitsAlways, PTL

-----------------------------------------------------------------------------
(* Links that stay, and links that are made                                 *)

(* Only Connect makes a link, only an answer moves a cursor. *)
LEMMA KeptStep ==
  ASSUME Fits, Awaited, Next
  PROVE  \A l \in Links : ~Connect(l) =>
           /\ links'[l].ref = links[l].ref /\ links'[l].start = links[l].start
           /\ links'[l].acked = links[l].acked \/ (Answered /\ l = job.link)
           /\ ~tainted' /\ Connected(l)' => Connected(l)
  <1> SUFFICES ASSUME NEW l \in Links, ~Connect(l)
               PROVE  /\ links'[l].ref = links[l].ref /\ links'[l].start = links[l].start
                      /\ links'[l].acked = links[l].acked \/ (Answered /\ l = job.link)
                      /\ ~tainted' /\ Connected(l)' => Connected(l)
    OBVIOUS
  <1>0. links \in [Links -> LinkRow] /\ request \in [Links -> RequestRow] /\ Lasting
    BY LastingStep DEF Fits, LinkTypeOK
  <1>1. \/ links' = links
        \/ \E m \in Links : /\ links[m].status # "none"
                            /\ \/ \E s : links' = [links EXCEPT ![m].status = s]
                               \/ \E s, t : links' = [links EXCEPT ![m].token = t, ![m].status = s]
                               \/ links' = [links EXCEPT ![m].ready = TRUE]
                               \/ Answered /\ m = job.link /\ links' = [links EXCEPT ![m].acked = Max(job.batch)]
        \/ \E m \in Links : m # l /\ \E row : links' = [links EXCEPT ![m] = row]
    <2>1. ASSUME NEW m \in Links, Renew(m) \/ Pause(m) \/ Resume(m) \/ Revoke(m)
          PROVE  /\ links[m].status # "none"
                 /\ \/ \E s : links' = [links EXCEPT ![m].status = s]
                    \/ \E s, t : links' = [links EXCEPT ![m].token = t, ![m].status = s]
      <3>1. CASE Renew(m)
        <4>1. links[m].status # "none" BY <3>1 DEF Renew, Fits, RowsFit
        <4> QED BY <3>1, <4>1 DEF Renew
      <3>2. CASE Pause(m) \/ Resume(m) \/ Revoke(m) BY <3>2 DEF Pause, Resume, Revoke, Connected
      <3> QED BY <2>1, <3>1, <3>2
    <2>2. CASE PostRefused
      <3>1. job.link \in Links /\ links[job.link].status # "none"
        BY <2>2 DEF PostRefused, Fits, JobFits, Made
      <3> QED BY <2>2, <3>1 DEF PostRefused
    <2>3. ASSUME NEW p \in Fillers, FillCommits(p)
          PROVE  \E m \in Links : links[m].status # "none" /\ links' = [links EXCEPT ![m].ready = TRUE]
      <3>1. fill[p].link \in Links /\ links[fill[p].link].status # "none"
        BY <2>3 DEF FillCommits, Fits, JobFits, Made
      <3> QED BY <2>3, <3>1 DEF FillCommits
    <2>4. CASE Answered
      <3>1. job.link \in Links /\ links[job.link].status # "none"
        BY <2>4 DEF Answered, Fits, JobFits, Made
      <3> QED BY <2>4, <3>1 DEF Answered
    <2>5. ASSUME NEW m \in Links, Connect(m)
          PROVE  links' = links \/ (m # l /\ \E row : links' = [links EXCEPT ![m] = row])
      BY <2>5 DEF Connect
    <2>6. CASE \/ \E k \in Kinds : WriterBegins(k) \/ WriterCommits(k) \/ WriterRollsBack(k)
               \/ \E m \in Links, k \in KLinks : ConnectHello(m, k) \/ RenewHello(m, k)
               \/ \E m \in Links : RequestDies(m)
               \/ \E k \in KLinks : NewToken(k) \/ KlickRevokes(k)
               \/ \E p \in Fillers : FillBegins(p) \/ FillReads(p)
               \/ FillDies
               \/ JobTakes \/ JobReads \/ JobNext \/ JobFilled \/ JobEnds \/ JobCommits
               \/ Prune
               \/ SendReads \/ Post \/ PostFails \/ AnswerLost \/ JobDies
               \/ \E i \in DOMAIN net : ReceiveEvent(i) \/ BatchEnds(i)
      <3>1. links' = links
        BY <2>6 DEF WriterBegins, WriterCommits, WriterRollsBack, ConnectHello, RenewHello, RequestDies,
                    NewToken, KlickRevokes, FillBegins, FillReads, FillDies, JobTakes, JobReads, JobNext,
                    JobFilled, JobEnds, JobCommits, Prune, SendReads, Post, PostFails, AnswerLost, JobDies,
                    ReceiveEvent, BatchEnds
      <3> QED BY <3>1
    <2>7. CASE \E m \in Links : Renew(m) \/ Pause(m) \/ Resume(m) \/ Revoke(m) BY <2>1, <2>7
    <2>8. CASE \E p \in Fillers : FillCommits(p) BY <2>3, <2>8
    <2>9. CASE \E m \in Links : Connect(m) BY <2>5, <2>9
    <2> QED BY <2>2, <2>4, <2>6, <2>7, <2>8, <2>9, LinkSteps, Zenon
  <1>2. CASE links[l].status # "none"
    <2>1. links'[l].ref = links[l].ref /\ links'[l].start = links[l].start
      BY <1>0, <1>2 DEF Lasting, LinksLast, Made
    <2>2. ~tainted' /\ Connected(l)' => Connected(l) BY <1>0, <1>2 DEF Lasting, Made
    <2>3. links'[l].acked = links[l].acked \/ (Answered /\ l = job.link)
      <3>0. links[l] \in LinkRow BY <1>0
      <3>1. ASSUME NEW m \in Links, NEW s, links' = [links EXCEPT ![m].status = s]
            PROVE  links'[l].acked = links[l].acked
        BY <1>0, <3>0, <3>1 DEF LinkRow
      <3>2. ASSUME NEW m \in Links, NEW s, NEW t, links' = [links EXCEPT ![m].token = t, ![m].status = s]
            PROVE  links'[l].acked = links[l].acked
        BY <1>0, <3>0, <3>2 DEF LinkRow
      <3>3. ASSUME NEW m \in Links, links' = [links EXCEPT ![m].ready = TRUE]
            PROVE  links'[l].acked = links[l].acked
        BY <1>0, <3>0, <3>3 DEF LinkRow
      <3>4. ASSUME NEW m \in Links, m # l, NEW row,
                   links' = [links EXCEPT ![m] = row] \/ links' = [links EXCEPT ![m].acked = row]
            PROVE  links'[l].acked = links[l].acked
        BY <1>0, <3>4
      <3> QED BY <1>1, <3>1, <3>2, <3>3, <3>4
    <2> QED BY <2>1, <2>2, <2>3
  <1>3. CASE links[l].status = "none"
    <2>1. links'[l] = links[l] BY <1>0, <1>1, <1>3 DEF LinkRow
    <2> QED BY <2>1 DEF Connected
  <1> QED BY <1>2, <1>3

(* A link is made for a klick link that no link is connected to. *)
LEMMA ConnectMakes ==
  ASSUME Fits, NEW l \in Links, Connect(l)
  PROVE  /\ UNCHANGED <<wallet, outbox, pruned, job, net, klick>>
         /\ \A m \in Links : m # l => links'[m] = links[m]
         /\ links[l].status = "none"
         /\ \/ links' = links /\ fill' = fill /\ tainted' = tainted
            \/ /\ tainted' = (tainted \/ Leftovers)
               /\ links'[l] = [status |-> "active", ref |-> request[l].ref, acked |-> Len(outbox),
                               start |-> Len(outbox), ready |-> FALSE, token |-> request[l].token]
               /\ fill' = [fill EXCEPT !["user"] = [pc |-> "begin", link |-> l, waits |-> {}, read |-> 0]]
               /\ \A m \in Links : Connected(m) => links[m].ref # request[l].ref
  <1>0. links \in [Links -> LinkRow] BY DEF Fits, LinkTypeOK
  <1>1. links[l].status = "none" BY DEF Connect, Fits, RowsFit
  <1>2. UNCHANGED <<wallet, outbox, pruned, job, net, klick>> BY DEF Connect
  <1>3. CASE Taken(request[l].ref)
    <2>1. links' = links /\ fill' = fill /\ tainted' = tainted BY <1>3 DEF Connect
    <2> QED BY <1>1, <1>2, <2>1
  <1>4. CASE ~Taken(request[l].ref)
    <2>1. /\ tainted' = (tainted \/ Leftovers)
          /\ links' = [links EXCEPT ![l] =
               [status |-> "active", ref |-> request[l].ref, acked |-> Len(outbox),
                start |-> Len(outbox), ready |-> FALSE, token |-> request[l].token]]
          /\ fill' = [fill EXCEPT !["user"] = [pc |-> "begin", link |-> l, waits |-> {}, read |-> 0]]
      BY <1>4, Zenon DEF Connect
    <2>2. \A m \in Links : Connected(m) => links[m].ref # request[l].ref BY <1>4 DEF Taken
    <2> QED BY <1>0, <1>1, <1>2, <2>1, <2>2
  <1> QED BY <1>3, <1>4

(* What it makes, if it is not refused. *)
LEMMA ConnectNew ==
  ASSUME Fits, NEW l \in Links, Connect(l), Connected(l)'
  PROVE  /\ ~Connected(l) /\ links[l].status = "none"
         /\ links'[l].ref = request[l].ref /\ ~links'[l].ready
         /\ links'[l].start = Len(outbox) /\ links'[l].acked = Len(outbox)
         /\ tainted' = (tainted \/ Leftovers)
         /\ fill' = [fill EXCEPT !["user"] = [pc |-> "begin", link |-> l, waits |-> {}, read |-> 0]]
         /\ \A m \in Links : Connected(m) => links[m].ref # request[l].ref
  <1>1. links[l].status = "none" BY ConnectMakes
  <1>2. ~Connected(l) BY <1>1 DEF Connected
  <1>3. links' # links BY <1>2 DEF Connected
  <1>4. /\ tainted' = (tainted \/ Leftovers)
        /\ links'[l] = [status |-> "active", ref |-> request[l].ref, acked |-> Len(outbox),
                        start |-> Len(outbox), ready |-> FALSE, token |-> request[l].token]
        /\ fill' = [fill EXCEPT !["user"] = [pc |-> "begin", link |-> l, waits |-> {}, read |-> 0]]
        /\ \A m \in Links : Connected(m) => links[m].ref # request[l].ref
    <2>1. \/ links' = links /\ fill' = fill /\ tainted' = tainted
          \/ /\ tainted' = (tainted \/ Leftovers)
             /\ links'[l] = [status |-> "active", ref |-> request[l].ref, acked |-> Len(outbox),
                             start |-> Len(outbox), ready |-> FALSE, token |-> request[l].token]
             /\ fill' = [fill EXCEPT !["user"] = [pc |-> "begin", link |-> l, waits |-> {}, read |-> 0]]
             /\ \A m \in Links : Connected(m) => links[m].ref # request[l].ref
      BY ConnectMakes, Zenon
    <2> QED BY <1>3, <2>1
  <1> QED BY <1>1, <1>2, <1>4

(* A backfill that has read the state works on a link that is connected. *)
LockedLinks == \A p \in Fillers : fill[p].pc = "locked" => Connected(fill[p].link)

(* It stays connected: a revoke waits for the lock on the link's row. *)
LEMMA LockedStep ==
  ASSUME Fits, Awaited, LockedLinks, Next
  PROVE  LockedLinks'
  <1>0. /\ links \in [Links -> LinkRow] /\ fill \in [Fillers -> FillRow]
        /\ \A p \in Fillers : fill[p].pc = "locked" => Made(fill[p].link, links)
    BY DEF Fits, LinkTypeOK, JobFits
  <1>1. ASSUME \A p \in Fillers : fill'[p].pc = "locked" => fill[p].pc = "locked" /\ fill'[p].link = fill[p].link,
               \A l \in Links : links[l].status # "none" => links'[l].status = links[l].status
        PROVE  LockedLinks'
    BY <1>0, <1>1 DEF LockedLinks, Connected, Made
  <1>2. ASSUME links' = links PROVE \A l \in Links : links'[l].status = links[l].status BY <1>2
  <1>3. ASSUME fill' = fill
        PROVE  \A p \in Fillers : fill'[p].pc = "locked" => fill[p].pc = "locked" /\ fill'[p].link = fill[p].link
    BY <1>3
  <1>4. CASE \E k \in Kinds : WriterBegins(k) \/ WriterCommits(k) \/ WriterRollsBack(k)
    <2>1. links' = links BY <1>4 DEF WriterBegins, WriterCommits, WriterRollsBack
    <2>2. PICK k \in Kinds : fill' = fill \/ fill' = [p \in Fillers |-> [fill[p] EXCEPT !.waits = @ \ {k}]]
      BY <1>4 DEF WriterBegins, WriterCommits, WriterRollsBack
    <2>3. \A p \in Fillers : fill'[p].pc = fill[p].pc /\ fill'[p].link = fill[p].link
      BY <1>0, <2>2 DEF FillRow
    <2> QED BY <1>1, <1>2, <2>1, <2>3
  <1>5. ASSUME NEW l \in Links, Renew(l) \/ Pause(l) \/ Resume(l) \/ Revoke(l) PROVE LockedLinks'
    <2>1. fill' = fill /\ RowFree(l) /\ \A m \in Links : m # l => links'[m] = links[m]
      BY <1>0, <1>5 DEF Renew, Pause, Resume, Revoke
    <2> QED BY <1>0, <2>1 DEF LockedLinks, RowFree, Connected, Made
  <1>6. CASE PostRefused
    <2>1. fill' = fill /\ RowFree(job.link) /\ \A m \in Links : m # job.link => links'[m] = links[m]
      BY <1>0, <1>6 DEF PostRefused
    <2> QED BY <1>0, <2>1 DEF LockedLinks, RowFree, Connected, Made
  <1>7. ASSUME NEW l \in Links, Connect(l) PROVE LockedLinks'
    <2>1. /\ links[l].status = "none" /\ \A m \in Links : m # l => links'[m] = links[m]
          /\ fill' = fill
             \/ fill' = [fill EXCEPT !["user"] = [pc |-> "begin", link |-> l, waits |-> {}, read |-> 0]]
      BY <1>7, ConnectMakes
    <2>2. \A m \in Links : links[m].status # "none" => links'[m].status = links[m].status BY <2>1
    <2>3. \A p \in Fillers : fill'[p].pc = "locked" => fill[p].pc = "locked" /\ fill'[p].link = fill[p].link
      BY <1>0, <2>1
    <2> QED BY <1>1, <2>2, <2>3
  <1>8. ASSUME NEW p \in Fillers, FillReads(p) PROVE LockedLinks'
    <2>1. links' = links BY <1>8 DEF FillReads
    <2>2. \A q \in Fillers : q # p => fill'[q] = fill[q] BY <1>0, <1>8 DEF FillReads
    <2>3. fill'[p].pc = "locked" => Connected(fill[p].link) /\ fill'[p].link = fill[p].link
      <3>1. fill[p] \in FillRow BY <1>0
      <3>2. CASE links[fill[p].link].ready \/ ~Connected(fill[p].link)
        <4>1. fill'[p] = Off BY <1>0, <1>8, <3>2 DEF FillReads
        <4> QED BY <4>1, RestingIs
      <3>3. CASE ~(links[fill[p].link].ready \/ ~Connected(fill[p].link))
        <4>1. fill'[p] = [fill[p] EXCEPT !.pc = "locked", !.read = ver] BY <1>0, <1>8, <3>3 DEF FillReads
        <4> QED BY <3>1, <3>3, <4>1 DEF FillRow
      <3> QED BY <3>2, <3>3
    <2>4. \A l \in Links : Connected(l) => Connected(l)' BY <2>1 DEF Connected
    <2>5. Made(fill[p].link, links) BY <1>8 DEF FillReads, Fits, JobFits
    <2> QED BY <1>0, <2>1, <2>2, <2>3, <2>4, <2>5 DEF LockedLinks, Made
  <1>9. CASE \/ \E p \in Fillers : FillBegins(p) \/ FillCommits(p)
             \/ FillDies \/ JobNext \/ JobDies
    <2>1. \/ fill' = fill
          \/ \E p \in Fillers : \E row : fill' = [fill EXCEPT ![p] = row] /\ row.pc # "locked"
      <3>1. ASSUME NEW p \in Fillers, FillBegins(p)
            PROVE  \E row : fill' = [fill EXCEPT ![p] = row] /\ row.pc # "locked"
        <4> DEFINE row == [[fill[p] EXCEPT !.pc = "wait"] EXCEPT !.waits = {k \in Kinds : writer[k] # "idle"}]
        <4>1. fill' = [fill EXCEPT ![p] = row] BY <1>0, <3>1 DEF FillBegins
        <4>2. row.pc # "locked"
          <5>1. fill[p] \in FillRow BY <1>0
          <5> QED BY <5>1 DEF FillRow
        <4> HIDE DEF row
        <4> QED BY <4>1, <4>2
      <3>2. Off.pc # "locked" /\ "user" \in Fillers /\ "job" \in Fillers BY RestingIs DEF Fillers
      <3>3. CASE JobNext
        <4>1. PICK t : fill' = fill \/ fill' = [fill EXCEPT !["job"] = [Off EXCEPT !.pc = "begin", !.link = t[1]]]
          BY <3>3 DEF JobNext
        <4>2. [Off EXCEPT !.pc = "begin", !.link = t[1]].pc # "locked" BY DEF Off
        <4> QED BY <3>2, <4>1, <4>2
      <3>4. CASE \E p \in Fillers : FillCommits(p) BY <3>2, <3>4 DEF FillCommits
      <3>5. CASE FillDies \/ JobDies BY <3>2, <3>5 DEF FillDies, JobDies
      <3> QED BY <1>9, <3>1, <3>3, <3>4, <3>5
    <2>2. \A q \in Fillers : fill'[q].pc = "locked" => fill[q].pc = "locked" /\ fill'[q].link = fill[q].link
      BY <1>0, <2>1
    <2>3. \A l \in Links : links'[l].status = links[l].status
      <3>1. links' = links \/ \E l : links' = [links EXCEPT ![l].ready = TRUE]
        BY <1>9 DEF FillBegins, FillCommits, FillDies, JobNext, JobDies
      <3> QED BY <1>0, <3>1 DEF LinkRow
    <2> QED BY <1>1, <2>2, <2>3
  <1>10. CASE Answered
    <2>1. \A l \in Links : links'[l].status = links[l].status BY <1>10, AnsweredIs
    <2>2. fill' = fill BY <1>10 DEF Answered
    <2> QED BY <1>1, <1>3, <2>1, <2>2
  <1>11. CASE \/ \E l \in Links, k \in KLinks : ConnectHello(l, k) \/ RenewHello(l, k)
              \/ \E l \in Links : RequestDies(l)
              \/ \E k \in KLinks : NewToken(k) \/ KlickRevokes(k)
              \/ JobTakes \/ JobReads \/ JobFilled \/ JobEnds \/ JobCommits
              \/ Prune
              \/ SendReads \/ Post \/ PostFails \/ AnswerLost
              \/ \E i \in DOMAIN net : ReceiveEvent(i) \/ BatchEnds(i)
    <2>1. links' = links /\ fill' = fill
      BY <1>11 DEF ConnectHello, RenewHello, RequestDies, NewToken, KlickRevokes, JobTakes, JobReads,
                   JobFilled, JobEnds, JobCommits, Prune, SendReads, Post, PostFails, AnswerLost,
                   ReceiveEvent, BatchEnds
    <2> QED BY <1>1, <1>2, <1>3, <2>1
  <1> QED BY <1>4, <1>5, <1>6, <1>7, <1>8, <1>9, <1>10, <1>11, LinkSteps, Zenon

-----------------------------------------------------------------------------
(* Order                                                                    *)

(* an event for the klick link: for everyone, or from a backfill of one of its links *)
Mine(k, n, ob, ls) == ob[n].link = NoLink \/ ls[ob[n].link].ref = k

(* numbered after the last link to the klick link was made *)
Fresh(k, n, ls) == \A l \in Links : ls[l].ref = k => ls[l].start < n

(* Before an event of the set klick gets, or has, every fresh one that is its own. *)
Covers(k, B, ob, ls, kn) ==
  \A n \in B : /\ Mine(k, n, ob, ls)
               /\ \A r \in 1..n : Fresh(k, r, ls) /\ Mine(k, r, ob, ls) => r \in kn \cup B

(* Nothing is missing before what klick knows, before what it is working on,
   and before what the job sends it. *)
KnownCovers == \A k \in KLinks : Covers(k, klick[k].known, outbox, links, klick[k].known)
NetCovers ==
  \A i \in DOMAIN net : klick[net[i].ref].status = "active" =>
    Covers(net[i].ref, net[i].rest, outbox, links, klick[net[i].ref].known)
JobCovers ==
  job.pc \in {"post", "wait"} /\ klick[links[job.link].ref].status = "active" =>
    Covers(links[job.link].ref, job.batch, outbox, links, klick[links[job.link].ref].known)

(* Events are kept for a connected link until it has acknowledged them. *)
PrunedBehind == \A l \in Links : Connected(l) => pruned <= links[l].acked

(* A klick link has one connected link, the last that was made for it. *)
OneLink ==
  \A l, m \in Links : Connected(l) /\ links[m].ref = links[l].ref =>
    links[m].start <= links[l].start /\ (Connected(m) => m = l)

(* Since a connected link was made no other link to its klick link was filled. *)
OwnEvents ==
  \A l, m \in Links : \A n \in (links[l].start + 1)..Len(outbox) :
    Connected(l) /\ outbox[n].link = m /\ links[m].ref = links[l].ref => m = l

Order ==
  KnownCovers /\ NetCovers /\ JobCovers /\ CursorHonest /\ PrunedBehind /\ OneLink /\ OwnEvents

(* What covers goes on to, whatever is added. *)
LEMMA CoversLast ==
  ASSUME NEW k \in KLinks, NEW ob, Len(ob) \in Nat, NEW nb, Longer(ob, nb),
         NEW ls, NEW ms, LinksLast(ls, ms),
         \A l \in Links : ls[l].status = "none" => ls[l].ref = NoLink,
         \A n \in 1..Len(ob) : ob[n].link # NoLink => Made(ob[n].link, ls),
         NEW B, B \subseteq 1..Len(ob), NEW kn, NEW km, kn \subseteq km, Covers(k, B, ob, ls, kn)
  PROVE  Covers(k, B, nb, ms, km)
  <1>1. ASSUME NEW n \in 1..Len(ob) PROVE Mine(k, n, ob, ls) <=> Mine(k, n, nb, ms)
    <2>1. nb[n] = ob[n] BY <1>1 DEF Longer
    <2>2. CASE ob[n].link = NoLink BY <2>1, <2>2 DEF Mine
    <2>3. CASE ob[n].link # NoLink
      <3>1. Made(ob[n].link, ls) BY <2>3
      <3>2. ms[ob[n].link].ref = ls[ob[n].link].ref BY <3>1 DEF LinksLast, Made
      <3> QED BY <2>1, <3>2 DEF Mine
    <2> QED BY <2>2, <2>3
  <1>2. ASSUME NEW n, Fresh(k, n, ms) PROVE Fresh(k, n, ls)
    <2> SUFFICES ASSUME NEW l \in Links, ls[l].ref = k PROVE ls[l].start < n BY DEF Fresh
    <2>1. k # NoLink BY LinkAssumption
    <2>2. Made(l, ls) BY <2>1 DEF Made
    <2>3. ms[l].ref = k /\ ms[l].start = ls[l].start BY <2>2 DEF LinksLast
    <2> QED BY <1>2, <2>3 DEF Fresh
  <1> SUFFICES ASSUME NEW n \in B
               PROVE  /\ Mine(k, n, nb, ms)
                      /\ \A r \in 1..n : Fresh(k, r, ms) /\ Mine(k, r, nb, ms) => r \in km \cup B
    BY DEF Covers
  <1>3. /\ Mine(k, n, ob, ls)
        /\ \A r \in 1..n : Fresh(k, r, ls) /\ Mine(k, r, ob, ls) => r \in kn \cup B
    BY DEF Covers
  <1>4. n \in 1..Len(ob) /\ \A r \in 1..n : r \in 1..Len(ob)
    <2>1. n \in 1..Len(ob) OBVIOUS
    <2> QED BY <2>1
  <1> QED BY <1>1, <1>2, <1>3, <1>4

(* What the job reads for a batch covers. *)
LEMMA BatchCovers ==
  ASSUME Fits, ~tainted, Order, NEW l \in Links, Connected(l), klick[links[l].ref].status = "active",
         Pending(l) # {}
  PROVE  Covers(links[l].ref, Batch(l), outbox, links, klick[links[l].ref].known)
  <1> DEFINE k == links[l].ref
  <1>0. /\ links \in [Links -> LinkRow] /\ Len(outbox) \in Nat
        /\ links[l].acked \in Nat /\ links[l].start \in Nat /\ pruned \in Nat
    BY LenProperties DEF Fits, LinkTypeOK, LinkRow
  <1>1. /\ Batch(l) \subseteq Pending(l)
        /\ Pending(l) \subseteq (links[l].acked + 1)..Len(outbox)
        /\ \A n \in Batch(l), m \in Pending(l) : m <= n => m \in Batch(l)
    BY BatchIs
  <1> SUFFICES ASSUME NEW n \in Batch(l)
               PROVE  /\ Mine(k, n, outbox, links)
                      /\ \A r \in 1..n : Fresh(k, r, links) /\ Mine(k, r, outbox, links) =>
                           r \in klick[k].known \cup Batch(l)
    BY DEF Covers
  <1>2. outbox[n].link \in {NoLink, l} /\ n \in Nat /\ n <= Len(outbox)
    <2>1. n \in Pending(l) BY <1>1
    <2> QED BY <1>0, <1>1, <2>1 DEF Pending
  <1>3. Mine(k, n, outbox, links) BY <1>2 DEF Mine
  <1>4. ASSUME NEW r \in 1..n, Fresh(k, r, links), Mine(k, r, outbox, links)
        PROVE  r \in klick[k].known \cup Batch(l)
    <2>1. r \in 1..Len(outbox) /\ r <= n BY <1>0, <1>2
    <2>2. links[l].start < r BY <1>4 DEF Fresh
    <2>3. outbox[r].link \in {NoLink, l}
      <3> SUFFICES ASSUME outbox[r].link # NoLink PROVE outbox[r].link = l OBVIOUS
      <3>1. outbox[r].link \in Links BY <2>1 DEF Fits, RowsFit, Made
      <3>2. links[outbox[r].link].ref = k BY <1>4 DEF Mine
      <3>3. r \in (links[l].start + 1)..Len(outbox) BY <1>0, <2>1, <2>2
      <3> QED BY <3>1, <3>2, <3>3 DEF Order, OwnEvents
    <2>4. CASE r <= links[l].acked
      <3>1. r \in (links[l].start + 1)..links[l].acked BY <1>0, <2>1, <2>2, <2>4
      <3> QED BY <2>3, <3>1 DEF Order, CursorHonest
    <2>5. CASE r > links[l].acked
      <3>1. pruned <= links[l].acked BY DEF Order, PrunedBehind
      <3>2. r \in (links[l].acked + 1)..Len(outbox) /\ r > pruned BY <1>0, <2>1, <2>5, <3>1
      <3>3. r \in Pending(l) BY <2>3, <3>2 DEF Pending
      <3> QED BY <1>1, <2>1, <3>3
    <2> QED BY <1>0, <2>1, <2>4, <2>5
  <1> QED BY <1>3, <1>4

(* What a set covers in the next state too. *)
LEMMA CoversStep ==
  ASSUME Fits, Lasting, NEW k \in KLinks, NEW B, B \subseteq 1..Len(outbox),
         Covers(k, B, outbox, links, klick[k].known)
  PROVE  Covers(k, B, outbox', links', klick'[k].known)
  <1> DEFINE kn == klick[k].known
             km == klick'[k].known
             ob == outbox
             nb == outbox'
             ls == links
             ms == links'
  <1>1. /\ Len(ob) \in Nat /\ B \subseteq 1..Len(ob) /\ Covers(k, B, ob, ls, kn)
        /\ \A l \in Links : ls[l].status = "none" => ls[l].ref = NoLink
        /\ \A n \in 1..Len(ob) : ob[n].link # NoLink => Made(ob[n].link, ls)
    BY LenProperties DEF Fits, LinkTypeOK, RowsFit
  <1>2. LinksLast(ls, ms) /\ Longer(ob, nb) /\ kn \subseteq km
    BY DEF Lasting
  <1> HIDE DEF kn, km, ob, nb, ls, ms
  <1>3. Covers(k, B, nb, ms, km) BY <1>1, <1>2, CoversLast
  <1> QED BY <1>3 DEF nb, ms, km

(* Only an event klick takes adds to what it knows. *)
LEMMA OnlyReceived ==
  ASSUME Fits, Next, ~\E i \in DOMAIN net : ReceiveEvent(i)
  PROVE  \A k \in KLinks : klick'[k].known = klick[k].known
  <1>0. klick \in [KLinks -> KlickRow] BY DEF Fits, LinkTypeOK
  <1>1. CASE \E l \in Links, k \in KLinks : ConnectHello(l, k) \/ RenewHello(l, k)
    <2>1. PICK l \in Links, k \in KLinks : klick' = [klick EXCEPT ![k].bound = l]
      BY <1>1 DEF ConnectHello, RenewHello, Hello
    <2> QED BY <1>0, <2>1 DEF KlickRow
  <1>2. CASE \E k \in KLinks : NewToken(k) \/ KlickRevokes(k)
    <2>1. PICK k \in KLinks : NewToken(k) \/ KlickRevokes(k) BY <1>2
    <2>2. CASE NewToken(k) BY <1>0, <2>2 DEF NewToken, KlickRow
    <2>3. CASE KlickRevokes(k) BY <1>0, <2>3 DEF KlickRevokes, KlickRow
    <2> QED BY <2>1, <2>2, <2>3
  <1>3. CASE klick' = klick BY <1>3
  <1>4. CASE \/ \E k \in Kinds : WriterBegins(k) \/ WriterCommits(k) \/ WriterRollsBack(k)
             \/ \E l \in Links : RequestDies(l) \/ Renew(l) \/ Pause(l) \/ Resume(l) \/ Revoke(l) \/ Connect(l)
             \/ PostRefused
             \/ \E p \in Fillers : FillBegins(p) \/ FillReads(p) \/ FillCommits(p)
             \/ FillDies
             \/ JobTakes \/ JobReads \/ JobNext \/ JobFilled \/ JobEnds \/ JobCommits
             \/ Prune
             \/ SendReads \/ Post \/ PostFails \/ AnswerLost \/ JobDies \/ Answered
             \/ \E i \in DOMAIN net : BatchEnds(i)
    <2>1. klick' = klick
      BY <1>4 DEF WriterBegins, WriterCommits, WriterRollsBack, RequestDies, Renew, Pause, Resume, Revoke,
                  Connect, PostRefused, FillBegins, FillReads, FillCommits, FillDies, JobTakes, JobReads,
                  JobNext, JobFilled, JobEnds, JobCommits, Prune, SendReads, Post, PostFails, AnswerLost,
                  JobDies, Answered, BatchEnds
    <2> QED BY <1>3, <2>1
  <1> QED BY <1>1, <1>2, <1>4, LinkSteps, Zenon

(* klick takes events in order: nothing it knows comes after the next one. *)
LEMMA KnownStep ==
  ASSUME Fits, Lasting, Order, Next
  PROVE  KnownCovers'
  <1> SUFFICES ASSUME NEW k \in KLinks
               PROVE  Covers(k, klick'[k].known, outbox', links', klick'[k].known)
    BY DEF KnownCovers
  <1>0. /\ klick[k].known \subseteq 1..Len(outbox)
        /\ Covers(k, klick[k].known, outbox, links, klick[k].known)
    BY DEF Fits, NetFits, Order, KnownCovers
  <1>1. CASE klick'[k].known = klick[k].known BY <1>0, <1>1, CoversStep
  <1>2. CASE klick'[k].known # klick[k].known
    <2>1. PICK i \in DOMAIN net : ReceiveEvent(i) BY <1>2, OnlyReceived
    <2> DEFINE n == Min(net[i].rest)
    <2>2. /\ n \in net[i].rest /\ (\A m \in net[i].rest : n <= m)
          /\ k = net[i].ref /\ klick[k].status = "active"
          /\ klick'[k].known = klick[k].known \cup {n}
          /\ links' = links /\ outbox' = outbox
      <3>1. /\ n \in net[i].rest /\ (\A m \in net[i].rest : n <= m)
            /\ \A q \in KLinks : q # net[i].ref => klick'[q].known = klick[q].known
            /\ klick'[net[i].ref].known =
                 IF klick[net[i].ref].status = "active"
                 THEN klick[net[i].ref].known \cup {n} ELSE klick[net[i].ref].known
        BY <2>1, ReceiveIs
      <3>2. links' = links /\ outbox' = outbox BY <2>1 DEF ReceiveEvent
      <3> HIDE DEF n
      <3>3. k = net[i].ref BY <1>2, <3>1
      <3>4. klick[k].status = "active" BY <1>2, <3>1, <3>3
      <3> QED BY <3>1, <3>2, <3>3, <3>4
    <2>3. Covers(k, net[i].rest, outbox, links, klick[k].known)
      BY <2>2 DEF Order, NetCovers
    <2> HIDE DEF n
    <2>4. ASSUME NEW m \in klick'[k].known
          PROVE  /\ Mine(k, m, outbox, links)
                 /\ \A r \in 1..m : Fresh(k, r, links) /\ Mine(k, r, outbox, links) =>
                      r \in klick'[k].known \cup klick'[k].known
      <3>1. CASE m \in klick[k].known BY <1>0, <2>2, <3>1 DEF Covers
      <3>2. CASE m = n
        <4>1. /\ Mine(k, n, outbox, links)
              /\ \A r \in 1..n : Fresh(k, r, links) /\ Mine(k, r, outbox, links) =>
                   r \in klick[k].known \cup net[i].rest
          BY <2>2, <2>3 DEF Covers
        <4>2. n \in Nat /\ net[i].rest \subseteq Nat
          <5>1. net[i].rest \subseteq 1..Len(outbox) BY DEF Fits, NetFits
          <5> QED BY <2>2, <5>1
        <4>3. \A r \in 1..n : r \in net[i].rest => r = n
          <5> TAKE r \in 1..n
          <5> HAVE r \in net[i].rest
          <5>1. n <= r BY <2>2
          <5> QED BY <4>2, <5>1
        <4> QED BY <2>2, <3>2, <4>1, <4>3
      <3> QED BY <2>2, <3>1, <3>2
    <2> QED BY <2>2, <2>4 DEF Covers
  <1> QED BY <1>1, <1>2

(* Every batch klick has is one it had, less what it took, or the one that was just sent. *)
LEMMA NetStep ==
  ASSUME Fits, Awaited, Lasting, Order, Next
  PROVE  NetCovers'
  <1>0. /\ net \in Seq(BatchRow) /\ Len(net) \in Nat /\ DOMAIN net = 1..Len(net)
        /\ \A i \in DOMAIN net : net[i].rest \subseteq 1..Len(outbox)
    BY LenProperties DEF Fits, LinkTypeOK, NetFits
  <1>r. \A i \in DOMAIN net : net[i].ref \in KLinks
    <2>1. \A i \in DOMAIN net : net[i] \in BatchRow BY <1>0
    <2> QED BY <2>1 DEF BatchRow
  <1>1. ASSUME NEW j \in DOMAIN net, klick'[net[j].ref].status = "active"
        PROVE  Covers(net[j].ref, net[j].rest, outbox', links', klick'[net[j].ref].known)
    <2>1. klick[net[j].ref].status = "active" BY <1>r, <1>1 DEF Lasting
    <2>2. Covers(net[j].ref, net[j].rest, outbox, links, klick[net[j].ref].known)
      BY <2>1 DEF Order, NetCovers
    <2> QED BY <1>0, <1>r, <2>2, CoversStep
  <1>2. ASSUME \A i \in DOMAIN net' : \E j \in DOMAIN net : net'[i].ref = net[j].ref /\ net'[i].rest = net[j].rest
        PROVE  NetCovers'
    <2> SUFFICES ASSUME NEW i \in DOMAIN net', klick'[net'[i].ref].status = "active"
                 PROVE  Covers(net'[i].ref, net'[i].rest, outbox', links', klick'[net'[i].ref].known)
      BY DEF NetCovers
    <2>1. PICK j \in DOMAIN net : net'[i].ref = net[j].ref /\ net'[i].rest = net[j].rest BY <1>2
    <2> QED BY <1>1, <2>1
  <1>3. ASSUME net' = net PROVE NetCovers' BY <1>2, <1>3
  <1>4. CASE Post
    <2> DEFINE new == [ref |-> links[job.link].ref, rest |-> job.batch, awaited |-> TRUE]
    <2>1. /\ job.pc = "post" /\ klick' = klick /\ links' = links /\ outbox' = outbox
          /\ net' = Append(net, new)
      BY <1>4 DEF Post
    <2>2. new \in BatchRow /\ new.ref = links[job.link].ref /\ new.rest = job.batch
      <3>1. Made(job.link, links) BY <2>1 DEF Fits, JobFits
      <3>2. links[job.link].ref \in KLinks BY <3>1 DEF Made, Fits, RowsFit
      <3>3. job.batch \in SUBSET Nat BY DEF Fits, LinkTypeOK, JobRow
      <3> QED BY <3>2, <3>3 DEF BatchRow
    <2> HIDE DEF new
    <2>3. /\ net' \in Seq(BatchRow) /\ Len(net') = Len(net) + 1
          /\ \A i \in 1..Len(net) : net'[i] = net[i]
          /\ net'[Len(net) + 1] = new
      BY <1>0, <2>1, <2>2, AppendProperties
    <2>4. DOMAIN net' = 1..(Len(net) + 1) BY <2>3, LenProperties
    <2>5. klick[new.ref].status = "active" => Covers(new.ref, new.rest, outbox, links, klick[new.ref].known)
      BY <2>1, <2>2 DEF Order, JobCovers
    <2> SUFFICES ASSUME NEW i \in DOMAIN net', klick'[net'[i].ref].status = "active"
                 PROVE  Covers(net'[i].ref, net'[i].rest, outbox', links', klick'[net'[i].ref].known)
      BY DEF NetCovers
    <2>6. CASE i = Len(net) + 1
      <3>1. net'[i] = new BY <2>3, <2>6
      <3> QED BY <2>1, <2>5, <3>1
    <2>7. CASE i # Len(net) + 1
      <3>1. i \in DOMAIN net BY <1>0, <2>4, <2>7
      <3>2. net'[i] = net[i] BY <1>0, <2>3, <3>1
      <3> QED BY <1>1, <3>1, <3>2
    <2> QED BY <2>6, <2>7
  <1>5. ASSUME NEW i \in DOMAIN net, net' = RemoveAt(net, i) PROVE NetCovers'
    <2>1. \A j \in DOMAIN net' : /\ (IF j < i THEN j ELSE j + 1) \in DOMAIN net \ {i}
                                 /\ net'[j] = net[IF j < i THEN j ELSE j + 1]
      BY <1>0, <1>5, RemoveAtIs
    <2>2. \A j \in DOMAIN net' : \E q \in DOMAIN net : net'[j] = net[q] BY <2>1
    <2>3. \A j \in DOMAIN net' : \E q \in DOMAIN net : net'[j].ref = net[q].ref /\ net'[j].rest = net[q].rest
      BY <2>2
    <2> QED BY <1>2, <2>3
  <1>6. CASE Answered BY <1>5, <1>6 DEF Answered
  <1>7. ASSUME NEW i \in DOMAIN net, ReceiveEvent(i) PROVE NetCovers'
    <2> DEFINE n == Min(net[i].rest)
    <2>1. /\ n \in net[i].rest
          /\ DOMAIN net' = DOMAIN net /\ links' = links /\ outbox' = outbox
          /\ \A j \in DOMAIN net : /\ net'[j].ref = net[j].ref
                                   /\ j # i => net'[j].rest = net[j].rest
          /\ net'[i].rest = net[i].rest \ {n}
          /\ \A k \in KLinks : klick'[k].status = klick[k].status
          /\ klick'[net[i].ref].known =
               IF klick[net[i].ref].status = "active" THEN klick[net[i].ref].known \cup {n} ELSE klick[net[i].ref].known
      BY <1>7, ReceiveIs
    <2> HIDE DEF n
    <2> SUFFICES ASSUME NEW j \in DOMAIN net, klick'[net[j].ref].status = "active"
                 PROVE  Covers(net[j].ref, net'[j].rest, outbox', links', klick'[net[j].ref].known)
      BY <2>1 DEF NetCovers
    <2>2. CASE j # i BY <1>1, <2>1, <2>2
    <2>3. CASE j = i
      <3>1. Covers(net[i].ref, net[i].rest, outbox', links', klick'[net[i].ref].known) BY <1>1, <2>3
      <3>2. n \in klick'[net[i].ref].known BY <1>r, <2>1, <2>3
      <3>3. /\ net'[i].rest \subseteq net[i].rest
            /\ klick'[net[i].ref].known \cup net[i].rest = klick'[net[i].ref].known \cup net'[i].rest
        BY <2>1, <3>2
      <3> QED BY <2>3, <3>1, <3>3 DEF Covers
    <2> QED BY <2>2, <2>3
  <1>8. ASSUME NEW i \in DOMAIN net, BatchEnds(i) PROVE NetCovers' BY <1>5, <1>8 DEF BatchEnds
  <1>9. CASE AnswerLost \/ JobDies
    <2>1. BatchLeft BY <1>9 DEF AnswerLost, JobDies
    <2>2. \A i \in DOMAIN net' : \E j \in DOMAIN net : net'[i].ref = net[j].ref /\ net'[i].rest = net[j].rest
      BY <2>1, BatchLeftIs DEF Awaited
    <2> QED BY <1>2, <2>2
  <1>10. CASE \/ \E k \in Kinds : WriterBegins(k) \/ WriterCommits(k) \/ WriterRollsBack(k)
              \/ \E l \in Links, k \in KLinks : ConnectHello(l, k) \/ RenewHello(l, k)
              \/ \E l \in Links : RequestDies(l)
              \/ \E k \in KLinks : NewToken(k) \/ KlickRevokes(k)
              \/ \E l \in Links : Renew(l) \/ Pause(l) \/ Resume(l) \/ Revoke(l)
              \/ PostRefused
              \/ \E l \in Links : Connect(l)
              \/ \E p \in Fillers : FillBegins(p) \/ FillReads(p)
              \/ FillDies
              \/ JobTakes \/ JobReads \/ JobNext \/ JobFilled \/ JobEnds \/ JobCommits
              \/ \E p \in Fillers : FillCommits(p)
              \/ Prune \/ SendReads \/ PostFails
    <2>1. net' = net
      BY <1>10 DEF WriterBegins, WriterCommits, WriterRollsBack, ConnectHello, RenewHello, RequestDies,
                   NewToken, KlickRevokes, Renew, Pause, Resume, Revoke, PostRefused, Connect, FillBegins,
                   FillReads, FillDies, JobTakes, JobReads, JobNext, JobFilled, JobEnds, JobCommits,
                   FillCommits, Prune, SendReads, PostFails
    <2> QED BY <1>3, <2>1
  <1> QED BY <1>4, <1>6, <1>7, <1>8, <1>9, <1>10, LinkSteps, Zenon

(* Only the job and a backfill write events, only pruning deletes them. *)
LEMMA WhoWrites ==
  ASSUME Next
  PROVE  /\ ~JobCommits /\ ~(\E p \in Fillers : FillCommits(p)) => outbox' = outbox
         /\ ~Prune => pruned' = pruned
  <1>1. CASE JobCommits BY <1>1 DEF JobCommits
  <1>2. CASE \E p \in Fillers : FillCommits(p) BY <1>2 DEF FillCommits
  <1>3. CASE Prune BY <1>3 DEF Prune
  <1>4. CASE \/ \E k \in Kinds : WriterBegins(k) \/ WriterCommits(k) \/ WriterRollsBack(k)
             \/ \E l \in Links, k \in KLinks : ConnectHello(l, k) \/ RenewHello(l, k)
             \/ \E l \in Links : RequestDies(l) \/ Renew(l) \/ Pause(l) \/ Resume(l) \/ Revoke(l) \/ Connect(l)
             \/ \E k \in KLinks : NewToken(k) \/ KlickRevokes(k)
             \/ PostRefused
             \/ \E p \in Fillers : FillBegins(p) \/ FillReads(p)
             \/ FillDies
             \/ JobTakes \/ JobReads \/ JobNext \/ JobFilled \/ JobEnds
             \/ SendReads \/ Post \/ PostFails \/ AnswerLost \/ JobDies \/ Answered
             \/ \E i \in DOMAIN net : ReceiveEvent(i) \/ BatchEnds(i)
    <2>1. outbox' = outbox /\ pruned' = pruned
      BY <1>4 DEF WriterBegins, WriterCommits, WriterRollsBack, ConnectHello, RenewHello, RequestDies, Renew,
                  Pause, Resume, Revoke, Connect, NewToken, KlickRevokes, PostRefused, FillBegins, FillReads,
                  FillDies, JobTakes, JobReads, JobNext, JobFilled, JobEnds, SendReads, Post, PostFails,
                  AnswerLost, JobDies, Answered, ReceiveEvent, BatchEnds
    <2> QED BY <2>1
  <1> QED BY <1>1, <1>2, <1>3, <1>4, LinkSteps, Zenon

(* The batch the job sends is the one it read. *)
LEMMA JobStep ==
  ASSUME Fits, Lasting, Order, ~tainted, Next
  PROVE  JobCovers'
  <1>0. job \in JobRow BY DEF Fits, LinkTypeOK
  <1>1. CASE SendReads
    <2>1. klick' = klick /\ links' = links /\ outbox' = outbox BY <1>1 DEF SendReads
    <2>2. CASE links[job.link].status = "active" /\ links[job.link].ready /\ Pending(job.link) # {}
      <3>1. job' = [job EXCEPT !.pc = "post", !.batch = Batch(job.link), !.token = links[job.link].token]
        BY <1>1, <2>2 DEF SendReads
      <3>2. job'.link = job.link /\ job'.batch = Batch(job.link) BY <1>0, <3>1 DEF JobRow
      <3>3. job.link \in Links BY <1>1 DEF SendReads, Fits, JobFits, Made
      <3>4. Connected(job.link) BY <2>2 DEF Connected
      <3>5. klick[links[job.link].ref].status = "active" =>
              Covers(links[job.link].ref, Batch(job.link), outbox, links, klick[links[job.link].ref].known)
        BY <2>2, <3>3, <3>4, BatchCovers
      <3> QED BY <2>1, <3>2, <3>5 DEF JobCovers
    <2>3. CASE ~(links[job.link].status = "active" /\ links[job.link].ready /\ Pending(job.link) # {})
      <3>1. job' = [job EXCEPT !.pc = "links", !.link = NoLink] BY <1>1, <2>3 DEF SendReads
      <3>2. job'.pc = "links" BY <1>0, <3>1 DEF JobRow
      <3> QED BY <3>2 DEF JobCovers
    <2> QED BY <2>2, <2>3
  <1>2. ASSUME job'.pc \in {"post", "wait"} =>
                 job.pc \in {"post", "wait"} /\ job'.link = job.link /\ job'.batch = job.batch
        PROVE  JobCovers'
    <2> SUFFICES ASSUME job'.pc \in {"post", "wait"}, klick'[links'[job'.link].ref].status = "active"
                 PROVE  Covers(links'[job'.link].ref, job'.batch, outbox', links',
                               klick'[links'[job'.link].ref].known)
      BY DEF JobCovers
    <2>1. job.pc \in {"post", "wait"} /\ job'.link = job.link /\ job'.batch = job.batch BY <1>2
    <2>2. Made(job.link, links) BY <2>1 DEF Fits, JobFits
    <2>3. links'[job.link].ref = links[job.link].ref BY <2>2 DEF Lasting, LinksLast, Made
    <2>4. links[job.link].ref \in KLinks BY <2>2 DEF Made, Fits, RowsFit
    <2>5. klick[links[job.link].ref].status = "active" BY <2>1, <2>3, <2>4 DEF Lasting
    <2>6. Covers(links[job.link].ref, job.batch, outbox, links, klick[links[job.link].ref].known)
      BY <2>1, <2>5 DEF Order, JobCovers
    <2>7. job.batch \subseteq 1..Len(outbox)
      <3>1. links[job.link].acked \in Nat /\ Len(outbox) \in Nat
        BY <2>2, LenProperties DEF Made, Fits, LinkTypeOK, LinkRow
      <3>2. job.batch \subseteq (links[job.link].acked + 1)..Len(outbox) BY <2>1 DEF Fits, JobFits
      <3> QED BY <3>1, <3>2
    <2> QED BY <2>1, <2>3, <2>4, <2>6, <2>7, CoversStep
  <1>3. CASE Post
    <2>1. job' = [job EXCEPT !.pc = "wait"] /\ job.pc = "post" BY <1>3 DEF Post
    <2>2. job'.link = job.link /\ job'.batch = job.batch BY <1>0, <2>1 DEF JobRow
    <2> QED BY <1>2, <2>1, <2>2
  <1>4. CASE \/ \E k \in Kinds : WriterBegins(k) \/ WriterCommits(k) \/ WriterRollsBack(k)
             \/ \E l \in Links, k \in KLinks : ConnectHello(l, k) \/ RenewHello(l, k)
             \/ \E l \in Links : RequestDies(l) \/ Renew(l) \/ Pause(l) \/ Resume(l) \/ Revoke(l) \/ Connect(l)
             \/ \E k \in KLinks : NewToken(k) \/ KlickRevokes(k)
             \/ \E p \in Fillers : FillBegins(p) \/ FillReads(p) \/ FillCommits(p)
             \/ FillDies \/ Prune
             \/ \E i \in DOMAIN net : ReceiveEvent(i) \/ BatchEnds(i)
    <2>1. job' = job
      BY <1>4 DEF WriterBegins, WriterCommits, WriterRollsBack, ConnectHello, RenewHello, RequestDies, Renew,
                  Pause, Resume, Revoke, Connect, NewToken, KlickRevokes, FillBegins, FillReads, FillCommits,
                  FillDies, Prune, ReceiveEvent, BatchEnds
    <2> QED BY <1>2, <2>1
  <1>5. CASE \/ PostRefused \/ JobTakes \/ JobReads \/ JobNext \/ JobFilled \/ JobEnds \/ JobCommits
             \/ PostFails \/ AnswerLost \/ JobDies \/ Answered
    <2>1. CASE PostRefused \/ PostFails \/ AnswerLost
      BY <1>0, <1>2, <2>1, DoneIs DEF PostRefused, PostFails, AnswerLost
    <2>2. CASE JobTakes \/ JobCommits \/ JobDies \/ JobEnds
      <3>1. job'.pc \notin {"post", "wait"} BY <2>2, RestingIs DEF JobTakes, JobCommits, JobDies, JobEnds, Resting
      <3> QED BY <1>2, <3>1
    <2>3. CASE JobReads \/ JobFilled \/ Answered
      <3>1. job'.pc \notin {"post", "wait"} BY <1>0, <2>3 DEF JobReads, JobFilled, Answered, JobRow
      <3> QED BY <1>2, <3>1
    <2>4. CASE JobNext
      <3>1. PICK t \in job.todo :
              job' = [job EXCEPT !.todo = @ \ {t}, !.link = t[1], !.pc = IF t[2] THEN "send" ELSE "fill"]
        BY <2>4 DEF JobNext
      <3>2. job'.pc \notin {"post", "wait"} BY <1>0, <3>1 DEF JobRow
      <3> QED BY <1>2, <3>2
    <2> QED BY <1>5, <2>1, <2>2, <2>3, <2>4
  <1> QED BY <1>1, <1>3, <1>4, <1>5, LinkSteps, Zenon

(* The cursor moves to the end of a batch that klick has, and nothing before
   it is missing. *)
LEMMA CursorStep ==
  ASSUME Fits, Awaited, Lasting, Order, ~tainted', Next
  PROVE  CursorHonest'
  <1>0. ~tainted /\ links \in [Links -> LinkRow] /\ Len(outbox) \in Nat
    BY LenProperties DEF Lasting, Fits, LinkTypeOK
  <1> SUFFICES ASSUME NEW l \in Links, Connected(l)', klick'[links'[l].ref].status = "active",
                      NEW n \in (links'[l].start + 1)..links'[l].acked, outbox'[n].link \in {NoLink, l}
               PROVE  n \in klick'[links'[l].ref].known
    BY DEF CursorHonest
  <1>1. CASE Connect(l)
    <2>1. links'[l].start = Len(outbox) /\ links'[l].acked = Len(outbox) BY <1>1, ConnectNew
    <2> QED BY <1>0, <2>1
  <1>2. CASE ~Connect(l)
    <2>1. /\ links'[l].ref = links[l].ref /\ links'[l].start = links[l].start
          /\ links'[l].acked = links[l].acked \/ (Answered /\ l = job.link)
          /\ Connected(l)
      BY <1>2, KeptStep
    <2>2. links[l].ref \in KLinks BY <2>1 DEF Connected, Fits, RowsFit
    <2>3. klick[links[l].ref].status = "active" /\ klick[links[l].ref].known \subseteq klick'[links[l].ref].known
      BY <2>1, <2>2 DEF Lasting
    <2>4. links[l].start \in Nat /\ links[l].acked \in Nat /\ links[l].acked <= Len(outbox)
      BY <1>0 DEF LinkRow, Fits, RowsFit
    <2>5. CASE links'[l].acked = links[l].acked
      <3>1. n \in 1..Len(outbox) BY <1>0, <2>1, <2>4, <2>5
      <3>2. outbox'[n] = outbox[n] BY <3>1 DEF Lasting, Longer
      <3>3. n \in klick[links[l].ref].known
        BY <1>0, <2>1, <2>3, <2>5, <3>2 DEF Order, CursorHonest
      <3> QED BY <2>1, <2>3, <3>3
    <2>6. CASE Answered /\ l = job.link
      <3> DEFINE top == Max(job.batch)
      <3>1. /\ job.pc = "wait" /\ top \in job.batch /\ links'[l].acked = top
        BY <2>6, AnsweredIs
      <3>2. PICK i \in DOMAIN net : net[i].awaited /\ net[i].rest = {} BY <2>6 DEF Answered
      <3> HIDE DEF top
      <3>3. outbox' = outbox BY <2>6 DEF Answered
      <3>4. job.batch \subseteq klick[links[l].ref].known
        BY <2>3, <2>6, <3>2 DEF Awaited
      <3>5. Covers(links[l].ref, job.batch, outbox, links, klick[links[l].ref].known)
        BY <2>3, <2>6, <3>1 DEF Order, JobCovers
      <3>6. \A r \in 1..top : Fresh(links[l].ref, r, links) /\ Mine(links[l].ref, r, outbox, links) =>
              r \in klick[links[l].ref].known
        BY <3>1, <3>4, <3>5 DEF Covers
      <3>7. Mine(links[l].ref, n, outbox, links) BY <3>3 DEF Mine
      <3>8. Fresh(links[l].ref, n, links)
        <4> SUFFICES ASSUME NEW m \in Links, links[m].ref = links[l].ref PROVE links[m].start < n
          BY DEF Fresh
        <4>1. links[m].start <= links[l].start BY <2>1 DEF Order, OneLink
        <4>2. links[m].start \in Nat BY <1>0 DEF LinkRow
        <4> QED BY <2>1, <2>4, <4>1, <4>2
      <3>9. n \in 1..top BY <2>1, <2>4, <3>1
      <3> QED BY <2>1, <2>3, <3>6, <3>7, <3>8, <3>9
    <2> QED BY <2>1, <2>5, <2>6
  <1> QED BY <1>1, <1>2

(* Pruning stops at the slowest connected link. *)
LEMMA PrunedStep ==
  ASSUME Fits, Awaited, Lasting, Order, ~tainted', Next
  PROVE  PrunedBehind'
  <1> SUFFICES ASSUME NEW l \in Links, Connected(l)' PROVE pruned' <= links'[l].acked
    BY DEF PrunedBehind
  <1>0. links \in [Links -> LinkRow] /\ Len(outbox) \in Nat /\ pruned \in 0..Len(outbox)
    BY LenProperties DEF Fits, LinkTypeOK
  <1>1. CASE Prune
    <2>1. links' = links BY <1>1 DEF Prune
    <2>2. Connected(l) BY <2>1 DEF Connected
    <2> QED BY <1>1, <2>1, <2>2, PruneFits
  <1>2. CASE ~Prune
    <2>1. pruned' = pruned BY <1>2, WhoWrites
    <2>2. CASE Connect(l)
      <3>1. links'[l].acked = Len(outbox) BY <2>2, ConnectNew
      <3> QED BY <1>0, <2>1, <3>1
    <2>3. CASE ~Connect(l)
      <3>1. /\ links'[l].acked = links[l].acked \/ (Answered /\ l = job.link)
            /\ Connected(l)
        BY <2>3, KeptStep
      <3>2. pruned <= links[l].acked BY <3>1 DEF Order, PrunedBehind
      <3>3. links[l].acked \in Nat BY <1>0 DEF LinkRow
      <3>4. CASE Answered /\ l = job.link
        <4> DEFINE top == Max(job.batch)
        <4>1. job.pc = "wait" /\ top \in job.batch /\ links'[l].acked = top BY <3>4, AnsweredIs
        <4> HIDE DEF top
        <4>2. job.batch \subseteq (links[l].acked + 1)..Len(outbox) BY <3>4, <4>1 DEF Fits, JobFits
        <4>3. top \in (links[l].acked + 1)..Len(outbox) BY <4>1, <4>2
        <4> QED BY <1>0, <2>1, <3>2, <3>3, <4>1, <4>3
      <3> QED BY <2>1, <3>1, <3>2, <3>4
    <2> QED BY <2>2, <2>3
  <1> QED BY <1>1, <1>2

(* A link is refused while another one to the same klick link is connected. *)
LEMMA OneStep ==
  ASSUME Fits, Awaited, Lasting, Order, ~tainted', Next
  PROVE  OneLink'
  <1> SUFFICES ASSUME NEW l \in Links, NEW m \in Links, Connected(l)', links'[m].ref = links'[l].ref
               PROVE  links'[m].start <= links'[l].start /\ (Connected(m)' => m = l)
    BY DEF OneLink
  <1>0. links \in [Links -> LinkRow] /\ Len(outbox) \in Nat /\ \A q \in Links : links[q].start \in Nat
    BY LenProperties DEF Fits, LinkTypeOK, LinkRow
  <1>1. CASE Connect(l)
    <2>1. /\ links'[l].ref = request[l].ref /\ links'[l].start = Len(outbox)
          /\ \A q \in Links : Connected(q) => links[q].ref # request[l].ref
      BY <1>1, ConnectNew
    <2>2. CASE m = l BY <1>0, <2>1, <2>2
    <2>3. CASE m # l
      <3>1. links'[m] = links[m] BY <1>1, <2>3, ConnectMakes
      <3>2. links[m].start <= Len(outbox) BY DEF Fits, RowsFit
      <3>3. ~Connected(m)' BY <2>1, <3>1 DEF Connected
      <3> QED BY <2>1, <3>1, <3>2, <3>3
    <2> QED BY <2>2, <2>3
  <1>2. CASE ~Connect(l) /\ Connect(m)
    <2>1. links'[l] = links[l] BY <1>2, ConnectMakes
    <2>2. Connected(l) BY <2>1 DEF Connected
    <2>3. ~Connected(m)'
      <3> SUFFICES ASSUME Connected(m)' PROVE FALSE OBVIOUS
      <3>1. /\ links'[m].ref = request[m].ref
            /\ \A q \in Links : Connected(q) => links[q].ref # request[m].ref
        BY <1>2, ConnectNew
      <3> QED BY <2>1, <2>2, <3>1
    <2>4. links' = links
      <3>1. \/ links' = links
            \/ links'[m] = [status |-> "active", ref |-> request[m].ref, acked |-> Len(outbox),
                            start |-> Len(outbox), ready |-> FALSE, token |-> request[m].token]
        BY <1>2, ConnectMakes
      <3> QED BY <2>3, <3>1 DEF Connected
    <2> QED BY <2>2, <2>3, <2>4 DEF Order, OneLink
  <1>3. CASE ~Connect(l) /\ ~Connect(m)
    <2>1. /\ links'[l].ref = links[l].ref /\ links'[l].start = links[l].start /\ Connected(l)
          /\ links'[m].ref = links[m].ref /\ links'[m].start = links[m].start
          /\ Connected(m)' => Connected(m)
      BY <1>3, KeptStep
    <2> QED BY <2>1 DEF Order, OneLink
  <1> QED BY <1>1, <1>2, <1>3

(* A backfill holds the row of its link: it is the connected one. *)
LEMMA OwnStep ==
  ASSUME Fits, Awaited, Lasting, LockedLinks, Order, ~tainted', Next
  PROVE  OwnEvents'
  <1> SUFFICES ASSUME NEW l \in Links, NEW m \in Links, NEW n \in (links'[l].start + 1)..Len(outbox'),
                      Connected(l)', outbox'[n].link = m, links'[m].ref = links'[l].ref
               PROVE  m = l
    BY DEF OwnEvents
  <1>0. /\ links \in [Links -> LinkRow] /\ Len(outbox) \in Nat /\ m # NoLink
        /\ \A q \in Links : links[q].start \in Nat
    BY LenProperties, LinkAssumption DEF Fits, LinkTypeOK, LinkRow
  <1>1. CASE \E q \in Links : Connect(q)
    <2>1. PICK q \in Links : Connect(q) BY <1>1
    <2>2. outbox' = outbox BY <2>1, ConnectMakes
    <2>3. l # q
      <3> SUFFICES ASSUME l = q PROVE FALSE OBVIOUS
      <3>1. links'[l].start = Len(outbox) BY <2>1, ConnectNew
      <3> QED BY <1>0, <2>2, <3>1
    <2>4. links'[l] = links[l] BY <2>1, <2>3, ConnectMakes
    <2>5. Connected(l) BY <2>4 DEF Connected
    <2>6. n \in 1..Len(outbox) BY <1>0, <2>2, <2>4
    <2>7. Made(m, links) BY <1>0, <2>2, <2>6 DEF Fits, RowsFit
    <2>8. links[q].status = "none" BY <2>1, ConnectMakes
    <2>9. links'[m] = links[m] BY <2>1, <2>7, <2>8, ConnectMakes DEF Made
    <2> QED BY <2>2, <2>4, <2>5, <2>9 DEF Order, OwnEvents
  <1>2. CASE ~\E q \in Links : Connect(q)
    <2>1. /\ links'[l].ref = links[l].ref /\ links'[l].start = links[l].start /\ Connected(l)
          /\ links'[m].ref = links[m].ref
      BY <1>2, KeptStep
    <2>2. CASE n <= Len(outbox)
      <3>1. n \in (links[l].start + 1)..Len(outbox) /\ n \in 1..Len(outbox) BY <1>0, <2>1, <2>2
      <3>2. outbox'[n] = outbox[n] BY <3>1 DEF Lasting, Longer
      <3> QED BY <2>1, <3>1, <3>2 DEF Order, OwnEvents
    <2>3. CASE ~(n <= Len(outbox))
      <3>1. outbox' # outbox
        <4>1. n <= Len(outbox') BY <1>0, <2>1
        <4> QED BY <2>3, <4>1
      <3>2. CASE JobCommits
        <4>1. n \in (Len(outbox) + 1)..Len(outbox')
          <5>1. Len(outbox') \in Nat BY <3>2, JobWrites, LenProperties
          <5> QED BY <1>0, <2>1, <2>3, <5>1
        <4>2. outbox'[n].link = NoLink BY <3>2, <4>1, JobWrites
        <4> QED BY <1>0, <4>2
      <3>3. ASSUME NEW p \in Fillers, FillCommits(p) PROVE m = l
        <4>1. /\ fill[p].link \in Links /\ Len(outbox') = Len(outbox) + 1
              /\ outbox'[Len(outbox')] = [kind |-> "row", ver |-> fill[p].read, link |-> fill[p].link]
          BY <3>3, FillWrites
        <4>2. n = Len(outbox') BY <1>0, <2>1, <2>3, <4>1
        <4>3. m = fill[p].link BY <4>1, <4>2
        <4>4. Connected(m) BY <3>3, <4>3 DEF FillCommits, LockedLinks
        <4> QED BY <2>1, <4>4 DEF Order, OneLink
      <3> QED BY <3>1, <3>2, <3>3, WhoWrites
    <2> QED BY <2>2, <2>3
  <1> QED BY <1>1, <1>2

(* Everything begins in order, and every step keeps it. *)
LEMMA OrderInit ==
  ASSUME Init
  PROVE  LockedLinks /\ Order
  <1>1. Fits BY FitsInit
  <1>2. \A l \in Links : ~Connected(l) BY DEF Init, Connected
  <1>3. job.pc = "idle" /\ \A p \in Fillers : fill[p].pc = "off" BY RestingIs DEF Init
  <1>4. DOMAIN net = {} /\ \A k \in KLinks : klick[k].known = {} BY DEF Init
  <1>5. LockedLinks BY <1>3 DEF LockedLinks
  <1>6. KnownCovers BY <1>4 DEF KnownCovers, Covers
  <1>7. NetCovers /\ JobCovers BY <1>3, <1>4 DEF NetCovers, JobCovers
  <1>8. CursorHonest /\ PrunedBehind /\ OneLink /\ OwnEvents
    BY <1>2 DEF CursorHonest, PrunedBehind, OneLink, OwnEvents
  <1> QED BY <1>5, <1>6, <1>7, <1>8 DEF Order

(* The parts of the order hold on, as long as the history is not tainted. *)
LEMMA OrderStep ==
  ASSUME Fits, Awaited, LockedLinks, ~tainted => Order, Next
  PROVE  LockedLinks' /\ (~tainted' => Order')
  <1>1. LockedLinks' BY LockedStep
  <1>2. ASSUME ~tainted' PROVE Order'
    <2>1. Lasting BY LastingStep
    <2>2. ~tainted BY <1>2, <2>1 DEF Lasting
    <2>3. Order BY <2>2
    <2>4. KnownCovers' BY <2>1, <2>3, KnownStep
    <2>5. NetCovers' BY <2>1, <2>3, NetStep
    <2>6. JobCovers' BY <2>1, <2>2, <2>3, JobStep
    <2>7. CursorHonest' BY <1>2, <2>1, <2>3, CursorStep
    <2>8. PrunedBehind' BY <1>2, <2>1, <2>3, PrunedStep
    <2>9. OneLink' BY <1>2, <2>1, <2>3, OneStep
    <2>10. OwnEvents' BY <1>2, <2>1, <2>3, OwnStep
    <2> QED BY <2>4, <2>5, <2>6, <2>7, <2>8, <2>9, <2>10 DEF Order
  <1> QED BY <1>1, <1>2

(* The inductive invariant of the order, for every behaviour. *)
LEMMA OrderAlways == Spec => [](Fits /\ Awaited /\ LockedLinks /\ (~tainted => Order))
  <1> DEFINE Inv == Fits /\ Awaited /\ LockedLinks /\ (~tainted => Order)
  <1>1. Init => Inv
    <2> SUFFICES ASSUME Init PROVE Inv OBVIOUS
    <2>1. Fits BY FitsInit
    <2>2. Awaited BY DEF Init, Awaited
    <2> QED BY <2>1, <2>2, OrderInit
  <1>2. Inv /\ [Next]_vars => Inv'
    <2> SUFFICES ASSUME Inv, [Next]_vars PROVE Inv' OBVIOUS
    <2>1. CASE Next
      <3>1. Fits' BY <2>1, FitsStep
      <3>2. Awaited' BY <2>1, AwaitedStep
      <3>3. LockedLinks' /\ (~tainted' => Order') BY <2>1, OrderStep
      <3> QED BY <3>1, <3>2, <3>3
    <2>2. CASE UNCHANGED vars
      <3>0. /\ UNCHANGED <<ver, alerted, writer, changes, outbox, pruned, links, request, job, fill, net>>
            /\ UNCHANGED <<klick, owed, tainted, fails>>
        BY <2>2 DEF vars, wallet
      <3>1. Fits'
        BY <3>0 DEF Fits, LinkTypeOK, RowsFit, JobFits, NetFits
      <3>2. Awaited' /\ LockedLinks' BY <3>0 DEF Awaited, LockedLinks, Connected
      <3>3. ~tainted' => Order'
        BY <3>0 DEF Order, KnownCovers, NetCovers, JobCovers, CursorHonest, PrunedBehind, OneLink, OwnEvents,
                    Connected
      <3> QED BY <3>1, <3>2, <3>3
    <2> QED BY <2>1, <2>2
  <1> QED BY <1>1, <1>2, PTL DEF Spec

(* The cursor of a link passes an event only when klick has it (sendLink,
   pruneOutbox): whatever calls were lost, repeated or answered late, and
   whatever was deleted from the outbox. *)
THEOREM CursorHonestAlways == Spec => []CursorHonest
  <1>1. (~tainted => Order) => CursorHonest BY DEF Order, CursorHonest
  <1> QED BY <1>1, OrderAlways, PTL

(* An event takes effect in klick at most once and after all earlier ones of
   its link (receiveEvent), also when several batches with the same events are
   being worked on. *)
THEOREM InOrderAlways == Spec => InOrder
  <1> DEFINE A == ~tainted => \A k \in KLinks :
                    \A n \in klick'[k].known \ klick[k].known, m \in klick[k].known :
                      (\A l \in Links : links[l].ref = k => links[l].start < n) => m < n
  <1>1. Fits /\ Awaited /\ LockedLinks /\ (~tainted => Order) /\ [Next]_vars => [A]_vars
    <2> SUFFICES ASSUME Fits, ~tainted => Order, Next, ~tainted, NEW k \in KLinks,
                        NEW n \in klick'[k].known \ klick[k].known, NEW m \in klick[k].known,
                        \A l \in Links : links[l].ref = k => links[l].start < n
                 PROVE  m < n
      OBVIOUS
    <2>1. klick'[k].known # klick[k].known OBVIOUS
    <2>2. PICK i \in DOMAIN net : ReceiveEvent(i) BY <2>1, OnlyReceived
    <2>3. n \in net[i].rest /\ k = net[i].ref /\ klick[k].status = "active"
      <3> DEFINE top == Min(net[i].rest)
      <3>1. /\ top \in net[i].rest
            /\ \A q \in KLinks : q # net[i].ref => klick'[q].known = klick[q].known
            /\ klick'[net[i].ref].known =
                 IF klick[net[i].ref].status = "active"
                 THEN klick[net[i].ref].known \cup {top} ELSE klick[net[i].ref].known
        BY <2>2, ReceiveIs
      <3> HIDE DEF top
      <3>2. k = net[i].ref BY <2>1, <3>1
      <3>3. klick[k].status = "active" BY <2>1, <3>1, <3>2
      <3>4. n = top BY <3>1, <3>2, <3>3
      <3> QED BY <3>1, <3>2, <3>3, <3>4
    <2>4. Mine(k, n, outbox, links) BY <2>3 DEF Order, NetCovers, Covers
    <2>5. Fresh(k, n, links) BY DEF Fresh
    <2>6. m \in Nat /\ n \in Nat /\ 1 <= n
      <3>1. klick[k].known \subseteq 1..Len(outbox) /\ net[i].rest \subseteq 1..Len(outbox) /\ Len(outbox) \in Nat
        BY LenProperties DEF Fits, NetFits, LinkTypeOK
      <3> QED BY <2>3, <3>1
    <2> SUFFICES ASSUME n <= m PROVE FALSE BY <2>6
    <2>7. n \in 1..m BY <2>6
    <2>8. n \in klick[k].known BY <2>4, <2>5, <2>7 DEF Order, KnownCovers, Covers
    <2> QED BY <2>8
  <1>2. InOrder <=> [][A]_vars BY DEF InOrder
  <1> QED BY <1>1, <1>2, OrderAlways, PTL DEF Spec

-----------------------------------------------------------------------------
(* Nothing is missed                                                        *)

(* a change of the row was noted and is not yet an event *)
Noted == "row" \in changes \cup job.taken

(* Nobody who began before there was a link still writes when one is ready. *)
ReadySeen == \A l \in Links : Connected(l) /\ links[l].ready => writer["row"] # "unseen"

(* A backfill waits for whoever noted nothing, and reads afterwards. *)
WaitSees ==
  \A p \in Fillers :
    fill[p].pc = "wait" /\ Connected(fill[p].link) /\ writer["row"] = "unseen" => "row" \in fill[p].waits
LockSees ==
  \A p \in Fillers :
    fill[p].pc = "locked" => writer["row"] # "unseen" /\ (fill[p].read = ver \/ Noted)

(* Who noted nothing began before anything was noted for the links there are. *)
UnseenFirst == HasLinks /\ writer["row"] = "unseen" => ~Noted

(* What the job has taken it will number with the version it read, and that is
   the current one or a later change is noted. *)
JobNotes ==
  HasLinks /\ job.pc = "read" =>
    /\ "row" \in job.taken => job.read = ver \/ "row" \in changes
    /\ ~job.linked => job.taken = {}

(* What a ready link is sent ends with the current version, or a change is noted. *)
AllSent == \A l \in Links : Connected(l) /\ links[l].ready => LastSent(l) = ver \/ Noted

Notes == ReadySeen /\ WaitSees /\ LockSees /\ UnseenFirst /\ JobNotes /\ AllSent

(* Events that are not of the link do not change what it is sent last. *)
LEMMA SentSame ==
  ASSUME Fits, outbox' \in Seq(Event), Longer(outbox, outbox'), NEW l \in Links,
         links'[l].start = links[l].start,
         \A n \in (Len(outbox) + 1)..Len(outbox') :
           ~(outbox'[n].kind = "row" /\ outbox'[n].link \in {NoLink, l})
  PROVE  LastSent(l)' = LastSent(l)
  <1> DEFINE rows == {n \in 1..Len(outbox) :
                        n > links[l].start /\ outbox[n].kind = "row" /\ outbox[n].link \in {NoLink, l}}
             more == {n \in 1..Len(outbox') :
                        n > links'[l].start /\ outbox'[n].kind = "row" /\ outbox'[n].link \in {NoLink, l}}
  <1>0. /\ Len(outbox) \in Nat /\ Len(outbox') \in Nat /\ Len(outbox) <= Len(outbox')
        /\ \A n \in 1..Len(outbox) : outbox'[n] = outbox[n]
    BY LenProperties DEF Longer, Fits, LinkTypeOK
  <1>1. more = rows
    <2>1. ASSUME NEW n \in 1..Len(outbox'), n > Len(outbox) PROVE n \notin more
      <3>1. n \in (Len(outbox) + 1)..Len(outbox') BY <1>0, <2>1
      <3> QED BY <3>1
    <2>2. ASSUME NEW n \in 1..Len(outbox) PROVE n \in 1..Len(outbox') /\ (n \in more <=> n \in rows)
      BY <1>0, <2>2
    <2>3. \A n \in 1..Len(outbox') : n > Len(outbox) \/ n \in 1..Len(outbox) BY <1>0
    <2> QED BY <2>1, <2>2, <2>3
  <1>2. /\ LastSent(l) = IF rows = {} THEN 0 ELSE outbox[Max(rows)].ver
        /\ LastSent(l)' = IF more = {} THEN 0 ELSE outbox'[Max(more)].ver
    BY DEF LastSent
  <1>3. rows # {} => Max(rows) \in 1..Len(outbox)
    <2>1. rows \in SUBSET (0..Len(outbox)) /\ rows \subseteq 1..Len(outbox) BY <1>0
    <2> HIDE DEF rows
    <2> QED BY <1>0, <2>1, MaxIs
  <1> HIDE DEF rows, more
  <1> QED BY <1>0, <1>1, <1>2, <1>3

(* The last event that was added is what a link is sent last, if it is of the link. *)
LEMMA SentNew ==
  ASSUME Fits, outbox' \in Seq(Event), Longer(outbox, outbox'), NEW l \in Links,
         links'[l].start = links[l].start, NEW v,
         NEW a \in (Len(outbox) + 1)..Len(outbox'),
         outbox'[a].kind = "row", outbox'[a].link \in {NoLink, l},
         \A n \in (Len(outbox) + 1)..Len(outbox') :
           outbox'[n].kind = "row" /\ outbox'[n].link \in {NoLink, l} => outbox'[n].ver = v
  PROVE  LastSent(l)' = v
  <1> DEFINE more == {n \in 1..Len(outbox') :
                        n > links'[l].start /\ outbox'[n].kind = "row" /\ outbox'[n].link \in {NoLink, l}}
             top == Max(more)
  <1>0. /\ Len(outbox) \in Nat /\ Len(outbox') \in Nat /\ links[l].start \in Nat
        /\ links[l].start <= Len(outbox)
    BY LenProperties DEF Fits, LinkTypeOK, RowsFit, LinkRow
  <1>1. a \in 1..Len(outbox') /\ a > links'[l].start BY <1>0
  <1>2. a \in more BY <1>1
  <1>3. more \in SUBSET (0..Len(outbox')) BY <1>0
  <1>4. LastSent(l)' = IF more = {} THEN 0 ELSE outbox'[top].ver BY DEF LastSent
  <1>5. top \in more /\ a <= top
    <2> HIDE DEF more
    <2> QED BY <1>0, <1>2, <1>3, MaxIs
  <1> HIDE DEF top
  <1>6. top \in 1..Len(outbox') /\ outbox'[top].kind = "row" /\ outbox'[top].link \in {NoLink, l} BY <1>5
  <1> HIDE DEF more
  <1>7. top \in (Len(outbox) + 1)..Len(outbox') BY <1>0, <1>5, <1>6
  <1> QED BY <1>2, <1>4, <1>6, <1>7

(* A step that changes neither the row nor the outbox, makes no link, lets no
   backfill go on and no note disappear. *)
LEMMA NotesLast ==
  ASSUME Fits, Notes, ver' = ver, outbox' = outbox, writer'["row"] = writer["row"],
         \A l \in Links : Connected(l)' =>
           Connected(l) /\ links'[l].start = links[l].start /\ links'[l].ready = links[l].ready,
         \A p \in Fillers : fill'[p].pc \in {"wait", "locked"} =>
           /\ fill'[p].pc = fill[p].pc /\ fill'[p].link = fill[p].link /\ fill'[p].read = fill[p].read
           /\ "row" \in fill[p].waits => "row" \in fill'[p].waits,
         Noted' = Noted,
         job'.pc = "read" =>
           /\ job.pc = "read" /\ job'.taken = job.taken /\ job'.read = job.read /\ job'.linked = job.linked
           /\ "row" \in changes => "row" \in changes'
  PROVE  Notes'
  <1>1. HasLinks' => HasLinks BY DEF HasLinks
  <1>2. ReadySeen' BY DEF Notes, ReadySeen
  <1>3. WaitSees'
    <2> SUFFICES ASSUME NEW p \in Fillers, fill'[p].pc = "wait",
                        links'[fill'[p].link].status \in {"active", "paused"}, writer'["row"] = "unseen"
                 PROVE  "row" \in fill'[p].waits
      BY DEF WaitSees, Connected
    <2>1. /\ fill[p].pc = "wait" /\ fill'[p].link = fill[p].link
          /\ "row" \in fill[p].waits => "row" \in fill'[p].waits
      OBVIOUS
    <2>2. fill[p].link \in Links BY <2>1 DEF Fits, JobFits, Made
    <2>3. Connected(fill[p].link)
      <3> DEFINE l == fill[p].link
      <3>1. l \in Links /\ links'[l].status \in {"active", "paused"} BY <2>1, <2>2
      <3> HIDE DEF l
      <3>2. Connected(l) BY <3>1 DEF Connected
      <3> QED BY <3>2 DEF l
    <2> QED BY <2>1, <2>3 DEF Notes, WaitSees
  <1>4. LockSees' BY DEF Notes, LockSees
  <1>5. UnseenFirst' BY <1>1 DEF Notes, UnseenFirst
  <1>6. JobNotes' BY <1>1 DEF Notes, JobNotes
  <1>7. AllSent'
    <2> SUFFICES ASSUME NEW l \in Links, Connected(l)', links'[l].ready
                 PROVE  LastSent(l)' = ver' \/ Noted'
      BY DEF AllSent
    <2>1. Connected(l) /\ links[l].ready /\ links'[l].start = links[l].start OBVIOUS
    <2>2. LastSent(l)' = LastSent(l) BY <2>1 DEF LastSent
    <2> QED BY <2>1, <2>2 DEF Notes, AllSent
  <1> QED BY <1>2, <1>3, <1>4, <1>5, <1>6, <1>7 DEF Notes

(* A transaction begins to write the row: it notes the change if there is a link. *)
LEMMA BeginNotes ==
  ASSUME Fits, LockedLinks, Notes, WriterBegins("row")
  PROVE  Notes'
  <1>0. writer \in [Kinds -> {"idle", "unseen", "seen"}] /\ "row" \in Kinds
    BY LinkAssumption DEF Fits, LinkTypeOK
  <1>1. /\ writer'["row"] = IF HasLinks THEN "seen" ELSE "unseen"
        /\ UNCHANGED <<ver, changes, outbox, links, job, fill>>
    BY <1>0 DEF WriterBegins
  <1>2. HasLinks' = HasLinks /\ Noted' = Noted /\ \A l : Connected(l)' = Connected(l)
    BY <1>1 DEF HasLinks, Noted, Connected
  <1>3. \A p \in Fillers : Connected(fill[p].link) /\ fill[p].pc # "off" => HasLinks
    BY DEF Fits, JobFits, Made, HasLinks
  <1>4. \A l \in Links : Connected(l) => HasLinks BY DEF HasLinks
  <1>5. ReadySeen' BY <1>1, <1>2, <1>4 DEF ReadySeen
  <1>6. WaitSees' BY <1>1, <1>2, <1>3 DEF WaitSees, Connected
  <1>7. LockSees' BY <1>1, <1>2, <1>3 DEF Notes, LockSees, LockedLinks
  <1>8. UnseenFirst' BY <1>1, <1>2 DEF UnseenFirst
  <1>9. JobNotes' BY <1>1, <1>2 DEF Notes, JobNotes
  <1>10. AllSent' BY <1>1, <1>2 DEF Notes, AllSent, LastSent
  <1> QED BY <1>5, <1>6, <1>7, <1>8, <1>9, <1>10 DEF Notes

(* It commits, with its note; without one no link is ready and no backfill has read. *)
LEMMA CommitNotes ==
  ASSUME Fits, Notes, WriterCommits("row")
  PROVE  Notes'
  <1>0. /\ writer \in [Kinds -> {"idle", "unseen", "seen"}] /\ "row" \in Kinds
        /\ fill \in [Fillers -> FillRow]
    BY LinkAssumption DEF Fits, LinkTypeOK
  <1>1. /\ writer["row"] \in {"unseen", "seen"} /\ writer'["row"] = "idle" /\ ver' = ver + 1
        /\ changes' = IF writer["row"] = "seen" THEN changes \cup {"row"} ELSE changes
        /\ UNCHANGED <<outbox, links, job>>
    BY <1>0 DEF WriterCommits
  <1>2. \A p \in Fillers : fill'[p].pc = fill[p].pc /\ fill'[p].link = fill[p].link
    <2>1. fill' = [p \in Fillers |-> [fill[p] EXCEPT !.waits = fill[p].waits \ {"row"}]] BY DEF WriterCommits
    <2> QED BY <1>0, <2>1 DEF FillRow
  <1>3. HasLinks' = HasLinks /\ \A l : Connected(l)' = Connected(l)
    BY <1>1 DEF HasLinks, Connected
  <1>4. ReadySeen' /\ WaitSees' /\ UnseenFirst' BY <1>1 DEF ReadySeen, WaitSees, UnseenFirst
  <1>5. CASE writer["row"] = "seen"
    <2>1. "row" \in changes' BY <1>1, <1>5
    <2>2. Noted' BY <2>1 DEF Noted
    <2>3. LockSees' /\ AllSent' BY <1>1, <2>2 DEF LockSees, AllSent
    <2>4. JobNotes' BY <1>1, <1>3, <2>1 DEF Notes, JobNotes
    <2> QED BY <1>4, <2>3, <2>4 DEF Notes
  <1>6. CASE writer["row"] = "unseen"
    <2>1. LockSees' BY <1>2, <1>6 DEF Notes, LockSees
    <2>2. AllSent' BY <1>1, <1>3, <1>6 DEF Notes, ReadySeen, AllSent
    <2>3. JobNotes'
      <3> SUFFICES ASSUME HasLinks, job.pc = "read"
                   PROVE  "row" \notin job.taken /\ (~job.linked => job.taken = {})
        BY <1>1, <1>3 DEF JobNotes
      <3>1. ~Noted BY <1>6 DEF Notes, UnseenFirst
      <3> QED BY <3>1 DEF Noted, Notes, JobNotes
    <2> QED BY <1>4, <2>1, <2>2, <2>3 DEF Notes
  <1> QED BY <1>1, <1>5, <1>6

(* It is rolled back. *)
LEMMA RollBackNotes ==
  ASSUME Fits, Notes, WriterRollsBack("row")
  PROVE  Notes'
  <1>0. /\ writer \in [Kinds -> {"idle", "unseen", "seen"}] /\ "row" \in Kinds
        /\ fill \in [Fillers -> FillRow]
    BY LinkAssumption DEF Fits, LinkTypeOK
  <1>1. /\ writer'["row"] = "idle" /\ UNCHANGED <<ver, changes, outbox, links, job>>
    BY <1>0 DEF WriterRollsBack
  <1>2. \A p \in Fillers :
          fill'[p].pc = fill[p].pc /\ fill'[p].link = fill[p].link /\ fill'[p].read = fill[p].read
    <2>1. fill' = [p \in Fillers |-> [fill[p] EXCEPT !.waits = fill[p].waits \ {"row"}]] BY DEF WriterRollsBack
    <2> QED BY <1>0, <2>1 DEF FillRow
  <1>3. HasLinks' = HasLinks /\ Noted' = Noted /\ \A l : Connected(l)' = Connected(l)
    BY <1>1 DEF HasLinks, Noted, Connected
  <1>4. ReadySeen' /\ WaitSees' /\ UnseenFirst' BY <1>1 DEF ReadySeen, WaitSees, UnseenFirst
  <1>5. LockSees' BY <1>1, <1>2, <1>3 DEF Notes, LockSees
  <1>6. JobNotes' /\ AllSent' BY <1>1, <1>3 DEF Notes, JobNotes, AllSent, LastSent
  <1> QED BY <1>4, <1>5, <1>6 DEF Notes

(* A link is made: it is not ready, and no note is left of an earlier one. *)
LEMMA ConnectNotes ==
  ASSUME Fits, Notes, ~tainted', NEW l \in Links, Connect(l), Connected(l)'
  PROVE  Notes'
  <1>0. fill \in [Fillers -> FillRow] BY DEF Fits, LinkTypeOK
  <1>1. /\ UNCHANGED <<ver, writer, changes, outbox, job>>
        /\ \A m \in Links : m # l => links'[m] = links[m]
    BY ConnectMakes DEF wallet
  <1>2. /\ ~Connected(l) /\ links[l].status = "none" /\ ~links'[l].ready
        /\ tainted' = (tainted \/ Leftovers)
        /\ fill' = [fill EXCEPT !["user"] = [pc |-> "begin", link |-> l, waits |-> {}, read |-> 0]]
    BY ConnectNew
  <1>3. Noted' = Noted BY <1>1 DEF Noted
  <1>4. ~Leftovers BY <1>2
  <1>5. \A m \in Links : m # l => Connected(m)' = Connected(m) BY <1>1 DEF Connected
  <1>6. \A p \in Fillers : fill'[p].pc \in {"wait", "locked"} => fill'[p] = fill[p] /\ fill[p].link # l
    <2> SUFFICES ASSUME NEW p \in Fillers, fill'[p].pc \in {"wait", "locked"}
                 PROVE  fill'[p] = fill[p] /\ fill[p].link # l
      OBVIOUS
    <2>1. fill'[p] = IF p = "user" THEN [pc |-> "begin", link |-> l, waits |-> {}, read |-> 0] ELSE fill[p]
      BY <1>0, <1>2
    <2>2. fill'[p] = fill[p] BY <2>1
    <2> QED BY <1>2, <2>2 DEF Fits, JobFits, Made
  <1>7. ReadySeen' BY <1>1, <1>2, <1>5 DEF Notes, ReadySeen
  <1>8. WaitSees'
    <2> SUFFICES ASSUME NEW p \in Fillers, fill'[p].pc = "wait",
                        links'[fill'[p].link].status \in {"active", "paused"}, writer'["row"] = "unseen"
                 PROVE  "row" \in fill'[p].waits
      BY DEF WaitSees, Connected
    <2>1. fill'[p] = fill[p] /\ fill[p].link # l BY <1>6
    <2>2. links'[fill[p].link] = links[fill[p].link] BY <1>1, <2>1 DEF Fits, JobFits, Made
    <2>3. Connected(fill[p].link) BY <2>1, <2>2 DEF Connected
    <2> QED BY <1>1, <2>1, <2>3 DEF Notes, WaitSees
  <1>9. LockSees' BY <1>1, <1>3, <1>6 DEF Notes, LockSees
  <1>10. UnseenFirst'
    <2>1. CASE HasLinks BY <1>1, <1>3, <2>1 DEF Notes, UnseenFirst
    <2>2. CASE ~HasLinks
      <3>1. changes \cup job.taken = {} BY <1>4, <2>2 DEF Leftovers
      <3> QED BY <1>3, <3>1 DEF UnseenFirst, Noted
    <2> QED BY <2>1, <2>2
  <1>11. JobNotes'
    <2>1. CASE HasLinks BY <1>1, <2>1 DEF Notes, JobNotes
    <2>2. CASE ~HasLinks
      <3>1. job.taken = {} BY <1>4, <2>2 DEF Leftovers
      <3> QED BY <1>1, <3>1 DEF JobNotes
    <2> QED BY <2>1, <2>2
  <1>12. AllSent'
    <2> SUFFICES ASSUME NEW m \in Links, Connected(m)', links'[m].ready
                 PROVE  LastSent(m)' = ver' \/ Noted'
      BY DEF AllSent
    <2>1. m # l BY <1>2
    <2>2. links'[m] = links[m] /\ Connected(m) BY <1>1, <1>5, <2>1
    <2>3. LastSent(m)' = LastSent(m) BY <1>1, <2>2 DEF LastSent
    <2> QED BY <1>1, <1>3, <2>2, <2>3 DEF Notes, AllSent
  <1> QED BY <1>7, <1>8, <1>9, <1>10, <1>11, <1>12 DEF Notes

(* A backfill begins to wait for everyone who writes; when they are done it reads. *)
LEMMA FillNotes ==
  ASSUME Fits, Notes, NEW p \in Fillers, FillBegins(p) \/ FillReads(p)
  PROVE  Notes'
  <1>0. /\ fill \in [Fillers -> FillRow] /\ "row" \in Kinds /\ fill[p] \in FillRow
        /\ UNCHANGED <<ver, writer, changes, outbox, links, job>>
    BY LinkAssumption DEF Fits, LinkTypeOK, FillBegins, FillReads, wallet
  <1>1. HasLinks' = HasLinks /\ Noted' = Noted /\ \A l : Connected(l)' = Connected(l)
    BY <1>0 DEF HasLinks, Noted, Connected
  <1>2. ReadySeen' /\ UnseenFirst' /\ JobNotes' /\ AllSent'
    BY <1>0, <1>1 DEF Notes, ReadySeen, UnseenFirst, JobNotes, AllSent, LastSent
  <1>3. CASE FillBegins(p)
    <2>1. /\ \A q \in Fillers : q # p => fill'[q] = fill[q]
          /\ fill'[p].pc = "wait" /\ fill'[p].waits = {k \in Kinds : writer[k] # "idle"}
      BY <1>0, <1>3 DEF FillBegins, FillRow
    <2>2. WaitSees' BY <1>0, <1>1, <2>1 DEF Notes, WaitSees, Connected
    <2>3. LockSees' BY <1>0, <1>1, <2>1 DEF Notes, LockSees
    <2> QED BY <1>2, <2>2, <2>3 DEF Notes
  <1>4. CASE FillReads(p)
    <2>1. /\ fill[p].pc = "wait" /\ fill[p].waits = {}
          /\ fill' = [fill EXCEPT ![p] = IF links[fill[p].link].ready \/ ~Connected(fill[p].link) THEN Off
                                         ELSE [fill[p] EXCEPT !.pc = "locked", !.read = ver]]
      BY <1>4 DEF FillReads
    <2>2. \A q \in Fillers : q # p => fill'[q] = fill[q] BY <1>0, <2>1
    <2>3. CASE links[fill[p].link].ready \/ ~Connected(fill[p].link)
      <3>1. fill'[p].pc = "off" BY <1>0, <2>1, <2>3, RestingIs
      <3>2. WaitSees' BY <1>0, <1>1, <2>2, <3>1 DEF Notes, WaitSees, Connected
      <3>3. LockSees' BY <1>0, <1>1, <2>2, <3>1 DEF Notes, LockSees
      <3> QED BY <1>2, <3>2, <3>3 DEF Notes
    <2>4. CASE ~(links[fill[p].link].ready \/ ~Connected(fill[p].link))
      <3>1. fill'[p].pc = "locked" /\ fill'[p].read = ver BY <1>0, <2>1, <2>4 DEF FillRow
      <3>2. writer["row"] # "unseen" BY <2>1, <2>4 DEF Notes, WaitSees
      <3>3. WaitSees' BY <1>0, <1>1, <2>2, <3>1 DEF Notes, WaitSees, Connected
      <3>4. LockSees' BY <1>0, <1>1, <2>2, <3>1, <3>2 DEF Notes, LockSees
      <3> QED BY <1>2, <3>3, <3>4 DEF Notes
    <2> QED BY <2>3, <2>4
  <1> QED BY <1>3, <1>4

(* What it read is what the link is sent last. *)
LEMMA FilledNotes ==
  ASSUME Fits, Notes, NEW p \in Fillers, FillCommits(p)
  PROVE  Notes'
  <1> DEFINE l == fill[p].link
  <1>0. /\ fill \in [Fillers -> FillRow] /\ links \in [Links -> LinkRow] /\ l \in Links
        /\ fill[p].pc = "locked" /\ Len(outbox) \in Nat
        /\ UNCHANGED <<ver, writer, changes, job>>
        /\ links' = [links EXCEPT ![l].ready = TRUE] /\ fill' = [fill EXCEPT ![p] = Off]
    BY FillWrites, LenProperties DEF Fits, LinkTypeOK, FillCommits, wallet
  <1>w. /\ outbox' \in Seq(Event) /\ Longer(outbox, outbox') /\ Len(outbox') = Len(outbox) + 1
        /\ outbox'[Len(outbox')] = [kind |-> "row", ver |-> fill[p].read, link |-> l]
    BY FillWrites
  <1> HIDE DEF l
  <1>1. /\ \A m \in Links : links'[m].start = links[m].start /\ links'[m].status = links[m].status
        /\ \A m \in Links : m # l => links'[m].ready = links[m].ready
    BY <1>0 DEF LinkRow
  <1>2. \A m \in Links : Connected(m)' = Connected(m) BY <1>1 DEF Connected
  <1>3. HasLinks' = HasLinks /\ Noted' = Noted BY <1>0, <1>2 DEF HasLinks, Noted
  <1>4. \A q \in Fillers : fill'[q].pc # "off" => fill'[q] = fill[q] BY <1>0, RestingIs
  <1>5. writer["row"] # "unseen" /\ (fill[p].read = ver \/ Noted) BY <1>0 DEF Notes, LockSees
  <1>6. ReadySeen' /\ WaitSees' BY <1>0, <1>5 DEF ReadySeen, WaitSees
  <1>7. LockSees' BY <1>0, <1>3, <1>4 DEF Notes, LockSees
  <1>8. UnseenFirst' BY <1>0, <1>5 DEF UnseenFirst
  <1>9. JobNotes' BY <1>0, <1>3 DEF Notes, JobNotes
  <1>10. AllSent'
    <2> SUFFICES ASSUME NEW m \in Links, Connected(m)', links'[m].ready
                 PROVE  LastSent(m)' = ver' \/ Noted'
      BY DEF AllSent
    <2>0. /\ \A n \in (Len(outbox) + 1)..Len(outbox') : n = Len(outbox')
          /\ Len(outbox') \in (Len(outbox) + 1)..Len(outbox')
      BY <1>0, <1>w
    <2>1. CASE m = l
      <3> DEFINE v == fill[p].read
                 a == Len(outbox')
      <3>1. /\ a \in (Len(outbox) + 1)..Len(outbox')
            /\ outbox'[a].kind = "row" /\ outbox'[a].link \in {NoLink, m}
            /\ \A r \in (Len(outbox) + 1)..Len(outbox') :
                 outbox'[r].kind = "row" /\ outbox'[r].link \in {NoLink, m} => outbox'[r].ver = v
        <4>1. outbox'[a].kind = "row" /\ outbox'[a].link = l /\ outbox'[a].ver = v BY <1>w
        <4> HIDE DEF v
        <4> QED BY <2>0, <2>1, <4>1
      <3> HIDE DEF v, a
      <3>2. LastSent(m)' = v BY <1>w, <1>1, <3>1, SentNew
      <3> QED BY <1>0, <1>3, <1>5, <3>2 DEF v
    <2>2. CASE m # l
      <3>1. l # NoLink BY <1>0, LinkAssumption
      <3>2. LastSent(m)' = LastSent(m) BY <1>w, <1>1, <2>0, <2>2, <3>1, SentSame
      <3> QED BY <1>0, <1>1, <1>2, <1>3, <2>2, <3>2 DEF Notes, AllSent
    <2> QED BY <2>1, <2>2
  <1> QED BY <1>6, <1>7, <1>8, <1>9, <1>10 DEF Notes

(* The job reads the version for the notes it has taken. *)
LEMMA ReadNotes ==
  ASSUME Fits, Notes, JobReads
  PROVE  Notes'
  <1>0. job \in JobRow BY DEF Fits, LinkTypeOK
  <1>1. /\ UNCHANGED <<ver, writer, changes, outbox, links, fill>>
        /\ job' = [job EXCEPT !.pc = "read", !.linked = HasLinks, !.read = ver]
    BY DEF JobReads, wallet
  <1>2. job'.taken = job.taken /\ job'.linked = HasLinks /\ job'.read = ver BY <1>0, <1>1 DEF JobRow
  <1>3. HasLinks' = HasLinks /\ Noted' = Noted /\ \A l : Connected(l)' = Connected(l)
    BY <1>1, <1>2 DEF HasLinks, Noted, Connected
  <1>4. JobNotes' BY <1>1, <1>2, <1>3 DEF JobNotes
  <1>5. ReadySeen' /\ WaitSees' /\ LockSees' /\ UnseenFirst' /\ AllSent'
    BY <1>1, <1>3 DEF Notes, ReadySeen, WaitSees, LockSees, UnseenFirst, AllSent, LastSent, Connected
  <1> QED BY <1>4, <1>5 DEF Notes

(* It numbers that version for every link. *)
LEMMA WrittenNotes ==
  ASSUME Fits, Notes, JobCommits
  PROVE  Notes'
  <1>0. /\ job.pc = "read" /\ SeqFree /\ UNCHANGED <<ver, writer, changes, links, fill>>
        /\ job'.taken = {} /\ job'.pc = "links"
    BY DEF JobCommits, Resting, wallet
  <1>1. HasLinks' = HasLinks /\ \A l : Connected(l)' = Connected(l) BY <1>0 DEF HasLinks, Connected
  <1>2. Noted' = ("row" \in changes) BY <1>0 DEF Noted
  <1>3. ReadySeen' /\ WaitSees' /\ JobNotes'
    BY <1>0, <1>1 DEF Notes, ReadySeen, WaitSees, JobNotes, Connected
  <1>4. LockSees' BY <1>0 DEF LockSees, SeqFree
  <1>5. UnseenFirst' BY <1>0, <1>1, <1>2 DEF Notes, UnseenFirst, Noted
  <1>6. AllSent'
    <2> SUFFICES ASSUME NEW l \in Links, Connected(l), links[l].ready
                 PROVE  LastSent(l)' = ver \/ "row" \in changes
      BY <1>0, <1>1, <1>2 DEF AllSent
    <2>0. HasLinks BY DEF HasLinks
    <2>w. outbox' \in Seq(Event) /\ Longer(outbox, outbox') /\ links'[l].start = links[l].start
      BY <1>0, JobWrites
    <2>1. CASE "row" \in job.taken
      <3>1. job.linked /\ (job.read = ver \/ "row" \in changes) BY <1>0, <2>0, <2>1 DEF Notes, JobNotes
      <3>2. PICK n \in (Len(outbox) + 1)..Len(outbox') : outbox'[n].kind = "row"
        BY <2>1, <3>1, JobWrites
      <3>3. \A r \in (Len(outbox) + 1)..Len(outbox') :
              outbox'[r].link = NoLink /\ (outbox'[r].kind = "row" => outbox'[r].ver = job.read)
        BY JobWrites
      <3> DEFINE v == job.read
      <3>4. /\ outbox'[n].link \in {NoLink, l}
            /\ \A r \in (Len(outbox) + 1)..Len(outbox') :
                 outbox'[r].kind = "row" /\ outbox'[r].link \in {NoLink, l} => outbox'[r].ver = v
        BY <3>3
      <3> HIDE DEF v
      <3>5. LastSent(l)' = v BY <2>w, <3>2, <3>4, SentNew
      <3> QED BY <3>1, <3>5 DEF v
    <2>2. CASE "row" \notin job.taken
      <3>1. \A n \in (Len(outbox) + 1)..Len(outbox') : outbox'[n].kind # "row" BY <2>2, JobWrites
      <3>2. LastSent(l)' = LastSent(l) BY <2>w, <3>1, SentSame
      <3> QED BY <2>2, <3>2 DEF Notes, AllSent, Noted
    <2> QED BY <2>1, <2>2
  <1> QED BY <1>3, <1>4, <1>5, <1>6 DEF Notes

(* Every step keeps the notes and what is sent in step. *)
LEMMA NotesStep ==
  ASSUME Fits, Awaited, LockedLinks, Notes, ~tainted', Next
  PROVE  Notes'
  <1>0. /\ job \in JobRow /\ links \in [Links -> LinkRow] /\ fill \in [Fillers -> FillRow]
        /\ writer \in [Kinds -> {"idle", "unseen", "seen"}]
        /\ "row" \in Kinds /\ Kinds \subseteq {"row", "alert"} /\ Fillers = {"user", "job"}
        /\ job.pc \notin {"take", "read"} => job.taken = {}
    BY LinkAssumption DEF Fits, LinkTypeOK, JobFits, Fillers
  <1>1. ASSUME UNCHANGED <<ver, writer, outbox, links>>,
               \A p \in Fillers : fill'[p].pc \in {"wait", "locked"} => fill'[p] = fill[p],
               changes' \cup job'.taken = changes \cup job.taken,
               job'.pc = "read" => job' = job /\ changes' = changes
        PROVE  Notes'
    <2>1. Noted' = Noted BY <1>1 DEF Noted
    <2>2. \A l \in Links : Connected(l)' => Connected(l) BY <1>1 DEF Connected
    <2> QED BY <1>1, <2>1, <2>2, NotesLast
  <1>2. ASSUME UNCHANGED <<ver, writer, changes, outbox, links, job, fill>> PROVE Notes'
    BY <1>1, <1>2
  <1>3. ASSUME NEW k \in Kinds, WriterBegins(k) \/ WriterCommits(k) \/ WriterRollsBack(k) PROVE Notes'
    <2>1. CASE k = "row" BY <1>3, <2>1, BeginNotes, CommitNotes, RollBackNotes
    <2>2. CASE k = "alert"
      <3>1. /\ UNCHANGED <<ver, outbox, links, job>> /\ writer'["row"] = writer["row"]
            /\ changes \subseteq changes' /\ changes' \subseteq changes \cup {"alert"}
        BY <1>0, <1>3, <2>2 DEF WriterBegins, WriterCommits, WriterRollsBack
      <3>2. \A p \in Fillers :
              /\ fill'[p].pc = fill[p].pc /\ fill'[p].link = fill[p].link /\ fill'[p].read = fill[p].read
              /\ "row" \in fill[p].waits => "row" \in fill'[p].waits
        <4>1. \/ fill' = fill
              \/ fill' = [p \in Fillers |-> [fill[p] EXCEPT !.waits = fill[p].waits \ {"alert"}]]
          BY <1>3, <2>2 DEF WriterBegins, WriterCommits, WriterRollsBack
        <4>2. \A p \in Fillers : fill[p] \in FillRow BY <1>0
        <4> QED BY <4>1, <4>2 DEF FillRow
      <3>3. Noted' = Noted BY <3>1 DEF Noted
      <3>4. \A l \in Links : Connected(l)' => Connected(l) BY <3>1 DEF Connected
      <3> QED BY <3>1, <3>2, <3>3, <3>4, NotesLast
    <2> QED BY <1>0, <2>1, <2>2
  <1>4. CASE \/ \E l \in Links, k \in KLinks : ConnectHello(l, k) \/ RenewHello(l, k)
             \/ \E l \in Links : RequestDies(l)
             \/ \E k \in KLinks : NewToken(k) \/ KlickRevokes(k)
             \/ Prune
             \/ \E i \in DOMAIN net : ReceiveEvent(i) \/ BatchEnds(i)
    <2>1. UNCHANGED <<ver, writer, changes, outbox, links, job, fill>>
      BY <1>4 DEF ConnectHello, RenewHello, RequestDies, NewToken, KlickRevokes, Prune, ReceiveEvent,
                  BatchEnds, wallet
    <2> QED BY <1>2, <2>1
  <1>5. CASE \/ \E l \in Links : Renew(l) \/ Pause(l) \/ Resume(l) \/ Revoke(l)
             \/ PostRefused \/ Answered
    <2>1. UNCHANGED <<ver, writer, changes, outbox, fill>>
      BY <1>5 DEF Renew, Pause, Resume, Revoke, PostRefused, Answered, wallet
    <2>2. job'.taken = job.taken /\ (job'.pc = "read" => job' = job)
      <3>1. CASE \E l \in Links : Renew(l) \/ Pause(l) \/ Resume(l) \/ Revoke(l)
        BY <3>1 DEF Renew, Pause, Resume, Revoke
      <3>2. CASE PostRefused BY <1>0, <3>2, DoneIs DEF PostRefused
      <3>3. CASE Answered BY <3>3, AnsweredIs
      <3> QED BY <1>5, <3>1, <3>2, <3>3
    <2>3. \A l \in Links : links'[l].start = links[l].start /\ links'[l].ready = links[l].ready
      <3>1. CASE Answered BY <3>1, AnsweredIs
      <3>2. CASE \/ \E l \in Links : Renew(l) \/ Pause(l) \/ Resume(l) \/ Revoke(l)
                 \/ PostRefused
        <4>1. \E m, s, t : \/ links' = [links EXCEPT ![m].status = s]
                           \/ links' = [links EXCEPT ![m].token = t, ![m].status = s]
          <5>1. CASE PostRefused BY <5>1 DEF PostRefused
          <5>2. ASSUME NEW l \in Links, Renew(l) \/ Pause(l) \/ Resume(l) \/ Revoke(l)
                PROVE  \E s, t : \/ links' = [links EXCEPT ![l].status = s]
                                \/ links' = [links EXCEPT ![l].token = t, ![l].status = s]
            <6>1. CASE Renew(l) BY <6>1 DEF Renew
            <6>2. CASE Pause(l) \/ Resume(l) \/ Revoke(l) BY <6>2 DEF Pause, Resume, Revoke
            <6> QED BY <5>2, <6>1, <6>2
          <5> QED BY <3>2, <5>1, <5>2
        <4>2. \A l \in Links : links[l] \in LinkRow BY <1>0
        <4>3. ASSUME NEW m, NEW s, NEW t, NEW l \in Links,
                     \/ links' = [links EXCEPT ![m].status = s]
                     \/ links' = [links EXCEPT ![m].token = t, ![m].status = s]
              PROVE  links'[l].start = links[l].start /\ links'[l].ready = links[l].ready
          <5>1. links'[l] = links[l] \/ links'[l] = [links[l] EXCEPT !.status = s]
                  \/ links'[l] = [links[l] EXCEPT !.token = t, !.status = s]
            BY <1>0, <4>3
          <5> QED BY <4>2, <5>1 DEF LinkRow
        <4> QED BY <4>1, <4>3
      <3> QED BY <1>5, <3>1, <3>2
    <2>4. Lasting BY LastingStep
    <2>5. \A l \in Links : Connected(l)' => Connected(l)
      <3> SUFFICES ASSUME NEW l \in Links, Connected(l)', ~Connected(l) PROVE FALSE OBVIOUS
      <3>1. ~Made(l, links) BY <2>4 DEF Lasting
      <3>2. links[l].status = "none" BY <3>1 DEF Made
      <3>3. links'[l].status = "none"
        <4>1. CASE Answered BY <3>2, <4>1, AnsweredIs
        <4>2. ASSUME NEW m \in Links, Renew(m) \/ Pause(m) \/ Resume(m) \/ Revoke(m)
              PROVE  links[m].status # "none" /\ (m # l => links'[l] = links[l])
          <5>1. links[m].status # "none"
            BY <4>2 DEF Renew, Pause, Resume, Revoke, Connected, Fits, RowsFit
          <5> QED BY <1>0, <4>2, <5>1 DEF Renew, Pause, Resume, Revoke
        <4>3. CASE PostRefused
          <5>1. links[job.link].status # "none" BY <4>3 DEF PostRefused, Fits, JobFits, Made
          <5>2. job.link # l BY <3>2, <5>1
          <5> QED BY <1>0, <3>2, <4>3, <5>2 DEF PostRefused
        <4> QED BY <1>5, <3>2, <4>1, <4>2, <4>3
      <3> QED BY <3>3 DEF Connected
    <2>6. Noted' = Noted BY <2>1, <2>2 DEF Noted
    <2> QED BY <2>1, <2>2, <2>3, <2>5, <2>6, NotesLast
  <1>6. ASSUME NEW l \in Links, Connect(l) PROVE Notes'
    <2>1. CASE Connected(l)' BY <1>6, <2>1, ConnectNotes
    <2>2. CASE ~Connected(l)'
      <3>1. UNCHANGED <<ver, writer, changes, outbox, job>> BY <1>6, ConnectMakes DEF wallet
      <3>2. links' = links /\ fill' = fill
        <4>1. \/ links' = links /\ fill' = fill
              \/ links'[l] = [status |-> "active", ref |-> request[l].ref, acked |-> Len(outbox),
                              start |-> Len(outbox), ready |-> FALSE, token |-> request[l].token]
          BY <1>6, ConnectMakes
        <4> QED BY <2>2, <4>1 DEF Connected
      <3> QED BY <1>2, <3>1, <3>2
    <2> QED BY <2>1, <2>2
  <1>7. CASE \E p \in Fillers : FillBegins(p) \/ FillReads(p) BY <1>7, FillNotes
  <1>8. CASE \E p \in Fillers : FillCommits(p) BY <1>8, FilledNotes
  <1>9. CASE FillDies
    <2>1. UNCHANGED <<ver, writer, changes, outbox, links, job>> /\ fill' = [fill EXCEPT !["user"] = Off]
      BY <1>9 DEF FillDies, wallet
    <2>2. \A p \in Fillers : fill'[p].pc \in {"wait", "locked"} => fill'[p] = fill[p]
      BY <1>0, <2>1, RestingIs
    <2> QED BY <1>1, <2>1, <2>2
  <1>10. CASE JobReads BY <1>10, ReadNotes
  <1>11. CASE JobCommits BY <1>11, WrittenNotes
  <1>12. CASE JobTakes \/ JobEnds
    <2>1. UNCHANGED <<ver, writer, outbox, links, fill>> BY <1>12 DEF JobTakes, JobEnds, wallet
    <2>2. job'.pc # "read" /\ changes' \cup job'.taken = changes \cup job.taken
      <3>1. CASE JobTakes BY <1>0, <3>1 DEF JobTakes, Resting
      <3>2. CASE JobEnds BY <1>0, <3>2 DEF JobEnds, Resting, wallet
      <3> QED BY <1>12, <3>1, <3>2
    <2> QED BY <1>1, <2>1, <2>2
  <1>13. CASE JobNext
    <2>1. UNCHANGED <<ver, writer, changes, outbox, links>> BY <1>13 DEF JobNext, wallet
    <2>2. PICK t \in job.todo :
            /\ job' = [job EXCEPT !.todo = @ \ {t}, !.link = t[1], !.pc = IF t[2] THEN "send" ELSE "fill"]
            /\ fill' = IF t[2] THEN fill
                       ELSE [fill EXCEPT !["job"] = [Off EXCEPT !.pc = "begin", !.link = t[1]]]
      BY <1>13 DEF JobNext
    <2>3. job'.pc # "read" /\ job'.taken = job.taken BY <1>0, <2>2 DEF JobRow
    <2>4. [Off EXCEPT !.pc = "begin", !.link = t[1]].pc = "begin" BY DEF Off
    <2>5. \A p \in Fillers : fill'[p].pc \in {"wait", "locked"} => fill'[p] = fill[p]
      BY <1>0, <2>2, <2>4
    <2> QED BY <1>1, <2>1, <2>3, <2>5
  <1>14. CASE JobFilled \/ SendReads \/ Post \/ PostFails \/ AnswerLost
    <2>1. UNCHANGED <<ver, writer, changes, outbox, links, fill>>
      BY <1>14 DEF JobFilled, SendReads, Post, PostFails, AnswerLost, wallet
    <2>2. job'.pc # "read" /\ job'.taken = job.taken
      <3>1. CASE JobFilled \/ Post BY <1>0, <3>1 DEF JobFilled, Post, JobRow
      <3>2. CASE SendReads BY <1>0, <3>2 DEF SendReads, JobRow
      <3>3. CASE PostFails \/ AnswerLost BY <1>0, <3>3, DoneIs DEF PostFails, AnswerLost
      <3> QED BY <1>14, <3>1, <3>2, <3>3
    <2> QED BY <1>1, <2>1, <2>2
  <1>15. CASE JobDies
    <2>1. /\ UNCHANGED <<ver, writer, outbox, links>> /\ fill' = [fill EXCEPT !["job"] = Off]
          /\ changes' = (IF job.pc \in {"take", "read"} THEN changes \cup job.taken ELSE changes)
          /\ job' = Resting
      BY <1>15 DEF JobDies
    <2>2. changes' \cup job'.taken = changes \cup job.taken /\ job'.pc # "read" BY <1>0, <2>1, RestingIs
    <2>3. \A p \in Fillers : fill'[p].pc \in {"wait", "locked"} => fill'[p] = fill[p]
      BY <1>0, <2>1, RestingIs
    <2> QED BY <1>1, <2>1, <2>2, <2>3
  <1> QED BY <1>3, <1>4, <1>5, <1>6, <1>7, <1>8, <1>9, <1>10, <1>11, <1>12, <1>13, <1>14, <1>15, LinkSteps, Zenon

(* From the backfill on nothing is missed (waitForEarlierWriters,
   export_capture, convertChanges): what a link will be sent ends with the
   current version, or a note of the change is waiting. *)
THEOREM NothingMissedAlways == Spec => []NothingMissed
  <1> DEFINE Base == Fits /\ Awaited /\ LockedLinks /\ (~tainted => Order)
             Inv == ~tainted => Notes
  <1>1. Init => Inv
    <2> SUFFICES ASSUME Init PROVE Notes OBVIOUS
    <2>1. \A l \in Links : ~Connected(l) BY DEF Init, Connected
    <2>2. ~HasLinks BY <2>1 DEF HasLinks
    <2>3. \A p \in Fillers : fill[p].pc = "off" BY RestingIs DEF Init
    <2>4. ReadySeen /\ WaitSees /\ LockSees BY <2>1, <2>3 DEF ReadySeen, WaitSees, LockSees
    <2>5. UnseenFirst /\ JobNotes /\ AllSent BY <2>1, <2>2 DEF UnseenFirst, JobNotes, AllSent
    <2> QED BY <2>4, <2>5 DEF Notes
  <1>2. Base /\ Inv /\ [Next]_vars => Inv'
    <2> SUFFICES ASSUME Base, Inv, [Next]_vars, ~tainted' PROVE Notes' OBVIOUS
    <2>1. CASE Next
      <3>1. Lasting BY <2>1, LastingStep
      <3>2. Notes BY <3>1 DEF Lasting
      <3> QED BY <2>1, <3>2, NotesStep
    <2>2. CASE UNCHANGED vars
      <3>1. UNCHANGED <<ver, writer, changes, outbox, links, job, fill, tainted>> BY <2>2 DEF vars, wallet
      <3>2. Notes BY <3>1
      <3> QED BY <3>1, <3>2 DEF Notes, ReadySeen, WaitSees, LockSees, UnseenFirst, JobNotes, AllSent, Noted,
                               HasLinks, Connected, LastSent
    <2> QED BY <2>1, <2>2
  <1>3. Inv => NothingMissed BY DEF Notes, AllSent, Noted, NothingMissed
  <1>4. Spec => []Base BY OrderAlways
  <1> QED BY <1>1, <1>2, <1>3, <1>4, PTL DEF Spec
=============================================================================
