----------------------------- MODULE HomeProofs -----------------------------
(* Theorems about the journal of the signer and its state directory: what a
   disk that loses power, tears lines and fails system calls can do to them. *)
EXTENDS SignerHome, SumLemmas

History == Seq(Events)

(* Prefixes and the history a journal stands for, line by line. *)
LEMMA PrefixAt ==
  ASSUME NEW S, NEW s \in Seq(S), NEW t \in Seq(S)
  PROVE  IsPrefix(s, t) <=> Len(s) <= Len(t) /\ \A k \in 1..Len(s) : s[k] = t[k]
  <1> DEFINE a == SubSeq(s, 1, Len(s))
             b == SubSeq(t, 1, Len(s))
  <1>1. Len(s) \in Nat /\ Len(t) \in Nat OBVIOUS
  <1>2. CASE Len(s) <= Len(t)
    <2>1. a = [k \in 1..Len(s) |-> s[k]] /\ b = [k \in 1..Len(s) |-> t[k]]
      BY <1>1, <1>2
    <2>2. (a = b) <=> \A k \in 1..Len(s) : s[k] = t[k] BY <2>1, Zenon
    <2> QED BY <1>2, <2>2 DEF IsPrefix
  <1>3. CASE ~(Len(s) <= Len(t)) BY <1>3 DEF IsPrefix
  <1> QED BY <1>2, <1>3

(* What a file records is its last line, nothing if it is empty. *)
LEMMA LinesAre ==
  ASSUME NEW lines \in Seq(History)
  PROVE  /\ Len(lines) \in Nat /\ \A n \in 1..Len(lines) : lines[n] \in History
         /\ lines = <<>> <=> Len(lines) = 0
         /\ Recorded(lines) = IF Len(lines) = 0 THEN <<>> ELSE lines[Len(lines)]
         /\ Recorded(lines) \in History
  BY DEF Recorded, Last, History

(* In a journal that parses every line is the history up to it: each event
   stands at its place in all later lines. *)
LEMMA ParsedLines ==
  ASSUME NEW lines \in Seq(History), Parses(lines)
  PROVE  \A n \in 1..Len(lines) : \A k \in 1..n : lines[n][k] = lines[k][k]
  <1> DEFINE Bad == {n \in 1..Len(lines) : \E k \in 1..n : lines[n][k] # lines[k][k]}
  <1> SUFFICES ASSUME Bad # {} PROVE FALSE OBVIOUS
  <1>0. Bad \in SUBSET Nat BY LinesAre
  <1> HIDE DEF Bad
  <1>1. PICK n \in Bad : \A m \in Bad : n <= m BY <1>0, LeastNumber
  <1>2. n \in 1..Len(lines) /\ n \in Nat BY <1>0 DEF Bad
  <1>3. PICK k \in 1..n : lines[n][k] # lines[k][k] BY DEF Bad
  <1>4. k # n /\ n > 1 /\ n - 1 \in 1..Len(lines) /\ k \in 1..(n - 1) BY <1>2, <1>3, LinesAre
  <1>5. IsPrefix(lines[n - 1], lines[n]) /\ Len(lines[n - 1]) = n - 1
    BY <1>2, <1>4 DEF Parses
  <1>6. lines[n - 1][k] = lines[n][k]
    <2>1. lines[n - 1] \in Seq(Events) /\ lines[n] \in Seq(Events)
      BY <1>2, <1>4, LinesAre DEF History
    <2> QED BY <1>4, <1>5, <2>1, PrefixAt
  <1>7. n - 1 \notin Bad BY <1>1, <1>2
  <1> QED BY <1>3, <1>4, <1>6, <1>7 DEF Bad

(* replay of a journal that parses ends in the history of its last line. *)
LEMMA ReplayIs ==
  ASSUME NEW lines \in Seq(History), Parses(lines)
  PROVE  Replay(lines) = Recorded(lines)
  <1> DEFINE L == Len(lines)
             h == Recorded(lines)
  <1>1. L \in Nat /\ \A n \in 1..L : lines[n] \in History BY LinesAre
  <1>2. h \in History /\ Len(h) = L
    BY <1>1, LinesAre DEF Parses
  <1>3. \A n \in 1..L : Last(lines[n]) = h[n]
    <2> TAKE n \in 1..L
    <2>1. Last(lines[n]) = lines[n][n] BY DEF Last, Parses
    <2>2. h = lines[L] BY LinesAre
    <2>3. L \in 1..L /\ n \in 1..L BY <1>1
    <2> QED BY <2>1, <2>2, <2>3, ParsedLines
  <1>4. h = [n \in 1..L |-> h[n]] BY <1>2 DEF History
  <1> HIDE DEF h, L
  <1>5. [n \in 1..L |-> Last(lines[n])] = [n \in 1..L |-> h[n]] BY <1>3
  <1> QED BY <1>4, <1>5 DEF Replay, h, L

(* A line that continues the last one keeps a journal readable. *)
LEMMA ParsesAppend ==
  ASSUME NEW lines \in Seq(History), Parses(lines), NEW e \in Events
  PROVE  Parses(Append(lines, Append(Recorded(lines), e)))
  <1> DEFINE L == Len(lines)
             h == Recorded(lines)
             d == Append(h, e)
             more == Append(lines, d)
  <1>1. L \in Nat /\ h \in History /\ Len(h) = L
    BY LinesAre DEF Parses
  <1>2. d \in History /\ Len(d) = L + 1 /\ \A k \in 1..L : d[k] = h[k]
    BY <1>1 DEF History
  <1>3. /\ Len(more) = L + 1 /\ more[L + 1] = d
        /\ \A n \in 1..L : more[n] = lines[n]
    BY <1>1, <1>2
  <1>4. L > 0 => h = lines[L] BY LinesAre
  <1> HIDE DEF more, d, h, L
  <1>5. IsPrefix(h, d)
    <2>1. h \in Seq(Events) /\ d \in Seq(Events) /\ Len(h) <= Len(d)
      BY <1>1, <1>2 DEF History
    <2> QED BY <1>1, <1>2, <2>1, PrefixAt
  <1>6. ASSUME NEW n \in 1..(L + 1)
        PROVE  Len(more[n]) = n /\ (n > 1 => IsPrefix(more[n - 1], more[n]))
    <2>1. CASE n = L + 1
      <3>1. n > 1 => L \in 1..L /\ more[n - 1] = h BY <1>1, <1>3, <1>4, <2>1
      <3> QED BY <1>1, <1>2, <1>3, <1>5, <2>1, <3>1
    <2>2. CASE n \in 1..L
      <3>1. Len(lines[n]) = n /\ (n > 1 => IsPrefix(lines[n - 1], lines[n]))
        BY <2>2 DEF Parses, L
      <3>2. n > 1 => n - 1 \in 1..L BY <1>1, <2>2
      <3> QED BY <1>3, <2>2, <3>1, <3>2
    <2> QED BY <1>1, <2>1, <2>2
  <1>7. Parses(more) BY <1>3, <1>6 DEF Parses
  <1> QED BY <1>7 DEF more, d, h, L

(* A journal cut after line n. *)
LEMMA CutLines ==
  ASSUME NEW lines \in Seq(History), NEW n \in 0..Len(lines)
  PROVE  LET cut == SubSeq(lines, 1, n) IN
         /\ cut \in Seq(History) /\ Len(cut) = n
         /\ \A m \in 1..n : cut[m] = lines[m]
         /\ Recorded(cut) = IF n = 0 THEN <<>> ELSE lines[n]
         /\ Parses(lines) => Parses(cut)
  <1> DEFINE cut == SubSeq(lines, 1, n)
  <1>1. Len(lines) \in Nat /\ n \in Nat /\ n <= Len(lines) BY LinesAre
  <1>2. cut \in Seq(History) /\ Len(cut) = n /\ \A m \in 1..n : cut[m] = lines[m]
    BY <1>1
  <1> HIDE DEF cut
  <1>3. Recorded(cut) = IF n = 0 THEN <<>> ELSE lines[n] BY <1>1, <1>2, LinesAre
  <1>4. Parses(lines) => Parses(cut)
    <2> SUFFICES ASSUME Parses(lines), NEW m \in 1..n
                 PROVE  Len(cut[m]) = m /\ (m > 1 => IsPrefix(cut[m - 1], cut[m]))
      BY <1>2 DEF Parses
    <2>1. m \in 1..Len(lines) /\ (m > 1 => m - 1 \in 1..n) BY <1>1
    <2> QED BY <1>2, <2>1 DEF Parses
  <1> QED BY <1>2, <1>3, <1>4 DEF cut

-----------------------------------------------------------------------------
(* The journal: its inductive invariants                                    *)

JournalType ==
  /\ file \in Seq(History) /\ torn \in BOOLEAN /\ synced \in 0..Len(file)
  /\ pc \in {"down", "idle", "wrote"}
  /\ draft \in History /\ mem \in History /\ answered \in History
  /\ crashes \in Nat /\ errors \in Nat

(* Every line is a history that was being recorded, or unreadable: what
   NoMixture rests on, whatever the disk does. *)
LinesDrafted ==
  /\ <<>> \in drafts /\ draft \in drafts /\ mem \in drafts
  /\ \A n \in 1..Len(file) : file[n] \in drafts

(* On a healthy disk the last line is the history of the running signer, or
   the one it is about to have; only a crash leaves a torn piece. *)
Healthy ==
  errors = 0 =>
    /\ Parses(file)
    /\ pc = "idle" => mem = Recorded(file)
    /\ pc = "wrote" => draft = Recorded(file)
    /\ torn => pc = "down"
    /\ \E n \in 0..synced : answered = Recorded(SubSeq(file, 1, n))

JournalInv == JournalType /\ LinesDrafted /\ Healthy

(* append up to the fsync, with a full disk or without. *)
LEMMA WriteKeeps ==
  ASSUME JournalInv, NEW e \in Events, Write(e) \/ WriteShort(e)
  PROVE  JournalInv'
  <1>1. JournalType /\ LinesDrafted /\ Healthy BY DEF JournalInv
  <1>2. mem \in Seq(Events) /\ draft' = Append(mem, e) BY <1>1 DEF JournalType, History, Write, WriteShort
  <1>3. draft' \in History BY <1>2 DEF History
  <1>4. ASSUME Write(e) PROVE JournalInv'
    <2> DEFINE line == IF torn THEN <<>> ELSE draft'
    <2>1. /\ pc = "idle" /\ pc' = "wrote" /\ file' = Append(file, line) /\ torn' = FALSE
          /\ drafts' = drafts \cup {draft'} /\ UNCHANGED <<synced, mem, answered, errors, crashes>>
      BY <1>4 DEF Write, counts
    <2>2. line \in History BY <1>3 DEF History
    <2>3. file \in Seq(History) /\ Len(file) \in Nat BY <1>1 DEF JournalType
    <2>4. /\ file' \in Seq(History) /\ Len(file') = Len(file) + 1
          /\ file'[Len(file) + 1] = line
          /\ \A n \in 1..Len(file) : file'[n] = file[n]
      BY <2>1, <2>2, <2>3
    <2>5. JournalType'
      <3>1. synced' \in 0..Len(file') BY <1>1, <2>1, <2>3, <2>4 DEF JournalType
      <3>2. torn' \in BOOLEAN /\ pc' \in {"down", "idle", "wrote"} BY <2>1
      <3> QED BY <1>1, <1>3, <2>1, <2>4, <3>1, <3>2 DEF JournalType
    <2>6. LinesDrafted' BY <1>1, <2>1, <2>3, <2>4 DEF LinesDrafted
    <2>7. Healthy'
      <3> SUFFICES ASSUME errors' = 0
                   PROVE  /\ Parses(file') /\ draft' = Recorded(file')
                          /\ \E n \in 0..synced' : answered' = Recorded(SubSeq(file', 1, n))
        BY <2>1 DEF Healthy
      <3>1. errors = 0 /\ ~torn /\ Parses(file) /\ mem = Recorded(file)
        BY <1>1, <2>1 DEF Healthy
      <3>2. file' = Append(file, Append(Recorded(file), e)) BY <1>2, <2>1, <3>1
      <3>3. Parses(file') BY <2>3, <3>1, <3>2, ParsesAppend
      <3>4. draft' = Recorded(file') BY <2>3, <2>4, <3>1, LinesAre
      <3>5. PICK n \in 0..synced : answered = Recorded(SubSeq(file, 1, n))
        BY <1>1, <3>1 DEF Healthy
      <3>6. n \in 0..Len(file) /\ n \in 0..Len(file') BY <1>1, <2>3, <2>4 DEF JournalType
      <3>7. Recorded(SubSeq(file', 1, n)) = Recorded(SubSeq(file, 1, n))
        BY <2>3, <2>4, <3>6, CutLines
      <3> QED BY <2>1, <3>3, <3>4, <3>5, <3>7
    <2> QED BY <2>5, <2>6, <2>7 DEF JournalInv
  <1>5. ASSUME WriteShort(e) PROVE JournalInv'
    <2>1. /\ pc' = "wrote" /\ torn' = TRUE /\ errors' = errors + 1
          /\ drafts' = drafts \cup {draft'}
          /\ UNCHANGED <<file, synced, mem, answered, crashes>>
      BY <1>5 DEF WriteShort
    <2>2. errors' # 0 /\ errors' \in Nat BY <1>1, <2>1 DEF JournalType
    <2> QED BY <1>1, <1>3, <2>1, <2>2 DEF JournalInv, JournalType, LinesDrafted, Healthy
  <1> QED BY <1>4, <1>5

(* Kills and power losses. *)
LEMMA CrashKeeps ==
  ASSUME JournalInv, Kill \/ PowerLoss
  PROVE  JournalInv'
  <1>1. JournalType /\ LinesDrafted /\ Healthy BY DEF JournalInv
  <1>2. PICK n \in synced..Len(file) : file' = SubSeq(file, 1, n)
    <2>1. CASE Kill
      <3>1. file' = file /\ file \in Seq(History) /\ Len(file) \in synced..Len(file)
        BY <1>1, <2>1 DEF Kill, JournalType
      <3>2. file = SubSeq(file, 1, Len(file)) BY <3>1
      <3> QED BY <3>1, <3>2
    <2>2. CASE PowerLoss BY <2>2 DEF PowerLoss
    <2> QED BY <2>1, <2>2
  <1>3. /\ pc' = "down" /\ mem' = <<>> /\ crashes' = crashes + 1 /\ torn' \in BOOLEAN
        /\ UNCHANGED <<synced, draft, drafts, answered, errors>>
    BY <1>1 DEF Kill, PowerLoss, JournalType
  <1>4. n \in 0..Len(file) /\ synced \in 0..n BY <1>1 DEF JournalType
  <1>5. /\ file' \in Seq(History) /\ Len(file') = n
        /\ \A m \in 1..n : file'[m] = file[m]
        /\ Parses(file) => Parses(file')
    BY <1>1, <1>2, <1>4, CutLines DEF JournalType
  <1>6. JournalType' BY <1>1, <1>3, <1>4, <1>5 DEF JournalType, History
  <1>7. LinesDrafted' BY <1>1, <1>3, <1>4, <1>5 DEF LinesDrafted
  <1>8. Healthy'
    <2> SUFFICES ASSUME errors = 0
                 PROVE  /\ Parses(file')
                        /\ \E m \in 0..synced : answered = Recorded(SubSeq(file', 1, m))
      BY <1>3 DEF Healthy
    <2>1. PICK m \in 0..synced : answered = Recorded(SubSeq(file, 1, m)) BY <1>1 DEF Healthy
    <2>2. m \in 0..Len(file) /\ m \in 0..Len(file') /\ (m # 0 => m \in 1..n)
      BY <1>4, <1>5
    <2>3. Recorded(SubSeq(file', 1, m)) = Recorded(SubSeq(file, 1, m))
      BY <1>1, <1>5, <2>2, CutLines DEF JournalType
    <2> QED BY <1>1, <1>5, <2>1, <2>3 DEF Healthy
  <1> QED BY <1>6, <1>7, <1>8 DEF JournalInv

(* Every step of the journal keeps its invariant. *)
LEMMA JournalStep ==
  ASSUME JournalInv, [Next]_vars
  PROVE  JournalInv'
  <1>1. JournalType /\ LinesDrafted /\ Healthy BY DEF JournalInv
  <1>2. CASE Fsync
    <2>1. /\ pc = "wrote" /\ pc' = "idle" /\ synced' = Len(file) /\ mem' = draft
          /\ answered' = draft /\ UNCHANGED <<file, torn, draft, drafts, crashes, errors>>
      BY <1>2 DEF Fsync, counts
    <2>2. file \in Seq(History) /\ Len(file) \in 0..Len(file) BY <1>1 DEF JournalType
    <2>3. Recorded(SubSeq(file, 1, Len(file))) = Recorded(file)
      BY <2>2, LinesAre, CutLines
    <2>4. Healthy' BY <1>1, <2>1, <2>2, <2>3 DEF Healthy
    <2> QED BY <1>1, <2>1, <2>2, <2>4 DEF JournalInv, JournalType, LinesDrafted
  <1>3. CASE FsyncFails
    <2>1. /\ pc' = "idle" /\ errors' = errors + 1
          /\ UNCHANGED <<file, torn, synced, draft, drafts, mem, answered, crashes>>
      BY <1>3 DEF FsyncFails
    <2>2. errors' # 0 /\ errors' \in Nat BY <1>1, <2>1 DEF JournalType
    <2> QED BY <1>1, <2>1, <2>2 DEF JournalInv, JournalType, LinesDrafted, Healthy
  <1>4. CASE Reopen
    <2>1. /\ pc' = "idle" /\ Parses(file) /\ mem' = Replay(file) /\ torn' = FALSE
          /\ synced' \in {synced, Len(file)}
          /\ UNCHANGED <<file, draft, drafts, answered, crashes, errors>>
      BY <1>4 DEF Reopen, counts
    <2>2. file \in Seq(History) /\ Len(file) \in Nat BY <1>1 DEF JournalType
    <2>3. mem' = Recorded(file) BY <2>1, <2>2, ReplayIs
    <2>4. mem' \in History /\ mem' \in drafts
      BY <1>1, <2>2, <2>3, LinesAre DEF LinesDrafted
    <2>5. 0..synced \subseteq 0..synced' /\ synced' \in 0..Len(file)
      BY <1>1, <2>1, <2>2 DEF JournalType
    <2>6. Healthy' BY <1>1, <2>1, <2>3, <2>5 DEF Healthy
    <2> QED BY <1>1, <2>1, <2>4, <2>5, <2>6 DEF JournalInv, JournalType, LinesDrafted
  <1>5. CASE UNCHANGED vars
    BY <1>1, <1>5 DEF vars, counts, JournalInv, JournalType, LinesDrafted, Healthy
  <1> QED BY <1>2, <1>3, <1>4, <1>5, WriteKeeps, CrashKeeps DEF Next

(* An empty file and an empty memory. *)
LEMMA JournalInit == Init => JournalInv
  <1> SUFFICES ASSUME Init PROVE JournalInv OBVIOUS
  <1>1. <<>> \in Seq(History) /\ <<>> \in History /\ Len(<<>>) = 0 BY DEF History
  <1>2. JournalType
    <2>1. file = <<>> /\ synced = 0 /\ 0 \in 0..0 BY DEF Init
    <2>2. file \in Seq(History) /\ synced \in 0..Len(file) BY <1>1, <2>1
    <2>3. draft \in History /\ mem \in History /\ answered \in History BY <1>1 DEF Init
    <2> QED BY <2>2, <2>3 DEF Init, JournalType
  <1>3. LinesDrafted BY DEF Init, LinesDrafted
  <1>4. Healthy
    <2>1. Parses(file) /\ Recorded(file) = <<>> BY DEF Init, Parses, Recorded
    <2>2. Recorded(SubSeq(file, 1, 0)) = <<>> /\ 0 \in 0..synced
      BY <1>2, CutLines DEF JournalType, Init
    <2> QED BY <2>1, <2>2 DEF Init, Healthy
  <1> QED BY <1>2, <1>3, <1>4 DEF JournalInv

(* The inductive invariant of the journal. *)
LEMMA JournalInvariant == Spec => []JournalInv
  BY JournalInit, JournalStep, PTL DEF Spec

(* An answer is given only for what no crash can take back (append: fsync
   before apply), for any number of lines and crashes. *)
THEOREM AnsweredIsKeptAlways == Spec => []AnsweredIsKept
  <1>1. JournalInv => AnsweredIsKept BY DEF JournalInv, Healthy, AnsweredIsKept
  <1> QED BY <1>1, JournalInvariant, PTL

(* A crash never leaves a journal that parseJournal refuses. *)
THEOREM RestartableAlways == Spec => []Restartable
  <1>1. JournalInv => Restartable BY DEF JournalInv, Healthy, Restartable
  <1> QED BY <1>1, JournalInvariant, PTL

(* The state of a signer that takes commands is the fold of its journal, over
   any number of restarts (replay, record). *)
THEOREM JournalIsStateAlways == Spec => []JournalIsState
  <1>1. JournalInv => JournalIsState BY DEF JournalInv, Healthy, JournalIsState
  <1> QED BY <1>1, JournalInvariant, PTL

(* Whatever fails, replay ends in one history that was being recorded: the
   chain of hashes rules every mixture out (chainHash, parseJournal). *)
THEOREM NoMixtureAlways == Spec => []NoMixture
  <1>1. JournalInv => NoMixture BY DEF JournalInv, LinesDrafted, NoMixture
  <1> QED BY <1>1, JournalInvariant, PTL

-----------------------------------------------------------------------------
(* The state directory                                                      *)

Extends(old, new) == \A n \in Networks : old[n] # NoSeed => new[n] = old[n]

HomeType ==
  /\ {seeds, durable, keys} \subseteq [Networks -> Seeds \cup {NoSeed}]
  /\ prepared \subseteq Networks \X Seeds /\ todo \subseteq Networks \X Seeds
  /\ stage \in {"ready", "renamed", "stored"}

(* What the journal knows fits what no power loss takes away; seeds.json is
   the synced file or extends it. *)
Lasts ==
  /\ Extends(durable, seeds)
  /\ \A n \in 1..Len(file) : Fits(file[n], durable)
  /\ Fits(mem, durable) /\ Fits(draft, durable)

(* How far the running command is. *)
Staged ==
  /\ pc = "down" => stage = "ready" /\ prepared = {}
  /\ pc # "down" /\ stage # "renamed" => keys = seeds
  /\ stage = "renamed" => pc = "idle"
  /\ stage = "stored" => durable = seeds
  /\ stage # "ready" => prepared = {} /\ \A f \in todo : seeds[f[1]] = f[2]
  /\ \A f \in prepared : keys[f[1]] = NoSeed
  /\ \A f, g \in prepared : f[1] = g[1] => f = g

HomeInv == HomeType /\ Lasts /\ Staged

(* The fingerprints of a history are those of its events. *)
LEMMA FingerprintsAre ==
  ASSUME NEW h \in History
  PROVE  /\ \A f : f \in Fingerprints(h) <=>
                     \E j \in 1..Len(h) : h[j] \notin Others /\ f \in h[j]
         /\ Fingerprints(h) \subseteq Networks \X Seeds
  <1>1. \A f : f \in Fingerprints(h) <=>
                 \E j \in 1..Len(h) : h[j] \notin Others /\ f \in h[j]
    BY DEF Fingerprints
  <1>2. \A j \in 1..Len(h) : h[j] \notin Others => h[j] \subseteq Networks \X Seeds
    BY HomeAssumption DEF History
  <1> QED BY <1>1, <1>2

(* An empty journal fits every seed file. *)
LEMMA FitsEmpty ==
  ASSUME NEW seedFile
  PROVE  Fits(<<>>, seedFile)
  BY DEF Fits, Fingerprints

(* A seed file that only gains seeds still fits. *)
LEMMA FitsExtends ==
  ASSUME NEW h \in History, NEW old, NEW new, Extends(old, new), Fits(h, old)
  PROVE  Fits(h, new)
  <1> SUFFICES ASSUME NEW f \in Fingerprints(h) PROVE new[f[1]] = f[2] BY DEF Fits
  <1>1. f[1] \in Networks /\ f[2] \in Seeds BY FingerprintsAre
  <1>2. old[f[1]] = f[2] BY DEF Fits
  <1> QED BY <1>1, <1>2, HomeAssumption DEF Extends

(* A history that gains an event fits if the event does. *)
LEMMA FitsAppend ==
  ASSUME NEW h \in History, NEW e \in Events, NEW seedFile, Fits(h, seedFile),
         e \in Others \/ \A f \in e : seedFile[f[1]] = f[2]
  PROVE  Fits(Append(h, e), seedFile)
  <1> DEFINE d == Append(h, e)
  <1>1. /\ Len(h) \in Nat /\ d \in History /\ Len(d) = Len(h) + 1 /\ d[Len(h) + 1] = e
        /\ \A j \in 1..Len(h) : d[j] = h[j]
    BY DEF History
  <1> HIDE DEF d
  <1> SUFFICES ASSUME NEW f \in Fingerprints(d) PROVE seedFile[f[1]] = f[2] BY DEF Fits, d
  <1>2. PICK j \in 1..Len(d) : d[j] \notin Others /\ f \in d[j] BY <1>1, FingerprintsAre
  <1>3. CASE j \in 1..Len(h)
    <2>1. f \in Fingerprints(h) BY <1>1, <1>2, <1>3, FingerprintsAre
    <2> QED BY <2>1 DEF Fits
  <1>4. CASE j = Len(h) + 1 BY <1>1, <1>2, <1>4
  <1> QED BY <1>1, <1>3, <1>4

(* Recording an event whose fingerprints are on the disk to stay. *)
LEMMA RecordLasts ==
  ASSUME JournalInv, Lasts, NEW e \in Events, Write(e) \/ WriteShort(e),
         e \in Others \/ \A f \in e : durable[f[1]] = f[2],
         UNCHANGED <<seeds, durable>>
  PROVE  Lasts'
  <1>1. /\ mem \in History /\ file \in Seq(History) /\ Len(file) \in Nat
    BY DEF JournalInv, JournalType
  <1>2. draft' = Append(mem, e) /\ mem' = mem BY DEF Write, WriteShort
  <1>3. Fits(draft', durable) BY <1>1, <1>2, FitsAppend DEF Lasts
  <1>4. \A n \in 1..Len(file') : Fits(file'[n], durable)
    <2>1. CASE WriteShort(e) BY <2>1 DEF WriteShort, Lasts
    <2>2. CASE Write(e)
      <3> DEFINE line == IF torn THEN <<>> ELSE draft'
      <3>1. file' = Append(file, line) BY <2>2 DEF Write
      <3>2. draft' \in History BY <1>1, <1>2 DEF History
      <3>3. line \in History /\ Fits(line, durable) BY <1>3, <3>2, FitsEmpty DEF History
      <3> HIDE DEF line
      <3>4. /\ Len(file') = Len(file) + 1 /\ file'[Len(file) + 1] = line
            /\ \A n \in 1..Len(file) : file'[n] = file[n]
        BY <1>1, <3>1, <3>3
      <3> QED BY <1>1, <3>3, <3>4 DEF Lasts
    <2> QED BY <2>1, <2>2
  <1> QED BY <1>2, <1>3, <1>4 DEF Lasts, Extends

(* A kill or a power loss: lines may be cut, seeds.json may fall back. *)
LEMMA CrashLasts ==
  ASSUME JournalInv, HomeType, Lasts, Kill \/ PowerLoss,
         seeds' \in {seeds, durable}, durable' \in {durable, seeds'}
  PROVE  Lasts' /\ Extends(durable, durable')
  <1>1. file \in Seq(History) /\ synced \in 0..Len(file) /\ draft \in History
    BY DEF JournalInv, JournalType
  <1>2. mem' = <<>> /\ draft' = draft BY DEF Kill, PowerLoss
  <1>3. /\ Len(file') <= Len(file) /\ Len(file') \in Nat
        /\ \A n \in 1..Len(file') : file'[n] = file[n]
    <2>1. CASE Kill BY <1>1, <2>1 DEF Kill
    <2>2. CASE PowerLoss
      <3>1. PICK n \in synced..Len(file) : file' = SubSeq(file, 1, n) BY <2>2 DEF PowerLoss
      <3>2. n \in 0..Len(file) BY <1>1
      <3> QED BY <1>1, <3>1, <3>2, CutLines
    <2> QED BY <2>1, <2>2
  <1>4. Extends(durable, durable') /\ Extends(durable', seeds') BY DEF Lasts, Extends
  <1>5. \A n \in 1..Len(file') : file'[n] \in History /\ Fits(file'[n], durable)
    BY <1>1, <1>3 DEF Lasts
  <1>6. \A n \in 1..Len(file') : Fits(file'[n], durable') BY <1>4, <1>5, FitsExtends
  <1>7. Fits(draft, durable') BY <1>1, <1>4, FitsExtends DEF Lasts
  <1> QED BY <1>2, <1>4, <1>6, <1>7, FitsEmpty DEF Lasts

(* what every step of the state directory does *)
HomeGood == HomeInv' /\ [Next]_vars /\ Extends(durable, durable')

(* seed.prepare and the three parts of storing what it prepared. *)
LEMMA StoreStep ==
  ASSUME JournalInv, HomeInv,
         \/ \E nets \in SUBSET Networks : SeedPrepare(nets)
         \/ TakePrepared \/ SyncSeeds \/ RecordSeeds
  PROVE  HomeGood
  <1>1. HomeType /\ Lasts /\ Staged BY DEF HomeInv
  <1>2. ASSUME NEW nets \in SUBSET Networks, SeedPrepare(nets) PROVE HomeGood
    <2>1. /\ pc = "idle" /\ stage = "ready" /\ \A n \in nets : keys[n] = NoSeed
          /\ UNCHANGED <<vars, seeds, durable, keys, todo, stage>>
      BY <1>2 DEF SeedPrepare
    <2>2. PICK new \in [nets -> Seeds \ made] : prepared' = {<<n, new[n]>> : n \in nets}
      BY <1>2 DEF SeedPrepare
    <2>3. /\ prepared' \subseteq Networks \X Seeds
          /\ \A f \in prepared' : keys[f[1]] = NoSeed
          /\ \A f, g \in prepared' : f[1] = g[1] => f = g
      BY <2>1, <2>2
    <2>4. HomeType' BY <1>1, <2>1, <2>3 DEF HomeType
    <2>5. Lasts' /\ Extends(durable, durable') BY <1>1, <2>1 DEF Lasts, Extends, vars
    <2>6. Staged' BY <1>1, <2>1, <2>3 DEF Staged, vars
    <2> QED BY <2>1, <2>4, <2>5, <2>6 DEF HomeGood, HomeInv
  <1>3. CASE TakePrepared
    <2>1. /\ pc = "idle" /\ stage = "ready" /\ stage' = "renamed" /\ keys = seeds
          /\ todo' = prepared /\ prepared' = {} /\ UNCHANGED <<vars, durable, keys, made>>
      BY <1>1, <1>3 DEF TakePrepared, Staged
    <2>2. seeds' = [n \in Networks |-> IF \E f \in prepared : f[1] = n
                                       THEN (CHOOSE f \in prepared : f[1] = n)[2] ELSE keys[n]]
      BY <1>3 DEF TakePrepared
    <2>3. \A f \in prepared : f[1] \in Networks /\ seeds'[f[1]] = f[2]
      <3> TAKE f \in prepared
      <3>1. f[1] \in Networks BY <1>1 DEF HomeType
      <3> DEFINE g == CHOOSE x \in prepared : x[1] = f[1]
      <3>2. g \in prepared /\ g[1] = f[1] OBVIOUS
      <3>3. seeds'[f[1]] = g[2] BY <2>2, <3>1
      <3>4. g = f BY <1>1, <3>2 DEF Staged
      <3> QED BY <3>1, <3>3, <3>4
    <2>4. \A n \in Networks : (\E f \in prepared : f[1] = n) \/ seeds'[n] = seeds[n]
      BY <2>1, <2>2
    <2>5. \A n \in Networks : seeds'[n] \in Seeds \cup {NoSeed}
      BY <1>1, <2>3, <2>4 DEF HomeType
    <2>6. seeds' \in [Networks -> Seeds \cup {NoSeed}] BY <2>2, <2>5
    <2>7. HomeType' BY <1>1, <2>1, <2>6 DEF HomeType
    <2>8. Extends(seeds, seeds') BY <1>1, <2>1, <2>4 DEF Staged, Extends
    <2>9. Lasts' /\ Extends(durable, durable')
      BY <1>1, <2>1, <2>8, HomeAssumption DEF Lasts, Extends, vars
    <2>10. Staged' BY <2>1, <2>3 DEF Staged, vars
    <2> QED BY <2>1, <2>7, <2>9, <2>10 DEF HomeGood, HomeInv
  <1>4. CASE SyncSeeds
    <2>1. /\ stage = "renamed" /\ pc = "idle" /\ durable' = seeds /\ keys' = seeds
          /\ stage' = "stored" /\ UNCHANGED <<vars, seeds, prepared, todo, made>>
      BY <1>1, <1>4 DEF SyncSeeds, Staged
    <2>2. HomeType' BY <1>1, <2>1 DEF HomeType
    <2>3. Extends(durable, durable') /\ Extends(durable', seeds')
      BY <1>1, <2>1 DEF Lasts, Extends
    <2>4. Lasts'
      <3>1. /\ mem \in History /\ draft \in History
            /\ \A n \in 1..Len(file) : file[n] \in History
        BY LinesAre DEF JournalInv, JournalType
      <3>2. /\ Fits(mem, durable') /\ Fits(draft, durable')
            /\ \A n \in 1..Len(file) : Fits(file[n], durable')
        BY <1>1, <2>3, <3>1, FitsExtends DEF Lasts
      <3> QED BY <2>1, <2>3, <3>2 DEF Lasts, vars
    <2>5. Staged' BY <1>1, <2>1 DEF Staged, vars
    <2> QED BY <2>1, <2>2, <2>3, <2>4, <2>5 DEF HomeGood, HomeInv
  <1>5. CASE RecordSeeds
    <2>1. PICK e \in NextEvents : (Write(e) \/ WriteShort(e)) /\ todo' = todo \ e
      BY <1>5 DEF RecordSeeds
    <2>2. /\ stage = "stored" /\ stage' \in {"ready", "stored"}
          /\ UNCHANGED <<seeds, durable, keys, prepared, made>>
      BY <1>5 DEF RecordSeeds
    <2>3. e \in SUBSET todo BY DEF NextEvents
    <2>4. e \in Events BY <1>1, <2>3, HomeAssumption DEF HomeType
    <2>5. \A f \in e : durable[f[1]] = f[2] BY <1>1, <2>2, <2>3 DEF Staged
    <2>6. Lasts' BY <1>1, <2>1, <2>2, <2>4, <2>5, RecordLasts
    <2>7. HomeType' BY <1>1, <2>1, <2>2 DEF HomeType
    <2>8. pc # "down" /\ pc' = "wrote" BY <2>1 DEF Write, WriteShort
    <2>9. Staged' BY <1>1, <2>1, <2>2, <2>8 DEF Staged
    <2>10. Extends(durable, durable') BY <2>2 DEF Extends
    <2>11. Next BY <2>1, <2>4 DEF Next
    <2> QED BY <2>6, <2>7, <2>9, <2>10, <2>11 DEF HomeGood, HomeInv
  <1> QED BY <1>2, <1>3, <1>4, <1>5

(* Everything else: other commands, the fsync, crashes and the restart. *)
LEMMA HomeStep ==
  ASSUME JournalInv, HomeInv, [HomeNext]_homeVars
  PROVE  HomeGood
  <1>1. HomeType /\ Lasts /\ Staged BY DEF HomeInv
  <1>2. CASE RecordOther
    <2>1. PICK e \in Others : Write(e) \/ WriteShort(e) BY <1>2 DEF RecordOther
    <2>2. stage = "ready" /\ UNCHANGED home /\ e \in Events
      BY <1>2, HomeAssumption DEF RecordOther
    <2>3. Lasts' BY <1>1, <2>1, <2>2, RecordLasts DEF home
    <2>4. pc # "down" /\ pc' = "wrote" BY <2>1 DEF Write, WriteShort
    <2>5. HomeType' /\ Staged' /\ Extends(durable, durable')
      BY <1>1, <2>2, <2>4 DEF HomeType, Staged, home, Extends
    <2> QED BY <2>1, <2>2, <2>3, <2>5 DEF HomeGood, HomeInv, Next
  <1>3. CASE Fsync /\ UNCHANGED home
    <2>1. Lasts' BY <1>1, <1>3 DEF Fsync, Lasts, home
    <2>2. HomeType' /\ Staged' /\ Extends(durable, durable')
      BY <1>1, <1>3 DEF HomeType, Staged, home, Extends, Fsync
    <2> QED BY <1>3, <2>1, <2>2 DEF HomeGood, HomeInv, Next
  <1>4. CASE RecordFails
    <2>1. /\ FsyncFails /\ todo' = {} /\ stage' = "ready" /\ pc = "wrote" /\ pc' = "idle"
          /\ UNCHANGED <<seeds, durable, keys, prepared, made, file, mem, draft>>
      BY <1>4 DEF RecordFails, FsyncFails
    <2>2. Lasts' BY <1>1, <2>1 DEF Lasts
    <2>3. HomeType' /\ Staged' /\ Extends(durable, durable')
      BY <1>1, <2>1 DEF HomeType, Staged, Extends
    <2> QED BY <2>1, <2>2, <2>3 DEF HomeGood, HomeInv, Next
  <1>5. CASE HomeKill \/ HomePowerLoss
    <2>1. /\ Kill \/ PowerLoss
          /\ keys' = NoSeeds /\ prepared' = {} /\ todo' = {} /\ stage' = "ready"
          /\ seeds' \in {seeds, durable} /\ durable' \in {durable, seeds'}
      BY <1>5 DEF HomeKill, HomePowerLoss, Gone
    <2>2. Lasts' /\ Extends(durable, durable') BY <1>1, <2>1, CrashLasts
    <2>3. pc' = "down" BY <2>1 DEF Kill, PowerLoss
    <2>4. HomeType' BY <1>1, <2>1 DEF HomeType, NoSeeds
    <2>5. Staged' BY <2>1, <2>3 DEF Staged
    <2> QED BY <2>1, <2>2, <2>4, <2>5 DEF HomeGood, HomeInv, Next
  <1>6. CASE Open
    <2>1. /\ Reopen /\ keys' = seeds /\ pc = "down" /\ pc' = "idle"
          /\ Parses(file) /\ mem' = Replay(file)
          /\ UNCHANGED <<seeds, durable, prepared, todo, stage, made, file, draft>>
      BY <1>6 DEF Open, Reopen
    <2>2. file \in Seq(History) BY DEF JournalInv, JournalType
    <2>3. mem' = Recorded(file) BY <2>1, <2>2, ReplayIs
    <2>4. Fits(mem', durable)
      BY <1>1, <2>2, <2>3, LinesAre, FitsEmpty DEF Lasts
    <2>5. Lasts' BY <1>1, <2>1, <2>4 DEF Lasts
    <2>6. HomeType' /\ Staged' /\ Extends(durable, durable')
      BY <1>1, <2>1 DEF HomeType, Staged, Extends
    <2> QED BY <2>1, <2>5, <2>6 DEF HomeGood, HomeInv, Next
  <1>7. CASE UNCHANGED homeVars
    BY <1>1, <1>7 DEF homeVars, vars, counts, home, HomeGood, HomeInv, HomeType, Lasts, Staged,
       Extends
  <1> QED BY <1>2, <1>3, <1>4, <1>5, <1>6, <1>7, StoreStep DEF HomeNext

(* Before the first setup. *)
LEMMA HomeInitInv == HomeInit => HomeInv
  <1> SUFFICES ASSUME HomeInit PROVE HomeInv OBVIOUS
  <1>1. HomeType BY DEF HomeInit, HomeType, NoSeeds
  <1>2. Lasts BY FitsEmpty DEF HomeInit, Init, Lasts, Extends
  <1>3. Staged BY DEF HomeInit, Init, Staged
  <1> QED BY <1>1, <1>2, <1>3 DEF HomeInv

(* Both invariants hold in every state of the signer's home. *)
LEMMA HomeInvariant == HomeSpec => [](JournalInv /\ HomeInv)
  <1>1. HomeInit => JournalInv /\ HomeInv BY HomeInitInv, JournalInit DEF HomeInit
  <1>2. JournalInv /\ HomeInv /\ [HomeNext]_homeVars => JournalInv' /\ HomeInv'
    BY HomeStep, JournalStep DEF HomeGood
  <1> QED BY <1>1, <1>2, PTL DEF HomeSpec

(* The commands that store seeds, and the restart of the signer, use the
   journal as its module allows: all its theorems hold for them. *)
THEOREM HomeUsesJournal == HomeSpec => Spec
  <1>1. HomeInit => Init BY DEF HomeInit
  <1>2. JournalInv /\ HomeInv /\ [HomeNext]_homeVars => [Next]_vars
    BY HomeStep DEF HomeGood
  <1> QED BY <1>1, <1>2, HomeInvariant, PTL DEF HomeSpec, Spec

(* No start ends in seed_mismatch: whatever the disk does to the journal, the
   fingerprints it holds are those of seeds on the disk (takePrepared, record). *)
THEOREM SeedsFitAlways == HomeSpec => []SeedsFit
  <1>1. ASSUME JournalInv, HomeInv PROVE SeedsFit
    <2> SUFFICES ASSUME NEW n \in 1..Len(file)
                 PROVE  Fits(file[n], seeds) /\ Fits(file[n], durable)
      BY DEF SeedsFit
    <2>1. file[n] \in History BY <1>1, LinesAre DEF JournalInv, JournalType
    <2> QED BY <1>1, <2>1, FitsExtends DEF HomeInv, Lasts
  <1> QED BY <1>1, HomeInvariant, PTL

(* No setup, however often it breaks off, replaces or removes the seed of a
   network once that seed is durable, that is once no power loss can take it
   away (seedPrepare: network_exists, writeSeedFile). *)
THEOREM SeedsStayAlways == HomeSpec => SeedsStay
  <1> DEFINE A == \A n \in Networks : durable[n] # NoSeed => durable'[n] = durable[n]
  <1>1. JournalInv /\ HomeInv /\ [HomeNext]_homeVars => [A]_homeVars
    BY HomeStep DEF HomeGood, Extends
  <1>2. HomeSpec => [][A]_homeVars BY <1>1, HomeInvariant, PTL DEF HomeSpec
  <1> QED BY <1>2 DEF SeedsStay
=============================================================================
