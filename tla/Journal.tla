------------------------------- MODULE Journal -------------------------------
(***************************************************************************)
(* The journal of the signer (signer/journal.ts) under `record` of         *)
(* signer/service.ts: the only store of its state.  Each line carries the  *)
(* hash of everything up to it; appending is write, fsync, and only then   *)
(* the entry counts.  The process may be killed and the machine may lose   *)
(* power between any two system calls.                                     *)
(*                                                                         *)
(* Abstractions.  sha256 is injective: a hash is the sequence of events it *)
(* covers.  The state is a fold of the events, so it is that sequence too. *)
(* A line that no writer meant, pieced together from two, is the empty     *)
(* sequence.  The sequence number of a line is its length.                 *)
(***************************************************************************)
EXTENDS Naturals, Sequences, SequencesExt

CONSTANTS Events,
          MaxSeq,         \* bound: lines written
          MaxCrashes,     \* bound: kills and power losses
          MaxDiskErrors   \* bound: short writes and failed fsyncs

VARIABLES
  file,      \* the lines as the kernel has them, Seq(Seq(Events))
  torn,      \* the file ends in a piece of a line without "\n"
  synced,    \* lines that are on the disk for sure
  pc,        \* "down", "idle", or "wrote": between write and fsync
  draft,     \* the history being recorded
  drafts,    \* history: all of them
  mem,       \* head and state of the running signer
  answered,  \* longest history a caller was told is recorded
  crashes, errors

counts == <<crashes, errors>>
vars == <<file, torn, synced, pc, draft, drafts, mem, answered, counts>>

ASSUME JournalAssumption ==
  Events # {} /\ MaxSeq \in Nat /\ MaxCrashes \in Nat /\ MaxDiskErrors \in Nat

-----------------------------------------------------------------------------

\* Mutant of Parses: lines are read, the chain of hashes is not checked.
ParsesEach(lines) == \A n \in 1..Len(lines) : lines[n] # <<>>

(* parseJournal throws unless every line continues the hash of the one before *)
Parses(lines) ==
  \A n \in 1..Len(lines) :
    /\ Len(lines[n]) = n
    /\ n > 1 => IsPrefix(lines[n - 1], lines[n])

\* Mutant of Replay: the last line is left out, as if it were torn.
ReplayButLast(lines) == [n \in 1..(Len(lines) - 1) |-> Last(lines[n])]

(* the events of the lines, in order *)
Replay(lines) == [n \in 1..Len(lines) |-> Last(lines[n])]

(* append, writeSync: after a torn piece the line is unreadable *)
Write(e) ==
  /\ pc = "idle" /\ Len(file) < MaxSeq
  /\ draft' = Append(mem, e) /\ drafts' = drafts \cup {draft'}
  /\ file' = Append(file, IF torn THEN <<>> ELSE draft')
  /\ torn' = FALSE /\ pc' = "wrote"
  /\ UNCHANGED <<synced, mem, answered, counts>>

(* the disk is full: writeSync returns a smaller count, nobody looks at it *)
WriteShort(e) ==
  /\ pc = "idle" /\ Len(file) < MaxSeq /\ errors < MaxDiskErrors
  /\ draft' = Append(mem, e) /\ drafts' = drafts \cup {draft'}
  /\ torn' = TRUE /\ pc' = "wrote" /\ errors' = errors + 1
  /\ UNCHANGED <<file, synced, mem, answered, crashes>>

\* Mutant of Fsync: the call is missing.
FsyncNever ==
  /\ pc = "wrote"
  /\ mem' = draft /\ answered' = draft /\ pc' = "idle"
  /\ UNCHANGED <<file, torn, synced, draft, drafts, counts>>

(* append, fsyncSync; apply; the answer leaves *)
Fsync ==
  /\ pc = "wrote"
  /\ synced' = Len(file)
  /\ mem' = draft /\ answered' = draft /\ pc' = "idle"
  /\ UNCHANGED <<file, torn, draft, drafts, counts>>

(* fsyncSync throws: handleLine answers "internal" and the signer goes on *)
FsyncFails ==
  /\ pc = "wrote" /\ errors < MaxDiskErrors
  /\ pc' = "idle" /\ errors' = errors + 1
  /\ UNCHANGED <<file, torn, synced, draft, drafts, mem, answered, crashes>>

(* the process is killed, perhaps in the middle of a write *)
Kill ==
  /\ pc # "down" /\ crashes < MaxCrashes
  /\ pc' = "down" /\ mem' = <<>> /\ crashes' = crashes + 1
  /\ torn' \in IF pc = "idle" THEN {torn, TRUE} ELSE {torn}
  /\ UNCHANGED <<file, synced, draft, drafts, answered, errors>>

(* what was not synced may be gone, a line may be cut *)
PowerLoss ==
  /\ crashes < MaxCrashes
  /\ \E n \in synced..Len(file) :
       /\ file' = SubSeq(file, 1, n)
       /\ torn' \in IF n < Len(file) \/ torn \/ pc = "idle" THEN BOOLEAN ELSE {torn}
  /\ pc' = "down" /\ mem' = <<>> /\ crashes' = crashes + 1
  /\ UNCHANGED <<synced, draft, drafts, answered, errors>>

\* Mutant of Reopen: the torn piece stays.
ReopenUntruncated ==
  /\ pc = "down" /\ Parses(file)
  /\ pc' = "idle" /\ mem' = Replay(file)
  /\ UNCHANGED <<file, torn, synced, draft, drafts, answered, counts>>

(* Journal.open and replay: a torn last line is cut and only then synced *)
Reopen ==
  /\ pc = "down" /\ Parses(file)
  /\ torn' = FALSE
  /\ synced' = IF torn THEN Len(file) ELSE synced
  /\ pc' = "idle" /\ mem' = Replay(file)
  /\ UNCHANGED <<file, draft, drafts, answered, counts>>

-----------------------------------------------------------------------------

Init ==
  /\ file = <<>> /\ torn = FALSE /\ synced = 0
  /\ pc = "idle" /\ draft = <<>> /\ drafts = {<<>>} /\ mem = <<>> /\ answered = <<>>
  /\ crashes = 0 /\ errors = 0

Next ==
  \/ \E e \in Events : Write(e) \/ WriteShort(e)
  \/ Fsync \/ FsyncFails
  \/ Kill \/ PowerLoss \/ Reopen

Spec == Init /\ [][Next]_vars

-----------------------------------------------------------------------------
(* Properties                                                               *)

(* the history the last line stands for *)
Recorded(lines) == IF lines = <<>> THEN <<>> ELSE Last(lines)

(* What a caller was told is recorded survives every kill and power loss, as
   long as no system call fails: it is on the disk before the answer leaves
   (append, record). *)
AnsweredIsKept ==
  errors = 0 => \E n \in 0..synced : answered = Recorded(SubSeq(file, 1, n))

(* As long as no system call fails the signer can always be started again: a
   crash leaves at most a torn last line (parseJournal, Journal.open). *)
Restartable == errors = 0 => Parses(file)

(* Whenever the signer takes a command its state is the fold of the journal,
   over any number of restarts on a healthy disk (replay, record). *)
JournalIsState == errors = 0 /\ pc = "idle" => mem = Recorded(file)

(* Whatever the disk does, a signer that starts is in a state it was about to
   be in before: lines of two histories never mix (chainHash, parseJournal). *)
NoMixture == mem \in drafts
=============================================================================
