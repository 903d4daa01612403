----------------------------- MODULE SignerHome -----------------------------
(***************************************************************************)
(* The state directory of the signer: journal.log (Journal) and seeds.json *)
(* (signer/keys.ts), which must fit together when the signer starts.       *)
(* seed.prepare, init.commit and network.commit of signer/service.ts write *)
(* the one file and then the other; kills, power losses and disk errors    *)
(* come between any two system calls.  Commands run one after the other.   *)
(*                                                                         *)
(* Abstractions.  A seed and its fingerprint are one; entropy never        *)
(* repeats.  An event is the set of fingerprints it records, or a model    *)
(* value for the many that record none.  Tokens, the words the operator    *)
(* types in and the key encryption key are left out, and so is rekey.      *)
(***************************************************************************)
EXTENDS Journal, FiniteSets

CONSTANTS
  Networks,
  Seeds,     \* entropies: bound on how many are made
  NoSeed,
  Others     \* events of all other commands

VARIABLES
  seeds,     \* seeds.json as the kernel has it
  durable,   \* seeds.json after a power loss, if its rename was not synced
  keys,      \* key ring and seed file of the running signer
  prepared,  \* seeds shown to the operator and not yet stored
  todo,      \* fingerprints the running command has stored and not yet recorded
  stage,     \* "ready", "renamed": seeds.json written, "stored": synced too
  made       \* entropies made so far

home == <<seeds, durable, keys, prepared, todo, stage, made>>
homeVars == <<vars, home>>

NoSeeds == [n \in Networks |-> NoSeed]

ASSUME HomeAssumption ==
  /\ IsFiniteSet(Networks) /\ NoSeed \notin Seeds
  /\ Events = Others \cup SUBSET (Networks \X Seeds)

-----------------------------------------------------------------------------

(* state.fingerprints after replay *)
Fingerprints(history) ==
  UNION {history[i] : i \in {j \in 1..Len(history) : history[j] \notin Others}}

(* the constructor of Signer: seeds and journal fit together *)
Fits(history, seedFile) == \A f \in Fingerprints(history) : seedFile[f[1]] = f[2]

\* Mutant of SeedPrepare: a network whose seed was stored and not recorded may
\* be set up again.
SeedPrepareAgain(nets) ==
  /\ pc = "idle" /\ stage = "ready"
  /\ nets # {} /\ \A f \in Fingerprints(mem) : f[1] \notin nets
  /\ \E new \in [nets -> Seeds \ made] :
       /\ \A m, n \in nets : new[m] = new[n] => m = n
       /\ prepared' = {<<n, new[n]>> : n \in nets}
       /\ made' = made \cup {new[n] : n \in nets}
  /\ UNCHANGED <<vars, seeds, durable, keys, todo, stage>>

(* seed.prepare: not for a network the signer has a key for *)
SeedPrepare(nets) ==
  /\ pc = "idle" /\ stage = "ready"
  /\ nets # {} /\ \A n \in nets : keys[n] = NoSeed
  /\ \E new \in [nets -> Seeds \ made] :
       /\ \A m, n \in nets : new[m] = new[n] => m = n
       /\ prepared' = {<<n, new[n]>> : n \in nets}
       /\ made' = made \cup {new[n] : n \in nets}
  /\ UNCHANGED <<vars, seeds, durable, keys, todo, stage>>

(* takePrepared with writeSeedFile up to its rename *)
TakePrepared ==
  /\ pc = "idle" /\ stage = "ready" /\ prepared # {}
  /\ seeds' = [n \in Networks |-> IF \E f \in prepared : f[1] = n
                                   THEN (CHOOSE f \in prepared : f[1] = n)[2] ELSE keys[n]]
  /\ todo' = prepared /\ prepared' = {} /\ stage' = "renamed"
  /\ UNCHANGED <<vars, durable, keys, made>>

\* Mutant of SyncSeeds: the directory is not synced.
SyncSeedsNever ==
  /\ stage = "renamed"
  /\ stage' = "stored" /\ keys' = seeds
  /\ UNCHANGED <<vars, seeds, durable, prepared, todo, made>>

(* the end of writeSeedFile: the directory is synced; the keys are loaded *)
SyncSeeds ==
  /\ stage = "renamed"
  /\ durable' = seeds /\ keys' = seeds /\ stage' = "stored"
  /\ UNCHANGED <<vars, seeds, prepared, todo, made>>

(* init.commit: one event for all; network.commit: one event each *)
NextEvents == IF mem = <<>> THEN {todo} ELSE {{f} : f \in todo}

(* record within the command that stored the seeds *)
RecordSeeds ==
  /\ stage = "stored"
  /\ \E e \in NextEvents :
       /\ Write(e) \/ WriteShort(e)
       /\ todo' = todo \ e
       /\ stage' = IF todo' = {} THEN "ready" ELSE "stored"
  /\ UNCHANGED <<seeds, durable, keys, prepared, made>>

(* record of any other command, all of which ask for init first *)
RecordOther ==
  /\ stage = "ready" /\ mem # <<>>
  /\ \E e \in Others : Write(e) \/ WriteShort(e)
  /\ UNCHANGED home

(* an error ends the command; what it had stored stays stored *)
RecordFails ==
  /\ FsyncFails
  /\ todo' = {} /\ stage' = "ready"
  /\ UNCHANGED <<seeds, durable, keys, prepared, made>>

Gone == keys' = NoSeeds /\ prepared' = {} /\ todo' = {} /\ stage' = "ready"

HomeKill == Kill /\ Gone /\ UNCHANGED <<seeds, durable, made>>

HomePowerLoss ==
  /\ PowerLoss /\ Gone
  /\ seeds' \in {seeds, durable} /\ durable' = seeds'
  /\ UNCHANGED made

(* Signer.open: refused unless the journal parses and the seeds fit *)
Open ==
  /\ Reopen /\ Fits(Replay(file), seeds)
  /\ keys' = seeds
  /\ UNCHANGED <<seeds, durable, prepared, todo, stage, made>>

-----------------------------------------------------------------------------

HomeInit ==
  /\ Init
  /\ seeds = NoSeeds /\ durable = NoSeeds /\ keys = NoSeeds
  /\ prepared = {} /\ todo = {} /\ stage = "ready" /\ made = {}

HomeNext ==
  \/ \E nets \in SUBSET Networks : SeedPrepare(nets)
  \/ TakePrepared \/ SyncSeeds \/ RecordSeeds \/ RecordOther
  \/ (Fsync /\ UNCHANGED home) \/ RecordFails
  \/ HomeKill \/ HomePowerLoss \/ Open

HomeSpec == HomeInit /\ [][HomeNext]_homeVars

-----------------------------------------------------------------------------
(* Properties                                                               *)

(* The two files fit together whenever the machine may stop, whatever the disk
   does to the journal: a fingerprint is recorded only after its seed is on the
   disk to stay, so no start ends in seed_mismatch (takePrepared, record). *)
SeedsFit ==
  \A n \in 1..Len(file) :
    /\ Fits(file[n], seeds)
    /\ Fits(file[n], durable)

(* The seed of a network is never replaced by another one once it is durable,
   that is once no power loss can take it away, over any number of setups that
   were broken off: what was paid to its addresses would be lost (seedPrepare,
   network_exists).  A seed that a start loaded after a kill, and that a power loss
   took away before the directory was synced, may be replaced; SeedsFit shows
   that the journal knows nothing of it. *)
SeedsStay ==
  [][\A n \in Networks : durable[n] # NoSeed => durable'[n] = durable[n]]_homeVars
=============================================================================
