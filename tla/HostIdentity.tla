--------------------------- MODULE HostIdentity ---------------------------
(***************************************************************************)
(* The key that makes a machine the Host its owners paired with            *)
(* (pi-extension/src/pairing/storage.ts).  Each Pi process calls           *)
(* getOrCreateEd25519Keypair, which looks for the key in identity.json,    *)
(* then under two service names of the keyring the process resolves, and   *)
(* mints one where it believes that none exists.  Processes share file and *)
(* keyring and hold no lock; every await is a step of its own.             *)
(*                                                                         *)
(* A locked keyring does not answer: the call times out after three        *)
(* seconds (_withTimeout), but the request is not withdrawn and a write or *)
(* a deletion may land once the keyring is unlocked.                       *)
(***************************************************************************)
EXTENDS Naturals, FiniteSets

CONSTANTS
  Processes,     \* Pi processes of one machine
  Rings,         \* the secret stores those processes may resolve
  Attempts,      \* _keyringReadAttempts, three in the code
  MaxKeys,       \* bound: keys in existence, the legacy one included
  MaxStarts,     \* bound: resolutions
  MaxLocks,      \* bound: times that a keyring locks
  MaxCrashes,    \* bound: processes lost while resolving
  MaxRevokes     \* bound: revocations of every owner

ASSUME BoundsAssumption == Attempts \in Nat \ {0} /\ MaxKeys \in Nat \ {0}

VARIABLES
  expected,  \* _keyringExpectedAvailable: the platform always has a keyring
  force,     \* REMOTE_PI_ALLOW_FILE_IDENTITY=1
  legacy,    \* the keyrings that began with an entry of the old service
  file,      \* the key in identity.json, 0 when absent or half written
  new,       \* the entry of dev.remotepi.pi, by keyring; 0 for none
  old,       \* the entry of dev.remotepi.mac, by keyring; 0 for none
  locked,    \* the keyring does not answer
  late,      \* requests that timed out and may still land; key 0: a deletion
  paired,    \* the keys under which owners are paired (peers.json)
  minted,    \* keys in existence are 1..minted; 1 is the legacy one
  pc,        \* the await at which each process is
  ring,      \* the keyring it resolved
  attempt,   \* its attempt at the keyring
  key,       \* the key it holds, returned once pc is "done"
  trusted,   \* history: the identity with owners it found stored when it
             \*   started, 0 when none or when others have changed it since
  swept,     \* history: keyrings emptied under a reader by a migration
  budget     \* bound: starts, lockings, crashes and revocations so far

platform == <<expected, force, legacy>>
keyring  == <<new, old, locked, late>>
process  == <<pc, ring, attempt, key>>
vars == <<platform, file, keyring, paired, minted, process, trusted, swept,
          budget>>

Keys == 1..MaxKeys

Calls == {"file", "new", "old", "migrate", "delete", "mint", "recheck",
          "peers", "open", "close"}

(* What getOrCreateEd25519Keypair finds, undisturbed, with identity.json   *)
(* holding f and the keyrings n and o.                                     *)
Identity(f, n, o, r) == IF f # 0 THEN f ELSE IF n[r] # 0 THEN n[r] ELSE o[r]

Stored(r) == Identity(file, new, old, r)

TypeOK ==
  /\ expected \in BOOLEAN /\ force \in BOOLEAN /\ legacy \subseteq Rings
  /\ file \in 0..MaxKeys
  /\ new \in [Rings -> 0..MaxKeys] /\ old \in [Rings -> {0, 1}]
  /\ locked \in [Rings -> BOOLEAN]
  /\ late \subseteq [ring : Rings, key : 0..MaxKeys]
  /\ paired \subseteq 0..MaxKeys
  /\ minted \in 1..MaxKeys
  /\ pc \in [Processes -> Calls \cup {"off", "done", "failed"}]
  /\ ring \in [Processes -> Rings]
  /\ attempt \in [Processes -> 1..Attempts]
  /\ key \in [Processes -> 0..MaxKeys]
  /\ trusted \in [Processes -> 0..MaxKeys]
  /\ swept \subseteq Rings
  /\ budget \in [{"start", "lock", "crash", "revoke"} -> Nat]

Init ==
  /\ expected \in BOOLEAN /\ force \in BOOLEAN
  /\ legacy \in SUBSET Rings
  /\ file = 0
  /\ new = [r \in Rings |-> 0]
  /\ old = [r \in Rings |-> IF r \in legacy THEN 1 ELSE 0]
  /\ locked = [r \in Rings |-> FALSE]
  /\ late = {}
  /\ paired \in IF legacy = {} THEN {{}} ELSE {{}, {1}}
  /\ minted = 1
  /\ pc = [p \in Processes |-> "off"]
  /\ ring \in [Processes -> Rings]
  /\ attempt = [p \in Processes |-> 1]
  /\ key = [p \in Processes |-> 0]
  /\ trusted = [p \in Processes |-> 0]
  /\ swept = {}
  /\ budget = [b \in {"start", "lock", "crash", "revoke"} |-> 0]

Spend(b, limit) ==
  budget[b] < limit /\ budget' = [budget EXCEPT ![b] = @ + 1]

Goes(p, there) == pc' = [pc EXCEPT ![p] = there]

(* The call returns key k.                                                 *)
Returns(p, k) == Goes(p, "done") /\ key' = [key EXCEPT ![p] = k]

(* generateEd25519Keypair: a key nobody else has.                          *)
Mints(p, there) ==
  /\ minted < MaxKeys
  /\ minted' = minted + 1
  /\ key' = [key EXCEPT ![p] = minted']
  /\ Goes(p, there)

(* With the identity stored as f, n and o from now on, whoever finds it    *)
(* changed trusts it no more, except p, the one that changes it.           *)
Disturbs(p, f, n, o) ==
  trusted' = [q \in Processes |->
                IF q # p /\ Identity(f, n, o, ring[q]) # Stored(ring[q])
                THEN 0 ELSE trusted[q]]
-----------------------------------------------------------------------------
(* A Pi process asks for its identity, on a ring of its own environment.   *)
Start(p) ==
  /\ pc[p] \in {"off", "failed"}
  /\ Spend("start", MaxStarts)
  /\ \E r \in Rings :
       /\ ring' = [ring EXCEPT ![p] = r]
       /\ trusted' = [trusted EXCEPT
                        ![p] = IF Stored(r) \in paired THEN Stored(r) ELSE 0]
  /\ Goes(p, "file")
  /\ attempt' = [attempt EXCEPT ![p] = 1]
  /\ key' = [key EXCEPT ![p] = 0]
  /\ UNCHANGED <<platform, file, keyring, paired, minted, swept>>

(* Path 0: an existing file identity wins.  A file that is being written   *)
(* does not parse and is taken for none.                                   *)
ReadFile(p) ==
  /\ pc[p] = "file"
  /\ IF file # 0 THEN Returns(p, file) ELSE Goes(p, "new") /\ UNCHANGED key
  /\ UNCHANGED <<platform, file, keyring, paired, minted, ring, attempt,
                 trusted, swept, budget>>

(* Path A: the entry of the current service name.                          *)
ReadNew(p) ==
  /\ pc[p] = "new" /\ ~locked[ring[p]]
  /\ IF new[ring[p]] # 0 THEN Returns(p, new[ring[p]])
     ELSE Goes(p, "old") /\ UNCHANGED key
  /\ UNCHANGED <<platform, file, keyring, paired, minted, ring, attempt,
                 trusted, swept, budget>>

(* The entry of the old service name is migrated; with neither entry the   *)
(* machine is taken for new and a key is minted.  Another process may have *)
(* moved the old entry to the new name between the two reads.              *)
ReadOld(p) ==
  /\ pc[p] = "old" /\ ~locked[ring[p]]
  /\ \/ /\ old[ring[p]] # 0
        /\ Goes(p, "migrate") /\ key' = [key EXCEPT ![p] = old[ring[p]]]
        /\ UNCHANGED <<minted, swept, trusted>>
     \/ /\ old[ring[p]] = 0
        /\ Mints(p, "mint")
        /\ IF new[ring[p]] # 0
           THEN /\ swept' = swept \cup {ring[p]}
                /\ trusted' = [trusted EXCEPT ![p] = 0]
           ELSE UNCHANGED <<swept, trusted>>
  /\ UNCHANGED <<platform, file, keyring, paired, ring, attempt, budget>>

(* Slip: a process mints or migrates and forgets the old entry first.      *)
ForgetFirst(p) ==
  /\ pc[p] = "migrate" /\ ~locked[ring[p]]
  /\ old' = [old EXCEPT ![ring[p]] = 0]
  /\ Goes(p, "mint")
  /\ Disturbs(p, file, new, old')
  /\ UNCHANGED <<platform, file, new, locked, late, paired, minted, ring,
                 attempt, key, swept, budget>>

(* The old entry copied to the new name.                                   *)
CopyEntry(p) ==
  /\ pc[p] = "migrate" /\ ~locked[ring[p]]
  /\ new' = [new EXCEPT ![ring[p]] = key[p]]
  /\ Goes(p, "delete")
  /\ Disturbs(p, file, new', old)
  /\ UNCHANGED <<platform, file, old, locked, late, paired, minted, ring,
                 attempt, key, swept, budget>>

(* The deletion of the old entry.  It never throws: one that fails or      *)
(* times out answers false, which nobody reads.                            *)
DeleteOld(p) ==
  /\ pc[p] = "delete"
  /\ Goes(p, "done")
  /\ \/ ~locked[ring[p]] /\ old' = [old EXCEPT ![ring[p]] = 0]
        /\ UNCHANGED late
     \/ UNCHANGED <<old, late>>
     \/ locked[ring[p]] /\ late' = late \cup {[ring |-> ring[p], key |-> 0]}
        /\ UNCHANGED old
  /\ Disturbs(p, file, new, old')
  /\ UNCHANGED <<platform, file, new, locked, paired, minted, ring, attempt,
                 key, swept, budget>>

(* The minted key written to the new name.                                 *)
StoreMinted(p) ==
  /\ pc[p] = "mint" /\ ~locked[ring[p]]
  /\ new' = [new EXCEPT ![ring[p]] = key[p]]
  /\ Goes(p, "done")
  /\ Disturbs(p, file, new', old)
  /\ UNCHANGED <<platform, file, old, locked, late, paired, minted, ring,
                 attempt, key, swept, budget>>

(* A keyring call fails: the attempt is given up and the next one begins   *)
(* with the first read, or Path B after the last.  A write that timed out  *)
(* may land later.                                                         *)
Throws(p) ==
  /\ pc[p] \in {"new", "old", "migrate", "mint"} /\ locked[ring[p]]
  /\ \/ UNCHANGED late
     \/ /\ pc[p] \in {"migrate", "mint"}
        /\ late' = late \cup {[ring |-> ring[p], key |-> key[p]]}
  /\ IF attempt[p] < Attempts
     THEN /\ attempt' = [attempt EXCEPT ![p] = @ + 1]
          /\ Goes(p, "new")
     ELSE Goes(p, "recheck") /\ UNCHANGED attempt
  /\ UNCHANGED <<platform, file, new, old, locked, paired, minted, ring, key,
                 trusted, swept, budget>>

(* Path B: the file again; on a platform with a keyring of its own the     *)
(* failure is reported (KeyringUnavailableError).                          *)
Recheck(p) ==
  /\ pc[p] = "recheck"
  /\ \/ file # 0 /\ Returns(p, file) /\ UNCHANGED minted
     \/ /\ file = 0 /\ expected /\ ~force
        /\ Goes(p, "failed") /\ UNCHANGED <<key, minted>>
     \/ /\ file = 0 /\ ~expected /\ ~force
        /\ Goes(p, "peers") /\ UNCHANGED <<key, minted>>
     \/ file = 0 /\ force /\ Mints(p, "open")
  /\ UNCHANGED <<platform, file, keyring, paired, ring, attempt, trusted,
                 swept, budget>>

(* Slip: a file identity is minted whether or not owners are paired.       *)
MintAnyway(p) ==
  /\ pc[p] = "peers"
  /\ Mints(p, "open")
  /\ UNCHANGED <<platform, file, keyring, paired, ring, attempt, trusted,
                 swept, budget>>

(* With owners in peers.json the failure is reported                       *)
(* (PairedIdentityMissingError); otherwise a file identity is minted.      *)
CheckPeers(p) ==
  /\ pc[p] = "peers"
  /\ \/ paired # {} /\ Goes(p, "failed") /\ UNCHANGED <<key, minted>>
     \/ paired = {} /\ Mints(p, "open")
  /\ UNCHANGED <<platform, file, keyring, paired, ring, attempt, trusted,
                 swept, budget>>

(* writeFile truncates identity.json ...                                   *)
OpenFile(p) ==
  /\ pc[p] = "open"
  /\ file' = 0
  /\ Goes(p, "close")
  /\ Disturbs(p, 0, new, old)
  /\ UNCHANGED <<platform, keyring, paired, minted, ring, attempt, key, swept,
                 budget>>

(* ... and fills it.                                                       *)
FillFile(p) ==
  /\ pc[p] = "close"
  /\ file' = key[p]
  /\ Goes(p, "done")
  /\ Disturbs(p, key[p], new, old)
  /\ UNCHANGED <<platform, keyring, paired, minted, ring, attempt, key, swept,
                 budget>>

(* The file cannot be written and the call rejects.                        *)
FileFails(p) ==
  /\ pc[p] \in {"open", "close"}
  /\ Goes(p, "failed")
  /\ UNCHANGED <<platform, file, keyring, paired, minted, ring, attempt, key,
                 trusted, swept, budget>>

(* The process ends, wherever it is.                                       *)
Crash(p) ==
  /\ pc[p] \in Calls \cup {"done"}
  /\ Spend("crash", MaxCrashes)
  /\ Goes(p, "off")
  /\ UNCHANGED <<platform, file, keyring, paired, minted, ring, attempt, key,
                 trusted, swept>>
-----------------------------------------------------------------------------
(* A request that timed out lands in the unlocked keyring.                 *)
Lands(w) ==
  /\ w \in late /\ ~locked[w.ring]
  /\ late' = late \ {w}
  /\ IF w.key = 0
     THEN old' = [old EXCEPT ![w.ring] = 0] /\ UNCHANGED new
     ELSE new' = [new EXCEPT ![w.ring] = w.key] /\ UNCHANGED old
  /\ trusted' = [q \in Processes |->
                   IF Identity(file, new', old', ring[q]) # Stored(ring[q])
                   THEN 0 ELSE trusted[q]]
  /\ UNCHANGED <<platform, file, locked, paired, minted, process, swept,
                 budget>>

Lock(r) ==
  /\ ~locked[r] /\ Spend("lock", MaxLocks)
  /\ locked' = [locked EXCEPT ![r] = TRUE]
  /\ UNCHANGED <<platform, file, new, old, late, paired, minted, process,
                 trusted, swept>>

Unlock(r) ==
  /\ locked[r]
  /\ locked' = [locked EXCEPT ![r] = FALSE]
  /\ UNCHANGED <<platform, file, new, old, late, paired, minted, process,
                 trusted, swept, budget>>

(* An owner pairs with the process: addPeer, under the key it returned.    *)
Pair(p) ==
  /\ pc[p] = "done"
  /\ paired' = paired \cup {key[p]}
  /\ UNCHANGED <<platform, file, keyring, minted, process, trusted, swept,
                 budget>>

(* Every owner is revoked: nobody relies on a stored identity any more.    *)
Revoke ==
  /\ paired # {} /\ Spend("revoke", MaxRevokes)
  /\ paired' = {}
  /\ trusted' = [q \in Processes |-> 0]
  /\ UNCHANGED <<platform, file, keyring, minted, process, swept>>
-----------------------------------------------------------------------------
Resolve(p) ==
  \/ ReadFile(p) \/ ReadNew(p) \/ ReadOld(p) \/ CopyEntry(p) \/ DeleteOld(p)
  \/ StoreMinted(p) \/ Throws(p) \/ Recheck(p) \/ CheckPeers(p)
  \/ OpenFile(p) \/ FillFile(p)

Next ==
  \/ \E p \in Processes : Start(p) \/ FileFails(p) \/ Crash(p) \/ Pair(p)
  \/ \E p \in Processes : Resolve(p)
  \/ \E w \in late : Lands(w)
  \/ \E r \in Rings : Lock(r) \/ Unlock(r)
  \/ Revoke

Spec == Init /\ [][Next]_vars
-----------------------------------------------------------------------------
(* Never another identity: a process that found, when it started, a stored *)
(* identity with owners paired under it returns that identity or fails,    *)
(* whatever the keyring did meanwhile (storage.ts:356-357, 402-432),       *)
(* unless the owner opted into a file identity, all owners were revoked,   *)
(* or another process or a late write changed the stored identity under    *)
(* it.  `trusted` records exactly that.                                    *)
PairedKeyWins ==
  \A p \in Processes :
    pc[p] = "done" /\ trusted[p] # 0 /\ ~force => key[p] = trusted[p]

(* The key of an old install survives its migration at every moment, in    *)
(* spite of crashes, timeouts and late requests: it is written to the new  *)
(* name before it is deleted from the old one (storage.ts:373-375).  The   *)
(* one exception is a process that read the new name before and the old    *)
(* one after a migration by another: it mints over the migrated key.       *)
KeyIsNeverLost ==
  \A r \in legacy \ swept : old[r] = 1 \/ new[r] = 1

(* The comment at storage.ts:421-426: minting a new identity when owners   *)
(* are already paired is destructive on every platform, so the call fails  *)
(* loudly.                                                                 *)
FreshKeyOnlyUnpaired ==
  [][minted' # minted /\ ~force => paired = {}]_vars
=============================================================================
