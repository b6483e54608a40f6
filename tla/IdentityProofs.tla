--------------------------- MODULE IdentityProofs ---------------------------
(***************************************************************************)
(* Proofs about HostIdentity, for every number of processes, keyrings,     *)
(* attempts and keys.                                                      *)
(***************************************************************************)
EXTENDS HostIdentity, TLAPS

(* A keyring that began with an entry of the old service and was not swept *)
(* holds nothing but that key; whoever migrates it holds that key, deletes *)
(* the old entry only once the new one is there, and nobody mints over it. *)
LegacyKept(r) ==
  /\ old[r] = 1 \/ new[r] = 1
  /\ new[r] \in {0, 1}
  /\ \A p \in Processes : ring[p] = r =>
       /\ pc[p] # "mint"
       /\ pc[p] \in {"migrate", "delete"} => key[p] = 1
       /\ pc[p] = "delete" => new[r] = 1
  /\ \A w \in late : w.ring = r =>
       w.key \in {0, 1} /\ (w.key = 0 => new[r] = 1)

LegacyInv == \A r \in legacy \ swept : LegacyKept(r)

(* The inductive invariant of KeyIsNeverLost.                              *)
KeepInv == TypeOK /\ LegacyInv

LEMMA InitType == Init => TypeOK
<1> SUFFICES ASSUME Init PROVE TypeOK
  OBVIOUS
<1> QED
  BY BoundsAssumption DEF Init, TypeOK, Calls

LEMMA NextType ==
  ASSUME TypeOK, [Next]_vars
  PROVE  TypeOK'
<1> USE BoundsAssumption DEF TypeOK, Calls
<1>1. ASSUME NEW p \in Processes, Start(p) PROVE TypeOK'
  <2>1. PICK r \in Rings :
          /\ ring' = [ring EXCEPT ![p] = r]
          /\ trusted' = [trusted EXCEPT
                           ![p] = IF Stored(r) \in paired THEN Stored(r) ELSE 0]
    BY <1>1 DEF Start
  <2>2. trusted' \in [Processes -> 0..MaxKeys]
    BY <2>1 DEF Stored, Identity
  <2> QED
    BY <1>1, <2>1, <2>2 DEF Start, Spend, Goes, platform, keyring
<1>2. ASSUME NEW p \in Processes, FileFails(p) PROVE TypeOK'
  BY <1>2 DEF FileFails, Goes, platform, keyring
<1>3. ASSUME NEW p \in Processes, Crash(p) PROVE TypeOK'
  BY <1>3 DEF Crash, Spend, Goes, platform, keyring
<1>4. ASSUME NEW p \in Processes, Pair(p) PROVE TypeOK'
  BY <1>4 DEF Pair, platform, keyring, process
<1>5. ASSUME NEW p \in Processes, ReadFile(p) PROVE TypeOK'
  BY <1>5 DEF ReadFile, Returns, Goes, platform, keyring
<1>6. ASSUME NEW p \in Processes, ReadNew(p) PROVE TypeOK'
  BY <1>6 DEF ReadNew, Returns, Goes, platform, keyring
<1>7. ASSUME NEW p \in Processes, ReadOld(p) PROVE TypeOK'
  BY <1>7 DEF ReadOld, Mints, Goes, platform, keyring
<1>8. ASSUME NEW p \in Processes, CopyEntry(p) PROVE TypeOK'
  BY <1>8 DEF CopyEntry, Disturbs, Goes, platform
<1>9. ASSUME NEW p \in Processes, StoreMinted(p) PROVE TypeOK'
  BY <1>9 DEF StoreMinted, Disturbs, Goes, platform
<1>10. ASSUME NEW p \in Processes, DeleteOld(p) PROVE TypeOK'
  BY <1>10 DEF DeleteOld, Disturbs, Goes, platform
<1>11. ASSUME NEW p \in Processes, Throws(p) PROVE TypeOK'
  BY <1>11 DEF Throws, Goes, platform
<1>12. ASSUME NEW p \in Processes, Recheck(p) PROVE TypeOK'
  BY <1>12 DEF Recheck, Returns, Mints, Goes, platform, keyring
<1>13. ASSUME NEW p \in Processes, CheckPeers(p) PROVE TypeOK'
  BY <1>13 DEF CheckPeers, Mints, Goes, platform, keyring
<1>14. ASSUME NEW p \in Processes, OpenFile(p) PROVE TypeOK'
  BY <1>14 DEF OpenFile, Disturbs, Goes, platform, keyring
<1>15. ASSUME NEW p \in Processes, FillFile(p) PROVE TypeOK'
  BY <1>15 DEF FillFile, Disturbs, Goes, platform, keyring
<1>16. ASSUME NEW w \in late, Lands(w) PROVE TypeOK'
  BY <1>16 DEF Lands, platform, process
<1>17. ASSUME NEW r \in Rings, Lock(r) PROVE TypeOK'
  BY <1>17 DEF Lock, Spend, platform, process
<1>18. ASSUME NEW r \in Rings, Unlock(r) PROVE TypeOK'
  BY <1>18 DEF Unlock, platform, process
<1>19. CASE Revoke
  BY <1>19 DEF Revoke, Spend, platform, keyring, process
<1>20. CASE UNCHANGED vars
  BY <1>20 DEF vars, platform, keyring, process
<1> QED
  BY <1>1, <1>2, <1>3, <1>4, <1>5, <1>6, <1>7, <1>8, <1>9, <1>10, <1>11,
     <1>12, <1>13, <1>14, <1>15, <1>16, <1>17, <1>18, <1>19, <1>20 DEF
     Next, Resolve

-----------------------------------------------------------------------------
LEMMA NextKeep ==
  ASSUME KeepInv, [Next]_vars
  PROVE  LegacyInv'
<1> USE DEF KeepInv, TypeOK, LegacyInv, LegacyKept
<1>1. ASSUME NEW p \in Processes, Start(p) PROVE LegacyInv'
  BY <1>1 DEF Start, Goes, platform, keyring
<1>2. ASSUME NEW p \in Processes, FileFails(p) \/ Crash(p) \/ Pair(p)
      PROVE LegacyInv'
  BY <1>2 DEF FileFails, Crash, Pair, Goes, platform, keyring, process
<1>3. ASSUME NEW p \in Processes, ReadFile(p) \/ ReadNew(p) PROVE LegacyInv'
  BY <1>3 DEF ReadFile, ReadNew, Returns, Goes, platform, keyring
<1>4. ASSUME NEW p \in Processes, ReadOld(p) PROVE LegacyInv'
  BY <1>4 DEF ReadOld, Mints, Goes, platform, keyring
<1>5. ASSUME NEW p \in Processes, CopyEntry(p) \/ StoreMinted(p)
      PROVE LegacyInv'
  BY <1>5 DEF CopyEntry, StoreMinted, Goes, platform
<1>6. ASSUME NEW p \in Processes, DeleteOld(p) PROVE LegacyInv'
  BY <1>6 DEF DeleteOld, Goes, platform
<1>7. ASSUME NEW p \in Processes, Throws(p) PROVE LegacyInv'
  BY <1>7 DEF Throws, Goes, platform
<1>8. ASSUME NEW p \in Processes, Recheck(p) \/ CheckPeers(p)
      PROVE LegacyInv'
  BY <1>8 DEF Recheck, CheckPeers, Returns, Mints, Goes, platform, keyring
<1>9. ASSUME NEW p \in Processes, OpenFile(p) \/ FillFile(p)
      PROVE LegacyInv'
  BY <1>9 DEF OpenFile, FillFile, Goes, platform, keyring
<1>10. ASSUME NEW w \in late, Lands(w) PROVE LegacyInv'
  BY <1>10 DEF Lands, platform, process
<1>11. ASSUME NEW r \in Rings, Lock(r) \/ Unlock(r) PROVE LegacyInv'
  BY <1>11 DEF Lock, Unlock, platform, process
<1>12. CASE Revoke
  BY <1>12 DEF Revoke, platform, keyring, process
<1>13. CASE UNCHANGED vars
  BY <1>13 DEF vars, platform, keyring, process
<1> QED
  BY <1>1, <1>2, <1>3, <1>4, <1>5, <1>6, <1>7, <1>8, <1>9, <1>10, <1>11,
     <1>12, <1>13 DEF Next, Resolve

LEMMA InitKeep == Init => LegacyInv
BY DEF Init, LegacyInv, LegacyKept

(* The migration of an old install never loses its key (storage.ts:371-375)*)
(* unless a process swept it by reading the two names around a migration.  *)
THEOREM KeySurvivesMigration == Spec => []KeyIsNeverLost
<1>1. Init => KeepInv
  BY InitType, InitKeep DEF KeepInv
<1>2. KeepInv /\ [Next]_vars => KeepInv'
  BY NextType, NextKeep DEF KeepInv
<1>3. KeepInv => KeyIsNeverLost
  BY DEF KeepInv, LegacyInv, LegacyKept, KeyIsNeverLost
<1> QED
  BY <1>1, <1>2, <1>3, PTL DEF Spec

-----------------------------------------------------------------------------
(* Keys are numbered in the order in which they are minted.                *)
Numbered ==
  /\ file <= minted
  /\ \A r \in Rings : new[r] <= minted
  /\ \A w \in late : w.key <= minted
  /\ \A p \in Processes : key[p] <= minted

(* The key a process is about to write to identity.json is new to the      *)
(* keyrings and to whoever writes to them: filling the file changes the    *)
(* identity that others find.                                              *)
FreshFile ==
  \A q \in Processes : pc[q] \in {"open", "close"} =>
    /\ key[q] > 1
    /\ \A r \in Rings : new[r] # key[q]
    /\ \A w \in late : w.key # key[q]
    /\ \A p \in Processes : pc[p] \in {"mint", "migrate"} => key[p] # key[q]

(* What a process that trusts a stored identity may rely on at each of its *)
(* awaits: the identity is still the stored one and has owners, no file    *)
(* hides it once the file was read, and with no entry under the new name   *)
(* it can only be the one of the old name.                                 *)
Relies(p) ==
  ~force /\ trusted[p] # 0 =>
    /\ pc[p] \in Calls => paired # {} /\ Stored(ring[p]) = trusted[p]
    /\ pc[p] \in {"new", "old", "migrate"} => file = 0
    /\ pc[p] \in {"old", "migrate", "delete"} => trusted[p] = 1
    /\ pc[p] \in {"migrate", "delete"} => key[p] = 1
    /\ pc[p] \notin {"mint", "open", "close"}
    /\ pc[p] = "done" => key[p] = trusted[p]

Reliance == \A p \in Processes : Relies(p)

(* The inductive invariant of PairedKeyWins.                               *)
TrustInv == TypeOK /\ Numbered /\ FreshFile /\ Reliance

LEMMA NextNumbered ==
  ASSUME TypeOK, Numbered, [Next]_vars
  PROVE  Numbered'
<1> USE BoundsAssumption DEF TypeOK, Numbered
<1>1. ASSUME NEW p \in Processes, Start(p) PROVE Numbered'
  BY <1>1 DEF Start, Goes, platform, keyring
<1>2. ASSUME NEW p \in Processes, FileFails(p) PROVE Numbered'
  BY <1>2 DEF FileFails, Goes, platform, keyring
<1>3. ASSUME NEW p \in Processes, Crash(p) PROVE Numbered'
  BY <1>3 DEF Crash, Goes, platform, keyring
<1>4. ASSUME NEW p \in Processes, Pair(p) PROVE Numbered'
  BY <1>4 DEF Pair, platform, keyring, process
<1>5. ASSUME NEW p \in Processes, ReadFile(p) PROVE Numbered'
  BY <1>5 DEF ReadFile, Returns, Goes, platform, keyring
<1>6. ASSUME NEW p \in Processes, ReadNew(p) PROVE Numbered'
  BY <1>6 DEF ReadNew, Returns, Goes, platform, keyring
<1>7. ASSUME NEW p \in Processes, ReadOld(p) PROVE Numbered'
  BY <1>7 DEF ReadOld, Mints, Goes, platform, keyring
<1>8. ASSUME NEW p \in Processes, CopyEntry(p) PROVE Numbered'
  BY <1>8 DEF CopyEntry, Goes, platform
<1>9. ASSUME NEW p \in Processes, StoreMinted(p) PROVE Numbered'
  BY <1>9 DEF StoreMinted, Goes, platform
<1>10. ASSUME NEW p \in Processes, DeleteOld(p) PROVE Numbered'
  BY <1>10 DEF DeleteOld, Goes, platform
<1>11. ASSUME NEW p \in Processes, Throws(p) PROVE Numbered'
  BY <1>11 DEF Throws, Goes, platform
<1>12. ASSUME NEW p \in Processes, Recheck(p) PROVE Numbered'
  BY <1>12 DEF Recheck, Returns, Mints, Goes, platform, keyring
<1>13. ASSUME NEW p \in Processes, CheckPeers(p) PROVE Numbered'
  BY <1>13 DEF CheckPeers, Mints, Goes, platform, keyring
<1>14. ASSUME NEW p \in Processes, OpenFile(p) PROVE Numbered'
  BY <1>14 DEF OpenFile, Goes, platform, keyring
<1>15. ASSUME NEW p \in Processes, FillFile(p) PROVE Numbered'
  BY <1>15 DEF FillFile, Goes, platform, keyring
<1>16. ASSUME NEW w \in late, Lands(w) PROVE Numbered'
  BY <1>16 DEF Lands, platform, process
<1>17. ASSUME NEW r \in Rings, Lock(r) PROVE Numbered'
  BY <1>17 DEF Lock, platform, process
<1>18. ASSUME NEW r \in Rings, Unlock(r) PROVE Numbered'
  BY <1>18 DEF Unlock, platform, process
<1>19. CASE Revoke
  BY <1>19 DEF Revoke, platform, keyring, process
<1>20. CASE UNCHANGED vars
  BY <1>20 DEF vars, platform, keyring, process
<1> QED
  BY <1>1, <1>2, <1>3, <1>4, <1>5, <1>6, <1>7, <1>8, <1>9, <1>10, <1>11,
     <1>12, <1>13, <1>14, <1>15, <1>16, <1>17, <1>18, <1>19, <1>20 DEF
     Next, Resolve

LEMMA NextFresh ==
  ASSUME TypeOK, Numbered, FreshFile, [Next]_vars
  PROVE  FreshFile'
<1> USE BoundsAssumption DEF TypeOK, Numbered, FreshFile
<1>1. ASSUME NEW p \in Processes, Start(p) PROVE FreshFile'
  BY <1>1 DEF Start, Goes, platform, keyring
<1>2. ASSUME NEW p \in Processes, FileFails(p) PROVE FreshFile'
  BY <1>2 DEF FileFails, Goes, platform, keyring
<1>3. ASSUME NEW p \in Processes, Crash(p) PROVE FreshFile'
  BY <1>3 DEF Crash, Goes, platform, keyring
<1>4. ASSUME NEW p \in Processes, Pair(p) PROVE FreshFile'
  BY <1>4 DEF Pair, platform, keyring, process
<1>5. ASSUME NEW p \in Processes, ReadFile(p) PROVE FreshFile'
  BY <1>5 DEF ReadFile, Returns, Goes, platform, keyring
<1>6. ASSUME NEW p \in Processes, ReadNew(p) PROVE FreshFile'
  BY <1>6 DEF ReadNew, Returns, Goes, platform, keyring
<1>7. ASSUME NEW p \in Processes, ReadOld(p) PROVE FreshFile'
  BY <1>7 DEF ReadOld, Mints, Goes, platform, keyring
<1>8. ASSUME NEW p \in Processes, CopyEntry(p) PROVE FreshFile'
  BY <1>8 DEF CopyEntry, Goes, platform
<1>9. ASSUME NEW p \in Processes, StoreMinted(p) PROVE FreshFile'
  BY <1>9 DEF StoreMinted, Goes, platform
<1>10. ASSUME NEW p \in Processes, DeleteOld(p) PROVE FreshFile'
  BY <1>10 DEF DeleteOld, Goes, platform
<1>11. ASSUME NEW p \in Processes, Throws(p) PROVE FreshFile'
  BY <1>11 DEF Throws, Goes, platform
<1>12. ASSUME NEW p \in Processes, Recheck(p) PROVE FreshFile'
  BY <1>12 DEF Recheck, Returns, Mints, Goes, platform, keyring
<1>13. ASSUME NEW p \in Processes, CheckPeers(p) PROVE FreshFile'
  BY <1>13 DEF CheckPeers, Mints, Goes, platform, keyring
<1>14. ASSUME NEW p \in Processes, OpenFile(p) PROVE FreshFile'
  BY <1>14 DEF OpenFile, Goes, platform, keyring
<1>15. ASSUME NEW p \in Processes, FillFile(p) PROVE FreshFile'
  BY <1>15 DEF FillFile, Goes, platform, keyring
<1>16. ASSUME NEW w \in late, Lands(w) PROVE FreshFile'
  BY <1>16 DEF Lands, platform, process
<1>17. ASSUME NEW r \in Rings, Lock(r) PROVE FreshFile'
  BY <1>17 DEF Lock, platform, process
<1>18. ASSUME NEW r \in Rings, Unlock(r) PROVE FreshFile'
  BY <1>18 DEF Unlock, platform, process
<1>19. CASE Revoke
  BY <1>19 DEF Revoke, platform, keyring, process
<1>20. CASE UNCHANGED vars
  BY <1>20 DEF vars, platform, keyring, process
<1> QED
  BY <1>1, <1>2, <1>3, <1>4, <1>5, <1>6, <1>7, <1>8, <1>9, <1>10, <1>11,
     <1>12, <1>13, <1>14, <1>15, <1>16, <1>17, <1>18, <1>19, <1>20 DEF
     Next, Resolve

LEMMA NextReliance ==
  ASSUME TrustInv, [Next]_vars
  PROVE  Reliance'
<1> USE BoundsAssumption DEF TrustInv, TypeOK, Numbered, FreshFile, Reliance, Relies, Stored, Identity, Calls
<1>1. ASSUME NEW p \in Processes, Start(p) PROVE Reliance'
  BY <1>1 DEF Start, Goes, platform, keyring
<1>2. ASSUME NEW p \in Processes, FileFails(p) PROVE Reliance'
  BY <1>2 DEF FileFails, Goes, platform, keyring
<1>3. ASSUME NEW p \in Processes, Crash(p) PROVE Reliance'
  BY <1>3 DEF Crash, Goes, platform, keyring
<1>4. ASSUME NEW p \in Processes, Pair(p) PROVE Reliance'
  BY <1>4 DEF Pair, platform, keyring, process
<1>5. ASSUME NEW p \in Processes, ReadFile(p) PROVE Reliance'
  BY <1>5 DEF ReadFile, Returns, Goes, platform, keyring
<1>6. ASSUME NEW p \in Processes, ReadNew(p) PROVE Reliance'
  BY <1>6 DEF ReadNew, Returns, Goes, platform, keyring
<1>7. ASSUME NEW p \in Processes, ReadOld(p) PROVE Reliance'
  BY <1>7 DEF ReadOld, Mints, Goes, platform, keyring
<1>8. ASSUME NEW p \in Processes, CopyEntry(p) PROVE Reliance'
  BY <1>8 DEF CopyEntry, Disturbs, Goes, platform
<1>9. ASSUME NEW p \in Processes, StoreMinted(p) PROVE Reliance'
  BY <1>9 DEF StoreMinted, Disturbs, Goes, platform
<1>10. ASSUME NEW p \in Processes, DeleteOld(p) PROVE Reliance'
  BY <1>10 DEF DeleteOld, Disturbs, Goes, platform
<1>11. ASSUME NEW p \in Processes, Throws(p) PROVE Reliance'
  BY <1>11 DEF Throws, Goes, platform
<1>12. ASSUME NEW p \in Processes, Recheck(p) PROVE Reliance'
  BY <1>12 DEF Recheck, Returns, Mints, Goes, platform, keyring
<1>13. ASSUME NEW p \in Processes, CheckPeers(p) PROVE Reliance'
  <2>1. CASE paired # {}
    <3>1. Goes(p, "failed") /\ UNCHANGED <<key, minted>>
      BY <1>13, <2>1 DEF CheckPeers
    <3> QED
      BY <1>13, <3>1 DEF CheckPeers, Goes, platform, keyring
  <2>2. CASE paired = {}
    <3>1. force \/ trusted[p] = 0
      BY <1>13, <2>2 DEF CheckPeers
    <3>2. Mints(p, "open")
      BY <1>13, <2>2 DEF CheckPeers
    <3> QED
      BY <1>13, <3>1, <3>2 DEF CheckPeers, Mints, Goes, platform, keyring
  <2> QED
    BY <2>1, <2>2
<1>14. ASSUME NEW p \in Processes, OpenFile(p) PROVE Reliance'
  BY <1>14 DEF OpenFile, Disturbs, Goes, platform, keyring
<1>15. ASSUME NEW p \in Processes, FillFile(p) PROVE Reliance'
  BY <1>15 DEF FillFile, Disturbs, Goes, platform, keyring
<1>16. ASSUME NEW w \in late, Lands(w) PROVE Reliance'
  BY <1>16 DEF Lands, platform, process
<1>17. ASSUME NEW r \in Rings, Lock(r) PROVE Reliance'
  BY <1>17 DEF Lock, platform, process
<1>18. ASSUME NEW r \in Rings, Unlock(r) PROVE Reliance'
  BY <1>18 DEF Unlock, platform, process
<1>19. CASE Revoke
  BY <1>19 DEF Revoke, platform, keyring, process
<1>20. CASE UNCHANGED vars
  BY <1>20 DEF vars, platform, keyring, process
<1> QED
  BY <1>1, <1>2, <1>3, <1>4, <1>5, <1>6, <1>7, <1>8, <1>9, <1>10, <1>11,
     <1>12, <1>13, <1>14, <1>15, <1>16, <1>17, <1>18, <1>19, <1>20 DEF
     Next, Resolve

LEMMA InitTrust == Init => TrustInv
<1> SUFFICES ASSUME Init PROVE TrustInv
  OBVIOUS
<1>1. TypeOK
  BY InitType
<1>2. Numbered /\ FreshFile /\ Reliance
  BY <1>1 DEF Init, TypeOK, Numbered, FreshFile, Reliance, Relies, Calls
<1> QED
  BY <1>1, <1>2 DEF TrustInv

(* A process that finds a stored identity with owners never returns        *)
(* another, whatever its keyring does (storage.ts:356-432).                *)
THEOREM EstablishedIdentityWins == Spec => []PairedKeyWins
<1>1. Init => TrustInv
  BY InitTrust
<1>2. TrustInv /\ [Next]_vars => TrustInv'
  BY NextType, NextNumbered, NextFresh, NextReliance DEF TrustInv
<1>3. TrustInv => PairedKeyWins
  BY DEF TrustInv, Reliance, Relies, PairedKeyWins
<1> QED
  BY <1>1, <1>2, <1>3, PTL DEF Spec
=============================================================================
