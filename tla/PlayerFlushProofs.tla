-------------------------- MODULE PlayerFlushProofs --------------------------
(***************************************************************************)
(* Proofs about PlayerFlush, for any players, any wallets and any number   *)
(* of overlapping flushes, by the invariant FlushInv.                      *)
(***************************************************************************)
EXTENDS PlayerFlush, TLAPS

(* Laying snapshots over one another keeps their type, and leaves None     *)
(* only where both have it.                                                *)
LEMMA OverType ==
    ASSUME NEW S, None \notin S,
           NEW new \in [Players -> S \cup {None}], NEW old \in [Players -> S \cup {None}]
    PROVE  /\ Over(new, old) \in [Players -> S \cup {None}]
           /\ old \in [Players -> S] => Over(new, old) \in [Players -> S]
           /\ \A p \in Players : Over(new, old)[p] = IF new[p] # None THEN new[p] ELSE old[p]
  BY DEF Over

(* Snapshots holds the wallets of exactly the dirty players                *)
LEMMA SnapshotsType ==
    ASSUME FlushTypeOK
    PROVE  /\ Snapshots \in [Players -> Wallets \cup {None}]
           /\ \A p \in dirty : Snapshots[p] = wallet[p] /\ Snapshots[p] # None
           /\ \A p \in Players \ dirty : Snapshots[p] = None
  BY FlushAssumption DEF Snapshots, FlushTypeOK

LEMMA NothingType ==
    /\ Nothing \in [Players -> Wallets \cup {None}]
    /\ \A p \in Players : Nothing[p] = None
  BY DEF Nothing

(* The wallets that the last FlushDirty leaves in the database             *)
LEMMA LastFlushType ==
    ASSUME FlushTypeOK
    PROVE  LastFlush \in [Players -> Wallets]
<1>1. CASE dirty = {}
  BY <1>1 DEF LastFlush, FlushTypeOK
<1>2. CASE dirty # {}
  <2>1. Over(marked, saved) \in [Players -> Wallets]
    BY OverType, FlushAssumption DEF FlushTypeOK
  <2>2. Over(Snapshots, Over(marked, saved)) \in [Players -> Wallets]
    BY <2>1, OverType, SnapshotsType, FlushAssumption
  <2> QED BY <1>2, <2>2 DEF LastFlush
<1> QED BY <1>1, <1>2

LEMMA InitFlushInv ==
    FlushInit => FlushInv
  BY NothingType, FlushAssumption DEF FlushInit, FlushInv, FlushTypeOK, Newest

LEMMA ChangeKeeps ==
    ASSUME FlushInv, NEW S \in SUBSET Players, Change(S)
    PROVE  FlushInv'
<1>1. FlushTypeOK'
  BY DEF FlushInv, FlushTypeOK, Change
<1>2. \A f \in Flushers : call'[f] # "save" => batch'[f] = Nothing
  BY DEF FlushInv, Change
<1>3. ASSUME NEW p \in Players \ overtaken PROVE Newest(p)'
  BY FlushAssumption DEF FlushInv, FlushTypeOK, Change, Newest
<1> QED BY <1>1, <1>2, <1>3 DEF FlushInv, Change, Nothing

LEMMA MarkKeeps ==
    ASSUME FlushInv, NEW f \in Flushers, FlushMark(f)
    PROVE  FlushInv'
<1>0. FlushTypeOK /\ dirty \subseteq Players
  BY DEF FlushInv, FlushTypeOK
<1>1. /\ marked' \in [Players -> Wallets \cup {None}]
      /\ \A p \in dirty : marked'[p] = wallet[p] /\ marked'[p] # None
      /\ \A p \in Players \ dirty : marked'[p] = marked[p]
  BY <1>0, OverType, SnapshotsType, FlushAssumption DEF FlushMark, FlushTypeOK
<1>2. FlushTypeOK'
  BY <1>0, <1>1 DEF FlushTypeOK, FlushMark
<1>3. \A g \in Flushers : call'[g] # "save" => batch'[g] = Nothing
  BY <1>0 DEF FlushInv, FlushTypeOK, FlushMark
<1>4. ASSUME NEW p \in Players \ overtaken PROVE Newest(p)'
  <2>1. Newest(p)
    BY DEF FlushInv
  <2>2. CASE p \in dirty
    BY <2>1, <2>2, <1>1 DEF Newest, FlushMark
  <2>3. CASE p \notin dirty
    BY <2>1, <2>3, <1>1 DEF Newest, FlushMark
  <2> QED BY <2>2, <2>3
<1> QED BY <1>2, <1>3, <1>4 DEF FlushInv, FlushMark, Nothing

LEMMA TakeKeeps ==
    ASSUME FlushInv, NEW f \in Flushers, FlushTake(f)
    PROVE  FlushInv'
<1>0. FlushTypeOK /\ batch[f] = Nothing
  BY DEF FlushInv, FlushTake
<1>1. /\ marked' = Nothing
      /\ batch' = [batch EXCEPT ![f] = marked]
      /\ UNCHANGED <<wallet, saved, dirty>>
  BY DEF FlushTake
<1>2. FlushTypeOK'
  BY <1>0, NothingType DEF FlushTypeOK, FlushTake
<1>3. \A g \in Flushers : call'[g] # "save" => batch'[g] = Nothing
  <2> TAKE g \in Flushers
  <2>1. CASE g = f
    BY <2>1, <1>0, <1>1 DEF FlushTake, FlushTypeOK
  <2>2. CASE g # f
    BY <2>2, <1>0, <1>1 DEF FlushInv, FlushTake, FlushTypeOK
  <2> QED BY <2>1, <2>2
<1>4. ASSUME NEW p \in Players \ overtaken' PROVE Newest(p)'
  <2>1. /\ p \in Players \ overtaken
        /\ marked[p] # None => \A g \in Flushers \ {f} : batch[g][p] = None
    BY DEF FlushTake
  <2>2. Newest(p) /\ batch[f][p] = None /\ marked'[p] = None
    BY <2>1, <1>0, <1>1, NothingType DEF FlushInv
  <2>3. /\ batch'[f][p] = marked[p]
        /\ \A g \in Flushers \ {f} : batch'[g][p] = batch[g][p]
    BY <1>0, <1>1 DEF FlushTypeOK
  <2>4. CASE marked[p] # None
    BY <2>1, <2>2, <2>3, <2>4, <1>1 DEF Newest
  <2>5. CASE marked[p] = None
    <3>1. \A g \in Flushers : batch'[g][p] = batch[g][p]
      BY <2>2, <2>3, <2>5
    <3> QED BY <2>2, <2>5, <3>1, <1>1 DEF Newest
  <2> QED BY <2>4, <2>5
<1> QED BY <1>2, <1>3, <1>4 DEF FlushInv, Nothing

(* A call whose transaction has ended has no snapshots left                *)
LEMMA EndedCall ==
    ASSUME FlushInv, NEW f \in Flushers,
           call' = [call EXCEPT ![f] = "idle"],
           batch' = [batch EXCEPT ![f] = Nothing]
    PROVE  /\ call' \in [Flushers -> {"idle", "take", "save"}]
           /\ batch' \in [Flushers -> [Players -> Wallets \cup {None}]]
           /\ \A g \in Flushers : call'[g] # "save" => batch'[g] = Nothing
           /\ \A p \in Players : batch'[f][p] = None
           /\ \A g \in Flushers \ {f} : batch'[g] = batch[g]
  BY NothingType DEF FlushInv, FlushTypeOK

LEMMA CommitKeeps ==
    ASSUME FlushInv, NEW f \in Flushers, FlushCommit(f)
    PROVE  FlushInv'
<1>0. FlushTypeOK
  BY DEF FlushInv
<1>1. /\ saved' \in [Players -> Wallets]
      /\ \A p \in Players : saved'[p] = IF batch[f][p] # None THEN batch[f][p] ELSE saved[p]
  BY <1>0, OverType, FlushAssumption DEF FlushTypeOK, FlushCommit
<1>2. /\ call' \in [Flushers -> {"idle", "take", "save"}]
      /\ batch' \in [Flushers -> [Players -> Wallets \cup {None}]]
      /\ \A g \in Flushers : call'[g] # "save" => batch'[g] = Nothing
      /\ \A p \in Players : batch'[f][p] = None
      /\ \A g \in Flushers \ {f} : batch'[g] = batch[g]
  BY EndedCall DEF FlushCommit
<1>3. FlushTypeOK'
  BY <1>0, <1>1, <1>2 DEF FlushTypeOK, FlushCommit
<1>4. ASSUME NEW p \in Players \ overtaken PROVE Newest(p)'
  <2>1. Newest(p)
    BY DEF FlushInv
  <2>2. UNCHANGED <<wallet, dirty, marked>>
    BY DEF FlushCommit
  <2>3. CASE batch[f][p] # None
    BY <2>1, <2>2, <2>3, <1>1, <1>2 DEF Newest
  <2>4. CASE batch[f][p] = None
    BY <2>1, <2>2, <2>4, <1>1, <1>2 DEF Newest
  <2> QED BY <2>3, <2>4
<1> QED BY <1>2, <1>3, <1>4 DEF FlushInv, FlushCommit, Nothing

LEMMA RestoreKeeps ==
    ASSUME FlushInv, NEW f \in Flushers, RestoreDirty(f)
    PROVE  FlushInv'
<1>0. FlushTypeOK
  BY DEF FlushInv
<1>1. /\ marked' \in [Players -> Wallets \cup {None}]
      /\ \A p \in Players : marked'[p] = IF marked[p] # None THEN marked[p] ELSE batch[f][p]
  BY <1>0, OverType, FlushAssumption DEF FlushTypeOK, RestoreDirty
<1>2. /\ call' \in [Flushers -> {"idle", "take", "save"}]
      /\ batch' \in [Flushers -> [Players -> Wallets \cup {None}]]
      /\ \A g \in Flushers : call'[g] # "save" => batch'[g] = Nothing
      /\ \A p \in Players : batch'[f][p] = None
      /\ \A g \in Flushers \ {f} : batch'[g] = batch[g]
  BY EndedCall DEF RestoreDirty
<1>3. FlushTypeOK'
  BY <1>0, <1>1, <1>2 DEF FlushTypeOK, RestoreDirty
<1>4. ASSUME NEW p \in Players \ overtaken PROVE Newest(p)'
  <2>1. Newest(p)
    BY DEF FlushInv
  <2>2. UNCHANGED <<wallet, saved, dirty>>
    BY DEF RestoreDirty
  <2>3. CASE marked[p] # None \/ batch[f][p] = None
    <3>1. marked'[p] = marked[p]
      BY <2>3, <1>1
    <3> QED BY <2>1, <2>2, <2>3, <3>1, <1>2 DEF Newest
  <2>4. CASE marked[p] = None /\ batch[f][p] # None
    BY <2>1, <2>2, <2>4, <1>1, <1>2 DEF Newest
  <2> QED BY <2>3, <2>4
<1> QED BY <1>2, <1>3, <1>4 DEF FlushInv, RestoreDirty, Nothing

(* With every call at rest the flusher and the database hold, of a player  *)
(* who is not dirty, the wallet.                                           *)
LEMMA ReloadIsWallet ==
    ASSUME FlushInv, Reload, NEW p \in Players \ overtaken, dirty # {} \/ marked[p] = None
    PROVE  LastFlush[p] = wallet[p]
<1>0. FlushTypeOK /\ Newest(p) /\ \A f \in Flushers : batch[f][p] = None
  BY NothingType DEF FlushInv, Reload
<1>1. p \notin dirty /\ marked[p] = None => saved[p] = wallet[p]
  BY <1>0 DEF Newest
<1>2. CASE dirty = {}
  BY <1>1, <1>2 DEF LastFlush
<1>3. CASE dirty # {}
  <2>1. Over(marked, saved) \in [Players -> Wallets]
    BY <1>0, OverType, FlushAssumption DEF FlushTypeOK
  <2>2. Over(marked, saved)[p] = IF marked[p] # None THEN marked[p] ELSE saved[p]
    BY DEF Over
  <2>3. LastFlush[p] = IF p \in dirty THEN wallet[p] ELSE Over(marked, saved)[p]
    BY <1>0, <1>3, <2>1, OverType, SnapshotsType, FlushAssumption DEF LastFlush
  <2>4. p \notin dirty /\ marked[p] # None => marked[p] = wallet[p]
    BY <1>0 DEF Newest
  <2> QED BY <1>1, <2>2, <2>3, <2>4
<1> QED BY <1>2, <1>3

LEMMA ReloadKeepsInv ==
    ASSUME FlushInv, Reload
    PROVE  FlushInv'
<1>1. FlushTypeOK'
  BY LastFlushType, NothingType DEF FlushInv, FlushTypeOK, Reload
<1>2. \A f \in Flushers : batch'[f] = Nothing
  BY DEF FlushInv, Reload
<1>3. ASSUME NEW p \in Players PROVE Newest(p)'
  BY <1>2, NothingType DEF Newest, Reload
<1> QED BY <1>1, <1>2, <1>3 DEF FlushInv, Nothing

LEMMA StepFlushInv ==
    FlushInv /\ [FlushNext]_flushVars => FlushInv'
<1> SUFFICES ASSUME FlushInv, [FlushNext]_flushVars PROVE FlushInv'
  OBVIOUS
<1>1. CASE \E S \in SUBSET Players : Change(S)
  BY <1>1, ChangeKeeps
<1>2. CASE \E f \in Flushers : FlushMark(f) \/ FlushTake(f) \/ FlushCommit(f) \/ RestoreDirty(f)
  BY <1>2, MarkKeeps, TakeKeeps, CommitKeeps, RestoreKeeps
<1>3. CASE Reload
  BY <1>3, ReloadKeepsInv
<1>4. CASE UNCHANGED flushVars
  BY <1>4 DEF flushVars, FlushInv, FlushTypeOK, Newest, Nothing
<1> QED BY <1>1, <1>2, <1>3, <1>4 DEF FlushNext

(* FlushInv holds in every state, whichever flushes overlap and fail       *)
THEOREM FlushInvariant == FlushSpec => []FlushInv
  BY InitFlushInv, StepFlushInv, PTL DEF FlushSpec

(* No change of a wallet is forgotten by PlayerRepo and PlayerFlusher: the *)
(* restoreDirty of a failed flush and the flushes of other cells keep      *)
(* track of it, unless two transactions hold the same player.              *)
THEOREM UnsavedIsAlwaysTracked == FlushSpec => []UnsavedIsTracked
<1>1. FlushInv => UnsavedIsTracked
  BY DEF FlushInv, Newest, UnsavedIsTracked
<1> QED BY <1>1, FlushInvariant, PTL

(* A clean stop followed by LoadAll gives every wallet back, but for what  *)
(* a failed flush put back with nobody dirty afterwards.                   *)
THEOREM StopKeepsWallets == FlushSpec => ReloadKeeps
<1>1. FlushInv /\ [FlushNext]_flushVars =>
        [Reload => \A p \in Players \ overtaken :
            dirty # {} \/ marked[p] = None => wallet'[p] = wallet[p]]_flushVars
  BY ReloadIsWallet DEF Reload
<1> QED BY <1>1, FlushInvariant, PTL DEF FlushSpec, ReloadKeeps
=============================================================================
