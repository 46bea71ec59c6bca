----------------------------- MODULE PlayerFlush -----------------------------
(***************************************************************************)
(* PlayerRepo and PlayerFlusher of examples/space: the wallets (currencies *)
(* and banks) of the players in memory, and how changes of them reach the  *)
(* database.  Every change marks its player dirty; the loop of each cell   *)
(* calls FlushDirty now and then, and so does the process when it stops.   *)
(* Several calls may overlap: the repo's mutex covers the marking, the     *)
(* flusher's mutex the taking, and the transaction runs outside both.      *)
(***************************************************************************)
CONSTANTS
    Players,
    Flushers,    \* the loops that call FlushDirty, at most one call each
    Wallets,     \* the contents a wallet may have
    None         \* no snapshot

ASSUME FlushAssumption == None \notin Wallets

VARIABLES
    wallet,      \* PlayerData of each player
    saved,       \* its row in the database
    dirty,       \* PlayerRepo.dirty
    marked,      \* PlayerFlusher.dirtyGameState, None when there is no entry
    call,        \* where each FlushDirty call is
    batch,       \* the snapshots of its transaction
    overtaken    \* history: players with snapshots in two transactions at once

flushVars == <<wallet, saved, dirty, marked, call, batch, overtaken>>

Nothing == [p \in Players |-> None]

(* Snapshots of new where there are any, and otherwise those of old        *)
Over(new, old) == [p \in Players |-> IF new[p] # None THEN new[p] ELSE old[p]]

(* What FlushDirty copies of the players that are dirty                    *)
Snapshots == [p \in Players |-> IF p \in dirty THEN wallet[p] ELSE None]

FlushInit ==
    /\ wallet \in [Players -> Wallets]
    /\ saved = wallet
    /\ dirty = {}
    /\ marked = Nothing
    /\ call = [f \in Flushers |-> "idle"]
    /\ batch = [f \in Flushers |-> Nothing]
    /\ overtaken = {}

(* ModifyBank or ModifyCurrency, and MarkDirty, for the players of S       *)
Change(S) ==
    /\ wallet' \in [Players -> Wallets]
    /\ \A p \in Players \ S : wallet'[p] = wallet[p]
    /\ dirty' = dirty \cup S
    /\ UNCHANGED <<saved, marked, call, batch, overtaken>>

(* FlushDirty under PlayerRepo.mu: snapshots of the dirty players.  With   *)
(* nobody dirty it returns at once.                                        *)
FlushMark(f) ==
    /\ call[f] = "idle"
    /\ dirty # {}
    /\ marked' = Over(Snapshots, marked)
    /\ dirty' = {}
    /\ call' = [call EXCEPT ![f] = "take"]
    /\ UNCHANGED <<wallet, saved, batch, overtaken>>

(* Flush under PlayerFlusher.mu: take every snapshot, of other calls too   *)
FlushTake(f) ==
    /\ call[f] = "take"
    /\ call' = [call EXCEPT ![f] = IF marked = Nothing THEN "idle" ELSE "save"]
    /\ batch' = [batch EXCEPT ![f] = marked]
    /\ marked' = Nothing
    /\ overtaken' = overtaken \cup
          {p \in Players : marked[p] # None /\ \E g \in Flushers \ {f} : batch[g][p] # None}
    /\ UNCHANGED <<wallet, saved, dirty>>

(* The transaction commits                                                 *)
FlushCommit(f) ==
    /\ call[f] = "save"
    /\ saved' = Over(batch[f], saved)
    /\ call' = [call EXCEPT ![f] = "idle"]
    /\ batch' = [batch EXCEPT ![f] = Nothing]
    /\ UNCHANGED <<wallet, dirty, marked, overtaken>>

(* The transaction fails and its snapshots are put back, but not over      *)
(* newer ones.                                                             *)
RestoreDirty(f) ==
    /\ call[f] = "save"
    /\ marked' = Over(marked, batch[f])
    /\ call' = [call EXCEPT ![f] = "idle"]
    /\ batch' = [batch EXCEPT ![f] = Nothing]
    /\ UNCHANGED <<wallet, saved, dirty, overtaken>>

(* The last FlushDirty of a clean stop.  With nobody dirty it returns at   *)
(* once, also when a failed flush has put snapshots back.                  *)
LastFlush == IF dirty = {} THEN saved ELSE Over(Snapshots, Over(marked, saved))

(* A clean stop, when every loop has ended, and LoadAll of the next start  *)
Reload ==
    /\ \A f \in Flushers : call[f] = "idle"
    /\ saved' = LastFlush
    /\ wallet' = LastFlush
    /\ dirty' = {}
    /\ marked' = Nothing
    /\ overtaken' = {}
    /\ UNCHANGED <<call, batch>>

FlushNext ==
    \/ \E S \in SUBSET Players : Change(S)
    \/ \E f \in Flushers : FlushMark(f) \/ FlushTake(f) \/ FlushCommit(f) \/ RestoreDirty(f)
    \/ Reload

FlushSpec == FlushInit /\ [][FlushNext]_flushVars

----------------------------------------------------------------------------
FlushTypeOK ==
    /\ wallet \in [Players -> Wallets]
    /\ saved \in [Players -> Wallets]
    /\ dirty \in SUBSET Players
    /\ marked \in [Players -> Wallets \cup {None}]
    /\ call \in [Flushers -> {"idle", "take", "save"}]
    /\ batch \in [Flushers -> [Players -> Wallets \cup {None}]]
    /\ overtaken \in SUBSET Players

(* A wallet that differs from its row is known to be unsaved: it is dirty, *)
(* has a snapshot waiting in the flusher, or one in a transaction, also    *)
(* when flushes of several cells overlap and some of them fail.  Only two  *)
(* snapshots of one player in two transactions at once may break it.       *)
UnsavedIsTracked ==
    \A p \in Players \ overtaken :
        saved[p] # wallet[p] =>
            \/ p \in dirty
            \/ marked[p] # None
            \/ \E f \in Flushers : batch[f][p] # None

(* A clean stop and start keeps the wallets, except those of a failed      *)
(* flush: a snapshot that was put back is saved only if somebody is dirty  *)
(* at the last FlushDirty.                                                 *)
ReloadKeeps ==
    [][Reload => \A p \in Players \ overtaken :
           dirty # {} \/ marked[p] = None => wallet'[p] = wallet[p]]_flushVars

----------------------------------------------------------------------------
(* Why: the newest snapshot of a player who is not dirty is the wallet. It *)
(* is in the flusher, or else in the only transaction that has one, or     *)
(* else in the database.                                                   *)

Newest(p) ==
    /\ p \notin dirty /\ marked[p] # None => marked[p] = wallet[p]
    /\ \A f \in Flushers :
          p \notin dirty /\ marked[p] = None /\ batch[f][p] # None => batch[f][p] = wallet[p]
    /\ p \notin dirty /\ marked[p] = None /\ (\A f \in Flushers : batch[f][p] = None) =>
          saved[p] = wallet[p]
    /\ \A f, g \in Flushers : batch[f][p] # None /\ batch[g][p] # None => f = g

FlushInv ==
    /\ FlushTypeOK
    /\ \A f \in Flushers : call[f] # "save" => batch[f] = Nothing
    /\ \A p \in Players \ overtaken : Newest(p)
=============================================================================
