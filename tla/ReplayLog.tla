------------------------------ MODULE ReplayLog ------------------------------
(***************************************************************************)
(* What a workspace's sync log promises to the clients that replay it: ids  *)
(* are handed out without a gap, an id that has been handed out stays       *)
(* readable until retention removes it, and the retention floor tells the   *)
(* reader about every id that was removed. SyncLog.tla is shown to          *)
(* implement this module, SyncClient.tla is built on it.                    *)
(***************************************************************************)
EXTENDS Integers

CONSTANTS
  MinKeep,    \* the newest entries that retention never removes
  MaxAppend   \* the most entries one transaction appends

ASSUME ReplayLogAssumption == MinKeep \in Nat \ {0} /\ MaxAppend \in Nat

VARIABLES
  head,       \* the last id handed out, 0 when there is none
  floor,      \* retained_from: the highest id ever pruned, 0 when there is none
  retained    \* the ids whose entry is still in the table

logVars == <<head, floor, retained>>

LogTypeOK ==
  /\ head \in Nat
  /\ floor \in Nat
  /\ retained \in SUBSET (1..head)

LogInit ==
  /\ head = 0
  /\ floor = 0
  /\ retained = {}

\* appendForWorkspace, seen from outside: n entries with the next n ids.
AppendEntries(n) ==
  /\ head' = head + n
  /\ retained' = retained \cup ((head + 1)..(head + n))
  /\ UNCHANGED floor

\* pruneExpiredEntries, seen from outside: some entries below the newest
\* MinKeep go, and the floor rises to the highest of them in the same statement.
PruneEntries(victims) ==
  /\ victims # {}
  /\ victims \subseteq {s \in retained : s <= head - MinKeep}
  /\ retained' = retained \ victims
  /\ \E top \in victims :
       /\ \A s \in victims : s <= top
       /\ floor' = IF top > floor THEN top ELSE floor
  /\ UNCHANGED head

LogNext ==
  \/ \E n \in 1..MaxAppend : AppendEntries(n)
  \/ \E victims \in SUBSET retained : PruneEntries(victims)

LogSpec == LogInit /\ [][LogNext]_logVars

(***************************************************************************)
(* Every id above the floor that was handed out can still be read: a        *)
(* reader whose cursor is not below the floor misses nothing.               *)
(***************************************************************************)
FloorSound == (floor + 1)..head \subseteq retained
=============================================================================
