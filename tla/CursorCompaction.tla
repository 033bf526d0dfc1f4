-------------------------- MODULE CursorCompaction --------------------------
(***************************************************************************)
(* The pure part of the outbox cursor: compact() and hasUnfilledGaps() of  *)
(* packages/backend-common/src/outbox/cursor-lock.ts.                      *)
(*                                                                         *)
(* A window is what the code calls ProcessedIdsMap: the ids handled above  *)
(* the base cursor with the time (readAt) at which each was recorded.  It  *)
(* is a function on all ids that is None where the map has no entry.       *)
(* compact() expires entries and pulls the base cursor up to the largest   *)
(* expired id; its callers differ only in which entries they let expire,   *)
(* so that choice is a parameter here.                                     *)
(***************************************************************************)
EXTENDS Integers, FiniteSetsExt

CONSTANTS
  MaxId,  \* bound: ids the sequence hands out
  None    \* SQL NULL, or a key that a map does not have

(* A time is never mistaken for None. *)
ASSUME NoneAssumption == None \notin Int
ASSUME MaxIdAssumption == MaxId \in Nat

Ids == 1..MaxId

(* ProcessedIdsMap and CompactState. *)
Windows == [Ids -> Int \cup {None}]
CompactState == [cursor : 0..MaxId, window : Windows]

(* The map with no entries, and the keys of a map. *)
NoEntries == [i \in Ids |-> None]
Tracked(window) == {i \in Ids : window[i] # None}

(* Step 1: newly handled ids enter the window stamped with the current     *)
(* time; an id that is already there is stamped again.                     *)
Merge(window, newIds, now) == [i \in Ids |-> IF i \in newIds THEN now ELSE window[i]]

(* Step 2, the time condition: entries at least gapWindow old. *)
Aged(window, now, gapWindow) == {i \in Tracked(window) : window[i] <= now - gapWindow}

(* Step 2, the liveness proof: entries recorded before every transaction   *)
(* that is running now began, with an allowance for clock skew.            *)
Proven(window, oldestStart, skewPad) ==
  {i \in Tracked(window) : window[i] < oldestStart - skewPad}

(* Step 5: the end of the run of consecutive members of ids above base. *)
ContiguousEnd(base, ids) ==
  Max({n \in ids \cup {base} : n >= base /\ (base + 1)..n \subseteq ids})

(* Steps 3 to 5: raise the cursor to the largest expired entry, walk on    *)
(* through consecutive entries, and drop every entry the cursor covers.    *)
Advance(cursor, window, expired) ==
  LET newBase == Max({cursor} \cup expired)
      end     == ContiguousEnd(newBase, {i \in Tracked(window) : i > newBase})
  IN  [cursor |-> end, window |-> [i \in Ids |-> IF i > end THEN window[i] ELSE None]]

(* compact() without liveness information: age alone expires an entry. *)
CompactByAge(cursor, window, now, gapWindow) ==
  Advance(cursor, window, Aged(window, now, gapWindow))

(* compact() with a liveness proof and no ceiling. *)
CompactProven(cursor, window, now, gapWindow, oldestStart, skewPad) ==
  Advance(cursor, window,
          Aged(window, now, gapWindow) \cap Proven(window, oldestStart, skewPad))

(* compact() with a liveness proof, waived for entries past the ceiling. *)
CompactGuarded(cursor, window, now, gapWindow, oldestStart, skewPad, ceiling) ==
  Advance(cursor, window,
          Aged(window, now, gapWindow)
            \cap (Proven(window, oldestStart, skewPad) \cup Aged(window, now, ceiling)))

(* The tracked ids do not form one run that starts right above the cursor. *)
HasUnfilledGaps(cursor, ids) ==
  \E i \in ids : i > cursor /\ ~((cursor + 1)..i \subseteq ids)
=============================================================================
