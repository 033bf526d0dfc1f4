------------------------- MODULE QueueTokensProofs --------------------------
(***************************************************************************)
(* Theorems about QueueTokens for any managers, pairs and tokens, any      *)
(* budget and both fairness modes.                                         *)
(***************************************************************************)
EXTENDS QueueTokens, FiniteSetTheorems, TLAPS

(* The parts of the type invariant the argument needs. *)
SlotTypes ==
  /\ active \in [Managers -> SUBSET Tokens]
  /\ grant \in [Managers -> SUBSET Tokens]
  /\ fill \in [Managers -> BOOLEAN]

(* Leases in flight count against the budget: what a statement asked for   *)
(* fits beside the tokens that were active then, and only fillInProgress   *)
(* has a statement in flight.                                              *)
SlotsCounted ==
  \A m \in Managers :
    /\ Cardinality(active[m]) + Cardinality(grant[m]) <= Budget
    /\ ~fill[m] => grant[m] = {}

BudgetInv == SlotTypes /\ SlotsCounted

(* Cardinality on subsets of Tokens. *)
LEMMA TokenSets ==
  ASSUME NEW S \in SUBSET Tokens, NEW T \in SUBSET Tokens
  PROVE  /\ Cardinality(S) \in Nat
         /\ Cardinality(S \cup T) <= Cardinality(S) + Cardinality(T)
         /\ \A t : Cardinality(S \ {t}) <= Cardinality(S)
         /\ Cardinality({}) = 0
<1>1. IsFiniteSet(S) /\ IsFiniteSet(T)
  BY TokensAssumption, FS_Subset
<1>2. /\ Cardinality(S) \in Nat /\ Cardinality(T) \in Nat
      /\ Cardinality(S \cap T) \in Nat
  BY <1>1, FS_CardinalityType, FS_Intersection
<1>3. Cardinality(S \cup T) = Cardinality(S) + Cardinality(T) - Cardinality(S \cap T)
  BY <1>1, FS_Union
<1>4. ASSUME NEW t PROVE Cardinality(S \ {t}) <= Cardinality(S)
  <2>1. S \ {t} \subseteq S
    OBVIOUS
  <2> QED BY <1>1, <2>1, FS_Subset
<1>5. Cardinality({}) = 0
  BY FS_EmptySet
<1> QED BY <1>2, <1>3, <1>4, <1>5

LEMMA BudgetInvInit == Init => BudgetInv
<1> SUFFICES ASSUME Init PROVE BudgetInv
  OBVIOUS
<1>1. Cardinality({}) = 0
  BY FS_EmptySet
<1> QED BY <1>1, BudgetAssumption DEF Init, BudgetInv, SlotTypes, SlotsCounted

(* Both callers of fillSlots keep the count. *)
LEMMA FillKeepsCount ==
  ASSUME BudgetInv, NEW m \in Managers, HasRoom(m), FillSlots(m), UNCHANGED active
  PROVE  BudgetInv'
<1>1. PICK T \in SUBSET FreeTokens : \E f \in [T -> Pairs], time \in AppClock :
        /\ Selected(f, time, Budget - Cardinality(active[m]))
        /\ grant' = [grant EXCEPT ![m] = @ \cup T]
  BY DEF FillSlots
<1>2. Cardinality(T) <= Budget - Cardinality(active[m])
  BY <1>1 DEF Selected
<1>3. T \in SUBSET Tokens /\ grant[m] = {}
  BY DEF FreeTokens, HasRoom, BudgetInv, SlotsCounted
<1>4. Cardinality(active[m]) \in Nat /\ Cardinality(T) \in Nat
  BY <1>3, TokenSets DEF BudgetInv, SlotTypes
<1>5. grant' = [grant EXCEPT ![m] = T]
  BY <1>1, <1>3 DEF BudgetInv, SlotTypes
<1>6. SlotTypes'
  BY <1>3, <1>5 DEF BudgetInv, SlotTypes, FillSlots
<1>7. Cardinality(active[m]) + Cardinality(T) <= Budget
  BY <1>2, <1>4, BudgetAssumption
<1>8. fill' = [fill EXCEPT ![m] = TRUE]
  BY DEF FillSlots
<1>9. SlotsCounted'
  BY <1>5, <1>7, <1>8 DEF BudgetInv, SlotTypes, SlotsCounted
<1> QED BY <1>6, <1>9 DEF BudgetInv

LEMMA BudgetInvNext == BudgetInv /\ [Next]_vars => BudgetInv'
<1> SUFFICES ASSUME BudgetInv, [Next]_vars PROVE BudgetInv'
  OBVIOUS
<1> USE DEF leaseVars, cycleVars, stopVars, historyVars
<1>1. ASSUME UNCHANGED <<active, grant, fill>> PROVE BudgetInv'
  BY <1>1 DEF BudgetInv, SlotTypes, SlotsCounted
<1>0. \A k \in Managers : /\ Cardinality(active[k]) \in Nat /\ Cardinality(grant[k]) \in Nat
                          /\ Cardinality({}) = 0
  BY TokenSets DEF BudgetInv, SlotTypes
<1>2. ASSUME NEW m \in Managers, Poll(m) PROVE BudgetInv'
  <2>1. CASE HasRoom(m) /\ FillSlots(m)
    BY <1>2, <2>1, FillKeepsCount DEF Poll
  <2>2. CASE UNCHANGED <<leaseVars, fill, historyVars>>
    BY <1>1, <1>2, <2>2 DEF Poll
  <2> QED BY <1>2, <2>1, <2>2 DEF Poll
<1>3. ASSUME NEW m \in Managers, Refill(m) PROVE BudgetInv'
  <2>1. CASE HasRoom(m) /\ FillSlots(m)
    BY <1>3, <2>1, FillKeepsCount DEF Refill
  <2>2. CASE UNCHANGED <<leaseVars, fill, historyVars>>
    BY <1>1, <1>3, <2>2 DEF Refill
  <2> QED BY <1>3, <2>1, <2>2 DEF Refill
<1>4. ASSUME NEW m \in Managers, TokensLeased(m) PROVE BudgetInv'
  <2>1. /\ active' = [active EXCEPT ![m] = active[m] \cup grant[m]]
        /\ grant' = [grant EXCEPT ![m] = {}] /\ fill' = [fill EXCEPT ![m] = FALSE]
    BY <1>4 DEF TokensLeased, Answered, BudgetInv, SlotTypes
  <2>2. SlotTypes'
    BY <2>1 DEF BudgetInv, SlotTypes
  <2>3. Cardinality(active[m] \cup grant[m]) <= Cardinality(active[m]) + Cardinality(grant[m])
    BY TokenSets DEF BudgetInv, SlotTypes
  <2>4. Cardinality(active[m] \cup grant[m]) \in Nat
    BY TokenSets DEF BudgetInv, SlotTypes
  <2>5. SlotsCounted'
    BY <1>0, <2>1, <2>3, <2>4, BudgetAssumption DEF BudgetInv, SlotTypes, SlotsCounted
  <2> QED BY <2>2, <2>5 DEF BudgetInv
<1>5. ASSUME NEW m \in Managers, LeaseFailed(m) PROVE BudgetInv'
  BY <1>0, <1>5, BudgetAssumption
  DEF LeaseFailed, Answered, BudgetInv, SlotTypes, SlotsCounted
<1>6. ASSUME NEW m \in Managers, Crash(m) PROVE BudgetInv'
  BY <1>0, <1>6, BudgetAssumption DEF Crash, BudgetInv, SlotTypes, SlotsCounted
<1>7. ASSUME NEW m \in Managers, NEW t \in Tokens, ReleaseToken(m, t) PROVE BudgetInv'
  <2>1. /\ active' = [active EXCEPT ![m] = active[m] \ {t}]
        /\ UNCHANGED <<grant, fill>>
    BY <1>7 DEF ReleaseToken, BudgetInv, SlotTypes
  <2>2. SlotTypes'
    BY <2>1 DEF BudgetInv, SlotTypes
  <2>3. /\ Cardinality(active[m] \ {t}) <= Cardinality(active[m])
        /\ Cardinality(active[m] \ {t}) \in Nat
    BY TokenSets DEF BudgetInv, SlotTypes
  <2>4. SlotsCounted'
    BY <1>0, <2>1, <2>3, BudgetAssumption DEF BudgetInv, SlotTypes, SlotsCounted
  <2> QED BY <2>2, <2>4 DEF BudgetInv
<1>8. ASSUME NEW m \in Managers,
             EndCycle(m) \/ Stop(m) \/ StopReturns(m) \/ StopTimesOut(m)
      PROVE  BudgetInv'
  BY <1>1, <1>8 DEF EndCycle, Stop, StopReturns, StopTimesOut
<1>9. ASSUME NEW m \in Managers, NEW t \in Tokens,
             ClaimMessages(m, t) \/ HandlersReturn(m, t) \/ RenewLease(m, t)
      PROVE  BudgetInv'
  BY <1>1, <1>9 DEF ClaimMessages, HandlersReturn, RenewLease
<1>10. ASSUME NEW p \in Pairs, Arrive(p) PROVE BudgetInv'
  BY <1>1, <1>10 DEF Arrive
<1>11. CASE Tick \/ UNCHANGED vars
  BY <1>1, <1>11 DEF Tick, vars
<1> QED BY <1>2, <1>3, <1>4, <1>5, <1>6, <1>7, <1>8, <1>9, <1>10, <1>11 DEF Next

(* No interleaving of polling cycle, refill timer, answers and releases    *)
(* makes a manager exceed its tier's budget.                               *)
THEOREM BudgetIsRespected == Spec => []BudgetRespected
<1>1. BudgetInv => BudgetRespected
  <2> SUFFICES ASSUME BudgetInv, NEW m \in Managers PROVE Cardinality(active[m]) <= Budget
    BY DEF BudgetRespected
  <2>1. Cardinality(active[m]) \in Nat /\ Cardinality(grant[m]) \in Nat
    BY TokenSets DEF BudgetInv, SlotTypes
  <2> QED BY <2>1, BudgetAssumption DEF BudgetInv, SlotsCounted
<1> QED BY <1>1, BudgetInvInit, BudgetInvNext, PTL DEF Spec

-----------------------------------------------------------------------------
(* Pairs                                                                     *)

(* The tokens a manager works under, or has a statement in flight for. *)
Held(m) == active[m] \cup grant[m]

LeaseTypes ==
  /\ clock \in Int
  /\ pair \in [Tokens -> Pairs \cup {None}]
  /\ until \in [Tokens -> Int \cup {None}]
  /\ lapsed \in BOOLEAN /\ raced \in BOOLEAN

(* A token belongs to one manager, which has it once. *)
HeldOnce ==
  \A m \in Managers :
    /\ active[m] \cap grant[m] = {}
    /\ \A k \in Managers : k # m => Held(m) \cap Held(k) = {}

(* Nobody deletes the row of a token in use. *)
HeldExist == \A m \in Managers : \A t \in Held(m) : until[t] # None

(* The rows in flight count too: the next answer makes them active. *)
PairHeldOnce ==
  Fair /\ ~lapsed =>
    \A m \in Managers : \A t, u \in Held(m) : pair[t] = pair[u] => t = u

(* Across managers, while their lease statements do not overlap. *)
PairHeldApart ==
  Fair /\ ~lapsed /\ ~raced =>
    \A m, n \in Managers : \A t \in Held(m), u \in Held(n) : pair[t] = pair[u] => t = u

PairInv == LeaseTypes /\ HeldOnce /\ HeldExist /\ PairHeldOnce /\ PairHeldApart

LEMMA PairInvInit == Init => PairInv
<1> SUFFICES ASSUME Init PROVE PairInv
  OBVIOUS
<1>1. LeaseTypes
  <2>1. lapsed \in BOOLEAN /\ raced \in BOOLEAN BY Zenon DEF Init
  <2>2. clock \in Int BY DEF Init
  <2>3. pair \in [Tokens -> Pairs \cup {None}] /\ until \in [Tokens -> Int \cup {None}] BY Zenon DEF Init
  <2> QED BY <2>1, <2>2, <2>3 DEF LeaseTypes
<1>2. \A m \in Managers : active[m] = {} /\ grant[m] = {} /\ Held(m) = {} BY DEF Init, Held
<1> QED BY <1>1, <1>2 DEF PairInv, HeldOnce, HeldExist, PairHeldOnce, PairHeldApart

(* A step that gives no manager a token, and changes no token that is held *)
(* afterwards.                                                             *)
LEMMA NothingTaken ==
  ASSUME PairInv, BudgetInv, SlotTypes', LeaseTypes',
         \A m \in Managers : Held(m)' \subseteq Held(m) /\ (active[m] \cap grant[m])' = {},
         \A m \in Managers : \A t \in Held(m)' : pair'[t] = pair[t] /\ until'[t] # None,
         lapsed' = lapsed, raced' = raced
  PROVE  PairInv'
<1>1. HeldOnce' BY DEF PairInv, HeldOnce
<1>2. HeldExist' BY DEF HeldExist
<1>3. PairHeldOnce'
  <2> SUFFICES ASSUME Fair, ~lapsed, NEW m \in Managers, NEW t \in Held(m)', NEW u \in Held(m)',
                      pair'[t] = pair'[u]
               PROVE  t = u
    BY DEF PairHeldOnce
  <2>1. t \in Held(m) /\ u \in Held(m) /\ pair[t] = pair[u] OBVIOUS
  <2> QED BY <2>1 DEF PairInv, PairHeldOnce
<1>4. PairHeldApart'
  <2> SUFFICES ASSUME Fair, ~lapsed, ~raced, NEW m \in Managers, NEW n \in Managers,
                      NEW t \in Held(m)', NEW u \in Held(n)', pair'[t] = pair'[u]
               PROVE  t = u
    BY DEF PairHeldApart
  <2>1. t \in Held(m) /\ u \in Held(n) /\ pair[t] = pair[u] OBVIOUS
  <2> QED BY <2>1 DEF PairInv, PairHeldApart
<1> QED BY <1>1, <1>2, <1>3, <1>4 DEF PairInv

(* What the statement selects: no pair twice, and no pair that has a token *)
(* whose lease runs.                                                       *)
LEMMA SelectedOnce ==
  ASSUME Fair, NEW T \in SUBSET FreeTokens, NEW f \in [T -> Pairs], NEW time, NEW limit,
         Selected(f, time, limit)
  PROVE  /\ \A t, u \in T : f[t] = f[u] => t = u
         /\ \A t \in T : ~Leased(f[t], time)
<1>1. ASSUME NEW p \in Pairs
      PROVE  /\ Count(f, p) = Cardinality({t \in T : f[t] = p})
             /\ Count(f, p) <= 1 /\ IsFiniteSet({t \in T : f[t] = p})
             /\ Leased(p, time) => Count(f, p) <= 0
  <2>1. Count(f, p) = Cardinality({t \in T : f[t] = p}) BY DEF Count
  <2>2. IsFiniteSet({t \in T : f[t] = p})
    <3>1. {t \in T : f[t] = p} \subseteq Tokens BY DEF FreeTokens
    <3> QED BY <3>1, TokensAssumption, FS_Subset
  <2>3. Count(f, p) <= Slots(p, time) BY DEF Selected
  <2>4. Count(f, p) \in Nat BY <2>1, <2>2, FS_CardinalityType
  <2>5. Slots(p, time) \in {0, 1} /\ (Leased(p, time) => Slots(p, time) = 0) BY DEF Slots
  <2> QED BY <2>1, <2>2, <2>3, <2>4, <2>5
<1>2. ASSUME NEW t \in T, NEW u \in T, f[t] = f[u], t # u PROVE FALSE
  <2> DEFINE S == {s \in T : f[s] = f[t]}
  <2>1. {t, u} \subseteq S BY <1>2
  <2>2. IsFiniteSet(S) /\ Cardinality(S) <= 1 BY <1>1
  <2>3. Cardinality({t, u}) = 2 /\ IsFiniteSet({t, u})
    <3>1. Cardinality({t}) = 1 /\ IsFiniteSet({t}) BY FS_Singleton
    <3>2. {t, u} = {t} \cup {u} /\ u \notin {t} BY <1>2
    <3>3. Cardinality({t} \cup {u}) = 1 + 1 /\ IsFiniteSet({t} \cup {u})
      BY <3>1, <3>2, FS_AddElement
    <3> QED BY <3>2, <3>3
  <2>4. Cardinality({t, u}) <= Cardinality(S) BY <2>1, <2>2, FS_Subset
  <2>5. Cardinality(S) \in Nat BY <2>2, FS_CardinalityType
  <2> HIDE DEF S
  <2> QED BY <2>2, <2>3, <2>4, <2>5
<1>3. ASSUME NEW t \in T, Leased(f[t], time) PROVE FALSE
  <2> DEFINE S == {s \in T : f[s] = f[t]}
  <2>1. t \in S OBVIOUS
  <2>2. IsFiniteSet(S) /\ Cardinality(S) <= 0 BY <1>1, <1>3
  <2>3. Cardinality(S) \in Nat BY <2>2, FS_CardinalityType
  <2>4. S = {} BY <2>2, <2>3, FS_EmptySet
  <2> QED BY <2>1, <2>4
<1> QED BY <1>2, <1>3

(* fillSlots up to its await, from the cycle or from the refill timer. *)
LEMMA FillTakesNewPairs ==
  ASSUME PairInv, BudgetInv, NEW m \in Managers, HasRoom(m), FillSlots(m), UNCHANGED <<active, clock>>
  PROVE  PairInv'
<1>0. PICK T \in SUBSET FreeTokens : \E f \in [T -> Pairs], time \in AppClock :
        /\ Selected(f, time, Budget - Cardinality(active[m]))
        /\ grant' = [grant EXCEPT ![m] = @ \cup T]
        /\ pair' = [t \in Tokens |-> IF t \in T THEN f[t] ELSE pair[t]]
        /\ until' = [t \in Tokens |-> IF t \in T THEN time + LockDuration ELSE until[t]]
        /\ lapsed' = (lapsed \/ \E t \in InUse : until[t] # None /\ until[t] <= time)
  BY DEF FillSlots
<1>1. PICK f \in [T -> Pairs], time \in AppClock :
        /\ Selected(f, time, Budget - Cardinality(active[m]))
        /\ grant' = [grant EXCEPT ![m] = @ \cup T]
        /\ pair' = [t \in Tokens |-> IF t \in T THEN f[t] ELSE pair[t]]
        /\ until' = [t \in Tokens |-> IF t \in T THEN time + LockDuration ELSE until[t]]
        /\ lapsed' = (lapsed \/ \E t \in InUse : until[t] # None /\ until[t] <= time)
  BY <1>0
<1>2. /\ active \in [Managers -> SUBSET Tokens] /\ grant \in [Managers -> SUBSET Tokens]
      /\ clock \in Int /\ pair \in [Tokens -> Pairs \cup {None}]
      /\ until \in [Tokens -> Int \cup {None}] /\ grant[m] = {} /\ LockDuration \in Int
      /\ HeldOnce /\ HeldExist
  BY TimesAssumption DEF BudgetInv, SlotTypes, SlotsCounted, HasRoom, PairInv, LeaseTypes
<1>3. time \in Int BY <1>2, TimesAssumption DEF AppClock
<1>4. /\ T \subseteq Tokens
      /\ \A k \in Managers : T \cap Held(k) = {}
  BY <1>1 DEF FreeTokens, InFlight, InUse, Held
<1>5. /\ Held(m)' = active[m] \cup T /\ grant'[m] = T
      /\ \A k \in Managers \ {m} : Held(k)' = Held(k) /\ grant'[k] = grant[k]
  BY <1>1, <1>2 DEF Held
<1>6. Held(m) = active[m] BY <1>2 DEF Held
<1>7. \A k \in Managers : \A t \in Held(k) : t \in Tokens /\ pair'[t] = pair[t] /\ until'[t] = until[t]
  BY <1>1, <1>2, <1>4 DEF Held
<1>8. \A t \in T : pair'[t] = f[t] /\ until'[t] = time + LockDuration BY <1>1, <1>4
<1>9. \A t \in T : until'[t] \in Int BY <1>2, <1>3, <1>8
<1>10. LeaseTypes'
  <2>1. lapsed' \in BOOLEAN BY <1>1, Zenon
  <2>2. raced' \in BOOLEAN BY Zenon DEF FillSlots
  <2> QED BY <1>1, <1>2, <1>3, <2>1, <2>2 DEF LeaseTypes
<1>11. HeldOnce'
  <2>1. \A k \in Managers : active[k] \subseteq Held(k) BY DEF Held
  <2>2. ASSUME NEW k \in Managers PROVE (active[k] \cap grant[k])' = {}
    BY <1>2, <1>4, <1>5, <2>1 DEF HeldOnce
  <2>3. ASSUME NEW k \in Managers, NEW l \in Managers, k # l PROVE Held(k)' \cap Held(l)' = {}
    BY <1>2, <1>4, <1>5, <1>6, <2>3 DEF HeldOnce
  <2> QED BY <2>2, <2>3 DEF HeldOnce
<1>12. HeldExist'
  <2>1. None \notin Int BY TokensAssumption
  <2> QED BY <1>2, <1>5, <1>6, <1>7, <1>9, <2>1 DEF HeldExist
<1>13. PairHeldOnce'
  <2> SUFFICES ASSUME Fair, ~lapsed', NEW k \in Managers, NEW t \in Held(k)', NEW u \in Held(k)',
                      pair'[t] = pair'[u]
               PROVE  t = u
    BY DEF PairHeldOnce
  <2>1. ~lapsed /\ \A s \in InUse : until[s] # None => ~(until[s] <= time) BY <1>1, Zenon
  <2>2. ASSUME NEW k2 \in Managers, NEW s \in Held(k2), NEW v \in Held(k2), pair[s] = pair[v]
        PROVE  s = v
    BY <2>1, <2>2 DEF PairInv, PairHeldOnce
  <2>3. /\ \A s, v \in T : f[s] = f[v] => s = v
        /\ \A s \in T : ~Leased(f[s], time)
    BY <1>1, SelectedOnce
  <2>4. ASSUME NEW s \in active[m] PROVE Leased(pair[s], time)
    <3>1. s \in Tokens /\ s \in InUse /\ s \in Held(m) BY <1>2 DEF InUse, Held
    <3>2. s \notin InFlight BY <1>2, <3>1 DEF HeldOnce, Held, InFlight
    <3>3. until[s] # None /\ until[s] \in Int BY <1>2, <3>1 DEF HeldExist
    <3>4. until[s] > time BY <1>3, <2>1, <3>1, <3>3
    <3> QED BY <3>1, <3>2, <3>3, <3>4 DEF Leased
  <2>5. CASE k # m BY <1>5, <1>7, <2>2, <2>5
  <2>6. CASE k = m
    <3>1. t \in active[m] \cup T /\ u \in active[m] \cup T BY <1>5, <2>6
    <3>2. CASE t \in T /\ u \in T BY <1>8, <2>3, <3>2
    <3>3. CASE t \in active[m] /\ u \in active[m] BY <1>6, <1>7, <2>2, <3>3
    <3>4. CASE t \in T /\ u \in active[m]
      <4>1. f[t] = pair[u] BY <1>6, <1>7, <1>8, <3>4
      <4> QED BY <2>3, <2>4, <3>4, <4>1
    <3>5. CASE t \in active[m] /\ u \in T
      <4>1. f[u] = pair[t] BY <1>6, <1>7, <1>8, <3>5
      <4> QED BY <2>3, <2>4, <3>5, <4>1
    <3> QED BY <3>1, <3>2, <3>3, <3>4, <3>5
  <2> QED BY <2>5, <2>6
<1>14. PairHeldApart'
  <2> SUFFICES ASSUME Fair, ~lapsed', ~raced', NEW k \in Managers, NEW l \in Managers,
                      NEW t \in Held(k)', NEW u \in Held(l)', pair'[t] = pair'[u]
               PROVE  t = u
    BY DEF PairHeldApart
  <2>1. ~lapsed /\ \A s \in InUse : until[s] # None => ~(until[s] <= time) BY <1>1, Zenon
  <2>2. ~raced /\ \A n \in Managers \ {m} : ~fill[n] BY Zenon DEF FillSlots
  <2>3. \A n \in Managers : grant[n] = {} /\ Held(n) = active[n]
    BY <1>2, <1>6, <2>2 DEF BudgetInv, SlotsCounted, Held
  <2>4. ASSUME NEW k2 \in Managers, NEW l2 \in Managers, NEW s \in Held(k2), NEW v \in Held(l2),
               pair[s] = pair[v]
        PROVE  s = v
    BY <2>1, <2>2, <2>4 DEF PairInv, PairHeldApart
  <2>5. /\ \A s, v \in T : f[s] = f[v] => s = v
        /\ \A s \in T : ~Leased(f[s], time)
    BY <1>1, SelectedOnce
  <2>6. ASSUME NEW n \in Managers, NEW s \in Held(n) PROVE Leased(pair[s], time)
    <3>1. s \in Tokens /\ s \in InUse BY <1>2, <2>3 DEF InUse
    <3>2. s \notin InFlight BY <2>3 DEF InFlight
    <3>3. until[s] # None /\ until[s] \in Int BY <1>2, <3>1 DEF HeldExist
    <3>4. until[s] > time BY <1>3, <2>1, <3>1, <3>3
    <3> QED BY <3>1, <3>2, <3>3, <3>4 DEF Leased
  <2>7. \A n \in Managers : \A s \in Held(n)' : s \in Held(n) \/ s \in T
    BY <1>5, <1>6
  <2>8. CASE t \in T /\ u \in T BY <1>8, <2>5, <2>8
  <2>9. CASE t \in Held(k) /\ u \in Held(l) BY <1>7, <2>4, <2>9
  <2>10. CASE t \in T /\ u \in Held(l)
    <3>1. f[t] = pair[u] BY <1>7, <1>8, <2>10
    <3> QED BY <2>5, <2>6, <2>10, <3>1
  <2>11. CASE t \in Held(k) /\ u \in T
    <3>1. f[u] = pair[t] BY <1>7, <1>8, <2>11
    <3> QED BY <2>5, <2>6, <2>11, <3>1
  <2> QED BY <2>7, <2>8, <2>9, <2>10, <2>11
<1> QED BY <1>10, <1>11, <1>12, <1>13, <1>14 DEF PairInv

LEMMA PairInvNext == PairInv /\ BudgetInv /\ [Next]_vars => PairInv'
<1> SUFFICES ASSUME PairInv, BudgetInv, [Next]_vars PROVE PairInv'
  OBVIOUS
<1> USE DEF leaseVars, cycleVars, stopVars, historyVars
<1>0. /\ active \in [Managers -> SUBSET Tokens] /\ grant \in [Managers -> SUBSET Tokens]
      /\ clock \in Int /\ pair \in [Tokens -> Pairs \cup {None}]
      /\ until \in [Tokens -> Int \cup {None}] /\ lapsed \in BOOLEAN /\ raced \in BOOLEAN
      /\ HeldOnce /\ HeldExist
  BY DEF BudgetInv, SlotTypes, PairInv, LeaseTypes
<1>1. SlotTypes'
  BY BudgetInvNext DEF BudgetInv
<1>2. ASSUME UNCHANGED <<active, grant, pair, until, historyVars>>, clock' \in Int PROVE PairInv'
  BY <1>2 DEF PairInv, LeaseTypes, HeldOnce, HeldExist, PairHeldOnce, PairHeldApart, Held
<1>3. ASSUME NEW m \in Managers, Poll(m) \/ Refill(m) PROVE PairInv'
  <2>1. CASE HasRoom(m) /\ FillSlots(m)
    BY <1>3, <2>1, FillTakesNewPairs DEF Poll, Refill
  <2>2. CASE UNCHANGED <<leaseVars, fill, historyVars>>
    BY <1>0, <1>2, <1>3, <2>2 DEF Poll, Refill
  <2> QED BY <1>3, <2>1, <2>2 DEF Poll, Refill
<1>4. ASSUME NEW m \in Managers, TokensLeased(m) PROVE PairInv'
  <2>1. /\ active' = [active EXCEPT ![m] = @ \cup grant[m]] /\ grant' = [grant EXCEPT ![m] = {}]
        /\ UNCHANGED <<clock, pair, until, historyVars>>
    BY <1>4 DEF TokensLeased, Answered
  <2>2. LeaseTypes' BY <1>0, <2>1 DEF LeaseTypes
  <2>3. ASSUME NEW k \in Managers PROVE Held(k)' = Held(k) /\ (active[k] \cap grant[k])' = {}
    BY <1>0, <2>1 DEF Held, HeldOnce
  <2> QED BY <1>0, <1>1, <2>1, <2>2, <2>3, NothingTaken DEF HeldExist
<1>5. ASSUME NEW m \in Managers, LeaseFailed(m) \/ Crash(m) PROVE PairInv'
  <2>1. /\ \/ active' = active
           \/ active' = [active EXCEPT ![m] = {}]
        /\ grant' = [grant EXCEPT ![m] = {}]
        /\ \/ until' = until
           \/ until' = [t \in Tokens |-> IF t \in grant[m] THEN None ELSE until[t]]
        /\ UNCHANGED <<clock, pair, historyVars>>
    BY <1>5 DEF LeaseFailed, Answered, Crash
  <2>2. LeaseTypes' BY <1>0, <2>1 DEF LeaseTypes
  <2>3. ASSUME NEW k \in Managers
        PROVE  /\ Held(k)' \subseteq Held(k) /\ (active[k] \cap grant[k])' = {}
               /\ Held(k)' \cap grant[m] = {}
    <3>1. /\ active'[k] \subseteq active[k] /\ grant'[k] \subseteq grant[k]
          /\ k = m => grant'[k] = {}
      BY <1>0, <2>1
    <3> QED BY <1>0, <3>1 DEF Held, HeldOnce
  <2>4. ASSUME NEW k \in Managers, NEW t \in Held(k)' PROVE until'[t] = until[t]
    BY <1>0, <2>1, <2>3 DEF Held
  <2> QED BY <1>0, <1>1, <2>1, <2>2, <2>3, <2>4, NothingTaken DEF HeldExist
<1>6. ASSUME NEW m \in Managers, NEW t \in Tokens, RenewLease(m, t) PROVE PairInv'
  <2>1. PICK time \in AppClock : until' = [until EXCEPT ![t] = time + LockDuration]
    BY <1>6 DEF RenewLease
  <2>2. UNCHANGED <<clock, active, grant, pair, historyVars>> BY <1>6 DEF RenewLease
  <2>3. time + LockDuration \in Int BY <1>0, TimesAssumption DEF AppClock
  <2>4. LeaseTypes' BY <1>0, <2>1, <2>2, <2>3 DEF LeaseTypes
  <2>5. \A k \in Managers : Held(k)' = Held(k) /\ (active[k] \cap grant[k])' = {} /\ Held(k) \subseteq Tokens
    BY <1>0, <2>2 DEF Held, HeldOnce
  <2>6. ASSUME NEW k \in Managers, NEW s \in Held(k)' PROVE until'[s] # None
    <3>1. s \in Tokens /\ until[s] # None BY <1>0, <2>5 DEF HeldExist
    <3>2. CASE s = t BY <1>0, <2>1, <2>3, <3>2, TokensAssumption
    <3>3. CASE s # t BY <1>0, <2>1, <3>1, <3>3
    <3> QED BY <3>2, <3>3
  <2> QED BY <1>1, <2>2, <2>4, <2>5, <2>6, NothingTaken
<1>7. ASSUME NEW m \in Managers, NEW t \in Tokens, ReleaseToken(m, t) PROVE PairInv'
  <2>1. /\ t \in active[m] /\ until' = [until EXCEPT ![t] = None] /\ pair' = [pair EXCEPT ![t] = None]
        /\ active' = [active EXCEPT ![m] = @ \ {t}] /\ UNCHANGED <<clock, grant, historyVars>>
    BY <1>7 DEF ReleaseToken
  <2>2. LeaseTypes' BY <1>0, <2>1 DEF LeaseTypes
  <2>3. ASSUME NEW k \in Managers
        PROVE  /\ Held(k)' \subseteq Held(k) /\ (active[k] \cap grant[k])' = {}
               /\ t \notin Held(k)'
    <3>1. CASE k = m BY <1>0, <2>1, <3>1 DEF Held, HeldOnce
    <3>2. CASE k # m BY <1>0, <2>1, <3>2 DEF Held, HeldOnce
    <3> QED BY <3>1, <3>2
  <2>4. ASSUME NEW k \in Managers, NEW s \in Held(k)'
        PROVE  pair'[s] = pair[s] /\ until'[s] = until[s]
    BY <1>0, <2>1, <2>3 DEF Held
  <2> QED BY <1>0, <1>1, <2>1, <2>2, <2>3, <2>4, NothingTaken DEF HeldExist
<1>8. ASSUME NEW m \in Managers,
             EndCycle(m) \/ Stop(m) \/ StopReturns(m) \/ StopTimesOut(m)
      PROVE  PairInv'
  BY <1>0, <1>2, <1>8 DEF EndCycle, Stop, StopReturns, StopTimesOut
<1>9. ASSUME NEW m \in Managers, NEW t \in Tokens,
             ClaimMessages(m, t) \/ HandlersReturn(m, t)
      PROVE  PairInv'
  BY <1>0, <1>2, <1>9 DEF ClaimMessages, HandlersReturn
<1>10. ASSUME NEW p \in Pairs, Arrive(p) PROVE PairInv' BY <1>0, <1>2, <1>10 DEF Arrive
<1>11. CASE Tick \/ UNCHANGED vars BY <1>0, <1>2, <1>11 DEF Tick, vars
<1> QED BY <1>3, <1>4, <1>5, <1>6, <1>7, <1>8, <1>9, <1>10, <1>11 DEF Next

(* In fairness mode "workspace" no manager works on a pair under two       *)
(* tokens, however cycle, refills, answers and releases interleave, as     *)
(* long as no statement met an active token whose lease had run out.       *)
THEOREM PairsAreTakenOnce == Spec => []PairTakenOnce
<1>1. PairInv => PairTakenOnce
  <2> SUFFICES ASSUME PairInv PROVE PairTakenOnce
    OBVIOUS
  <2>1. \A m \in Managers : active[m] \subseteq Held(m) BY DEF Held
  <2> QED BY <2>1 DEF PairInv, PairHeldOnce, PairTakenOnce
<1> QED BY <1>1, PairInvInit, PairInvNext, BudgetInvInit, BudgetInvNext, PTL DEF Spec

(* Across managers too: the lease of an active token excludes its pair     *)
(* from every statement that starts when no other is in flight, and a      *)
(* crash, a lost answer or a release never sets a pair free that somebody  *)
(* works on.                                                               *)
THEOREM PairsAreTakenApart == Spec => []PairTakenApart
<1>1. PairInv => PairTakenApart
  <2> SUFFICES ASSUME PairInv PROVE PairTakenApart
    OBVIOUS
  <2>1. \A t \in InUse : \E m \in Managers : t \in Held(m) BY DEF InUse, Held
  <2> QED BY <2>1 DEF PairInv, PairHeldApart, PairTakenApart
<1> QED BY <1>1, PairInvInit, PairInvNext, BudgetInvInit, BudgetInvNext, PTL DEF Spec
=============================================================================
