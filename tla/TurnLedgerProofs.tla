-------------------------- MODULE TurnLedgerProofs --------------------------
(***************************************************************************)
(* Proofs about the usage ledger's turns, for any number of admissions,    *)
(* requests and limits: the hour's count keeps to its limit, a turn that   *)
(* waits for the gate passes it counted, and a turn is charged once, a     *)
(* refused one never.                                                      *)
(***************************************************************************)
EXTENDS TurnLedger, FiniteSetTheorems, TLAPS

\* An admission past the lock holds it.
InTransaction(a) == admission[a].at \in {"suspension", "sums", "fleet", "insert"}
HoldsLock == \A a \in Admission : InTransaction(a) => lock = a

\* Between its read of the sums and its commit nobody else counts a turn.
RoomRead == \A a \in Admission : admission[a].at \in {"fleet", "insert"} => turns < PerHour

Inv == TypeOK /\ HoldsLock /\ RoomRead /\ RateHolds

USE DEF Idle, Turn, Counters, At, Asked, Goes

LEMMA InvInits == Init => Inv
  BY Bounds, NullIsNone DEF Init, Inv, TypeOK, HoldsLock, InTransaction, RoomRead, RateHolds

LEMMA BeginKeeps ==
    ASSUME Inv, NEW a \in Admission, NEW r \in Request, Begin(a, r)
    PROVE  Inv'
  BY NullIsNone, Bounds DEF Inv, TypeOK, HoldsLock, InTransaction, RoomRead, RateHolds, Begin

LEMMA LockKeeps ==
    ASSUME Inv, NEW a \in Admission, Lock(a)
    PROVE  Inv'
  BY NullIsNone, Bounds DEF Inv, TypeOK, HoldsLock, InTransaction, RoomRead, RateHolds, Lock

LEMMA OutwaitedKeeps ==
    ASSUME Inv, NEW a \in Admission, Outwaited(a)
    PROVE  Inv'
<1> DEFINE waits == [at : {"lock", "suspension", "sums", "fleet", "insert"},
                     request : Request, awaited : BOOLEAN]
<1>1. admission[a] \in waits /\ Asked(a) \in Request
  BY DEF Inv, TypeOK, Outwaited
<1>2. admission[a].at \in {"lock", "suspension", "sums", "fleet", "insert"}
  BY <1>1
<1>3. [admission[a] EXCEPT !.awaited = FALSE] \in waits
  BY <1>1
<1>4. /\ admission' = [admission EXCEPT ![a] = [admission[a] EXCEPT !.awaited = FALSE]]
      /\ [admission[a] EXCEPT !.awaited = FALSE].at = admission[a].at
  BY <1>1 DEF Outwaited
<1>5. \A x \in Admission : InTransaction(x)' <=> InTransaction(x)
  BY <1>1, <1>4 DEF Inv, TypeOK, InTransaction
<1>6. \A x \in Admission : admission'[x].at = admission[x].at
  BY <1>1, <1>4 DEF Inv, TypeOK
<1>7. TypeOK'
  BY <1>1, <1>3, <1>4 DEF Inv, TypeOK, Outwaited
<1>8. QED
  BY <1>5, <1>6, <1>7 DEF Inv, HoldsLock, RoomRead, RateHolds, Outwaited

LEMMA RefusedKeeps ==
    ASSUME Inv, NEW a \in Admission, admission[a].at # "idle", Refused(a)
    PROVE  Inv'
  BY NullIsNone, Bounds DEF Inv, TypeOK, HoldsLock, InTransaction, RoomRead, RateHolds, Refused

LEMMA ReadsKeep ==
    ASSUME Inv, NEW a \in Admission, ReadSuspension(a) \/ ReadSums(a) \/ ReadFleet(a)
    PROVE  Inv'
<1>1. CASE Refused(a)
  BY <1>1, RefusedKeeps DEF ReadSuspension, ReadSums, ReadFleet
<1>2. CASE ~Refused(a)
  <2>1. PICK pc \in {"sums", "fleet", "insert"} :
          /\ Passes(a, pc) /\ InTransaction(a)
          /\ pc = "fleet" => turns < PerHour
          /\ pc = "insert" => At(a, "fleet")
    BY <1>2, Bounds DEF Inv, TypeOK, ReadSuspension, ReadSums, ReadFleet, InTransaction
  <2>2. QED
    BY <2>1, NullIsNone, Bounds
       DEF Inv, TypeOK, HoldsLock, InTransaction, RoomRead, RateHolds, Passes
<1>3. QED
  BY <1>1, <1>2

\* The one step that counts: only the holder of the lock is past its read.
LEMMA InsertKeeps ==
    ASSUME Inv, NEW a \in Admission, Insert(a)
    PROVE  Inv'
<1>1. Asked(a) \in Request /\ turns < PerHour /\ lock = a
  BY NullIsNone DEF Inv, TypeOK, HoldsLock, InTransaction, RoomRead, Insert
<1>2. TypeOK'
  BY <1>1, NullIsNone DEF Inv, TypeOK, Insert, Count
<1>3. HoldsLock' /\ RoomRead'
  BY <1>1 DEF Inv, TypeOK, HoldsLock, InTransaction, RoomRead, Insert
<1>4. RateHolds'
  BY <1>1, Bounds DEF Inv, TypeOK, RateHolds, Insert, Count
<1>5. QED
  BY <1>2, <1>3, <1>4 DEF Inv

LEMMA SettleKeeps ==
    ASSUME Inv, NEW r \in Turn, NEW insert \in BOOLEAN, Settle(r, insert)
    PROVE  Inv'
  BY Bounds DEF Inv, TypeOK, HoldsLock, InTransaction, RoomRead, RateHolds, Settle

LEMMA InvSteps == Inv /\ [Next]_vars => Inv'
<1> SUFFICES ASSUME Inv, [Next]_vars PROVE Inv'
  OBVIOUS
<1>1. ASSUME NEW a \in Admission, NEW r \in Request, Begin(a, r) PROVE Inv'
  BY <1>1, BeginKeeps
<1>2. ASSUME NEW a \in Admission, Step(a) PROVE Inv'
  BY <1>2, LockKeeps, ReadsKeep, InsertKeeps DEF Step
<1>3. ASSUME NEW a \in Admission, Fail(a) PROVE Inv'
  BY <1>3, RefusedKeeps DEF Fail
<1>4. ASSUME NEW r \in Turn, TurnEnd(r) \/ AbnormalEnd(r) PROVE Inv'
  BY <1>4, SettleKeeps DEF TurnEnd, AbnormalEnd
<1>5. CASE Elsewhere
  BY <1>5 DEF Elsewhere, Inv, TypeOK, HoldsLock, InTransaction, RoomRead, RateHolds
<1>6. CASE UNCHANGED vars
  BY <1>6 DEF vars, Inv, TypeOK, HoldsLock, InTransaction, RoomRead, RateHolds
<1>7. ASSUME NEW a \in Admission, Outwaited(a) PROVE Inv'
  BY <1>7, OutwaitedKeeps
<1>8. QED
  BY <1>1, <1>2, <1>3, <1>4, <1>5, <1>6, <1>7 DEF Next

LEMMA Invariant == Spec => []Inv
<1>1. Init => Inv
  BY InvInits
<1>2. Inv /\ [Next]_vars => Inv'
  BY InvSteps
<1>3. QED
  BY <1>1, <1>2, PTL DEF Spec

\* Every reachable state has its types.
THEOREM TurnTypes == Spec => []TypeOK
<1>1. Inv => TypeOK
  BY DEF Inv
<1>2. QED
  BY <1>1, Invariant, PTL

\* The hour's count keeps to its limit, whatever number of hosts admit turns side by
\* side: store.ts admit, between its lock and its commit.
THEOREM RateIsKept == Spec => []RateHolds
<1>1. Inv => RateHolds
  BY DEF Inv
<1>2. QED
  BY <1>1, Invariant, PTL

\* A step that touches a turn's row settles it and charges it, or counts it.
LEMMA ChargeSteps ==
    ASSUME TypeOK, ChargedOnce, [Next]_vars
    PROVE  ChargedOnce'
<1>1. ASSUME NEW r \in Turn, NEW insert \in BOOLEAN, Settle(r, insert) PROVE ChargedOnce'
  BY <1>1 DEF TypeOK, ChargedOnce, Settle, Claims
<1>2. ASSUME NEW a \in Admission, Insert(a) PROVE ChargedOnce'
  BY <1>2, NullIsNone DEF TypeOK, ChargedOnce, Insert, Count
<1>3. CASE UNCHANGED <<row, charges>>
  BY <1>3 DEF ChargedOnce
<1>4. (UNCHANGED <<row, charges>>) \/ (\E a \in Admission : Insert(a))
        \/ (\E r \in Turn, insert \in BOOLEAN : Settle(r, insert))
  BY DEF Next, vars, Step, Begin, Outwaited, Lock, ReadSuspension, ReadSums, ReadFleet, Fail, Refused,
         Passes, Elsewhere, TurnEnd, AbnormalEnd
<1>5. QED
  BY <1>1, <1>2, <1>3, <1>4

\* A turn is charged once between its turn-end, its error and its end: store.ts
\* settleTurn, over any number of them in any order.
THEOREM ChargesOnce == Spec => []ChargedOnce
<1>1. Init => ChargedOnce
  BY DEF Init, ChargedOnce
<1>2. TypeOK /\ ChargedOnce /\ [Next]_vars => ChargedOnce'
  BY ChargeSteps
<1>3. QED
  BY <1>1, <1>2, TurnTypes, PTL DEF Spec

-----------------------------------------------------------------------------
\* The requests that have a row.
Known == {r \in Request : row[r] # "absent"}

\* A set of requests that were counted: each of them has its row, and so does every
\* request that has one unless its turn did not wait for the gate.  A turn-end inserts
\* a row only for a turn that was let through, and that has one, or for a skipped one.
Counts(C) ==
  /\ IsFiniteSet(C) /\ turns = Cardinality(C)
  /\ C \subseteq Known
  /\ Known \subseteq C \union skipped /\ let \subseteq C \union skipped

CountInv == \E C \in SUBSET Request : Counts(C)

LEMMA InitCounts == Init => CountInv
<1> SUFFICES ASSUME Init PROVE CountInv
  OBVIOUS
<1>1. Known = {} /\ turns = 0 /\ let = {}
  BY DEF Init, Known
<1>2. Counts({})
  BY <1>1, FS_EmptySet DEF Counts
<1>3. QED
  BY <1>2 DEF CountInv

LEMMA InsertCounts ==
    ASSUME TypeOK, CountInv, NEW a \in Admission, Insert(a)
    PROVE  CountInv'
<1>1. PICK r \in Request : r = Asked(a)
  BY NullIsNone DEF TypeOK, Insert
<1>2. let' \subseteq let \union {r} /\ Count(r) /\ skipped' = skipped
  BY <1>1 DEF Insert
<1>3. PICK C \in SUBSET Request : Counts(C)
  BY DEF CountInv
<1>4. Known' = Known \union {r}
  BY <1>1, <1>2 DEF TypeOK, Known, Count
<1>5. CASE r \in Known
  <2>1. turns' = turns
    BY <1>1, <1>2, <1>5 DEF Known, Count
  <2>2. Counts(C)'
    BY <1>2, <1>3, <1>4, <1>5, <2>1 DEF Counts
  <2>3. QED
    BY <2>2 DEF CountInv
<1>6. CASE r \notin Known
  <2> DEFINE D == C \union {r}
  <2>1. r \notin C /\ turns' = turns + 1
    BY <1>1, <1>2, <1>3, <1>6 DEF Known, Count, Counts
  <2>2. IsFiniteSet(D) /\ Cardinality(D) = Cardinality(C) + 1
    BY <1>3, <2>1, FS_AddElement DEF Counts
  <2>3. Counts(D)'
    BY <1>2, <1>3, <1>4, <2>1, <2>2 DEF Counts
  <2>4. QED
    BY <1>1, <2>3 DEF CountInv
<1>7. QED
  BY <1>5, <1>6

\* A charge gives a row only to a turn that did not wait for the gate.
LEMMA SettleCounts ==
    ASSUME TypeOK, CountInv, NEW r \in Turn, TurnEnd(r) \/ AbnormalEnd(r)
    PROVE  CountInv'
<1>1. PICK C \in SUBSET Request : Counts(C)
  BY DEF CountInv
<1>2. UNCHANGED <<turns, let, skipped>>
  BY DEF TurnEnd, AbnormalEnd, Settle
<1>3. UNCHANGED row \/ row' = [row EXCEPT ![r] = "settled"]
  BY DEF TurnEnd, AbnormalEnd, Settle
<1>4. let \subseteq Known \union skipped
  BY <1>1 DEF Counts
<1>5. UNCHANGED row \/ r \in Known \union skipped \union Unasked
  BY <1>4 DEF TurnEnd, AbnormalEnd, Settle, Claims, Known
<1>6. CASE UNCHANGED row
  <2>1. Known' = Known
    BY <1>6 DEF Known
  <2>2. Counts(C)'
    BY <1>1, <1>2, <2>1 DEF Counts
  <2>3. QED
    BY <2>2 DEF CountInv
<1>7. CASE row' = [row EXCEPT ![r] = "settled"] /\ r \in Known \union skipped \union Unasked
  <2>1. \A x \in Request : row'[x] = IF x = r THEN "settled" ELSE row[x]
    BY <1>7 DEF TypeOK
  <2>2. \A x \in Request : x = r => x \in Known \union skipped
    BY <1>7, Apart
  <2>3. Known \subseteq Known' /\ Known' \subseteq Known \union skipped
    BY <2>1, <2>2 DEF Known
  <2>4. Counts(C)'
    BY <1>1, <1>2, <2>3 DEF Counts
  <2>5. QED
    BY <2>4 DEF CountInv
<1>8. QED
  BY <1>3, <1>5, <1>6, <1>7

\* A turn that goes on without the gate's answer is one more that need not be counted.
LEMMA OutwaitedCounts ==
    ASSUME CountInv, NEW a \in Admission, Outwaited(a)
    PROVE  CountInv'
<1>1. PICK C \in SUBSET Request : Counts(C)
  BY DEF CountInv
<1>2. UNCHANGED <<row, turns, let>> /\ skipped \subseteq skipped'
  BY DEF Outwaited
<1>3. Counts(C)'
  BY <1>1, <1>2 DEF Counts, Known
<1>4. QED
  BY <1>3 DEF CountInv

LEMMA CountSteps ==
    ASSUME TypeOK, CountInv, [Next]_vars
    PROVE  CountInv'
<1>1. CASE UNCHANGED <<row, turns, let, skipped>>
  BY <1>1 DEF CountInv, Counts, Known
<1>2. \/ UNCHANGED <<row, turns, let, skipped>>
      \/ \E a \in Admission : Insert(a) \/ Outwaited(a)
      \/ \E r \in Turn : TurnEnd(r) \/ AbnormalEnd(r)
  BY DEF Next, vars, Step, Begin, Lock, ReadSuspension, ReadSums, ReadFleet, Fail, Refused,
         Passes, Elsewhere
<1>3. QED
  BY <1>1, <1>2, InsertCounts, OutwaitedCounts, SettleCounts

LEMMA CountsAreTrue == Spec => []CountInv
<1>1. TypeOK /\ CountInv /\ [Next]_vars => CountInv'
  BY CountSteps
<1>2. QED
  BY <1>1, InitCounts, TurnTypes, PTL DEF Spec

\* What the gate lets through and did not keep waiting too long was counted: store.ts
\* admit, the row and the count of one transaction.
THEOREM LetsWhatItCounts == Spec => []LetIsCounted
<1>1. CountInv => LetIsCounted
  <2> SUFFICES ASSUME CountInv PROVE LetIsCounted
    OBVIOUS
  <2>1. PICK C \in SUBSET Request : Counts(C)
    BY DEF CountInv
  <2>2. (let \ skipped) \in SUBSET C
    BY <2>1 DEF Counts
  <2>3. Cardinality(let \ skipped) <= Cardinality(C)
    BY <2>1, <2>2, FS_Subset DEF Counts
  <2>4. QED
    BY <2>1, <2>3 DEF Counts, LetIsCounted
<1>2. QED
  BY <1>1, CountsAreTrue, PTL

\* What is charged without having been counted did not wait for the gate: the end that
\* a refusal sends finds no row (service.ts recordAbnormalEnd).
THEOREM RefusalsAreFree == Spec => []RefusedIsFree
<1>1. CountInv /\ ChargedOnce => RefusedIsFree
  <2> SUFFICES ASSUME CountInv, ChargedOnce PROVE RefusedIsFree
    OBVIOUS
  <2> DEFINE Charged == {r \in Request \ skipped : charges[r] > 0}
  <2>1. PICK C \in SUBSET Request : Counts(C)
    BY DEF CountInv
  <2>2. \A r \in Request : charges[r] > 0 => row[r] # "absent"
    BY DEF ChargedOnce, Turn
  <2>3. Charged \in SUBSET C
    BY <2>1, <2>2 DEF Counts, Known
  <2>4. Cardinality(Charged) <= Cardinality(C)
    BY <2>1, <2>3, FS_Subset DEF Counts
  <2>5. QED
    BY <2>1, <2>4 DEF Counts, RefusedIsFree
<1>2. QED
  BY <1>1, CountsAreTrue, ChargesOnce, PTL
=============================================================================
