--------------------------- MODULE DecisionsProofs ---------------------------
(***************************************************************************)
(* Proofs about the approval queue, for any number of decisions, people,   *)
(* gates and requests, and any clock bound.                                *)
(***************************************************************************)
EXTENDS DecisionsRefinement, TLAPS

LEMMA HeldRowType ==
  ASSUME NEW o \in Owner \union {Null}, NEW k \in Key \union {Null},
         NEW att \in BOOLEAN, NEW irr \in BOOLEAN, NEW at \in Nat
  PROVE  HeldRow(o, k, att, irr, at) \in DecisionRow
BY DEF HeldRow, AbsentRow, DecisionRow, DecisionStatus, OPEN_STATUSES, Instant

\* Every UPDATE of the store writes a row of the right type.
LEMMA WritesType ==
  ASSUME NEW r \in DecisionRow, NEW at \in Nat
  PROVE  /\ \A how \in {"tell", "park", "defer", "send"} : Claimed(r, how, at) \in DecisionRow
         /\ Restored(r) \in DecisionRow
         /\ Replayed(r, at) \in DecisionRow
         /\ Parked(r) \in DecisionRow
         /\ Failed(r) \in DecisionRow
         /\ OutcomeUnknown(r) \in DecisionRow
         /\ Taken(r) \in DecisionRow
<1> USE DurationAssumption DEF DecisionRow, DecisionStatus, OPEN_STATUSES,
        UNDOABLE_STATUSES, AUTHORISING_STATUSES, Instant
<1>1. ASSUME NEW how \in {"tell", "park", "defer", "send"} PROVE Claimed(r, how, at) \in DecisionRow
  <2> DEFINE st == IF how = "park" THEN "approved-pending-agent" ELSE "executed"
             rd == IF how = "defer" THEN at + Undo ELSE Null
             cl == IF how = "send" THEN at ELSE Null
             dd == IF how = "tell" THEN at + Undo ELSE Null
  <2>1. st \in DecisionStatus /\ at \in Instant /\ rd \in Instant /\ cl \in Instant /\ dd \in Instant
    OBVIOUS
  <2>2. Claimed(r, how, at) =
          [r EXCEPT !.status = st, !.resolved = at, !.replayDue = rd, !.claimed = cl,
                    !.deliveryDue = dd, !.delivered = FALSE]
    BY DEF Claimed
  <2> HIDE DEF st, rd, cl, dd, DecisionStatus, Instant
  <2> DEFINE u == [r EXCEPT !.status = st, !.resolved = at, !.replayDue = rd]
             v == [u EXCEPT !.claimed = cl, !.deliveryDue = dd, !.delivered = FALSE]
  <2>3. u \in DecisionRow
    BY <2>1
  <2>4. Claimed(r, how, at) = v
    BY <2>2
  <2> HIDE DEF u
  <2>5. v \in DecisionRow
    BY <2>1, <2>3
  <2> QED BY <2>4, <2>5
<1>2. Restored(r) \in DecisionRow  BY DEF Restored
<1>3. Replayed(r, at) \in DecisionRow
  <2> DEFINE rs == IF r.resolved = Null THEN at ELSE r.resolved
  <2>1. rs \in Instant  OBVIOUS
  <2>2. Replayed(r, at) =
          [r EXCEPT !.status = "executed", !.replayed = TRUE, !.replayDue = Null,
                    !.abandoned = FALSE, !.resolved = rs]
    BY DEF Replayed
  <2> HIDE DEF rs
  <2> QED BY <2>1, <2>2
<1>4. Parked(r) \in DecisionRow  BY DEF Parked
<1>5. Failed(r) \in DecisionRow  BY DEF Failed
<1>6. OutcomeUnknown(r) \in DecisionRow  BY DEF OutcomeUnknown
<1>7. Taken(r) \in DecisionRow  BY DEF Taken
<1> QED BY <1>1, <1>2, <1>3, <1>4, <1>5, <1>6, <1>7

\* A conditional UPDATE writes a row of the right type if its new row is one.
LEMMA TransitionType ==
  ASSUME NEW r \in DecisionRow, NEW from, NEW new \in DecisionRow
  PROVE  transition(r, from, new) \in DecisionRow
BY DEF transition

\* The two answers written in place.
LEMMA AnswerType ==
  ASSUME NEW r \in DecisionRow, NEW at \in Nat
  PROVE  /\ Answered(r, "expired", at) \in DecisionRow
         /\ Answered(r, "dismissed", at) \in DecisionRow
         /\ Answered(r, "stale", Null) \in DecisionRow
         /\ ReplayClaimed(r, at) \in DecisionRow
         /\ DeliveryClaimed(r) \in DecisionRow
         /\ FlightTaken(r, at) \in DecisionRow
<1> USE DEF DecisionRow, DecisionStatus, OPEN_STATUSES, UNDOABLE_STATUSES, Instant,
        Answered, ReplayClaimed, DeliveryClaimed, FlightTaken
<1>1. Answered(r, "expired", at) \in DecisionRow  OBVIOUS
<1>2. Answered(r, "dismissed", at) \in DecisionRow  OBVIOUS
<1>3. Answered(r, "stale", Null) \in DecisionRow  OBVIOUS
<1>4. ReplayClaimed(r, at) \in DecisionRow  OBVIOUS
<1>5. DeliveryClaimed(r) \in DecisionRow  OBVIOUS
<1>6. FlightTaken(r, at) \in DecisionRow  OBVIOUS
<1> QED BY <1>1, <1>2, <1>3, <1>4, <1>5, <1>6

\* Every step keeps the types.
LEMMA TypeStep == ASSUME TypeOK, [Next]_vars PROVE TypeOK'
<1> USE DEF TypeOK
<1>tab. ASSUME NEW t \in Tabs, TabDone(t) PROVE tabs' \in [Tabs -> TabState]
  BY <1>tab DEF TabDone, IdleTab, TabState
<1>row. ASSUME NEW d, NEW r, d \in Id => r \in DecisionRow, rows' = [rows EXCEPT ![d] = r]
        PROVE  rows' \in [Id -> DecisionRow]
  BY <1>row
<1>1. CASE Tick  BY <1>1 DEF Tick
<1>2. ASSUME NEW k \in Key, GateTake(k) PROVE TypeOK'
  BY <1>2, WritesType DEF GateTake
<1>3. ASSUME NEW g \in Gates, NEW o \in Owner, NEW k \in Key, GateHold(g, o, k) PROVE TypeOK'
  BY <1>3 DEF GateHold, GateState
<1>4. ASSUME NEW g \in Gates, GateReuse(g) PROVE TypeOK'
  BY <1>4 DEF GateReuse, GateState, IdleGate
<1>5. ASSUME NEW g \in Gates, NEW d \in Id, NEW shape \in Shapes, GateRaise(g, d, shape)
      PROVE TypeOK'
  <2>1. HeldRow(gates[g].owner, gates[g].key, shape[1], shape[2], gates[g].at) \in DecisionRow
    BY <1>5, HeldRowType, ShapesAssumption DEF GateState
  <2> QED BY <1>5, <2>1 DEF GateRaise, GateState, IdleGate
<1>6. ASSUME NEW t \in Tabs, NEW d \in Id, ApproveRead(t, d) PROVE TypeOK'
  BY <1>6 DEF ApproveRead, TabState
<1>7. ASSUME NEW t \in Tabs, ApproveExpired(t) PROVE TypeOK'
  <2> DEFINE d == tabs[t].id
             r == transition(rows[d], OPEN_STATUSES,
                    Answered(rows[d], "expired", tabs[t].at))
  <2>1. d \in Id => r \in DecisionRow  BY AnswerType, TransitionType DEF TabState
  <2>2. rows' = [rows EXCEPT ![d] = r]  BY <1>7 DEF ApproveExpired
  <2> HIDE DEF r, d
  <2> QED BY <1>7, <2>1, <2>2, <1>tab, <1>row DEF ApproveExpired
<1>8. ASSUME NEW t \in Tabs, ApproveStale(t) PROVE TypeOK'
  <2> DEFINE d == tabs[t].id
             r == transition(rows[d], OPEN_STATUSES,
                    Answered(rows[d], "stale", Null))
  <2>1. d \in Id => r \in DecisionRow  BY AnswerType, TransitionType
  <2>2. rows' = [rows EXCEPT ![d] = r]  BY <1>8 DEF ApproveStale
  <2> HIDE DEF r, d
  <2> QED BY <1>8, <2>1, <2>2, <1>tab, <1>row DEF ApproveStale
<1>9. ASSUME NEW t \in Tabs, NEW how \in {"tell", "park", "defer", "send"},
             ApproveClaim(t, how)
      PROVE TypeOK'
  <2> DEFINE d == tabs[t].id
             r == Claimed(rows[d], how, tabs[t].at)
  <2>1. d \in Id => r \in DecisionRow
    <3> SUFFICES ASSUME d \in Id PROVE r \in DecisionRow  OBVIOUS
    <3>1. tabs[t].at \in Nat  BY DEF TabState
    <3> HIDE DEF d
    <3>3. rows[d] \in DecisionRow  OBVIOUS
    <3> QED BY <3>1, <3>3, WritesType
  <2>2. rows' = [rows EXCEPT ![d] = r]  BY <1>9 DEF ApproveClaim
  <2>3. host' \in [Id -> HostState]  BY <1>9 DEF ApproveClaim, HostState
  <2> HIDE DEF r, d
  <2> QED BY <1>9, <2>1, <2>2, <2>3, <1>tab, <1>row DEF ApproveClaim
<1>10. ASSUME NEW t \in Tabs, ApproveRefused(t) PROVE TypeOK'
  BY <1>10, <1>tab DEF ApproveRefused
<1>11. ASSUME NEW d \in Id, Dismiss(d) PROVE TypeOK'
  BY <1>11, AnswerType DEF Dismiss
<1>12. ASSUME NEW t \in Tabs, NEW d \in Id, UndoRead(t, d) PROVE TypeOK'
  BY <1>12 DEF UndoRead, TabState
<1>13. ASSUME NEW t \in Tabs, UndoRestore(t) PROVE TypeOK'
  BY <1>13, <1>tab, <1>row, WritesType DEF UndoRestore
<1>14. ASSUME NEW d \in Id, Settle(d) PROVE TypeOK'
  <2>1. Parked(rows[d]) \in DecisionRow /\ Failed(rows[d]) \in DecisionRow
          /\ OutcomeUnknown(rows[d]) \in DecisionRow
          /\ Replayed(rows[d], host[d].at) \in DecisionRow
    BY WritesType DEF HostState
  <2>2. ASSUME NEW r \in DecisionRow, Settled(d, r)
        PROVE  /\ rows' \in [Id -> DecisionRow] /\ host' \in [Id -> HostState]
               /\ UNCHANGED <<now, gates, tabs, picks>>
    BY <2>2 DEF Settled, NoWork, HostState
  <2>3. CASE SettleSend(d)  BY <2>3 DEF SettleSend, HostState
  <2>4. CASE SettlePark(d)  BY <2>4, <2>1, <2>2, TransitionType DEF SettlePark
  <2>5. CASE SettleReplayed(d)  BY <2>5, <2>1, <2>2 DEF SettleReplayed
  <2>6. CASE SettleFailed(d)  BY <2>6, <2>1, <2>2, TransitionType DEF SettleFailed
  <2>7. CASE SettleUnknown(d)  BY <2>7, <2>1, <2>2, TransitionType DEF SettleUnknown
  <2> QED BY <1>14, <2>3, <2>4, <2>5, <2>6, <2>7 DEF Settle
<1>15. ASSUME NEW d \in Id, Deliver(d) PROVE TypeOK'
  <2>1. CASE DeliverTold(d)  BY <2>1 DEF DeliverTold, NoWork, HostState
  <2>2. CASE DeliverFallBack(d)
    <3>1. FlightTaken(rows[d], host[d].at) \in DecisionRow
      BY AnswerType DEF HostState
    <3>2. CASE FlightFree(rows[d])  BY <2>2, <3>1, <3>2 DEF DeliverFallBack, HostState
    <3>3. CASE ~FlightFree(rows[d])
      BY <2>2, <3>3 DEF DeliverFallBack, NoWork, HostState
    <3> QED BY <3>2, <3>3
  <2>3. CASE DeliverPark(d)
    BY <2>3, WritesType, TransitionType DEF DeliverPark, Settled, NoWork, HostState
  <2> QED BY <1>15, <2>1, <2>2, <2>3 DEF Deliver
<1>16. CASE SweepExpire  BY <1>16, AnswerType DEF SweepExpire
<1>17. ASSUME NEW batch \in Batches(Id), SweepReclaim(batch) PROVE TypeOK'
  BY <1>17, WritesType DEF SweepReclaim
<1>18. ASSUME NEW batch \in Batches(Id), SweepReplays(batch) PROVE TypeOK'
  <2>1. \A d \in batch : picks[d] \in Nat
    BY <1>18 DEF SweepReplays, Instant, Batches
  <2>2. \A d \in batch : ReplayClaimed(rows[d], picks[d]) \in DecisionRow
    BY <2>1, AnswerType DEF Batches
  <2>3. rows' \in [Id -> DecisionRow]  BY <1>18, <2>2 DEF SweepReplays
  <2>4. host' \in [Id -> HostState]  BY <1>18, <2>1 DEF SweepReplays, HostState
  <2>5. picks' \in [Id -> Instant]  BY <1>18 DEF SweepReplays, Instant
  <2> QED BY <1>18, <2>3, <2>4, <2>5 DEF SweepReplays
<1>22. ASSUME NEW d \in Id, SweepRead(d) PROVE TypeOK'
  BY <1>22 DEF SweepRead, Instant
<1>19. ASSUME NEW batch \in Batches(Id), SweepDeliveries(batch) PROVE TypeOK'
  BY <1>19, AnswerType DEF SweepDeliveries, HostState
<1>20. CASE Crash
  BY <1>20, <1>tab, SMTT(20) DEF Crash, LoseGate, LoseTab, LosePick, LoseWork, IdleGate, GateState,
     NoWork, HostState, Instant
<1>21. CASE UNCHANGED vars  BY <1>21 DEF vars
<1> QED
  BY <1>1, <1>2, <1>3, <1>4, <1>5, <1>6, <1>7, <1>8, <1>9, <1>10, <1>11, <1>12, <1>13,
     <1>14, <1>15, <1>16, <1>17, <1>18, <1>19, <1>20, <1>21, <1>22
  DEF Next, Gate, Person, Sweep

LEMMA TypeInit == Init => TypeOK
<1>1. AbsentRow \in DecisionRow
  BY DEF AbsentRow, DecisionRow, DecisionStatus, Instant
<1> QED BY <1>1 DEF Init, TypeOK, IdleGate, IdleTab, NoWork, GateState, TabState, HostState,
          Instant

\* TypeOK is an invariant: whatever the interleaving of gates, requests,
\* replays, sweeps and crashes, every column keeps its type.
THEOREM TypeCorrect == Spec => []TypeOK
<1> QED BY TypeInit, TypeStep, PTL DEF Spec

-----------------------------------------------------------------------------
(* The inductive invariant: what a row's columns say about the work some   *)
(* host has in memory for it and about what went out, and what two rows    *)
(* for one call may be at once.                                            *)

\* Nothing was ever authorised, sent or scheduled under this row.
Untouched(r, pc, n) ==
  /\ ~r.consumed /\ ~r.replayed /\ ~r.abandoned /\ ~r.delivered
  /\ r.claimed = Null
  /\ pc = "none" /\ n = 0

\* A standing yes: in flight (claimed) or not, and then told, scheduled or
\* waiting at the gate.
StandingOK(r, pc, n) ==
  /\ r.claimed # Null =>
       /\ r.status = "executed" /\ r.replayDue = Null /\ r.deliveryDue = Null
       /\ pc \in {"none", "held", "sending"}
  /\ r.claimed = Null => pc \in {"none", "telling"} /\ n = 0
  /\ pc = "telling" => r.delivered /\ r.replayDue = Null
  /\ r.replayDue # Null => r.deliveryDue = Null /\ ~r.delivered
  /\ r.deliveryDue # Null => ~r.delivered /\ r.status = "executed"

\* A yes that was spent, by the agent or by the host.
SpentOK(r, pc, n) ==
  /\ r.consumed <=> ~r.replayed
  /\ n = 1
  /\ r.consumed => r.claimed = Null /\ r.deliveryDue = Null
  /\ r.consumed => pc \in {"none", "telling"}
  /\ r.replayed => pc = "none" /\ r.deliveryDue = Null /\ r.claimed # Null
  /\ r.replayDue = Null

\* A row given up on may still have a slow host behind it; one that failed
\* outright has nobody, and nothing went out.
FailedOK(r, pc, n) ==
  /\ ~r.consumed /\ ~r.replayed /\ r.claimed # Null /\ r.deliveryDue = Null
  /\ r.abandoned => pc \in {"none", "held", "sending"}
  /\ ~r.abandoned => pc = "none" /\ n = 0

RowOK(r, pc, n) ==
  /\ n \in {0, 1}
  /\ pc = "held" => n = 0
  /\ pc = "sending" => n = 1
  /\ r.status \in OPEN_STATUSES \union {"dismissed", "expired", "absent"} =>
       Untouched(r, pc, n)
  /\ isOpen(r) => r.replayDue = Null /\ r.deliveryDue = Null
  /\ r.status \in AUTHORISING_STATUSES \union {"failed", "dismissed"} => r.resolved # Null
  /\ Authorising(r) => ~r.abandoned
  /\ Unspent(r) => StandingOK(r, pc, n)
  /\ Authorising(r) /\ ~Unspent(r) => SpentOK(r, pc, n)
  /\ r.status = "failed" => FailedOK(r, pc, n)

RowInv == \A d \in Id : RowOK(rows[d], host[d].pc, sent[d])

\* The call may run, or may have run, under this row.
Live(r) == Unspent(r) \/ Tried(r)

PairInv ==
  \A d, e \in Id :
    d # e /\ SameCall(rows[d], rows[e]) /\ Live(rows[d]) /\ Live(rows[e])
      => \/ ~AnsweredSince(rows[d], rows[e])
         \/ ~AnsweredSince(rows[e], rows[d])

\* A request or a hold in progress knows which row it is about.
ProcessInv ==
  /\ \A t \in Tabs : tabs[t].pc # "idle" => tabs[t].id \in Id
  /\ \A g \in Gates : gates[g].pc = "holding" => gates[g].owner \in Owner /\ gates[g].key \in Key

IInv == TypeOK /\ ProcessInv /\ RowInv /\ OneStanding /\ PairInv

-----------------------------------------------------------------------------
(* What the store's writes do to one row.                                  *)

\* A write that makes no row live: what is live after was live before, and
\* is about the same question with the same answer.
Mild(r, s) ==
  /\ Live(s) => /\ Live(r)
                /\ s.owner = r.owner /\ s.key = r.key
                /\ s.created = r.created /\ s.resolved = r.resolved
  /\ Unspent(s) => Unspent(r)

LEMMA StayMild == ASSUME NEW r PROVE Mild(r, r)
BY DEF Mild

LEMMA TakenOK ==
  ASSUME NEW r \in DecisionRow, NEW pc, NEW n \in Int, RowOK(r, pc, n), Takeable(r)
  PROVE  RowOK(Taken(r), pc, n + 1) /\ Mild(r, Taken(r))
<1> DEFINE s == Taken(r)
<1>1. /\ s.status = r.status /\ s.consumed /\ s.replayed = r.replayed
      /\ s.abandoned = r.abandoned /\ s.claimed = r.claimed /\ s.deliveryDue = Null
      /\ s.replayDue = r.replayDue /\ s.resolved = r.resolved
      /\ s.owner = r.owner /\ s.key = r.key /\ s.created = r.created
  BY DEF Taken, DecisionRow
<1> HIDE DEF s
<1>2. RowOK(s, pc, n + 1)
  <2>1. /\ pc \in {"none", "telling"} /\ n = 0 /\ ~r.replayed
        /\ r.status \in {"executed", "approved-pending-agent"}
        /\ ~r.abandoned /\ r.resolved # Null
    BY DEF RowOK, Takeable, Unspent, StandingOK, Authorising, AUTHORISING_STATUSES
  <2>2. SpentOK(s, pc, n + 1)  BY <1>1, <2>1 DEF Takeable, SpentOK
  <2> QED
    BY <1>1, <2>1, <2>2 DEF RowOK, Unspent, Authorising, isOpen, OPEN_STATUSES,
       AUTHORISING_STATUSES
<1>3. Mild(r, s)
  BY <1>1 DEF Takeable, Unspent, Authorising, Mild, Live, Tried, AUTHORISING_STATUSES
<1> QED BY <1>2, <1>3 DEF s

LEMMA RestoredOK ==
  ASSUME NEW r \in DecisionRow, NEW pc, NEW n \in Int, RowOK(r, pc, n), Restorable(r)
  PROVE  RowOK(Restored(r), pc, n) /\ Mild(r, Restored(r))
<1> DEFINE s == Restored(r)
<1>1. /\ s.status = "pending" /\ s.consumed = r.consumed /\ s.replayed = r.replayed
      /\ s.abandoned = r.abandoned /\ s.delivered = r.delivered /\ s.claimed = r.claimed
      /\ s.replayDue = Null /\ s.deliveryDue = Null
  BY DEF Restored, DecisionRow
<1> HIDE DEF s
<1>2. RowOK(s, pc, n)
  BY <1>1 DEF RowOK, Restorable, Untouched, Unspent, StandingOK, Authorising, isOpen,
     OPEN_STATUSES, AUTHORISING_STATUSES, UNDOABLE_STATUSES
<1>3. Mild(r, s)
  BY <1>1 DEF Mild, Unspent, Authorising, Live, Tried, AUTHORISING_STATUSES
<1> QED BY <1>2, <1>3 DEF s

LEMMA ReplayedOK ==
  ASSUME NEW r \in DecisionRow, NEW n \in Int, NEW at \in Nat, RowOK(r, "sending", n)
  PROVE  RowOK(Replayed(r, at), "none", n) /\ Mild(r, Replayed(r, at))
<1> DEFINE s == Replayed(r, at)
<1>1. r.status \in {"executed", "failed"} /\ (r.status = "failed" => r.abandoned)
        /\ r.resolved # Null /\ n = 1 /\ ~r.consumed /\ ~r.replayed /\ r.claimed # Null
        /\ r.deliveryDue = Null
  BY DEF RowOK, Untouched, Unspent, StandingOK, SpentOK, FailedOK, Authorising,
     DecisionRow, DecisionStatus, OPEN_STATUSES, AUTHORISING_STATUSES, UNDOABLE_STATUSES
<1>2. /\ s.status = "executed" /\ s.consumed = r.consumed /\ s.replayed
      /\ ~s.abandoned /\ s.claimed = r.claimed /\ s.deliveryDue = r.deliveryDue
      /\ s.replayDue = Null /\ s.resolved = r.resolved
      /\ s.owner = r.owner /\ s.key = r.key /\ s.created = r.created
  BY <1>1 DEF Replayed, DecisionRow
<1> HIDE DEF s
<1>3. RowOK(s, "none", n)
  BY <1>1, <1>2 DEF RowOK, Unspent, SpentOK, Authorising, isOpen, OPEN_STATUSES,
     AUTHORISING_STATUSES
<1>4. Mild(r, s)
  BY <1>1, <1>2 DEF Mild, Live, Tried, Unspent, Authorising, AUTHORISING_STATUSES
<1> QED BY <1>3, <1>4 DEF s

\* The executor is gone, before the call (held) or at a delivery (telling).
LEMMA ParkedOK ==
  ASSUME NEW r \in DecisionRow, NEW pc \in {"held", "telling"}, NEW n \in Int,
         RowOK(r, pc, n)
  PROVE  LET s == transition(r, {"executed"}, Parked(r))
         IN  RowOK(s, "none", n) /\ Mild(r, s)
<1> DEFINE s == Parked(r)
<1>1. /\ s.status = "approved-pending-agent" /\ s.consumed = r.consumed
      /\ s.replayed = r.replayed /\ s.abandoned = r.abandoned /\ s.claimed = Null
      /\ s.deliveryDue = r.deliveryDue /\ s.delivered = r.delivered
      /\ s.replayDue = Null /\ s.resolved = r.resolved
      /\ s.owner = r.owner /\ s.key = r.key /\ s.created = r.created
  BY DEF Parked, DecisionRow
<1> HIDE DEF s
<1>2. CASE r.status = "executed"
  <2>1. transition(r, {"executed"}, s) = s  BY <1>2 DEF transition
  <2>2. RowOK(s, "none", n)
    BY <1>1, <1>2 DEF RowOK, Untouched, Unspent, StandingOK, SpentOK, Authorising, isOpen,
       OPEN_STATUSES, AUTHORISING_STATUSES
  <2>3. Mild(r, s)
    BY <1>1, <1>2 DEF Mild, Live, Tried, Unspent, Authorising, AUTHORISING_STATUSES
  <2> QED BY <2>1, <2>2, <2>3 DEF s
<1>3. CASE r.status # "executed"
  <2>1. transition(r, {"executed"}, s) = r  BY <1>3 DEF transition
  <2>2. RowOK(r, "none", n)
    BY <1>3 DEF RowOK, Untouched, Unspent, StandingOK, SpentOK, FailedOK, Authorising, isOpen,
       OPEN_STATUSES, AUTHORISING_STATUSES
  <2> QED BY <2>1, <2>2, StayMild DEF s
<1> QED BY <1>2, <1>3

\* The call is out: which rows that can be true of.
LEMMA SendingRow ==
  ASSUME NEW r \in DecisionRow, NEW n \in Int, RowOK(r, "sending", n)
  PROVE  /\ n = 1 /\ r.claimed # Null /\ r.resolved # Null /\ ~r.consumed /\ ~r.replayed
         /\ r.deliveryDue = Null
         /\ \/ r.status = "executed" /\ ~r.abandoned
            \/ r.status = "failed" /\ r.abandoned
BY DEF RowOK, Untouched, Unspent, StandingOK, SpentOK, FailedOK, Authorising,
   DecisionRow, DecisionStatus, OPEN_STATUSES, AUTHORISING_STATUSES, UNDOABLE_STATUSES

LEMMA FailedWriteOK ==
  ASSUME NEW r \in DecisionRow, NEW n \in Int, RowOK(r, "sending", n)
  PROVE  LET s == transition(r, {"executed"}, Failed(r))
         IN  RowOK(s, "none", n - 1) /\ Mild(r, s)
<1> DEFINE s == Failed(r)
<1>1. /\ s.status = "failed" /\ s.consumed = r.consumed /\ s.replayed = r.replayed
      /\ s.abandoned = r.abandoned /\ s.claimed = r.claimed
      /\ s.deliveryDue = r.deliveryDue /\ s.resolved = r.resolved
  BY DEF Failed, DecisionRow
<1> HIDE DEF s
<1>2. CASE r.status = "executed"
  <2>1. transition(r, {"executed"}, s) = s  BY <1>2 DEF transition
  <2>2. RowOK(s, "none", n - 1)
    BY <1>1, <1>2, SendingRow DEF RowOK, Unspent, FailedOK, Authorising, isOpen,
       OPEN_STATUSES, AUTHORISING_STATUSES
  <2>3. Mild(r, s)
    BY <1>1, <1>2, SendingRow DEF Mild, Live, Tried, Unspent, Authorising, AUTHORISING_STATUSES
  <2> QED BY <2>1, <2>2, <2>3 DEF s
<1>3. CASE r.status # "executed"
  <2>1. transition(r, {"executed"}, s) = r  BY <1>3 DEF transition
  <2>2. RowOK(r, "none", n - 1)
    BY <1>3, SendingRow DEF RowOK, Unspent, FailedOK, Authorising, isOpen,
       OPEN_STATUSES, AUTHORISING_STATUSES
  <2> QED BY <2>1, <2>2, StayMild DEF s
<1> QED BY <1>2, <1>3

\* Giving up, on the bus's timeout or in the sweep: the row is an executed
\* flight nobody has an answer for.
LEMMA OutcomeUnknownOK ==
  ASSUME NEW r \in DecisionRow, NEW pc, NEW n \in Int, RowOK(r, pc, n),
         r.status = "executed", r.claimed # Null, ~r.consumed, ~r.replayed
  PROVE  RowOK(OutcomeUnknown(r), pc, n) /\ Mild(r, OutcomeUnknown(r))
<1> DEFINE s == OutcomeUnknown(r)
<1>1. /\ s.status = "failed" /\ s.consumed = r.consumed /\ s.replayed = r.replayed
      /\ s.abandoned /\ s.claimed = r.claimed /\ s.deliveryDue = r.deliveryDue
      /\ s.resolved = r.resolved
      /\ s.owner = r.owner /\ s.key = r.key /\ s.created = r.created
  BY DEF OutcomeUnknown, DecisionRow
<1> HIDE DEF s
<1>2. RowOK(s, pc, n)
  BY <1>1 DEF RowOK, Unspent, StandingOK, FailedOK, Authorising, isOpen, OPEN_STATUSES,
     AUTHORISING_STATUSES
<1>3. Mild(r, s)
  BY <1>1 DEF Mild, Live, Tried, Unspent, Authorising, AUTHORISING_STATUSES
<1> QED BY <1>2, <1>3 DEF s

\* In-memory work that ends, or is lost, leaves a row the invariant allows.
LEMMA WorkGoneOK ==
  ASSUME NEW r, NEW pc, NEW n \in Int, RowOK(r, pc, n)
  PROVE  RowOK(r, "none", n)
BY DEF RowOK, Untouched, StandingOK, SpentOK, FailedOK

\* The call leaves.
LEMMA SendOK ==
  ASSUME NEW r, NEW n \in Int, RowOK(r, "held", n)
  PROVE  RowOK(r, "sending", n + 1)
<1>1. n = 0  BY DEF RowOK
<1>2. ~(r.status \in OPEN_STATUSES \union {"dismissed", "expired", "absent"})
  BY DEF RowOK, Untouched
<1>3. Unspent(r) => StandingOK(r, "sending", n + 1)  BY DEF RowOK, StandingOK
<1>4. ~(Authorising(r) /\ ~Unspent(r))  BY <1>1 DEF RowOK, SpentOK
<1>5. r.status = "failed" => FailedOK(r, "sending", n + 1)  BY DEF RowOK, FailedOK
<1> QED BY <1>1, <1>2, <1>3, <1>4, <1>5 DEF RowOK

LEMMA ClaimReplayOK ==
  ASSUME NEW r \in DecisionRow, NEW pc, NEW n \in Int, NEW t \in Nat,
         RowOK(r, pc, n), ReplayClaimable(r)
  PROVE  LET s == ReplayClaimed(r, t)
         IN  RowOK(s, "held", n) /\ Mild(r, s)
<1> DEFINE s == ReplayClaimed(r, t)
<1>1. /\ s.status = r.status /\ s.consumed = r.consumed /\ s.replayed = r.replayed
      /\ s.abandoned = r.abandoned /\ s.claimed # Null /\ s.deliveryDue = r.deliveryDue
      /\ s.replayDue = Null /\ s.resolved = r.resolved /\ s.delivered = r.delivered
      /\ s.owner = r.owner /\ s.key = r.key /\ s.created = r.created
  BY NullAssumption DEF DecisionRow, ReplayClaimed
<1> HIDE DEF s
<1>2. RowOK(s, "held", n)
  BY <1>1 DEF ReplayClaimable, RowOK, Unspent, StandingOK, SpentOK, Authorising, isOpen,
     OPEN_STATUSES, AUTHORISING_STATUSES
<1>3. Mild(r, s)
  BY <1>1 DEF ReplayClaimable, Mild, Live, Tried, Unspent, Authorising, AUTHORISING_STATUSES
<1> QED BY <1>2, <1>3 DEF s

LEMMA ClaimDeliveryOK ==
  ASSUME NEW r \in DecisionRow, NEW pc, NEW n \in Int, NEW t \in Nat,
         RowOK(r, pc, n), DeliveryDue(r, t)
  PROVE  LET s == DeliveryClaimed(r)
         IN  RowOK(s, "telling", n) /\ Mild(r, s)
<1> DEFINE s == DeliveryClaimed(r)
<1>1. /\ s.status = r.status /\ s.consumed = r.consumed /\ s.replayed = r.replayed
      /\ s.abandoned = r.abandoned /\ s.claimed = r.claimed /\ s.deliveryDue = Null
      /\ s.replayDue = r.replayDue /\ s.resolved = r.resolved /\ s.delivered
      /\ s.owner = r.owner /\ s.key = r.key /\ s.created = r.created
  BY DEF DecisionRow, DeliveryClaimed
<1> HIDE DEF s
<1>2. RowOK(s, "telling", n)
  <2>1. /\ ~r.consumed /\ ~r.replayed /\ ~r.abandoned /\ r.claimed = Null
        /\ r.replayDue = Null /\ n = 0 /\ r.status = "executed" /\ r.resolved # Null
    BY DEF DeliveryDue, IsDue, RowOK, Unspent, StandingOK, SpentOK, Authorising,
       AUTHORISING_STATUSES
  <2> QED
    BY <1>1, <2>1 DEF RowOK, Unspent, StandingOK, Authorising, isOpen, OPEN_STATUSES,
       AUTHORISING_STATUSES
<1>3. Mild(r, s)
  BY <1>1 DEF DeliveryDue, Mild, Live, Tried, Unspent, Authorising, AUTHORISING_STATUSES
<1> QED BY <1>2, <1>3 DEF s

LEMMA TakeFlightOK ==
  ASSUME NEW r \in DecisionRow, NEW n \in Int, NEW t \in Nat,
         RowOK(r, "telling", n), FlightFree(r)
  PROVE  LET s == FlightTaken(r, t)
         IN  RowOK(s, "held", n) /\ Mild(r, s)
<1> DEFINE s == FlightTaken(r, t)
<1>1. /\ s.status = r.status /\ s.consumed = r.consumed /\ s.replayed = r.replayed
      /\ s.abandoned = r.abandoned /\ s.claimed # Null /\ s.deliveryDue = r.deliveryDue
      /\ s.replayDue = r.replayDue /\ s.resolved = r.resolved /\ s.delivered = r.delivered
      /\ s.owner = r.owner /\ s.key = r.key /\ s.created = r.created
  BY NullAssumption DEF DecisionRow, FlightTaken
<1> HIDE DEF s
<1>2. RowOK(s, "held", n)
  <2>1. /\ ~r.consumed /\ ~r.replayed /\ ~r.abandoned /\ r.replayDue = Null
        /\ r.deliveryDue = Null /\ n = 0 /\ r.status = "executed" /\ r.resolved # Null
    BY DEF FlightFree, RowOK, Unspent, StandingOK, Authorising, AUTHORISING_STATUSES
  <2> QED
    BY <1>1, <2>1 DEF RowOK, Unspent, StandingOK, Authorising, isOpen, OPEN_STATUSES,
       AUTHORISING_STATUSES
<1>3. Mild(r, s)
  BY <1>1 DEF FlightFree, Mild, Live, Tried, Unspent, Authorising, AUTHORISING_STATUSES
<1> QED BY <1>2, <1>3 DEF s

\* A no, an expiry or a stale answer: an open row closes, or stays open.
LEMMA AnswerOK ==
  ASSUME NEW r \in DecisionRow, NEW pc, NEW n \in Int, NEW at \in Nat,
         RowOK(r, pc, n), isOpen(r)
  PROVE  /\ RowOK(Answered(r, "expired", at), pc, n)
         /\ Mild(r, Answered(r, "expired", at))
         /\ RowOK(Answered(r, "dismissed", at), pc, n)
         /\ Mild(r, Answered(r, "dismissed", at))
         /\ RowOK(Answered(r, "stale", Null), pc, n)
         /\ Mild(r, Answered(r, "stale", Null))
<1>1. Untouched(r, pc, n) /\ r.replayDue = Null /\ r.deliveryDue = Null
        /\ n \in {0, 1} /\ pc = "none"
  BY DEF RowOK, Untouched, isOpen
<1>2. ASSUME NEW st \in {"expired", "dismissed", "stale"}, NEW x \in Instant,
             st = "dismissed" => x # Null
      PROVE  LET s == Answered(r, st, x)
             IN  RowOK(s, pc, n) /\ Mild(r, s)
  <2> DEFINE s == Answered(r, st, x)
  <2>1. /\ s.status = st /\ s.resolved = x /\ s.consumed = r.consumed
        /\ s.replayed = r.replayed /\ s.abandoned = r.abandoned
        /\ s.delivered = r.delivered /\ s.claimed = r.claimed
        /\ s.replayDue = r.replayDue /\ s.deliveryDue = r.deliveryDue
    BY DEF DecisionRow, Answered
  <2> HIDE DEF s
  <2>2. RowOK(s, pc, n)
    BY <1>1, <1>2, <2>1 DEF RowOK, Untouched, Unspent, Authorising, isOpen, OPEN_STATUSES,
       AUTHORISING_STATUSES
  <2>3. Mild(r, s)
    BY <1>1, <2>1 DEF Mild, Live, Tried, Unspent, Authorising, AUTHORISING_STATUSES
  <2> QED BY <2>2, <2>3 DEF s
<1>3. at \in Instant /\ Null \in Instant /\ at # Null  BY NullAssumption DEF Instant
<1> QED BY <1>2, <1>3

\* The claim of an open row: a standing yes nothing was done about yet.
LEMMA ClaimedOK ==
  ASSUME NEW r \in DecisionRow, NEW pc, NEW n \in Int, NEW at \in Nat,
         NEW how \in {"tell", "park", "defer", "send"}, RowOK(r, pc, n), isOpen(r)
  PROVE  LET s == Claimed(r, how, at)
         IN  /\ RowOK(s, IF how = "send" THEN "held" ELSE pc, n)
             /\ Unspent(s)
             /\ s.owner = r.owner /\ s.key = r.key /\ s.created = r.created
             /\ s.resolved = at
<1> DEFINE s == Claimed(r, how, at)
<1>1. n = 0 /\ pc = "none" /\ ~r.consumed /\ ~r.replayed /\ ~r.abandoned
  BY DEF RowOK, Untouched, isOpen
<1>2. at # Null /\ at + Undo # Null  BY NullAssumption, DurationAssumption
<1>3. /\ s.consumed = r.consumed /\ s.replayed = r.replayed /\ s.abandoned = r.abandoned
      /\ s.owner = r.owner /\ s.key = r.key /\ s.created = r.created
      /\ s.resolved = at
      /\ s.status = IF how = "park" THEN "approved-pending-agent" ELSE "executed"
      /\ s.replayDue = IF how = "defer" THEN at + Undo ELSE Null
      /\ s.claimed = IF how = "send" THEN at ELSE Null
      /\ s.deliveryDue = IF how = "tell" THEN at + Undo ELSE Null
      /\ ~s.delivered
  BY DEF Claimed, DecisionRow
<1> HIDE DEF s
<1>4. s.status \in {"executed", "approved-pending-agent"}  BY <1>3
<1>5. Unspent(s)  BY <1>1, <1>3, <1>4 DEF Unspent, Authorising, AUTHORISING_STATUSES
<1>6. StandingOK(s, IF how = "send" THEN "held" ELSE pc, n)
  <2>1. CASE how = "send"  BY <2>1, <1>1, <1>2, <1>3 DEF StandingOK
  <2>2. CASE how = "park"  BY <2>2, <1>1, <1>2, <1>3 DEF StandingOK
  <2>3. CASE how = "defer"  BY <2>3, <1>1, <1>2, <1>3 DEF StandingOK
  <2>4. CASE how = "tell"  BY <2>4, <1>1, <1>2, <1>3 DEF StandingOK
  <2> QED BY <2>1, <2>2, <2>3, <2>4
<1>7. RowOK(s, IF how = "send" THEN "held" ELSE pc, n)
  BY <1>1, <1>2, <1>3, <1>4, <1>5, <1>6 DEF RowOK, isOpen, OPEN_STATUSES, AUTHORISING_STATUSES
<1> QED BY <1>3, <1>5, <1>7 DEF s

LEMMA HeldRowOK ==
  ASSUME NEW o, NEW k, NEW att, NEW irr, NEW at, NEW pc, NEW n \in Int,
         NEW r, r.status = "absent", RowOK(r, pc, n)
  PROVE  LET s == HeldRow(o, k, att, irr, at)
         IN  RowOK(s, pc, n) /\ Mild(r, s)
<1> DEFINE s == HeldRow(o, k, att, irr, at)
<1>1. pc = "none" /\ n = 0  BY DEF RowOK, Untouched
<1>2. /\ s.status = "pending" /\ ~s.consumed /\ ~s.replayed /\ ~s.abandoned /\ ~s.delivered
      /\ s.claimed = Null /\ s.replayDue = Null /\ s.deliveryDue = Null
  BY DEF HeldRow, AbsentRow
<1> HIDE DEF s
<1>3. RowOK(s, pc, n)
  BY <1>1, <1>2 DEF RowOK, Untouched, Unspent, Authorising, isOpen, OPEN_STATUSES,
     AUTHORISING_STATUSES
<1>4. Mild(r, s)
  BY <1>2 DEF Mild, Live, Tried, Unspent, Authorising, AUTHORISING_STATUSES
<1> QED BY <1>3, <1>4 DEF s

\* Steps that make no row live keep the two invariants about pairs of rows.
LEMMA MildStep ==
  ASSUME OneStanding, PairInv, \A d \in Id : Mild(rows[d], rows'[d])
  PROVE  OneStanding' /\ PairInv'
<1>1. OneStanding'
  BY DEF OneStanding, Mild, Live
<1>2. PairInv'
  <2> SUFFICES ASSUME NEW d \in Id, NEW e \in Id, d # e, SameCall(rows'[d], rows'[e]),
                      Live(rows'[d]), Live(rows'[e])
               PROVE  ~AnsweredSince(rows'[d], rows'[e]) \/ ~AnsweredSince(rows'[e], rows'[d])
    BY DEF PairInv
  <2>1. Mild(rows[d], rows'[d]) /\ Mild(rows[e], rows'[e])  OBVIOUS
  <2>2. /\ Live(rows[d]) /\ Live(rows[e]) /\ SameCall(rows[d], rows[e])
        /\ rows'[d].created = rows[d].created /\ rows'[d].resolved = rows[d].resolved
        /\ rows'[e].created = rows[e].created /\ rows'[e].resolved = rows[e].resolved
    BY <2>1 DEF Mild, SameCall
  <2> QED BY <2>2 DEF PairInv, AnsweredSince
<1> QED BY <1>1, <1>2

-----------------------------------------------------------------------------

\* An approval's claim, the one write that makes a row live.
LEMMA ClaimStep ==
  ASSUME TypeOK, ProcessInv, RowInv, OneStanding, PairInv,
         NEW t \in Tabs, NEW how \in {"tell", "park", "defer", "send"}, ApproveClaim(t, how)
  PROVE  RowInv' /\ OneStanding' /\ PairInv'
<1> DEFINE d == tabs[t].id
           s == Claimed(rows[d], how, tabs[t].at)
<1>1. d \in Id  BY DEF ApproveClaim, ProcessInv
<1>2. rows[d] \in DecisionRow /\ sent[d] \in Int /\ tabs[t].at \in Nat
  BY <1>1 DEF TypeOK, TabState
<1>3. /\ isOpen(rows[d]) /\ ~firstTriedTwin(rows, d) /\ ~SlotTaken(rows, d)
      /\ rows' = [rows EXCEPT ![d] = s] /\ sent' = sent
      /\ host' = IF how = "send" THEN [host EXCEPT ![d] = [pc |-> "held", at |-> now]] ELSE host
  BY DEF ApproveClaim
<1>4. RowOK(rows[d], host[d].pc, sent[d])  BY <1>1 DEF RowInv
<1>5. /\ RowOK(s, IF how = "send" THEN "held" ELSE host[d].pc, sent[d])
      /\ Unspent(s)
      /\ s.owner = rows[d].owner /\ s.key = rows[d].key /\ s.created = rows[d].created
      /\ s.resolved = tabs[t].at
  BY <1>2, <1>3, <1>4, ClaimedOK
<1> HIDE DEF s, d
<1>6. /\ rows'[d] = s /\ host'[d].pc = (IF how = "send" THEN "held" ELSE host[d].pc)
      /\ \A e \in Id \ {d} : rows'[e] = rows[e] /\ host'[e] = host[e]
  BY <1>1, <1>3 DEF TypeOK
<1>7. RowInv'
  BY <1>1, <1>3, <1>5, <1>6 DEF RowInv
<1>8. \A e \in Id \ {d} : ~(rows[e].key = rows[d].key /\ Unspent(rows[e]))
  BY <1>3 DEF SlotTaken
<1>9. OneStanding'
  BY <1>5, <1>6, <1>8 DEF OneStanding
<1>10. \A e \in Id \ {d} : SameCall(rows[e], s) /\ Live(rows[e]) => ~AnsweredSince(rows[e], s)
  BY <1>3, <1>5, <1>8 DEF firstTriedTwin, SameCall, AnsweredSince, Live
<1>11. PairInv'
  <2> SUFFICES ASSUME NEW x \in Id, NEW y \in Id, x # y, SameCall(rows'[x], rows'[y]),
                      Live(rows'[x]), Live(rows'[y])
               PROVE  ~AnsweredSince(rows'[x], rows'[y]) \/ ~AnsweredSince(rows'[y], rows'[x])
    BY DEF PairInv
  <2>1. CASE x = d
    BY <2>1, <1>6, <1>10 DEF SameCall
  <2>2. CASE y = d
    BY <2>2, <1>6, <1>10 DEF SameCall
  <2>3. CASE x # d /\ y # d
    BY <2>3, <1>6 DEF PairInv
  <2> QED BY <2>1, <2>2, <2>3
<1> QED BY <1>7, <1>9, <1>11

\* Every other step.
LEMMA OtherSteps ==
  ASSUME TypeOK, ProcessInv, RowInv, [Next]_vars,
         ~ \E t \in Tabs, how \in {"tell", "park", "defer", "send"} : ApproveClaim(t, how)
  PROVE  \A d \in Id : /\ RowOK(rows'[d], host'[d].pc, sent'[d])
                       /\ Mild(rows[d], rows'[d])
<1> SUFFICES ASSUME NEW d \in Id
             PROVE  RowOK(rows'[d], host'[d].pc, sent'[d]) /\ Mild(rows[d], rows'[d])
  OBVIOUS
<1> DEFINE Good == RowOK(rows'[d], host'[d].pc, sent'[d]) /\ Mild(rows[d], rows'[d])
<1>a. /\ now \in Nat /\ rows[d] \in DecisionRow /\ sent[d] \in Int /\ host[d].at \in Nat
      /\ RowOK(rows[d], host[d].pc, sent[d])
  BY DEF TypeOK, RowInv, HostState
<1>b. ASSUME rows'[d] = rows[d], host'[d] = host[d], sent'[d] = sent[d] PROVE Good
  BY <1>a, <1>b, StayMild
<1>c. \A t \in Tabs : tabs[t].at \in Nat  BY DEF TypeOK, TabState
<1>1. CASE Tick  BY <1>1, <1>b DEF Tick
<1>2. ASSUME NEW k \in Key, GateTake(k) PROVE Good
  <2>1. CASE rows[d].key = k /\ Takeable(rows[d])
    <3>1. rows'[d] = Taken(rows[d]) /\ sent'[d] = sent[d] + 1 /\ host' = host
      BY <1>2, <2>1 DEF GateTake, TypeOK
    <3> QED BY <3>1, <2>1, <1>a, TakenOK
  <2>2. CASE ~(rows[d].key = k /\ Takeable(rows[d]))
    BY <1>2, <2>2, <1>b DEF GateTake, TypeOK
  <2> QED BY <2>1, <2>2
<1>3. ASSUME NEW g \in Gates, NEW o \in Owner, NEW k \in Key, GateHold(g, o, k) PROVE Good
  BY <1>3, <1>b DEF GateHold
<1>4. ASSUME NEW g \in Gates, GateReuse(g) PROVE Good
  BY <1>4, <1>b DEF GateReuse
<1>5. ASSUME NEW g \in Gates, NEW e \in Id, NEW shape \in Shapes, GateRaise(g, e, shape)
      PROVE Good
  <2>1. CASE e = d
    <3>1. /\ rows[d].status = "absent" /\ sent' = sent /\ host' = host
          /\ rows'[d] = HeldRow(gates[g].owner, gates[g].key, shape[1], shape[2], gates[g].at)
      BY <1>5, <2>1 DEF GateRaise, TypeOK
    <3> QED BY <3>1, <1>a, HeldRowOK
  <2>2. CASE e # d  BY <1>5, <2>2, <1>b DEF GateRaise, TypeOK
  <2> QED BY <2>1, <2>2
<1>6. ASSUME NEW t \in Tabs, NEW e \in Id, ApproveRead(t, e) \/ UndoRead(t, e) PROVE Good
  BY <1>6, <1>b DEF ApproveRead, UndoRead
<1>7. ASSUME NEW t \in Tabs, ApproveRefused(t) PROVE Good
  BY <1>7, <1>b DEF ApproveRefused
<1>8. ASSUME NEW t \in Tabs, ApproveExpired(t) PROVE Good
  <2>1. CASE tabs[t].id = d /\ isOpen(rows[d])
    <3>1. /\ rows'[d] = Answered(rows[d], "expired", tabs[t].at)
          /\ sent' = sent /\ host' = host
      BY <1>8, <2>1 DEF ApproveExpired, transition, isOpen, TypeOK
    <3> QED BY <3>1, <2>1, <1>a, <1>c, AnswerOK
  <2>2. CASE ~(tabs[t].id = d /\ isOpen(rows[d]))
    BY <1>8, <2>2, <1>b DEF ApproveExpired, transition, isOpen, TypeOK
  <2> QED BY <2>1, <2>2
<1>9. ASSUME NEW t \in Tabs, ApproveStale(t) PROVE Good
  <2>1. CASE tabs[t].id = d /\ isOpen(rows[d])
    <3>1. /\ rows'[d] = Answered(rows[d], "stale", Null)
          /\ sent' = sent /\ host' = host
      BY <1>9, <2>1 DEF ApproveStale, transition, isOpen, TypeOK
    <3> QED BY <3>1, <2>1, <1>a, AnswerOK
  <2>2. CASE ~(tabs[t].id = d /\ isOpen(rows[d]))
    BY <1>9, <2>2, <1>b DEF ApproveStale, transition, isOpen, TypeOK
  <2> QED BY <2>1, <2>2
<1>10. ASSUME NEW e \in Id, Dismiss(e) PROVE Good
  <2>1. CASE e = d
    <3>1. /\ isOpen(rows[d]) /\ sent' = sent /\ host' = host
          /\ rows'[d] = Answered(rows[d], "dismissed", now)
      BY <1>10, <2>1 DEF Dismiss, TypeOK
    <3> QED BY <3>1, <1>a, AnswerOK
  <2>2. CASE e # d  BY <1>10, <2>2, <1>b DEF Dismiss, TypeOK
  <2> QED BY <2>1, <2>2
<1>11. ASSUME NEW t \in Tabs, UndoRestore(t) PROVE Good
  <2>1. CASE tabs[t].id = d /\ Restorable(rows[d])
    <3>1. rows'[d] = Restored(rows[d]) /\ sent' = sent /\ host' = host
      BY <1>11, <2>1 DEF UndoRestore, TypeOK
    <3> QED BY <3>1, <2>1, <1>a, RestoredOK
  <2>2. CASE ~(tabs[t].id = d /\ Restorable(rows[d]))
    BY <1>11, <2>2, <1>b DEF UndoRestore, TypeOK
  <2> QED BY <2>1, <2>2
<1>12. ASSUME NEW e \in Id, Settle(e) PROVE Good
  <2>1. CASE e # d
    BY <1>12, <2>1, <1>b DEF Settle, Settled, SettleSend, SettlePark, SettleReplayed,
       SettleFailed, SettleUnknown, TypeOK
  <2>2. CASE e = d
    <3>1. CASE SettleSend(d)
      <4>1. rows' = rows /\ host[d].pc = "held" /\ host'[d].pc = "sending"
              /\ sent'[d] = sent[d] + 1
        BY <3>1 DEF SettleSend, TypeOK, HostState
      <4> QED BY <4>1, <1>a, SendOK, StayMild
    <3>2. ASSUME NEW r, Settled(d, r) PROVE rows'[d] = r /\ host'[d].pc = "none"
      BY <3>2 DEF Settled, NoWork, TypeOK
    <3>3. CASE SettlePark(d)
      <4>1. rows'[d] = transition(rows[d], {"executed"}, Parked(rows[d]))
              /\ host[d].pc = "held" /\ host'[d].pc = "none" /\ sent' = sent
        BY <3>3, <3>2 DEF SettlePark
      <4> QED BY <4>1, <1>a, ParkedOK
    <3>4. CASE SettleReplayed(d)
      <4>1. rows'[d] = Replayed(rows[d], host[d].at)
              /\ host[d].pc = "sending" /\ host'[d].pc = "none" /\ sent' = sent
        BY <3>4, <3>2 DEF SettleReplayed
      <4> QED BY <4>1, <1>a, ReplayedOK
    <3>5. CASE SettleFailed(d)
      <4>1. rows'[d] = transition(rows[d], {"executed"}, Failed(rows[d]))
              /\ host[d].pc = "sending" /\ host'[d].pc = "none" /\ sent'[d] = sent[d] - 1
        BY <3>5, <3>2 DEF SettleFailed, TypeOK
      <4> QED BY <4>1, <1>a, FailedWriteOK
    <3>6. CASE SettleUnknown(d)
      <4>1. rows'[d] = transition(rows[d], {"executed"}, OutcomeUnknown(rows[d]))
              /\ host[d].pc = "sending" /\ host'[d].pc = "none" /\ sent' = sent
        BY <3>6, <3>2 DEF SettleUnknown
      <4>2. RowOK(rows'[d], "sending", sent[d]) /\ Mild(rows[d], rows'[d])
        <5>1. CASE rows[d].status = "executed"
          BY <5>1, <4>1, <1>a, SendingRow, OutcomeUnknownOK DEF transition
        <5>2. CASE rows[d].status # "executed"
          BY <5>2, <4>1, <1>a, StayMild DEF transition
        <5> QED BY <5>1, <5>2
      <4> QED BY <4>1, <4>2, <1>a, WorkGoneOK
    <3> QED BY <1>12, <2>2, <3>1, <3>3, <3>4, <3>5, <3>6 DEF Settle
  <2> QED BY <2>1, <2>2
<1>13. ASSUME NEW e \in Id, Deliver(e) PROVE Good
  <2>1. CASE e # d
    BY <1>13, <2>1, <1>b DEF Deliver, DeliverTold, DeliverFallBack, DeliverPark, Settled, TypeOK
  <2>2. CASE e = d
    <3>1. ASSUME rows'[d] = rows[d], host'[d] = NoWork, sent' = sent PROVE Good
      BY <3>1, <1>a, WorkGoneOK, StayMild DEF NoWork
    <3>2. CASE DeliverTold(d)
      BY <3>1, <3>2 DEF DeliverTold, TypeOK
    <3>3. CASE DeliverFallBack(d) /\ FlightFree(rows[d])
      <4>1. rows'[d] = FlightTaken(rows[d], host[d].at) /\ host[d].pc = "telling"
              /\ host'[d].pc = "held" /\ sent' = sent
        BY <3>3 DEF DeliverFallBack, TypeOK, HostState
      <4> QED BY <4>1, <3>3, <1>a, TakeFlightOK
    <3>4. CASE DeliverFallBack(d) /\ ~FlightFree(rows[d])
      BY <3>1, <3>4 DEF DeliverFallBack, TypeOK
    <3>5. CASE DeliverPark(d)
      <4>1. rows'[d] = transition(rows[d], {"executed"}, Parked(rows[d]))
              /\ host[d].pc = "telling" /\ host'[d].pc = "none" /\ sent' = sent
        BY <3>5 DEF DeliverPark, Settled, NoWork, TypeOK
      <4> QED BY <4>1, <1>a, ParkedOK
    <3> QED BY <1>13, <2>2, <3>2, <3>3, <3>4, <3>5 DEF Deliver
  <2> QED BY <2>1, <2>2
<1>14. CASE SweepExpire
  <2>1. CASE isOpen(rows[d]) /\ expired(rows[d], now)
    <3>1. /\ rows'[d] = Answered(rows[d], "expired", now)
          /\ sent' = sent /\ host' = host
      BY <1>14, <2>1 DEF SweepExpire
    <3> QED BY <3>1, <2>1, <1>a, AnswerOK
  <2>2. CASE ~(isOpen(rows[d]) /\ expired(rows[d], now))
    BY <1>14, <2>2, <1>b DEF SweepExpire
  <2> QED BY <2>1, <2>2
<1>15. ASSUME NEW batch \in Batches(Id), SweepReclaim(batch) PROVE Good
  <2>1. CASE d \in batch
    <3>1. StrandedFlight(rows[d], now) /\ rows'[d] = OutcomeUnknown(rows[d])
            /\ sent' = sent /\ host' = host
      BY <1>15, <2>1 DEF SweepReclaim
    <3> QED BY <3>1, <1>a, OutcomeUnknownOK DEF StrandedFlight
  <2>2. CASE d \notin batch  BY <1>15, <2>2, <1>b DEF SweepReclaim
  <2> QED BY <2>1, <2>2
<1>16. ASSUME NEW batch \in Batches(Id), SweepReplays(batch) PROVE Good
  <2>1. CASE d \in batch /\ ReplayClaimable(rows[d])
    <3>1. /\ sent' = sent /\ host'[d].pc = "held"
          /\ rows'[d] = ReplayClaimed(rows[d], picks[d])
      BY <1>16, <2>1 DEF SweepReplays
    <3>2. picks[d] \in Nat  BY <1>16, <2>1 DEF SweepReplays, TypeOK, Instant
    <3> QED BY <3>1, <3>2, <2>1, <1>a, ClaimReplayOK
  <2>2. CASE ~(d \in batch /\ ReplayClaimable(rows[d]))
    BY <1>16, <2>2, <1>b DEF SweepReplays
  <2> QED BY <2>1, <2>2
<1>20. ASSUME NEW e \in Id, SweepRead(e) PROVE Good
  BY <1>20, <1>b DEF SweepRead
<1>17. ASSUME NEW batch \in Batches(Id), SweepDeliveries(batch) PROVE Good
  <2>1. CASE d \in batch
    <3>1. /\ DeliveryDue(rows[d], now) /\ sent' = sent /\ host'[d].pc = "telling"
          /\ rows'[d] = DeliveryClaimed(rows[d])
      BY <1>17, <2>1 DEF SweepDeliveries
    <3> QED BY <3>1, <1>a, ClaimDeliveryOK
  <2>2. CASE d \notin batch  BY <1>17, <2>2, <1>b DEF SweepDeliveries
  <2> QED BY <2>1, <2>2
<1>18. CASE Crash
  <2>1. CASE \E e \in Id : LoseWork(e)
    <3>1. PICK e \in Id : LoseWork(e)  BY <2>1
    <3>2. rows' = rows /\ sent' = sent
            /\ (e = d => host'[d].pc = "none") /\ (e # d => host'[d] = host[d])
      BY <3>1 DEF LoseWork, NoWork, TypeOK
    <3> QED BY <3>2, <1>a, <1>b, WorkGoneOK, StayMild
  <2>2. CASE ~ \E e \in Id : LoseWork(e)
    BY <1>18, <2>2, <1>b DEF Crash, LoseGate, LoseTab, LosePick
  <2> QED BY <2>1, <2>2
<1>19. CASE UNCHANGED vars  BY <1>19, <1>b DEF vars
<1> QED
  BY <1>1, <1>2, <1>3, <1>4, <1>5, <1>6, <1>7, <1>8, <1>9, <1>10, <1>11, <1>12, <1>13,
     <1>14, <1>15, <1>16, <1>17, <1>18, <1>19, <1>20
  DEF Next, Gate, Person, Sweep
-----------------------------------------------------------------------------

LEMMA ProcessStep == ASSUME ProcessInv, TypeOK, [Next]_vars PROVE ProcessInv'
<1> DEFINE TabsOK == \A t \in Tabs : tabs[t].pc # "idle" => tabs[t].id \in Id
           GatesOK == \A g \in Gates : gates[g].pc = "holding" =>
                        gates[g].owner \in Owner /\ gates[g].key \in Key
<1>1. TabsOK'
  <2>1. CASE tabs' = tabs  BY <2>1 DEF ProcessInv
  <2>2. ASSUME NEW t \in Tabs, TabDone(t) PROVE TabsOK'
    BY <2>2 DEF TabDone, IdleTab, ProcessInv, TypeOK
  <2>3. ASSUME NEW t \in Tabs, NEW d \in Id, ApproveRead(t, d) \/ UndoRead(t, d) PROVE TabsOK'
    BY <2>3 DEF ApproveRead, UndoRead, ProcessInv, TypeOK
  <2> QED
    BY <2>1, <2>2, <2>3
    DEF Next, Gate, Person, Sweep, Crash, Settle, Deliver, vars, Tick, GateTake, GateHold,
        GateReuse, GateRaise, ApproveExpired, ApproveStale, ApproveClaim, ApproveRefused,
        Dismiss, UndoRestore, Settled, SettleSend, SettlePark, SettleReplayed, SettleFailed,
        SettleUnknown, SweepExpire, SweepReclaim, SweepRead, SweepReplays, SweepDeliveries,
        DeliverTold, DeliverFallBack, DeliverPark, LoseGate, LoseTab, LosePick,
        LoseWork
<1>2. GatesOK'
  <2>1. CASE gates' = gates  BY <2>1 DEF ProcessInv
  <2>2. ASSUME NEW g \in Gates, gates' = [gates EXCEPT ![g] = IdleGate] PROVE GatesOK'
    BY <2>2 DEF IdleGate, ProcessInv, TypeOK
  <2>3. ASSUME NEW g \in Gates, NEW o \in Owner, NEW k \in Key, GateHold(g, o, k)
        PROVE GatesOK'
    BY <2>3 DEF GateHold, ProcessInv, TypeOK
  <2> QED
    BY <2>1, <2>2, <2>3
    DEF Next, Gate, Person, Sweep, Crash, Settle, Deliver, vars, Tick, GateTake,
        GateReuse, GateRaise, ApproveRead, UndoRead, ApproveExpired, ApproveStale,
        ApproveClaim, ApproveRefused, Dismiss, UndoRestore, Settled, SettleSend, SettlePark,
        SettleReplayed, SettleFailed, SettleUnknown, SweepExpire, SweepReclaim, SweepRead,
        SweepReplays, SweepDeliveries, DeliverTold, DeliverFallBack, DeliverPark, LoseGate, LoseTab, LosePick,
        LoseWork
<1> QED BY <1>1, <1>2 DEF ProcessInv

LEMMA InvInit == Init => IInv
<1> SUFFICES ASSUME Init PROVE IInv  OBVIOUS
<1>1. TypeOK  BY TypeInit
<1>2. ProcessInv  BY DEF Init, ProcessInv, IdleTab, IdleGate
<1>3. \A d \in Id : /\ rows[d].status = "absent" /\ ~rows[d].consumed /\ ~rows[d].replayed
                    /\ ~rows[d].abandoned /\ ~rows[d].delivered /\ rows[d].claimed = Null
                    /\ host[d].pc = "none" /\ sent[d] = 0
  BY DEF Init, AbsentRow, NoWork
<1>4. RowInv
  BY <1>3 DEF RowInv, RowOK, Untouched, isOpen, Unspent, Authorising, OPEN_STATUSES,
     AUTHORISING_STATUSES
<1>5. OneStanding  BY <1>3 DEF OneStanding, Unspent, Authorising, AUTHORISING_STATUSES
<1>6. PairInv
  BY <1>3 DEF PairInv, Live, Tried, Unspent, Authorising, AUTHORISING_STATUSES
<1> QED BY <1>1, <1>2, <1>4, <1>5, <1>6 DEF IInv

LEMMA InvStep == IInv /\ [Next]_vars => IInv'
<1> SUFFICES ASSUME IInv, [Next]_vars PROVE IInv'  OBVIOUS
<1>1. TypeOK' /\ ProcessInv'  BY TypeStep, ProcessStep DEF IInv
<1>2. RowInv' /\ OneStanding' /\ PairInv'
  <2>1. CASE \E t \in Tabs, how \in {"tell", "park", "defer", "send"} : ApproveClaim(t, how)
    BY <2>1, ClaimStep DEF IInv
  <2>2. CASE ~ \E t \in Tabs, how \in {"tell", "park", "defer", "send"} : ApproveClaim(t, how)
    <3>1. \A d \in Id : RowOK(rows'[d], host'[d].pc, sent'[d]) /\ Mild(rows[d], rows'[d])
      BY <2>2, OtherSteps DEF IInv
    <3> QED BY <3>1, MildStep DEF IInv, RowInv
  <2> QED BY <2>1, <2>2
<1> QED BY <1>1, <1>2 DEF IInv

\* The inductive invariant holds in every reachable state.
THEOREM Invariant == Spec => []IInv
BY InvInit, InvStep, PTL DEF Spec

\* One yes, one call: whatever the interleaving of the agent's cash-in, the
\* host's replay, the delivery's fallback, undo, timeouts and crashes, the
\* held call goes out at most once under a decision.
THEOREM Once == Spec => []AtMostOnce
<1>1. IInv => AtMostOnce
  <2> SUFFICES ASSUME IInv, NEW d \in Id PROVE sent[d] <= 1  BY DEF AtMostOnce
  <2>1. RowOK(rows[d], host[d].pc, sent[d])  BY DEF IInv, RowInv
  <2> QED BY <2>1 DEF RowOK
<1> QED BY <1>1, Invariant, PTL

\* A question that is open (again) has had nothing sent under it, and no
\* host process still works on it: undo never races a replay.
THEOREM CleanUndo == Spec => []UndoIsClean
<1>1. IInv => UndoIsClean
  BY DEF IInv, RowInv, RowOK, Untouched, UndoIsClean, isOpen
<1> QED BY <1>1, Invariant, PTL

\* The unique index's rule holds in every state, so the gate's UPDATE never
\* spends two yeses for one call.
THEOREM SingleStanding == Spec => []OneStanding
<1>1. IInv => OneStanding  BY DEF IInv
<1> QED BY <1>1, Invariant, PTL

\* Two questions for the same call of one person are both acted on only if
\* one was raised after the recorded answer of the other.
THEOREM RepeatsAreAsked == Spec => []RepeatOnlyAfterAnswer
<1>1. IInv => RepeatOnlyAfterAnswer
  <2> SUFFICES ASSUME IInv PROVE RepeatOnlyAfterAnswer  OBVIOUS
  <2>1. ASSUME NEW d \in Id, sent[d] > 0 PROVE Live(rows[d])
    <3>1. RowOK(rows[d], host[d].pc, sent[d]) /\ rows[d] \in DecisionRow /\ sent[d] \in Int
      BY DEF IInv, RowInv, TypeOK
    <3> QED
      BY <2>1, <3>1 DEF RowOK, Untouched, FailedOK, Live, Tried, Unspent, Authorising,
         DecisionRow, DecisionStatus, OPEN_STATUSES, UNDOABLE_STATUSES, AUTHORISING_STATUSES
  <2> QED BY <2>1 DEF IInv, PairInv, RepeatOnlyAfterAnswer
<1> QED BY <1>1, Invariant, PTL

\* A question that expired or failed for good never authorises anything
\* again; only the answer of a call that had already gone out reopens it.
THEOREM ClosedIsFinal == Spec => ClosedStaysClosed
<1>1. IInv /\ [Next]_vars =>
        [\A d \in Id :
           rows[d].status \in {"expired", "failed"} /\ rows'[d] # rows[d]
             => rows'[d].replayed /\ sent[d] = 1]_vars
  <2> SUFFICES ASSUME IInv, [Next]_vars, NEW d \in Id,
                      rows[d].status \in {"expired", "failed"}, rows'[d] # rows[d]
               PROVE  rows'[d].replayed /\ sent[d] = 1
    OBVIOUS
  <2>a. rows[d] \in DecisionRow /\ RowOK(rows[d], host[d].pc, sent[d]) /\ sent[d] \in Int
    BY DEF IInv, TypeOK, RowInv
  <2>b. rows \in [Id -> DecisionRow] /\ host \in [Id -> HostState]  BY DEF IInv, TypeOK
  <2>1. SettleReplayed(d)
    <3>1. CASE Tick  BY <3>1 DEF Tick
    <3>2. CASE Gate
      BY <3>2, <2>b DEF Gate, GateTake, GateHold, GateReuse, GateRaise, Takeable, Unspent,
         Authorising, AUTHORISING_STATUSES
    <3>3. CASE Person
      BY <3>3, <2>b DEF Person, ApproveRead, ApproveExpired, ApproveStale, ApproveClaim,
         ApproveRefused, Dismiss, UndoRead, UndoRestore, transition, isOpen, OPEN_STATUSES,
         Restorable, UNDOABLE_STATUSES, AUTHORISING_STATUSES
    <3>4. ASSUME NEW e \in Id, Settle(e) PROVE SettleReplayed(d)
      BY <3>4, <2>b DEF Settle, Settled, SettleSend, SettlePark, SettleReplayed,
         SettleFailed, SettleUnknown, transition
    <3>5. ASSUME NEW e \in Id, Deliver(e) PROVE SettleReplayed(d)
      BY <3>5, <2>b DEF Deliver, Settled, DeliverTold, DeliverFallBack, DeliverPark,
         FlightFree, transition
    <3>6. CASE Sweep
      BY <3>6, <2>b DEF Sweep, SweepExpire, SweepReclaim, SweepRead, SweepReplays, SweepDeliveries,
         isOpen, OPEN_STATUSES, StrandedFlight, ReplayClaimable, DeliveryDue
    <3>7. CASE Crash  BY <3>7 DEF Crash, LoseGate, LoseTab, LosePick, LoseWork
    <3>8. CASE UNCHANGED vars  BY <3>8 DEF vars
    <3> QED BY <3>1, <3>2, <3>3, <3>4, <3>5, <3>6, <3>7, <3>8 DEF Next
  <2>2. rows'[d] = Replayed(rows[d], host[d].at) /\ host[d].pc = "sending"
    BY <2>1, <2>b DEF SettleReplayed, Settled
  <2>3. rows'[d].replayed  BY <2>2, <2>a DEF Replayed, DecisionRow
  <2>4. sent[d] = 1  BY <2>2, <2>a DEF RowOK
  <2> QED BY <2>3, <2>4
<1> QED BY <1>1, Invariant, PTL DEF ClosedStaysClosed, Spec

-----------------------------------------------------------------------------
(* The queue implements the authority it promises.                         *)

\* StandingOf, of one row and of what went out under it.
Stand(r, n) ==
  CASE r.status = "absent" -> "unasked"
    [] isOpen(r) -> "open"
    [] r.status \notin {"absent"} \union OPEN_STATUSES /\ (n > 0 \/ r.abandoned) -> "out"
    [] Authorising(r) /\ n <= 0 /\ ~r.abandoned -> "granted"
    [] r.status = "dismissed" /\ n <= 0 /\ ~r.abandoned -> "declined"
    [] OTHER -> "closed"

\* Where a row that is right stands.
LEMMA StandIs ==
  ASSUME NEW r \in DecisionRow, NEW pc, NEW n, RowOK(r, pc, n)
  PROVE  /\ r.status = "absent" => Stand(r, n) = "unasked"
         /\ isOpen(r) => Stand(r, n) = "open"
         /\ Unspent(r) => Stand(r, n) = IF n = 0 THEN "granted" ELSE "out"
         /\ Authorising(r) /\ ~Unspent(r) => Stand(r, n) = "out"
         /\ r.status = "dismissed" => Stand(r, n) = "declined"
         /\ r.status = "expired" => Stand(r, n) = "closed"
         /\ r.status = "failed" => Stand(r, n) = IF r.abandoned THEN "out" ELSE "closed"
         /\ Stand(r, n) = "granted" => Unspent(r)
<1>1. r.status \in OPEN_STATUSES \union AUTHORISING_STATUSES \union {"absent", "dismissed", "expired", "failed"}
  BY DEF DecisionRow, DecisionStatus, UNDOABLE_STATUSES
<1>2. n \in {0, 1}
  BY DEF RowOK
<1>3. CASE r.status \in {"absent", "dismissed", "expired"}
  <2>1. n = 0 /\ ~r.abandoned
    BY <1>3 DEF RowOK, Untouched
  <2> QED
    BY <1>3, <2>1 DEF Stand, isOpen, Authorising, Unspent, OPEN_STATUSES, AUTHORISING_STATUSES
<1>4. CASE isOpen(r)
  BY <1>4 DEF Stand, isOpen, Authorising, Unspent, OPEN_STATUSES, AUTHORISING_STATUSES
<1>5. CASE Authorising(r)
  <2>1. ~r.abandoned /\ (~Unspent(r) => n = 1)
    BY <1>5 DEF RowOK, SpentOK
  <2> QED
    BY <1>2, <1>5, <2>1 DEF Stand, isOpen, Authorising, Unspent, OPEN_STATUSES, AUTHORISING_STATUSES
<1>6. CASE r.status = "failed"
  <2>1. ~r.abandoned => n = 0
    BY <1>6 DEF RowOK, FailedOK
  <2> QED
    BY <1>6, <2>1 DEF Stand, isOpen, Authorising, Unspent, OPEN_STATUSES, AUTHORISING_STATUSES
<1> QED BY <1>1, <1>3, <1>4, <1>5, <1>6 DEF isOpen, Authorising

\* Steps of the rows and steps of the authority.
LEMMA Moves ==
  ASSUME NEW S \in SUBSET Id, NEW from, NEW to,
         \A d \in Id : rows'[d].key = rows[d].key,
         \A d \in S : StandingOf(d) \in from /\ StandingOf(d)' = to,
         \A d \in Id \ S : StandingOf(d)' = StandingOf(d)
  PROVE  Authority!Move(S, from, to)
BY DEF Authority!Move

LEMMA Stays ==
  ASSUME \A d \in Id : rows'[d].key = rows[d].key /\ StandingOf(d)' = StandingOf(d)
  PROVE  UNCHANGED Authority!authorityVars
BY DEF Authority!authorityVars

\* What every step has of a row, before and after.
LEMMA Rows ==
  ASSUME IInv, IInv', NEW d \in Id
  PROVE  /\ rows[d] \in DecisionRow /\ RowOK(rows[d], host[d].pc, sent[d])
         /\ rows'[d] \in DecisionRow /\ RowOK(rows'[d], host'[d].pc, sent'[d])
         /\ StandingOf(d) = Stand(rows[d], sent[d])
         /\ StandingOf(d)' = Stand(rows'[d], sent'[d])
         /\ sent[d] \in {0, 1} /\ sent'[d] \in {0, 1}
<1>1. rows[d] \in DecisionRow /\ RowOK(rows[d], host[d].pc, sent[d])
  BY DEF IInv, TypeOK, RowInv
<1>2. rows'[d] \in DecisionRow /\ RowOK(rows'[d], host'[d].pc, sent'[d])
  BY DEF IInv, TypeOK, RowInv
<1>3. StandingOf(d) = Stand(rows[d], sent[d]) /\ StandingOf(d)' = Stand(rows'[d], sent'[d])
  BY DEF StandingOf, Stand
<1> QED BY <1>1, <1>2, <1>3 DEF RowOK

LEMMA SameRow ==
  ASSUME IInv, IInv', NEW d \in Id, rows'[d] = rows[d], sent'[d] = sent[d]
  PROVE  rows'[d].key = rows[d].key /\ StandingOf(d)' = StandingOf(d)
BY Rows

\* Steps that touch at most one row.
LEMMA OneMoves ==
  ASSUME IInv, IInv', NEW d \in Id, NEW from, NEW to,
         \A e \in Id \ {d} : rows'[e] = rows[e] /\ sent'[e] = sent[e],
         rows'[d].key = rows[d].key, StandingOf(d) \in from, StandingOf(d)' = to
  PROVE  Authority!Move({d}, from, to)
<1>1. \A e \in Id \ {d} : rows'[e].key = rows[e].key /\ StandingOf(e)' = StandingOf(e)
  BY SameRow
<1>2. \A e \in Id : rows'[e].key = rows[e].key  BY <1>1
<1>3. \A e \in {d} : StandingOf(e) \in from /\ StandingOf(e)' = to
  <2> TAKE e \in {d}
  <2> QED BY e = d
<1>4. {d} \in SUBSET Id  OBVIOUS
<1> QED BY <1>1, <1>2, <1>3, <1>4, Moves

LEMMA OneStays ==
  ASSUME IInv, IInv', NEW d \in Id,
         \A e \in Id \ {d} : rows'[e] = rows[e] /\ sent'[e] = sent[e],
         rows'[d].key = rows[d].key, StandingOf(d)' = StandingOf(d)
  PROVE  UNCHANGED Authority!authorityVars
<1>1. \A e \in Id \ {d} : rows'[e].key = rows[e].key /\ StandingOf(e)' = StandingOf(e)
  BY SameRow
<1>2. \A e \in Id : rows'[e].key = rows[e].key /\ StandingOf(e)' = StandingOf(e)
  <2> TAKE e \in Id
  <2>1. CASE e = d
    <3> QED BY <2>1
  <2>2. CASE e # d  BY <2>2, <1>1
  <2> QED BY <2>1, <2>2
<1> QED BY <1>2, Stays

LEMMA QuietStays ==
  ASSUME IInv, IInv', rows' = rows, sent' = sent
  PROVE  UNCHANGED Authority!authorityVars
<1>1. \A e \in Id : rows'[e].key = rows[e].key /\ StandingOf(e)' = StandingOf(e)
  BY SameRow
<1> QED BY <1>1, Stays

\* The gate, the person, the host and the sweep, step by step.
LEMMA TakeGoesOut ==
  ASSUME IInv, IInv', NEW k \in Key, GateTake(k)
  PROVE  \E S \in SUBSET Id : Authority!GoOut(S)
<1> DEFINE S == {d \in Id : rows[d].key = k /\ Takeable(rows[d])}
<1>1. ASSUME NEW d \in S
      PROVE  /\ StandingOf(d) = "granted" /\ StandingOf(d)' = "out"
             /\ rows'[d].key = rows[d].key
  <2>1. d \in Id /\ Takeable(rows[d]) /\ rows'[d] = Taken(rows[d]) /\ sent'[d] = sent[d] + 1
    BY DEF GateTake
  <2>2. rows[d] \in DecisionRow /\ RowOK(rows[d], host[d].pc, sent[d])  BY <2>1, Rows
  <2>3. Unspent(rows[d]) /\ sent[d] = 0
    BY <2>1, <2>2 DEF RowOK, Takeable, StandingOK
  <2>4. StandingOf(d) = "granted"  BY <2>1, <2>2, <2>3, Rows, StandIs
  <2>5. rows'[d].key = rows[d].key /\ rows'[d].status = rows[d].status /\ rows'[d].consumed
    BY <2>1, <2>2 DEF Taken, DecisionRow
  <2>6. Authorising(rows'[d]) /\ ~Unspent(rows'[d])
    BY <2>3, <2>5 DEF Unspent, Authorising
  <2>7. StandingOf(d)' = "out"  BY <2>1, <2>6, Rows, StandIs
  <2> QED BY <2>4, <2>5, <2>7
<1>2. ASSUME NEW d \in Id \ S
      PROVE  rows'[d].key = rows[d].key /\ StandingOf(d)' = StandingOf(d)
  BY SameRow DEF GateTake
<1>3. \A d \in Id : rows'[d].key = rows[d].key  BY <1>1, <1>2
<1>4. S \in SUBSET Id  OBVIOUS
<1> HIDE DEF S
<1>5. Authority!Move(S, {"granted"}, "out")  BY <1>1, <1>2, <1>3, <1>4, Moves
<1> QED BY <1>4, <1>5 DEF Authority!GoOut

LEMMA RaiseAsks ==
  ASSUME IInv, IInv', NEW g \in Gates, NEW d \in Id, NEW shape \in Shapes,
         GateRaise(g, d, shape)
  PROVE  \E c \in Key : Authority!Ask(d, c)
<1>1. PICK c \in Key : c = gates[g].key  BY DEF GateRaise, IInv, ProcessInv
<1>2. /\ rows[d].status = "absent" /\ sent' = sent
      /\ rows' = [rows EXCEPT ![d] = HeldRow(gates[g].owner, gates[g].key, shape[1], shape[2], gates[g].at)]
  BY DEF GateRaise
<1>3. rows'[d].status = "pending" /\ rows'[d].key = c
  BY <1>1, <1>2 DEF IInv, TypeOK, HeldRow, AbsentRow
<1>4. StandingOf(d) = "unasked"  BY <1>2, Rows, StandIs
<1>5. StandingOf(d)' = "open"  BY <1>3, Rows, StandIs DEF isOpen, OPEN_STATUSES
<1>6. \A e \in Id \ {d} : rows'[e] = rows[e] /\ sent'[e] = sent[e]  BY <1>2 DEF IInv, TypeOK
<1>7. \A e \in Id \ {d} : rows'[e].key = rows[e].key /\ StandingOf(e)' = StandingOf(e)
  BY <1>6, SameRow
<1>8. [e \in Id |-> rows'[e].key] = [[e \in Id |-> rows[e].key] EXCEPT ![d] = c]
  BY <1>3, <1>7
<1>9. [e \in Id |-> StandingOf(e)'] = [[e \in Id |-> StandingOf(e)] EXCEPT ![d] = "open"]
  BY <1>5, <1>7
<1>10. Authority!Ask(d, c)  BY <1>4, <1>8, <1>9 DEF Authority!Ask
<1> QED BY <1>10

LEMMA ClaimGrants ==
  ASSUME IInv, IInv', NEW t \in Tabs, NEW how \in {"tell", "park", "defer", "send"},
         ApproveClaim(t, how)
  PROVE  \E d \in Id : Authority!Grant(d)
<1>1. PICK d \in Id : d = tabs[t].id  BY DEF ApproveClaim, IInv, ProcessInv
<1> DEFINE s == Claimed(rows[d], how, tabs[t].at)
<1>2. isOpen(rows[d]) /\ ~SlotTaken(rows, d) /\ sent' = sent /\ rows' = [rows EXCEPT ![d] = s]
  BY <1>1 DEF ApproveClaim
<1>0. tabs[t].at \in Nat  BY DEF IInv, TypeOK, TabState
<1>3. rows[d] \in DecisionRow /\ RowOK(rows[d], host[d].pc, sent[d]) /\ sent[d] \in Int
  BY <1>1, Rows
<1>4. Unspent(s) /\ s.key = rows[d].key  BY <1>0, <1>2, <1>3, ClaimedOK
<1> HIDE DEF s
<1>5. rows'[d] = s  BY <1>1, <1>2 DEF IInv, TypeOK
<1>6. sent[d] = 0  BY <1>2, <1>3 DEF RowOK, Untouched, isOpen
<1>7. StandingOf(d) = "open"  BY <1>1, <1>2, Rows, StandIs
<1>8. StandingOf(d)' = "granted"  BY <1>1, <1>2, <1>4, <1>5, <1>6, Rows, StandIs
<1>9. \A e \in Id \ {d} : rows'[e] = rows[e] /\ sent'[e] = sent[e]
  BY <1>1, <1>2 DEF IInv, TypeOK
<1>10. Authority!Move({d}, {"open"}, "granted")
  BY <1>1, <1>4, <1>5, <1>7, <1>8, <1>9, OneMoves
<1>11. ASSUME NEW e \in Id, e # d, rows[e].key = rows[d].key PROVE StandingOf(e) # "granted"
  <2>1. ~Unspent(rows[e])  BY <1>2, <1>11 DEF SlotTaken
  <2> QED BY <2>1, Rows, StandIs
<1> QED BY <1>1, <1>10, <1>11 DEF Authority!Grant

LEMMA ExpiredLapses ==
  ASSUME IInv, IInv', NEW t \in Tabs, ApproveExpired(t)
  PROVE  (\E S \in SUBSET Id : Authority!Lapse(S)) \/ UNCHANGED Authority!authorityVars
<1>1. PICK d \in Id : d = tabs[t].id  BY DEF ApproveExpired, IInv, ProcessInv
<1>2. sent' = sent /\ rows' = [rows EXCEPT ![d] =
        transition(rows[d], OPEN_STATUSES, Answered(rows[d], "expired", tabs[t].at))]
  BY <1>1 DEF ApproveExpired
<1>3. CASE isOpen(rows[d])
  <2>1. rows'[d] = Answered(rows[d], "expired", tabs[t].at)
    BY <1>2, <1>3 DEF transition, isOpen, IInv, TypeOK
  <2>2. rows'[d].status = "expired" /\ rows'[d].key = rows[d].key
    BY <2>1, Rows DEF Answered, DecisionRow
  <2>3. StandingOf(d) = "open" /\ StandingOf(d)' = "closed"  BY <1>3, <2>2, Rows, StandIs
  <2>4. \A e \in Id \ {d} : rows'[e] = rows[e] /\ sent'[e] = sent[e]
    BY <1>2 DEF IInv, TypeOK
  <2>5. Authority!Move({d}, {"open"}, "closed")  BY <2>2, <2>3, <2>4, OneMoves
  <2> QED BY <2>5 DEF Authority!Lapse
<1>4. CASE ~isOpen(rows[d])
  BY <1>2, <1>4, QuietStays DEF transition, isOpen, IInv, TypeOK
<1> QED BY <1>3, <1>4

LEMMA StaleStays ==
  ASSUME IInv, IInv', NEW t \in Tabs, ApproveStale(t)
  PROVE  UNCHANGED Authority!authorityVars
<1>1. PICK d \in Id : d = tabs[t].id  BY DEF ApproveStale, IInv, ProcessInv
<1>2. sent' = sent /\ rows' = [rows EXCEPT ![d] =
        transition(rows[d], OPEN_STATUSES, Answered(rows[d], "stale", Null))]
  BY <1>1 DEF ApproveStale
<1>3. CASE isOpen(rows[d])
  <2>1. rows'[d] = Answered(rows[d], "stale", Null)
    BY <1>2, <1>3 DEF transition, isOpen, IInv, TypeOK
  <2>2. isOpen(rows'[d]) /\ rows'[d].key = rows[d].key
    BY <2>1, Rows DEF Answered, DecisionRow, isOpen, OPEN_STATUSES
  <2>3. StandingOf(d) = "open" /\ StandingOf(d)' = "open"  BY <1>3, <2>2, Rows, StandIs
  <2>4. \A e \in Id \ {d} : rows'[e] = rows[e] /\ sent'[e] = sent[e]
    BY <1>2 DEF IInv, TypeOK
  <2> QED BY <2>2, <2>3, <2>4, OneStays
<1>4. CASE ~isOpen(rows[d])
  BY <1>2, <1>4, QuietStays DEF transition, isOpen, IInv, TypeOK
<1> QED BY <1>3, <1>4

LEMMA DismissDeclines ==
  ASSUME IInv, IInv', NEW d \in Id, Dismiss(d)
  PROVE  Authority!Decline(d)
<1>1. isOpen(rows[d]) /\ sent' = sent /\ rows'[d] = Answered(rows[d], "dismissed", now)
  BY DEF Dismiss, IInv, TypeOK
<1>2. rows'[d].status = "dismissed" /\ rows'[d].key = rows[d].key
  BY <1>1, Rows DEF Answered, DecisionRow
<1>3. StandingOf(d) = "open" /\ StandingOf(d)' = "declined"  BY <1>1, <1>2, Rows, StandIs
<1>4. \A e \in Id \ {d} : rows'[e] = rows[e] /\ sent'[e] = sent[e]
  BY DEF Dismiss, IInv, TypeOK
<1> QED BY <1>2, <1>3, <1>4, OneMoves DEF Authority!Decline

LEMMA RestoreWithdraws ==
  ASSUME IInv, IInv', NEW t \in Tabs, UndoRestore(t)
  PROVE  (\E d \in Id : Authority!Withdraw(d)) \/ UNCHANGED Authority!authorityVars
<1>1. PICK d \in Id : d = tabs[t].id  BY DEF UndoRestore, IInv, ProcessInv
<1>2. CASE Restorable(rows[d])
  <2>1. sent' = sent /\ rows' = [rows EXCEPT ![d] = Restored(rows[d])]
    BY <1>1, <1>2 DEF UndoRestore
  <2>2. rows'[d] = Restored(rows[d])  BY <2>1 DEF IInv, TypeOK
  <2>3. isOpen(rows'[d]) /\ rows'[d].key = rows[d].key
    BY <2>2, Rows DEF Restored, DecisionRow, isOpen, OPEN_STATUSES
  <2>4. StandingOf(d) \in {"granted", "declined"}
    <3>1. CASE rows[d].status = "dismissed"  BY <3>1, Rows, StandIs
    <3>2. CASE rows[d].status # "dismissed"
      <4>1. Unspent(rows[d])
        BY <1>2, <3>2 DEF Restorable, Unspent, Authorising, UNDOABLE_STATUSES, AUTHORISING_STATUSES
      <4>2. sent[d] = 0
        BY <1>2, <4>1, Rows DEF Restorable, RowOK, StandingOK
      <4> QED BY <4>1, <4>2, Rows, StandIs
    <3> QED BY <3>1, <3>2
  <2>5. StandingOf(d)' = "open"  BY <2>3, Rows, StandIs
  <2>6. \A e \in Id \ {d} : rows'[e] = rows[e] /\ sent'[e] = sent[e]
    BY <2>1 DEF IInv, TypeOK
  <2> QED BY <2>3, <2>4, <2>5, <2>6, OneMoves DEF Authority!Withdraw
<1>3. CASE ~Restorable(rows[d])  BY <1>1, <1>3, QuietStays DEF UndoRestore
<1> QED BY <1>2, <1>3

LEMMA SendGoesOut ==
  ASSUME IInv, IInv', NEW d \in Id, SettleSend(d)
  PROVE  (\E S \in SUBSET Id : Authority!GoOut(S)) \/ UNCHANGED Authority!authorityVars
<1>1. host[d].pc = "held" /\ rows' = rows /\ sent' = [sent EXCEPT ![d] = @ + 1]
  BY DEF SettleSend
<1>2. sent[d] = 0 /\ sent'[d] = 1  BY <1>1, Rows DEF RowOK, IInv, TypeOK
<1>3. \A e \in Id \ {d} : rows'[e] = rows[e] /\ sent'[e] = sent[e]
  BY <1>1 DEF IInv, TypeOK
<1>4. rows'[d] = rows[d]  BY <1>1
<1>5. CASE Unspent(rows[d])
  <2>1. StandingOf(d) = "granted" /\ StandingOf(d)' = "out"  BY <1>2, <1>4, <1>5, Rows, StandIs
  <2>2. Authority!Move({d}, {"granted"}, "out")  BY <1>3, <1>4, <2>1, OneMoves
  <2> QED BY <2>2 DEF Authority!GoOut
<1>6. CASE ~Unspent(rows[d])
  <2>1. rows[d].status = "failed" /\ rows[d].abandoned
    BY <1>1, <1>2, <1>6, Rows DEF RowOK, Untouched, SpentOK, FailedOK, DecisionRow, DecisionStatus,
       OPEN_STATUSES, UNDOABLE_STATUSES, AUTHORISING_STATUSES, Authorising
  <2>2. StandingOf(d) = "out" /\ StandingOf(d)' = "out"  BY <1>4, <2>1, Rows, StandIs
  <2> QED BY <1>3, <1>4, <2>2, OneStays
<1> QED BY <1>5, <1>6

LEMMA ParkStays ==
  ASSUME IInv, IInv', NEW d \in Id, SettlePark(d) \/ DeliverPark(d)
  PROVE  UNCHANGED Authority!authorityVars
<1>1. /\ rows'[d] = transition(rows[d], {"executed"}, Parked(rows[d])) /\ sent' = sent
      /\ host[d].pc \in {"held", "telling"}
      /\ \A e \in Id \ {d} : rows'[e] = rows[e] /\ sent'[e] = sent[e]
  BY DEF SettlePark, DeliverPark, Settled, IInv, TypeOK
<1>2. CASE rows[d].status = "executed"
  <2>1. rows'[d] = Parked(rows[d])  BY <1>1, <1>2 DEF transition
  <2>2. /\ rows'[d].key = rows[d].key /\ rows'[d].status = "approved-pending-agent"
        /\ rows'[d].consumed = rows[d].consumed /\ rows'[d].replayed = rows[d].replayed
    BY <2>1, Rows DEF Parked, DecisionRow
  <2>3. Authorising(rows[d]) /\ Authorising(rows'[d]) /\ (Unspent(rows'[d]) <=> Unspent(rows[d]))
    BY <1>2, <2>2 DEF Authorising, Unspent, AUTHORISING_STATUSES
  <2>4. StandingOf(d)' = StandingOf(d)  BY <1>1, <2>3, Rows, StandIs
  <2> QED BY <1>1, <2>2, <2>4, OneStays
<1>3. CASE rows[d].status # "executed"
  <2>1. rows'[d] = rows[d] /\ sent'[d] = sent[d]  BY <1>1, <1>3 DEF transition
  <2> QED BY <1>1, <2>1, SameRow, OneStays
<1> QED BY <1>2, <1>3

LEMMA ReplayedStays ==
  ASSUME IInv, IInv', NEW d \in Id, SettleReplayed(d)
  PROVE  UNCHANGED Authority!authorityVars
<1>1. /\ rows'[d] = Replayed(rows[d], host[d].at) /\ sent' = sent /\ host[d].pc = "sending"
      /\ \A e \in Id \ {d} : rows'[e] = rows[e] /\ sent'[e] = sent[e]
  BY DEF SettleReplayed, Settled, IInv, TypeOK
<1>2. StandingOf(d) = "out"
  <2>1. RowOK(rows[d], "sending", sent[d]) /\ sent[d] \in Int /\ rows[d] \in DecisionRow
    BY <1>1, Rows
  <2>2. sent[d] = 1 /\ \/ Authorising(rows[d]) /\ Unspent(rows[d])
                       \/ rows[d].status = "failed" /\ rows[d].abandoned
    BY <2>1, SendingRow DEF Unspent, Authorising, AUTHORISING_STATUSES
  <2> QED BY <2>2, Rows, StandIs
<1>3. rows'[d].key = rows[d].key /\ Authorising(rows'[d]) /\ ~Unspent(rows'[d])
  BY <1>1, Rows DEF Replayed, DecisionRow, Authorising, Unspent, AUTHORISING_STATUSES
<1>4. StandingOf(d)' = "out"  BY <1>3, Rows, StandIs
<1> QED BY <1>1, <1>2, <1>3, <1>4, OneStays

LEMMA FailedCloses ==
  ASSUME IInv, IInv', NEW d \in Id, SettleFailed(d)
  PROVE  Authority!ReportFailure(d) \/ UNCHANGED Authority!authorityVars
<1>1. /\ rows'[d] = transition(rows[d], {"executed"}, Failed(rows[d])) /\ host[d].pc = "sending"
      /\ \A e \in Id \ {d} : rows'[e] = rows[e] /\ sent'[e] = sent[e]
  BY DEF SettleFailed, Settled, IInv, TypeOK
<1>2. RowOK(rows[d], "sending", sent[d]) /\ sent[d] \in Int /\ rows[d] \in DecisionRow
  BY <1>1, Rows
<1>3. CASE rows[d].status = "executed"
  <2>1. sent[d] = 1 /\ Unspent(rows[d]) /\ ~rows[d].abandoned
    BY <1>2, <1>3, SendingRow DEF Unspent, Authorising, AUTHORISING_STATUSES
  <2>2. rows'[d].status = "failed" /\ ~rows'[d].abandoned /\ rows'[d].key = rows[d].key
    BY <1>1, <1>2, <1>3, <2>1 DEF transition, Failed, DecisionRow
  <2>3. StandingOf(d) = "out" /\ StandingOf(d)' = "closed"  BY <2>1, <2>2, Rows, StandIs
  <2> QED BY <1>1, <2>2, <2>3, OneMoves DEF Authority!ReportFailure
<1>4. CASE rows[d].status # "executed"
  <2>1. rows'[d] = rows[d] /\ rows[d].status = "failed" /\ rows[d].abandoned
    BY <1>1, <1>2, <1>4, SendingRow DEF transition
  <2>2. StandingOf(d) = "out" /\ StandingOf(d)' = "out"  BY <2>1, Rows, StandIs
  <2> QED BY <1>1, <2>1, <2>2, OneStays
<1> QED BY <1>3, <1>4

LEMMA UnknownStays ==
  ASSUME IInv, IInv', NEW d \in Id, SettleUnknown(d)
  PROVE  UNCHANGED Authority!authorityVars
<1>1. /\ rows'[d] = transition(rows[d], {"executed"}, OutcomeUnknown(rows[d]))
      /\ host[d].pc = "sending" /\ sent' = sent
      /\ \A e \in Id \ {d} : rows'[e] = rows[e] /\ sent'[e] = sent[e]
  BY DEF SettleUnknown, Settled, IInv, TypeOK
<1>2. RowOK(rows[d], "sending", sent[d]) /\ sent[d] \in Int /\ rows[d] \in DecisionRow
  BY <1>1, Rows
<1>3. CASE rows[d].status = "executed"
  <2>1. sent[d] = 1 /\ Unspent(rows[d])
    BY <1>2, <1>3, SendingRow DEF Unspent, Authorising, AUTHORISING_STATUSES
  <2>2. rows'[d].status = "failed" /\ rows'[d].abandoned /\ rows'[d].key = rows[d].key
    BY <1>1, <1>2, <1>3 DEF transition, OutcomeUnknown, DecisionRow
  <2>3. StandingOf(d) = "out" /\ StandingOf(d)' = "out"  BY <2>1, <2>2, Rows, StandIs
  <2> QED BY <1>1, <2>2, <2>3, OneStays
<1>4. CASE rows[d].status # "executed"
  <2>1. rows'[d] = rows[d] /\ sent'[d] = sent[d]  BY <1>1, <1>4 DEF transition
  <2> QED BY <1>1, <2>1, SameRow, OneStays
<1> QED BY <1>3, <1>4

LEMMA FallBackStays ==
  ASSUME IInv, IInv', NEW d \in Id, DeliverFallBack(d)
  PROVE  UNCHANGED Authority!authorityVars
<1>1. CASE FlightFree(rows[d])
  <2>1. /\ rows'[d] = FlightTaken(rows[d], host[d].at) /\ sent' = sent
        /\ \A e \in Id \ {d} : rows'[e] = rows[e] /\ sent'[e] = sent[e]
    BY <1>1 DEF DeliverFallBack, IInv, TypeOK
  <2>2. /\ rows'[d].key = rows[d].key /\ Unspent(rows[d]) /\ Unspent(rows'[d])
    BY <1>1, <2>1, Rows DEF FlightFree, FlightTaken, DecisionRow, Unspent, Authorising,
       AUTHORISING_STATUSES
  <2>3. StandingOf(d)' = StandingOf(d)  BY <2>1, <2>2, Rows, StandIs
  <2> QED BY <2>1, <2>2, <2>3, OneStays
<1>2. CASE ~FlightFree(rows[d])  BY <1>2, QuietStays DEF DeliverFallBack
<1> QED BY <1>1, <1>2

LEMMA ExpireLapses ==
  ASSUME IInv, IInv', SweepExpire
  PROVE  \E S \in SUBSET Id : Authority!Lapse(S)
<1> DEFINE S == {d \in Id : isOpen(rows[d]) /\ expired(rows[d], now)}
<1>1. ASSUME NEW d \in S
      PROVE  /\ StandingOf(d) = "open" /\ StandingOf(d)' = "closed"
             /\ rows'[d].key = rows[d].key
  <2>1. d \in Id /\ isOpen(rows[d]) /\ rows'[d] = Answered(rows[d], "expired", now)
    BY DEF SweepExpire
  <2>2. rows'[d].key = rows[d].key /\ rows'[d].status = "expired"
    BY <2>1, Rows DEF Answered, DecisionRow
  <2> QED BY <2>1, <2>2, Rows, StandIs
<1>2. ASSUME NEW d \in Id \ S
      PROVE  rows'[d].key = rows[d].key /\ StandingOf(d)' = StandingOf(d)
  BY SameRow DEF SweepExpire
<1>3. \A d \in Id : rows'[d].key = rows[d].key  BY <1>1, <1>2
<1>4. S \in SUBSET Id  OBVIOUS
<1> HIDE DEF S
<1>5. Authority!Move(S, {"open"}, "closed")  BY <1>1, <1>2, <1>3, <1>4, Moves
<1> QED BY <1>4, <1>5 DEF Authority!Lapse

LEMMA ReclaimGoesOut ==
  ASSUME IInv, IInv', NEW batch \in Batches(Id), SweepReclaim(batch)
  PROVE  \E S \in SUBSET Id : Authority!GoOut(S)
<1> DEFINE S == {d \in batch : sent[d] = 0}
<1>a. batch \subseteq Id  BY DEF Batches
<1>1. ASSUME NEW d \in batch
      PROVE  /\ d \in Id /\ StandingOf(d) = IF sent[d] = 0 THEN "granted" ELSE "out"
             /\ StandingOf(d)' = "out" /\ rows'[d].key = rows[d].key
  <2>1. /\ d \in Id /\ StrandedFlight(rows[d], now) /\ rows'[d] = OutcomeUnknown(rows[d])
    BY <1>a DEF SweepReclaim
  <2>2. rows'[d].key = rows[d].key /\ rows'[d].status = "failed" /\ rows'[d].abandoned
    BY <2>1, Rows DEF OutcomeUnknown, DecisionRow
  <2>3. Unspent(rows[d])
    BY <2>1 DEF StrandedFlight, Unspent, Authorising, AUTHORISING_STATUSES
  <2> QED BY <2>1, <2>2, <2>3, Rows, StandIs
<1>2. ASSUME NEW d \in Id \ batch
      PROVE  rows'[d].key = rows[d].key /\ StandingOf(d)' = StandingOf(d)
  BY SameRow DEF SweepReclaim
<1>3. \A d \in Id : rows'[d].key = rows[d].key  BY <1>1, <1>2
<1>4. S \in SUBSET Id  BY <1>a
<1>5. \A d \in S : StandingOf(d) \in {"granted"} /\ StandingOf(d)' = "out"  BY <1>1
<1>6. \A d \in Id \ S : StandingOf(d)' = StandingOf(d)
  <2> SUFFICES ASSUME NEW d \in Id \ S PROVE StandingOf(d)' = StandingOf(d)  OBVIOUS
  <2>1. CASE d \in batch  BY <2>1, <1>1
  <2>2. CASE d \notin batch  BY <2>2, <1>2
  <2> QED BY <2>1, <2>2
<1> HIDE DEF S
<1>7. Authority!Move(S, {"granted"}, "out")  BY <1>3, <1>4, <1>5, <1>6, Moves
<1> QED BY <1>4, <1>7 DEF Authority!GoOut

LEMMA ReplaysStay ==
  ASSUME IInv, IInv', NEW batch \in Batches(Id), SweepReplays(batch)
  PROVE  UNCHANGED Authority!authorityVars
<1>1. ASSUME NEW d \in Id
      PROVE  rows'[d].key = rows[d].key /\ StandingOf(d)' = StandingOf(d)
  <2>1. CASE d \in batch /\ ReplayClaimable(rows[d])
    <3>1. rows'[d] = ReplayClaimed(rows[d], picks[d]) /\ sent' = sent
      BY <2>1 DEF SweepReplays
    <3>2. /\ rows'[d].key = rows[d].key /\ Authorising(rows[d]) /\ Authorising(rows'[d])
          /\ Unspent(rows'[d]) <=> Unspent(rows[d])
      BY <2>1, <3>1, Rows DEF ReplayClaimable, ReplayClaimed, DecisionRow, Unspent, Authorising,
         AUTHORISING_STATUSES
    <3> QED BY <3>1, <3>2, Rows, StandIs
  <2>2. CASE ~(d \in batch /\ ReplayClaimable(rows[d]))
    BY <2>2, SameRow DEF SweepReplays
  <2> QED BY <2>1, <2>2
<1> QED BY <1>1, Stays

LEMMA DeliveriesStay ==
  ASSUME IInv, IInv', NEW batch \in Batches(Id), SweepDeliveries(batch)
  PROVE  UNCHANGED Authority!authorityVars
<1>1. ASSUME NEW d \in Id
      PROVE  rows'[d].key = rows[d].key /\ StandingOf(d)' = StandingOf(d)
  <2>1. CASE d \in batch
    <3>1. rows'[d] = DeliveryClaimed(rows[d]) /\ sent' = sent /\ DeliveryDue(rows[d], now)
      BY <2>1 DEF SweepDeliveries
    <3>2. /\ rows'[d].key = rows[d].key /\ Authorising(rows[d]) /\ Authorising(rows'[d])
          /\ Unspent(rows'[d]) <=> Unspent(rows[d])
      BY <3>1, Rows DEF DeliveryDue, DeliveryClaimed, DecisionRow, Unspent, Authorising,
         AUTHORISING_STATUSES
    <3> QED BY <3>1, <3>2, Rows, StandIs
  <2>2. CASE d \notin batch  BY <2>2, SameRow DEF SweepDeliveries
  <2> QED BY <2>1, <2>2
<1> QED BY <1>1, Stays

LEMMA AuthorityInits == Init => Authority!AuthorityInit
<1> SUFFICES ASSUME Init PROVE Authority!AuthorityInit  OBVIOUS
<1>1. \A d \in Id : rows[d].status = "absent" /\ rows[d].key = Null
  BY DEF Init, AbsentRow
<1>2. \A d \in Id : StandingOf(d) = "unasked"  BY <1>1 DEF StandingOf, isOpen, Authorising, OPEN_STATUSES, AUTHORISING_STATUSES
<1> QED BY <1>1, <1>2 DEF Authority!AuthorityInit

LEMMA AuthoritySteps ==
  ASSUME IInv, IInv', [Next]_vars
  PROVE  [Authority!AuthorityNext]_Authority!authorityVars
<1> USE DEF Authority!AuthorityNext
<1>1. CASE Tick  BY <1>1, QuietStays DEF Tick
<1>2. CASE Gate
  <2>1. ASSUME NEW k \in Key, GateTake(k) PROVE Authority!AuthorityNext
    BY <2>1, TakeGoesOut
  <2>2. ASSUME NEW g \in Gates, NEW d \in Id, NEW shape \in Shapes, GateRaise(g, d, shape)
        PROVE  Authority!AuthorityNext
    BY <2>2, RaiseAsks
  <2>3. ASSUME NEW g \in Gates, GateReuse(g) \/ \E o \in Owner, k \in Key : GateHold(g, o, k)
        PROVE  UNCHANGED Authority!authorityVars
    BY <2>3, QuietStays DEF GateReuse, GateHold
  <2> QED BY <1>2, <2>1, <2>2, <2>3 DEF Gate
<1>3. CASE Person
  <2>1. ASSUME NEW t \in Tabs, ApproveRefused(t) \/ \E d \in Id : ApproveRead(t, d) \/ UndoRead(t, d)
        PROVE  UNCHANGED Authority!authorityVars
    BY <2>1, QuietStays DEF ApproveRefused, ApproveRead, UndoRead
  <2>2. ASSUME NEW t \in Tabs, ApproveExpired(t)
        PROVE  Authority!AuthorityNext \/ UNCHANGED Authority!authorityVars
    BY <2>2, ExpiredLapses
  <2>3. ASSUME NEW t \in Tabs, ApproveStale(t) PROVE UNCHANGED Authority!authorityVars
    BY <2>3, StaleStays
  <2>4. ASSUME NEW t \in Tabs, NEW how \in {"tell", "park", "defer", "send"}, ApproveClaim(t, how)
        PROVE  Authority!AuthorityNext
    BY <2>4, ClaimGrants
  <2>5. ASSUME NEW d \in Id, Dismiss(d) PROVE Authority!AuthorityNext
    BY <2>5, DismissDeclines
  <2>6. ASSUME NEW t \in Tabs, UndoRestore(t)
        PROVE  Authority!AuthorityNext \/ UNCHANGED Authority!authorityVars
    BY <2>6, RestoreWithdraws
  <2> HIDE DEF Authority!AuthorityNext
  <2> QED BY <1>3, <2>1, <2>2, <2>3, <2>4, <2>5, <2>6 DEF Person
<1>4. ASSUME NEW d \in Id, Settle(d)
      PROVE  Authority!AuthorityNext \/ UNCHANGED Authority!authorityVars
  BY <1>4, SendGoesOut, ParkStays, ReplayedStays, FailedCloses, UnknownStays DEF Settle
<1>5. ASSUME NEW d \in Id, Deliver(d) PROVE UNCHANGED Authority!authorityVars
  <2>1. CASE DeliverTold(d)  BY <2>1, QuietStays DEF DeliverTold
  <2> QED BY <1>5, <2>1, FallBackStays, ParkStays DEF Deliver
<1>6. CASE Sweep
  <2>1. ASSUME NEW d \in Id, SweepRead(d) PROVE UNCHANGED Authority!authorityVars
    BY <2>1, QuietStays DEF SweepRead
  <2> QED BY <1>6, <2>1, ExpireLapses, ReclaimGoesOut, ReplaysStay, DeliveriesStay DEF Sweep
<1>7. CASE Crash  BY <1>7, QuietStays DEF Crash, LoseGate, LoseTab, LosePick, LoseWork
<1>8. CASE UNCHANGED vars  BY <1>8, QuietStays DEF vars
<1> HIDE DEF Authority!AuthorityNext
<1> QED BY <1>1, <1>2, <1>3, <1>4, <1>5, <1>6, <1>7, <1>8 DEF Next

\* The queue implements the authority it promises, for any number of
\* decisions, people, gates and requests: whatever the processes, the sweep
\* and the crashes do, a call goes out only under a question that stands
\* granted, alone for its call, and what went out never opens again.
THEOREM KeepsAuthority == Spec => ImplementsAuthority
<1>1. IInv /\ IInv' /\ [Next]_vars => [Authority!AuthorityNext]_Authority!authorityVars
  BY AuthoritySteps
<1> QED BY <1>1, AuthorityInits, Invariant, PTL DEF Spec, Authority!AuthoritySpec, ImplementsAuthority
=============================================================================
