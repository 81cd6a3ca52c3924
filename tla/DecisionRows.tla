---------------------------- MODULE DecisionRows ----------------------------
(***************************************************************************)
(* The approval queue's row (package decisions): its columns, the          *)
(* predicates the store's WHERE clauses are made of, and what each UPDATE  *)
(* writes.  No state here: Decisions.tla runs these over a table.          *)
(*                                                                         *)
(* A column that the code only ever tests for NULL (consumed_at,           *)
(* replayed_at, delivered_at, replay_abandoned_at) is a BOOLEAN; one whose *)
(* instant is compared is a Nat or Null.  The columns of a routine tool's  *)
(* own consent and authority are left out: every row here is an            *)
(* ordinary tool call, for which they keep their defaults.                 *)
(***************************************************************************)
EXTENDS Integers

CONSTANTS
  Id,        \* decision ids
  Key,       \* (agent id, call fingerprint) pairs
  Owner,     \* the people decisions belong to
  Null,      \* SQL NULL
  Undo,      \* UNDO_WINDOW_MS
  Ttl,       \* DEFAULT_DECISION_TTL_MS
  Stranded   \* STRANDED_REPLAY_TIMEOUT_MS

ASSUME NullAssumption == Null \notin Nat /\ Null \notin Owner /\ Null \notin Key
ASSUME DurationAssumption == Undo \in Nat /\ Ttl \in Nat \ {0} /\ Stranded \in Nat

OPEN_STATUSES == {"pending", "stale"}
AUTHORISING_STATUSES == {"executed", "approved-pending-agent"}
UNDOABLE_STATUSES == AUTHORISING_STATUSES \union {"dismissed"}

\* "absent" is no row at all: the id has not been minted.
DecisionStatus ==
  OPEN_STATUSES \union UNDOABLE_STATUSES \union {"failed", "expired", "absent"}

Instant == Nat \union {Null}

DecisionRow ==
  [status : DecisionStatus, owner : Owner \union {Null}, key : Key \union {Null},
   attended : BOOLEAN, irreversible : BOOLEAN,
   created : Nat, resolved : Instant,
   consumed : BOOLEAN, replayed : BOOLEAN, abandoned : BOOLEAN, delivered : BOOLEAN,
   replayDue : Instant, claimed : Instant, deliveryDue : Instant]

AbsentRow ==
  [status |-> "absent", owner |-> Null, key |-> Null,
   attended |-> FALSE, irreversible |-> FALSE,
   created |-> 0, resolved |-> Null,
   consumed |-> FALSE, replayed |-> FALSE, abandoned |-> FALSE, delivered |-> FALSE,
   replayDue |-> Null, claimed |-> Null, deliveryDue |-> Null]

\* The row the gate builds for a held call.
HeldRow(o, k, att, irr, at) ==
  [AbsentRow EXCEPT !.status = "pending", !.owner = o, !.key = k,
                    !.attended = att, !.irreversible = irr, !.created = at]

-----------------------------------------------------------------------------
(* Predicates of the WHERE clauses.                                        *)

IsDue(x, t) == x # Null /\ x <= t

isOpen(r) == r.status \in OPEN_STATUSES

Authorising(r) == r.status \in AUTHORISING_STATUSES

\* Mutant: a row outlives its own expires_at.
expiredLate(r, t) == t > r.created + Ttl

expired(r, t) == t >= r.created + Ttl

\* The partial unique index: one unconsumed authorisation per (agent, call).
Unspent(r) == Authorising(r) /\ ~r.consumed /\ ~r.replayed

\* Mutant: the gate's WHERE forgets the row a host has in flight.
TakeableInFlight(r) == Unspent(r) /\ r.replayDue = Null

\* What the gate may let an identical agent call cash in.
Takeable(r) == Unspent(r) /\ r.replayDue = Null /\ r.claimed = Null

\* Mutants: the undo's WHERE forgets the row a host has in flight, or the
\* row the agent has cashed in.
RestorableInFlight(r) ==
  r.status \in UNDOABLE_STATUSES /\ ~r.consumed /\ ~r.delivered /\ ~r.replayed

RestorableConsumed(r) ==
  r.status \in UNDOABLE_STATUSES /\ ~r.delivered /\ ~r.replayed /\ r.claimed = Null

Restorable(r) ==
  /\ r.status \in UNDOABLE_STATUSES
  /\ ~r.consumed /\ ~r.delivered /\ ~r.replayed
  /\ r.claimed = Null

\* undoDecision and the handler's own checks, on the row as it was read.
UndoOffered(r, t) ==
  /\ r.status \in UNDOABLE_STATUSES
  /\ ~r.consumed /\ ~r.delivered /\ ~r.replayed
  /\ r.resolved # Null /\ t <= r.resolved + Undo

ReplayDue(r, t) == r.status = "executed" /\ IsDue(r.replayDue, t) /\ r.claimed = Null

\* What the claiming UPDATE restates of ReplayDue: all but the instant.
ReplayClaimable(r) == r.status = "executed" /\ r.replayDue # Null /\ r.claimed = Null

DeliveryDue(r, t) == r.status = "executed" /\ IsDue(r.deliveryDue, t) /\ ~r.consumed

FlightFree(r) ==
  r.status = "executed" /\ ~r.consumed /\ r.claimed = Null /\ ~r.replayed

\* Mutant: the reclaim waits for strictly older flights than its threshold.
StrandedFlightStrict(r, t) ==
  /\ r.status = "executed" /\ ~r.replayed /\ ~r.consumed
  /\ r.claimed # Null /\ r.claimed + Stranded < t

StrandedFlight(r, t) ==
  /\ r.status = "executed" /\ ~r.replayed /\ ~r.consumed
  /\ r.claimed # Null /\ r.claimed + Stranded <= t

\* Mutant: a call that went out with no answer does not count as tried.
TriedReported(r) == Authorising(r) /\ (r.replayed \/ r.consumed)

\* An answered row whose call ran, or went out with no answer.
Tried(r) ==
  \/ Authorising(r) /\ (r.replayed \/ r.consumed)
  \/ r.status = "failed" /\ r.abandoned

SameCall(r, s) == r.owner = s.owner /\ r.key = s.key

\* twin was answered at or after the instant r was raised.
AnsweredSince(twin, r) == twin.resolved # Null /\ twin.resolved >= r.created

firstTriedTwin(table, d) ==
  \E e \in Id \ {d} : /\ SameCall(table[e], table[d])
                      /\ AnsweredSince(table[e], table[d])
                      /\ Tried(table[e])

\* Mutant: the index slot is kept per person instead of per agent.
SlotTakenByOwner(table, d) ==
  \E e \in Id \ {d} : SameCall(table[e], table[d]) /\ Unspent(table[e])

\* Another row of the same agent and call shape holds the index slot.
SlotTaken(table, d) ==
  \E e \in Id \ {d} : table[e].key = table[d].key /\ Unspent(table[e])

-----------------------------------------------------------------------------
(* What each UPDATE writes.                                                *)

\* claim: how is "tell" (a warm agent), "park" (no host executor), "defer"
\* (irreversible: the host replays after the undo window) or "send" (now).
Claimed(r, how, at) ==
  [r EXCEPT !.status = IF how = "park" THEN "approved-pending-agent" ELSE "executed",
            !.resolved = at,
            !.replayDue = IF how = "defer" THEN at + Undo ELSE Null,
            !.claimed = IF how = "send" THEN at ELSE Null,
            !.deliveryDue = IF how = "tell" THEN at + Undo ELSE Null,
            !.delivered = FALSE]

\* markDismissed, markExpired, markStale: an open row is answered "no",
\* closed, or kept open with no answer (at is then NULL).
Answered(r, status, at) == [r EXCEPT !.status = status, !.resolved = at]

\* claimDueReplays, claimReplayFlight and claimDueDeliveries.
ReplayClaimed(r, t) == [r EXCEPT !.replayDue = Null, !.claimed = t]

FlightTaken(r, t) == [r EXCEPT !.claimed = t]

DeliveryClaimed(r) == [r EXCEPT !.deliveryDue = Null, !.delivered = TRUE]

\* Mutant: an undo leaves the delivery scheduled.
RestoredScheduled(r) ==
  [r EXCEPT !.status = "pending", !.resolved = Null, !.replayDue = Null]

Restored(r) ==
  [r EXCEPT !.status = "pending", !.resolved = Null,
            !.replayDue = Null, !.deliveryDue = Null]

Replayed(r, t) ==
  [r EXCEPT !.status = "executed", !.replayed = TRUE, !.replayDue = Null,
            !.abandoned = FALSE, !.resolved = IF @ = Null THEN t ELSE @]

Parked(r) ==
  [r EXCEPT !.status = "approved-pending-agent", !.replayDue = Null, !.claimed = Null]

Failed(r) == [r EXCEPT !.status = "failed", !.replayDue = Null]

OutcomeUnknown(r) ==
  [r EXCEPT !.status = "failed", !.abandoned = TRUE, !.replayDue = Null]

Taken(r) == [r EXCEPT !.consumed = TRUE, !.deliveryDue = Null]

\* Mutant: an UPDATE with no condition on the status.
transitionAlways(r, from, new) == new

\* A conditional UPDATE ... WHERE status IN from: no row, no change.
transition(r, from, new) == IF r.status \in from THEN new ELSE r
=============================================================================
