----------------------------- MODULE TurnLedger -----------------------------
(***************************************************************************)
(* One person's turns in the usage ledger (packages/usage-limits): the     *)
(* gate a turn passes before it starts, on any host, and the charge when   *)
(* it ends, told by its turn-end, its error and its end, each of which may *)
(* come first, twice or not at all.                                        *)
(*                                                                         *)
(* An admission is a transaction under the person's lock, one statement a  *)
(* step (READ COMMITTED: each statement sees what has been committed).  A  *)
(* charge takes no lock but the row's and is one step.  The hook bus waits *)
(* for the gate's answer only so long: then the turn goes on without it.   *)
(***************************************************************************)
EXTENDS Naturals, FiniteSets

CONSTANTS
    Admission,      \* admissions that may be under way
    Request,        \* turns that pass the gate
    Unasked,        \* turns whose end names a request the gate has not seen
    PerHour,        \* turnsPerHour; the hour does not end within a behaviour
    Cap,            \* the cost that reaches the daily limit, one a turn
    Null            \* no admission, no request

ASSUME NullIsNone == Null \notin Admission \union Request
ASSUME Apart == Request \intersect Unasked = {}
ASSUME Bounds == PerHour \in Nat /\ Cap \in Nat \ {0}

VARIABLES
    row,            \* usage_limits_v1_turns
    turns,          \* the turns counted in the hour
    spend,          \* the cost of the day, up to Cap
    refusing,       \* is the person suspended, has the fleet reached its limit?
    admission,
    lock,           \* the admission that holds the person's advisory lock
    let,            \* history: the requests the gate has let through
    skipped,        \* history: those whose turn did not wait for the gate's answer
    charges         \* history: how often a turn was charged

vars == <<row, turns, spend, refusing, admission, lock, let, skipped, charges>>

Turn == Request \union Unasked
Idle == [at |-> "idle", request |-> Null, awaited |-> FALSE]

TypeOK ==
    /\ row \in [Turn -> {"absent", "pending", "settled"}]
    /\ turns \in Nat /\ spend \in 0..Cap
    /\ refusing \in [suspended : BOOLEAN, fleet : BOOLEAN]
    /\ admission \in [Admission ->
         {Idle} \union [at : {"lock", "suspension", "sums", "fleet", "insert"},
                        request : Request, awaited : BOOLEAN]]
    /\ lock \in Admission \union {Null}
    /\ let \subseteq Request /\ skipped \subseteq Request
    /\ charges \in [Turn -> Nat]

Init ==
    /\ row = [r \in Turn |-> "absent"]
    /\ turns = 0 /\ spend = 0
    /\ refusing = [suspended |-> FALSE, fleet |-> FALSE]
    /\ admission = [a \in Admission |-> Idle]
    /\ lock = Null
    /\ let = {} /\ skipped = {} /\ charges = [r \in Turn |-> 0]

At(a, pc) == admission[a].at = pc
Asked(a) == admission[a].request
Goes(a, pc) == admission' = [admission EXCEPT ![a].at = pc]
Counters == <<row, turns, spend, charges>>

-----------------------------------------------------------------------------
\* chat:start, or chat:resume of a turn an approval wakes: the limits are read.
Begin(a, r) ==
    /\ At(a, "idle")
    /\ admission' = [admission EXCEPT ![a] = [at |-> "lock", request |-> r, awaited |-> TRUE]]
    /\ UNCHANGED <<Counters, refusing, lock, let, skipped>>

\* The subscriber is past the bound of its fire: it is skipped and the turn goes on.
\* The admission hears nothing of that, and goes on too; its answer is dropped.
Outwaited(a) ==
    /\ ~At(a, "idle") /\ admission[a].awaited
    /\ admission' = [admission EXCEPT ![a].awaited = FALSE]
    /\ skipped' = skipped \union {Asked(a)}
    /\ UNCHANGED <<Counters, refusing, lock, let>>

\* Mutant: the transaction begins without the person's lock.
LockNot(a) ==
    /\ At(a, "lock")
    /\ Goes(a, "suspension")
    /\ UNCHANGED <<Counters, refusing, lock, let, skipped>>

\* pg_advisory_xact_lock: the person's admissions queue here.
Lock(a) ==
    /\ At(a, "lock") /\ lock = Null
    /\ lock' = a
    /\ Goes(a, "suspension")
    /\ UNCHANGED <<Counters, refusing, let, skipped>>

\* The transaction ends with no change; the lock goes with it.
Refused(a) ==
    /\ admission' = [admission EXCEPT ![a] = Idle]
    /\ lock' = IF lock = a THEN Null ELSE lock
    /\ UNCHANGED <<Counters, refusing, let, skipped>>
Passes(a, pc) == Goes(a, pc) /\ UNCHANGED <<Counters, refusing, lock, let, skipped>>

ReadSuspension(a) ==
    /\ At(a, "suspension")
    /\ IF refusing.suspended THEN Refused(a) ELSE Passes(a, "sums")

\* The daily cost and the hour's turns are one statement.
ReadSums(a) ==
    /\ At(a, "sums")
    /\ IF spend >= Cap \/ turns >= PerHour THEN Refused(a) ELSE Passes(a, "fleet")

ReadFleet(a) ==
    /\ At(a, "fleet")
    /\ IF refusing.fleet THEN Refused(a) ELSE Passes(a, "insert")

\* Mutant: the row's key is the person without the request.
CountPerPerson(r) ==
    IF \A x \in Turn : row[x] = "absent"
      THEN row' = [row EXCEPT ![r] = "pending"] /\ turns' = turns + 1
      ELSE UNCHANGED <<row, turns>>

\* The row and the count, committed together; a request that has its row is not
\* counted again.
Count(r) ==
    IF row[r] = "absent"
      THEN row' = [row EXCEPT ![r] = "pending"] /\ turns' = turns + 1
      ELSE UNCHANGED <<row, turns>>

\* The answer to the commit may be lost: then the gate refuses what it has counted.
\* Nobody hears it when the turn has gone on already.
Insert(a) ==
    /\ At(a, "insert")
    /\ Count(Asked(a))
    /\ let' \in {let, IF admission[a].awaited THEN let \union {Asked(a)} ELSE let}
    /\ admission' = [admission EXCEPT ![a] = Idle]
    /\ lock' = IF lock = a THEN Null ELSE lock
    /\ UNCHANGED <<spend, refusing, charges, skipped>>

\* The database fails, or the host dies, before the commit: a refusal, if somebody
\* still waits for it.
Fail(a) == ~At(a, "idle") /\ Refused(a)

-----------------------------------------------------------------------------
\* Mutant: a row that is settled is claimed once more.
ClaimTwice(r, insert) == row[r] # "absent" \/ insert

\* settleTurn claims the row that is not settled, inserted first for a turn-end.
Claims(r, insert) == row[r] = "pending" \/ (insert /\ row[r] = "absent")

Settle(r, insert) ==
    /\ IF Claims(r, insert)
         THEN /\ row' = [row EXCEPT ![r] = "settled"]
              /\ spend' = IF spend < Cap THEN spend + 1 ELSE spend
              /\ charges' = [charges EXCEPT ![r] = @ + 1]
         ELSE UNCHANGED <<row, spend, charges>>
    /\ UNCHANGED <<turns, refusing, admission, lock, let, skipped>>

\* The assistant's turn-end of a turn that ran.
TurnEnd(r) == r \in let \union skipped \union Unasked /\ Settle(r, TRUE)

\* Mutant: a turn that was never admitted is charged when it is refused.
AbnormalEndAny(r) == Settle(r, TRUE)

\* chat:turn-error, or a chat:end that says terminated, which a refusal also sends.
AbnormalEnd(r) == Settle(r, FALSE)

\* An admin suspends or resumes the person; the fleet's spend moves.
Elsewhere ==
    /\ \E f \in {"suspended", "fleet"} : refusing' = [refusing EXCEPT ![f] = ~@]
    /\ UNCHANGED <<Counters, admission, lock, let, skipped>>

Step(a) == Lock(a) \/ ReadSuspension(a) \/ ReadSums(a) \/ ReadFleet(a) \/ Insert(a)

Next ==
    \/ \E a \in Admission :
         \/ \E r \in Request : Begin(a, r)
         \/ Step(a) \/ Fail(a) \/ Outwaited(a)
    \/ \E r \in Turn : TurnEnd(r) \/ AbnormalEnd(r)
    \/ Elsewhere

Spec == Init /\ [][Next]_vars

-----------------------------------------------------------------------------
\* However many admissions run side by side, on however many hosts, the hour counts
\* no more turns than allowed.
RateHolds == turns <= PerHour

\* And lets no more requests through than it has counted, if their turns waited for
\* its answer: one that is asked twice, or charged between, passes once.
LetIsCounted == Cardinality(let \ skipped) <= turns

\* A turn is charged once when its row is settled and never before: its turn-end, its
\* error and its end, in any order and repeated, charge it once between them.
ChargedOnce == \A r \in Turn : charges[r] = IF row[r] = "settled" THEN 1 ELSE 0

\* What is charged without having been counted is a turn that did not wait for the
\* gate: what the gate refused costs nothing, though it too sends an end.
RefusedIsFree == Cardinality({r \in Request \ skipped : charges[r] > 0}) <= turns

\* usage-limits/src/plugin.ts:173-178 says that "neither the kill switch nor the caps
\* have a side door": no more turns go on in the hour than it allows.
NoSideDoor == Cardinality(let \union skipped) <= PerHour
=============================================================================
