------------------------------ MODULE Decisions ------------------------------
(***************************************************************************)
(* The approval queue: a tool call the policy holds becomes a question a   *)
(* person answers, and one yes lets that call happen once, made either by  *)
(* the agent (through the pre-call gate) or by the host (a replay).        *)
(*                                                                         *)
(* Actors, none of which excludes another:                                 *)
(*   gates   pre-call handlers of agent runs (two awaits apart: the hold   *)
(*           is stamped, then written);                                    *)
(*   tabs    approve / dismiss / undo requests of people (an approve stamps*)
(*           its instant, awaits the freshness check and the session read, *)
(*           then claims);                                                 *)
(*   host    the replays and deliveries a host process has in memory;      *)
(*   the sweep, whose statements are actions of their own.                 *)
(* Each database statement (or transaction) is one atomic step; the loss   *)
(* of any in-memory work is a step too, so a crash of a host process is a  *)
(* set of losses and the table is what survives it.                        *)
(***************************************************************************)
EXTENDS DecisionRows

CONSTANTS
  Gates,    \* pre-call handlers
  Tabs,     \* approve / undo requests in progress
  Shapes,   \* the <<attended, irreversible>> pairs a hold may have
  MaxTime   \* bound on the clock

ASSUME MaxTimeAssumption == MaxTime \in Nat
ASSUME ShapesAssumption == Shapes \subseteq BOOLEAN \X BOOLEAN

VARIABLES
  now,     \* the clock
  rows,    \* the decisions table
  gates,   \* what each pre-call handler is between
  tabs,    \* what each request is between
  picks,   \* replays a sweep has read as due and not claimed yet: the pass's
           \* instant, or Null
  host,    \* what some host process is doing for each decision
  sent     \* history: times the call went out under each decision and was
           \* not reported as a definite failure

vars == <<now, rows, gates, tabs, picks, host, sent>>

-----------------------------------------------------------------------------

IdleGate == [pc |-> "idle", owner |-> Null, key |-> Null, at |-> 0]

GateState ==
  [pc : {"idle", "holding"}, owner : Owner \union {Null}, key : Key \union {Null}, at : Nat]

IdleTab == [pc |-> "idle", id |-> Null, at |-> 0]

TabState == [pc : {"idle", "approving", "undoing"}, id : Id \union {Null}, at : Nat]

NoWork == [pc |-> "none", at |-> 0]

\* held: about to settle; sending: the tool has been called; telling: the
\* resolution is being handed to the session.  at is the pass's own instant.
HostState == [pc : {"none", "held", "sending", "telling"}, at : Nat]

TypeOK ==
  /\ now \in Nat
  /\ rows \in [Id -> DecisionRow]
  /\ gates \in [Gates -> GateState]
  /\ tabs \in [Tabs -> TabState]
  /\ picks \in [Id -> Instant]
  /\ host \in [Id -> HostState]
  /\ sent \in [Id -> Int]

Init ==
  /\ now = 0
  /\ rows = [d \in Id |-> AbsentRow]
  /\ gates = [g \in Gates |-> IdleGate]
  /\ tabs = [t \in Tabs |-> IdleTab]
  /\ picks = [d \in Id |-> Null]
  /\ host = [d \in Id |-> NoWork]
  /\ sent = [d \in Id |-> 0]

Tick ==
  /\ now < MaxTime
  /\ now' = now + 1
  /\ UNCHANGED <<rows, gates, tabs, picks, host, sent>>

-----------------------------------------------------------------------------
(* The pre-call gate.                                                      *)

\* takeApproval: the standing yes for this agent and call is consumed, and
\* the agent's call goes ahead.
GateTake(k) ==
  LET taken == {d \in Id : rows[d].key = k /\ Takeable(rows[d])} IN
  /\ taken # {}
  /\ rows' = [d \in Id |-> IF d \in taken THEN Taken(rows[d]) ELSE rows[d]]
  /\ sent' = [d \in Id |-> IF d \in taken THEN sent[d] + 1 ELSE sent[d]]
  /\ UNCHANGED <<now, gates, tabs, picks, host>>

\* Policy says hold: the row is stamped, and the gate awaits the attendance
\* read and the freshness capture.  A failed takeApproval lands here too,
\* whatever stands in the table.
GateHold(g, o, k) ==
  /\ gates[g].pc = "idle"
  /\ gates' = [gates EXCEPT ![g] = [pc |-> "holding", owner |-> o, key |-> k, at |-> now]]
  /\ UNCHANGED <<now, rows, tabs, picks, host, sent>>

\* reusableOpenRow: an open question for this call that can still be said
\* yes to.
reusableOpenRow(o, k) ==
  {d \in Id : /\ isOpen(rows[d]) /\ rows[d].owner = o /\ rows[d].key = k
              /\ ~firstTriedTwin(rows, d)}

GateReuse(g) ==
  /\ gates[g].pc = "holding"
  /\ reusableOpenRow(gates[g].owner, gates[g].key) # {}
  /\ gates' = [gates EXCEPT ![g] = IdleGate]
  /\ UNCHANGED <<now, rows, tabs, picks, host, sent>>

GateRaise(g, d, shape) ==
  /\ gates[g].pc = "holding"
  /\ reusableOpenRow(gates[g].owner, gates[g].key) = {}
  /\ rows[d].status = "absent"
  /\ rows' = [rows EXCEPT ![d] =
                HeldRow(gates[g].owner, gates[g].key, shape[1], shape[2], gates[g].at)]
  /\ gates' = [gates EXCEPT ![g] = IdleGate]
  /\ UNCHANGED <<now, tabs, picks, host, sent>>

-----------------------------------------------------------------------------
(* decisions:approve.                                                      *)

\* The row reads as open; the instant of the yes is taken here, BEFORE the
\* awaits.
ApproveRead(t, d) ==
  /\ tabs[t].pc = "idle"
  /\ isOpen(rows[d])
  /\ tabs' = [tabs EXCEPT ![t] = [pc |-> "approving", id |-> d, at |-> now]]
  /\ UNCHANGED <<now, rows, gates, picks, host, sent>>

TabDone(t) == tabs' = [tabs EXCEPT ![t] = IdleTab]

\* Past its expiry at the stamped instant: markExpired.
ApproveExpired(t) ==
  LET d == tabs[t].id IN
  /\ tabs[t].pc = "approving"
  /\ expired(rows[d], tabs[t].at)
  /\ rows' = [rows EXCEPT ![d] = transition(@, OPEN_STATUSES,
                Answered(@, "expired", tabs[t].at))]
  /\ TabDone(t)
  /\ UNCHANGED <<now, gates, picks, host, sent>>

\* The world moved, or could not be read: markStale.
ApproveStale(t) ==
  LET d == tabs[t].id IN
  /\ tabs[t].pc = "approving"
  /\ ~expired(rows[d], tabs[t].at)
  /\ rows' = [rows EXCEPT ![d] = transition(@, OPEN_STATUSES,
                Answered(@, "stale", Null))]
  /\ TabDone(t)
  /\ UNCHANGED <<now, gates, picks, host, sent>>

\* Who will make the call, from the stored attendance, the live session read
\* and whether a host executor exists.
Hows(r) ==
  {"park", IF r.irreversible THEN "defer" ELSE "send"}
    \union (IF r.attended THEN {"tell"} ELSE {})

\* claimForApproval commits: under the lock this row is open, no twin was
\* tried, and the unique index has room.
ApproveClaim(t, how) ==
  LET d == tabs[t].id IN
  /\ tabs[t].pc = "approving"
  /\ ~expired(rows[d], tabs[t].at)
  /\ isOpen(rows[d])
  /\ how \in Hows(rows[d])
  /\ ~firstTriedTwin(rows, d)
  /\ ~SlotTaken(rows, d)
  /\ rows' = [rows EXCEPT ![d] = Claimed(@, how, tabs[t].at)]
  /\ host' = IF how = "send" THEN [host EXCEPT ![d] = [pc |-> "held", at |-> now]] ELSE host
  /\ TabDone(t)
  /\ UNCHANGED <<now, gates, picks, sent>>

\* The row was answered meanwhile, a twin was tried, or the index refuses.
ApproveRefused(t) ==
  LET d == tabs[t].id IN
  /\ tabs[t].pc = "approving"
  /\ ~expired(rows[d], tabs[t].at)
  /\ ~isOpen(rows[d]) \/ firstTriedTwin(rows, d) \/ SlotTaken(rows, d)
  /\ TabDone(t)
  /\ UNCHANGED <<now, rows, gates, picks, host, sent>>

-----------------------------------------------------------------------------
(* decisions:dismiss and decisions:undo.                                   *)

Dismiss(d) ==
  /\ isOpen(rows[d])
  /\ rows' = [rows EXCEPT ![d] = Answered(@, "dismissed", now)]
  /\ UNCHANGED <<now, gates, tabs, picks, host, sent>>

UndoRead(t, d) ==
  /\ tabs[t].pc = "idle"
  /\ UndoOffered(rows[d], now)
  /\ tabs' = [tabs EXCEPT ![t] = [pc |-> "undoing", id |-> d, at |-> now]]
  /\ UNCHANGED <<now, rows, gates, picks, host, sent>>

\* restore: the conditional UPDATE decides again, on the row as it is now.
UndoRestore(t) ==
  LET d == tabs[t].id IN
  /\ tabs[t].pc = "undoing"
  /\ rows' = IF Restorable(rows[d])
             THEN [rows EXCEPT ![d] = Restored(@)] ELSE rows
  /\ TabDone(t)
  /\ UNCHANGED <<now, gates, picks, host, sent>>

-----------------------------------------------------------------------------
(* settleReplay: a host that holds a claimed row makes the call and records *)
(* what became of it.                                                       *)

\* The write that ends the work on d.
Settled(d, new) ==
  /\ rows' = [rows EXCEPT ![d] = new]
  /\ host' = [host EXCEPT ![d] = NoWork]
  /\ UNCHANGED <<now, gates, tabs, picks>>

SettleSend(d) ==
  /\ host[d].pc = "held"
  /\ host' = [host EXCEPT ![d].pc = "sending"]
  /\ sent' = [sent EXCEPT ![d] = @ + 1]
  /\ UNCHANGED <<now, rows, gates, tabs, picks>>

\* The executor is gone: the yes is handed to the agent.
SettlePark(d) ==
  /\ host[d].pc = "held"
  /\ Settled(d, transition(rows[d], {"executed"}, Parked(rows[d])))
  /\ UNCHANGED sent

\* The tool answered: markReplayed is unconditional, the world wins.
SettleReplayed(d) ==
  /\ host[d].pc = "sending"
  /\ Settled(d, Replayed(rows[d], host[d].at))
  /\ UNCHANGED sent

\* The tool refused: a definite failure, nothing ran.
SettleFailed(d) ==
  /\ host[d].pc = "sending"
  /\ Settled(d, transition(rows[d], {"executed"}, Failed(rows[d])))
  /\ sent' = [sent EXCEPT ![d] = @ - 1]

\* The bus stopped waiting; the call may still land.
SettleUnknown(d) ==
  /\ host[d].pc = "sending"
  /\ Settled(d, transition(rows[d], {"executed"}, OutcomeUnknown(rows[d])))
  /\ UNCHANGED sent

-----------------------------------------------------------------------------
(* The sweep.  Every pass, on every replica, runs these statements; a batch *)
(* is any non-empty part of the rows that match, because of its limit.  Two *)
(* of the three SELECT-then-UPDATE pairs are one step here: the UPDATEs of  *)
(* the reclaim and of the deliveries restate every condition of the SELECT, *)
(* which then only chooses the batch.                                       *)

Batches(S) == (SUBSET S) \ {{}}

SweepExpire ==
  LET due == {d \in Id : isOpen(rows[d]) /\ expired(rows[d], now)} IN
  /\ due # {}
  /\ rows' = [d \in Id |->
                IF d \in due THEN Answered(rows[d], "expired", now) ELSE rows[d]]
  /\ UNCHANGED <<now, gates, tabs, picks, host, sent>>

\* Give up on flights nobody is flying.  Runs nothing.
SweepReclaim(batch) ==
  /\ \A d \in batch : StrandedFlight(rows[d], now)
  /\ rows' = [d \in Id |-> IF d \in batch THEN OutcomeUnknown(rows[d]) ELSE rows[d]]
  /\ UNCHANGED <<now, gates, tabs, picks, host, sent>>

\* claimDueReplays is two statements.  The SELECT finds the deferred replays
\* whose undo window has closed ...
SweepRead(d) ==
  /\ picks[d] = Null
  /\ ReplayDue(rows[d], now)
  /\ picks' = [picks EXCEPT ![d] = now]
  /\ UNCHANGED <<now, rows, gates, tabs, host, sent>>

\* ... and the UPDATE claims those that still have a schedule, with the
\* instant its pass began.
SweepReplays(batch) ==
  LET claims == {d \in batch : ReplayClaimable(rows[d])} IN
  /\ \A d \in batch : picks[d] # Null
  /\ rows' = [d \in Id |->
                IF d \in claims THEN ReplayClaimed(rows[d], picks[d]) ELSE rows[d]]
  /\ host' = [d \in Id |->
                IF d \in claims THEN [pc |-> "held", at |-> picks[d]] ELSE host[d]]
  /\ picks' = [d \in Id |-> IF d \in batch THEN Null ELSE picks[d]]
  /\ UNCHANGED <<now, gates, tabs, sent>>

\* Approvals whose undo window has closed are claimed for their warm agent.
SweepDeliveries(batch) ==
  /\ \A d \in batch : DeliveryDue(rows[d], now)
  /\ rows' = [d \in Id |->
                IF d \in batch THEN DeliveryClaimed(rows[d]) ELSE rows[d]]
  /\ host' = [d \in Id |-> IF d \in batch THEN [pc |-> "telling", at |-> now] ELSE host[d]]
  /\ UNCHANGED <<now, gates, tabs, picks, sent>>

\* The entry is on the session's inbox.
DeliverTold(d) ==
  /\ host[d].pc = "telling"
  /\ host' = [host EXCEPT ![d] = NoWork]
  /\ UNCHANGED <<now, rows, gates, tabs, picks, sent>>

\* Nobody is there, and the host could make the call: it takes the flight,
\* with the instant its pass began, unless someone else moved the row.
DeliverFallBack(d) ==
  /\ host[d].pc = "telling"
  /\ IF FlightFree(rows[d])
     THEN /\ rows' = [rows EXCEPT ![d] = FlightTaken(@, host[d].at)]
          /\ host' = [host EXCEPT ![d].pc = "held"]
     ELSE /\ host' = [host EXCEPT ![d] = NoWork]
          /\ UNCHANGED rows
  /\ UNCHANGED <<now, gates, tabs, picks, sent>>

\* Nobody is there and no executor exists: parked for the agent's next run.
DeliverPark(d) ==
  /\ host[d].pc = "telling"
  /\ Settled(d, transition(rows[d], {"executed"}, Parked(rows[d])))
  /\ UNCHANGED sent

-----------------------------------------------------------------------------
(* Crashes.  Whatever a process held in memory is gone; the table stays.   *)

LoseGate(g) ==
  /\ gates[g].pc # "idle"
  /\ gates' = [gates EXCEPT ![g] = IdleGate]
  /\ UNCHANGED <<now, rows, tabs, picks, host, sent>>

LoseTab(t) ==
  /\ tabs[t].pc # "idle"
  /\ TabDone(t)
  /\ UNCHANGED <<now, rows, gates, picks, host, sent>>

LosePick(d) ==
  /\ picks[d] # Null
  /\ picks' = [picks EXCEPT ![d] = Null]
  /\ UNCHANGED <<now, rows, gates, tabs, host, sent>>

LoseWork(d) ==
  /\ host[d].pc # "none"
  /\ host' = [host EXCEPT ![d] = NoWork]
  /\ UNCHANGED <<now, rows, gates, tabs, picks, sent>>

-----------------------------------------------------------------------------

Gate ==
  \/ \E k \in Key : GateTake(k)
  \/ \E g \in Gates, o \in Owner, k \in Key : GateHold(g, o, k)
  \/ \E g \in Gates : GateReuse(g)
  \/ \E g \in Gates, d \in Id, shape \in Shapes : GateRaise(g, d, shape)

Person ==
  \/ \E t \in Tabs, d \in Id : ApproveRead(t, d)
  \/ \E t \in Tabs : ApproveExpired(t)
  \/ \E t \in Tabs : ApproveStale(t)
  \/ \E t \in Tabs, how \in {"tell", "park", "defer", "send"} : ApproveClaim(t, how)
  \/ \E t \in Tabs : ApproveRefused(t)
  \/ \E d \in Id : Dismiss(d)
  \/ \E t \in Tabs, d \in Id : UndoRead(t, d)
  \/ \E t \in Tabs : UndoRestore(t)

Settle(d) ==
  \/ SettleSend(d)
  \/ SettlePark(d)
  \/ SettleReplayed(d)
  \/ SettleFailed(d)
  \/ SettleUnknown(d)

Deliver(d) ==
  \/ DeliverTold(d)
  \/ DeliverFallBack(d)
  \/ DeliverPark(d)

Sweep ==
  \/ SweepExpire
  \/ \E batch \in Batches(Id) : SweepReclaim(batch)
  \/ \E d \in Id : SweepRead(d)
  \/ \E batch \in Batches(Id) : SweepReplays(batch)
  \/ \E batch \in Batches(Id) : SweepDeliveries(batch)

Crash ==
  \/ \E g \in Gates : LoseGate(g)
  \/ \E t \in Tabs : LoseTab(t)
  \/ \E d \in Id : LosePick(d)
  \/ \E d \in Id : LoseWork(d)

Next ==
  \/ Tick
  \/ Gate
  \/ Person
  \/ \E d \in Id : Settle(d)
  \/ \E d \in Id : Deliver(d)
  \/ Sweep
  \/ Crash

Spec == Init /\ [][Next]_vars

\* What the host's schedulers drive: the clock, the sweep's statements (an
\* interval timer on every replica), and the awaits of a replay or delivery,
\* which the bus bounds with a timeout.  People and agents owe nothing, and
\* a crash may take any of it at any moment; only, a host does not die
\* between the two statements of every pass for ever (the one SF).
Fairness ==
  /\ WF_vars(Tick)
  /\ WF_vars(SweepExpire)
  /\ WF_vars(\E batch \in Batches(Id) : SweepReclaim(batch))
  /\ WF_vars(\E d \in Id : SweepRead(d))
  /\ SF_vars(\E batch \in Batches(Id) : SweepReplays(batch))
  /\ WF_vars(\E batch \in Batches(Id) : SweepDeliveries(batch))
  /\ \A d \in Id : WF_vars(Settle(d)) /\ WF_vars(Deliver(d))

FairSpec == Spec /\ Fairness

-----------------------------------------------------------------------------
(* What makes the queue right.                                             *)

\* One question is acted on at most once: across the gate, the immediate
\* replay, the deferred replay and the delivery's fallback, over crashes,
\* late answers, undo and re-approval, the held call goes out under a
\* decision at most one time.
AtMostOnce == \A d \in Id : sent[d] <= 1

\* Undo is clean: a question that is open again (never answered, or undone)
\* has had nothing sent under it and no host process still working on it.
UndoIsClean ==
  \A d \in Id : isOpen(rows[d]) => sent[d] = 0 /\ host[d].pc = "none"

\* The unique index: an agent never has two unspent yeses for one call, the
\* rule the gate's single UPDATE relies on.  No write but the claim checks
\* it, and every other write has to leave it true.
OneStanding ==
  \A d, e \in Id :
    Unspent(rows[d]) /\ Unspent(rows[e]) /\ rows[d].key = rows[e].key => d = e

\* The same call goes out twice for one person only under questions of
\* which one was raised after the other's recorded answer: a pair an undo
\* left open side by side is acted on once.
RepeatOnlyAfterAnswer ==
  \A d, e \in Id :
    d # e /\ SameCall(rows[d], rows[e]) /\ sent[d] > 0 /\ sent[e] > 0
      => \/ ~AnsweredSince(rows[d], rows[e])
         \/ ~AnsweredSince(rows[e], rows[d])

\* A question that expired or failed for good authorises nothing again: the
\* only way back is the answer of a call that had already gone out.
ClosedStaysClosed ==
  [][\A d \in Id :
       rows[d].status \in {"expired", "failed"} /\ rows'[d] # rows[d]
         => rows'[d].replayed /\ sent[d] = 1]_vars

\* A deferred yes leaves the whole undo window: the replay it schedules is
\* not due before Undo has passed since the claim was recorded.
GraceIsWhole ==
  [][\A d \in Id :
       rows[d].replayDue = Null /\ rows'[d].replayDue # Null
         => rows'[d].replayDue >= now + Undo]_vars

\* A deferred replay is claimed only when the window of the yes it belongs
\* to has closed.
WindowHasClosed ==
  [][\A d \in Id :
       rows[d].replayDue # Null /\ rows[d].claimed = Null /\ rows'[d].claimed # Null
         => rows[d].replayDue <= now]_vars

\* A flight ends: whatever became of the host that took it, a row stops
\* holding the call's slot as "in flight" (as long as the bounded clock can
\* still reach the reclaim).
FlightEnds ==
  \A d \in Id :
    /\ Unspent(rows[d]) /\ rows[d].claimed # Null
    /\ rows[d].claimed + Stranded <= MaxTime
    ~> ~(Unspent(rows[d]) /\ rows[d].claimed # Null)

\* An approval waiting for its undo window is picked up, or undone: no
\* deferred replay or delivery stays scheduled for ever.
DueIsClaimed ==
  \A d \in Id :
    \/ IsDue(rows[d].replayDue, MaxTime)
    \/ IsDue(rows[d].deliveryDue, MaxTime)
    ~> rows[d].replayDue = Null /\ rows[d].deliveryDue = Null

\* A question does not stay open past its expiry.
QuestionCloses ==
  \A d \in Id :
    isOpen(rows[d]) /\ rows[d].created + Ttl <= MaxTime ~> ~isOpen(rows[d])
=============================================================================
