------------------------------ MODULE TaskRuns ------------------------------
(***************************************************************************)
(* One routine of packages/routines and its runs: the tick, a person and   *)
(* the app updates that start them, the host that carries each one, the    *)
(* report a run leaves, its finish, and the recovery of runs whose host    *)
(* went away.                                                              *)
(*                                                                         *)
(* A routine is a job that repeats, or a task whose runs (check-ins) leave *)
(* reports; five check-ins in a row without one pause the task.  A run is  *)
(* a row of the dispatches table; its host holds a lease on it and renews  *)
(* it.  A transaction is one step, and so is what a host does between two  *)
(* awaits.  A run's start is an instant of the clock of the host that      *)
(* accepted it, so starts need not follow the order of acceptance.         *)
(***************************************************************************)
EXTENDS Naturals, Sequences, FiniteSets

CONSTANTS
    Host,           \* replicas
    MaxRuns,        \* how many runs are accepted
    MaxEvents,      \* how many app updates arrive
    Times,          \* the instants a run may start at are 1..Times
    Active,         \* REPEAT_DELIVERY_LIMITS.active: open runs of a repeated job
    PauseAfter,     \* TASK_AUTO_PAUSE_AFTER_MISSES
    Batch,          \* TASK_EVENT_LIMITS.batch: updates one check-in is given
    MaxActs,        \* what a person does: edits, checks, replies
    MaxFaults,      \* crashes, stalls, writes that fail
    Null            \* no host

ASSUME NullIsNoHost == Null \notin Host
ASSUME Bounds ==
    /\ {MaxRuns, MaxEvents, Times, MaxActs, MaxFaults} \subseteq Nat
    /\ {Active, PauseAfter, Batch} \subseteq Nat \ {0}

VARIABLES
    def,            \* the routine's row
    run,            \* the dispatch rows, and where each run's host is with it
    fin,            \* the runs that finished, in that order (their fire rows)
    era,            \* how many had finished when the count last started over
    event,          \* the task's app updates, in the order they arrive
    tick,           \* the tick's claim: none, or of the row as it is or as it was
    seen,           \* what a recovery has read
    acts, faults

vars == <<def, run, fin, era, event, tick, seen, acts, faults>>

Run == 1..MaxRuns
Event == 1..MaxEvents
Instant == 0..Times                     \* 0 is null
InSetup == {"setup", "ready"}
AtWork == {"agent", "orphan"}           \* an agent is at work in a sandbox

Definition == [task : BOOLEAN, enabled : BOOLEAN, next : BOOLEAN, asked : BOOLEAN,
               misses : Nat, missAt : Instant, reportAt : Instant, autoPaused : BOOLEAN]
Dispatch == [row : {"none", "open", "closed"}, task : BOOLEAN, at : Instant,
             host : Host \union {Null}, lease : {"held", "lapsed", "released"},
             bound : BOOLEAN, report : BOOLEAN,
             work : {"none", "ended"} \union InSetup \union AtWork,
             slip : {"none", "stalled", "unwritten"}]

TypeOK ==
    /\ def \in Definition
    /\ run \in [Run -> Dispatch]
    /\ fin \in Seq(Run) /\ era \in Nat
    /\ event \in [Event -> [at : {"absent", "waiting", "given", "consumed"}, by : Run \union {0}]]
    /\ tick \in {"none", "claimed", "stale"}
    /\ seen \in [run : Run \union {0}, bound : BOOLEAN, over : BOOLEAN]
    /\ acts \in 0..MaxActs /\ faults \in 0..MaxFaults

NoRun == [row |-> "none", task |-> FALSE, at |-> 0, host |-> Null, lease |-> "held",
          bound |-> FALSE, report |-> FALSE, work |-> "none", slip |-> "none"]
Unseen == [run |-> 0, bound |-> FALSE, over |-> FALSE]

Init ==
    /\ \E kind \in BOOLEAN :
         def = [task |-> kind, enabled |-> TRUE, next |-> TRUE, asked |-> FALSE,
                misses |-> 0, missAt |-> 0, reportAt |-> 0, autoPaused |-> FALSE]
    /\ run = [r \in Run |-> NoRun]
    /\ fin = <<>> /\ era = 0
    /\ event = [e \in Event |-> [at |-> "absent", by |-> 0]]
    /\ tick = "none" /\ seen = Unseen
    /\ acts = 0 /\ faults = 0

Open == {r \in Run : run[r].row = "open"}
FreshRun == {r \in Run : run[r].row = "none" /\ \A q \in Run : q < r => run[q].row # "none"}
Put(r, new) == run' = [run EXCEPT ![r] = new]
Works(r, stage) == Put(r, [run[r] EXCEPT !.work = stage])
\* A write that mints a new revision: a claim of the row is of an older one.
Outdated == IF tick = "claimed" THEN "stale" ELSE tick
Acted == acts < MaxActs /\ acts' = acts + 1
Faulted == faults < MaxFaults /\ faults' = faults + 1

-----------------------------------------------------------------------------
\* The start of a run: acceptDispatch, under the lock of the routine's row.
Busy == Cardinality(Open) >= (IF def.task THEN 1 ELSE Active)

\* A check-in is given the oldest updates that wait.
Waiting == {e \in Event : event[e].at = "waiting"}
Given == {e \in Waiting : Cardinality({d \in Waiting : d <= e}) <= Batch}

Accepted(h, at) == [NoRun EXCEPT !.row = "open", !.task = def.task, !.at = at,
                                 !.host = h, !.work = "setup"]
Accept(h) ==
    /\ def.enabled /\ ~Busy
    /\ \E r \in FreshRun, at \in 1..Times :
         /\ Put(r, Accepted(h, at))
         /\ IF def.task
              THEN /\ def' = [def EXCEPT !.next = TRUE, !.asked = FALSE]
                   /\ event' = [e \in Event |-> IF e \in Given THEN [at |-> "given", by |-> r]
                                                               ELSE event[e]]
              ELSE UNCHANGED <<def, event>>

\* claimDue: a due row is pushed a claim window on and handed to the tick.
\* That a due time comes is time passing; here a row that has one is due.
TickClaims ==
    /\ tick = "none" /\ def.enabled /\ def.next
    /\ tick' = "claimed"
    /\ UNCHANGED <<def, run, fin, era, event, seen, acts, faults>>

\* Mutant: a claim that nothing comes of is kept.
TickFiresOrWaits(h) ==
    /\ tick = "claimed" /\ tick' = "none" /\ Accept(h)
    /\ UNCHANGED <<fin, era, seen, acts, faults>>

\* runTickOnce for that row: a stale claim is let go, and so is one that finds
\* the routine busy; the row still has a due time.
TickFires(h) ==
    /\ tick # "none" /\ tick' = "none"
    /\ \/ tick = "claimed" /\ Accept(h)
       \/ (tick = "stale" \/ ~def.enabled \/ Busy) /\ UNCHANGED <<def, run, event>>
    /\ UNCHANGED <<fin, era, seen, acts, faults>>

\* routines:fire-now, and a reply that finds no run.
CheckNow(h) ==
    /\ Acted /\ Accept(h)
    /\ UNCHANGED <<fin, era, tick, seen, faults>>

\* requestTaskCheckIn: a reply that finds one is kept for the next.
ReplyWaits ==
    /\ Acted /\ def.enabled /\ def.task /\ Busy
    /\ def' = [def EXCEPT !.asked = TRUE, !.next = TRUE]
    /\ UNCHANGED <<run, fin, era, event, tick, seen, faults>>

\* admitTaskEvent: an app update, into the task's inbox.
Admit ==
    /\ def.task /\ def.enabled
    /\ \E e \in Event :
         /\ event[e].at = "absent" /\ \A d \in Event : d < e => event[d].at # "absent"
         /\ event' = [event EXCEPT ![e].at = "waiting"]
    /\ def' = [def EXCEPT !.next = TRUE]
    /\ UNCHANGED <<run, fin, era, tick, seen, acts, faults>>

-----------------------------------------------------------------------------
\* The finish of a run: finishDispatch, with the count of missed check-ins.
Cleared(d) == [d EXCEPT !.misses = 0, !.missAt = 0, !.autoPaused = FALSE]

\* reportStillOpen and unansweredAfter, of the rows as this finish leaves them.
ReportStillOpen(rows, at) ==
    \E q \in Run : rows[q].row = "open" /\ rows[q].report /\ rows[q].at = at
Unanswered(rows, after, atMost) ==
    LET n == Cardinality({q \in Run : rows[q].row = "closed" /\ ~rows[q].report /\ rows[q].at > after})
    IN  IF n < atMost THEN n ELSE atMost

Trimmed(d, n) == IF n = 0 THEN Cleared(d) ELSE [d EXCEPT !.misses = n]
NewerMiss(d, r, rows) == d.missAt > rows[r].at
NewerReport(d, r, rows) == d.reportAt > rows[r].at

\* Mutant: a report clears the count, whatever was missed since it was asked for.
AfterReportClears(d, r, rows) == Cleared(d)

\* missesAfterRun, of a run with a report: it ends the misses before it.
AfterReport(d, r, rows) ==
    LET from == IF NewerReport(d, r, rows) /\ ReportStillOpen(rows, d.reportAt)
                  THEN d.reportAt ELSE rows[r].at
    IN  IF NewerMiss(d, r, rows) THEN Trimmed(d, Unanswered(rows, from, d.misses)) ELSE Cleared(d)

\* Of a run without one, when a run that started later has reported.
AfterAnsweredMiss(d, rows) ==
    IF d.misses > 0 /\ ReportStillOpen(rows, d.reportAt)
      THEN Trimmed(d, Unanswered(rows, d.reportAt, d.misses)) ELSE d

\* Of any other run without one: the last straw pauses the task.
AfterMiss(d, r, rows) ==
    LET n == IF d.reportAt # 0 /\ ReportStillOpen(rows, d.reportAt)
               THEN Unanswered(rows, d.reportAt, d.misses + 1) ELSE d.misses + 1
        counted == [d EXCEPT !.misses = n,
                             !.missAt = IF NewerMiss(d, r, rows) THEN d.missAt ELSE rows[r].at]
    IN  IF n = 0 THEN Cleared(d)
        ELSE IF n >= PauseAfter /\ d.enabled
               THEN [counted EXCEPT !.enabled = FALSE, !.next = FALSE, !.autoPaused = TRUE]
               ELSE counted

Counts(d) == d.task /\ ~(d.autoPaused /\ ~d.enabled)
MissesAfterRun(d, r, rows) ==
    IF ~Counts(d) THEN d
    ELSE IF rows[r].report THEN AfterReport(d, r, rows)
    ELSE IF NewerReport(d, r, rows) THEN AfterAnsweredMiss(d, rows)
    ELSE AfterMiss(d, r, rows)

\* Mutant: it stays with the run.
ReleasedNot(r) == event

\* An update given to the run and not consumed waits again.
Released(r) == [e \in Event |-> IF event[e].at = "given" /\ event[e].by = r
                                  THEN [at |-> "waiting", by |-> 0] ELSE event[e]]

\* new: the run's row and its host's stage, beside the row's completion.
Finish(r, new) ==
    LET rows == [run EXCEPT ![r] = [new EXCEPT !.row = "closed"]]
    IN  /\ run' = rows
        /\ fin' = Append(fin, r)
        /\ def' = MissesAfterRun(def, r, rows)
        /\ tick' = IF def.enabled # def'.enabled THEN Outdated ELSE tick
        /\ event' = Released(r)

\* A host is done with a run; finishing one that is closed does nothing.
HostFinishes(r) ==
    LET new == [run[r] EXCEPT !.work = "none"]
    IN  /\ IF run[r].row = "open" THEN Finish(r, new)
                                  ELSE Put(r, new) /\ UNCHANGED <<fin, def, tick, event>>
        /\ UNCHANGED <<era, seen, acts, faults>>

-----------------------------------------------------------------------------
\* The host's side of a run: fire.ts and the turn-end subscriber.

\* bindDispatchConversation: a run that has closed meanwhile starts no agent.
Bind(r) ==
    /\ run[r].work = "setup"
    /\ IF run[r].row = "open"
         THEN Put(r, [run[r] EXCEPT !.bound = TRUE, !.work = "ready"])
         ELSE Works(r, "none")
    /\ UNCHANGED <<def, fin, era, event, tick, seen, acts, faults>>

\* Any other setup failure, or an invoke that ends before its session opens.
SetupFails(r) == run[r].work \in InSetup /\ HostFinishes(r)

\* agent:invoke, once its session is open; nothing reads the row again.
AgentStarts(r) ==
    /\ run[r].work = "ready"
    /\ Works(r, "agent")
    /\ UNCHANGED <<def, fin, era, event, tick, seen, acts, faults>>

\* recordReport, from the run's own conversation, while the run is open.
Report(r) ==
    /\ run[r].work \in AtWork /\ run[r].row = "open" /\ run[r].bound /\ def.task
    /\ Put(r, [run[r] EXCEPT !.report = TRUE])
    /\ def' = [def EXCEPT !.reportAt = IF def.reportAt <= run[r].at THEN run[r].at
                                                                   ELSE def.reportAt]
    /\ event' = [e \in Event |-> IF event[e].at = "given" /\ event[e].by = r
                                   THEN [event[e] EXCEPT !.at = "consumed"] ELSE event[e]]
    /\ UNCHANGED <<fin, era, tick, seen, acts, faults>>

\* The turn ends, or the invoke does without one: whoever takes the pending
\* entry will write the finish, after what it awaits first.
TurnEnds(r) ==
    /\ run[r].work = "agent"
    /\ Works(r, "ended")
    /\ UNCHANGED <<def, fin, era, event, tick, seen, acts, faults>>

Settles(r) == run[r].work = "ended" /\ HostFinishes(r)

\* A finish that throws is logged: nobody holds the run any more.
SettleFails(r) ==
    /\ run[r].work = "ended" /\ run[r].row = "open" /\ Faulted
    /\ Put(r, [run[r] EXCEPT !.work = "none", !.slip = "unwritten"])
    /\ UNCHANGED <<def, fin, era, event, tick, seen, acts>>

\* A sandbox whose host went away: its session ends, or is found stopped.
OrphanEnds(r) ==
    /\ run[r].work = "orphan"
    /\ Works(r, "none")
    /\ UNCHANGED <<def, fin, era, event, tick, seen, acts, faults>>

-----------------------------------------------------------------------------
\* Leases and recovery: repeat-deliveries.ts and the pump of repeat-runtime.ts.

\* Two minutes without a renewal: the host is gone, or could not write.
Lapses(r) ==
    /\ run[r].row = "open" /\ run[r].lease = "held"
    /\ \/ /\ run[r].host = Null
          /\ Put(r, [run[r] EXCEPT !.lease = "lapsed"]) /\ UNCHANGED faults
       \/ /\ run[r].host # Null /\ run[r].slip = "none" /\ Faulted
          /\ Put(r, [run[r] EXCEPT !.lease = "lapsed", !.slip = "stalled"])
    /\ UNCHANGED <<def, fin, era, event, tick, seen, acts>>

\* renew: all the open runs the host has not released.
Renew(h) ==
    /\ \E r \in Open : run[r].host = h /\ run[r].lease = "lapsed"
    /\ run' = [r \in Run |-> IF r \in Open /\ run[r].host = h
                               THEN [run[r] EXCEPT !.lease = "held"] ELSE run[r]]
    /\ UNCHANGED <<def, fin, era, event, tick, seen, acts, faults>>

\* Shutdown, after every effect has settled: the host lets its runs go.
ShutsDown(h) ==
    /\ \A r \in Run : run[r].host = h => run[r].work = "none"
    /\ \E r \in Open : run[r].host = h
    /\ run' = [r \in Run |-> IF r \in Open /\ run[r].host = h
                               THEN [run[r] EXCEPT !.lease = "released", !.host = Null] ELSE run[r]]
    /\ UNCHANGED <<def, fin, era, event, tick, seen, acts, faults>>

\* A host dies and comes back as another executor; its sandboxes live on.
\* If it was the one that ticks or recovers, that is lost with it.
Crash(h) ==
    /\ Faulted
    /\ run' = [r \in Run |->
                 IF run[r].host # h THEN run[r]
                 ELSE [run[r] EXCEPT !.host = Null, !.work = IF run[r].work \in AtWork THEN "orphan"
                                                                ELSE "none"]]
    /\ tick' \in {tick, "none"} /\ seen' \in {seen, Unseen}
    /\ UNCHANGED <<def, fin, era, event, acts>>

\* Mutant: only what a shutdown let go is looked at.
ObservesReleased(r) ==
    /\ seen.run = 0 /\ r \in Open /\ run[r].lease = "released"
    /\ seen' = [run |-> r, bound |-> run[r].bound, over |-> TRUE]
    /\ UNCHANGED <<def, run, fin, era, event, tick, acts, faults>>

\* expired: a run that is let go or has lapsed; one that never got a
\* conversation has no agent.  Also interruptAbandonedDispatches at startup.
Observes(r) ==
    /\ seen.run = 0 /\ r \in Open /\ run[r].lease # "held"
    /\ seen' = [run |-> r, bound |-> run[r].bound,
                over |-> run[r].lease = "released" \/ ~run[r].bound]
    /\ UNCHANGED <<def, run, fin, era, event, tick, acts, faults>>

\* Mutant: nobody asks for its session.
ExaminesBlind ==
    /\ seen.run # 0 /\ ~seen.over
    /\ seen' = [seen EXCEPT !.over = TRUE]
    /\ UNCHANGED <<def, run, fin, era, event, tick, acts, faults>>

\* One that has is over when its conversation has no session; else later.
Examines ==
    /\ seen.run # 0 /\ ~seen.over
    /\ LET r == seen.run
       IN  IF run[r].work \in AtWork
             THEN /\ seen' = Unseen
                  /\ Put(r, [run[r] EXCEPT !.lease =
                               IF run[r].row = "open" /\ run[r].lease = "lapsed" THEN "held"
                               ELSE run[r].lease])
             ELSE seen' = [seen EXCEPT !.over = TRUE] /\ UNCHANGED run
    /\ UNCHANGED <<def, fin, era, event, tick, acts, faults>>

\* finishDispatch with onlyIfExpired: the lease and the conversation again.
Recovers ==
    /\ seen.run # 0 /\ seen.over /\ seen' = Unseen
    /\ LET r == seen.run
       IN  IF run[r].row = "open" /\ run[r].lease # "held" /\ run[r].bound = seen.bound
             THEN Finish(r, run[r])
             ELSE UNCHANGED <<run, fin, def, tick, event>>
    /\ UNCHANGED <<era, acts, faults>>

-----------------------------------------------------------------------------
\* updateAuthored: what a person changes.  Each edit mints a revision.
Edit(new) ==
    /\ Acted
    /\ def' = new /\ tick' = Outdated
    /\ UNCHANGED <<run, fin, event, seen, faults>>

Pause == /\ def.enabled /\ Edit([def EXCEPT !.enabled = FALSE, !.next = FALSE])
         /\ UNCHANGED era
Resume == /\ ~def.enabled /\ Edit(Cleared([def EXCEPT !.enabled = TRUE, !.next = TRUE]))
          /\ era' = Len(fin)
\* A task with an update it has not consumed stays a task.
ChangeKind ==
    /\ def.task => \A e \in Event : event[e].at \in {"absent", "consumed"}
    /\ Edit([Cleared(def) EXCEPT !.task = ~def.task, !.asked = FALSE, !.reportAt = 0])
    /\ era' = Len(fin)

-----------------------------------------------------------------------------
Next ==
    \/ TickClaims \/ ReplyWaits \/ Admit \/ Pause \/ Resume \/ ChangeKind
    \/ Examines \/ Recovers
    \/ \E h \in Host : TickFires(h) \/ CheckNow(h) \/ Renew(h) \/ ShutsDown(h) \/ Crash(h)
    \/ \E r \in Run : \/ Bind(r) \/ SetupFails(r) \/ AgentStarts(r) \/ Report(r) \/ TurnEnds(r)
                      \/ Settles(r) \/ SettleFails(r) \/ OrphanEnds(r) \/ Lapses(r) \/ Observes(r)

Spec == Init /\ [][Next]_vars

-----------------------------------------------------------------------------
\* The tick runs every few seconds, a host works a run off and renews its
\* leases, a turn ends or is cut off, a dead host's leases run out, a sandbox
\* without a host stops, and the pump looks at every run that is let go.
Fairness ==
    /\ WF_vars(TickClaims) /\ WF_vars(\E h \in Host : TickFires(h))
    /\ WF_vars(Examines) /\ WF_vars(Recovers)
    /\ \A h \in Host : WF_vars(Renew(h))
    /\ \A r \in Run :
         /\ WF_vars(Bind(r) \/ AgentStarts(r) \/ SetupFails(r)) /\ WF_vars(TurnEnds(r))
         /\ WF_vars(Settles(r)) /\ WF_vars(OrphanEnds(r))
         /\ WF_vars(Lapses(r) /\ run[r].host = Null)
         /\ SF_vars(Observes(r))

FairSpec == Spec /\ Fairness

-----------------------------------------------------------------------------
\* Two agents never work on the same task's check-ins at once, whatever crashes
\* and whoever asks, unless the older run's host stalled through its lease.
AgentsTakeTurns ==
    \A r, q \in Run :
      r # q /\ {run[r].work, run[q].work} \subseteq AtWork /\ run[r].task /\ run[q].task
        => "stalled" \in {run[r].slip, run[q].slip}

\* The same without the exception: what the design says of leased dispatches.
OneAtATime ==
    \A r, q \in Run :
      {run[r].work, run[q].work} \subseteq AtWork /\ run[r].task /\ run[q].task => r = q

\* An app update is lost to no run: the run it was given to is open, and can
\* still answer it; one that was answered was answered by a run with a report.
EventsAreOwed ==
    \A e \in Event :
      /\ event[e].at = "given" => run[event[e].by].row = "open" /\ run[event[e].by].task
      /\ event[e].at = "consumed" => run[event[e].by].report

\* Run s has a report that answers run q: one that started later, or in the same
\* instant and finishes after it; one that is open answers if it is the latest.
Before(q, s) == \E i, j \in DOMAIN fin : fin[i] = q /\ fin[j] = s /\ i < j
Answers(s, q) ==
    /\ run[s].report /\ run[s].at >= run[q].at
    /\ Before(q, s) \/ (run[s].row = "open" /\ run[s].at = def.reportAt)

\* Run q finished without a report, no earlier than the latest one was asked for; it
\* missed if no report answers it.  The row forgets its reports when it starts over: it
\* may count a run that only a forgotten one answers.
Unreported(q) == run[q].row = "closed" /\ ~run[q].report /\ def.reportAt <= run[q].at
Missed(q) == Unreported(q) /\ ~\E s \in Run : Answers(s, q)
Outstanding(q) == Unreported(q) /\ ~\E s \in Run : run[s].at = def.reportAt /\ Answers(s, q)
Since == {fin[i] : i \in {i \in DOMAIN fin : i > era}}

\* A finish that counts leaves the count at no fewer than the misses in a row since the
\* latest report or the last fresh start.  It can run long (missesAfterRun says when:
\* a start-over lands while a run that still counts is open), and then by no more than
\* runs from before that start, answered by nothing the row remembers.
CountIsTrue ==
    [][fin' # fin /\ Counts(def) =>
         /\ Cardinality({q \in Since : Missed(q)})' <= def'.misses
         /\ def'.misses <= Cardinality({q \in Run : Outstanding(q)})']_vars

\* Every run ends, whatever becomes of its host, unless its finish could not be
\* written: then the host that no longer works on it keeps its lease.
RunEnds ==
    \A r \in Run :
      run[r].row = "open" ~> run[r].row = "closed" \/ run[r].slip = "unwritten"

\* An app update that waits, and a reply kept for the next check-in, are given
\* to one, while the task runs and no run of it is stuck as above.
Stuck == FreshRun = {} \/ ~def.enabled \/ \E r \in Open : run[r].slip = "unwritten"
UpdateIsHandled ==
    /\ \A e \in Event : event[e].at = "waiting" ~> event[e].at # "waiting" \/ Stuck
    /\ def.asked ~> ~def.asked \/ Stuck
=============================================================================
