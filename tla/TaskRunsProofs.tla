--------------------------- MODULE TaskRunsProofs ---------------------------
(***************************************************************************)
(* Proofs about TaskRuns: agents take turns on a task, no app update is    *)
(* lost to a run, and the count of missed check-ins is true, for any       *)
(* number of hosts, runs, updates and faults.                              *)
(*                                                                         *)
(* AgentsTakeTurns rests on what a closed run, and one a recovery is about *)
(* to close, have in common: no agent is at work on it, or its host        *)
(* stalled (Quiet).  Fits says what makes them so, of one run's row and    *)
(* its host; Looked, of the run a recovery has read.                       *)
(*                                                                         *)
(* CountIsTrue rests on two more, one for each side of the count: Kept and *)
(* Long, below.                                                            *)
(***************************************************************************)
EXTENDS TaskRuns, FiniteSetTheorems, TLAPS

Quiet(x) == x.work = "none" \/ x.slip = "stalled"

Fits(x) ==
    /\ x.row = "none" => x = NoRun
    /\ x.host = Null => x.work \in {"none", "orphan"}
    /\ x.work \in AtWork \union {"ready"} => x.bound
    /\ x.lease = "released" => x.work = "none"
    /\ x.lease = "lapsed" /\ x.host # Null => Quiet(x)
    /\ x.row = "closed" => Quiet(x)

RunsFit == \A r \in Run : Fits(run[r])

\* What a recovery has read cannot start an agent any more: at most one whose
\* host is gone is still at work, and then the recovery has yet to ask.
Looked ==
    seen.run # 0 =>
        /\ run[seen.run].row # "none"
        /\ Quiet(run[seen.run]) \/ (run[seen.run].host = Null /\ ~seen.over)

\* A run accepted as a check-in is alone: it finds none open, and none is
\* accepted as one beside it.
OneCheckIn ==
    \A r, q \in Run :
      run[r].row = "open" /\ run[q].row = "open" /\ run[r].task /\ run[q].task => r = q

GivenToRuns == \A e \in Event : event[e].at \in {"given", "consumed"} => event[e].by \in Run

Turns == RunsFit /\ Looked /\ OneCheckIn
Owed == GivenToRuns /\ EventsAreOwed
IInv == TypeOK /\ Turns /\ Owed

\* The bounds are numbers, and the least of an instant is 0.
LEMMA Sizes ==
    /\ MaxRuns \in Nat /\ Times \in Nat /\ MaxActs \in Nat /\ MaxFaults \in Nat
    /\ 0 \in Instant
<1>1. MaxRuns \in Nat /\ Times \in Nat /\ MaxActs \in Nat /\ MaxFaults \in Nat
    BY Bounds
<1> QED
    BY <1>1 DEF Instant

\* A fresh row has a place in every type.
LEMMA NoRunTyped == NoRun \in Dispatch
BY Sizes DEF NoRun, Dispatch

\* What a recovery has read, and that it has read nothing.
Reading == [run : Run \union {0}, bound : BOOLEAN, over : BOOLEAN]

LEMMA UnseenTyped == Unseen \in Reading /\ Unseen.run = 0
BY DEF Unseen, Reading

LEMMA SeenTyped ==
    ASSUME IInv, seen' = seen \/ seen' = Unseen
    PROVE  seen' \in Reading
<1>1. seen \in Reading
    BY DEF IInv, TypeOK, Reading
<1> QED
    BY <1>1, UnseenTyped

LEMMA RunsFinite == Run \in SUBSET Nat /\ 0 \notin Run /\ IsFiniteSet(Run)
<1>1. IsFiniteSet(1..MaxRuns)
    BY Sizes, FS_Interval
<1> QED
    BY <1>1, Sizes DEF Run

-----------------------------------------------------------------------------
\* The count of a finish is a count: of a subset of the runs, or one above the
\* count before it.
LEMMA UnansweredTyped ==
    ASSUME NEW rows, NEW after, NEW atMost \in Nat
    PROVE  Unanswered(rows, after, atMost) \in Nat
<1> DEFINE S == {q \in Run : rows[q].row = "closed" /\ ~rows[q].report /\ rows[q].at > after}
<1>1. IsFiniteSet(S) /\ S \subseteq Run
    BY RunsFinite, FS_Subset
<1>2. Cardinality(S) \in Nat
    BY <1>1, FS_CardinalityType
<1> QED
    BY <1>2 DEF Unanswered

LEMMA MissesTyped ==
    ASSUME NEW d \in Definition, NEW r \in Run, NEW rows, rows[r].at \in Instant
    PROVE  /\ MissesAfterRun(d, r, rows) \in Definition
           /\ MissesAfterRun(d, r, rows).task = d.task
<1>1. ASSUME NEW n \in Nat
      PROVE  Trimmed(d, n) \in Definition /\ Trimmed(d, n).task = d.task
    BY <1>1, Sizes DEF Trimmed, Cleared, Definition
<1>2. Cleared(d) \in Definition /\ Cleared(d).task = d.task
    BY Sizes DEF Cleared, Definition
<1>3. d.misses \in Nat /\ d.misses + 1 \in Nat
    BY DEF Definition
<1>4. AfterReport(d, r, rows) \in Definition /\ AfterReport(d, r, rows).task = d.task
    BY <1>1, <1>2, <1>3, UnansweredTyped DEF AfterReport
<1>5. AfterAnsweredMiss(d, rows) \in Definition /\ AfterAnsweredMiss(d, rows).task = d.task
    BY <1>1, <1>3, UnansweredTyped DEF AfterAnsweredMiss
<1>6. AfterMiss(d, r, rows) \in Definition /\ AfterMiss(d, r, rows).task = d.task
    <2> DEFINE n == IF d.reportAt # 0 /\ ReportStillOpen(rows, d.reportAt)
                      THEN Unanswered(rows, d.reportAt, d.misses + 1) ELSE d.misses + 1
               at == IF NewerMiss(d, r, rows) THEN d.missAt ELSE rows[r].at
               counted == [d EXCEPT !.misses = n, !.missAt = at]
    <2>1. n \in Nat /\ at \in Instant
        BY <1>3, UnansweredTyped DEF Definition
    <2>2. counted \in Definition /\ counted.task = d.task
        BY <2>1 DEF Definition
    <2>3. ASSUME NEW c \in Definition
          PROVE  /\ [c EXCEPT !.enabled = FALSE, !.next = FALSE, !.autoPaused = TRUE] \in Definition
                 /\ [c EXCEPT !.enabled = FALSE, !.next = FALSE, !.autoPaused = TRUE].task = c.task
        BY DEF Definition
    <2> QED
        BY <1>2, <2>2, <2>3 DEF AfterMiss
<1> QED
    BY <1>4, <1>5, <1>6 DEF MissesAfterRun

-----------------------------------------------------------------------------
\* What a step does to the runs, told apart from what it does to the rest.

\* One run's row, or its host, moves on: it does not open again, the agent's
\* start aside it is not less quiet, and it was never fresh.
Moves(r, new) ==
    /\ run[r].row # "none" /\ Put(r, new)
    /\ new \in Dispatch /\ Fits(new)
    /\ new.row # "none" /\ (new.row = "open" => run[r].row = "open")
    /\ new.task = run[r].task
    /\ Quiet(run[r]) => Quiet(new)
    /\ run[r].host = Null => new.host = Null

\* Several do.
MoveAll ==
    /\ run' \in [Run -> Dispatch] /\ RunsFit'
    /\ \A r \in Run :
         /\ run[r].row # "none" => run'[r].row # "none"
         /\ run'[r].row = "open" => run[r].row = "open"
         /\ run'[r].task = run[r].task
         /\ Quiet(run[r]) => Quiet(run'[r])
         /\ run[r].host = Null => run'[r].host = Null

LEMMA MovesAll ==
    ASSUME IInv, NEW r \in Run, NEW new, Moves(r, new)
    PROVE  MoveAll
<1>1. run \in [Run -> Dispatch] /\ run' = [run EXCEPT ![r] = new]
    BY DEF IInv, TypeOK, Moves, Put
<1>2. run' \in [Run -> Dispatch] /\ run'[r] = new /\ \A q \in Run : q # r => run'[q] = run[q]
    BY <1>1 DEF Moves
<1>3. RunsFit'
    BY <1>2 DEF RunsFit, IInv, Turns, Moves
<1> QED
    BY <1>2, <1>3 DEF MoveAll, Moves

\* As long as a recovery reads nothing new, such a step keeps the turns.
LEMMA TurnsKept ==
    ASSUME IInv, MoveAll, seen' = seen \/ seen' = Unseen
    PROVE  Turns'
<1>1. RunsFit'
    BY DEF MoveAll
<1>2. Looked'
    <2> SUFFICES ASSUME seen' = seen, seen.run # 0 PROVE Looked'
        BY DEF Looked, Unseen
    <2>1. seen.run \in Run
        BY DEF IInv, TypeOK
    <2> QED
        BY <2>1 DEF MoveAll, Looked, IInv, Turns
<1>3. OneCheckIn'
    BY DEF MoveAll, OneCheckIn, IInv, Turns
<1> QED
    BY <1>1, <1>2, <1>3 DEF Turns

\* As long as no run closes and no report is taken back, the updates are owed.
LEMMA OwedKept ==
    ASSUME IInv, MoveAll, event' = event,
           \A r \in Run : run[r].row = "open" => run'[r].row = "open",
           \A r \in Run : run[r].report => run'[r].report
    PROVE  Owed'
<1>1. GivenToRuns'
    BY DEF GivenToRuns, IInv, Owed
<1>2. EventsAreOwed'
    BY DEF EventsAreOwed, GivenToRuns, IInv, Owed, MoveAll
<1> QED
    BY <1>1, <1>2 DEF Owed

\* A step that leaves every run as it is.
LEMMA StillAll ==
    ASSUME IInv, UNCHANGED run
    PROVE  MoveAll
BY DEF MoveAll, IInv, TypeOK, Turns, RunsFit

\* One run moves on and stays open if it was, with its report.
LEMMA MoveKeeps ==
    ASSUME IInv, NEW r \in Run, NEW new, Moves(r, new),
           run[r].row = "open" => new.row = "open", run[r].report => new.report,
           UNCHANGED <<def, fin, era, event, tick, acts>>, faults' \in 0..MaxFaults,
           seen' = seen \/ seen' = Unseen
    PROVE  IInv'
<1>1. MoveAll
    BY MovesAll
<1>2. Turns'
    BY <1>1, TurnsKept
<1>3. /\ run' = [run EXCEPT ![r] = new] /\ run \in [Run -> Dispatch]
      /\ \A q \in Run : run'[q] = IF q = r THEN new ELSE run[q]
    BY DEF IInv, TypeOK, Moves, Put
<1>4. Owed'
    BY <1>1, <1>3, OwedKept
<1>5. seen' \in Reading
    BY SeenTyped
<1>6. TypeOK'
    BY <1>1, <1>5 DEF TypeOK, IInv, MoveAll, Reading
<1> QED
    BY <1>2, <1>4, <1>6 DEF IInv

\* A run that finishes lets go of the updates it was given.
LEMMA FinishKeeps ==
    ASSUME IInv, NEW r \in Run, NEW new \in Dispatch, Finish(r, new),
           run[r].row = "open", Fits([new EXCEPT !.row = "closed"]),
           new.task = run[r].task, new.report = run[r].report, new.at = run[r].at,
           new.host = run[r].host, Quiet(new),
           UNCHANGED <<era, acts, faults>>, seen' = seen \/ seen' = Unseen
    PROVE  IInv'
<1> DEFINE closed == [new EXCEPT !.row = "closed"]
           rows == [run EXCEPT ![r] = closed]
<1>1. run \in [Run -> Dispatch] /\ run' = rows
    BY DEF IInv, TypeOK, Finish
<1>2. closed \in Dispatch /\ closed.row = "closed" /\ closed.task = run[r].task
      /\ closed.report = run[r].report /\ closed.at \in Instant /\ closed.host = run[r].host
      /\ Quiet(closed)
    BY DEF Dispatch, Quiet
<1>3. Moves(r, closed)
    BY <1>1, <1>2 DEF Moves, Put
<1>4. MoveAll
    BY <1>3, MovesAll
<1>5. Turns'
    BY <1>4, TurnsKept
<1>6. \A q \in Run : rows[q] = IF q = r THEN closed ELSE run[q]
    BY <1>1
<1>7. event \in [Event -> [at : {"absent", "waiting", "given", "consumed"}, by : Run \union {0}]]
    BY DEF IInv, TypeOK
<1>8. event' = [e \in Event |-> IF event[e].at = "given" /\ event[e].by = r
                                 THEN [at |-> "waiting", by |-> 0] ELSE event[e]]
    BY DEF Finish, Released
<1>9. Owed'
    <2>1. \A e \in Event : event'[e].at \in {"given", "consumed"}
             => event'[e] = event[e] /\ ~(event[e].at = "given" /\ event[e].by = r)
        BY <1>7, <1>8
    <2>2. GivenToRuns'
        BY <2>1 DEF GivenToRuns, IInv, Owed
    <2>3. EventsAreOwed'
        BY <2>1, <1>1, <1>2, <1>6 DEF EventsAreOwed, GivenToRuns, IInv, Owed
    <2> QED
        BY <2>2, <2>3 DEF Owed
<1>10. TypeOK'
    <2>1. def' = MissesAfterRun(def, r, rows) /\ fin' = Append(fin, r)
          /\ tick' = IF def.enabled # def'.enabled THEN Outdated ELSE tick
        BY DEF Finish
    <2>2. def' \in Definition
        BY <2>1, <1>2, <1>6, MissesTyped DEF IInv, TypeOK
    <2>3. fin' \in Seq(Run)
        BY <2>1 DEF IInv, TypeOK
    <2>4. tick' \in {"none", "claimed", "stale"}
        BY <2>1 DEF IInv, TypeOK, Outdated
    <2>5. event' \in [Event -> [at : {"absent", "waiting", "given", "consumed"}, by : Run \union {0}]]
        BY <1>7, <1>8
    <2> QED
        <3>1. seen' \in Reading
            BY SeenTyped
        <3>2. run' \in [Run -> Dispatch] /\ era' \in Nat /\ acts' \in 0..MaxActs /\ faults' \in 0..MaxFaults
            BY <1>4 DEF TypeOK, IInv, MoveAll
        <3> QED
            BY <2>2, <2>3, <2>4, <2>5, <3>1, <3>2 DEF TypeOK, Reading
<1> QED
    BY <1>5, <1>9, <1>10 DEF IInv

-----------------------------------------------------------------------------
\* The host's side of a run.

\* What is known of a run that is not fresh.
LEMMA RunTyped ==
    ASSUME IInv, NEW r \in Run
    PROVE  run[r] \in Dispatch /\ Fits(run[r])
BY DEF IInv, TypeOK, Turns, RunsFit

LEMMA HostFinishesKeeps ==
    ASSUME IInv, NEW r \in Run, run[r].work # "none", HostFinishes(r)
    PROVE  IInv'
<1> DEFINE new == [run[r] EXCEPT !.work = "none"]
<1>1. /\ run[r] \in Dispatch /\ Fits(run[r]) /\ run[r].row # "none"
      /\ new \in Dispatch /\ new.work = "none" /\ new.task = run[r].task
      /\ new.report = run[r].report /\ new.at = run[r].at /\ new.host = run[r].host
      /\ new.row = run[r].row /\ Quiet(new)
    BY RunTyped DEF Dispatch, Fits, NoRun, Quiet
<1>2. CASE run[r].row = "open"
    <2>1. Fits([new EXCEPT !.row = "closed"])
        BY <1>1 DEF Dispatch, Fits, AtWork, Quiet
    <2>2. Finish(r, new) /\ UNCHANGED <<era, acts, faults>> /\ seen' = seen
        BY <1>2 DEF HostFinishes
    <2> QED
        BY <1>1, <1>2, <2>1, <2>2, FinishKeeps
<1>3. CASE run[r].row # "open"
    <2>1. Fits(new)
        BY <1>1, <1>3 DEF Dispatch, Fits, AtWork, Quiet
    <2>2. Moves(r, new) /\ seen' = seen /\ faults' \in 0..MaxFaults
          /\ UNCHANGED <<def, fin, era, event, tick, acts>>
        BY <1>1, <1>3, <2>1 DEF HostFinishes, Moves, IInv, TypeOK
    <2> QED
        BY <1>1, <1>3, <2>2, MoveKeeps
<1> QED
    BY <1>2, <1>3

LEMMA SetupFailsKeeps ==
    ASSUME IInv, NEW r \in Run, SetupFails(r)
    PROVE  IInv'
BY HostFinishesKeeps DEF SetupFails, InSetup

LEMMA SettlesKeeps ==
    ASSUME IInv, NEW r \in Run, Settles(r)
    PROVE  IInv'
BY HostFinishesKeeps DEF Settles

\* A step of a host that changes only the run's row and where the host is.
LEMMA WorksKeeps ==
    ASSUME IInv, NEW r \in Run, NEW new \in Dispatch, Put(r, new), Fits(new),
           run[r].row # "none", new.row = run[r].row, new.task = run[r].task,
           run[r].report => new.report, run[r].host = Null => new.host = Null,
           Quiet(run[r]) => Quiet(new), faults' \in 0..MaxFaults,
           UNCHANGED <<def, fin, era, event, tick, seen, acts>>
    PROVE  IInv'
<1>1. Moves(r, new)
    BY DEF Moves
<1> QED
    BY <1>1, MoveKeeps

LEMMA BindKeeps ==
    ASSUME IInv, NEW r \in Run, Bind(r)
    PROVE  IInv'
<1>1. /\ run[r] \in Dispatch /\ Fits(run[r]) /\ run[r].row # "none"
      /\ run[r].work = "setup" /\ faults' \in 0..MaxFaults
      /\ UNCHANGED <<def, fin, era, event, tick, seen, acts>>
    BY RunTyped DEF Bind, Fits, NoRun, IInv, TypeOK
<1>2. CASE run[r].row = "open"
    <2> DEFINE new == [run[r] EXCEPT !.bound = TRUE, !.work = "ready"]
    <2>1. new \in Dispatch /\ Put(r, new)
        BY <1>1, <1>2 DEF Bind, Dispatch, InSetup
    <2>2. Fits(new) /\ (Quiet(run[r]) => Quiet(new))
        BY <1>1, <1>2 DEF Fits, Quiet, Dispatch, AtWork
    <2>3. new.row = run[r].row /\ new.task = run[r].task /\ new.report = run[r].report
          /\ new.host = run[r].host
        BY <1>1 DEF Dispatch
    <2> QED
        BY <1>1, <2>1, <2>2, <2>3, WorksKeeps
<1>3. CASE run[r].row # "open"
    <2> DEFINE new == [run[r] EXCEPT !.work = "none"]
    <2>1. new \in Dispatch /\ Put(r, new)
        BY <1>1, <1>3 DEF Bind, Works, Dispatch
    <2>2. Fits(new) /\ (Quiet(run[r]) => Quiet(new))
        BY <1>1, <1>3 DEF Fits, Quiet, Dispatch, AtWork
    <2>3. new.row = run[r].row /\ new.task = run[r].task /\ new.report = run[r].report
          /\ new.host = run[r].host
        BY <1>1 DEF Dispatch
    <2> QED
        BY <1>1, <2>1, <2>2, <2>3, WorksKeeps
<1> QED
    BY <1>2, <1>3

LEMMA AgentStartsKeeps ==
    ASSUME IInv, NEW r \in Run, AgentStarts(r)
    PROVE  IInv'
<1> DEFINE new == [run[r] EXCEPT !.work = "agent"]
<1>1. /\ run[r] \in Dispatch /\ Fits(run[r]) /\ run[r].row # "none"
      /\ run[r].work = "ready" /\ faults' \in 0..MaxFaults
      /\ UNCHANGED <<def, fin, era, event, tick, seen, acts>>
    BY RunTyped DEF AgentStarts, Fits, NoRun, IInv, TypeOK
<1>2. new \in Dispatch /\ Put(r, new)
    BY <1>1 DEF AgentStarts, Works, Dispatch, AtWork
<1>3. Fits(new) /\ (Quiet(run[r]) => Quiet(new))
    BY <1>1 DEF Fits, Quiet, Dispatch, AtWork
<1>4. new.row = run[r].row /\ new.task = run[r].task /\ new.report = run[r].report
      /\ new.host = run[r].host
    BY <1>1 DEF Dispatch
<1> QED
    BY <1>1, <1>2, <1>3, <1>4, WorksKeeps

LEMMA TurnEndsKeeps ==
    ASSUME IInv, NEW r \in Run, TurnEnds(r)
    PROVE  IInv'
<1> DEFINE new == [run[r] EXCEPT !.work = "ended"]
<1>1. /\ run[r] \in Dispatch /\ Fits(run[r]) /\ run[r].row # "none"
      /\ run[r].work = "agent" /\ faults' \in 0..MaxFaults
      /\ UNCHANGED <<def, fin, era, event, tick, seen, acts>>
    BY RunTyped DEF TurnEnds, Fits, NoRun, IInv, TypeOK
<1>2. new \in Dispatch /\ Put(r, new)
    BY <1>1 DEF TurnEnds, Works, Dispatch
<1>3. Fits(new) /\ (Quiet(run[r]) => Quiet(new))
    BY <1>1 DEF Fits, Quiet, Dispatch, AtWork
<1>4. new.row = run[r].row /\ new.task = run[r].task /\ new.report = run[r].report
      /\ new.host = run[r].host
    BY <1>1 DEF Dispatch
<1> QED
    BY <1>1, <1>2, <1>3, <1>4, WorksKeeps

LEMMA OrphanEndsKeeps ==
    ASSUME IInv, NEW r \in Run, OrphanEnds(r)
    PROVE  IInv'
<1> DEFINE new == [run[r] EXCEPT !.work = "none"]
<1>1. /\ run[r] \in Dispatch /\ Fits(run[r]) /\ run[r].row # "none"
      /\ run[r].work = "orphan" /\ faults' \in 0..MaxFaults
      /\ UNCHANGED <<def, fin, era, event, tick, seen, acts>>
    BY RunTyped DEF OrphanEnds, Fits, NoRun, IInv, TypeOK
<1>2. new \in Dispatch /\ Put(r, new)
    BY <1>1 DEF OrphanEnds, Works, Dispatch
<1>3. Fits(new) /\ (Quiet(run[r]) => Quiet(new))
    BY <1>1 DEF Fits, Quiet, Dispatch, AtWork
<1>4. new.row = run[r].row /\ new.task = run[r].task /\ new.report = run[r].report
      /\ new.host = run[r].host
    BY <1>1 DEF Dispatch
<1> QED
    BY <1>1, <1>2, <1>3, <1>4, WorksKeeps

LEMMA FaultedTyped ==
    ASSUME IInv, Faulted
    PROVE  faults' \in 0..MaxFaults
BY Sizes DEF IInv, TypeOK, Faulted

LEMMA SettleFailsKeeps ==
    ASSUME IInv, NEW r \in Run, SettleFails(r)
    PROVE  IInv'
<1> DEFINE new == [run[r] EXCEPT !.work = "none", !.slip = "unwritten"]
<1>1. /\ run[r] \in Dispatch /\ Fits(run[r]) /\ run[r].row # "none" /\ run[r].row = "open"
      /\ faults' \in 0..MaxFaults
      /\ UNCHANGED <<def, fin, era, event, tick, seen, acts>>
    BY RunTyped, FaultedTyped DEF SettleFails
<1>2. new \in Dispatch /\ Put(r, new)
    BY <1>1 DEF SettleFails, Dispatch
<1>3. Fits(new) /\ (Quiet(run[r]) => Quiet(new))
    BY <1>1 DEF Fits, Quiet, Dispatch, AtWork
<1>4. new.row = run[r].row /\ new.task = run[r].task /\ new.report = run[r].report
      /\ new.host = run[r].host
    BY <1>1 DEF Dispatch
<1> QED
    BY <1>1, <1>2, <1>3, <1>4, WorksKeeps

LEMMA LapsesKeeps ==
    ASSUME IInv, NEW r \in Run, Lapses(r)
    PROVE  IInv'
<1>1. /\ run[r] \in Dispatch /\ Fits(run[r]) /\ run[r].row # "none" /\ run[r].row = "open"
      /\ run[r].lease = "held"
      /\ UNCHANGED <<def, fin, era, event, tick, seen, acts>>
    BY RunTyped DEF Lapses
<1>2. CASE run[r].host = Null
    <2> DEFINE new == [run[r] EXCEPT !.lease = "lapsed"]
    <2>1. new \in Dispatch /\ Put(r, new) /\ faults' \in 0..MaxFaults
        BY <1>1, <1>2 DEF Lapses, Dispatch, IInv, TypeOK
    <2>2. Fits(new) /\ (Quiet(run[r]) => Quiet(new))
        BY <1>1, <1>2 DEF Fits, Quiet, Dispatch, AtWork
    <2>3. new.row = run[r].row /\ new.task = run[r].task /\ new.report = run[r].report
          /\ new.host = run[r].host
        BY <1>1 DEF Dispatch
    <2> QED
        BY <1>1, <2>1, <2>2, <2>3, WorksKeeps
<1>3. CASE run[r].host # Null
    <2> DEFINE new == [run[r] EXCEPT !.lease = "lapsed", !.slip = "stalled"]
    <2>1. new \in Dispatch /\ Put(r, new) /\ faults' \in 0..MaxFaults
        BY <1>1, <1>3, FaultedTyped DEF Lapses, Dispatch
    <2>2. Fits(new) /\ (Quiet(run[r]) => Quiet(new))
        BY <1>1, <1>3 DEF Fits, Quiet, Dispatch, AtWork
    <2>3. new.row = run[r].row /\ new.task = run[r].task /\ new.report = run[r].report
          /\ new.host = run[r].host
        BY <1>1 DEF Dispatch
    <2> QED
        BY <1>1, <2>1, <2>2, <2>3, WorksKeeps
<1> QED
    BY <1>2, <1>3

\* A report consumes what its run was given.
LEMMA ReportKeeps ==
    ASSUME IInv, NEW r \in Run, Report(r)
    PROVE  IInv'
<1> DEFINE new == [run[r] EXCEPT !.report = TRUE]
<1>1. /\ run[r] \in Dispatch /\ Fits(run[r]) /\ run[r].row = "open" /\ Put(r, new)
      /\ run \in [Run -> Dispatch]
    BY RunTyped DEF Report, IInv, TypeOK
<1>2. /\ new \in Dispatch /\ Fits(new) /\ (Quiet(run[r]) => Quiet(new))
      /\ new.row = "open" /\ new.task = run[r].task /\ new.host = run[r].host /\ new.report
    BY <1>1 DEF Fits, Quiet, Dispatch, AtWork
<1>3. MoveAll
    <2>1. Moves(r, new)
        BY <1>1, <1>2 DEF Moves
    <2> QED
        BY <2>1, MovesAll
<1>4. Turns'
    BY <1>3, TurnsKept DEF Report
<1>5. \A q \in Run : run'[q] = IF q = r THEN new ELSE run[q]
    BY <1>1 DEF Put
<1>6. event \in [Event -> [at : {"absent", "waiting", "given", "consumed"}, by : Run \union {0}]]
    BY DEF IInv, TypeOK
<1>7. event' = [e \in Event |-> IF event[e].at = "given" /\ event[e].by = r
                                 THEN [event[e] EXCEPT !.at = "consumed"] ELSE event[e]]
    BY DEF Report
<1>8. \A e \in Event :
        /\ event'[e].by = event[e].by
        /\ event'[e].at = IF event[e].at = "given" /\ event[e].by = r THEN "consumed" ELSE event[e].at
        /\ event'[e] \in [at : {"absent", "waiting", "given", "consumed"}, by : Run \union {0}]
    BY <1>6, <1>7
<1>9. Owed'
    <2>1. GivenToRuns'
        BY <1>8 DEF GivenToRuns, IInv, Owed
    <2> HIDE DEF new
    <2>2. ASSUME NEW e \in Event, event'[e].at = "given"
          PROVE  run'[event'[e].by].row = "open" /\ run'[event'[e].by].task
        <3>1. event[e].at = "given" /\ event'[e].by = event[e].by /\ event[e].by # r
            BY <1>8, <2>2
        <3>2. event[e].by \in Run /\ run[event[e].by].row = "open" /\ run[event[e].by].task
            BY <3>1 DEF EventsAreOwed, GivenToRuns, IInv, Owed
        <3> QED
            BY <3>1, <3>2, <1>5
    <2>3. ASSUME NEW e \in Event, event'[e].at = "consumed"
          PROVE  run'[event'[e].by].report
        <3>1. CASE event[e].by = r
            BY <3>1, <1>2, <1>5, <1>8
        <3>2. CASE event[e].by # r
            <4>1. event[e].at = "consumed" /\ event'[e].by = event[e].by
                BY <1>8, <2>3, <3>2
            <4>2. event[e].by \in Run /\ run[event[e].by].report
                BY <4>1 DEF EventsAreOwed, GivenToRuns, IInv, Owed
            <4> QED
                BY <4>1, <4>2, <3>2, <1>5
        <3> QED
            BY <3>1, <3>2
    <2>4. EventsAreOwed'
        BY <2>2, <2>3 DEF EventsAreOwed
    <2> QED
        BY <2>1, <2>4 DEF Owed
<1>10. TypeOK'
    <2>1. def' \in Definition
        BY <1>1 DEF Report, IInv, TypeOK, Definition, Dispatch
    <2>2. event' \in [Event -> [at : {"absent", "waiting", "given", "consumed"}, by : Run \union {0}]]
        BY <1>7, <1>8
    <2> QED
        BY <1>3, <2>1, <2>2 DEF Report, TypeOK, IInv, MoveAll
<1> QED
    BY <1>4, <1>9, <1>10 DEF IInv

-----------------------------------------------------------------------------
\* The start of a run: what it takes, and what it leaves in order.
LEMMA AcceptKeeps ==
    ASSUME IInv, NEW h \in Host, Accept(h), UNCHANGED <<fin, era, seen, faults>>,
           tick' \in {"none", "claimed", "stale"}, acts' \in 0..MaxActs
    PROVE  IInv'
<1>1. PICK r \in FreshRun, at \in 1..Times :
        /\ Put(r, Accepted(h, at))
        /\ IF def.task
             THEN /\ def' = [def EXCEPT !.next = TRUE, !.asked = FALSE]
                  /\ event' = [e \in Event |-> IF e \in Given THEN [at |-> "given", by |-> r]
                                                              ELSE event[e]]
             ELSE UNCHANGED <<def, event>>
    BY DEF Accept
<1> DEFINE new == Accepted(h, at)
<1>2. /\ r \in Run /\ run[r].row = "none" /\ run[r] = NoRun /\ ~NoRun.report
      /\ run \in [Run -> Dispatch] /\ def \in Definition
    BY RunTyped DEF FreshRun, Fits, NoRun, IInv, TypeOK
<1>3. \A q \in Run : run'[q] = IF q = r THEN new ELSE run[q]
    BY <1>1, <1>2 DEF Put
<1>4. /\ new \in Dispatch /\ new.row = "open" /\ new.task = def.task /\ Fits(new)
    <2>1. at \in Instant /\ h # Null /\ def.task \in BOOLEAN
        BY <1>2, Sizes, NullIsNoHost DEF Instant, Definition
    <2>2. NoRun \in Dispatch /\ NoRun.lease = "held"
        BY NoRunTyped DEF NoRun
    <2>3. /\ new \in Dispatch /\ new.row = "open" /\ new.task = def.task /\ new.host = h
          /\ new.lease = "held" /\ new.work = "setup"
        BY <2>1, <2>2 DEF Accepted, Dispatch, InSetup
    <2> HIDE DEF new
    <2> QED
        BY <2>1, <2>3 DEF Fits, AtWork
<1>5. def.task => \A q \in Run : run[q].row # "open"
    <2> SUFFICES ASSUME def.task PROVE \A q \in Run : run[q].row # "open"
        OBVIOUS
    <2>1. IsFiniteSet(Open) /\ Open \subseteq Run
        BY RunsFinite, FS_Subset DEF Open
    <2>2. Cardinality(Open) \in Nat /\ ~(Cardinality(Open) >= 1)
        BY <2>1, FS_CardinalityType DEF Accept, Busy
    <2>3. Cardinality(Open) = 0
        BY <2>2
    <2>4. Open = {}
        BY <2>1, <2>3, FS_EmptySet
    <2> QED
        BY <2>4 DEF Open
<1>6. Turns'
    <2>1. RunsFit'
        BY <1>3, <1>4 DEF RunsFit, IInv, Turns
    <2>2. Looked'
        BY <1>2, <1>3 DEF Looked, IInv, Turns, TypeOK
    <2>3. OneCheckIn'
        BY <1>3, <1>4, <1>5 DEF OneCheckIn, IInv, Turns
    <2> QED
        BY <2>1, <2>2, <2>3 DEF Turns
<1>7. event \in [Event -> [at : {"absent", "waiting", "given", "consumed"}, by : Run \union {0}]]
    BY DEF IInv, TypeOK
<1>8. \A e \in Event : \/ event'[e] = event[e]
                       \/ def.task /\ event'[e] = [at |-> "given", by |-> r]
    BY <1>1
<1>9. Owed'
    <2>1. GivenToRuns'
        BY <1>2, <1>8 DEF GivenToRuns, IInv, Owed
    <2>2. ASSUME NEW e \in Event, event'[e] = event[e]
          PROVE  /\ event[e].at = "given" => run'[event[e].by].row = "open" /\ run'[event[e].by].task
                 /\ event[e].at = "consumed" => run'[event[e].by].report
        <3>1. CASE event[e].at = "given"
            <4>1. event[e].by \in Run /\ run[event[e].by].row = "open" /\ run[event[e].by].task
                BY <3>1 DEF EventsAreOwed, GivenToRuns, IInv, Owed
            <4>2. event[e].by # r
                BY <4>1, <1>2
            <4> QED
                BY <3>1, <4>1, <4>2, <1>3
        <3>2. CASE event[e].at = "consumed"
            <4>1. event[e].by \in Run /\ run[event[e].by].report
                BY <3>2 DEF EventsAreOwed, GivenToRuns, IInv, Owed
            <4>2. event[e].by # r
                BY <4>1, <1>2
            <4> QED
                BY <3>2, <4>1, <4>2, <1>3
        <3> QED
            BY <3>1, <3>2
    <2>3. ASSUME NEW e \in Event, def.task, event'[e] = [at |-> "given", by |-> r]
          PROVE  /\ event'[e].at = "given" /\ event'[e].by = r
                 /\ run'[r].row = "open" /\ run'[r].task
        <3>1. event'[e].at = "given" /\ event'[e].by = r
            BY <2>3
        <3>2. run'[r] = new
            BY <1>2, <1>3
        <3> HIDE DEF new
        <3>3. new.row = "open" /\ new.task
            BY <1>4, <2>3
        <3> QED
            BY <3>1, <3>2, <3>3
    <2>4. EventsAreOwed'
        BY <2>2, <2>3, <1>8 DEF EventsAreOwed
    <2> QED
        BY <2>1, <2>4 DEF Owed
<1>10. TypeOK'
    <2>1. run' \in [Run -> Dispatch]
        BY <1>1, <1>2, <1>4 DEF Put
    <2>2. def' \in Definition
        BY <1>1, <1>2 DEF Definition
    <2>3. event' \in [Event -> [at : {"absent", "waiting", "given", "consumed"}, by : Run \union {0}]]
        BY <1>1, <1>2, <1>7
    <2> QED
        BY <2>1, <2>2, <2>3 DEF TypeOK, IInv
<1> QED
    BY <1>6, <1>9, <1>10 DEF IInv

LEMMA ActedTyped ==
    ASSUME IInv, Acted
    PROVE  acts' \in 0..MaxActs
BY Sizes DEF IInv, TypeOK, Acted

\* A step that leaves the runs and the updates given as they are.
LEMMA RestKeeps ==
    ASSUME IInv, UNCHANGED <<run, fin, seen, faults>>,
           def' \in Definition, era' \in Nat, tick' \in {"none", "claimed", "stale"},
           acts' \in 0..MaxActs,
           event' \in [Event -> [at : {"absent", "waiting", "given", "consumed"}, by : Run \union {0}]],
           \A e \in Event : event'[e] = event[e] \/ event'[e].at = "waiting"
    PROVE  IInv'
<1>1. Turns'
    BY StillAll, TurnsKept
<1>2. Owed'
    <2>1. GivenToRuns'
        BY DEF GivenToRuns, IInv, Owed
    <2>2. EventsAreOwed'
        BY DEF EventsAreOwed, IInv, Owed
    <2> QED
        BY <2>1, <2>2 DEF Owed
<1>3. TypeOK'
    BY DEF TypeOK, IInv
<1> QED
    BY <1>1, <1>2, <1>3 DEF IInv

LEMMA TickFiresKeeps ==
    ASSUME IInv, NEW h \in Host, TickFires(h)
    PROVE  IInv'
<1>1. CASE Accept(h)
    <2>1. UNCHANGED <<fin, era, seen, faults>> /\ tick' \in {"none", "claimed", "stale"}
          /\ acts' \in 0..MaxActs
        BY DEF TickFires, IInv, TypeOK
    <2> QED
        BY <1>1, <2>1, AcceptKeeps
<1>2. CASE UNCHANGED <<def, run, event>>
    <2>1. /\ UNCHANGED <<run, fin, seen, faults, def, era, event, acts>> /\ tick' = "none"
          /\ def \in Definition /\ era \in Nat /\ acts \in 0..MaxActs
          /\ event \in [Event -> [at : {"absent", "waiting", "given", "consumed"}, by : Run \union {0}]]
        BY <1>2 DEF TickFires, IInv, TypeOK
    <2> QED
        BY <2>1, RestKeeps
<1> QED
    BY <1>1, <1>2 DEF TickFires

LEMMA CheckNowKeeps ==
    ASSUME IInv, NEW h \in Host, CheckNow(h)
    PROVE  IInv'
<1>1. /\ Accept(h) /\ UNCHANGED <<fin, era, seen, faults>> /\ acts' \in 0..MaxActs
      /\ tick' \in {"none", "claimed", "stale"}
    BY ActedTyped DEF CheckNow, IInv, TypeOK
<1> QED
    BY <1>1, AcceptKeeps

LEMMA TickClaimsKeeps ==
    ASSUME IInv, TickClaims
    PROVE  IInv'
BY RestKeeps DEF TickClaims, IInv, TypeOK

LEMMA ReplyWaitsKeeps ==
    ASSUME IInv, ReplyWaits
    PROVE  IInv'
<1>1. def' \in Definition
    BY DEF ReplyWaits, IInv, TypeOK, Definition
<1> QED
    BY <1>1, ActedTyped, RestKeeps DEF ReplyWaits, IInv, TypeOK

LEMMA AdmitKeeps ==
    ASSUME IInv, Admit
    PROVE  IInv'
<1>1. def' \in Definition
    BY DEF Admit, IInv, TypeOK, Definition
<1>2. PICK e \in Event : event' = [event EXCEPT ![e].at = "waiting"]
    BY DEF Admit
<1>3. event \in [Event -> [at : {"absent", "waiting", "given", "consumed"}, by : Run \union {0}]]
    BY DEF IInv, TypeOK
<1>4. event' \in [Event -> [at : {"absent", "waiting", "given", "consumed"}, by : Run \union {0}]]
    BY <1>2, <1>3
<1>5. \A d \in Event : event'[d] = event[d] \/ event'[d].at = "waiting"
    BY <1>2, <1>3
<1> QED
    BY <1>1, <1>4, <1>5, RestKeeps DEF Admit, IInv, TypeOK

\* A person's edits.
LEMMA EditKeeps ==
    ASSUME IInv, NEW new \in Definition, Edit(new), era' \in Nat
    PROVE  IInv'
<1>1. tick' \in {"none", "claimed", "stale"} /\ acts' \in 0..MaxActs
    BY ActedTyped DEF Edit, Outdated, IInv, TypeOK
<1> QED
    BY <1>1, RestKeeps DEF Edit, IInv, TypeOK

LEMMA PersonKeeps ==
    ASSUME IInv, Pause \/ Resume \/ ChangeKind
    PROVE  IInv'
<1>1. def \in Definition /\ era \in Nat /\ Len(fin) \in Nat
    BY DEF IInv, TypeOK
<1>2. CASE Pause
    <2>1. [def EXCEPT !.enabled = FALSE, !.next = FALSE] \in Definition
        BY <1>1 DEF Definition
    <2> QED
        BY <1>1, <1>2, <2>1, EditKeeps DEF Pause
<1>3. CASE Resume
    <2>1. Cleared([def EXCEPT !.enabled = TRUE, !.next = TRUE]) \in Definition
        BY <1>1, Sizes DEF Definition, Cleared
    <2> QED
        BY <1>1, <1>3, <2>1, EditKeeps DEF Resume
<1>4. CASE ChangeKind
    <2>1. Cleared(def) \in Definition
        BY <1>1, Sizes DEF Definition, Cleared
    <2>2. [Cleared(def) EXCEPT !.task = ~def.task, !.asked = FALSE, !.reportAt = 0] \in Definition
        BY <1>1, <2>1, Sizes DEF Definition
    <2> QED
        BY <1>1, <1>4, <2>2, EditKeeps DEF ChangeKind
<1> QED
    BY <1>2, <1>3, <1>4

-----------------------------------------------------------------------------
\* Leases, crashes and recoveries.

\* Many runs change at once, none of their rows closes, and nothing else does.
LEMMA LeasesKeep ==
    ASSUME IInv, run' \in [Run -> Dispatch], UNCHANGED <<def, fin, era, event, acts>>,
           tick' \in {"none", "claimed", "stale"}, faults' \in 0..MaxFaults,
           seen' = seen \/ seen' = Unseen,
           \A r \in Run : /\ Fits(run'[r]) /\ run'[r].row = run[r].row
                          /\ run'[r].task = run[r].task /\ run'[r].report = run[r].report
                          /\ Quiet(run[r]) => Quiet(run'[r])
                          /\ run[r].host = Null => run'[r].host = Null
    PROVE  IInv'
<1>1. MoveAll
    BY DEF MoveAll, RunsFit
<1>2. Turns' /\ Owed'
    BY <1>1, TurnsKept, OwedKept
<1>3. seen' \in Reading
    BY SeenTyped
<1>4. TypeOK'
    BY <1>3 DEF TypeOK, IInv, Reading
<1> QED
    BY <1>2, <1>4 DEF IInv

LEMMA RenewKeeps ==
    ASSUME IInv, NEW h \in Host, Renew(h)
    PROVE  IInv'
<1>1. \A r \in Run :
        /\ run'[r] = IF r \in Open /\ run[r].host = h THEN [run[r] EXCEPT !.lease = "held"] ELSE run[r]
        /\ run[r] \in Dispatch /\ Fits(run[r])
    BY RunTyped DEF Renew
<1>2. ASSUME NEW r \in Run
      PROVE  /\ run'[r] \in Dispatch /\ Fits(run'[r])
             /\ run'[r].row = run[r].row /\ run'[r].task = run[r].task
             /\ run'[r].report = run[r].report /\ run'[r].host = run[r].host
             /\ (Quiet(run[r]) => Quiet(run'[r]))
    <2>1. CASE r \in Open /\ run[r].host = h
        <3> DEFINE new == [run[r] EXCEPT !.lease = "held"]
        <3>1. run'[r] = new /\ run[r] \in Dispatch /\ Fits(run[r])
            BY <1>1, <2>1
        <3>2. new \in Dispatch /\ Fits(new) /\ new.row = run[r].row /\ new.task = run[r].task
              /\ new.report = run[r].report /\ new.host = run[r].host
              /\ (Quiet(run[r]) => Quiet(new))
            BY <3>1, <2>1 DEF Dispatch, Fits, Quiet, Open
        <3> QED
            BY <3>1, <3>2
    <2>2. CASE ~(r \in Open /\ run[r].host = h)
        BY <1>1, <2>2
    <2> QED
        BY <2>1, <2>2
<1>3. run' \in [Run -> Dispatch]
    BY <1>2 DEF Renew
<1> QED
    BY <1>2, <1>3, LeasesKeep DEF Renew, IInv, TypeOK

LEMMA ShutsDownKeeps ==
    ASSUME IInv, NEW h \in Host, ShutsDown(h)
    PROVE  IInv'
<1>1. \A r \in Run :
        /\ run'[r] = IF r \in Open /\ run[r].host = h
                       THEN [run[r] EXCEPT !.lease = "released", !.host = Null] ELSE run[r]
        /\ run[r] \in Dispatch /\ Fits(run[r])
        /\ run[r].host = h => run[r].work = "none"
    BY RunTyped DEF ShutsDown
<1>2. ASSUME NEW r \in Run
      PROVE  /\ run'[r] \in Dispatch /\ Fits(run'[r])
             /\ run'[r].row = run[r].row /\ run'[r].task = run[r].task
             /\ run'[r].report = run[r].report /\ (run[r].host = Null => run'[r].host = Null)
             /\ (Quiet(run[r]) => Quiet(run'[r]))
    <2>1. CASE r \in Open /\ run[r].host = h
        <3> DEFINE new == [run[r] EXCEPT !.lease = "released", !.host = Null]
        <3>1. run'[r] = new /\ run[r] \in Dispatch /\ Fits(run[r]) /\ run[r].work = "none"
            BY <1>1, <2>1
        <3>2. new \in Dispatch /\ Fits(new) /\ new.row = run[r].row /\ new.task = run[r].task
              /\ new.report = run[r].report /\ new.host = Null
              /\ (Quiet(run[r]) => Quiet(new))
            BY <3>1, <2>1 DEF Dispatch, Fits, Quiet, Open, AtWork
        <3> QED
            BY <3>1, <3>2
    <2>2. CASE ~(r \in Open /\ run[r].host = h)
        BY <1>1, <2>2
    <2> QED
        BY <2>1, <2>2
<1>3. run' \in [Run -> Dispatch]
    BY <1>2 DEF ShutsDown
<1> QED
    BY <1>2, <1>3, LeasesKeep DEF ShutsDown, IInv, TypeOK

LEMMA CrashKeeps ==
    ASSUME IInv, NEW h \in Host, Crash(h)
    PROVE  IInv'
<1>1. \A r \in Run :
        /\ run'[r] = IF run[r].host # h THEN run[r]
                     ELSE [run[r] EXCEPT !.host = Null,
                                         !.work = IF run[r].work \in AtWork THEN "orphan" ELSE "none"]
        /\ run[r] \in Dispatch /\ Fits(run[r])
    BY RunTyped DEF Crash
<1>2. ASSUME NEW r \in Run
      PROVE  /\ run'[r] \in Dispatch /\ Fits(run'[r])
             /\ run'[r].row = run[r].row /\ run'[r].task = run[r].task
             /\ run'[r].report = run[r].report /\ (run[r].host = Null => run'[r].host = Null)
             /\ (Quiet(run[r]) => Quiet(run'[r]))
    <2>1. CASE run[r].host # h
        BY <1>1, <2>1
    <2>2. CASE run[r].host = h
        <3> DEFINE work == IF run[r].work \in AtWork THEN "orphan" ELSE "none"
                   new == [run[r] EXCEPT !.host = Null, !.work = work]
        <3>0. run'[r] = new /\ run[r] \in Dispatch /\ Fits(run[r]) /\ run[r].host # Null
            BY <1>1, <2>2, NullIsNoHost
        <3>1. /\ run'[r] = new /\ new \in Dispatch /\ new.host = Null /\ new.work = work
              /\ new.row = run[r].row /\ new.task = run[r].task /\ new.report = run[r].report
              /\ new.bound = run[r].bound /\ new.lease = run[r].lease /\ new.slip = run[r].slip
            BY <3>0 DEF Dispatch, AtWork
        <3>2. run[r].row # "none"
            BY <3>0 DEF Fits, NoRun
        <3>3. Quiet(run[r]) => Quiet(new)
            BY <3>1 DEF Quiet, AtWork
        <3> HIDE DEF new
        <3>4. Fits(new)
            BY <3>0, <3>1, <3>2, <3>3 DEF Fits, AtWork
        <3> QED
            BY <3>1, <3>3, <3>4
    <2> QED
        BY <2>1, <2>2
<1>3. run' \in [Run -> Dispatch]
    BY <1>2 DEF Crash
<1>4. faults' \in 0..MaxFaults
    BY FaultedTyped DEF Crash
<1> QED
    BY <1>2, <1>3, <1>4, LeasesKeep DEF Crash, IInv, TypeOK

\* A recovery reads a run that is let go: no agent is at work on it, or its
\* host is gone and it has a conversation to ask about.
LEMMA ObservesKeeps ==
    ASSUME IInv, NEW r \in Run, Observes(r)
    PROVE  IInv'
<1>1. /\ run[r] \in Dispatch /\ Fits(run[r]) /\ run[r].row = "open" /\ run[r].lease # "held"
      /\ seen' = [run |-> r, bound |-> run[r].bound,
                  over |-> run[r].lease = "released" \/ ~run[r].bound]
      /\ UNCHANGED <<def, run, fin, era, event, tick, acts, faults>>
    BY RunTyped DEF Observes, Open
<1>2. Quiet(run[r]) \/ (run[r].host = Null /\ run[r].lease # "released" /\ run[r].bound)
    BY <1>1 DEF Fits, Quiet, Dispatch, AtWork
<1>3. seen'.run = r /\ (run[r].lease # "released" /\ run[r].bound => ~seen'.over)
    BY <1>1
<1>4. Looked'
    BY <1>1, <1>2, <1>3 DEF Looked, Quiet
<1>5. RunsFit' /\ OneCheckIn' /\ Owed'
    BY <1>1 DEF RunsFit, OneCheckIn, Owed, GivenToRuns, EventsAreOwed, IInv, Turns
<1>6. seen' \in Reading
    BY <1>1 DEF Dispatch, Reading
<1>7. TypeOK'
    BY <1>1, <1>6 DEF TypeOK, IInv, Reading
<1> QED
    BY <1>4, <1>5, <1>7 DEF IInv, Turns

LEMMA ExaminesKeeps ==
    ASSUME IInv, Examines
    PROVE  IInv'
<1> DEFINE r == seen.run
<1>1. /\ r \in Run /\ run[r] \in Dispatch /\ Fits(run[r]) /\ run[r].row # "none"
      /\ UNCHANGED <<def, fin, era, event, tick, acts, faults>> /\ ~seen.over
      /\ Quiet(run[r]) \/ run[r].host = Null
      /\ faults' \in 0..MaxFaults /\ seen \in Reading
    BY RunTyped DEF Examines, IInv, TypeOK, Turns, Looked, Reading
<1>2. CASE run[r].work \in AtWork
    <2> DEFINE lease == IF run[r].row = "open" /\ run[r].lease = "lapsed" THEN "held" ELSE run[r].lease
               new == [run[r] EXCEPT !.lease = lease]
    <2>1. Put(r, new) /\ seen' = Unseen /\ new \in Dispatch
        BY <1>1, <1>2 DEF Examines, Dispatch
    <2>2. Fits(new) /\ (Quiet(run[r]) => Quiet(new))
        BY <1>1, <1>2 DEF Fits, Quiet, Dispatch, AtWork
    <2>3. new.row = run[r].row /\ new.task = run[r].task /\ new.report = run[r].report
          /\ new.host = run[r].host
        BY <1>1 DEF Dispatch
    <2>4. Moves(r, new)
        BY <1>1, <2>1, <2>2, <2>3 DEF Moves
    <2> QED
        BY <1>1, <2>1, <2>3, <2>4, MoveKeeps
<1>3. CASE run[r].work \notin AtWork
    <2>1. seen' = [seen EXCEPT !.over = TRUE] /\ UNCHANGED run
        BY <1>3 DEF Examines
    <2>2. Quiet(run[r])
        BY <1>1, <1>3 DEF Fits, Quiet, AtWork
    <2>3. seen'.run = r /\ seen' \in Reading
        BY <1>1, <2>1 DEF Reading
    <2>4. Looked'
        BY <1>1, <2>1, <2>2, <2>3 DEF Looked
    <2>5. RunsFit' /\ OneCheckIn' /\ Owed'
        BY <1>1, <2>1 DEF RunsFit, OneCheckIn, Owed, GivenToRuns, EventsAreOwed, IInv, Turns
    <2>6. TypeOK'
        BY <1>1, <2>1, <2>3 DEF TypeOK, IInv, Reading
    <2> QED
        BY <2>4, <2>5, <2>6 DEF IInv, Turns
<1> QED
    BY <1>2, <1>3

LEMMA RecoversKeeps ==
    ASSUME IInv, Recovers
    PROVE  IInv'
<1> DEFINE r == seen.run
           closed == [run[r] EXCEPT !.row = "closed"]
<1>1. /\ r \in Run /\ run[r] \in Dispatch /\ Fits(run[r]) /\ Quiet(run[r])
      /\ UNCHANGED <<era, acts, faults>> /\ seen' = Unseen
    BY RunTyped DEF Recovers, IInv, TypeOK, Turns, Looked
<1>2. CASE Finish(r, run[r]) /\ run[r].row = "open"
    <2>1. Fits(closed)
        BY <1>1, <1>2 DEF Fits, Quiet, Dispatch
    <2> QED
        BY <1>1, <1>2, <2>1, FinishKeeps
<1>3. CASE UNCHANGED <<run, fin, def, tick, event>>
    <2>1. MoveAll /\ seen' \in Reading
        BY <1>1, <1>3, StillAll, SeenTyped
    <2>2. Turns' /\ Owed'
        BY <1>1, <1>3, <2>1, TurnsKept, OwedKept
    <2>3. TypeOK'
        BY <1>1, <1>3, <2>1 DEF TypeOK, IInv, Reading
    <2> QED
        BY <2>2, <2>3 DEF IInv
<1> QED
    BY <1>2, <1>3 DEF Recovers

-----------------------------------------------------------------------------
LEMMA Starts ==
    ASSUME Init
    PROVE  IInv
<1>1. PICK kind \in BOOLEAN :
         def = [task |-> kind, enabled |-> TRUE, next |-> TRUE, asked |-> FALSE,
                misses |-> 0, missAt |-> 0, reportAt |-> 0, autoPaused |-> FALSE]
    BY DEF Init
<1>2. def \in Definition
    BY <1>1, Sizes DEF Definition
<1>3. run \in [Run -> Dispatch] /\ \A r \in Run : run[r] = NoRun
    BY NoRunTyped DEF Init
<1>4. TypeOK
    <2>1. fin \in Seq(Run) /\ seen \in Reading /\ acts \in 0..MaxActs /\ faults \in 0..MaxFaults
        BY UnseenTyped, Sizes DEF Init
    <2> QED
        BY <1>2, <1>3, <2>1 DEF TypeOK, Init, Reading
<1>5. Fits(NoRun)
    BY DEF Fits, NoRun, AtWork
<1>6. Turns
    BY <1>3, <1>5, UnseenTyped DEF Turns, RunsFit, Looked, OneCheckIn, Init, NoRun
<1>7. Owed
    BY DEF Owed, GivenToRuns, EventsAreOwed, Init
<1> QED
    BY <1>4, <1>6, <1>7 DEF IInv

LEMMA Keeps ==
    ASSUME IInv, [Next]_vars
    PROVE  IInv'
<1>1. CASE TickClaims \/ ReplyWaits \/ Admit
    BY <1>1, TickClaimsKeeps, ReplyWaitsKeeps, AdmitKeeps
<1>2. CASE Pause \/ Resume \/ ChangeKind
    BY <1>2, PersonKeeps
<1>3. CASE Examines \/ Recovers
    BY <1>3, ExaminesKeeps, RecoversKeeps
<1>4. ASSUME NEW h \in Host, TickFires(h) \/ CheckNow(h) \/ Renew(h) \/ ShutsDown(h) \/ Crash(h)
      PROVE  IInv'
    BY <1>4, TickFiresKeeps, CheckNowKeeps, RenewKeeps, ShutsDownKeeps, CrashKeeps
<1>5. ASSUME NEW r \in Run,
             \/ Bind(r) \/ SetupFails(r) \/ AgentStarts(r) \/ Report(r) \/ TurnEnds(r)
             \/ Settles(r) \/ SettleFails(r) \/ OrphanEnds(r) \/ Lapses(r) \/ Observes(r)
      PROVE  IInv'
    BY <1>5, BindKeeps, SetupFailsKeeps, AgentStartsKeeps, ReportKeeps, TurnEndsKeeps,
       SettlesKeeps, SettleFailsKeeps, OrphanEndsKeeps, LapsesKeeps, ObservesKeeps
<1>6. CASE UNCHANGED vars
    BY <1>6 DEF vars, IInv, TypeOK, Turns, RunsFit, Looked, OneCheckIn, Owed, GivenToRuns,
                EventsAreOwed
<1> QED
    BY <1>1, <1>2, <1>3, <1>4, <1>5, <1>6 DEF Next

LEMMA Invariant == Spec => []IInv
<1>1. Init => IInv
    BY Starts
<1>2. IInv /\ [Next]_vars => IInv'
    BY Keeps
<1> QED
    BY <1>1, <1>2, PTL DEF Spec

\* Every reachable state has its types; a count of misses is never negative.
THEOREM TypesHold == Spec => []TypeOK
<1>1. IInv => TypeOK
    BY DEF IInv
<1> QED
    BY <1>1, Invariant, PTL

\* Agents take turns on a task, through crashes, restarts, edits of its kind
\* and recoveries (store.ts acceptDispatch and finishDispatch, the pump of
\* repeat-runtime.ts): two at once take a host that stalled through its lease.
THEOREM AgentsAlone == Spec => []AgentsTakeTurns
<1>1. IInv => AgentsTakeTurns
    <2> SUFFICES ASSUME IInv, NEW r \in Run, NEW q \in Run, r # q,
                        {run[r].work, run[q].work} \subseteq AtWork, run[r].task, run[q].task,
                        "stalled" \notin {run[r].slip, run[q].slip}
                 PROVE  FALSE
        BY DEF AgentsTakeTurns
    <2>1. run[r].row = "open" /\ run[q].row = "open"
        <3>1. ASSUME NEW x \in {r, q} PROVE run[x].row = "open"
            BY RunTyped DEF Fits, Quiet, AtWork, Dispatch, NoRun
        <3> QED
            BY <3>1
    <2> QED
        BY <2>1 DEF IInv, Turns, OneCheckIn
<1> QED
    BY <1>1, Invariant, PTL

\* No app update is lost to a run that ended, and none counts as handled that
\* no report answered (task-events.ts assign, consume and release).
THEOREM UpdatesAreOwed == Spec => []EventsAreOwed
<1>1. IInv => EventsAreOwed
    BY DEF IInv, Owed
<1> QED
    BY <1>1, Invariant, PTL

-----------------------------------------------------------------------------
(* The count of misses.                                                    *)

\* Only runs that are closed have finished, and a run that is accepted has a start.
FinIsClosed == \A i \in DOMAIN fin : run[fin[i]].row = "closed"
Started == \A r \in Run : run[r].row # "none" => run[r].at # 0

\* While finishes count, none that missed since the count started over is left out, and
\* none of them started after the latest miss.
MissedSince == {q \in Since : Missed(q)}
Lately == {q \in Run : Outstanding(q)}
Kept ==
    Counts(def) =>
      /\ Cardinality(MissedSince) <= def.misses
      /\ \A q \in MissedSince : run[q].at <= def.missAt

\* The count is not too long, unless the run of the latest report is still open: that
\* report has answered misses that nothing has taken off yet.
Reporting == ReportStillOpen(run, def.reportAt)
Long == Counts(def) /\ ~Reporting => def.misses <= Cardinality(Lately)

CountInv == FinIsClosed /\ Started /\ Kept /\ Long

\* Cardinality of what is counted.
LEMMA CountsAreNumbers ==
    ASSUME NEW S, S \subseteq Run
    PROVE  IsFiniteSet(S) /\ Cardinality(S) \in Nat
<1>1. IsFiniteSet(S)
    BY RunsFinite, FS_Subset
<1> QED
    BY <1>1, FS_CardinalityType

LEMMA FewerCount ==
    ASSUME NEW S, NEW T, S \subseteq T, T \subseteq Run
    PROVE  Cardinality(S) <= Cardinality(T)
BY CountsAreNumbers, FS_Subset

LEMMA OneMoreCounts ==
    ASSUME NEW S, NEW T, NEW r \in Run, S \subseteq T \union {r}, T \subseteq Run
    PROVE  Cardinality(S) <= Cardinality(T) + 1
<1>1. T \union {r} \subseteq Run
    BY DEF Run
<1>2. Cardinality(S) <= Cardinality(T \union {r})
    BY <1>1, FewerCount
<1>3. Cardinality(T \union {r}) \in {Cardinality(T), Cardinality(T) + 1}
    BY CountsAreNumbers, FS_AddElement
<1>4. Cardinality(S) \in Nat /\ Cardinality(T) \in Nat
    BY <1>1, CountsAreNumbers
<1> QED
    BY <1>2, <1>3, <1>4

\* The runs without a report that started later.
Later(rows, after) ==
    {q \in Run : rows[q].row = "closed" /\ ~rows[q].report /\ rows[q].at > after}

LEMMA UnansweredIs ==
    ASSUME NEW rows, NEW after, NEW atMost \in Nat
    PROVE  /\ Unanswered(rows, after, atMost) \in Nat
           /\ Unanswered(rows, after, atMost) <= atMost
           /\ Unanswered(rows, after, atMost) <= Cardinality(Later(rows, after))
           /\ Unanswered(rows, after, atMost) \in {atMost, Cardinality(Later(rows, after))}
<1>1. Cardinality(Later(rows, after)) \in Nat
    BY CountsAreNumbers DEF Later
<1> QED
    BY <1>1 DEF Unanswered, Later

\* What missesAfterRun makes of the count, and of the instant of the latest miss:
\* nothing, one more, or a trim to the runs that started after some instant.
Trims(d, e, n) == e.misses = n /\ (n = 0 \/ e.missAt = d.missAt)
LEMMA TrimmedIs ==
    ASSUME NEW d \in Definition, NEW n \in Nat
    PROVE  Trims(d, Trimmed(d, n), n) /\ Trimmed(d, n).reportAt = d.reportAt
BY DEF Trims, Trimmed, Cleared, Definition

LEMMA AfterReportIs ==
    ASSUME NEW d \in Definition, NEW r, NEW rows
    PROVE  LET e == AfterReport(d, r, rows)
               from == IF NewerReport(d, r, rows) /\ ReportStillOpen(rows, d.reportAt)
                         THEN d.reportAt ELSE rows[r].at
           IN  /\ e.reportAt = d.reportAt
               /\ ~NewerMiss(d, r, rows) => e.misses = 0
               /\ NewerMiss(d, r, rows) => Trims(d, e, Unanswered(rows, from, d.misses))
<1> DEFINE from == IF NewerReport(d, r, rows) /\ ReportStillOpen(rows, d.reportAt)
                     THEN d.reportAt ELSE rows[r].at
<1>1. d.misses \in Nat
    BY DEF Definition
<1>2. Unanswered(rows, from, d.misses) \in Nat
    BY <1>1, UnansweredIs
<1>3. CASE NewerMiss(d, r, rows)
    BY <1>2, <1>3, TrimmedIs DEF AfterReport
<1>4. CASE ~NewerMiss(d, r, rows)
    BY <1>4 DEF AfterReport, Cleared, Definition
<1> QED
    BY <1>3, <1>4

LEMMA AfterAnsweredMissIs ==
    ASSUME NEW d \in Definition, NEW rows
    PROVE  LET e == AfterAnsweredMiss(d, rows)
               trims == d.misses > 0 /\ ReportStillOpen(rows, d.reportAt)
           IN  /\ e.reportAt = d.reportAt
               /\ trims => Trims(d, e, Unanswered(rows, d.reportAt, d.misses))
               /\ ~trims => e = d
<1>1. d.misses \in Nat
    BY DEF Definition
<1>2. Unanswered(rows, d.reportAt, d.misses) \in Nat
    BY <1>1, UnansweredIs
<1> QED
    BY <1>2, TrimmedIs DEF AfterAnsweredMiss

LEMMA AfterMissIs ==
    ASSUME NEW d \in Definition, NEW r, NEW rows, rows[r].at \in Instant
    PROVE  LET e == AfterMiss(d, r, rows)
               n == IF d.reportAt # 0 /\ ReportStillOpen(rows, d.reportAt)
                      THEN Unanswered(rows, d.reportAt, d.misses + 1) ELSE d.misses + 1
           IN  /\ e.reportAt = d.reportAt /\ e.misses = n
               /\ n # 0 => e.missAt >= rows[r].at /\ e.missAt >= d.missAt
<1> DEFINE n == IF d.reportAt # 0 /\ ReportStillOpen(rows, d.reportAt)
                  THEN Unanswered(rows, d.reportAt, d.misses + 1) ELSE d.misses + 1
           last == IF NewerMiss(d, r, rows) THEN d.missAt ELSE rows[r].at
           counted == [d EXCEPT !.misses = n, !.missAt = last]
           e == AfterMiss(d, r, rows)
<1>1. d.misses + 1 \in Nat /\ d.missAt \in Nat /\ rows[r].at \in Nat
    BY Sizes DEF Definition, Instant
<1>2. n \in Nat
    BY <1>1, UnansweredIs
<1>3. last >= d.missAt /\ last >= rows[r].at
    BY <1>1 DEF NewerMiss
<1>4. counted.misses = n /\ counted.missAt = last /\ counted.reportAt = d.reportAt
    BY DEF Definition
<1>5. e \in {Cleared(d), counted,
             [counted EXCEPT !.enabled = FALSE, !.next = FALSE, !.autoPaused = TRUE]}
      /\ (e = Cleared(d) \/ n # 0) /\ (n = 0 => e = Cleared(d))
    BY DEF AfterMiss
<1>6. Cleared(d).reportAt = d.reportAt /\ Cleared(d).misses = 0
    BY DEF Cleared, Definition
<1>7. CASE n = 0
    BY <1>5, <1>6, <1>7
<1>8. CASE n # 0
    <2>1. e \in {counted, [counted EXCEPT !.enabled = FALSE, !.next = FALSE, !.autoPaused = TRUE]}
        BY <1>8 DEF AfterMiss
    <2>2. e.misses = n /\ e.missAt = last /\ e.reportAt = d.reportAt
        BY <1>4, <2>1 DEF Definition
    <2> QED
        BY <1>3, <2>2
<1> QED
    BY <1>7, <1>8

\* What a finish does to the runs and to the order of finishes.
Closing(r) ==
    /\ run[r].row = "open" /\ run'[r].row = "closed"
    /\ run'[r].report = run[r].report /\ run'[r].at = run[r].at
    /\ \A q \in Run : q # r => run'[q] = run[q]
    /\ fin' = Append(fin, r) /\ era' = era /\ def'.reportAt = def.reportAt

\* The run that finishes is the last, and was not there before.
LEMMA ClosingOrders ==
    ASSUME IInv, FinIsClosed, NEW r \in Run, Closing(r)
    PROVE  /\ \A i \in DOMAIN fin : fin[i] # r /\ fin[i] \in Run
           /\ DOMAIN fin' = DOMAIN fin \union {Len(fin) + 1} /\ Len(fin) + 1 \notin DOMAIN fin
           /\ \A i \in DOMAIN fin : fin'[i] = fin[i] /\ i < Len(fin) + 1
           /\ fin'[Len(fin) + 1] = r
<1>1. fin \in Seq(Run) /\ \A i \in DOMAIN fin : run[fin[i]].row = "closed"
    BY DEF IInv, TypeOK, FinIsClosed
<1>2. \A i \in DOMAIN fin : fin[i] # r /\ fin[i] \in Run
    BY <1>1 DEF Closing
<1>3. fin' = Append(fin, r) /\ Len(fin) \in Nat /\ DOMAIN fin = 1..Len(fin)
    BY <1>1 DEF Closing
<1>4. DOMAIN fin' = 1..(Len(fin) + 1) /\ fin'[Len(fin) + 1] = r
      /\ \A i \in DOMAIN fin : fin'[i] = fin[i]
    BY <1>1, <1>3
<1> QED
    BY <1>2, <1>3, <1>4

LEMMA ClosingBefore ==
    ASSUME IInv, FinIsClosed, NEW r \in Run, Closing(r)
    PROVE  /\ \A q, s : Before(q, s) => Before(q, s)'
           /\ \A q \in Since : q # r /\ q \in Run /\ Before(q, r)'
           /\ \A s : ~Before(r, s)'
           /\ Since' \subseteq Since \union {r}
<1>1. \A i \in DOMAIN fin : fin[i] # r /\ fin[i] \in Run
      /\ fin'[i] = fin[i] /\ i < Len(fin) + 1 /\ i \in DOMAIN fin'
    BY ClosingOrders
<1>2. fin'[Len(fin) + 1] = r /\ Len(fin) + 1 \in DOMAIN fin'
      /\ \A i \in DOMAIN fin' : i \in DOMAIN fin \/ i = Len(fin) + 1
    BY ClosingOrders
<1>3. \A q, s : Before(q, s) => Before(q, s)'
    BY <1>1 DEF Before
<1>4. ASSUME NEW q \in Since
      PROVE  q # r /\ q \in Run /\ Before(q, r)'
    <2>1. PICK i \in DOMAIN fin : fin[i] = q
        BY DEF Since
    <2> QED
        BY <1>1, <1>2, <2>1 DEF Before
<1>5. ASSUME NEW s, Before(r, s)'
      PROVE  FALSE
    <2>1. PICK i \in DOMAIN fin', j \in DOMAIN fin' : fin'[i] = r /\ fin'[j] = s /\ i < j
        BY <1>5 DEF Before
    <2>2. i = Len(fin) + 1
        BY <1>1, <1>2, <2>1
    <2>3. j \in DOMAIN fin \/ j = Len(fin) + 1
        BY <1>2
    <2>4. Len(fin) \in Nat /\ DOMAIN fin = 1..Len(fin)
        BY DEF IInv, TypeOK
    <2> QED
        BY <2>1, <2>2, <2>3, <2>4
<1>6. Since' \subseteq Since \union {r}
    BY <1>1, <1>2 DEF Since, Closing
<1> QED
    BY <1>3, <1>4, <1>5, <1>6

\* What answered a run still does.
LEMMA ClosingAnswers ==
    ASSUME IInv, FinIsClosed, NEW r \in Run, Closing(r), NEW q \in Since, NEW s \in Run,
           Answers(s, q)
    PROVE  Answers(s, q)'
<1>1. q # r /\ q \in Run /\ Before(q, r)'
    BY ClosingBefore
<1>2. run'[q].at = run[q].at /\ run'[s].at = run[s].at /\ run'[s].report = run[s].report
    <2>1. run'[q] = run[q]
        BY <1>1 DEF Closing
    <2>2. run'[s].at = run[s].at /\ run'[s].report = run[s].report
        BY DEF Closing
    <2> QED
        BY <2>1, <2>2
<1>3. CASE s = r
    BY <1>1, <1>2, <1>3 DEF Answers
<1>4. CASE s # r
    <2>1. run'[s].row = run[s].row /\ def'.reportAt = def.reportAt
        BY <1>4 DEF Closing
    <2>2. Before(q, s) => Before(q, s)'
        BY ClosingBefore
    <2> QED
        BY <1>2, <2>1, <2>2 DEF Answers
<1> QED
    BY <1>3, <1>4

\* The misses after a finish are those before it, and perhaps the run's own; none is
\* answered by the run, or by a report whose run is still open.
LEMMA MissesAfter ==
    ASSUME IInv, FinIsClosed, NEW r \in Run, Closing(r)
    PROVE  /\ MissedSince' \subseteq MissedSince \union {r}
           /\ run[r].report \/ def.reportAt > run[r].at => MissedSince' \subseteq MissedSince
           /\ run[r].report => \A q \in MissedSince' : run'[q].at > run[r].at
           /\ ReportStillOpen(run', def.reportAt) =>
                \A q \in MissedSince' : run'[q].at > def.reportAt
           /\ MissedSince' \subseteq Run /\ MissedSince \subseteq Run
<1>0. \A q \in Since' : q = r \/ (q \in Since /\ q \in Run)
    BY ClosingBefore
<1>1. \A q \in Run : run[q].at \in Nat /\ run'[q].at = run[q].at
                     /\ run'[q].report = run[q].report
    BY Sizes DEF Closing, IInv, TypeOK, Dispatch, Instant
<1>2. def.reportAt \in Nat /\ def'.reportAt = def.reportAt
    BY Sizes DEF Closing, IInv, TypeOK, Definition, Instant
<1>3. ASSUME NEW q \in MissedSince', q # r
      PROVE  q \in MissedSince
    <2>1. q \in Since /\ q \in Run
        BY <1>0, <1>3 DEF MissedSince
    <2>2. Unreported(q)
        BY <1>2, <1>3, <2>1 DEF MissedSince, Missed, Unreported, Closing
    <2>3. ASSUME NEW s \in Run, Answers(s, q)
          PROVE  FALSE
        BY <2>1, <2>3, ClosingAnswers DEF MissedSince, Missed
    <2> QED
        BY <2>1, <2>2, <2>3 DEF MissedSince, Missed
<1>4. run[r].report \/ def.reportAt > run[r].at => r \notin MissedSince'
    BY <1>1, <1>2 DEF MissedSince, Missed, Unreported
<1>5. ASSUME run[r].report, NEW q \in MissedSince'
      PROVE  run'[q].at > run[r].at
    <2>1. q \in Since /\ q \in Run /\ q # r
        BY <1>0, <1>4, <1>5
           DEF MissedSince
    <2>2. Before(q, r)'
        BY <2>1, ClosingBefore
    <2>3. ~Answers(r, q)'
        BY DEF MissedSince, Missed
    <2>4. ~(run'[r].at >= run'[q].at)
        BY <1>1, <1>5, <2>2, <2>3 DEF Answers
    <2> QED
        BY <1>1, <2>1, <2>4
<1>6. ASSUME ReportStillOpen(run', def.reportAt), NEW q \in MissedSince'
      PROVE  run'[q].at > def.reportAt
    <2>1. PICK s \in Run : run'[s].row = "open" /\ run'[s].report /\ run'[s].at = def.reportAt
        BY <1>6 DEF ReportStillOpen
    <2>2. q \in Run /\ ~Answers(s, q)'
        BY <1>0 DEF MissedSince, Missed
    <2>3. ~(run'[s].at >= run'[q].at)
        BY <1>2, <2>1, <2>2 DEF Answers
    <2> QED
        BY <1>1, <1>2, <2>1, <2>2, <2>3
<1>7. MissedSince' \subseteq Run /\ MissedSince \subseteq Run
    BY <1>0, ClosingBefore DEF MissedSince
<1> QED
    BY <1>3, <1>4, <1>5, <1>6, <1>7

\* What was outstanding is still, unless the run is the latest to have reported; the run
\* is too when it did not report and no report that is as late is there to answer it.
LEMMA LatelyAfter ==
    ASSUME IInv, FinIsClosed, Started, NEW r \in Run, Closing(r)
    PROVE  /\ ~run[r].report \/ run[r].at # def.reportAt => Lately \subseteq Lately'
           /\ r \notin Lately
           /\ ~run[r].report /\ run[r].at >= def.reportAt
              /\ (def.reportAt = 0 \/ ~ReportStillOpen(run', def.reportAt)) => r \in Lately'
           /\ Later(run', def.reportAt) \subseteq Lately'
           /\ ~run[r].report \/ run[r].at # def.reportAt =>
                (ReportStillOpen(run', def.reportAt) <=> Reporting)
<1>1. /\ def.reportAt \in Nat /\ def'.reportAt = def.reportAt
      /\ \A q \in Run : run[q].at \in Nat /\ run'[q].at = run[q].at
                        /\ run'[q].report = run[q].report
    BY Sizes DEF Closing, IInv, TypeOK, Definition, Dispatch, Instant
<1>2. \A q \in Run : q # r => run'[q] = run[q]
    BY DEF Closing
<1>3. run[r].row = "open" /\ run'[r].row = "closed"
    BY DEF Closing
<1>4. ASSUME NEW q, NEW s, s # r, Before(q, s)'
      PROVE  Before(q, s)
    <2>1. PICK i \in DOMAIN fin', j \in DOMAIN fin' : fin'[i] = q /\ fin'[j] = s /\ i < j
        BY <1>4 DEF Before
    <2>2. fin \in Seq(Run) /\ fin' = Append(fin, r)
        BY DEF IInv, TypeOK, Closing
    <2>3. j \in DOMAIN fin /\ i \in DOMAIN fin
        BY <1>4, <2>1, <2>2
    <2>4. fin[i] = q /\ fin[j] = s
        BY <2>1, <2>3, ClosingOrders
    <2> QED
        BY <2>1, <2>3, <2>4 DEF Before
<1>5. ASSUME ~run[r].report \/ run[r].at # def.reportAt, NEW q \in Lately
      PROVE  q \in Lately'
    <2>1. q \in Run /\ Unreported(q) /\ q # r
        BY <1>3 DEF Lately, Outstanding, Unreported
    <2>2. Unreported(q)'
        BY <1>1, <1>2, <2>1 DEF Unreported
    <2>3. ASSUME NEW s \in Run, run'[s].at = def'.reportAt, Answers(s, q)'
          PROVE  FALSE
        <3>1. s # r
            BY <1>1, <1>5, <2>3 DEF Answers
        <3>2. Before(q, s)' => Before(q, s)
            BY <1>4, <3>1
        <3>3. run[s].at = def.reportAt /\ Answers(s, q)
            BY <1>1, <1>2, <2>1, <2>3, <3>1, <3>2 DEF Answers
        <3> QED
            BY <3>3 DEF Lately, Outstanding
    <2> QED
        BY <2>1, <2>2, <2>3 DEF Lately, Outstanding
<1>6. r \notin Lately
    BY <1>3 DEF Lately, Outstanding, Unreported
<1>7. ASSUME ~run[r].report, run[r].at >= def.reportAt,
             def.reportAt = 0 \/ ~ReportStillOpen(run', def.reportAt)
      PROVE  r \in Lately'
    <2>1. Unreported(r)'
        BY <1>1, <1>3, <1>7 DEF Unreported
    <2>2. ASSUME NEW s \in Run, run'[s].at = def'.reportAt, Answers(s, r)'
          PROVE  FALSE
        <3>1. ~Before(r, s)'
            BY ClosingBefore
        <3>2. run'[s].row = "open" /\ run'[s].report /\ run'[s].at = def.reportAt
            BY <1>1, <2>2, <3>1 DEF Answers
        <3>3. def.reportAt = 0
            BY <1>7, <3>2 DEF ReportStillOpen
        <3>4. run[s].row = "open"
            BY <1>2, <1>3, <3>2
        <3> QED
            BY <1>1, <3>2, <3>3, <3>4 DEF Started
    <2> QED
        BY <2>1, <2>2 DEF Lately, Outstanding
<1>8. ASSUME NEW q \in Later(run', def.reportAt)
      PROVE  q \in Lately'
    <2>1. q \in Run /\ run'[q].row = "closed" /\ ~run'[q].report /\ run'[q].at > def.reportAt
        BY DEF Later
    <2>2. Unreported(q)'
        BY <1>1, <2>1 DEF Unreported
    <2>3. ASSUME NEW s \in Run, run'[s].at = def'.reportAt, Answers(s, q)'
          PROVE  FALSE
        <3>1. run'[s].at >= run'[q].at
            BY <2>3 DEF Answers
        <3> QED
            BY <1>1, <2>1, <2>3, <3>1
    <2> QED
        BY <2>1, <2>2, <2>3 DEF Lately, Outstanding
<1>9. ASSUME ~run[r].report \/ run[r].at # def.reportAt
      PROVE  ReportStillOpen(run', def.reportAt) <=> Reporting
    <2>1. ASSUME NEW q \in Run
          PROVE  (run'[q].row = "open" /\ run'[q].report /\ run'[q].at = def.reportAt)
                   <=> (run[q].row = "open" /\ run[q].report /\ run[q].at = def.reportAt)
        <3>1. CASE q = r
            BY <1>1, <1>3, <1>9, <3>1
        <3>2. CASE q # r
            BY <1>2, <3>2
        <3> QED
            BY <3>1, <3>2
    <2> QED
        BY <2>1 DEF ReportStillOpen, Reporting
<1> QED
    BY <1>5, <1>6, <1>7, <1>8, <1>9

\* A trim takes off no miss that is left, and an empty count has none.
LEMMA TrimKeeps ==
    ASSUME NEW rows, NEW from, NEW m \in Nat, NEW S, S \subseteq Later(rows, from),
           Cardinality(S) <= m
    PROVE  Cardinality(S) <= Unanswered(rows, from, m)
<1>1. Cardinality(S) <= Cardinality(Later(rows, from))
    BY FewerCount DEF Later
<1> QED
    BY <1>1, UnansweredIs

LEMMA NoneCount ==
    ASSUME NEW S, S \subseteq Run, Cardinality(S) <= 0
    PROVE  S = {}
<1>1. IsFiniteSet(S) /\ Cardinality(S) \in Nat
    BY CountsAreNumbers
<1>2. Cardinality(S) = 0
    BY <1>1
<1> QED
    BY <1>1, <1>2, FS_EmptySet

\* A finish that counts leaves the count as CountIsTrue says: the lower bound, ...
LEMMA FinishCountsEnough ==
    ASSUME IInv, CountInv, NEW r \in Run, Closing(r), Counts(def),
           def' = MissesAfterRun(def, r, run')
    PROVE  /\ Cardinality(MissedSince') <= def'.misses
           /\ \A q \in MissedSince' : run'[q].at <= def'.missAt
<1>1. /\ def \in Definition /\ def.misses \in Nat /\ def.missAt \in Nat /\ def.reportAt \in Nat
      /\ run'[r].at = run[r].at /\ run[r].at \in Instant /\ run[r].at \in Nat
      /\ run'[r].report = run[r].report
    BY Sizes DEF Closing, IInv, TypeOK, Definition, Dispatch, Instant
<1>2. /\ Cardinality(MissedSince) <= def.misses
      /\ \A q \in MissedSince : run[q].at <= def.missAt
    BY DEF CountInv, Kept
<1>3. /\ MissedSince' \subseteq MissedSince \union {r}
      /\ run[r].report \/ def.reportAt > run[r].at => MissedSince' \subseteq MissedSince
      /\ run[r].report => \A q \in MissedSince' : run'[q].at > run[r].at
      /\ ReportStillOpen(run', def.reportAt) =>
           \A q \in MissedSince' : run'[q].at > def.reportAt
      /\ MissedSince' \subseteq Run /\ MissedSince \subseteq Run
    BY MissesAfter DEF CountInv
<1>4. \A q \in Run : run'[q].at = run[q].at /\ run[q].at \in Nat
    BY Sizes DEF Closing, IInv, TypeOK, Dispatch, Instant
<1>5. \A q \in MissedSince' : run'[q].row = "closed" /\ ~run'[q].report
    BY DEF MissedSince, Missed, Unreported
<1>6. MissedSince' \subseteq MissedSince =>
        /\ Cardinality(MissedSince') <= def.misses
        /\ \A q \in MissedSince' : run'[q].at <= def.missAt
    <2>1. MissedSince' \subseteq MissedSince => Cardinality(MissedSince') <= Cardinality(MissedSince)
        BY <1>3, FewerCount
    <2>2. Cardinality(MissedSince) \in Nat
          /\ Cardinality(MissedSince') \in Nat
        BY <1>3, CountsAreNumbers
    <2> QED
        BY <1>1, <1>2, <1>3, <1>4, <2>1, <2>2
<1>7. ASSUME NEW from, NEW m \in Nat, \A q \in MissedSince' : run'[q].at > from,
             Cardinality(MissedSince') <= m
      PROVE  /\ Cardinality(MissedSince') <= Unanswered(run', from, m)
             /\ Unanswered(run', from, m) = 0 => MissedSince' = {}
    <2>1. MissedSince' \subseteq Later(run', from)
        BY <1>3, <1>5, <1>7 DEF Later
    <2>2. Cardinality(MissedSince') <= Unanswered(run', from, m)
        BY <1>7, <2>1, TrimKeeps
    <2> QED
        BY <1>3, <2>2, NoneCount
<1>8. CASE run[r].report
    <2>1. def' = AfterReport(def, r, run')
        BY <1>1, <1>8 DEF MissesAfterRun
    <2> DEFINE from == IF NewerReport(def, r, run') /\ ReportStillOpen(run', def.reportAt)
                         THEN def.reportAt ELSE run'[r].at
    <2>2. \A q \in MissedSince' : run'[q].at > from
        BY <1>1, <1>3, <1>8
    <2>3. CASE NewerMiss(def, r, run')
        <3>1. Trims(def, def', Unanswered(run', from, def.misses))
            BY <1>1, <2>1, <2>3, AfterReportIs
        <3>2. /\ Cardinality(MissedSince') <= Unanswered(run', from, def.misses)
              /\ Unanswered(run', from, def.misses) = 0 => MissedSince' = {}
            BY <1>1, <1>3, <1>6, <1>7, <1>8, <2>2
        <3> QED
            BY <1>3, <1>6, <1>8, <3>1, <3>2 DEF Trims
    <2>4. CASE ~NewerMiss(def, r, run')
        <3>1. def'.misses = 0
            BY <1>1, <2>1, <2>4, AfterReportIs
        <3>2. MissedSince' = {}
            <4> SUFFICES ASSUME NEW q \in MissedSince' PROVE FALSE
                OBVIOUS
            <4>1. run'[q].at <= def.missAt /\ run'[q].at > run[r].at /\ q \in Run
                BY <1>3, <1>6, <1>8
            <4>2. ~(def.missAt > run[r].at)
                BY <1>1, <2>4 DEF NewerMiss
            <4> QED
                BY <1>1, <1>4, <4>1, <4>2
        <3>3. Cardinality(MissedSince') = 0
            BY <3>2, FS_EmptySet
        <3> QED
            BY <3>1, <3>2, <3>3
    <2> QED
        BY <2>3, <2>4
<1>9. CASE ~run[r].report /\ def.reportAt > run[r].at
    <2> DEFINE trims == def.misses > 0 /\ ReportStillOpen(run', def.reportAt)
    <2>1. def' = AfterAnsweredMiss(def, run')
        BY <1>1, <1>9 DEF MissesAfterRun, NewerReport
    <2>2. /\ trims => Trims(def, def', Unanswered(run', def.reportAt, def.misses))
          /\ ~trims => def' = def
        BY <1>1, <2>1, AfterAnsweredMissIs
    <2>3. CASE trims
        <3>1. /\ Cardinality(MissedSince') <= Unanswered(run', def.reportAt, def.misses)
              /\ Unanswered(run', def.reportAt, def.misses) = 0 => MissedSince' = {}
            BY <1>1, <1>3, <1>6, <1>7, <1>9, <2>3
        <3> QED
            BY <1>3, <1>6, <1>9, <2>2, <2>3, <3>1 DEF Trims
    <2>4. CASE ~trims
        BY <1>3, <1>6, <1>9, <2>2, <2>4
    <2> QED
        BY <2>3, <2>4
<1>10. CASE ~run[r].report /\ ~(def.reportAt > run[r].at)
    <2> DEFINE answered == def.reportAt # 0 /\ ReportStillOpen(run', def.reportAt)
               n == IF answered THEN Unanswered(run', def.reportAt, def.misses + 1)
                                ELSE def.misses + 1
    <2>1. def' = AfterMiss(def, r, run')
        BY <1>1, <1>10 DEF MissesAfterRun, NewerReport
    <2>2. def'.misses = n /\ (n # 0 => def'.missAt >= run'[r].at /\ def'.missAt >= def.missAt)
        BY <1>1, <2>1, AfterMissIs
    <2>3. Cardinality(MissedSince') <= def.misses + 1
        <3>1. Cardinality(MissedSince') <= Cardinality(MissedSince) + 1
            BY <1>3, OneMoreCounts
        <3>2. Cardinality(MissedSince) \in Nat /\ Cardinality(MissedSince') \in Nat
            BY <1>3, CountsAreNumbers
        <3> QED
            BY <1>1, <1>2, <3>1, <3>2
    <2>4. Cardinality(MissedSince') <= n /\ (n = 0 => MissedSince' = {})
        <3>1. CASE answered
            <4>1. \A q \in MissedSince' : run'[q].at > def.reportAt
                BY <1>3, <3>1
            <4>2. def.misses + 1 \in Nat
                BY <1>1
            <4> QED
                BY <1>7, <2>3, <3>1, <4>1, <4>2
        <3>2. CASE ~answered
            BY <1>1, <2>3, <3>2
        <3> QED
            BY <3>1, <3>2
    <2>5. ASSUME NEW q \in MissedSince'
          PROVE  run'[q].at <= def'.missAt
        <3>1. q \in Run /\ (q = r \/ run[q].at <= def.missAt)
            BY <1>2, <1>3
        <3>2. def'.missAt >= run'[r].at /\ def'.missAt >= def.missAt
            BY <2>2, <2>4
        <3>3. def'.missAt \in Nat
            <4>1. def' \in Definition
                BY <1>1, MissesTyped
            <4> QED
                BY <4>1, Sizes DEF Definition, Instant
        <3> QED
            BY <1>1, <1>4, <3>1, <3>2, <3>3
    <2> QED
        BY <2>2, <2>4, <2>5
<1> QED
    BY <1>8, <1>9, <1>10

\* ... and the upper.
LEMMA FinishCountsNoMore ==
    ASSUME IInv, CountInv, NEW r \in Run, Closing(r), Counts(def),
           def' = MissesAfterRun(def, r, run')
    PROVE  def'.misses <= Cardinality(Lately')
<1>1. /\ def \in Definition /\ def.misses \in Nat /\ def.missAt \in Nat /\ def.reportAt \in Nat
      /\ run'[r].at = run[r].at /\ run[r].at \in Instant /\ run[r].at \in Nat
      /\ run'[r].report = run[r].report
    BY Sizes DEF Closing, IInv, TypeOK, Definition, Dispatch, Instant
<1>2. /\ ~run[r].report \/ run[r].at # def.reportAt => Lately \subseteq Lately'
      /\ r \notin Lately
      /\ ~run[r].report /\ run[r].at >= def.reportAt
         /\ (def.reportAt = 0 \/ ~ReportStillOpen(run', def.reportAt)) => r \in Lately'
      /\ Later(run', def.reportAt) \subseteq Lately'
      /\ ~run[r].report \/ run[r].at # def.reportAt =>
           (ReportStillOpen(run', def.reportAt) <=> Reporting)
    BY LatelyAfter DEF CountInv
<1>3. /\ Lately \subseteq Run /\ Cardinality(Lately) \in Nat /\ IsFiniteSet(Lately)
      /\ Lately' \subseteq Run /\ Cardinality(Lately') \in Nat
    <2>1. Lately \subseteq Run /\ Lately' \subseteq Run
        BY DEF Lately
    <2> QED
        BY <2>1, CountsAreNumbers
<1>4. ASSUME NEW from \in Nat, from >= def.reportAt, NEW m \in Nat
      PROVE  Unanswered(run', from, m) <= Cardinality(Lately')
    <2>1. Later(run', from) \subseteq Lately'
        <3>1. Later(run', from) \subseteq Later(run', def.reportAt)
            <4>1. \A q \in Run : run'[q].at = run[q].at /\ run[q].at \in Nat
                BY Sizes DEF Closing, IInv, TypeOK, Dispatch, Instant
            <4>2. ASSUME NEW q \in Later(run', from)
                  PROVE  q \in Later(run', def.reportAt)
                <5>1. q \in Run /\ run'[q].row = "closed" /\ ~run'[q].report /\ run'[q].at > from
                    BY DEF Later
                <5>2. run'[q].at > def.reportAt
                    BY <1>1, <1>4, <4>1, <5>1
                <5> QED
                    BY <5>1, <5>2 DEF Later
            <4> QED
                BY <4>2
        <3> QED
            BY <1>2, <3>1
    <2>2. Cardinality(Later(run', from)) <= Cardinality(Lately')
        BY <1>3, <2>1, FewerCount
    <2>3. /\ Unanswered(run', from, m) \in Nat
          /\ Unanswered(run', from, m) <= Cardinality(Later(run', from))
          /\ Cardinality(Later(run', from)) \in Nat
        BY <1>4, UnansweredIs, CountsAreNumbers DEF Later
    <2> QED
        BY <1>3, <2>2, <2>3
<1>5. ASSUME ~Reporting, Lately \subseteq Lately'
      PROVE  def.misses <= Cardinality(Lately')
    <2>1. def.misses <= Cardinality(Lately)
        BY <1>5 DEF CountInv, Long
    <2>2. Cardinality(Lately) <= Cardinality(Lately')
        BY <1>3, <1>5, FewerCount
    <2> QED
        BY <1>1, <1>3, <2>1, <2>2
<1>6. CASE run[r].report
    <2>1. def' = AfterReport(def, r, run')
        BY <1>1, <1>6 DEF MissesAfterRun
    <2> DEFINE from == IF NewerReport(def, r, run') /\ ReportStillOpen(run', def.reportAt)
                         THEN def.reportAt ELSE run'[r].at
    <2>2. CASE NewerMiss(def, r, run')
        <3>1. def'.misses = Unanswered(run', from, def.misses)
            BY <1>1, <2>1, <2>2, AfterReportIs DEF Trims
        <3>2. CASE from >= def.reportAt
            BY <1>1, <1>4, <3>1, <3>2
        <3>3. CASE ~(from >= def.reportAt)
            <4>1. from = run[r].at /\ run[r].at < def.reportAt
                  /\ ~ReportStillOpen(run', def.reportAt)
                BY <1>1, <3>3 DEF NewerReport
            <4>2. ~Reporting /\ Lately \subseteq Lately'
                BY <1>1, <1>2, <4>1
            <4>3. def.misses <= Cardinality(Lately')
                BY <1>5, <4>2
            <4>4. def'.misses \in Nat /\ def'.misses <= def.misses
                BY <1>1, <3>1, UnansweredIs
            <4> QED
                BY <1>1, <1>3, <4>3, <4>4
        <3> QED
            BY <3>2, <3>3
    <2>3. CASE ~NewerMiss(def, r, run')
        <3>1. def'.misses = 0
            BY <1>1, <2>1, <2>3, AfterReportIs
        <3> QED
            BY <1>3, <3>1
    <2> QED
        BY <2>2, <2>3
<1>7. CASE ~run[r].report /\ def.reportAt > run[r].at
    <2> DEFINE trims == def.misses > 0 /\ ReportStillOpen(run', def.reportAt)
    <2>1. def' = AfterAnsweredMiss(def, run')
        BY <1>1, <1>7 DEF MissesAfterRun, NewerReport
    <2>2. /\ trims => def'.misses = Unanswered(run', def.reportAt, def.misses)
          /\ ~trims => def' = def
        BY <1>1, <2>1, AfterAnsweredMissIs DEF Trims
    <2>3. CASE trims
        BY <1>1, <1>4, <2>2, <2>3
    <2>4. CASE ~trims /\ def.misses = 0
        BY <1>3, <2>2, <2>4
    <2>5. CASE ~ReportStillOpen(run', def.reportAt)
        BY <1>2, <1>5, <1>7, <2>2, <2>5
    <2> QED
        BY <1>1, <2>3, <2>4, <2>5
<1>8. CASE ~run[r].report /\ ~(def.reportAt > run[r].at)
    <2> DEFINE answered == def.reportAt # 0 /\ ReportStillOpen(run', def.reportAt)
               n == IF answered THEN Unanswered(run', def.reportAt, def.misses + 1)
                                ELSE def.misses + 1
    <2>1. def' = AfterMiss(def, r, run')
        BY <1>1, <1>8 DEF MissesAfterRun, NewerReport
    <2>2. def'.misses = n
        BY <1>1, <2>1, AfterMissIs
    <2>3. CASE answered
        <3>1. def.misses + 1 \in Nat
            BY <1>1
        <3> QED
            BY <1>1, <1>4, <2>2, <2>3, <3>1
    <2>4. CASE ~answered
        <3>1. ~Reporting
            <4>1. CASE def.reportAt = 0
                <5>1. \A q \in Run : run[q].row = "open" => run[q].at # 0
                    BY DEF CountInv, Started
                <5> QED
                    BY <4>1, <5>1 DEF Reporting, ReportStillOpen
            <4>2. CASE ~ReportStillOpen(run', def.reportAt)
                BY <1>2, <1>8, <4>2
            <4> QED
                BY <2>4, <4>1, <4>2
        <3>2. Lately \subseteq Lately' /\ r \in Lately' /\ r \notin Lately
            BY <1>1, <1>2, <1>8, <2>4
        <3>3. Cardinality(Lately \union {r}) = Cardinality(Lately) + 1
            BY <1>3, <3>2, FS_AddElement
        <3>4. Cardinality(Lately \union {r}) <= Cardinality(Lately')
            BY <1>3, <3>2, FewerCount
        <3>5. def.misses <= Cardinality(Lately)
            BY <3>1 DEF CountInv, Long
        <3> QED
            BY <1>1, <1>3, <2>2, <2>4, <3>3, <3>4, <3>5
    <2> QED
        BY <2>3, <2>4
<1> QED
    BY <1>6, <1>7, <1>8

\* Every finish is a Closing, whatever its host.
LEMMA FinishCloses ==
    ASSUME IInv, NEW r \in Run, NEW new \in Dispatch, Finish(r, new), run[r].row = "open",
           new.report = run[r].report, new.at = run[r].at, era' = era
    PROVE  Closing(r) /\ def' = MissesAfterRun(def, r, run')
<1>1. run \in [Run -> Dispatch] /\ run' = [run EXCEPT ![r] = [new EXCEPT !.row = "closed"]]
      /\ def \in Definition
    BY DEF IInv, TypeOK, Finish
<1>2. /\ run'[r].row = "closed" /\ run'[r].report = run[r].report /\ run'[r].at = run[r].at
      /\ \A q \in Run : q # r => run'[q] = run[q]
    BY <1>1 DEF Dispatch
<1>3. def' = MissesAfterRun(def, r, run') /\ fin' = Append(fin, r)
    BY <1>1 DEF Finish
<1>4. ASSUME NEW rows, rows[r].at \in Instant
      PROVE  MissesAfterRun(def, r, rows).reportAt = def.reportAt
    BY <1>1, <1>4, AfterReportIs, AfterAnsweredMissIs, AfterMissIs DEF MissesAfterRun
<1>5. def'.reportAt = def.reportAt
    <2>1. run'[r].at \in Instant
        BY <1>1, <1>2 DEF Dispatch
    <2> QED
        BY <1>3, <1>4, <2>1
<1> QED
    BY <1>2, <1>3, <1>5 DEF Closing

LEMMA ClosingCounts ==
    ASSUME IInv, CountInv, NEW r \in Run, Closing(r), def' = MissesAfterRun(def, r, run')
    PROVE  /\ CountInv'
           /\ Counts(def) => /\ Cardinality(MissedSince') <= def'.misses
                             /\ def'.misses <= Cardinality(Lately')
<1>1. FinIsClosed'
    <2> SUFFICES ASSUME NEW i \in DOMAIN fin' PROVE run'[fin'[i]].row = "closed"
        BY DEF FinIsClosed
    <2>1. CASE i = Len(fin) + 1
        <3>1. fin'[i] = r
            BY <2>1, ClosingOrders DEF CountInv
        <3> QED
            BY <3>1 DEF Closing
    <2>2. CASE i # Len(fin) + 1
        <3>1. i \in DOMAIN fin /\ fin'[i] = fin[i] /\ fin[i] # r /\ fin[i] \in Run
            BY <2>2, ClosingOrders DEF CountInv
        <3> QED
            BY <3>1 DEF Closing, CountInv, FinIsClosed
    <2> QED
        BY <2>1, <2>2
<1>2. Started'
    <2> SUFFICES ASSUME NEW q \in Run, run'[q].row # "none" PROVE run'[q].at # 0
        BY DEF Started
    <2>1. run'[q].at = run[q].at /\ run[q].row # "none"
        BY DEF Closing
    <2> QED
        BY <2>1 DEF CountInv, Started
<1>3. CASE Counts(def)
    <2>1. /\ Cardinality(MissedSince') <= def'.misses
          /\ \A q \in MissedSince' : run'[q].at <= def'.missAt
          /\ def'.misses <= Cardinality(Lately')
        BY <1>3, FinishCountsEnough, FinishCountsNoMore
    <2>2. Kept' /\ Long'
        BY <2>1 DEF Kept, Long
    <2> QED
        BY <1>1, <1>2, <2>1, <2>2 DEF CountInv
<1>4. CASE ~Counts(def)
    <2>1. def' = def
        BY <1>4 DEF MissesAfterRun
    <2>2. Kept' /\ Long'
        BY <1>4, <2>1 DEF Kept, Long
    <2> QED
        BY <1>1, <1>2, <1>4, <2>2 DEF CountInv
<1> QED
    BY <1>3, <1>4

\* The steps that neither finish a run nor report nor start the count over.
RowKeeps(q) ==
    \/ /\ run'[q].row = run[q].row /\ run'[q].report = run[q].report
       /\ run'[q].at = run[q].at
    \/ /\ run[q].row = "none" /\ run'[q].row = "open"
       /\ ~run[q].report /\ ~run'[q].report /\ run'[q].at # 0
Steady ==
    /\ UNCHANGED <<fin, era>> /\ (Counts(def') => Counts(def))
    /\ def'.misses = def.misses /\ def'.missAt = def.missAt /\ def'.reportAt = def.reportAt
    /\ \A q \in Run : RowKeeps(q)

LEMMA SteadyCounts ==
    ASSUME IInv, CountInv, Steady
    PROVE  CountInv'
<1>1. \A q \in Run : RowKeeps(q) /\ (run'[q].report <=> run[q].report)
    BY DEF Steady, RowKeeps
<1>2. \A q \in Run : /\ run[q].row = "closed" <=> run'[q].row = "closed"
                     /\ run[q].row # "none" => run'[q].at = run[q].at /\ run'[q].row = run[q].row
    BY <1>1 DEF RowKeeps
<1>3. UNCHANGED <<fin, era>> /\ def'.reportAt = def.reportAt /\ def'.misses = def.misses
      /\ def'.missAt = def.missAt
    BY DEF Steady
<1>4. fin \in Seq(Run) /\ \A q \in Since : q \in Run
    BY DEF IInv, TypeOK, Since
<1>5. FinIsClosed'
    <2> SUFFICES ASSUME NEW i \in DOMAIN fin PROVE run'[fin[i]].row = "closed"
        BY <1>3 DEF FinIsClosed
    <2> QED
        BY <1>2, <1>4 DEF CountInv, FinIsClosed
<1>6. Started'
    BY <1>1 DEF Started, CountInv, RowKeeps
<1>7. Since' = Since /\ \A q, s : Before(q, s)' <=> Before(q, s)
    BY <1>3 DEF Since, Before
<1>8. \A s \in Run : run[s].report => run[s].row # "none"
    BY RunTyped DEF Fits, NoRun
<1>9. \A q \in Run : Unreported(q)' <=> Unreported(q)
    BY <1>1, <1>2, <1>3 DEF Unreported
<1>10. ASSUME NEW q \in Run, NEW s \in Run, run[q].row = "closed"
       PROVE  /\ Answers(s, q)' <=> Answers(s, q)
              /\ run[s].report => run'[s].at = run[s].at
    <2>1. run'[q].at = run[q].at
        BY <1>2, <1>10
    <2>2. CASE run[s].report
        <3>1. run'[s].at = run[s].at /\ run'[s].row = run[s].row /\ run'[s].report
            BY <1>1, <1>2, <1>8, <2>2
        <3> QED
            BY <1>3, <1>7, <2>1, <2>2, <3>1 DEF Answers
    <2>3. CASE ~run[s].report
        BY <1>1, <2>3 DEF Answers
    <2> QED
        BY <2>2, <2>3
<1>11. MissedSince' = MissedSince
    <2>1. ASSUME NEW q \in Since
          PROVE  Missed(q)' <=> Missed(q)
        <3>1. q \in Run
            BY <1>4
        <3>2. CASE Unreported(q)
            <4>1. run[q].row = "closed"
                BY <3>2 DEF Unreported
            <4>2. \A s \in Run : Answers(s, q)' <=> Answers(s, q)
                BY <1>10, <3>1, <4>1
            <4> QED
                BY <1>9, <3>1, <4>2 DEF Missed
        <3>3. CASE ~Unreported(q)
            BY <1>9, <3>1, <3>3 DEF Missed
        <3> QED
            BY <3>2, <3>3
    <2> QED
        BY <1>7, <2>1 DEF MissedSince
<1>12. Lately' = Lately
    <2>1. ASSUME NEW q \in Run
          PROVE  Outstanding(q)' <=> Outstanding(q)
        <3>1. CASE Unreported(q)
            <4>1. run[q].row = "closed"
                BY <3>1 DEF Unreported
            <4>2. ASSUME NEW s \in Run
                  PROVE  (run'[s].at = def'.reportAt /\ Answers(s, q)')
                           <=> (run[s].at = def.reportAt /\ Answers(s, q))
                <5>1. (Answers(s, q)' <=> Answers(s, q))
                      /\ (run[s].report => run'[s].at = run[s].at)
                    BY <1>10, <4>1
                <5>2. Answers(s, q) => run[s].report
                    BY DEF Answers
                <5> QED
                    BY <1>3, <5>1, <5>2
            <4> QED
                BY <1>9, <4>2 DEF Outstanding
        <3>2. CASE ~Unreported(q)
            BY <1>9, <3>2 DEF Outstanding
        <3> QED
            BY <3>1, <3>2
    <2> QED
        BY <2>1 DEF Lately
<1>13. \A q \in MissedSince : run'[q].at = run[q].at
    BY <1>2, <1>4 DEF MissedSince, Missed, Unreported
<1>14. Reporting' <=> Reporting
    <2>1. \A q \in Run : (run'[q].row = "open" /\ run'[q].report /\ run'[q].at = def.reportAt)
                           <=> (run[q].row = "open" /\ run[q].report /\ run[q].at = def.reportAt)
        BY <1>1, <1>2, <1>8
    <2> QED
        BY <1>3, <2>1 DEF Reporting, ReportStillOpen
<1>15. Counts(def)' => Counts(def)
    BY DEF Steady, Counts
<1>16. Kept'
    BY <1>3, <1>11, <1>13, <1>15 DEF Kept, CountInv
<1>17. Long'
    BY <1>3, <1>12, <1>14, <1>15 DEF Long, CountInv
<1> QED
    BY <1>5, <1>6, <1>16, <1>17 DEF CountInv

\* A report answers what started no later than its run, and takes nothing off the count
\* yet; when it is the latest, its run is open.
LEMMA ReportCounts ==
    ASSUME IInv, CountInv, NEW r \in Run, Report(r)
    PROVE  CountInv'
<1>1. /\ run \in [Run -> Dispatch] /\ run' = [run EXCEPT ![r] = [run[r] EXCEPT !.report = TRUE]]
      /\ run[r].row = "open" /\ def \in Definition /\ fin \in Seq(Run)
    BY DEF IInv, TypeOK, Report, Put
<1>2. /\ \A q \in Run : run'[q].row = run[q].row /\ run'[q].at = run[q].at /\ run[q].at \in Nat
      /\ \A q \in Run : q # r => run'[q] = run[q]
      /\ run'[r].report
    BY <1>1, Sizes DEF Dispatch, Instant
<1>3. /\ UNCHANGED <<fin, era>> /\ def.reportAt \in Nat
      /\ def'.misses = def.misses /\ def'.missAt = def.missAt /\ (Counts(def)' => Counts(def))
      /\ def'.reportAt = IF def.reportAt <= run[r].at THEN run[r].at ELSE def.reportAt
    BY <1>1, Sizes DEF Report, Definition, Instant, Counts
<1>4. def'.reportAt \in Nat /\ def.reportAt <= def'.reportAt
    BY <1>2, <1>3
<1>5. FinIsClosed' /\ Started'
    BY <1>1, <1>2, <1>3 DEF FinIsClosed, Started, CountInv
<1>6. Since' = Since /\ Since \subseteq Run /\ \A q, s : Before(q, s)' <=> Before(q, s)
    BY <1>1, <1>3 DEF Since, Before
<1>7. ASSUME NEW q \in MissedSince'
      PROVE  q \in MissedSince
    <2>1. q \in Since /\ q \in Run /\ Unreported(q)' /\ q # r
        BY <1>1, <1>2, <1>6 DEF MissedSince, Missed, Unreported
    <2>2. Unreported(q)
        BY <1>2, <1>3, <1>4, <2>1 DEF Unreported
    <2>3. ASSUME NEW s \in Run, Answers(s, q)
          PROVE  FALSE
        <3>1. ~Answers(s, q)' /\ ~Answers(r, q)'
            BY DEF MissedSince, Missed
        <3>2. run'[s].report /\ run'[s].at >= run'[q].at
            BY <1>2, <2>1, <2>3 DEF Answers
        <3>3. run[s].row = "open" /\ run[s].at = def.reportAt /\ def'.reportAt # def.reportAt
            BY <1>2, <1>6, <2>3, <3>1, <3>2 DEF Answers
        <3>4. def'.reportAt = run'[r].at /\ run'[r].at >= run'[q].at
            BY <1>2, <1>3, <1>4, <2>1, <3>2, <3>3
        <3> QED
            BY <1>1, <1>2, <3>1, <3>4 DEF Answers
    <2> QED
        BY <2>1, <2>2, <2>3 DEF MissedSince, Missed
<1>8. Kept'
    <2> SUFFICES ASSUME Counts(def)'
                 PROVE  /\ Cardinality(MissedSince') <= def'.misses
                        /\ \A q \in MissedSince' : run'[q].at <= def'.missAt
        BY DEF Kept
    <2>1. MissedSince' \subseteq MissedSince /\ MissedSince \subseteq Run
        BY <1>6, <1>7 DEF MissedSince
    <2>2. Cardinality(MissedSince') <= Cardinality(MissedSince)
          /\ Cardinality(MissedSince) \in Nat /\ Cardinality(MissedSince') \in Nat
        BY <2>1, FewerCount, CountsAreNumbers
    <2>3. Cardinality(MissedSince) <= def.misses
          /\ \A q \in MissedSince : run[q].at <= def.missAt
        BY <1>3 DEF CountInv, Kept
    <2>4. def.misses \in Nat
        BY <1>1 DEF Definition
    <2> QED
        BY <1>2, <1>3, <2>1, <2>2, <2>3, <2>4
<1>9. Long'
    <2> SUFFICES ASSUME Counts(def)', ~Reporting'
                 PROVE  def'.misses <= Cardinality(Lately')
        BY DEF Long
    <2>1. ~(def.reportAt <= run[r].at)
        <3>1. ~(run'[r].row = "open" /\ run'[r].report /\ run'[r].at = def'.reportAt)
            BY DEF Reporting, ReportStillOpen
        <3> QED
            BY <1>1, <1>2, <1>3, <3>1
    <2>2. def'.reportAt = def.reportAt
        BY <1>3, <2>1
    <2>3. ~Reporting
        <3>1. \A q \in Run : run[q].report => run'[q].report
            BY <1>2
        <3> QED
            BY <1>2, <2>2, <3>1 DEF Reporting, ReportStillOpen
    <2>4. ASSUME NEW q \in Lately
          PROVE  q \in Lately'
        <3>1. q \in Run /\ Unreported(q) /\ q # r
            BY <1>1 DEF Lately, Outstanding, Unreported
        <3>2. Unreported(q)'
            BY <1>2, <2>2, <3>1 DEF Unreported
        <3>3. ASSUME NEW s \in Run, run'[s].at = def'.reportAt, Answers(s, q)'
              PROVE  FALSE
            <4>1. s # r
                BY <1>2, <1>3, <2>1, <2>2, <3>3
            <4>2. run[s].at = def.reportAt /\ Answers(s, q)
                BY <1>2, <1>6, <2>2, <3>1, <3>3, <4>1 DEF Answers
            <4> QED
                BY <4>2 DEF Lately, Outstanding
        <3> QED
            BY <3>1, <3>2, <3>3 DEF Lately, Outstanding
    <2>5. /\ Cardinality(Lately) <= Cardinality(Lately')
          /\ Cardinality(Lately) \in Nat /\ Cardinality(Lately') \in Nat
        <3>1. Lately \subseteq Lately' /\ Lately' \subseteq Run /\ Lately \subseteq Run
            BY <2>4 DEF Lately
        <3> QED
            BY <3>1, FewerCount, CountsAreNumbers
    <2>6. def.misses <= Cardinality(Lately)
        BY <1>3, <2>3 DEF CountInv, Long
    <2> QED
        BY <1>1, <1>3, <2>5, <2>6 DEF Definition
<1> QED
    BY <1>5, <1>8, <1>9 DEF CountInv

\* Starting over, with no misses, nothing has finished since.
LEMMA OverCounts ==
    ASSUME IInv, CountInv, UNCHANGED <<run, fin>>, era' = Len(fin), def'.misses = 0
    PROVE  CountInv'
<1>1. FinIsClosed' /\ Started'
    BY DEF CountInv, FinIsClosed, Started
<1>2. fin \in Seq(Run) /\ Len(fin) \in Nat /\ DOMAIN fin = 1..Len(fin)
    BY DEF IInv, TypeOK
<1>3. Since' = {}
    BY <1>2 DEF Since
<1>4. MissedSince' = {} /\ Cardinality(MissedSince') = 0
    BY <1>3, FS_EmptySet DEF MissedSince
<1>5. Cardinality(Lately') \in Nat
    <2>1. Lately' \subseteq Run
        BY DEF Lately
    <2> QED
        BY <2>1, CountsAreNumbers
<1>6. Kept' /\ Long'
    BY <1>4, <1>5 DEF Kept, Long
<1> QED
    BY <1>1, <1>6 DEF CountInv

\* A run's row, its start and its report stay as they are.
LEMMA PutSteady ==
    ASSUME IInv, NEW r \in Run, NEW new, Put(r, new), UNCHANGED <<def, fin, era>>,
           new.row = run[r].row, new.report = run[r].report, new.at = run[r].at
    PROVE  Steady
<1>1. run \in [Run -> Dispatch] /\ run' = [run EXCEPT ![r] = new]
    BY DEF IInv, TypeOK, Put
<1>2. \A q \in Run : RowKeeps(q)
    BY <1>1 DEF RowKeeps
<1> QED
    BY <1>2 DEF Steady

LEMMA StillSteady ==
    ASSUME UNCHANGED <<run, fin, era>>, Counts(def') => Counts(def),
           def'.misses = def.misses, def'.missAt = def.missAt, def'.reportAt = def.reportAt
    PROVE  Steady
BY DEF Steady, RowKeeps

LEMMA AcceptSteady ==
    ASSUME IInv, NEW h \in Host, Accept(h), UNCHANGED <<fin, era>>
    PROVE  Steady
<1>1. PICK r \in FreshRun, at \in 1..Times :
        /\ Put(r, Accepted(h, at))
        /\ IF def.task THEN def' = [def EXCEPT !.next = TRUE, !.asked = FALSE] ELSE def' = def
    BY DEF Accept
<1>2. run \in [Run -> Dispatch] /\ def \in Definition /\ r \in Run /\ run[r] = NoRun
    BY RunTyped DEF IInv, TypeOK, FreshRun, Fits
<1>3. Accepted(h, at).row = "open" /\ ~Accepted(h, at).report /\ Accepted(h, at).at = at
    BY DEF Accepted, NoRun
<1>4. \A q \in Run : run'[q] = IF q = r THEN Accepted(h, at) ELSE run[q]
    BY <1>1, <1>2 DEF Put
<1>5. at # 0 /\ run[r].row = "none" /\ ~run[r].report
    BY <1>2, Sizes DEF NoRun
<1>6. \A q \in Run : RowKeeps(q)
    BY <1>3, <1>4, <1>5 DEF RowKeeps
<1>7. /\ def'.misses = def.misses /\ def'.missAt = def.missAt /\ def'.reportAt = def.reportAt
      /\ Counts(def') => Counts(def)
    BY <1>1, <1>2 DEF Definition, Counts
<1> QED
    BY <1>6, <1>7 DEF Steady

LEMMA DefinitionSteady ==
    ASSUME IInv, TickClaims \/ ReplyWaits \/ Admit \/ Pause
    PROVE  Steady
<1>1. UNCHANGED <<run, fin, era>> /\ def \in Definition
      /\ def' \in {def, [def EXCEPT !.asked = TRUE, !.next = TRUE], [def EXCEPT !.next = TRUE],
                   [def EXCEPT !.enabled = FALSE, !.next = FALSE]}
      /\ (def' = [def EXCEPT !.enabled = FALSE, !.next = FALSE] => def.enabled \/ def' = def)
    BY DEF TickClaims, ReplyWaits, Admit, Pause, Edit, IInv, TypeOK
<1>2. /\ def'.misses = def.misses /\ def'.missAt = def.missAt /\ def'.reportAt = def.reportAt
      /\ Counts(def') => Counts(def)
    BY <1>1 DEF Definition, Counts
<1> QED
    BY <1>1, <1>2, StillSteady

\* A host's step that writes none of what the count reads; or a finish.
LEMMA HostSteps ==
    ASSUME IInv, NEW r \in Run,
           \/ Bind(r) \/ SetupFails(r) \/ AgentStarts(r) \/ TurnEnds(r)
           \/ Settles(r) \/ SettleFails(r) \/ OrphanEnds(r) \/ Lapses(r) \/ Observes(r)
    PROVE  Steady \/ (Closing(r) /\ def' = MissesAfterRun(def, r, run'))
<1>1. run[r] \in Dispatch
    BY RunTyped
<1>2. ASSUME NEW w, NEW b, NEW l, NEW s
      PROVE  LET new == [run[r] EXCEPT !.work = w, !.bound = b, !.lease = l, !.slip = s]
             IN  new.row = run[r].row /\ new.report = run[r].report /\ new.at = run[r].at
    BY <1>1 DEF Dispatch
<1>3. CASE SetupFails(r) \/ Settles(r)
    <2> DEFINE new == [run[r] EXCEPT !.work = "none"]
    <2>1. HostFinishes(r)
        BY <1>3 DEF SetupFails, Settles
    <2>2. new \in Dispatch /\ new.row = run[r].row /\ new.report = run[r].report
          /\ new.at = run[r].at
        BY <1>1 DEF Dispatch
    <2>3. CASE run[r].row = "open"
        <3>1. Finish(r, new) /\ era' = era
            BY <2>1, <2>3 DEF HostFinishes
        <3> QED
            BY <2>2, <2>3, <3>1, FinishCloses
    <2>4. CASE run[r].row # "open"
        <3>1. Put(r, new) /\ UNCHANGED <<def, fin, era>>
            BY <2>1, <2>4 DEF HostFinishes
        <3> QED
            BY <2>2, <3>1, PutSteady
    <2> QED
        BY <2>3, <2>4
<1>4. CASE Bind(r) \/ AgentStarts(r) \/ TurnEnds(r) \/ SettleFails(r) \/ OrphanEnds(r) \/ Lapses(r)
    <2>1. PICK new \in {[run[r] EXCEPT !.bound = TRUE, !.work = "ready"],
                        [run[r] EXCEPT !.work = "none"], [run[r] EXCEPT !.work = "agent"],
                        [run[r] EXCEPT !.work = "ended"],
                        [run[r] EXCEPT !.work = "none", !.slip = "unwritten"],
                        [run[r] EXCEPT !.lease = "lapsed"],
                        [run[r] EXCEPT !.lease = "lapsed", !.slip = "stalled"]} : Put(r, new)
        BY <1>4 DEF Bind, AgentStarts, TurnEnds, SettleFails, OrphanEnds, Lapses, Works
    <2>2. new.row = run[r].row /\ new.report = run[r].report /\ new.at = run[r].at
        BY <1>1, <2>1 DEF Dispatch
    <2>3. UNCHANGED <<def, fin, era>>
        BY <1>4 DEF Bind, AgentStarts, TurnEnds, SettleFails, OrphanEnds, Lapses
    <2> QED
        BY <2>1, <2>2, <2>3, PutSteady
<1>5. CASE Observes(r)
    BY <1>5, StillSteady DEF Observes
<1> QED
    BY <1>3, <1>4, <1>5

LEMMA LeasesSteady ==
    ASSUME IInv, NEW h \in Host
    PROVE  Renew(h) \/ ShutsDown(h) \/ Crash(h) => Steady
<1>1. ASSUME UNCHANGED <<def, fin, era>>, \A r \in Run : RowKeeps(r)
      PROVE  Steady
    BY <1>1 DEF Steady
<1>2. ASSUME Renew(h)
      PROVE  Steady
    <2>1. \A r \in Run :
            /\ run'[r] = IF r \in Open /\ run[r].host = h THEN [run[r] EXCEPT !.lease = "held"]
                                                          ELSE run[r]
            /\ run[r] \in Dispatch
        BY <1>2, RunTyped DEF Renew
    <2>2. ASSUME NEW r \in Run
          PROVE  RowKeeps(r)
        BY <2>1 DEF Dispatch, RowKeeps
    <2>3. UNCHANGED <<def, fin, era>>
        BY <1>2 DEF Renew
    <2> QED
        BY <1>1, <2>2, <2>3
<1>3. ASSUME ShutsDown(h)
      PROVE  Steady
    <2>1. \A r \in Run :
            /\ run'[r] = IF r \in Open /\ run[r].host = h
                           THEN [run[r] EXCEPT !.lease = "released", !.host = Null] ELSE run[r]
            /\ run[r] \in Dispatch
        BY <1>3, RunTyped DEF ShutsDown
    <2>2. ASSUME NEW r \in Run
          PROVE  RowKeeps(r)
        <3> DEFINE new == [run[r] EXCEPT !.lease = "released", !.host = Null]
        <3>1. run[r] \in Dispatch /\ run'[r] \in {run[r], new}
            BY <2>1
        <3>2. new.row = run[r].row /\ new.report = run[r].report /\ new.at = run[r].at
            BY <3>1 DEF Dispatch
        <3> HIDE DEF new
        <3> QED
            BY <3>1, <3>2 DEF RowKeeps
    <2>3. UNCHANGED <<def, fin, era>>
        BY <1>3 DEF ShutsDown
    <2> QED
        BY <1>1, <2>2, <2>3
<1>4. ASSUME Crash(h)
      PROVE  Steady
    <2> DEFINE work(r) == IF run[r].work \in AtWork THEN "orphan" ELSE "none"
    <2>1. \A r \in Run :
            /\ run'[r] = IF run[r].host # h THEN run[r]
                         ELSE [run[r] EXCEPT !.host = Null, !.work = work(r)]
            /\ run[r] \in Dispatch
        BY <1>4, RunTyped DEF Crash
    <2> HIDE DEF work
    <2>2. ASSUME NEW r \in Run
          PROVE  RowKeeps(r)
        <3> DEFINE new == [run[r] EXCEPT !.host = Null, !.work = work(r)]
        <3>1. run[r] \in Dispatch /\ run'[r] \in {run[r], new}
            BY <2>1
        <3>2. new.row = run[r].row /\ new.report = run[r].report /\ new.at = run[r].at
            BY <3>1 DEF Dispatch
        <3> HIDE DEF new
        <3> QED
            BY <3>1, <3>2 DEF RowKeeps
    <2>3. UNCHANGED <<def, fin, era>>
        BY <1>4 DEF Crash
    <2> QED
        BY <1>1, <2>2, <2>3
<1> QED
    BY <1>2, <1>3, <1>4

LEMMA RecoverySteps ==
    ASSUME IInv, Examines \/ Recovers
    PROVE  \/ Steady
           \/ \E r \in Run : Closing(r) /\ def' = MissesAfterRun(def, r, run')
<1> DEFINE r == seen.run
<1>1. r \in Run /\ run[r] \in Dispatch
    BY RunTyped DEF Examines, Recovers, IInv, TypeOK
<1>2. CASE Examines
    <2>1. UNCHANGED <<def, fin, era>>
        BY <1>2 DEF Examines
    <2>2. UNCHANGED run \/ \E l \in {"held", run[r].lease} : Put(r, [run[r] EXCEPT !.lease = l])
        BY <1>2 DEF Examines
    <2>3. CASE UNCHANGED run
        BY <2>1, <2>3, StillSteady
    <2>4. ASSUME NEW l \in {"held", run[r].lease}, Put(r, [run[r] EXCEPT !.lease = l])
          PROVE  Steady
        <3> DEFINE new == [run[r] EXCEPT !.lease = l]
        <3>1. new.row = run[r].row /\ new.report = run[r].report /\ new.at = run[r].at
            BY <1>1 DEF Dispatch
        <3> QED
            BY <1>1, <2>1, <2>4, <3>1, PutSteady
    <2> QED
        BY <2>2, <2>3, <2>4
<1>3. CASE Recovers
    <2>1. CASE Finish(r, run[r]) /\ run[r].row = "open"
        <3>1. Closing(r) /\ def' = MissesAfterRun(def, r, run')
            BY <1>1, <1>3, <2>1, FinishCloses DEF Recovers
        <3> QED
            BY <1>1, <3>1
    <2>2. CASE UNCHANGED <<run, fin, def, tick, event>>
        BY <1>3, <2>2, StillSteady DEF Recovers
    <2> QED
        BY <1>3, <2>1, <2>2 DEF Recovers
<1> QED
    BY <1>2, <1>3

\* What each step is to the count.
LEMMA CountSteps ==
    ASSUME IInv, CountInv, [Next]_vars
    PROVE  /\ CountInv'
           /\ fin' # fin /\ Counts(def) => /\ Cardinality(MissedSince') <= def'.misses
                                           /\ def'.misses <= Cardinality(Lately')
<1>1. CASE Steady
    BY <1>1, SteadyCounts DEF Steady
<1>2. CASE \E r \in Run : Closing(r) /\ def' = MissesAfterRun(def, r, run')
    BY <1>2, ClosingCounts
<1>3. CASE \E r \in Run : Report(r)
    BY <1>3, ReportCounts DEF Report
<1>4. CASE Resume \/ ChangeKind
    <2>1. UNCHANGED <<run, fin>> /\ era' = Len(fin)
        BY <1>4 DEF Resume, ChangeKind, Edit
    <2>2. def'.misses = 0
        BY <1>4 DEF Resume, ChangeKind, Edit, Cleared, IInv, TypeOK, Definition
    <2> QED
        BY <2>1, <2>2, OverCounts
<1>5. CASE TickClaims \/ ReplyWaits \/ Admit \/ Pause
    BY <1>1, <1>5, DefinitionSteady
<1>6. CASE Examines \/ Recovers
    BY <1>1, <1>2, <1>6, RecoverySteps
<1>7. ASSUME NEW h \in Host, TickFires(h) \/ CheckNow(h)
      PROVE  Steady
    <2>1. UNCHANGED <<fin, era>> /\ (Accept(h) \/ UNCHANGED <<def, run>>)
        BY <1>7 DEF TickFires, CheckNow
    <2>2. CASE Accept(h)
        BY <2>1, <2>2, AcceptSteady
    <2>3. CASE UNCHANGED <<def, run>>
        BY <2>1, <2>3, StillSteady
    <2> QED
        BY <2>1, <2>2, <2>3
<1>8. ASSUME NEW h \in Host, Renew(h) \/ ShutsDown(h) \/ Crash(h)
      PROVE  Steady
    BY <1>8, LeasesSteady
<1>9. ASSUME NEW r \in Run,
             \/ Bind(r) \/ SetupFails(r) \/ AgentStarts(r) \/ TurnEnds(r)
             \/ Settles(r) \/ SettleFails(r) \/ OrphanEnds(r) \/ Lapses(r) \/ Observes(r)
      PROVE  Steady \/ (Closing(r) /\ def' = MissesAfterRun(def, r, run'))
    BY <1>9, HostSteps
<1>10. CASE UNCHANGED vars
    <2>1. UNCHANGED <<def, run, fin, era>>
        BY <1>10 DEF vars
    <2>2. Steady
        BY <2>1, StillSteady
    <2> QED
        BY <1>1, <2>2
<1> QED
    BY <1>1, <1>2, <1>3, <1>4, <1>5, <1>6, <1>7, <1>8, <1>9, <1>10 DEF Next

LEMMA CountStarts ==
    ASSUME Init
    PROVE  CountInv
<1>1. fin = <<>> /\ \A r \in Run : run[r].row = "none"
    BY DEF Init, NoRun
<1>2. def.misses = 0
    BY DEF Init
<1>3. FinIsClosed /\ Started
    BY <1>1 DEF FinIsClosed, Started
<1>4. MissedSince = {}
    BY <1>1 DEF MissedSince, Since
<1>5. Cardinality(MissedSince) = 0
    BY <1>4, FS_EmptySet
<1>6. Cardinality(Lately) \in Nat
    BY CountsAreNumbers DEF Lately
<1>7. Kept /\ Long
    BY <1>2, <1>4, <1>5, <1>6 DEF Kept, Long
<1> QED
    BY <1>3, <1>7 DEF CountInv

\* A finish that counts counts every check-in in a row that left no report since the
\* latest report or the last fresh start, and nothing a report the row remembers has
\* answered (store.ts finishDispatch and missesAfterRun), in whatever order the runs
\* start, report and finish, and whoever resumes or changes the task meanwhile.
THEOREM CountsAreTrue == Spec => CountIsTrue
<1> DEFINE Counted == fin' # fin /\ Counts(def) =>
                        /\ Cardinality({q \in Since : Missed(q)})' <= def'.misses
                        /\ def'.misses <= Cardinality({q \in Run : Outstanding(q)})'
<1>1. Init => CountInv
    BY CountStarts
<1>2. IInv /\ CountInv /\ [Next]_vars => CountInv'
    BY CountSteps
<1>3. IInv /\ CountInv /\ [Next]_vars => [Counted]_vars
    BY CountSteps DEF MissedSince, Lately
<1>4. Spec => [][Counted]_vars
    BY <1>1, <1>2, <1>3, Invariant, PTL DEF Spec
<1>5. CountIsTrue <=> [][Counted]_vars
    BY PTL DEF CountIsTrue
<1> QED
    BY <1>4, <1>5, PTL
=============================================================================
