---------------------------- MODULE SessionInbox ----------------------------
(***************************************************************************)
(* One session's inbox (package session-postgres): callers on any host     *)
(* queue entries into a table, the session's runner long-polls them        *)
(* through any host, and LISTEN / NOTIFY on one channel wakes the polls.   *)
(*                                                                         *)
(* Every host has one LISTEN connection.  What it is asked to run stands   *)
(* in its pipe and is run by the server in order; while the connection is  *)
(* down the pipe waits for the reconnect (query awaits ensureConnected).   *)
(* Each database statement is one step; the code between two awaits of a   *)
(* host's event loop is one step.                                          *)
(***************************************************************************)
EXTENDS Integers, Sequences, FiniteSets

CONSTANTS
  Host,        \* replicas
  Entry,       \* entries, one session:queue-work call each
  Poll,        \* claims that can exist at one time
  Null,
  MaxAttempts, \* tries of a queue to allocate a cursor
  MaxFaults,   \* bound on lost connections, failed connects and crashes
  MaxBreaks    \* bound on polls the runner gives up

ASSUME InboxNullAssumption ==
  Null \notin Host /\ Null \notin Entry /\ Null \notin Poll
ASSUME AnswerAssumption == "timeout" \notin Entry /\ "error" \notin Entry
ASSUME InboxBoundAssumption ==
  MaxAttempts \in Nat \ {0} /\ MaxFaults \in Nat /\ MaxBreaks \in Nat

VARIABLES
  inbox,       \* the session's rows: cursor -> entry
  terminated,  \* the session's flag
  closer,      \* the session:terminate call
  calls,       \* the session:queue-work call of each entry
  claims,      \* the session:claim-work calls, and their waiters
  runner,      \* the runner: its cursor, its poll, what it has received
  conn,        \* each host's LISTEN connection ...
  listening,   \* ... whether its backend listens on the channel ...
  pipe,        \* ... the statements handed to it ...
  notes,       \* ... the notifications on their way to it
  refs,        \* each host's count of claims on the channel
  faults,      \* faults so far
  breaks       \* polls given up so far

vars == <<inbox, terminated, closer, calls, claims, runner,
          conn, listening, pipe, notes, refs, faults, breaks>>

table == <<inbox, terminated, closer, calls>>
network == <<conn, listening, pipe, notes, refs, faults, breaks>>

-----------------------------------------------------------------------------

Listen(p) == [op |-> "LISTEN", by |-> p]
Unlisten == [op |-> "UNLISTEN", by |-> Null]
Notify(e) == [op |-> "NOTIFY", by |-> e]   \* e is Null for a terminate

Statement == [op : {"LISTEN"}, by : Poll] \union {Unlisten}
               \union [op : {"NOTIFY"}, by : Entry \union {Null}]

IdleCall == [pc |-> "idle", host |-> Null, next |-> 0, tries |-> 0]

CallState == [pc : {"idle", "max", "insert", "notify", "notifying", "queued",
                    "rejected", "lost"},
              host : Host \union {Null}, next : Nat, tries : Nat]

\* A claim's answer: an entry, "timeout" or "error".
IdleClaim == [pc |-> "idle", host |-> Null, cursor |-> 0, wakes |-> {}, answer |-> Null]

\* wakes: the wakeWaiter runs under way, about to read the row or the flag.
ClaimState == [pc : {"idle", "fetch", "check", "bind", "listen", "bound", "parked", "done"},
               host : Host \union {Null}, cursor : Nat, wakes : SUBSET {"fetch", "check"},
               answer : Entry \union {Null, "timeout", "error"}]

RunnerState == [cursor : Nat, poll : Poll \union {Null}, gone : BOOLEAN,
                received : Seq(Entry)]

TypeOK ==
  /\ DOMAIN inbox \subseteq Nat /\ \A c \in DOMAIN inbox : inbox[c] \in Entry
  /\ terminated \in BOOLEAN
  /\ closer \in [pc : {"idle", "flagged", "notifying", "done"}, host : Host \union {Null}]
  /\ calls \in [Entry -> CallState]
  /\ claims \in [Poll -> ClaimState]
  /\ runner \in RunnerState
  /\ conn \in [Host -> {"live", "dying", "down", "replaying", "starting"}]
  /\ listening \in [Host -> BOOLEAN]
  /\ pipe \in [Host -> Seq(Statement)]
  /\ notes \in [Host -> Nat]
  /\ refs \in [Host -> Nat]
  /\ faults \in Nat /\ breaks \in Nat

Init ==
  /\ inbox = [c \in {} |-> Null]
  /\ terminated = FALSE
  /\ closer = [pc |-> "idle", host |-> Null]
  /\ calls = [e \in Entry |-> IdleCall]
  /\ claims = [p \in Poll |-> IdleClaim]
  /\ runner = [cursor |-> 0, poll |-> Null, gone |-> FALSE, received |-> <<>>]
  /\ conn = [h \in Host |-> "live"]
  /\ listening = [h \in Host |-> FALSE]
  /\ pipe = [h \in Host |-> <<>>]
  /\ notes = [h \in Host |-> 0]
  /\ refs = [h \in Host |-> 0]
  /\ faults = 0
  /\ breaks = 0

\* A host that is starting takes no request yet.
Up(h) == conn[h] # "starting"

Submit(h, stmt) == pipe' = [pipe EXCEPT ![h] = Append(@, stmt)]

-----------------------------------------------------------------------------
(* session:queue-work.                                                     *)

\* Mutant: an empty inbox reads as MAX = 0.
nextCursorFromOne(rows) == 1 + Cardinality(DOMAIN rows)

\* The call is over for its caller.
Ended(how) == [IdleCall EXCEPT !.pc = how]

\* COALESCE(MAX(cursor), -1) + 1.
nextCursor(rows) ==
  IF DOMAIN rows = {} THEN 0
  ELSE 1 + CHOOSE c \in DOMAIN rows : \A d \in DOMAIN rows : d <= c

\* Mutant: no UNIQUE (session_id, cursor).
CursorNeverTaken(rows, c) == FALSE

\* UNIQUE (session_id, cursor).
CursorTaken(rows, c) == c \in DOMAIN rows

\* The session reads as alive.
QueueStart(e, h) ==
  /\ Up(h) /\ calls[e].pc = "idle"
  /\ ~terminated
  /\ calls' = [calls EXCEPT ![e].pc = "max", ![e].host = h]
  /\ UNCHANGED <<inbox, terminated, closer, claims, runner, network>>

QueueRead(e) ==
  /\ calls[e].pc = "max"
  /\ calls' = [calls EXCEPT ![e].pc = "insert", ![e].next = nextCursor(inbox)]
  /\ UNCHANGED <<inbox, terminated, closer, claims, runner, network>>

QueueInsert(e) ==
  /\ calls[e].pc = "insert"
  /\ ~CursorTaken(inbox, calls[e].next)
  /\ inbox' = [c \in DOMAIN inbox \union {calls[e].next} |->
                 IF c = calls[e].next THEN e ELSE inbox[c]]
  /\ calls' = [calls EXCEPT ![e].pc = "notify"]
  /\ UNCHANGED <<terminated, closer, claims, runner, network>>

\* 23505: someone else took this cursor.
QueueConflict(e) ==
  /\ calls[e].pc = "insert"
  /\ CursorTaken(inbox, calls[e].next)
  /\ calls' = IF calls[e].tries + 1 < MaxAttempts
              THEN [calls EXCEPT ![e].pc = "max", ![e].tries = @ + 1]
              ELSE [calls EXCEPT ![e] = Ended("rejected")]
  /\ UNCHANGED <<inbox, terminated, closer, claims, runner, network>>

QueueNotify(e) ==
  /\ calls[e].pc = "notify"
  /\ Submit(calls[e].host, Notify(e))
  /\ calls' = [calls EXCEPT ![e].pc = "notifying"]
  /\ UNCHANGED <<inbox, terminated, closer, claims, runner, conn, listening, notes, refs, faults, breaks>>

-----------------------------------------------------------------------------
(* session:terminate: the flag, then a notification.                       *)

ClosedDown == [pc |-> "done", host |-> Null]

TerminateFlag(h) ==
  /\ Up(h) /\ closer.pc = "idle"
  /\ closer' = [pc |-> "flagged", host |-> h]
  /\ terminated' = TRUE
  /\ UNCHANGED <<inbox, calls, claims, runner, network>>

TerminateNotify ==
  /\ closer.pc = "flagged"
  /\ Submit(closer.host, Notify(Null))
  /\ closer' = [closer EXCEPT !.pc = "notifying"]
  /\ UNCHANGED <<inbox, terminated, calls, claims, runner, conn, listening, notes, refs, faults, breaks>>

-----------------------------------------------------------------------------
(* session:claim-work: the runner's long poll.                             *)

Waiting(h) == {p \in Poll : claims[p].pc = "parked" /\ claims[p].host = h}

\* The session's token still resolves, and a free host takes the request.
PollStart(p, h) ==
  /\ Up(h) /\ runner.poll = Null /\ ~runner.gone /\ ~terminated
  /\ claims[p].pc = "idle"
  /\ claims' = [claims EXCEPT ![p] =
                  [IdleClaim EXCEPT !.pc = "fetch", !.host = h, !.cursor = runner.cursor]]
  /\ runner' = [runner EXCEPT !.poll = p]
  /\ UNCHANGED <<table, network>>

Answered(p, answer) ==
  claims' = [claims EXCEPT ![p].pc = "done", ![p].wakes = {}, ![p].answer = answer]

\* Fast path: the row is there.
ClaimFetch(p) ==
  /\ claims[p].pc = "fetch"
  /\ IF claims[p].cursor \in DOMAIN inbox
     THEN Answered(p, inbox[claims[p].cursor])
     ELSE claims' = [claims EXCEPT ![p].pc = "check"]
  /\ UNCHANGED <<table, runner, network>>

ClaimCheck(p) ==
  /\ claims[p].pc = "check"
  /\ IF terminated
     THEN Answered(p, "timeout")
     ELSE claims' = [claims EXCEPT ![p].pc = "bind"]
  /\ UNCHANGED <<table, runner, network>>

\* ensureListen: the count goes up at once; only the first one LISTENs.
ClaimBind(p) ==
  LET h == claims[p].host IN
  /\ claims[p].pc = "bind"
  /\ refs' = [refs EXCEPT ![h] = @ + 1]
  /\ IF refs[h] = 0
     THEN /\ Submit(h, Listen(p))
          /\ claims' = [claims EXCEPT ![p].pc = "listen"]
     ELSE /\ claims' = [claims EXCEPT ![p].pc = "bound"]
          /\ UNCHANGED pipe
  /\ UNCHANGED <<table, runner, conn, listening, notes, faults, breaks>>

\* Mutant: no forced re-check when the waiter is parked.
NoWake == {}

\* The wake that parking a waiter starts by itself.
FirstWake == {"fetch"}

ClaimPark(p) ==
  /\ claims[p].pc = "bound"
  /\ claims' = [claims EXCEPT ![p].pc = "parked", ![p].wakes = FirstWake]
  /\ UNCHANGED <<table, runner, network>>

\* Mutant: every release UNLISTENs.
EveryRelease(left) == TRUE

\* The release of the last claim on the channel.
LastRelease(left) == left <= 0

\* finishWaiter: settle, and give the reference back.  An UNLISTEN goes only
\* to a client that is live as far as the host knows.
Finish(p, answer) ==
  LET h == claims[p].host IN
  /\ claims[p].pc = "parked"
  /\ Answered(p, answer)
  /\ refs' = [refs EXCEPT ![h] = @ - 1]
  /\ IF LastRelease(refs[h] - 1) /\ conn[h] \in {"live", "dying"}
     THEN Submit(h, Unlisten) ELSE UNCHANGED pipe
  /\ UNCHANGED <<table, runner, conn, listening, notes, faults, breaks>>

WakeFetch(p) ==
  /\ "fetch" \in claims[p].wakes
  /\ IF claims[p].cursor \in DOMAIN inbox
     THEN Finish(p, inbox[claims[p].cursor])
     ELSE /\ claims' = [claims EXCEPT ![p].wakes = (@ \ {"fetch"}) \union {"check"}]
          /\ UNCHANGED <<table, runner, network>>

WakeCheck(p) ==
  /\ "check" \in claims[p].wakes
  /\ IF terminated
     THEN Finish(p, "timeout")
     ELSE /\ claims' = [claims EXCEPT ![p].wakes = @ \ {"check"}]
          /\ UNCHANGED <<table, runner, network>>

\* Mutant: a poll with no deadline.
TimerNever(p) == FALSE

TimerDue(p) == claims[p].pc = "parked"

ClaimTimer(p) == TimerDue(p) /\ Finish(p, "timeout")

\* deliver: the answer to a poll carries the cursor of the next one.
advanced(c) == c + 1

RunnerTakes(p) ==
  /\ runner.poll = p /\ claims[p].pc = "done"
  /\ runner' = [runner EXCEPT
                  !.poll = Null,
                  !.cursor = IF claims[p].answer \in Entry THEN advanced(claims[p].cursor) ELSE @,
                  !.received = IF claims[p].answer \in Entry
                               THEN Append(@, claims[p].answer) ELSE @]
  /\ claims' = [claims EXCEPT ![p] = IdleClaim]
  /\ UNCHANGED <<table, network>>

\* The request breaks, or its response is lost: the runner will poll again
\* with its cursor, and the host goes on with the claim.
RunnerGivesUp ==
  /\ runner.poll # Null
  /\ breaks < MaxBreaks /\ breaks' = breaks + 1
  /\ runner' = [runner EXCEPT !.poll = Null]
  /\ UNCHANGED <<table, claims, conn, listening, pipe, notes, refs, faults>>

\* The runner's own timer ends a request whose claim waits for its LISTEN.  It is
\* as long as the claim's, which only a parked claim has, so no other wait of a
\* claim outlasts it.
PollTimesOut ==
  /\ runner.poll # Null /\ claims[runner.poll].pc = "listen"
  /\ runner' = [runner EXCEPT !.poll = Null]
  /\ UNCHANGED <<table, claims, network>>

\* Nobody is there for the answer.
ClaimForgotten(p) ==
  /\ claims[p].pc = "done" /\ runner.poll # p
  /\ claims' = [claims EXCEPT ![p] = IdleClaim]
  /\ UNCHANGED <<table, runner, network>>

\* A terminated session's token does not resolve; an error or the idle floor
\* can end the runner at any time.
RunnerExits ==
  /\ ~runner.gone
  /\ runner' = [runner EXCEPT !.gone = TRUE, !.poll = Null]
  /\ UNCHANGED <<table, claims, network>>

-----------------------------------------------------------------------------
(* The LISTEN connection of a host.                                        *)

\* The server runs the next statement, and its result reaches the host.
RunListen(h) ==
  LET p == Head(pipe[h]).by IN
  /\ conn[h] = "live" /\ pipe[h] # <<>> /\ Head(pipe[h]).op = "LISTEN"
  /\ listening' = [listening EXCEPT ![h] = TRUE]
  /\ claims' = [claims EXCEPT ![p].pc = "bound"]
  /\ pipe' = [pipe EXCEPT ![h] = Tail(@)]
  /\ UNCHANGED <<table, runner, conn, notes, refs, faults, breaks>>

RunUnlisten(h) ==
  /\ conn[h] = "live" /\ pipe[h] # <<>> /\ Head(pipe[h]).op = "UNLISTEN"
  /\ listening' = [listening EXCEPT ![h] = FALSE]
  /\ pipe' = [pipe EXCEPT ![h] = Tail(@)]
  /\ UNCHANGED <<table, claims, runner, conn, notes, refs, faults, breaks>>

\* Mutant: a notification stays within the host that sent it.
HeardLocally(h, g) == listening[g] /\ g = h

\* The server hands a notification of host h to g's connection.
Heard(h, g) == listening[g]

RunNotify(h) ==
  LET e == Head(pipe[h]).by IN
  /\ conn[h] = "live" /\ pipe[h] # <<>> /\ Head(pipe[h]).op = "NOTIFY"
  /\ notes' = [g \in Host |-> IF Heard(h, g) THEN notes[g] + 1 ELSE notes[g]]
  /\ IF e = Null
     THEN closer' = ClosedDown /\ UNCHANGED calls
     ELSE calls' = [calls EXCEPT ![e] = Ended("queued")] /\ UNCHANGED closer
  /\ pipe' = [pipe EXCEPT ![h] = Tail(@)]
  /\ UNCHANGED <<inbox, terminated, claims, runner, conn, listening, refs, faults, breaks>>

\* onNotification: every waiter of the host runs wakeWaiter.
OnNotification(h) ==
  /\ notes[h] > 0
  /\ notes' = [notes EXCEPT ![h] = @ - 1]
  /\ claims' = [p \in Poll |->
                  IF p \in Waiting(h) THEN [claims[p] EXCEPT !.wakes = @ \union {"fetch"}]
                  ELSE claims[p]]
  /\ UNCHANGED <<table, runner, conn, listening, pipe, refs, faults, breaks>>

\* Mutant: a LISTEN that fails keeps its reference.
Leaked(h, n) == refs[h]

Returned(h, n) == refs[h] - n

\* Every statement handed to the connection fails: a claim waiting for its
\* LISTEN gives its reference back and answers with the error, a queue
\* rejects although its row has landed, a terminate does not mind.
Rejected(h) ==
  LET failed == {p \in Poll : claims[p].pc = "listen" /\ claims[p].host = h}
      queues == {e \in Entry : calls[e].pc = "notifying" /\ calls[e].host = h}
  IN
  /\ claims' = [p \in Poll |->
                  IF p \in failed THEN [claims[p] EXCEPT !.pc = "done", !.answer = "error"]
                  ELSE claims[p]]
  /\ refs' = [refs EXCEPT ![h] = Returned(h, Cardinality(failed))]
  /\ calls' = [e \in Entry |->
                 IF e \in queues THEN Ended("rejected") ELSE calls[e]]
  /\ closer' = IF closer.pc = "notifying" /\ closer.host = h
               THEN ClosedDown ELSE closer
  /\ pipe' = [pipe EXCEPT ![h] = <<>>]
  /\ UNCHANGED <<inbox, terminated, runner>>

Fault == faults < MaxFaults /\ faults' = faults + 1

\* The backend is gone; the host does not know yet.
Disconnect(h) ==
  /\ Fault
  /\ conn[h] = "live"
  /\ conn' = [conn EXCEPT ![h] = "dying"]
  /\ listening' = [listening EXCEPT ![h] = FALSE]
  /\ UNCHANGED <<table, claims, runner, pipe, notes, refs, breaks>>

\* onClientError: what was on its way to the host is lost.
OnClientError(h) ==
  /\ conn[h] = "dying"
  /\ conn' = [conn EXCEPT ![h] = "down"]
  /\ notes' = [notes EXCEPT ![h] = 0]
  /\ Rejected(h)
  /\ UNCHANGED <<listening, faults, breaks>>

Connect(h) ==
  /\ conn[h] = "down"
  /\ conn' = [conn EXCEPT ![h] = "replaying"]
  /\ UNCHANGED <<table, claims, runner, listening, pipe, notes, refs, faults, breaks>>

\* A connect that fails rejects everyone who waits for it.
ConnectFails(h) ==
  /\ Fault
  /\ conn[h] = "replaying"
  /\ conn' = [conn EXCEPT ![h] = "down"]
  /\ listening' = [listening EXCEPT ![h] = FALSE]
  /\ notes' = [notes EXCEPT ![h] = 0]
  /\ Rejected(h)
  /\ UNCHANGED breaks

\* The new client LISTENs on the channel if it is counted ...
Replay(h) ==
  /\ conn[h] = "replaying" /\ refs[h] > 0 /\ ~listening[h]
  /\ listening' = [listening EXCEPT ![h] = TRUE]
  /\ UNCHANGED <<table, claims, runner, conn, pipe, notes, refs, faults, breaks>>

\* ... and is ready once it does.
ReplayReady(h) == refs[h] = 0 \/ listening[h]

Start(h) ==
  /\ conn[h] = "starting"
  /\ conn' = [conn EXCEPT ![h] = "live"]
  /\ UNCHANGED <<table, claims, runner, listening, pipe, notes, refs, faults, breaks>>

GoLive(h) ==
  /\ conn[h] = "replaying" /\ ReplayReady(h)
  /\ conn' = [conn EXCEPT ![h] = "live"]
  /\ UNCHANGED <<table, claims, runner, listening, pipe, notes, refs, faults, breaks>>

\* The host process dies: everything but the table is gone, and it starts
\* again, connected before it takes requests.
Crash(h) ==
  /\ Fault /\ Up(h)
  /\ claims' = [p \in Poll |-> IF claims[p].host = h THEN IdleClaim ELSE claims[p]]
  /\ runner' = IF runner.poll # Null /\ claims[runner.poll].host = h
               THEN [runner EXCEPT !.poll = Null] ELSE runner
  /\ calls' = [e \in Entry |->
                 IF calls[e].host = h
                 THEN Ended("lost") ELSE calls[e]]
  /\ closer' = IF closer.host = h THEN ClosedDown ELSE closer
  /\ conn' = [conn EXCEPT ![h] = "starting"]
  /\ listening' = [listening EXCEPT ![h] = FALSE]
  /\ pipe' = [pipe EXCEPT ![h] = <<>>]
  /\ notes' = [notes EXCEPT ![h] = 0]
  /\ refs' = [refs EXCEPT ![h] = 0]
  /\ UNCHANGED <<inbox, terminated, breaks>>

-----------------------------------------------------------------------------

Queue(e) ==
  \/ \E h \in Host : QueueStart(e, h)
  \/ QueueRead(e)
  \/ QueueInsert(e)
  \/ QueueConflict(e)
  \/ QueueNotify(e)

Terminate ==
  \/ \E h \in Host : TerminateFlag(h)
  \/ TerminateNotify

\* What a host's event loop does for a claim without being asked.
Claim(p) ==
  \/ ClaimFetch(p)
  \/ ClaimCheck(p)
  \/ ClaimBind(p)
  \/ ClaimPark(p)
  \/ WakeFetch(p)
  \/ WakeCheck(p)
  \/ ClaimForgotten(p)

\* The runner's loop: one of these at a time can be its next step.
Polls ==
  \/ \E p \in Poll, h \in Host : PollStart(p, h)
  \/ \E p \in Poll : RunnerTakes(p)
  \/ PollTimesOut

Runner == Polls \/ RunnerGivesUp \/ RunnerExits

\* What waits for the database to answer on the LISTEN connection, without a bound.
Answers(h) ==
  \/ RunListen(h)
  \/ RunUnlisten(h)
  \/ RunNotify(h)
  \/ OnClientError(h)
  \/ Replay(h)
  \/ GoLive(h)

Link(h) ==
  \/ Answers(h)
  \/ OnNotification(h)
  \/ Connect(h)
  \/ Start(h)

Failure(h) ==
  \/ Disconnect(h)
  \/ ConnectFails(h)
  \/ Crash(h)

Next ==
  \/ \E e \in Entry : Queue(e)
  \/ Terminate
  \/ \E p \in Poll : Claim(p)
  \/ \E p \in Poll : ClaimTimer(p)
  \/ Runner
  \/ \E h \in Host : Link(h)
  \/ \E h \in Host : Failure(h)

Spec == Init /\ [][Next]_vars

\* Event loops and timers go on, a runner that is alive polls, takes its answers
\* and gives up a request after its 30 seconds; nobody owes a queue, a terminate
\* or an exit.  The database answers on the table's connections, whose statements
\* are bounded, and need not answer on the LISTEN connection, whose are not.
Fairness ==
  /\ \A e \in Entry : WF_vars(QueueRead(e) \/ QueueInsert(e) \/ QueueConflict(e) \/ QueueNotify(e))
  /\ \A p \in Poll : WF_vars(Claim(p)) /\ WF_vars(ClaimTimer(p))
  /\ WF_vars(Polls)
  /\ \A h \in Host : WF_vars(OnNotification(h) \/ Connect(h) \/ Start(h))

FairSpec == Spec /\ Fairness

-----------------------------------------------------------------------------
(* What makes the inbox right.                                             *)

\* The cursors of a session are 0, 1, 2, ... with no gap: a gap is a cursor
\* the runner would poll for ever, whatever is queued behind it.
DenseCursors == DOMAIN inbox = 0..(Cardinality(DOMAIN inbox) - 1)

\* The count a host keeps is the number of its claims that hold a reference,
\* through failed LISTENs, reconnects and answers in any order.
RefsCounted ==
  \A h \in Host :
    refs[h] = Cardinality({p \in Poll : /\ claims[p].host = h
                                       /\ claims[p].pc \in {"listen", "bound", "parked"}})

\* What the backend of h will listen to once its pipe has run.
WillListen(h) ==
  LET subs == {i \in 1..Len(pipe[h]) : pipe[h][i].op # "NOTIFY"} IN
  IF subs = {} THEN listening[h]
  ELSE \E i \in subs : pipe[h][i].op = "LISTEN" /\ \A j \in subs : j <= i

\* No release takes the channel from a claim that still waits on it: while a
\* host counts a claim, its live connection listens or is about to.
StillListening == \A h \in Host : conn[h] = "live" /\ refs[h] > 0 => WillListen(h)

\* Something is under way that will make p look again.
WakeComing(p) ==
  \/ claims[p].wakes # {}
  \/ notes[claims[p].host] > 0
  \/ \E e \in Entry : calls[e].pc \in {"notify", "notifying"}
  \/ closer.pc \in {"flagged", "notifying"}

\* No wake is lost: when what the runner's parked poll waits for is there, an
\* entry at its cursor or the end of the session, the poll is about to look.
NoLostWake ==
  \A p \in Poll :
    /\ runner.poll = p /\ claims[p].pc = "parked"
    /\ claims[p].cursor \in DOMAIN inbox \/ terminated
    => WakeComing(p)

\* A queue on one replica wakes a claim on another: when an entry's
\* notification is sent, every host with a claim parked hears it.
NotifyIsHeard ==
  [][\A e \in Entry, h \in Host :
       calls[e].pc = "notifying" /\ calls'[e].pc = "queued" /\ Waiting(h) # {}
         => notes'[h] > notes[h]]_vars

\* Every entry that landed reaches the runner, through lost connections, crashes
\* and broken polls, and also when a LISTEN connection hangs for ever, unless the
\* session or the runner ends.
LandedIsReceived ==
  \A e \in Entry :
    (\E c \in DOMAIN inbox : inbox[c] = e)
      ~> \/ \E i \in DOMAIN runner.received : runner.received[i] = e
         \/ runner.gone \/ terminated

\* If the database goes on answering on the LISTEN connections, every claim is
\* answered or forgotten, also one whose LISTEN waits for a reconnect.  Without
\* that a claim may wait for ever (listen-connection.ts:29-40, "Known limit").
PollIsAnswered ==
  (\A h \in Host : WF_vars(Answers(h)))
    => \A p \in Poll : claims[p].pc # "idle" ~> claims[p].pc = "idle"
=============================================================================
