# A verification project for ax-next

ax-next runs AI agents in sandboxes for many people. One or more **host replicas**, each a
single-threaded Node process built from plugins on a hook bus, share a Postgres database and a blob
store. Each chat session has a **runner** in a sandbox which talks to any replica over HTTP. Nothing
but the database, the blob store and Postgres notifications is shared between replicas, and a replica
may die at any await. What is hard here is therefore what happens *between* two database statements,
two requests, two awaits, or two replicas; that is what this project models.

Eight subsystems are modelled, checked and proved about:

* **the approval queue** (`src/packages/decisions`): a tool call the policy holds becomes a
  question; one yes lets that call happen once;
* **the session inbox** (`src/packages/session-postgres`, with the runner's poll loop of
  `src/packages/agent-runner-core`): entries queued on any replica reach the session's runner, once
  and in order;
* **a chat turn** (`src/packages/chat-orchestrator`, with the parts of `channel-web`,
  `conversations`, `session-postgres` and the runner core it drives): a message is routed into a warm
  sandbox or a fresh one, its turn ends, or is stopped, or is cut off, and somebody is told;
* **the collection of blobs** (`src/packages/blob-gc` over `blob-store-s3`): what nobody references
  is retired, then purged, while others put, read and reference blobs;
* **the refresh of a connector's token** (`src/packages/credentials` with `mcp-oauth`): many reads, one
  rotating refresh token;
* **the runs of a routine** (`src/packages/routines`): a tick, a person and app updates start them, a
  host carries each under a lease, and the finish counts what was missed;
* **the ledger of turns** (`src/packages/usage-limits`): a turn passes the person's limits before it
  starts, on any host, and is charged once when it ends;
* **the meter of model calls** (`src/packages/credential-proxy` with the ledger of `usage-limits`): a
  proxy decides at once, from a cached verdict and a count, whether a request may carry the key.

Contents: [Running](#running) · [Inventory](#inventory) · [Approval queue](#the-approval-queue) ·
[Session inbox](#the-session-inbox) · [Chat turn](#a-chat-turn) · [Blobs](#the-collection-of-blobs) ·
[Token refresh](#the-refresh-of-a-token) · [Routine runs](#the-runs-of-a-routine) ·
[Turn ledger](#the-ledger-of-turns) · [Provider meter](#the-meter-of-model-calls) · [Proofs](#proofs) ·
[Disagreements](#disagreements-with-the-repositorys-own-words) ·
[Not modelled](#what-is-not-modelled) · [What remains](#what-remains)

## Running

    tlc -workers 2 -config MCDecisions.cfg MCDecisions        # likewise the other configurations
    tlapm DecisionsProofs.tla                                 # likewise the other *Proofs modules

`PROJECT.json` lists every component, run, mutant, hazard, finding and theorem, and maps every
definition that models code to the lines it models. A definition whose comment says "Mutant" is a
plausible bug of the definition after it; it takes no part in the specification and exists to show
that the property beside it in `PROJECT.json` can fail. A configuration that is not among the
listed runs is a further one, named in its module's section or
[below](#disagreements-with-the-repositorys-own-words).

The type invariant of every module (`TypeOK`), and that an inbox has no gaps (`DenseCursors`), are
theorems for all values of the constants, on which the other proofs rest; no listed run repeats them.

## Inventory

Components with state, what they do with it, and what can go wrong. `PROJECT.json` has all of them,
those that are pure I/O or schemas too, with the reason they are left out.

| component | state | operations | hard behaviour | what makes it correct | here |
|---|---|---|---|---|---|
| decisions | the decisions table; replays and deliveries in a host's memory | pre-call gate, approve, dismiss, undo, replay, delivery, sweep | two answers at once, undo against a replay, late tool answers, host loss, instants taken before awaits | a held call goes out at most once per yes; undo is clean; one unspent yes per call; closed stays closed | `Decisions` |
| session-postgres | sessions and inbox tables; per host: parked claims, LISTEN counts, one LISTEN connection | queue-work, claim-work, terminate, notify, reconnect | cursor races, lost wakes, failed LISTENs, reconnect, retried polls | entries once and in order; no wake lost; counts right; every poll ends | `SessionInbox` |
| chat-orchestrator | waiters, warm sessions and their timers, pending Stops | invoke: route, retire, spawn, bind, queue, await; interrupt; reap | events that name no turn, a session that dies under a turn, a Stop that outruns its message | no abnormal end is silent; a Stop follows its message; every open proxy session has an owner | `ChatTurn`, `ChatSession` |
| agent-runner-core | cursor, the turn in progress, parked request id, held calls | poll loop, turn loop, hold latch | answers of abandoned polls, idle floor, interrupt during a turn | the cursor never skips; a turn-end names its turn | poll loop in `SessionInbox`, turns in `ChatSession` |
| conversations, channel-web (server) | a conversation's active session and request; open streams | bind, clear, post a message, stream a turn | bind against clear | as the chat turn | in `ChatTurn` |
| sandbox-k8s | pods | open, kill, sweep of stray pods | an exit between a spawn and its first claim | an exit ends the session | exit and kill in `ChatTurn` |
| blob-gc, blob-store-s3 | a row per blob, an advisory lock; two namespaces of a bucket | discover, repair, retire, purge; put, get, stat, restore | moves that are a copy and a delete, restores by readers, holders' answers that age | nothing referenced loses its last copy | `BlobGc` |
| attachments | upload and artifact rows | upload, commit, publish, janitor | a publish between a stat and its row | as the blobs | publish in `BlobGc` |
| credentials, mcp-oauth | vault rows, the "sign-in expired" mark; per host: reads in flight | get, refresh, callback, sign-out | rotation by concurrent reads, on several hosts | one refresh at a time; no spent token over a good one | `TokenRefresh` |
| routines | routine, dispatch, fire, app-update rows; leases | tick, check now, reply, admit, accept, bind, report, finish, recover | a host lost under a run, overlapping finishes, stale claims, updates given to a run that dies | check-ins take turns; no update lost; the count of misses true | `TaskRuns` |
| usage-limits | cost and turn counters per minute, a row per turn, suspensions | admit, settle, provider status and record, prune | two turns admitted at once; an end that is told three times, or by a turn that was refused | the hour's limit holds; a turn is charged once | `TurnLedger`; the proxy's ledger in `ProviderMeter` |
| credential-proxy | per person: a cached verdict, calls in flight; per session: a meter; per tunnel: awaited responses | open, close, admit, settle, check, record | answers out of order, a state dropped and made anew under a tunnel that still holds the old one, a failed check | slots are calls; the cap holds over all sessions; who is blocked starts blocked | `ProviderMeter` |
| disk-quota | sizes | measure | read, then write | approximate by design | not modelled |
| core (hook bus) | registered services and subscribers | call with a timeout, fire with vetoes | a late answer after the caller gave up | the caller treats the answer as unknown | in the callers' modules |
| memory | a queue of pending extractions, facts | extract, close, retry | a retry of what was stored | a fact once | not modelled |
| tool-policy | verdict rows | evaluate a call | precedence of rules | a pure function | not modelled |
| agents, teams, connectors, skills and others | rows | one statement per call | little | — | not modelled |

How they interact: a message posted on the web binds its turn to the conversation and invokes the
orchestrator, which routes it into the conversation's session and queues it on that session's inbox;
the runner polls it and asks the host before each tool call; the policy's hold lands in decisions; an
approval is told to the warm session through the inbox (`delivery.ts`), or replayed by the host; a
routine's run is an invoke without a person; a connector's tool call reads its token through
credentials; what agents publish goes to the blob store; every turn passes `usage-limits` when it
starts, and the runner's model calls pass the credential proxy, which asks `usage-limits` too. Calls between plugins go through the hook
bus, and wakes between replicas through Postgres notifications.

## The approval queue

| module | what |
|---|---|
| `DecisionRows` | the row's columns, the predicates of the store's WHERE clauses, what each UPDATE writes |
| `Decisions` | gates, requests ("tabs"), replays and deliveries in memory, the sweep, crashes, over a table of rows; the properties |
| `CallAuthority` | the abstract specification: a question is open, granted, out, declined or closed; one grant per call at a time; nothing that went out opens again |
| `DecisionsRefinement` | the mapping of rows to that, and `ImplementsAuthority` |
| `DecisionsTogether` | a history of pairs that were open side by side |
| `DecisionsProofs` | the proofs |
| `MCDecisions`, `MCDecisionsTogether` | for TLC |

**State and steps.** One database statement or transaction is one step; so is each stretch of code
between two awaits. `rows` is the table; `gates`, `tabs`, `picks` and `host` are what processes
have in memory (the gate between stamping a hold and writing it, a request between its read and its
claim, the sweep between its SELECT and its UPDATE, a replay between taking the flight and its
answer) and any of it may be lost at any moment. `sent` is a history variable: how often the call
went out under a decision and was not reported as a definite failure. `now` is the database clock,
bounded by `MaxTime`.

**Simplifications.** A column only tested for NULL is a Boolean. A call is a member of `Key`, equal
for equal fingerprints. Freshness, attendance, whether an executor exists and whether a session is
warm are answers that may be yes or no at the moment they are read. The dismiss request's read,
stamp and write are one step (its write is conditional on the status). A row here is an ordinary
tool call's: a routine tool's own consent columns keep their defaults.

| run | asks | properties |
|---|---|---|
| `decisions` | two ids, one call, two people, one request at a time, chat rows of every shape, every interleaving with losses | `AtMostOnce`, `UndoIsClean`, `OneStanding`, `RepeatOnlyAfterAnswer`, `ClosedStaysClosed`, `ImplementsAuthority` |
| `decisions_live` | one id, fair schedulers, losses | `FlightEnds`, `DueIsClaimed`, `QuestionCloses` |
| `twins_run_once` | what a comment says of twins | `TwinsRunOnce`, violated, see below |

*Bounds.* Two questions are what the twin rule, the unique index and the authority's exclusion
relate; an id, once used, is never used again, so more of them only repeat the pairs. The clock
reaches past each duration in use, so expiry, the undo window and the reclaim all happen, in either
order. Deadlock is checked.

*Fairness* (`Decisions!Fairness`). The clock, each of the sweep's statements (an interval timer on
every replica) and the awaits of a replay or delivery (the hook bus bounds them with a timeout) go
on: WF. The sweep's second statement has SF: a host may die between the two statements of a pass,
but not in every pass for ever. People and agents owe nothing. The liveness properties speak only
of instants the bounded clock reaches; a pass that misses a row by one instant would find it in the
next, which the last instant of the model does not have.

## The session inbox

| module | what |
|---|---|
| `SessionInbox` | one session: the table, queue and terminate calls, claims, the runner's poll loop, each host's LISTEN connection; faults; the properties |
| `SessionMailbox` | the abstract specification: a FIFO; post once, receive the next |
| `SessionInboxRefinement` | rows by cursor are the posted letters; `ImplementsMailbox` |
| `SessionInboxProofs` | the proofs, in three parts: the mailbox, the connections and counts, the wakes |
| `MCSessionInbox` | for TLC |

**State and steps.** `inbox` is the table (cursor to entry), `terminated` the session's flag.
`calls[e]` is the one `session:queue-work` of entry e: read MAX(cursor), insert, on a unique
violation read again, then notify. `claims[p]` is a `session:claim-work`: fast-path read, flag
check, LISTEN count, perhaps a LISTEN, park with a forced re-check, then wakes and the timer.
`runner` has the cursor, its poll and what it has received. For each host `conn` is its LISTEN
connection (live; *dying*: the backend is gone and the host has not noticed; down; replaying its
LISTENs; *starting*: the process has died and is initialising), `listening` what the backend does,
`pipe` the statements handed to the client, run by the server in order, `notes` the notifications
on their way, and `refs` the count `ensureListen` keeps.

**Simplifications.** A statement and the arrival of its result are one step. When a connection dies
all its statements fail in one step, as pg rejects its queue. The wakes of one claim are a set: two
runs of `wakeWaiter` that are about to make the same read are one (a waiter settles once, so the
second only repeats the first). A reconnect waits until `Connect` happens, which stands for the
backoff timer and for a caller's `ensureConnected` alike. A poll's timer may fire at any moment
after it parks. A queue or terminate the caller never made is possible: nothing forces them.
Left out: shutdown, errors of the table's own connection, corrupt rows (which end the runner), and
two sessions whose names sanitise to one channel (which only adds spurious wakes).

| run | hosts / entries / polls / faults / abandoned polls | properties |
|---|---|---|
| `inbox_wakes` | 2 / 2 / 1 / 0 / 1 | `NoLostWake`, `NotifyIsHeard`, `ImplementsMailbox` |
| `inbox_faults` | 1 / 1 / 2 / 2 / 0, fair | `RefsCounted`, `StillListening`, `LandedIsReceived`, `PollIsAnswered` |

`NoLostWake` and `NotifyIsHeard` hold without faults and with one poll at a time; the configurations
`RecheckClosesGap` and `ReconnectHears` show that each of those conditions is needed, and
`LandedIsReceived` shows what is left without them: the entry is late, by at most a poll's timeout,
and not lost. A broken poll that is retried on another replica while its first claim lives needs more
polls and hosts than `inbox_wakes` has; that it cannot take an entry twice is proved (`InboxIsMailbox`).
`InboxTwoEntries` is a larger configuration of the same module (two entries, two polls, two faults,
without the liveness properties); it passes too.

*Bounds.* Two entries race for a cursor; a second poll is the retry of one that was given up, or that
timed out behind its LISTEN, while the first is still alive on a host; two hosts are a sender and a
listener. The reference count and the pipe belong to one host; two faults are a lost connection and
then a failed connect, or a crash on top of either. `MaxAttempts` is 2 for the code's 5, as many tries
as two entries can use. Every safety property here is also proved, for all bounds (`NoLostWake` and
`NotifyIsHeard` under the conditions above).

*Deadlock* is off in these runs: entries, polls and faults are finite, and a session whose runner
has exited really stops.

*Fairness* (`SessionInbox!Fairness`). Event loops, timers and the table's own statements go on, a
reconnect is tried after every failure, a runner that is alive polls, takes its answers and times its
requests out, and a host that has died starts again. Nobody owes a queue, a terminate, an exit or a
fault. Faults and abandoned polls are bounded, which says that they do not go on for ever; without that
no message system delivers anything.

That the database *answers* on a LISTEN connection (`Answers`: a LISTEN, an UNLISTEN, a notify, the
replay of a reconnect, the error of a dead socket) is not among it. Nothing bounds those
(`listen-connection.ts:29-40` calls it a known limit), and the claim's timer is armed only after its
LISTEN. So `LandedIsReceived` is checked without it: the runner's own timer gives the request up
(`PollTimesOut`), and the next poll finds the entry on its fast path. `PollIsAnswered` has it as its
premise, since a claim behind a LISTEN that is never answered is never answered either.

## A chat turn

| module | what |
|---|---|
| `ChatSession` | one conversation's sandbox sessions: row, inbox, runner, warm entry and reap timer, credential-proxy session; what the host does with a runner's events |
| `ChatTurn` | extends it with the way of a turn: post, invoke, route or retire or spawn, bind, queue, await; `agent:interrupt`; the properties |
| `ChatTurnProofs` | the proofs |
| `MCChatTurn` | for TLC |

**State and steps.** A turn is one `agent:invoke`, named by its request id; a session is named by the
turn that opened it. `turn` is where an invoke stands between two awaits, `waiter` its deferred
outcome, `order` a session's registered waiters (the orchestrator settles the oldest when an event
names no turn), `conv` the conversation's row, `inbox` and `runner` the session's other end, `warm`
and `cancelled` the reaper's side, `heard` what the client's stream was closed with. `stop`,
`stopRequested` and `asked` are a Stop on its way. A runner may fold a message into the turn it is
in, drain after a cancel, fail, crash, or be killed.

**Simplifications.** Time is left out: timers fire at any moment, except that a message on its way
into a session arrives before the runner's idle floor or the session's idle window (`Entering`), 15
and 5 minutes against a few calls. The inbox of an ended session is emptied. The runner is the Claude
loop, whose pull is always pending. The several reasons to rotate a session are one nondeterministic
retire. Not modelled: a wake by a resolved decision (it has no request id), routine turns, connectors
or agents that are deleted, a hanging close of a proxy session, a kill that fails.

| run | bounds | properties |
|---|---|---|
| `chat_turn` | 2 turns, 1 fault | `StopFollows`, `NoSilentEnd`, `ProxyHasOwner` |

*Bounds.* Every rule here is about a turn and the one beside it: two messages racing to open a
sandbox, one behind the other in a session, one behind a cancel. A third only repeats a pair. Turns
and faults are finite, so deadlock is off.

What the model shows that no property forbids: with two waiters on a session, an end that names no
turn completes the older one, whichever it came from (the comment at `orchestrator.ts:4553` accepts
this); a turn's end arms the reap timer while a routed turn waits; a routed turn whose queue call
fails leaves a warm session without a timer; a Stop that was read for turn A and lands after B was
queued stops B; an interrupt read between a turn's end and the first chunk of the next is dropped.

## The collection of blobs

| module | what |
|---|---|
| `BlobGc` | the bucket's two namespaces, the collector's table, sweeps, and clients that put, read and publish; the properties |
| `BlobGcProofs` | the proofs |
| `MCBlobGc` | for TLC |

**State and steps.** One request to S3, one statement, one holder's answer is a step, so a move is a
copy and then a delete with anything in between. `live` and `retired` are the copies, `row` the
table with its instants reduced to what they are compared with (`new`, `old`; `set`, `due`), `held`
which holders' rows reference a blob, `job` where a sweeper or a client is, `todo`, `asked`, `seen` a
sweep's page and what the holders said, `locked` the advisory lock.

**The lock.** `LockLoss`: the connection that holds the lock drops and another sweep may start. With one
sweeper that only lets it start over.

**Crossed moves.** A retire may begin while a read is moving the same blob back; nothing in the code
keeps them apart, and together they can delete both copies. It takes no slow read: after a retire whose
answer was lost, the row is old and the only copy retired, so the next sweep retires it with no new grace
period, whatever reads it meets (`OneSweep`, [below](#disagreements-with-the-repositorys-own-words)). The
model has all of this. `crossed` is history: the blobs whose retire was begun while a client's lookup had
missed the live copy and was not over; one is forgotten when a sweep starts, if no such lookup is left and
it still has a copy. `PromisedIsKept`, `ReadFinds` and `LastCopyIsDue` hold of every other blob: a crossed
retire is the *only* way to lose one.

| run | bounds | properties |
|---|---|---|
| `blob_gc` | 1 blob, 2 holders, 1 sweeper, 2 clients, lock may drop, 1 fault, fair | `PromisedIsKept`, `ReadFinds`, `LastCopyIsDue`, `DuplicateGoes`, `GarbageGoes` |

*Bounds.* Blobs do not touch each other: a sweep's page or batch only orders them. Two clients are a
put and a read of the same blob, or two reads; two holders are one that has answered and one that has not.
Periods pass only between sweeps (a sweep's cutoffs are those of its start) and while nobody is between
a put or a publish's stat and the row it writes next; a read may last through them.

*Fairness.* Clients and sweeps go on; a sweep is started again and again by its timer, in a host that
may fail in some sweeps but not in all, hence SF on the start of a sweep, and on the passing of the
grace and retention periods. The sweeps so meant enforce: in a deployment whose mode is `report`
`DuplicateGoes` and `GarbageGoes` promise nothing.

*Left out.* The holders' roster and the answers that are refused, the mode and its routes, the stored
report; a delete that lands after the bus gave up on it (`hook-bus.ts:389`), which acts as a lost
lock does; that a holder may ask its tables one after the other (`skills/src/blob-refs-store.ts`).

## The refresh of a token

| module | what |
|---|---|
| `TokenRefresh` | reads of one vault row on several hosts, the authorization server, the sign-in callback and sign-out; the properties |
| `TokenRefreshProofs` | the proofs |
| `MCTokenRefresh` | for TLC |

**State and steps.** `row` holds the number of a token that works, `Spent`, or none; the server issues
a number nobody remembers, so no bound on refreshes is needed. `slot` is a host's shared Promise,
`read` where each `credentials:get` is (reading the row, waiting, resolving, re-storing), `marked` the
"sign-in expired" mark, `person` a callback or a removal between its statements, `spoilt` whether a
token was revoked or lost between the rotation and the store.

| run | bounds | properties |
|---|---|---|
| `token_refresh` | 1 host, 2 readers, 4 tokens, 1 fault, fair | `OneResolver`, `RowWorks`, `ReadEnds`, `MarkHeals` |

*Bounds.* A read that leads and one that waits are all the roles there are; the hosts of
`OneResolver` and `RowWorks` are unbounded in the proofs. Four tokens are one for the row, one per
reader and one being issued.

*Fairness.* Promises settle; a callback finishes what it began. A renewing read waits for each
ordinary one, so it may starve while those keep coming: `ReadEnds` says so. A host that dies between
the rotation and the re-store loses the token, and a refresh in flight re-stores its token after a
sign-out or over a newer sign-in; both are behaviours of the model.

## The runs of a routine

| module | what |
|---|---|
| `TaskRuns` | one routine's row, its runs with the hosts that carry them, its app updates, the tick and the recovery; the properties |
| `TaskRunsProofs` | the proofs |
| `MCTaskRuns` | for TLC |

**State and steps.** A transaction is one step. `def` is the routine's row (a job that repeats or a
task; whether it has a next run; the missed check-ins in a row with the starts of the latest miss and
report), `run` the dispatch rows together with where each one's host is: setting up, ready to invoke,
an agent at work, the turn ended and the finish not yet written. `event` is the task's app updates:
waiting, given to a run, consumed by a report. `tick` is a row the tick has claimed and not yet
accepted, as it is or as it was before an edit; `seen` what a recovery has read before it asks for the
conversation's session. `fin` and `era` are history: the order of the finishes, and where the count
last started over.

`CountIsTrue` bounds the count that a finish leaves from both sides. It is no fewer than the misses
since the count last started over: runs that finished without a report, no earlier than the latest
report was asked for, and that no report answers. It is no more than the runs of any time that
finished so, and that no report the row remembers answers. The two differ only as the comment of
`missesAfterRun` says: a person resumes the task, or changes its kind, while a run that still counts
is open, and the finish of that run counts runs from before.

Starts are instants of the accepting host's clock and come in any order. Runs of a task never overlap
by acceptance, but those of a repeated job may, and a change of kind in between makes the finishes of
overlapping runs count; that is how the older and newer reports and misses of `missesAfterRun` arise.
A run's `slip` says what its host did wrong: *stalled*, it could not renew through its lease and goes
on working; *unwritten*, its finish could not be written.

**Simplifications.** A row with a next run is due: the arithmetic of schedules, the response window,
the safety timer and active hours only delay. One tick's claim and one recovery's observation at a
time. Left out: a change of owner, Done and reopening, deletion, default routines, request receipts,
notes, steps and readings, the confirmation of a brief, the limits and the expiry of updates, the
queue of a repeated job's app updates, changes between the two kinds of task, a finish that cannot be
written during setup, a session that outlives its turn (it only defers recovery).

| run | bounds | properties |
|---|---|---|
| `task_runs` | 1 host, 3 runs, 1 update, 2 instants, 1 act of a person, 1 fault | `AgentsTakeTurns`, `EventsAreOwed`, `CountIsTrue` |
| `task_runs_live` | 1 host, 2 runs, 2 updates, 1 act, 1 fault, fair | `RunEnds`, `UpdateIsHandled` |

*Bounds.* Two repeated runs open at once with their starts in either order, and a third after a change
of kind, are what the count's cases tell apart; it pauses after two misses instead of five, and a
check-in is given one update instead of twenty, so that both limits are reached. A host that dies
comes back as another executor, so a second host adds only the tick of another replica. With three
acts and no fault, and with two acts and a fault, `task_runs` passes too. Runs, updates, acts and
faults are finite, so deadlock is off.

*Fairness* (`TaskRuns!Fairness`). Every replica ticks, heartbeats and drains on timers; a host works
a run off; a turn ends or is cut off by its timeouts; the lease of a dead host runs out; a sandbox
whose host is gone stops. The pump looks at all expired runs in each pass, but a run may be renewed or
deferred between passes: SF on `Observes`. People, updates and faults owe nothing.

`RunEnds` excepts a run whose finish could not be written: the host logs it, forgets the run and goes
on renewing its lease, so nobody recovers it and the task stays busy until that host restarts
(`plugin.ts:319`, `repeat-deliveries.ts:123`). `AgentsTakeTurns` excepts a host that stalled through
its lease; `OneAtATime` shows that the exception is needed.

## The ledger of turns

| module | what |
|---|---|
| `TurnLedger` | one person's admissions and charges; the properties |
| `TurnLedgerProofs` | the proofs |
| `MCTurnLedger` | for TLC |

**State and steps.** `row` is the turn's row in `usage_limits_v1_turns`, `turns` the turns counted in
the hour, `spend` the day's cost, `refusing` whether the person is suspended and whether the fleet has
reached its limit, `lock` the person's advisory lock. An admission is a transaction, a statement a
step: it waits for the lock, reads the suspension, then both sums, then the fleet's, then inserts the
row and counts. It may fail anywhere, and the answer to its commit may be lost, which is counted and
refused. The hook bus waits for the gate's answer for at most a minute (`CHAT_START_SUBSCRIBER_TIMEOUT_MS`,
`CHAT_RESUME_SUBSCRIBER_TIMEOUT_MS`): then the turn goes on as if the gate had no objection
(`Outwaited`), and the admission, which does not look at the abort (`plugin.ts:169`, `182`), goes on too,
unheard. A charge is one step: it claims the row that is not settled, and only a turn-end inserts the
row first. `let`, `skipped` (the requests whose turns did not wait) and `charges` are history.

**Simplifications.** A turn costs one and `Cap` is what the day allows; the properties are about how
often a turn is charged, not about how much. The hour and the day do not end within a behaviour, nor
do the eight days after which rows are pruned (`store.ts:585-592`, `plugin.ts:18`): a turn that ends
later than that is charged again. Limits stay as they are. A charge that fails is logged and forgotten
(`service.ts:234`, `324`), which is the same as an end that is never told. `Unasked` is a turn that ends
without having passed the gate under that id, which a turn-end charges on purpose.

| run | bounds | properties |
|---|---|---|
| `turn_ledger` | 2 admissions, 3 requests, 1 unasked turn, 2 turns an hour | `RateHolds`, `LetIsCounted`, `ChargedOnce`, `RefusedIsFree` |

*Bounds.* A race is between two admissions, and a third request is what the limit of two refuses.
Begins, ends, failures and callers that stop waiting are not bounded.

So the gate fails closed when the check breaks and open when it hangs. `LetIsCounted` and `RefusedIsFree`
speak of the turns that waited: a skipped one may run uncounted, and its turn-end then charges what no
admission counted. `RateHolds` is of the turns counted and `ChargedOnce` of all. That the skipped ones are
past the limit is `SideDoor`, [below](#disagreements-with-the-repositorys-own-words).

That the day's limit is passed by no more than what is under way is not stated: a turn's cost is known
when it ends, so turns admitted before that all pass (the daily limit is soft, and the proxy's ceiling
of twice the limit is what bounds it).

## The meter of model calls

| module | what |
|---|---|
| `ProviderMeter` | one person on one host: sessions, their meters and tunnels, the cached verdict, the calls of the ledger, the ledger; the properties |
| `ProviderMeterProofs` | the proofs |
| `MCProviderMeter` | for TLC |

**State and steps.** `users` are the states `ProviderMeterHub` has made for the person, each named by
the open that made it, and `current` the one in its map: a state is dropped when no session, no call
and no check uses it, but who got it earlier still holds it. `meter` is what each open of a session
returned, `config` which of them the listener finds, `tunnel` a tunnel to a metered host with, for each
request it awaits the response of, whether it was admitted. `calls` are the calls of the ledger in the
order they were made: a check is three reads (suspension, the person's spend, the fleet's), a report
one write before them. Their answers land in any order. `stood` is history: the reasons to block that
have stood since the session's meter was asked for.

The code numbers its ledger calls and drops an answer that is older than the last one applied. Here
`calls` is in that order, and a call is `late` once a later one's answer was applied: the comparison
`seq < appliedSeq` without the numbers, so calls need no bound over time.

**Simplifications.** Time is `fresh`: the cached verdict is asked about again once it has aged. Every
call costs one; `Ceiling` calls reach twice the daily limit. `Outside` says what others may do to the
ledger: suspend and resume, move the fleet's spend, add to the person's (the runner's own report,
another replica, a report that is written after the bus gave up on it), let the window roll on, fail.
A session is not closed or opened again while an open of it is under way (the orchestrator awaits it).
The ledger plugin is loaded. Replicas have separate caches over one ledger. A response and its
settlement are one step, as they are in the code (no await between them).

| run | bounds | properties |
|---|---|---|
| `provider_meter` | 2 sessions, 2 opens, 2 tunnels, cap 1, 2 ledger calls at once, 1 call that reaches the limit, a database that fails | `SlotsAreCalls`, `CapHolds`, `StartsBlocked` |

Beside it, `ProviderMeterLive` checks `BlockClears` and `BlockArrives` (1 session, 1 tunnel, cap 2, 2
requests awaited, everything others may do, fair): a block that was lifted clears, and a reason that
stands arrives, for whoever keeps asking. Both hold. `SpendBlocks` is violated, see below.

*Bounds.* Two sessions are what shares a state, two opens what replaces one, two tunnels what holds an
old one beside a new one or competes for the last slot, and two ledger calls what can be answered out
of order. Tunnels begin and end without bound. The cap of 1 for the code's 8 makes a second call
already one too many; `MaxOutstanding` is 1 or 2 for 256. With two opens and two tunnels the run leaves
suspensions, the fleet, other spenders and the window to the further configuration; the database may
fail at any moment. The proofs have no bounds.

*Fairness* (of `ProviderMeterLive`). The hook bus ends every call within its time limit (`hook-bus.ts:389`), so the oldest call
of the ledger is served: WF. Time passes: WF on `Age`. An open that was answered is published: WF.
Nobody owes a request: `BlockClears` and `BlockArrives` speak of who keeps asking, since a check is made
only then.

`BlockArrives` speaks of one reason. Two reasons that take turns, one standing while the other is read,
can each be missed by every verdict for ever; a verdict is three statements and no snapshot.

## Proofs

`tlapm` checks them from nothing; there is no axiom and no step without proof.

| module | theorems | invariant |
|---|---|---|
| `DecisionsProofs` | `TypeCorrect`, `Once`, `CleanUndo`, `SingleStanding`, `RepeatsAreAsked`, `ClosedIsFinal`, `KeepsAuthority` | `TypeOK`, `ProcessInv`, `RowInv`, `OneStanding`, `PairInv` |
| `SessionInboxProofs` | `CursorsAreDense`, `InboxIsMailbox` | what an entry, an answer, the runner's poll and its cursor agree on |
| the same, connections | `TypeCorrect`, `ReferencesAreCounted`, `ListenedWhileCounted` | `LinkTypes`, `Counting`, `ClaimHosts`, `Listens`, `NoUnlisten`, `StillListening` |
| the same, wakes | `WakesAreKept`, `NotificationsAreHeard` | both of the above with `AllLive`, `ListenIsLast`, `Attended`, `EntryKnown`, `EndKnown` |
| `ChatTurnProofs` | `StopsFollow`, `ProxiesHaveOwners`, `TurnTypesHold`, `EveryEndIsTold` | `TurnTyped`, `ConvTyped`, `OwnersTyped`, `StopTyped`, `InboxTyped`, `Owed`, `StopsBound`, `StopsBehind`, `ProxyHasOwner`; `HostTyped`, `RunnerTyped`, `Named`, `OwnSession`, `Waited`, `Told`, `WarmOpened`, `DeadRow`, `ToldHeard` |
| `BlobGcProofs` | `TypesHold`, `KeepsPromises`, `ReadsFind`, `LastCopiesAreDue` | `TypeOK`, `OneSweep`, `GoalFits`, `MovesAreSafe`, `RowsHaveCopies`, `StoredIsLive`, `Listing`, `Repairing`, `Retiring`, `Purging`, `PromisedIsKept` |
| `TokenRefreshProofs` | `TypesHold`, `ResolvesAlone`, `RowKeepsWorking` | `TypeOK`, `SlotsFit`, `StoresFresh`, `RowWorks` |
| `TaskRunsProofs` | `TypesHold`, `AgentsAlone`, `UpdatesAreOwed`, `CountsAreTrue` | `TypeOK`, `Turns`, `Owed`; `FinIsClosed`, `Started`, `Kept`, `Long` |
| `TurnLedgerProofs` | `TurnTypes`, `RateIsKept`, `ChargesOnce`, `LetsWhatItCounts`, `RefusalsAreFree` | `TypeOK`, `HoldsLock`, `RoomRead`, `RateHolds`; `CountInv` |
| `ProviderMeterProofs` | `MeterInvariant`, `MeterTypesHold`, `SlotsAreKept`, `CapIsKept`, `StartsBlockedIsKept` | `Core` (`TypeOK`, `Held`, `Published`, `Connected`, `Asked`, `InMap`, `AtRest`, `Slots`, `LateFirst`) and `Warned` |

All hold for any values of the constants. Two have conditions: the blobs' are proved for
`~LockLoss` (the lock keeps sweeps apart), the two wake theorems for `Quietly` (no fault, one poll); the violations below show
that without them the statements are false. Other assumptions are the named ASSUMEs on the constants:
NULL is not a value, bounds are numbers, kinds of actors are apart.

Why the invariants are needed:

* *Approval queue.* `AtMostOnce` alone is not inductive: that a step sends a call only when nothing
  was sent follows from which of a row's columns may be set together with a host's work on it
  (`RowInv`), and the twins' rule from the same for two rows of one call (`PairInv`). Each UPDATE has a
  lemma saying that it keeps one row right; the step lemmas only pick the row. `RowInv` also says where
  a row stands (`StandIs`), so `KeepsAuthority` is one lemma per statement: which step of the authority
  it is. A reclaim sends nothing, but gives a call up as one that may have gone out (`GoOut`); all
  that a host does after that leaves the question out.
* *Inbox.* A cursor that a call has read is at most the number of rows, so the one that passes the
  unique constraint is the next; an answer is the entry at the cursor asked for, also of a poll that
  was given up; so a step inserts a row (the mailbox posts), gives the runner an entry (it receives),
  or stutters. `Counting` says that a host's count is the cardinality of its claims that hold a
  reference, through failed LISTENs and lost connections; `Listens` and `NoUnlisten` say what the pipe
  of a live connection will leave behind. For the wakes, `EntryKnown` follows an entry that has
  landed to the wake, notification or pending read of each parked claim.
* *Chat turn.* A Stop is owed from its acceptance to its queueing (`Owed`); an interrupt is behind the
  message of its turn because the turn was bound before the Stop could name it (`StopsBound`,
  `StopsBehind`). That an end reaches every waiter rests on where a turn can be found: it stays in its
  session's list from registration to its end (`Waited`), whatever `Without` takes out around it;
  nobody is routed to a session before it is open (`WarmOpened`); a runner that exited has no live row
  (`DeadRow`), so no message is queued behind the announcement, which told all that were (`ToldHeard`).
  The oldest waiter of a list exists because every non-empty set of naturals has a least element
  (`Least`).
* *Blobs.* Each pass has a part that says what its next request may rely on (`Listing`, `Repairing`,
  `Retiring`, `Purging`), and `MovesAreSafe` says that while a move is between its copy and its delete
  nobody else is about to delete the other copy, unless the blob is crossed. Most parts are silent about
  crossed blobs; `Start` may forget one because, with no move under way and a copy somewhere, it satisfies
  them all again.
* *Token.* A read that resolves holds its host's slot (`SlotsFit`), and what it is about to store is
  fresh, or no worse than the row (`StoresFresh`).
* *Routine runs.* A run's host, lease, binding and work fit together (`Fits`, per run), what a recovery
  has seen stays true until it acts (`Looked`), and a task has one open check-in (`OneCheckIn`); an
  update is given only to an open run of a task (`GivenToRuns`). The count's two bounds are invariants of
  different shape. `Kept` holds between finishes too, since reports and starts only take misses away; it
  also says that none of them started after the latest miss, which is why a report behind no newer miss
  may clear the count. `Long` holds only while the run of the latest report is not open, for that report
  has answered misses that nothing has trimmed yet; every finish beside it trims, so each leaves the
  count short enough (`FinishCountsNoMore`). What a trim keeps is compared by cardinality, not run by run.
* *Turn ledger.* An admission past the lock holds it (`HoldsLock`), so what it read of the hour's count
  is still true when it counts (`RoomRead`); a charge counts no turn, which is why it needs no lock. The
  count is the number of requests that have a row (`CountInv`), since a turn-end inserts a row only for a
  turn that has one already, never asked the gate, or did not wait for it. So the count is kept by a set
  of requests that has one member per counted turn and holds every request that was let through or
  charged and was not skipped (`Counts`).
* *Provider meter.* The cap is kept per state, and states are dropped and made anew. It holds over all of
  them because every meter that is still open finds the state in the map (`InMap`), so no other state
  gets new calls, and a state leaves the map only without calls (`AtRest`); `Slots` says that a count is
  the number of requests the tunnels await, which also shows that `Math.max(0, ...)` in settle never
  has anything to cut. For `StartsBlocked`, `Warned` follows each reason from the ledger to the cached
  bit: either a call is under way that will see it and everything after it will too (`Pending`), or
  the bit is set and what is under way cannot clear it (`Settled`). It needs `LateFirst`: behind an
  answer that counts there is none that was passed.

**Only model-checked:** all liveness (`FlightEnds`, `DueIsClaimed`, `QuestionCloses`,
`LandedIsReceived`, `PollIsAnswered`, `DuplicateGoes`, `GarbageGoes`, `ReadEnds`, `MarkHeals`,
`RunEnds`, `UpdateIsHandled`, `BlockClears`, `BlockArrives`), which is out of the prover's
reach.

## Disagreements with the repository's own words

One is a listed run that TLC ends with a counterexample; `findings` in `PROJECT.json` quotes the line.

* `twins_run_once`: two identical questions open side by side can both run. The instant of a yes is
  taken before the approval's awaits, so the twin rule compares with a moment earlier than the answer.

The others are further configurations, kept beside it, each of which TLC ends with a counterexample
too:

* `TwoSweeps` (MCBlobGc, two sweepers): the sweep lock is called an efficiency
  (`blob-gc/src/store.ts:98-101`), but when it is lost two sweeps can delete both copies of a
  referenced blob: one has copied a blob to the retired namespace and not yet deleted the live copy,
  the other finds that live copy, the first deletes it, and the second, whose check is behind it,
  purges the retired copy as a duplicate (`blob-gc/src/service.ts:253`).
* `OneSweep` (MCBlobGc, one sweeper that keeps its lock): `blob-store-s3/SECURITY.md:49-54` says that a
  restore and a second retire can drop both copies only if two sweeps work on the same blob. One does, and
  no period need pass during a read (`PromptReads`). A retire's delete lands and its answer is lost, so
  `unmarkRetired` makes the row old again with only a retired copy; a read and a publish's stat copy it
  back, and the stat drops the retired copy and answers that the blob is there; the next sweep lists the
  live copy alone, nobody holds it when asked, the row is old, so it copies the blob to the retired
  namespace; then the read drops that copy, and the sweep deletes the live one.
* `SideDoor` (MCTurnLedger): `usage-limits/src/plugin.ts:173-178` says that neither the kill switch nor the
  caps have a side door, and `service.ts:20-23` that the gate fails closed. A turn whose admission waits
  longer than a minute goes on past both (`orchestrator.ts:2564-2567`, `delivery.ts:44-51`).
* `SpendBlocks` (MCProviderMeter): the meter's header says that the block is set by the verdict every
  recorded call gets back and lands after a response completes (`provider-meter.ts:13-19`). Answers
  are ordered by when they were asked for (`provider-meter.ts:258`), and a check asked for after the
  report may have read the ledger before the report was written: its answer has the last word, and
  the person at the ceiling is not blocked until the next refresh.
* `CutOff` (MCChatTurn): a message queued behind a reaper's cancel is said to resolve terminated
  (`orchestrator.ts:2963-2968`); the draining runner's `complete` carries no request id and settles it
  instead (`orchestrator.ts:4485`), with neither a reply nor an error.
* `GraceIsWhole` (MCDecisions): for the same reason as the twins, the grace period of an irreversible
  call is shorter than the undo window by as long as those awaits took.
* `WindowHasClosed` (MCDecisions): the claim of due replays asks its UPDATE only for a schedule, so a
  row undone and approved again after the SELECT is claimed inside its new window.
* `RecheckClosesGap` (MCSessionInbox): a second claim of a session on a host does not wait for the
  first one's LISTEN, so its forced re-check can come too early and another replica's notification is
  lost.
* `ReconnectHears` (MCSessionInbox): what another replica notifies during an outage is not heard, and
  parked claims are not looked at again after the reconnect; they wait for their timer.
* `RefreshFiresOnce` (MCTokenRefresh): the row is read before the slot is looked at, so a read that
  finds the slot just emptied refreshes with the spent token and marks the sign-in as expired, where
  `credentials/src/plugin.ts:685-687` says the refresh fires at most once. `MarkHeals` says what is
  left: a later read that works clears the mark.
* `OneSandbox` (MCChatTurn): two messages posted before the first one's sandbox has answered open one
  each, where `orchestrator.ts:2726` says one per conversation at a time.
* `OneAtATime` (MCTaskRuns, two hosts): a run is accepted and bound, its host stalls through the
  lease, recovery finds a bound run whose conversation has no session and closes it
  (`repeat-runtime.ts:23`, which fences nothing), a second check-in starts, and the first host then
  invokes its agent. `docs/plans/2026-10-20-agent-tasks-design.md` says "One leased dispatch per task
  enforces serialization across hosts and restarts."

## What is not modelled

* *No control a state model would add to:* model calls, parsing, encryption, sockets, files, the web
  application, request handlers over another component's services, rows that are read and replaced by
  one statement. The SDKs the runners embed are not in the repository.
* *Within the modelled subsystems:* what each section above lists under simplifications; further, a
  routine tool's own consent (`routine-authorization.ts`), the deletion of an agent's decisions and
  sessions, session creation and tokens, shutdown of the inbox, the start of a sign-in.
* *Whole components with logic of their own:* `disk-quota`, the pending queue of
  `memory`, the sweep of stray pods, the verdicts of `tool-policy`.
* *Compositions:* `Decisions` takes "is the session warm" as an answer that may be yes or no, and
  `ChatTurn` has its own, simpler inbox, of which `SessionInbox`'s mailbox is the specification;
  neither is instantiated with the other.

Hazards no property covers are in `PROJECT.json` with the reason. Only a small share of the source is
mapped: most of the repository is the web application, wire contracts, rendering and request handling.

## What remains

1. `RoutineAuthority`: the consent of routine tools, extending `DecisionRows`.
2. Liveness of a chat turn (every invoke ends, an exited runner's proxy session closes) and its
   composition with the mailbox.
3. `SandboxPods`: opening a pod against the sweep of strays; `HookBus` as an abstract bounded call.
