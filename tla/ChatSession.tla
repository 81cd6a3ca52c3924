---------------------------- MODULE ChatSession ----------------------------
(***************************************************************************)
(* The sandbox sessions of one conversation: the session row and its inbox *)
(* (packages/session-postgres), the runner in the sandbox                  *)
(* (packages/agent-runner-core with the Claude loop) and what the host     *)
(* does with the runner's events (packages/chat-orchestrator,              *)
(* packages/conversations, packages/channel-web).                          *)
(*                                                                         *)
(* A turn is one agent:invoke.  A session is named by the turn that opens  *)
(* it.  An event of the runner, one service call, or the code between two  *)
(* awaits is one step.                                                     *)
(***************************************************************************)
EXTENDS Naturals, Sequences, FiniteSets

CONSTANTS
    Turn,           \* agent:invoke calls, by their reqId
    Null,           \* no turn, no session
    MaxFaults       \* crashes, failed calls

ASSUME NullIsNoTurn == Null \notin Turn
ASSUME FaultBound == MaxFaults \in Nat

VARIABLES
    turn,           \* where an invoke is, and the session it is about
    waiter,         \* its deferred outcome
    order,          \* a session's registered waiters, oldest first
    conv,           \* the conversation row: active session and reqId
    row,            \* the session row
    inbox,          \* what the runner has yet to read of the session's inbox
    runner,         \* the runner
    warm,           \* the host's entry for a warm session, and its reap timer
    cancelled,      \* sessions a reaper has queued a cancel for
    proxy,          \* open credential-proxy sessions
    heard,          \* what the client's stream of a turn has been closed with
    stop,           \* a call of agent:interrupt
    stopRequested,  \* pending turns a Stop waits for
    asked,          \* Stops accepted for pending turns, still to be queued
    faults

vars == <<turn, waiter, order, conv, row, inbox, runner, warm, cancelled, proxy,
          heard, stop, stopRequested, asked, faults>>
boxVars == <<row, inbox>>
stopVars == <<stop, stopRequested, asked>>

None == Turn \union {Null}
Off == [up |-> "none", active |-> FALSE, work |-> "no", tag |-> Null, parked |-> Null,
        folded |-> {}, queue |-> <<>>, sealed |-> "no"]
Up(s) == runner[s].up = "up"
Exited(s) == runner[s].up \in {"gone", "ended", "told"}
Does(s, new) == runner' = [runner EXCEPT ![s] = new]
Exits(s) == Does(s, [Off EXCEPT !.up = "gone"])

InvokeAt == {"invoked", "probe", "refresh", "retire", "close", "end", "tell", "open",
             "spawn", "opening", "bind", "queue", "queued", "stop", "await", "kill"}

\* An invoke in flight whose message has not been queued (pendingMessageReqIds).
Pending(t) == turn[t].at \in InvokeAt \ {"stop", "await", "kill"}

\* A message is on its way into the session.  That takes less than the idle
\* floor of a runner or the idle window of a warm session.
Entering(s) == \E t \in Turn : turn[t].on = s /\ turn[t].at \in {"opening", "bind", "queue"}

At(t, pc) == turn[t].at = pc
Goes(t, pc) == turn' = [turn EXCEPT ![t] = [at |-> pc, on |-> turn[t].on]]
Range(seq) == {seq[i] : i \in 1..Len(seq)}
Registered(t) == t \in Range(order[turn[t].on])
Put(s, what, of) == inbox' = [inbox EXCEPT ![s] = Append(inbox[s], [what |-> what, of |-> of])]

-----------------------------------------------------------------------------
(* The host's side of a turn's end.                                         *)

\* How an invoke whose deferred is settled goes on: one that opened the
\* session leaves it warm only when its turn was completed.
Over(t, outcome) ==
    [at |-> IF outcome = "complete" \/ turn[t].on # t THEN "ended" ELSE "kill", on |-> t]

\* A list of turns without those of T.
Without(q, T) ==
    LET kept[i \in 0..Len(q)] ==
            IF i = 0 THEN <<>>
            ELSE IF q[i] \in T THEN kept[i - 1] ELSE Append(kept[i - 1], q[i])
    IN  kept[Len(q)]

Unregister(T) == order' = [s \in Turn |-> Without(order[s], T)]

\* The deferreds of T are settled; an invoke that awaits its own goes on.
Settle(T, outcome) ==
    LET waiting == {t \in T : At(t, "await")}
    IN  /\ waiter' = [t \in Turn |-> IF t \in T THEN outcome ELSE waiter[t]]
        /\ turn' = [t \in Turn |-> IF t \in waiting THEN Over(t, outcome) ELSE turn[t]]
        /\ Unregister(waiting)

Open(T) == {t \in T : waiter[t] = "open"}

\* resolveWaiterFor: the waiter of that reqId, or the session's oldest one.
Oldest(s) == IF order[s] = <<>> THEN {} ELSE {Head(order[s])}
WaiterFor(t, s) == Open(IF t # Null /\ Registered(t) THEN {t} ELSE Oldest(s))

\* A stream closes on its first reply or error.
Hears(T, what) ==
    heard' = [t \in Turn |-> IF t \in T /\ heard[t] = "nothing" THEN what ELSE heard[t]]

\* chat:turn-end with the turn's reqId and the ones folded into it: the stream
\* and the row's reqId are closed, the waiters settled, the idle timer armed.
TurnEnded(s) ==
    LET tag == runner[s].tag
        named == (runner[s].folded \union {tag}) \ {Null}
    IN  /\ Hears(named, "reply")
        /\ conv' = IF conv.req \in named THEN [session |-> conv.session, req |-> Null] ELSE conv
        /\ Settle(WaiterFor(tag, s) \union Open((named \ {tag}) \intersect Range(order[s])), "complete")
        /\ warm' = IF warm[s] = "no" THEN warm ELSE [warm EXCEPT ![s] = "armed"]

\* chat:end from the runner, whose reqId is the request's own.
ChatEnded(s, outcome) ==
    /\ Settle(Open(Oldest(s)), outcome)
    /\ IF outcome = "terminated" THEN Hears(Open(Oldest(s)), "error") ELSE UNCHANGED heard
    /\ cancelled' = cancelled \ {s}

\* session:terminate flags the row.  Nobody reads the inbox of an ended session.
EndSession(s) ==
    /\ row' = [row EXCEPT ![s] = "ended"]
    /\ inbox' = [inbox EXCEPT ![s] = <<>>]

\* Mutant: the announcement tells the oldest waiting turn only.
AnnounceToOldest(s) ==
    /\ conv' = IF conv.session = s THEN [session |-> Null, req |-> Null] ELSE conv
    /\ Hears(Open(Oldest(s)), "error")

\* The announcement of session:terminate: the row lets go of the session, and
\* turns still waiting on it are shown an error.  Their waiters stay.
Announce(s) ==
    /\ conv' = IF conv.session = s THEN [session |-> Null, req |-> Null] ELSE conv
    /\ Hears(Open(Range(order[s])), "error")

-----------------------------------------------------------------------------
(* The runner.                                                              *)

\* The loop's pull is always pending, so an entry is taken as soon as it is
\* read.  A message claims the turn's reqId, or parks its own while a turn is
\* active; an interrupt is for the model's call; a cancel is the last entry.
Read(s) ==
    /\ Up(s) /\ runner[s].sealed = "no" /\ row[s] = "live" /\ inbox[s] # <<>>
    /\ inbox' = [inbox EXCEPT ![s] = Tail(inbox[s])]
    /\ LET entry == Head(inbox[s])
           me == runner[s]
           taken == [me EXCEPT !.queue = Append(me.queue, entry.of)]
       IN  CASE entry.what = "message" /\ me.active -> Does(s, [taken EXCEPT !.parked = entry.of])
             [] entry.what = "message" /\ ~me.active ->
                    Does(s, [taken EXCEPT !.tag = entry.of, !.active = TRUE])
             [] entry.what = "stop" -> UNCHANGED runner
             [] entry.what = "cancel" -> Does(s, [me EXCEPT !.sealed = "cancel"])
    /\ UNCHANGED <<turn, waiter, order, conv, row, warm, cancelled, proxy, heard,
                   stopVars, faults>>

\* The model takes up a message: a turn starts, or the message is folded in.
Consume(s) ==
    /\ Up(s) /\ runner[s].queue # <<>> /\ runner[s].work # "closing"
    /\ LET me == runner[s]
       IN  Does(s, [me EXCEPT !.work = "yes", !.folded = me.folded \union {Head(me.queue)},
                              !.queue = Tail(me.queue)])
    /\ UNCHANGED <<turn, waiter, order, conv, boxVars, warm, cancelled, proxy, heard,
                   stopVars, faults>>

\* The first chunk of a turn whose message was pulled during the last one.
Chunk(s) ==
    /\ Up(s) /\ runner[s].work = "yes" /\ ~runner[s].active
    /\ Does(s, [runner[s] EXCEPT !.active = TRUE])
    /\ UNCHANGED <<turn, waiter, order, conv, boxVars, warm, cancelled, proxy, heard,
                   stopVars, faults>>

\* A turn that used tools closes with two turn-ends; the first leaves the
\* runner as it is.
EndTool(s) ==
    /\ Up(s) /\ row[s] = "live" /\ runner[s].work = "yes"
    /\ TurnEnded(s)
    /\ Does(s, [runner[s] EXCEPT !.work = "closing"])
    /\ UNCHANGED <<boxVars, cancelled, proxy, stopVars, faults>>

\* The last turn-end; then the parked reqId takes over.
EndTurn(s) ==
    /\ Up(s) /\ row[s] = "live" /\ runner[s].work # "no"
    /\ TurnEnded(s)
    /\ LET me == runner[s]
       IN  Does(s, [me EXCEPT !.work = "no", !.active = FALSE, !.folded = {}, !.parked = Null,
                              !.tag = IF me.parked = Null THEN me.tag ELSE me.parked])
    /\ UNCHANGED <<boxVars, cancelled, proxy, stopVars, faults>>

Resting(s) == Up(s) /\ runner[s].work = "no" /\ runner[s].queue = <<>>

\* Nothing came for the length of the idle floor.
IdleFloor(s) ==
    /\ Up(s) /\ ~runner[s].active /\ runner[s].sealed = "no" /\ inbox[s] = <<>>
    /\ ~Entering(s)
    /\ Does(s, [runner[s] EXCEPT !.sealed = "floor"])
    /\ UNCHANGED <<turn, waiter, order, conv, boxVars, warm, cancelled, proxy, heard,
                   stopVars, faults>>

\* After a cancel the loop drains and the runner reports that it completed.
Drain(s) ==
    /\ Resting(s) /\ runner[s].sealed # "no" /\ row[s] = "live"
    /\ ChatEnded(s, "complete")
    /\ Does(s, [Off EXCEPT !.up = "leaving", !.sealed = runner[s].sealed])
    /\ UNCHANGED <<conv, boxVars, warm, proxy, stopVars, faults>>

\* The loop throws; the runner reports that it was terminated.
LoopFails(s) ==
    /\ Up(s) /\ row[s] = "live" /\ faults < MaxFaults
    /\ ChatEnded(s, "terminated")
    /\ Does(s, [Off EXCEPT !.up = "leaving"])
    /\ faults' = faults + 1
    /\ UNCHANGED <<conv, boxVars, warm, proxy, stopVars>>

\* The process ends: by itself, or because its session is refused.
Leave(s) ==
    /\ runner[s].up = "leaving" \/ (Up(s) /\ row[s] = "ended")
    /\ Exits(s)
    /\ UNCHANGED <<turn, waiter, order, conv, boxVars, warm, cancelled, proxy, heard,
                   stopVars, faults>>

Crash(s) ==
    /\ Up(s) /\ faults < MaxFaults
    /\ Exits(s)
    /\ faults' = faults + 1
    /\ UNCHANGED <<turn, waiter, order, conv, boxVars, warm, cancelled, proxy, heard, stopVars>>

-----------------------------------------------------------------------------
(* What follows an exit: the sandbox ends the session, and the orchestrator *)
(* drops its warm entry and the proxy session that went with it.            *)

ExitEnds(s) ==
    /\ runner[s].up = "gone"
    /\ EndSession(s)
    /\ Does(s, [Off EXCEPT !.up = "ended"])
    /\ UNCHANGED <<turn, waiter, order, conv, warm, cancelled, proxy, heard,
                   stopVars, faults>>

ExitTells(s) ==
    /\ runner[s].up = "ended"
    /\ Announce(s)
    /\ Does(s, [Off EXCEPT !.up = "told"])
    /\ UNCHANGED <<turn, waiter, order, boxVars, warm, cancelled, proxy, stopVars, faults>>

\* Mutant: the proxy session of a runner that has exited stays.
WarmGoneOpen(s) ==
    /\ Exited(s) /\ warm[s] # "no"
    /\ warm' = [warm EXCEPT ![s] = "no"]
    /\ cancelled' = cancelled \ {s}
    /\ UNCHANGED <<turn, waiter, order, conv, boxVars, runner, heard, proxy, stopVars, faults>>

WarmGone(s) ==
    /\ Exited(s) /\ warm[s] # "no"
    /\ warm' = [warm EXCEPT ![s] = "no"]
    /\ cancelled' = cancelled \ {s}
    /\ proxy' = proxy \ {s}
    /\ UNCHANGED <<turn, waiter, order, conv, boxVars, runner, heard, stopVars, faults>>

\* The idle window is over: a cancel is queued, once.  Then the grace period.
IdleTimer(s) ==
    /\ warm[s] = "armed" /\ ~Entering(s)
    /\ warm' = [warm EXCEPT ![s] = "grace"]
    /\ cancelled' = cancelled \union {s}
    /\ IF s \notin cancelled /\ row[s] = "live" THEN Put(s, "cancel", Null) ELSE UNCHANGED inbox
    /\ UNCHANGED <<turn, waiter, order, conv, row, runner, proxy, heard, stopVars, faults>>

GraceTimer(s) ==
    /\ warm[s] = "grace"
    /\ warm' = [warm EXCEPT ![s] = "quiet"]
    /\ IF runner[s].up \in {"up", "leaving"} THEN Exits(s) ELSE UNCHANGED runner
    /\ UNCHANGED <<turn, waiter, order, conv, boxVars, cancelled, proxy, heard, stopVars, faults>>

SessionStep(s) ==
    \/ Read(s) \/ Consume(s) \/ Chunk(s) \/ EndTool(s) \/ EndTurn(s) \/ IdleFloor(s) \/ Drain(s)
    \/ LoopFails(s) \/ Leave(s) \/ Crash(s) \/ ExitEnds(s) \/ ExitTells(s) \/ WarmGone(s)
    \/ IdleTimer(s) \/ GraceTimer(s)
=============================================================================
