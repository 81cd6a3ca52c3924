------------------------------ MODULE ChatTurn ------------------------------
(***************************************************************************)
(* A turn's way through the host: the POST that binds it to its            *)
(* conversation (packages/channel-web), then agent:invoke of               *)
(* packages/chat-orchestrator, which routes the message into the           *)
(* conversation's warm session, or retires that session, or opens a fresh  *)
(* one; and agent:interrupt, beside it.  The host keeps sandboxes warm.    *)
(***************************************************************************)
EXTENDS ChatSession

Entry == [what : {"message", "stop", "cancel"}, of : None]

TypeOK ==
    /\ turn \in [Turn -> [at : InvokeAt \union {"new", "posting", "ended"}, on : Turn]]
    /\ waiter \in [Turn -> {"none", "open", "complete", "terminated"}]
    /\ \A s \in Turn : Range(order[s]) \subseteq Turn /\ Range(inbox[s]) \subseteq Entry
    /\ conv \in [session : None, req : None]
    /\ row \in [Turn -> {"none", "live", "ended"}]
    /\ \A s \in Turn : runner[s] \in
           [up : {"none", "up", "leaving", "gone", "ended", "told"}, active : BOOLEAN,
            work : {"no", "yes", "closing"}, tag : None, parked : None,
            folded : SUBSET Turn, queue : {runner[s].queue}, sealed : {"no", "cancel", "floor"}]
    /\ \A s \in Turn : Range(runner[s].queue) \subseteq Turn
    /\ warm \in [Turn -> {"no", "quiet", "armed", "grace"}]
    /\ cancelled \subseteq Turn /\ proxy \subseteq Turn
    /\ heard \in [Turn -> {"nothing", "reply", "error"}]
    /\ stop \in [at : {"idle", "read", "probed", "done"}, req : None, session : None, alive : BOOLEAN]
    /\ stopRequested \subseteq Turn /\ asked \subseteq Turn
    /\ faults \in 0..MaxFaults

NoStop == [at |-> "idle", req |-> Null, session |-> Null, alive |-> FALSE]

Init ==
    /\ turn = [t \in Turn |-> [at |-> "new", on |-> t]]
    /\ waiter = [t \in Turn |-> "none"]
    /\ order = [s \in Turn |-> <<>>]
    /\ conv = [session |-> Null, req |-> Null]
    /\ row = [s \in Turn |-> "none"]
    /\ inbox = [s \in Turn |-> <<>>]
    /\ runner = [s \in Turn |-> Off]
    /\ warm = [s \in Turn |-> "no"]
    /\ cancelled = {} /\ proxy = {}
    /\ heard = [t \in Turn |-> "nothing"]
    /\ stop = NoStop
    /\ stopRequested = {} /\ asked = {}
    /\ faults = 0

On(t) == turn[t].on
Moves(t, pc, s) == turn' = [turn EXCEPT ![t] = [at |-> pc, on |-> s]]
Binds(t, s) == conv' = [session |-> s, req |-> t]
Register(t, s) ==
    /\ waiter' = [waiter EXCEPT ![t] = "open"]
    /\ order' = [order EXCEPT ![s] = Append(order[s], t)]
Others == <<inbox, cancelled, stop, asked>>

\* The invoke returns; whatever Stop it was still owed is forgotten with it.
Ends(t) ==
    /\ Moves(t, "ended", t)
    /\ stopRequested' = stopRequested \ {t}
    /\ asked' = asked \ {t}

-----------------------------------------------------------------------------
(* POST /api/chat/messages.                                                 *)

\* The route reads which session the conversation has, then binds the reqId to
\* that one or to a placeholder, the id of the session it would open.
Post(t) ==
    /\ At(t, "new")
    /\ Moves(t, "posting", IF conv.session = Null THEN t ELSE conv.session)
    /\ UNCHANGED <<waiter, order, conv, row, runner, warm, proxy, heard, stopRequested, faults, Others>>

PostBinds(t) ==
    /\ At(t, "posting")
    /\ Binds(t, On(t))
    /\ Moves(t, "invoked", t)
    /\ UNCHANGED <<waiter, order, row, runner, warm, proxy, heard, stopRequested, faults, Others>>

\* The bind did not land (503), a gate refused the turn, the proxy did not open.
Refuse(t) ==
    /\ turn[t].at \in {"posting", "invoked", "open"} /\ faults < MaxFaults
    /\ Hears({t}, "error")
    /\ Ends(t)
    /\ faults' = faults + 1
    /\ UNCHANGED <<waiter, order, conv, row, inbox, runner, warm, cancelled, proxy, stop>>

-----------------------------------------------------------------------------
(* Routing: into the conversation's session, or to a fresh one.             *)

Lookup(t) ==
    /\ At(t, "invoked")
    /\ IF conv.session = Null THEN Moves(t, "open", t) ELSE Moves(t, "probe", conv.session)
    /\ UNCHANGED <<waiter, order, conv, row, runner, warm, proxy, heard, stopRequested, faults, Others>>

\* Any error while routing is logged, and the turn gets a fresh session.
LookupFails(t) ==
    /\ turn[t].at \in {"invoked", "probe", "retire"} /\ faults < MaxFaults
    /\ Moves(t, "open", t)
    /\ faults' = faults + 1
    /\ UNCHANGED <<waiter, order, conv, row, runner, warm, proxy, heard, stopRequested, Others>>

\* session:is-alive.  A session this host does not keep warm is retired; so is,
\* for reasons the model leaves open (its skills, its prompt, its connectors),
\* another one.
Probe(t) ==
    /\ At(t, "probe")
    /\ IF row[On(t)] # "live" THEN Moves(t, "open", t)
       ELSE \/ Goes(t, "retire")
            \/ warm[On(t)] # "no" /\ Goes(t, "refresh")
    /\ UNCHANGED <<waiter, order, conv, row, runner, warm, proxy, heard, stopRequested, faults, Others>>

\* Its credentials are re-resolved: the session is retired if that fails, else
\* the turn is routed into it and its reap timer is cleared.
Refresh(t) ==
    /\ At(t, "refresh")
    /\ \/ Goes(t, "retire") /\ UNCHANGED warm
       \/ /\ Goes(t, "bind")
          /\ warm' = IF warm[On(t)] = "no" THEN warm ELSE [warm EXCEPT ![On(t)] = "quiet"]
    /\ UNCHANGED <<waiter, order, conv, row, runner, proxy, heard, stopRequested, faults, Others>>

\* Retiring: bind the conversation to the session to be, close the old one's
\* proxy session, end it and let everybody know.
Retire(t) ==
    /\ At(t, "retire")
    /\ Binds(t, t)
    /\ Goes(t, "close")
    /\ UNCHANGED <<waiter, order, row, runner, warm, proxy, heard, stopRequested, faults, Others>>

CloseOld(t) ==
    /\ At(t, "close")
    /\ proxy' = proxy \ {On(t)}
    /\ Goes(t, "end")
    /\ UNCHANGED <<waiter, order, conv, row, runner, warm, heard, stopRequested, faults, Others>>

EndOld(t) ==
    /\ At(t, "end")
    /\ EndSession(On(t))
    /\ Goes(t, "tell")
    /\ UNCHANGED <<waiter, order, conv, runner, warm, cancelled, proxy, heard, stopVars, faults>>

EndOldFails(t) ==
    /\ At(t, "end") /\ faults < MaxFaults
    /\ Moves(t, "open", t)
    /\ faults' = faults + 1
    /\ UNCHANGED <<waiter, order, conv, row, runner, warm, proxy, heard, stopRequested, Others>>

TellOld(t) ==
    /\ At(t, "tell")
    /\ Announce(On(t))
    /\ Moves(t, "open", t)
    /\ UNCHANGED <<waiter, order, row, runner, warm, proxy, stopRequested, faults, Others>>

-----------------------------------------------------------------------------
(* A fresh session.                                                         *)

OpenProxy(t) ==
    /\ At(t, "open")
    /\ proxy' = proxy \union {t}
    /\ Register(t, t)
    /\ Goes(t, "spawn")
    /\ UNCHANGED <<conv, row, runner, warm, heard, stopRequested, faults, Others>>

\* sandbox:open-session writes the row and starts the runner ...
Spawn(t) ==
    /\ At(t, "spawn")
    /\ row' = [row EXCEPT ![t] = "live"]
    /\ Does(t, [Off EXCEPT !.up = "up"])
    /\ Goes(t, "opening")
    /\ UNCHANGED <<waiter, order, conv, warm, proxy, heard, stopRequested, faults, Others>>

\* ... and answers: the session is warm, and its runner's exit is watched.
Opened(t) ==
    /\ At(t, "opening")
    /\ warm' = [warm EXCEPT ![t] = "quiet"]
    /\ Goes(t, "bind")
    /\ UNCHANGED <<waiter, order, conv, row, runner, proxy, heard, stopRequested, faults, Others>>

\* ... or fails: the session is ended, the proxy session closed.
OpenFails(t) ==
    /\ turn[t].at \in {"spawn", "opening"} /\ faults < MaxFaults
    /\ Unregister({t})
    /\ IF row[t] = "live" THEN EndSession(t) ELSE UNCHANGED boxVars
    /\ conv' = IF conv.session = t THEN [session |-> Null, req |-> Null] ELSE conv
    /\ Does(t, [Off EXCEPT !.up = "told"])
    /\ proxy' = proxy \ {t}
    /\ Hears({t}, "error")
    /\ Ends(t)
    /\ faults' = faults + 1
    /\ UNCHANGED <<waiter, warm, cancelled, stop>>

-----------------------------------------------------------------------------
(* The message, on either way.                                              *)

\* The conversation is bound (or that failed, which is logged); a routed turn
\* registers its waiter.
Bind(t) ==
    /\ At(t, "bind")
    /\ \/ Binds(t, On(t)) /\ UNCHANGED faults
       \/ faults < MaxFaults /\ faults' = faults + 1 /\ UNCHANGED conv
    /\ IF On(t) = t THEN UNCHANGED <<waiter, order>> ELSE Register(t, On(t))
    /\ Goes(t, "queue")
    /\ UNCHANGED <<row, runner, warm, proxy, heard, stopRequested, Others>>

\* session:queue-work: the message is in the inbox before the caller knows.
Queue(t) ==
    /\ At(t, "queue") /\ row[On(t)] = "live"
    /\ Put(On(t), "message", t)
    /\ Goes(t, "queued")
    /\ UNCHANGED <<waiter, order, conv, row, runner, warm, cancelled, proxy, heard,
                   stopVars, faults>>

\* It is rejected: the session has ended, or the call failed.
QueueFails(t) ==
    /\ At(t, "queue")
    /\ \/ row[On(t)] = "ended" /\ UNCHANGED faults
       \/ faults < MaxFaults /\ faults' = faults + 1
    /\ Unregister({t})
    /\ IF On(t) = t /\ runner[t].up \in {"up", "leaving"} THEN Exits(t) ELSE UNCHANGED runner
    /\ Hears({t}, "error")
    /\ Ends(t)
    /\ UNCHANGED <<waiter, conv, row, inbox, warm, cancelled, proxy, stop>>

\* An invoke starts to wait for its deferred, which may be settled already.
Awaits(t) ==
    IF waiter[t] = "open" THEN Goes(t, "await") /\ UNCHANGED order
    ELSE turn' = [turn EXCEPT ![t] = Over(t, waiter[t])] /\ Unregister({t})

\* Mutant: a Stop that waits for the message is not looked at.
AfterQueuedDeaf(t) ==
    /\ At(t, "queued")
    /\ stopRequested' = stopRequested \ {t}
    /\ Awaits(t)
    /\ UNCHANGED <<waiter, conv, row, runner, warm, proxy, heard, faults, Others>>

\* afterUserMessageQueued: no longer pending; a Stop is owed or it is not.
AfterQueued(t) ==
    /\ At(t, "queued")
    /\ stopRequested' = stopRequested \ {t}
    /\ IF t \in stopRequested THEN Goes(t, "stop") /\ UNCHANGED order ELSE Awaits(t)
    /\ UNCHANGED <<waiter, conv, row, runner, warm, proxy, heard, faults, Others>>

\* The interrupt is queued behind the message (if that fails, it is logged).
QueueStop(t) ==
    /\ At(t, "stop")
    /\ IF row[On(t)] = "live" THEN Put(On(t), "stop", t) ELSE UNCHANGED inbox
    /\ asked' = asked \ {t}
    /\ Awaits(t)
    /\ UNCHANGED <<waiter, conv, row, runner, warm, cancelled, proxy, heard, stop,
                   stopRequested, faults>>

-----------------------------------------------------------------------------
(* Ways a wait ends that no event of the runner brought about.              *)

\* The chat timeout.
Timeout(t) ==
    /\ At(t, "await")
    /\ Settle({t}, "terminated")
    /\ Hears({t}, "error")
    /\ UNCHANGED <<conv, row, runner, warm, proxy, stopRequested, faults, Others>>

\* An invoke that opened its session watches the runner's exit.
ExitSeen(t) ==
    /\ At(t, "await") /\ On(t) = t /\ Exited(t)
    /\ Settle({t}, "terminated")
    /\ Hears({t}, "error")
    /\ UNCHANGED <<conv, row, runner, warm, proxy, stopRequested, faults, Others>>

Kill(t) ==
    /\ At(t, "kill")
    /\ IF runner[t].up \in {"up", "leaving"} THEN Exits(t) ELSE UNCHANGED runner
    /\ Ends(t)
    /\ UNCHANGED <<waiter, order, conv, row, inbox, warm, cancelled, proxy, heard, stop, faults>>

-----------------------------------------------------------------------------
(* agent:interrupt.                                                         *)

StopReads ==
    /\ stop.at = "idle" /\ conv.req # Null
    /\ stop' = [at |-> "read", req |-> conv.req, session |-> conv.session, alive |-> FALSE]
    /\ UNCHANGED <<turn, waiter, order, conv, boxVars, runner, warm, cancelled, proxy, heard,
                   stopRequested, asked, faults>>

StopProbes ==
    /\ stop.at = "read"
    /\ stop' = [at |-> "probed", req |-> stop.req, session |-> stop.session,
                alive |-> stop.session # Null /\ row[stop.session] = "live"]
    /\ UNCHANGED <<turn, waiter, order, conv, boxVars, runner, warm, cancelled, proxy, heard,
                   stopRequested, asked, faults>>

\* The turn's message is not queued yet: the Stop waits for it.  It is: the
\* interrupt goes to the session that was read.
StopActs ==
    /\ stop.at = "probed"
    /\ stop' = [at |-> "done", req |-> Null, session |-> Null, alive |-> FALSE]
    /\ IF Pending(stop.req)
         THEN /\ stopRequested' = stopRequested \union {stop.req}
              /\ asked' = asked \union {stop.req}
              /\ UNCHANGED inbox
         ELSE /\ IF stop.alive /\ row[stop.session] = "live"
                   THEN Put(stop.session, "stop", stop.req) ELSE UNCHANGED inbox
              /\ UNCHANGED <<stopRequested, asked>>
    /\ UNCHANGED <<turn, waiter, order, conv, row, runner, warm, cancelled, proxy, heard, faults>>

-----------------------------------------------------------------------------
Routing(t) ==
    \/ Lookup(t) \/ Probe(t) \/ Refresh(t) \/ Retire(t) \/ CloseOld(t)
    \/ EndOld(t) \/ TellOld(t)
InvokeStep(t) ==
    \/ PostBinds(t) \/ Routing(t) \/ OpenProxy(t) \/ Spawn(t) \/ Opened(t) \/ Bind(t)
    \/ Queue(t) \/ QueueFails(t) \/ AfterQueued(t) \/ QueueStop(t)
    \/ Timeout(t) \/ ExitSeen(t) \/ Kill(t)

Next ==
    \/ \E t \in Turn :
         \/ Post(t) \/ InvokeStep(t)
         \/ Refuse(t) \/ LookupFails(t) \/ EndOldFails(t) \/ OpenFails(t)
         \/ SessionStep(t)
    \/ StopReads \/ StopProbes \/ StopActs

Spec == Init /\ [][Next]_vars

-----------------------------------------------------------------------------
Holds(s, what, t) == [what |-> what, of |-> t] \in Range(inbox[s])

\* A Stop that was accepted while its turn was pending is never lost: it is owed
\* until it is queued, or the turn ends without a message.  No interrupt gets ahead of
\* the message of the turn it is for, where the runner would drop it.
StopFollows ==
    /\ \A t \in asked : t \in stopRequested \/ At(t, "stop")
    /\ \A s, t \in Turn : Holds(s, "stop", t) => ~Pending(t)

\* No abnormal end is silent: a turn that did not complete was shown an error
\* (or its reply came first), and a session's end is shown to every turn whose
\* message it holds and that still waits.
NoSilentEnd ==
    \A t \in Turn :
        /\ At(t, "ended") /\ waiter[t] # "complete" => heard[t] # "nothing"
        /\ At(t, "await") /\ runner[On(t)].up = "told" => heard[t] # "nothing"

\* An open proxy session, and the credentials it substitutes, has somebody who
\* will close it: the invoke that opens the session, or the warm entry.
ProxyHasOwner ==
    \A s \in proxy : warm[s] # "no" \/ turn[s].at \in {"spawn", "opening"}

\* What the comment on the routed path says of a message that is queued behind
\* a reaper's cancel: the runner exits, and its turn resolves terminated.
CutOffIsTerminated ==
    \A s, t \in Turn :
        Holds(s, "message", t) /\ runner[s].up = "leaving" /\ runner[s].sealed = "cancel"
            => waiter[t] # "complete"

\* One sandbox per conversation at a time.
OneSandbox ==
    \A s, u \in Turn : row[s] = "live" /\ row[u] = "live" /\ Up(s) /\ Up(u) => s = u
=============================================================================
