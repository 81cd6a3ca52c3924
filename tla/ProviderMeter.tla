--------------------------- MODULE ProviderMeter ---------------------------
(***************************************************************************)
(* One person's model calls through one host's credential proxy            *)
(* (packages/credential-proxy): the meter that answers at once whether a   *)
(* request may carry the key, and the usage ledger (packages/usage-limits) *)
(* whose verdict it keeps and to which it reports what each call used.     *)
(*                                                                         *)
(* The meter's state of the person is an object that goes when nothing     *)
(* uses it: a new one takes its place, and who held the old one still has  *)
(* it.  A call of the ledger is served one statement at a time.  Code      *)
(* between two awaits is one step.                                         *)
(*                                                                         *)
(* calls holds the ledger calls in the order they were made, which is what *)
(* the code's seq counts; a call is late (its seq is below appliedSeq) once *)
(* the answer to one made after it was applied.                            *)
(***************************************************************************)
EXTENDS Naturals, Sequences, FiniteSets

CONSTANTS
    Session,
    Meter,          \* how many times a session may be opened
    Tunnel,         \* how many tunnels are open at once
    MaxInFlight,    \* maxInFlightPerUser
    MaxOutstanding, \* MAX_OUTSTANDING
    MaxCalls,       \* how many ledger calls may be under way
    Ceiling,        \* the calls that reach twice the daily limit
    Outside,        \* what others may do to the ledger
    Null            \* no session, no meter

ASSUME NullIsNone == Null \notin Session \union Meter
ASSUME Bounds ==
    {MaxInFlight, MaxOutstanding, MaxCalls, Ceiling} \subseteq Nat \ {0}
ASSUME OutsideMoves == Outside \subseteq {"suspended", "fleet", "spend", "window", "outage"}

VARIABLES
    users,          \* the states of the person, each named by the open that made it
    current,        \* the one in the hub's map
    meter,          \* a session's meter: whose it is, the state it holds
    config,         \* the meter the listener finds for a session
    tunnel,         \* a tunnel to a metered host: the requests it awaits answers to
    calls,          \* calls of the ledger
    ledger,
    stood           \* history: reasons to block that stand since the meter was asked for

vars == <<users, current, meter, config, tunnel, calls, ledger, stood>>

\* The order in which a verdict looks for a reason to block.
Reasons == <<"suspended", "daily", "fleet">>
Reason == {Reasons[k] : k \in DOMAIN Reasons}
Writing == 0
Answered == Len(Reasons) + 1

User == [sessions : SUBSET Session, inFlight : 0..MaxInFlight,
         blocked : BOOLEAN, fresh : BOOLEAN, checking : BOOLEAN]
SessionMeter == [session : Session \union {Null}, user : Meter \union {Null}, closed : BOOLEAN]
MeteredTunnel == [meter : Meter \union {Null}, awaits : Seq(BOOLEAN), refused : BOOLEAN]
Call == [user : Meter, kind : {"status", "record"}, at : Writing..Answered,
         for : Meter \union {Null}, late : BOOLEAN, blocked : BOOLEAN]

TypeOK ==
    /\ users \in [Meter -> User]
    /\ current \in Meter \union {Null}
    /\ meter \in [Meter -> SessionMeter]
    /\ config \in [Session -> Meter \union {Null}]
    /\ tunnel \in [Tunnel -> MeteredTunnel]
    /\ \A t \in Tunnel : Len(tunnel[t].awaits) <= MaxOutstanding
    /\ calls \in Seq(Call)
    /\ ledger \in [over : SUBSET {"suspended", "fleet"}, spend : 0..Ceiling, down : BOOLEAN]
    /\ stood \in [Meter -> SUBSET Reason]

NewUser == [sessions |-> {}, inFlight |-> 0, blocked |-> FALSE, fresh |-> FALSE, checking |-> FALSE]
NoMeter == [session |-> Null, user |-> Null, closed |-> FALSE]
NoTunnel == [meter |-> Null, awaits |-> <<>>, refused |-> FALSE]

Init ==
    /\ users = [n \in Meter |-> NewUser] /\ current = Null
    /\ meter = [m \in Meter |-> NoMeter]
    /\ config = [s \in Session |-> Null]
    /\ tunnel = [t \in Tunnel |-> NoTunnel]
    /\ calls = <<>>
    /\ ledger = [over |-> {}, spend |-> 0, down |-> FALSE]
    /\ stood = [m \in Meter |-> {}]

Standing == ledger.over \union (IF ledger.spend = Ceiling THEN {"daily"} ELSE {})

\* forSession is awaiting its check, or open-session has yet to publish the meter.
Opening(m) == meter[m].session # Null /\ ~meter[m].closed /\ config[meter[m].session] # m
Open(m) == meter[m].session # Null /\ config[meter[m].session] = m
Blocked(m) == meter[m].user # Null /\ users[meter[m].user].blocked

\* Mutant: a person's state goes with their last session, calls in flight or not.
IdleButForCalls(u) == u.sessions = {} /\ ~u.checking

\* maybeEvict's condition.
Idle(u) == u.sessions = {} /\ u.inFlight = 0 /\ ~u.checking
\* The hub's map after maybeEvict of user n, whose new state is u.
Evict(n, u) == IF current = n /\ Idle(u) THEN Null ELSE current

StatusCall(n, m) == [user |-> n, kind |-> "status", at |-> 1, for |-> m,
                     late |-> FALSE, blocked |-> FALSE]
RecordCall(n) == [user |-> n, kind |-> "record", at |-> Writing, for |-> Null,
                  late |-> FALSE, blocked |-> FALSE]
Issue(new) == Len(calls) + Len(new) <= MaxCalls /\ calls' = calls \o new

-----------------------------------------------------------------------------
\* A person's state when a session's meter ends, and when one is asked for.
Without(u, s) == [u EXCEPT !.sessions = @ \ {s}]
Joined(u, s) == [u EXCEPT !.sessions = @ \union {s}, !.checking = TRUE]

\* proxy:open-session up to the await: a re-open ends the old meter, the hub finds
\* or makes the person's state, and asks the ledger.
OpenSession(s, m) ==
    /\ meter[m] = NoMeter
    /\ \A x \in Meter : meter[x].session = s => ~Opening(x)
    /\ LET old == config[s]
           was == IF old = Null THEN users
                  ELSE [users EXCEPT ![meter[old].user] = Without(@, s)]
           left == IF old = Null THEN current
                   ELSE Evict(meter[old].user, was[meter[old].user])
           n == IF left = Null THEN m ELSE left
       IN  /\ users' = [was EXCEPT ![n] = Joined(@, s)]
           /\ current' = n
           /\ meter' = [x \in Meter |->
                CASE x = m -> [session |-> s, user |-> n, closed |-> FALSE]
                  [] x = old -> [meter[x] EXCEPT !.closed = TRUE]
                  [] OTHER -> meter[x]]
           /\ stood' = [x \in Meter |->
                CASE x = m -> Standing [] x = old -> {} [] OTHER -> stood[x]]
           /\ Issue(<<StatusCall(n, m)>>)
    /\ UNCHANGED <<config, tunnel, ledger>>

\* Its check has been answered: the listener finds the meter.
SessionOpened(m) ==
    /\ Opening(m)
    /\ \A i \in DOMAIN calls : calls[i].for # m
    /\ config' = [config EXCEPT ![meter[m].session] = m]
    /\ UNCHANGED <<users, current, meter, tunnel, calls, ledger, stood>>

\* proxy:close-session, once its open has returned.
CloseSession(s) ==
    /\ config[s] # Null
    /\ \A x \in Meter : meter[x].session = s => ~Opening(x)
    /\ LET m == config[s]
           u == Without(users[meter[m].user], s)
       IN  /\ users' = [users EXCEPT ![meter[m].user] = u]
           /\ current' = Evict(meter[m].user, u)
           /\ meter' = [meter EXCEPT ![m].closed = TRUE]
           /\ stood' = [stood EXCEPT ![m] = {}]
    /\ config' = [config EXCEPT ![s] = Null]
    /\ UNCHANGED <<tunnel, calls, ledger>>

-----------------------------------------------------------------------------
\* CONNECT to a metered host; it may outlive the session.
Connect(t, s) ==
    /\ tunnel[t] = NoTunnel /\ config[s] # Null
    /\ tunnel' = [tunnel EXCEPT ![t].meter = config[s]]
    /\ UNCHANGED <<users, current, meter, config, calls, ledger, stood>>

Live(t) == tunnel[t].meter # Null /\ ~tunnel[t].refused
HolderOf(t) == meter[tunnel[t].meter].user

\* A request head that is no model call is let through, to keep the answers in step.
AskPlain(t) ==
    /\ Live(t) /\ Len(tunnel[t].awaits) < MaxOutstanding
    /\ tunnel' = [tunnel EXCEPT ![t].awaits = Append(@, FALSE)]
    /\ UNCHANGED <<users, current, meter, config, calls, ledger, stood>>

\* refreshIfStale asks the ledger in the background.
Stale(u) == ~u.checking /\ ~u.fresh

Admits(u) == ~u.blocked /\ u.inFlight < MaxInFlight

\* A person's state once it has been asked, perhaps for a check, perhaps for a slot.
Consulted(u, asks, taken) == [u EXCEPT !.checking = @ \/ asks, !.inFlight = @ + taken]

\* onRequestHead of a model call: admit, and the refusal that ends the tunnel.
Ask(t) ==
    /\ Live(t) /\ Len(tunnel[t].awaits) < MaxOutstanding
    /\ LET n == HolderOf(t)
           open == ~meter[tunnel[t].meter].closed
           asks == open /\ Stale(users[n])
       IN  /\ Issue(IF asks THEN <<StatusCall(n, Null)>> ELSE <<>>)
           /\ IF open /\ Admits(users[n])
                THEN /\ users' = [users EXCEPT ![n] = Consulted(@, asks, 1)]
                     /\ tunnel' = [tunnel EXCEPT ![t].awaits = Append(@, TRUE)]
                ELSE /\ users' = [users EXCEPT ![n] = Consulted(@, asks, 0)]
                     /\ tunnel' = [tunnel EXCEPT ![t].refused = TRUE]
    /\ UNCHANGED <<current, meter, config, ledger, stood>>

\* A client that pipelines without reading is refused before the meter is asked.
AskTooMuch(t) ==
    /\ Live(t) /\ Len(tunnel[t].awaits) = MaxOutstanding
    /\ tunnel' = [tunnel EXCEPT ![t].refused = TRUE]
    /\ UNCHANGED <<users, current, meter, config, calls, ledger, stood>>

\* The positions of a sequence that hold.
Marks(b) == {i \in DOMAIN b : b[i]}
Records(n, k) == [i \in 1..k |-> RecordCall(n)]
Less(i, k) == IF i > k THEN i - k ELSE 0

\* Mutant: only a call that costs nothing gives its slot back.
SettleHeld(n, billable) ==
    LET k == Len(billable)
        b == Cardinality(Marks(billable))
        u == [users[n] EXCEPT !.inFlight = Less(@, k - b)]
    IN  /\ users' = [users EXCEPT ![n] = u]
        /\ current' = IF k > 0 /\ ~billable[k] THEN Evict(n, u) ELSE current
        /\ Issue(Records(n, b))

\* settle of the admitted requests, one after the other: the slots are released, what
\* is billable is recorded, and what is not looks whether the state may go.
Settle(n, billable) ==
    LET k == Len(billable)
        u == [users[n] EXCEPT !.inFlight = Less(@, k)]
    IN  /\ users' = [users EXCEPT ![n] = u]
        /\ current' = IF k > 0 /\ ~billable[k] THEN Evict(n, u) ELSE current
        /\ Issue(Records(n, Cardinality(Marks(billable))))

\* The response to the oldest request; it may be an error or a free call.
Respond(t, billable) ==
    /\ tunnel[t].awaits # <<>>
    /\ tunnel' = [tunnel EXCEPT ![t].awaits = Tail(@)]
    /\ IF Head(tunnel[t].awaits) THEN Settle(HolderOf(t), <<billable>>)
                                 ELSE UNCHANGED <<users, current, calls>>
    /\ UNCHANGED <<meter, config, ledger, stood>>

\* The tunnel is over: every admitted request without an answer is settled.
End(t) ==
    /\ tunnel[t].meter # Null
    /\ \E billable \in [1..Cardinality(Marks(tunnel[t].awaits)) -> BOOLEAN] :
         Settle(HolderOf(t), billable)
    /\ tunnel' = [tunnel EXCEPT ![t] = NoTunnel]
    /\ UNCHANGED <<meter, config, ledger, stood>>

-----------------------------------------------------------------------------
Advanced(c, at, blocked) == [c EXCEPT !.at = at, !.blocked = blocked]

\* providerRecord writes before it reads the verdict.
Write(i) ==
    /\ calls[i].at = Writing /\ ~ledger.down
    /\ ledger' = [ledger EXCEPT !.spend = IF @ < Ceiling THEN @ + 1 ELSE @]
    /\ calls' = [calls EXCEPT ![i] = Advanced(@, 1, FALSE)]
    /\ UNCHANGED <<users, current, meter, config, tunnel, stood>>

\* providerStatus reads the suspension, then the person's spend, then the fleet's.
Read(i) ==
    LET k == calls[i].at IN
    /\ k \in DOMAIN Reasons /\ ~ledger.down
    /\ calls' = [calls EXCEPT ![i] = IF Reasons[k] \in Standing
                                      THEN Advanced(@, Answered, TRUE)
                                      ELSE Advanced(@, k + 1, FALSE)]
    /\ UNCHANGED <<users, current, meter, config, tunnel, ledger, stood>>

\* Whatever fails, or is not answered within the bus's time limit, is answered as a
\* block.
Fail(i) ==
    /\ calls[i].at < Answered /\ ledger.down
    /\ calls' = [calls EXCEPT ![i] = Advanced(@, Answered, TRUE)]
    /\ UNCHANGED <<users, current, meter, config, tunnel, ledger, stood>>

\* Mutant: every answer is applied, whenever it was asked for.
AppliedAlways(u, c) ==
    [u EXCEPT !.blocked = c.blocked, !.fresh = TRUE, !.checking = @ /\ c.kind # "status"]

\* What an answer to call c makes of a person's state: apply, then the finally block.
Applied(u, c) ==
    [u EXCEPT !.blocked = IF c.late THEN @ ELSE c.blocked,
              !.fresh = @ \/ ~c.late,
              !.checking = @ /\ c.kind # "status"]

Passed(c, n) == [c EXCEPT !.late = @ \/ c.user = n]

\* An answer lands; those to the calls made before it are late from now on.
Land(i) ==
    LET c == calls[i]
        u == Applied(users[c.user], c)
    IN  /\ c.at = Answered
        /\ users' = [users EXCEPT ![c.user] = u]
        /\ current' = Evict(c.user, u)
        /\ calls' = [j \in 1..(Len(calls) - 1) |->
             IF j < i THEN Passed(calls[j], c.user) ELSE calls[j + 1]]
    /\ UNCHANGED <<meter, config, tunnel, ledger, stood>>

\* REFRESH_MS, or PROBE_MS while blocked, have passed.
Age(n) ==
    /\ users[n].fresh
    /\ users' = [users EXCEPT ![n].fresh = FALSE]
    /\ UNCHANGED <<current, meter, config, tunnel, calls, ledger, stood>>

-----------------------------------------------------------------------------
\* Others: an admin, the rest of the fleet, the runner's own report or another
\* host, the window that rolls on, the database.
Moved(l) ==
    /\ ledger' = l
    /\ stood' = [m \in Meter |-> stood[m] \intersect Standing']
    /\ UNCHANGED <<users, current, meter, config, tunnel, calls>>

\* What each of them may make of the ledger.
Turned(what) ==
    CASE what \in {"suspended", "fleet"} ->
           [ledger EXCEPT !.over = IF what \in @ THEN @ \ {what} ELSE @ \union {what}]
      [] what = "spend" -> [ledger EXCEPT !.spend = IF @ < Ceiling THEN @ + 1 ELSE @]
      [] what = "window" -> [ledger EXCEPT !.spend = 0]
      [] what = "outage" -> [ledger EXCEPT !.down = ~@]
Elsewhere == \E what \in Outside : Turned(what) # ledger /\ Moved(Turned(what))

\* The oldest call of the ledger is not held up for ever by those after it.
Serve(i) == i \in DOMAIN calls /\ (Write(i) \/ Read(i) \/ Fail(i) \/ Land(i))

Next ==
    \/ \E s \in Session, m \in Meter : OpenSession(s, m)
    \/ \E m \in Meter : SessionOpened(m)
    \/ \E s \in Session : CloseSession(s)
    \/ \E t \in Tunnel :
         \/ \E s \in Session : Connect(t, s)
         \/ AskPlain(t) \/ Ask(t) \/ AskTooMuch(t)
         \/ \E billable \in BOOLEAN : Respond(t, billable)
         \/ End(t)
    \/ \E i \in DOMAIN calls : Serve(i)
    \/ \E n \in Meter : Age(n)
    \/ Elsewhere

Spec == Init /\ [][Next]_vars

Fairness ==
    /\ WF_vars(Serve(1))
    /\ \A n \in Meter : WF_vars(Age(n))
    /\ \A m \in Meter : WF_vars(SessionOpened(m))
FairSpec == Spec /\ Fairness

-----------------------------------------------------------------------------
\* The model calls that are in flight, of one state of the person or of all.
Admitted == {a \in Tunnel \X (1..MaxOutstanding) : a[2] \in Marks(tunnel[a[1]].awaits)}
AdmittedBy(n) == {a \in Admitted : HolderOf(a[1]) = n}

\* Every slot of a state is a request some tunnel still awaits the answer of, and the
\* other way round, whatever sessions and states have gone since it was admitted.
SlotsAreCalls ==
    \A n \in Meter : users[n].inFlight = Cardinality(AdmittedBy(n))

\* A person has at most MaxInFlight calls in flight, over all their sessions, those
\* that have closed and those opened again (provider-meter.ts: "many sessions
\* multiply nothing").
CapHolds == Cardinality(Admitted) <= MaxInFlight

\* Who was blocked when the session was asked for and has been since starts blocked
\* and stays so: no answer from before the open lifts it.
StartsBlocked ==
    \A m \in Meter : Open(m) /\ stood[m] # {} => Blocked(m)

Asking(m) == \E t \in Tunnel : tunnel[t].meter = m /\ Ask(t)

\* A lifted block clears, and a failed check heals, for whoever keeps asking.
BlockClears ==
    \A m \in Meter :
        <>[](Open(m) /\ Standing = {} /\ ~ledger.down) /\ []<><<Asking(m)>>_vars
            => <>[]~Blocked(m)

\* A reason that stands reaches whoever keeps asking.  (One reason: a verdict reads
\* them one after the other, and two that take turns can each be missed.)
BlockArrives ==
    \A m \in Meter, r \in Reason :
        <>[](Open(m) /\ r \in Standing) /\ []<><<Asking(m)>>_vars
            => <>[]Blocked(m)

\* What the header of provider-meter.ts says sets the block: once every call has been
\* charged and answered, a person at the ceiling is blocked.
SpendBlocks ==
    calls = <<>> /\ ledger.spend = Ceiling /\ current # Null => users[current].blocked
=============================================================================
