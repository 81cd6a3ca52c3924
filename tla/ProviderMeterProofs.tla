------------------------ MODULE ProviderMeterProofs ------------------------
(***************************************************************************)
(* Proofs about ProviderMeter.  Core is inductive by itself and says where *)
(* the slots are: a meter that is open or being opened finds the state in  *)
(* the hub's map (InMap), so only that state takes new calls, and a state  *)
(* that has left the map has none (AtRest).  Warned, on top of it, follows *)
(* a reason to block from the ledger to the person: a check made after it  *)
(* began to stand will find it, and an answer from before is passed, and   *)
(* no longer counts, once that check has landed (LateFirst).               *)
(***************************************************************************)
EXTENDS ProviderMeter, FiniteSetTheorems, FunctionTheorems, TLAPS

\* A meter that was handed out has a state; a reason is followed while it is in use.
Held ==
  \A m \in Meter :
    /\ meter[m].session = Null <=> meter[m].user = Null
    /\ meter[m].session = Null => ~meter[m].closed
    /\ stood[m] # {} => meter[m].session # Null /\ ~meter[m].closed

\* The listener finds for a session one of its own meters.
Published == \A s \in Session : config[s] # Null => meter[config[s]].session = s

LEMMA ReasonsAre ==
    /\ Len(Reasons) = 3 /\ DOMAIN Reasons = 1..3 /\ Answered = 4 /\ Writing = 0
    /\ Reasons[1] = "suspended" /\ Reasons[2] = "daily" /\ Reasons[3] = "fleet"
    /\ Reason = {"suspended", "daily", "fleet"}
<1>1. Len(Reasons) = 3 /\ DOMAIN Reasons = 1..3
    /\ Reasons[1] = "suspended" /\ Reasons[2] = "daily" /\ Reasons[3] = "fleet"
  BY DEF Reasons
<1>2. Answered = 4 /\ Writing = 0
  BY <1>1 DEF Answered, Writing
<1>3. Reason = {"suspended", "daily", "fleet"}
  BY <1>1 DEF Reason
<1>4. QED
  BY <1>1, <1>2, <1>3

\* What becomes of a person's state, whoever changes it.
LEMMA WithoutIs ==
    ASSUME NEW u \in User, NEW s
    PROVE  /\ Without(u, s) \in User
           /\ Without(u, s).sessions = u.sessions \ {s}
           /\ Without(u, s).inFlight = u.inFlight
           /\ Without(u, s).blocked = u.blocked
           /\ Without(u, s).checking = u.checking
<1>1. u.sessions \ {s} \in SUBSET Session
  BY DEF User
<1>2. QED
  BY <1>1 DEF Without, User

LEMMA JoinedIs ==
    ASSUME NEW u \in User, NEW s \in Session
    PROVE  /\ Joined(u, s) \in User
           /\ Joined(u, s).sessions = u.sessions \union {s}
           /\ Joined(u, s).inFlight = u.inFlight
           /\ Joined(u, s).blocked = u.blocked
<1>1. u.sessions \union {s} \in SUBSET Session
  BY DEF User
<1>2. QED
  BY <1>1 DEF Joined, User

LEMMA InitTypes == Init => TypeOK
<1>1. NewUser \in User
  BY Bounds DEF NewUser, User
<1>2. NoMeter \in SessionMeter /\ NoTunnel \in MeteredTunnel
  BY DEF NoMeter, NoTunnel, SessionMeter, MeteredTunnel
<1>3. Len(NoTunnel.awaits) <= MaxOutstanding
  BY Bounds DEF NoTunnel
<1>4. QED
  BY <1>1, <1>2, <1>3, Bounds DEF Init, TypeOK

LEMMA Types ==
    TypeOK => /\ users \in [Meter -> User] /\ current \in Meter \union {Null}
              /\ meter \in [Meter -> SessionMeter] /\ config \in [Session -> Meter \union {Null}]
              /\ tunnel \in [Tunnel -> MeteredTunnel] /\ calls \in Seq(Call)
  BY DEF TypeOK

LEMMA MeterTypes ==
    TypeOK => \A m \in Meter : /\ meter[m].session \in Session \union {Null}
                               /\ meter[m].user \in Meter \union {Null}
                               /\ meter[m].closed \in BOOLEAN
  BY Types DEF SessionMeter

\* What the open of a session makes of the person's states: who finds the meter.
Was(s) == IF config[s] = Null THEN users
          ELSE [users EXCEPT ![meter[config[s]].user] = Without(@, s)]
Left(s) == IF config[s] = Null THEN current
           ELSE Evict(meter[config[s]].user, Was(s)[meter[config[s]].user])
StateFor(s, m) == IF Left(s) = Null THEN m ELSE Left(s)
Opened(s, m) ==
    [x \in Meter |->
       CASE x = m -> [session |-> s, user |-> StateFor(s, m), closed |-> FALSE]
         [] x = config[s] -> [meter[x] EXCEPT !.closed = TRUE]
         [] OTHER -> meter[x]]
StoodNow(s, m) ==
    [x \in Meter |->
       CASE x = m -> Standing [] x = config[s] -> {} [] OTHER -> stood[x]]

LEMMA OpenActs ==
    ASSUME NEW s \in Session, NEW m \in Meter, OpenSession(s, m)
    PROVE  /\ meter[m] = NoMeter
           /\ \A x \in Meter : meter[x].session = s => ~Opening(x)
           /\ users' = [Was(s) EXCEPT ![StateFor(s, m)] = Joined(Was(s)[StateFor(s, m)], s)]
           /\ current' = StateFor(s, m)
           /\ meter' = Opened(s, m)
           /\ stood' = StoodNow(s, m)
           /\ calls' = calls \o <<StatusCall(StateFor(s, m), m)>>
           /\ UNCHANGED <<config, tunnel, ledger>>
  BY DEF OpenSession, Was, Left, StateFor, Opened, StoodNow, Issue

LEMMA WasIs ==
    ASSUME TypeOK, Held, Published, NEW s \in Session
    PROVE  /\ Was(s) \in [Meter -> User]
           /\ config[s] # Null => meter[config[s]].user \in Meter
           /\ \A n \in Meter :
                /\ Was(s)[n].sessions \in {users[n].sessions, users[n].sessions \ {s}}
                /\ Was(s)[n].inFlight = users[n].inFlight
                /\ Was(s)[n].blocked = users[n].blocked
<1>1. CASE config[s] = Null
  BY <1>1, Types DEF Was
<1>2. CASE config[s] # Null
  <2>1. meter[config[s]].user \in Meter
    BY <1>2, NullIsNone, Types, MeterTypes DEF Held, Published
  <2>2. users[meter[config[s]].user] \in User
    BY <2>1, Types
  <2>3. QED
    BY <1>2, <2>1, <2>2, WithoutIs, Types DEF Was
<1>3. QED
  BY <1>1, <1>2

LEMMA StateForIs ==
    ASSUME TypeOK, NEW s \in Session, NEW m \in Meter
    PROVE  StateFor(s, m) \in Meter /\ Left(s) \in {current, Null}
  BY NullIsNone, Types DEF StateFor, Left, Evict

LEMMA OpenTypes ==
    ASSUME TypeOK, Held, Published, NEW s \in Session, NEW m \in Meter, OpenSession(s, m)
    PROVE  TypeOK'
<1> DEFINE n == StateFor(s, m)
<1>1. /\ users' = [Was(s) EXCEPT ![n] = Joined(Was(s)[n], s)]
      /\ current' = n
      /\ meter' = Opened(s, m)
      /\ stood' = StoodNow(s, m)
      /\ calls' = calls \o <<StatusCall(n, m)>>
  BY OpenActs
<1> HIDE DEF n
<1>2. n \in Meter
  BY StateForIs DEF n
<1>3. Joined(Was(s)[n], s) \in User
  BY WasIs, <1>2, JoinedIs
<1>4. users' \in [Meter -> User] /\ current' \in Meter \union {Null}
  BY WasIs, <1>1, <1>2, <1>3
<1>5. meter' \in [Meter -> SessionMeter]
  <2>1. [session |-> s, user |-> n, closed |-> FALSE] \in SessionMeter
    BY <1>2 DEF SessionMeter
  <2>2. \A x \in Meter : [meter[x] EXCEPT !.closed = TRUE] \in SessionMeter
    BY Types DEF SessionMeter
  <2>3. QED
    BY <2>1, <2>2, <1>1, Types DEF Opened, n
<1>6. stood' \in [Meter -> SUBSET Reason]
  <2>1. Standing \in SUBSET Reason
    BY ReasonsAre DEF TypeOK, Standing
  <2>2. stood \in [Meter -> SUBSET Reason]
    BY DEF TypeOK
  <2>3. QED
    BY <2>1, <2>2, <1>1 DEF StoodNow
<1>7. calls' \in Seq(Call)
  <2>1. StatusCall(n, m) \in Call
    BY <1>2, ReasonsAre DEF StatusCall, Call
  <2>2. QED
    BY <2>1, <1>1, Types
<1>8. QED
  BY <1>4, <1>5, <1>6, <1>7, OpenActs DEF TypeOK

\* A tunnel without a meter awaits nothing; one with a meter has one that was handed out.
Connected ==
  \A t \in Tunnel :
    IF tunnel[t].meter = Null THEN tunnel[t].awaits = <<>>
                              ELSE meter[tunnel[t].meter].session # Null

LEMMA TunnelTypes ==
    ASSUME TypeOK, NEW t \in Tunnel
    PROVE  /\ tunnel[t].meter \in Meter \union {Null}
           /\ tunnel[t].awaits \in Seq(BOOLEAN)
           /\ Len(tunnel[t].awaits) \in Nat /\ Len(tunnel[t].awaits) <= MaxOutstanding
           /\ tunnel[t].refused \in BOOLEAN
<1>1. tunnel[t] \in MeteredTunnel
  BY Types
<1>2. QED
  BY <1>1 DEF MeteredTunnel, TypeOK

LEMMA HolderTypes ==
    ASSUME TypeOK, Held, Connected, NEW t \in Tunnel, tunnel[t].meter # Null
    PROVE  HolderOf(t) \in Meter
  BY TunnelTypes, MeterTypes, NullIsNone DEF Held, Connected, HolderOf

\* A step that changes one state of the person and none of its sessions.
Alters(n) ==
  /\ n \in Meter /\ users'[n] \in User
  /\ users' = [users EXCEPT ![n] = users'[n]]
  /\ users'[n].sessions = users[n].sessions
  /\ \/ current' = current
     \/ current' = Null /\ current = n /\ users'[n].sessions = {} /\ users'[n].inFlight = 0

LEMMA AltersTypes ==
    ASSUME TypeOK, NEW n, Alters(n)
    PROVE  users' \in [Meter -> User] /\ current' \in Meter \union {Null}
  BY Types DEF Alters

LEMMA MarksAreFinite ==
    ASSUME NEW b \in Seq(BOOLEAN)
    PROVE  /\ IsFiniteSet(Marks(b)) /\ Cardinality(Marks(b)) \in Nat
           /\ Cardinality(Marks(b)) <= Len(b)
<1>1. Len(b) \in Nat /\ DOMAIN b = 1..Len(b)
  OBVIOUS
<1>2. IsFiniteSet(1..Len(b)) /\ Cardinality(1..Len(b)) = Len(b)
  BY <1>1, FS_Interval
<1>3. Marks(b) \subseteq 1..Len(b)
  BY <1>1 DEF Marks
<1>4. QED
  BY <1>2, <1>3, FS_Subset, FS_CardinalityType

LEMMA SettleIs ==
    ASSUME TypeOK, NEW n \in Meter, NEW b \in Seq(BOOLEAN), Settle(n, b)
    PROVE  /\ Alters(n)
           /\ users'[n].inFlight = Less(users[n].inFlight, Len(b))
           /\ users'[n].blocked = users[n].blocked
           /\ \E k \in Nat : calls' = calls \o Records(n, k)
<1> DEFINE u == [users[n] EXCEPT !.inFlight = Less(@, Len(b))]
<1>1. /\ users' = [users EXCEPT ![n] = u]
      /\ current' \in {current, Evict(n, u)}
      /\ calls' = calls \o Records(n, Cardinality(Marks(b)))
  BY DEF Settle, Issue
<1>2. users[n] \in User
  BY Types
<1>3. Less(users[n].inFlight, Len(b)) \in 0..MaxInFlight
  BY <1>2, Bounds DEF User, Less
<1>4. /\ u \in User /\ u.inFlight = Less(users[n].inFlight, Len(b))
      /\ u.sessions = users[n].sessions /\ u.blocked = users[n].blocked
  BY <1>2, <1>3 DEF User
<1> HIDE DEF u
<1>5. users'[n] = u
  BY <1>1, Types
<1>6. Alters(n)
  BY <1>1, <1>4, <1>5 DEF Alters, Evict, Idle
<1>7. QED
  BY <1>1, <1>4, <1>5, <1>6, MarksAreFinite

LEMMA RecordsTypes ==
    ASSUME NEW n \in Meter, NEW k \in Nat
    PROVE  Records(n, k) \in Seq(Call) /\ Len(Records(n, k)) = k
<1>1. RecordCall(n) \in Call
  BY ReasonsAre DEF RecordCall, Call
<1>2. QED
  BY <1>1 DEF Records

LEMMA SettleTypes ==
    ASSUME TypeOK, NEW n \in Meter, NEW b \in Seq(BOOLEAN), Settle(n, b)
    PROVE  /\ users' \in [Meter -> User] /\ current' \in Meter \union {Null}
           /\ calls' \in Seq(Call)
<1>1. PICK k \in Nat : calls' = calls \o Records(n, k)
  BY SettleIs
<1>2. calls' \in Seq(Call)
  BY <1>1, RecordsTypes, Types
<1>3. QED
  BY <1>2, SettleIs, AltersTypes

\* What a model call's request head does: it is refused, or takes a slot.
Turns(t, n) ==
  \/ /\ tunnel' = [tunnel EXCEPT ![t].refused = TRUE]
     /\ users'[n].inFlight = users[n].inFlight
  \/ /\ ~meter[tunnel[t].meter].closed
     /\ users'[n].inFlight = users[n].inFlight + 1
     /\ tunnel' = [tunnel EXCEPT ![t].awaits = Append(@, TRUE)]

LEMMA ConsultedIs ==
    ASSUME NEW u \in User, NEW asks \in BOOLEAN, NEW k \in Nat, u.inFlight + k <= MaxInFlight
    PROVE  /\ Consulted(u, asks, k) \in User
           /\ Consulted(u, asks, k).sessions = u.sessions
           /\ Consulted(u, asks, k).blocked = u.blocked
           /\ Consulted(u, asks, k).inFlight = u.inFlight + k
<1>1. u.inFlight + k \in 0..MaxInFlight
  BY Bounds DEF User
<1>2. QED
  BY <1>1 DEF Consulted, User

LEMMA AskIs ==
    ASSUME TypeOK, Held, Connected, NEW t \in Tunnel, Ask(t)
    PROVE  /\ Alters(HolderOf(t)) /\ current' = current
           /\ users'[HolderOf(t)].blocked = users[HolderOf(t)].blocked
           /\ Turns(t, HolderOf(t))
           /\ calls' = calls \/ calls' = calls \o <<StatusCall(HolderOf(t), Null)>>
<1> DEFINE n == HolderOf(t)
           open == ~meter[tunnel[t].meter].closed
           asks == open /\ Stale(users[n])
<1>1. n \in Meter /\ users[n] \in User
  BY HolderTypes, Types DEF Ask, Live
<1>2. asks \in BOOLEAN
  OBVIOUS
<1>3. calls' = calls \/ calls' = calls \o <<StatusCall(n, Null)>>
  BY Types DEF Ask, Issue
<1>4. CASE open /\ Admits(users[n])
  <2>1. /\ users' = [users EXCEPT ![n] = Consulted(users[n], asks, 1)]
        /\ tunnel' = [tunnel EXCEPT ![t].awaits = Append(@, TRUE)]
        /\ current' = current
    BY <1>4 DEF Ask
  <2>2. users[n].inFlight + 1 <= MaxInFlight
    BY <1>1, <1>4, Bounds DEF Admits, User
  <2> HIDE DEF asks, n
  <2>6. 1 \in Nat
    OBVIOUS
  <2>7. /\ Consulted(users[n], asks, 1) \in User
        /\ Consulted(users[n], asks, 1).sessions = users[n].sessions
        /\ Consulted(users[n], asks, 1).blocked = users[n].blocked
        /\ Consulted(users[n], asks, 1).inFlight = users[n].inFlight + 1
    BY <1>1, <1>2, <2>2, <2>6, ConsultedIs, Zenon
  <2>3. users'[n] = Consulted(users[n], asks, 1)
    BY <1>1, <2>1, Types
  <2>4. Alters(n) /\ users'[n].blocked = users[n].blocked /\ users'[n].inFlight = users[n].inFlight + 1
    BY <1>1, <2>1, <2>2, <2>3, <2>7 DEF Alters
  <2>5. QED
    BY <1>3, <1>4, <2>1, <2>4 DEF Turns, n
<1>5. CASE ~(open /\ Admits(users[n]))
  <2>1. /\ users' = [users EXCEPT ![n] = Consulted(users[n], asks, 0)]
        /\ tunnel' = [tunnel EXCEPT ![t].refused = TRUE]
        /\ current' = current
    BY <1>5 DEF Ask
  <2>2. users[n].inFlight + 0 <= MaxInFlight /\ users[n].inFlight + 0 = users[n].inFlight
    BY <1>1, Bounds DEF User
  <2> HIDE DEF asks, n
  <2>6. 0 \in Nat
    OBVIOUS
  <2>7. /\ Consulted(users[n], asks, 0) \in User
        /\ Consulted(users[n], asks, 0).sessions = users[n].sessions
        /\ Consulted(users[n], asks, 0).blocked = users[n].blocked
        /\ Consulted(users[n], asks, 0).inFlight = users[n].inFlight + 0
    BY <1>1, <1>2, <2>2, <2>6, ConsultedIs, Zenon
  <2>3. users'[n] = Consulted(users[n], asks, 0)
    BY <1>1, <2>1, Types
  <2>4. Alters(n) /\ users'[n].blocked = users[n].blocked /\ users'[n].inFlight = users[n].inFlight
    BY <1>1, <2>1, <2>2, <2>3, <2>7 DEF Alters
  <2>5. QED
    BY <1>3, <2>1, <2>4 DEF Turns, n
<1>6. QED
  BY <1>4, <1>5

LEMMA StatusTypes ==
    ASSUME NEW n \in Meter, NEW m \in Meter \union {Null}
    PROVE  StatusCall(n, m) \in Call
  BY ReasonsAre DEF StatusCall, Call

LEMMA AskTypes ==
    ASSUME TypeOK, Held, Connected, NEW t \in Tunnel, Ask(t)
    PROVE  TypeOK'
<1>1. HolderOf(t) \in Meter
  BY HolderTypes DEF Ask, Live
<1>2. /\ Alters(HolderOf(t)) /\ current' = current /\ Turns(t, HolderOf(t))
      /\ calls' = calls \/ calls' = calls \o <<StatusCall(HolderOf(t), Null)>>
  BY AskIs
<1>3. users' \in [Meter -> User] /\ current' \in Meter \union {Null}
  BY <1>2, AltersTypes
<1>4. calls' \in Seq(Call)
  <2>1. StatusCall(HolderOf(t), Null) \in Call
    BY <1>1, StatusTypes
  <2>2. QED
    BY <1>2, <2>1, Types
<1>5. tunnel' \in [Tunnel -> MeteredTunnel] /\ \A x \in Tunnel : Len(tunnel'[x].awaits) <= MaxOutstanding
  <2>1. tunnel \in [Tunnel -> MeteredTunnel] /\ Len(tunnel[t].awaits) < MaxOutstanding
    BY Types DEF Ask
  <2>2. CASE tunnel' = [tunnel EXCEPT ![t].refused = TRUE]
    <3>1. [tunnel[t] EXCEPT !.refused = TRUE] \in MeteredTunnel
          /\ [tunnel[t] EXCEPT !.refused = TRUE].awaits = tunnel[t].awaits
      BY <2>1 DEF MeteredTunnel
    <3>2. QED
      BY <2>1, <2>2, <3>1 DEF TypeOK
  <2>3. CASE tunnel' = [tunnel EXCEPT ![t].awaits = Append(@, TRUE)]
    <3> DEFINE new == [tunnel[t] EXCEPT !.awaits = Append(@, TRUE)]
    <3>1. new \in MeteredTunnel /\ Len(new.awaits) = Len(tunnel[t].awaits) + 1
      <4>1. tunnel[t] \in MeteredTunnel
        BY <2>1
      <4>2. Append(tunnel[t].awaits, TRUE) \in Seq(BOOLEAN)
            /\ Len(Append(tunnel[t].awaits, TRUE)) = Len(tunnel[t].awaits) + 1
        BY TunnelTypes
      <4>3. QED
        BY <4>1, <4>2 DEF MeteredTunnel
    <3>2. QED
      BY <2>1, <2>3, <3>1, TunnelTypes, Bounds DEF TypeOK
  <2>4. QED
    BY <1>2, <2>2, <2>3 DEF Turns
<1>6. QED
  BY <1>3, <1>4, <1>5 DEF TypeOK, Ask

LEMMA CallTypes ==
    ASSUME TypeOK, NEW i \in DOMAIN calls
    PROVE  /\ calls[i] \in Call /\ i \in 1..Len(calls) /\ Len(calls) \in Nat
           /\ calls[i].user \in Meter /\ calls[i].at \in 0..4
           /\ calls[i].late \in BOOLEAN /\ calls[i].blocked \in BOOLEAN
           /\ calls[i].for \in Meter \union {Null}
<1>1. calls[i] \in Call /\ i \in 1..Len(calls) /\ Len(calls) \in Nat
  BY Types
<1>2. QED
  BY <1>1, ReasonsAre DEF Call

LEMMA AdvancedIs ==
    ASSUME NEW c \in Call, NEW k \in 0..4, NEW b \in BOOLEAN
    PROVE  /\ Advanced(c, k, b) \in Call /\ Advanced(c, k, b).user = c.user
           /\ Advanced(c, k, b).for = c.for /\ Advanced(c, k, b).late = c.late
           /\ Advanced(c, k, b).at = k /\ Advanced(c, k, b).blocked = b
  BY ReasonsAre DEF Call, Advanced

LEMMA PassedIs ==
    ASSUME NEW c \in Call, NEW n
    PROVE  LET d == Passed(c, n) IN
           /\ d \in Call /\ d.user = c.user /\ d.for = c.for /\ d.at = c.at
           /\ d.blocked = c.blocked /\ d.late = (c.late \/ c.user = n)
<1>1. (c.late \/ c.user = n) \in BOOLEAN
  OBVIOUS
<1>2. QED
  BY <1>1 DEF Call, Passed

\* A step of a ledger call: it has written, it has looked at one reason, it has failed.
Advances(i) ==
  \/ calls[i].at = 0 /\ calls' = [calls EXCEPT ![i] = Advanced(calls[i], 1, FALSE)]
  \/ calls' = [calls EXCEPT ![i] = Advanced(calls[i], 4, TRUE)]
  \/ /\ calls[i].at \in 1..3 /\ Reasons[calls[i].at] \notin Standing
     /\ calls' = [calls EXCEPT ![i] = Advanced(calls[i], calls[i].at + 1, FALSE)]

LEMMA AdvancesTo ==
    ASSUME TypeOK, NEW i \in DOMAIN calls, Advances(i)
    PROVE  /\ calls' = [calls EXCEPT ![i] = calls'[i]]
           /\ calls'[i] \in Call /\ calls'[i].user = calls[i].user
           /\ calls'[i].for = calls[i].for /\ calls'[i].late = calls[i].late
           /\ \/ calls[i].at = 0 /\ calls'[i].at = 1
              \/ calls'[i].at = 4 /\ calls'[i].blocked
              \/ /\ calls[i].at \in 1..3 /\ Reasons[calls[i].at] \notin Standing
                 /\ calls'[i].at = calls[i].at + 1
<1>1. calls[i] \in Call /\ calls \in Seq(Call)
  BY CallTypes, Types
<1>2. CASE calls[i].at = 0 /\ calls' = [calls EXCEPT ![i] = Advanced(calls[i], 1, FALSE)]
  <2>1. 1 \in 0..4 /\ FALSE \in BOOLEAN
    OBVIOUS
  <2>2. /\ Advanced(calls[i], 1, FALSE) \in Call /\ Advanced(calls[i], 1, FALSE).user = calls[i].user
        /\ Advanced(calls[i], 1, FALSE).for = calls[i].for
        /\ Advanced(calls[i], 1, FALSE).late = calls[i].late
        /\ Advanced(calls[i], 1, FALSE).at = 1
    BY <1>1, <2>1, AdvancedIs, Zenon
  <2>3. calls'[i] = Advanced(calls[i], 1, FALSE)
    BY <1>1, <1>2
  <2>4. QED
    BY <1>2, <2>2, <2>3
<1>3. CASE calls' = [calls EXCEPT ![i] = Advanced(calls[i], 4, TRUE)]
  <2>1. 4 \in 0..4 /\ TRUE \in BOOLEAN
    OBVIOUS
  <2>2. /\ Advanced(calls[i], 4, TRUE) \in Call /\ Advanced(calls[i], 4, TRUE).user = calls[i].user
        /\ Advanced(calls[i], 4, TRUE).for = calls[i].for
        /\ Advanced(calls[i], 4, TRUE).late = calls[i].late
        /\ Advanced(calls[i], 4, TRUE).at = 4 /\ Advanced(calls[i], 4, TRUE).blocked = TRUE
    BY <1>1, <2>1, AdvancedIs, Zenon
  <2>3. calls'[i] = Advanced(calls[i], 4, TRUE)
    BY <1>1, <1>3
  <2>4. QED
    BY <2>2, <2>3, <1>3
<1>4. CASE /\ calls[i].at \in 1..3 /\ Reasons[calls[i].at] \notin Standing
           /\ calls' = [calls EXCEPT ![i] = Advanced(calls[i], calls[i].at + 1, FALSE)]
  <2>1. calls[i].at + 1 \in 0..4
    BY <1>4
  <2>2. QED
    BY <1>1, <1>4, <2>1, AdvancedIs
<1>5. QED
  BY <1>2, <1>3, <1>4 DEF Advances

LEMMA SpendGrows ==
    ASSUME TypeOK, NEW l, l = [ledger EXCEPT !.spend = IF @ < Ceiling THEN @ + 1 ELSE @]
    PROVE  /\ l.over = ledger.over /\ l.down = ledger.down
           /\ l.spend \in 0..Ceiling /\ l.spend >= ledger.spend
           /\ l \in [over : SUBSET {"suspended", "fleet"}, spend : 0..Ceiling, down : BOOLEAN]
<1>1. ledger \in [over : SUBSET {"suspended", "fleet"}, spend : 0..Ceiling, down : BOOLEAN]
  BY DEF TypeOK
<1>2. QED
  BY <1>1, Bounds

LEMMA ServeAdvances ==
    ASSUME TypeOK, NEW i \in DOMAIN calls, Write(i) \/ Read(i) \/ Fail(i)
    PROVE  /\ Advances(i)
           /\ UNCHANGED <<users, current, meter, config, tunnel, stood>>
           /\ ledger'.over = ledger.over /\ ledger'.down = ledger.down
           /\ ledger'.spend \in 0..Ceiling /\ ledger'.spend >= ledger.spend
           /\ ledger' \in [over : SUBSET {"suspended", "fleet"}, spend : 0..Ceiling, down : BOOLEAN]
<1>1. UNCHANGED <<users, current, meter, config, tunnel, stood>>
  BY DEF Write, Read, Fail
<1>2. CASE Write(i)
  <2>1. calls[i].at = 0 /\ calls' = [calls EXCEPT ![i] = Advanced(calls[i], 1, FALSE)]
    BY <1>2, ReasonsAre DEF Write
  <2>2. Advances(i)
    BY <2>1 DEF Advances
  <2>3. ledger' = [ledger EXCEPT !.spend = IF @ < Ceiling THEN @ + 1 ELSE @]
    BY <1>2 DEF Write
  <2>4. QED
    BY <1>1, <2>2, <2>3, SpendGrows
<1>3. CASE Read(i) \/ Fail(i)
  <2>1. ledger' = ledger
    BY <1>3 DEF Read, Fail
  <2>2. /\ ledger.spend \in 0..Ceiling /\ ledger.spend >= ledger.spend
        /\ ledger \in [over : SUBSET {"suspended", "fleet"}, spend : 0..Ceiling, down : BOOLEAN]
    BY Bounds DEF TypeOK
  <2>3. Advances(i)
    <3>1. CASE Fail(i)
      BY <3>1, ReasonsAre DEF Fail, Advances
    <3>2. CASE Read(i) /\ Reasons[calls[i].at] \in Standing
      BY <3>2, ReasonsAre DEF Read, Advances
    <3>3. CASE Read(i) /\ Reasons[calls[i].at] \notin Standing
      <4>1. calls[i].at \in 1..3
        BY <3>3, ReasonsAre DEF Read
      <4>2. calls' = [calls EXCEPT ![i] = Advanced(calls[i], calls[i].at + 1, FALSE)]
        BY <3>3 DEF Read
      <4>3. QED
        BY <3>3, <4>1, <4>2 DEF Advances
    <3>4. QED
      BY <1>3, <3>1, <3>2, <3>3
  <2>4. QED
    BY <1>1, <2>1, <2>2, <2>3
<1>4. QED
  BY <1>2, <1>3

LEMMA ServeTypes ==
    ASSUME TypeOK, NEW i \in DOMAIN calls, Write(i) \/ Read(i) \/ Fail(i)
    PROVE  TypeOK'
<1>1. calls' = [calls EXCEPT ![i] = calls'[i]]
  BY ServeAdvances, AdvancesTo
<1>2. calls'[i] \in Call
  BY ServeAdvances, AdvancesTo
<1>3. calls' \in Seq(Call)
  BY <1>1, <1>2, Types
<1>4. QED
  BY <1>3, ServeAdvances DEF TypeOK

LEMMA AppliedIs ==
    ASSUME NEW u \in User, NEW c \in Call
    PROVE  LET v == Applied(u, c) IN
           /\ v \in User /\ v.sessions = u.sessions /\ v.inFlight = u.inFlight
           /\ v.blocked = IF c.late THEN u.blocked ELSE c.blocked
<1>1. /\ (IF c.late THEN u.blocked ELSE c.blocked) \in BOOLEAN
      /\ (u.fresh \/ ~c.late) \in BOOLEAN /\ (u.checking /\ c.kind # "status") \in BOOLEAN
  BY DEF User, Call
<1>2. QED
  BY <1>1 DEF Applied, User

LEMMA LandIs ==
    ASSUME TypeOK, NEW i \in DOMAIN calls, Land(i)
    PROVE  LET n == calls[i].user IN
           /\ Alters(n) /\ calls[i].at = 4
           /\ users'[n].inFlight = users[n].inFlight
           /\ users'[n].blocked = IF calls[i].late THEN users[n].blocked ELSE calls[i].blocked
           /\ calls' \in Seq(Call) /\ Len(calls') = Len(calls) - 1
           /\ \A j \in 1..(Len(calls) - 1) :
                calls'[j] = IF j < i THEN Passed(calls[j], n) ELSE calls[j + 1]
           /\ UNCHANGED <<meter, config, tunnel, ledger, stood>>
<1> DEFINE n == calls[i].user
           u == Applied(users[n], calls[i])
<1>1. /\ users' = [users EXCEPT ![n] = u] /\ current' = Evict(n, u)
      /\ calls' = [j \in 1..(Len(calls) - 1) |->
                    IF j < i THEN Passed(calls[j], n) ELSE calls[j + 1]]
      /\ UNCHANGED <<meter, config, tunnel, ledger, stood>>
      /\ calls[i].at = 4
  BY ReasonsAre DEF Land
<1>2. n \in Meter /\ users[n] \in User /\ calls[i] \in Call
  BY CallTypes, Types
<1>3. /\ u \in User /\ u.sessions = users[n].sessions /\ u.inFlight = users[n].inFlight
      /\ u.blocked = IF calls[i].late THEN users[n].blocked ELSE calls[i].blocked
  BY <1>2, AppliedIs
<1> HIDE DEF u
<1>4. users'[n] = u
  BY <1>1, <1>2, Types
<1>5. Alters(n)
  BY <1>1, <1>2, <1>3, <1>4 DEF Alters, Evict, Idle
<1>6. \A j \in 1..(Len(calls) - 1) :
        (IF j < i THEN Passed(calls[j], n) ELSE calls[j + 1]) \in Call
  BY CallTypes, PassedIs, Types
<1>7. calls' \in Seq(Call) /\ Len(calls') = Len(calls) - 1
  <2>1. Len(calls) - 1 \in Nat
    BY CallTypes
  <2>2. QED
    BY <1>1, <1>6, <2>1
<1>8. QED
  BY <1>1, <1>3, <1>4, <1>5, <1>7

LEMMA LandTypes ==
    ASSUME TypeOK, NEW i \in DOMAIN calls, Land(i)
    PROVE  TypeOK'
<1>1. /\ Alters(calls[i].user) /\ calls' \in Seq(Call)
      /\ UNCHANGED <<meter, config, tunnel, ledger, stood>>
  BY LandIs
<1>2. users' \in [Meter -> User] /\ current' \in Meter \union {Null}
  BY <1>1, AltersTypes
<1>3. QED
  BY <1>1, <1>2 DEF TypeOK

LEMMA AgeIs ==
    ASSUME TypeOK, NEW n \in Meter, Age(n)
    PROVE  /\ Alters(n) /\ users'[n].inFlight = users[n].inFlight
           /\ users'[n].blocked = users[n].blocked
           /\ UNCHANGED <<current, meter, config, tunnel, calls, ledger, stood>>
<1>1. users[n] \in User
  BY Types
<1> DEFINE u == [users[n] EXCEPT !.fresh = FALSE]
<1>2. /\ u \in User /\ u.sessions = users[n].sessions /\ u.inFlight = users[n].inFlight
      /\ u.blocked = users[n].blocked
  BY <1>1 DEF User
<1>3. users' = [users EXCEPT ![n] = u]
  BY DEF Age
<1> HIDE DEF u
<1>4. users'[n] = u
  BY <1>3, Types
<1>5. UNCHANGED <<current, meter, config, tunnel, calls, ledger, stood>>
  BY DEF Age
<1>6. QED
  BY <1>2, <1>3, <1>4, <1>5 DEF Alters

LEMMA AgeTypes ==
    ASSUME TypeOK, NEW n \in Meter, Age(n)
    PROVE  TypeOK'
<1>1. users' \in [Meter -> User]
  BY AgeIs, AltersTypes
<1>2. QED
  BY <1>1, AgeIs DEF TypeOK

LEMMA SessionOpenedTypes ==
    ASSUME TypeOK, NEW m \in Meter, SessionOpened(m)
    PROVE  TypeOK'
<1>1. config' \in [Session -> Meter \union {Null}]
  BY Types DEF SessionOpened
<1>2. QED
  BY <1>1 DEF SessionOpened, TypeOK

\* proxy:close-session, in the terms of the lemmas above.
LEMMA CloseIs ==
    ASSUME TypeOK, Held, Published, NEW s \in Session, CloseSession(s)
    PROVE  LET m == config[s]
               k == meter[m].user
           IN  /\ m \in Meter /\ k \in Meter /\ meter[m].session = s
               /\ users' = [users EXCEPT ![k] = Without(users[k], s)]
               /\ users'[k] = Without(users[k], s)
               /\ current' = Evict(k, users'[k])
               /\ meter' = [meter EXCEPT ![m] = [meter[m] EXCEPT !.closed = TRUE]]
               /\ stood' = [stood EXCEPT ![m] = {}]
               /\ config' = [config EXCEPT ![s] = Null]
               /\ UNCHANGED <<tunnel, calls, ledger>>
               /\ \A x \in Meter : meter[x].session = s => ~Opening(x)
<1> DEFINE m == config[s]
           k == meter[m].user
<1>1. m \in Meter /\ m # Null
  BY Types DEF CloseSession
<1>2. meter[m].session = s /\ k \in Meter
  BY <1>1, NullIsNone, MeterTypes DEF Published, Held
<1>3. /\ users' = [users EXCEPT ![k] = Without(users[k], s)]
      /\ current' = Evict(k, Without(users[k], s))
      /\ meter' = [meter EXCEPT ![m] = [meter[m] EXCEPT !.closed = TRUE]]
      /\ stood' = [stood EXCEPT ![m] = {}]
      /\ config' = [config EXCEPT ![s] = Null]
      /\ UNCHANGED <<tunnel, calls, ledger>>
      /\ \A x \in Meter : meter[x].session = s => ~Opening(x)
  BY DEF CloseSession
<1>4. users'[k] = Without(users[k], s)
  BY <1>2, <1>3, Types
<1>5. QED
  BY <1>1, <1>2, <1>3, <1>4

LEMMA CloseTypes ==
    ASSUME TypeOK, Held, Published, NEW s \in Session, CloseSession(s)
    PROVE  TypeOK'
<1> DEFINE m == config[s]
           k == meter[m].user
<1>1. /\ m \in Meter /\ k \in Meter
      /\ users' = [users EXCEPT ![k] = Without(users[k], s)]
      /\ current' = Evict(k, users'[k])
      /\ meter' = [meter EXCEPT ![m] = [meter[m] EXCEPT !.closed = TRUE]]
      /\ stood' = [stood EXCEPT ![m] = {}]
      /\ config' = [config EXCEPT ![s] = Null]
      /\ UNCHANGED <<tunnel, calls, ledger>>
  BY CloseIs
<1>2. Without(users[k], s) \in User
  BY <1>1, WithoutIs, Types
<1>3. users' \in [Meter -> User] /\ current' \in Meter \union {Null}
  BY <1>1, <1>2, Types DEF Evict
<1>4. meter' \in [Meter -> SessionMeter]
  <2>1. [meter[m] EXCEPT !.closed = TRUE] \in SessionMeter
    BY <1>1, Types DEF SessionMeter
  <2>2. QED
    BY <1>1, <2>1, Types
<1>5. config' \in [Session -> Meter \union {Null}] /\ stood' \in [Meter -> SUBSET Reason]
  BY <1>1 DEF TypeOK
<1>6. QED
  BY <1>1, <1>3, <1>4, <1>5 DEF TypeOK

LEMMA ElsewhereIs ==
    ASSUME TypeOK, Elsewhere
    PROVE  /\ ledger' \in [over : SUBSET {"suspended", "fleet"}, spend : 0..Ceiling, down : BOOLEAN]
           /\ stood' = [m \in Meter |-> stood[m] \intersect Standing']
           /\ UNCHANGED <<users, current, meter, config, tunnel, calls>>
<1>1. ledger \in [over : SUBSET {"suspended", "fleet"}, spend : 0..Ceiling, down : BOOLEAN]
  BY DEF TypeOK
<1>2. PICK what \in Outside : Moved(Turned(what))
  BY DEF Elsewhere
<1>. DEFINE l == Turned(what)
<1>5. \/ \E r \in {"suspended", "fleet"} : l =
               [ledger EXCEPT !.over = IF r \in @ THEN @ \ {r} ELSE @ \union {r}]
      \/ l = [ledger EXCEPT !.spend = IF @ < Ceiling THEN @ + 1 ELSE @]
      \/ l = [ledger EXCEPT !.spend = 0]
      \/ l = [ledger EXCEPT !.down = ~@]
  <2>1. what \in {"suspended", "fleet", "spend", "window", "outage"}
    BY OutsideMoves
  <2>2. CASE what \in {"suspended", "fleet"}
    BY <2>2 DEF Turned
  <2>3. CASE what = "spend"
    BY <2>3 DEF Turned
  <2>4. CASE what = "window"
    BY <2>4 DEF Turned
  <2>5. CASE what = "outage"
    BY <2>5 DEF Turned
  <2>6. QED
    BY <2>1, <2>2, <2>3, <2>4, <2>5
<1>. HIDE DEF l
<1>3. l \in [over : SUBSET {"suspended", "fleet"}, spend : 0..Ceiling, down : BOOLEAN]
  <2>1. ASSUME NEW r \in {"suspended", "fleet"},
               l = [ledger EXCEPT !.over = IF r \in @ THEN @ \ {r} ELSE @ \union {r}]
        PROVE  l \in [over : SUBSET {"suspended", "fleet"}, spend : 0..Ceiling, down : BOOLEAN]
    <3>1. (IF r \in ledger.over THEN ledger.over \ {r} ELSE ledger.over \union {r})
            \in SUBSET {"suspended", "fleet"}
      BY <1>1
    <3>2. QED
      BY <1>1, <2>1, <3>1
  <2>2. ASSUME \/ l = [ledger EXCEPT !.spend = IF @ < Ceiling THEN @ + 1 ELSE @]
               \/ l = [ledger EXCEPT !.spend = 0]
        PROVE  l \in [over : SUBSET {"suspended", "fleet"}, spend : 0..Ceiling, down : BOOLEAN]
    <3>1. ledger.spend \in 0..Ceiling /\ Ceiling \in Nat /\ 0 \in 0..Ceiling
      BY <1>1, Bounds
    <3>2. CASE l = [ledger EXCEPT !.spend = IF @ < Ceiling THEN @ + 1 ELSE @]
      <4>1. (IF ledger.spend < Ceiling THEN ledger.spend + 1 ELSE ledger.spend) \in 0..Ceiling
        BY <3>1
      <4>2. QED
        BY <1>1, <3>2, <4>1
    <3>3. CASE l = [ledger EXCEPT !.spend = 0]
      BY <1>1, <3>1, <3>3
    <3>4. QED
      BY <2>2, <3>2, <3>3
  <2>3. ASSUME l = [ledger EXCEPT !.down = ~@]
        PROVE  l \in [over : SUBSET {"suspended", "fleet"}, spend : 0..Ceiling, down : BOOLEAN]
    <3>1. (~ledger.down) \in BOOLEAN
      BY <1>1
    <3>2. QED
      BY <1>1, <2>3, <3>1
  <2>4. QED
    BY <1>5, <2>1, <2>2, <2>3
<1>4. QED
  BY <1>2, <1>3 DEF Moved, l

LEMMA ElsewhereTypes ==
    ASSUME TypeOK, Elsewhere
    PROVE  TypeOK'
<1>1. stood' \in [Meter -> SUBSET Reason]
  BY ElsewhereIs DEF TypeOK
<1>2. QED
  BY <1>1, ElsewhereIs DEF TypeOK

LEMMA ConnectIs ==
    ASSUME TypeOK, Published, Connected, NEW t \in Tunnel, NEW s \in Session, Connect(t, s)
    PROVE  /\ tunnel[t].awaits = <<>> /\ tunnel'[t].awaits = <<>>
           /\ tunnel'[t].meter \in Meter /\ meter[tunnel'[t].meter].session = s
           /\ tunnel' = [tunnel EXCEPT ![t] = tunnel'[t]] /\ tunnel'[t] \in MeteredTunnel
           /\ UNCHANGED <<users, current, meter, config, calls, ledger, stood>>
<1> DEFINE new == [NoTunnel EXCEPT !.meter = config[s]]
<1>1. /\ tunnel[t] = NoTunnel /\ config[s] \in Meter /\ meter[config[s]].session = s
      /\ UNCHANGED <<users, current, meter, config, calls, ledger, stood>>
  BY Types DEF Connect, Published
<1>2. NoTunnel.awaits = <<>>
  BY Zenon DEF NoTunnel
<1>3. tunnel[t] \in MeteredTunnel
  BY Types
<1>4. NoTunnel \in MeteredTunnel
  BY <1>1, <1>3
<1>5. new \in MeteredTunnel /\ new.awaits = NoTunnel.awaits /\ new.meter = config[s]
  BY <1>1, <1>4 DEF MeteredTunnel
<1>6. tunnel' = [tunnel EXCEPT ![t] = new]
  BY <1>1 DEF Connect
<1> HIDE DEF new
<1>7. tunnel'[t] = new
  BY <1>6, Types
<1>8. QED
  BY <1>1, <1>2, <1>5, <1>6, <1>7

LEMMA TunnelAlone ==
    ASSUME TypeOK, NEW t \in Tunnel, tunnel' = [tunnel EXCEPT ![t] = tunnel'[t]],
           tunnel'[t] \in MeteredTunnel, Len(tunnel'[t].awaits) <= MaxOutstanding,
           users' \in [Meter -> User], current' \in Meter \union {Null}, calls' \in Seq(Call),
           UNCHANGED <<meter, config, ledger, stood>>
    PROVE  TypeOK'
<1>1. tunnel' \in [Tunnel -> MeteredTunnel] /\ \A x \in Tunnel : Len(tunnel'[x].awaits) <= MaxOutstanding
  BY DEF TypeOK
<1>2. QED
  BY <1>1 DEF TypeOK

LEMMA ConnectTypes ==
    ASSUME TypeOK, Published, Connected, NEW t \in Tunnel, NEW s \in Session, Connect(t, s)
    PROVE  TypeOK'
<1>1. Len(tunnel'[t].awaits) <= MaxOutstanding
  BY ConnectIs, Bounds
<1>2. QED
  BY <1>1, ConnectIs, Types, TunnelAlone

\* The requests a tunnel awaits after a step of it.
Awaits(t, b) ==
  /\ tunnel' = [tunnel EXCEPT ![t] = tunnel'[t]] /\ tunnel'[t] \in MeteredTunnel
  /\ tunnel'[t].meter = tunnel[t].meter /\ tunnel'[t].awaits = b

LEMMA AwaitsIs ==
    ASSUME TypeOK, NEW t \in Tunnel, NEW b \in Seq(BOOLEAN),
           tunnel' = [tunnel EXCEPT ![t].awaits = b]
    PROVE  Awaits(t, b)
<1> DEFINE new == [tunnel[t] EXCEPT !.awaits = b]
<1>1. new \in MeteredTunnel /\ new.meter = tunnel[t].meter /\ new.awaits = b
  BY Types DEF MeteredTunnel
<1>2. tunnel' = [tunnel EXCEPT ![t] = new]
  OBVIOUS
<1> HIDE DEF new
<1>3. tunnel'[t] = new
  BY <1>2, Types
<1>4. QED
  BY <1>1, <1>2, <1>3 DEF Awaits

LEMMA RefusedIs ==
    ASSUME TypeOK, NEW t \in Tunnel, tunnel' = [tunnel EXCEPT ![t].refused = TRUE]
    PROVE  Awaits(t, tunnel[t].awaits)
<1> DEFINE new == [tunnel[t] EXCEPT !.refused = TRUE]
<1>1. new \in MeteredTunnel /\ new.meter = tunnel[t].meter /\ new.awaits = tunnel[t].awaits
  BY Types DEF MeteredTunnel
<1>2. tunnel' = [tunnel EXCEPT ![t] = new]
  OBVIOUS
<1> HIDE DEF new
<1>3. tunnel'[t] = new
  BY <1>2, Types
<1>4. QED
  BY <1>1, <1>2, <1>3 DEF Awaits

LEMMA AskPlainIs ==
    ASSUME TypeOK, NEW t \in Tunnel, AskPlain(t)
    PROVE  /\ tunnel[t].meter # Null /\ Len(tunnel[t].awaits) < MaxOutstanding
           /\ Awaits(t, Append(tunnel[t].awaits, FALSE))
           /\ Len(Append(tunnel[t].awaits, FALSE)) = Len(tunnel[t].awaits) + 1
           /\ UNCHANGED <<users, current, meter, config, calls, ledger, stood>>
<1> DEFINE b == Append(tunnel[t].awaits, FALSE)
<1>1. b \in Seq(BOOLEAN) /\ Len(b) = Len(tunnel[t].awaits) + 1
  BY TunnelTypes
<1>2. tunnel' = [tunnel EXCEPT ![t].awaits = b]
  BY DEF AskPlain
<1>3. Awaits(t, b)
  BY <1>1, <1>2, AwaitsIs
<1>4. QED
  BY <1>1, <1>3 DEF AskPlain, Live

LEMMA AskTooMuchIs ==
    ASSUME TypeOK, NEW t \in Tunnel, AskTooMuch(t)
    PROVE  /\ Awaits(t, tunnel[t].awaits)
           /\ UNCHANGED <<users, current, meter, config, calls, ledger, stood>>
  BY RefusedIs DEF AskTooMuch

LEMMA AwaitingHasHolder ==
    ASSUME TypeOK, Held, Connected, NEW t \in Tunnel, tunnel[t].awaits # <<>>
    PROVE  tunnel[t].meter # Null /\ HolderOf(t) \in Meter
  BY HolderTypes DEF Connected

LEMMA RespondIs ==
    ASSUME TypeOK, Held, Connected, NEW t \in Tunnel, NEW billable \in BOOLEAN,
           Respond(t, billable)
    PROVE  /\ tunnel[t].awaits # <<>> /\ Awaits(t, Tail(tunnel[t].awaits))
           /\ Tail(tunnel[t].awaits) \in Seq(BOOLEAN)
           /\ Len(Tail(tunnel[t].awaits)) = Len(tunnel[t].awaits) - 1
           /\ HolderOf(t) \in Meter
           /\ \/ Head(tunnel[t].awaits) /\ Settle(HolderOf(t), <<billable>>)
              \/ ~Head(tunnel[t].awaits) /\ UNCHANGED <<users, current, calls>>
           /\ UNCHANGED <<meter, config, ledger, stood>>
<1> DEFINE b == Tail(tunnel[t].awaits)
<1>1. tunnel[t].awaits # <<>> /\ tunnel[t].awaits \in Seq(BOOLEAN)
  BY TunnelTypes DEF Respond
<1>2. b \in Seq(BOOLEAN) /\ Len(b) = Len(tunnel[t].awaits) - 1
  <2>1. \A c \in Seq(BOOLEAN) : c # <<>> => Tail(c) \in Seq(BOOLEAN) /\ Len(Tail(c)) = Len(c) - 1
    OBVIOUS
  <2>2. QED
    BY <1>1, <2>1
<1>3. tunnel' = [tunnel EXCEPT ![t].awaits = b]
  BY DEF Respond
<1>4. Awaits(t, b)
  BY <1>2, <1>3, AwaitsIs
<1>5. HolderOf(t) \in Meter
  BY <1>1, AwaitingHasHolder
<1>6. /\ \/ Head(tunnel[t].awaits) /\ Settle(HolderOf(t), <<billable>>)
         \/ ~Head(tunnel[t].awaits) /\ UNCHANGED <<users, current, calls>>
      /\ UNCHANGED <<meter, config, ledger, stood>>
  BY DEF Respond
<1>7. QED
  BY <1>1, <1>2, <1>4, <1>5, <1>6

LEMMA EndIs ==
    ASSUME TypeOK, Held, Connected, NEW t \in Tunnel, End(t)
    PROVE  /\ HolderOf(t) \in Meter
           /\ \E billable \in Seq(BOOLEAN) :
                /\ Len(billable) = Cardinality(Marks(tunnel[t].awaits))
                /\ Settle(HolderOf(t), billable)
           /\ tunnel' = [tunnel EXCEPT ![t] = tunnel'[t]] /\ tunnel'[t] \in MeteredTunnel
           /\ tunnel'[t].meter = Null /\ tunnel'[t].awaits = <<>>
           /\ UNCHANGED <<meter, config, ledger, stood>>
<1>1. HolderOf(t) \in Meter
  BY HolderTypes DEF End
<1>2. Cardinality(Marks(tunnel[t].awaits)) \in Nat
  BY TunnelTypes, MarksAreFinite
<1>3. PICK billable \in [1..Cardinality(Marks(tunnel[t].awaits)) -> BOOLEAN] :
        Settle(HolderOf(t), billable)
  BY DEF End
<1>4. billable \in Seq(BOOLEAN) /\ Len(billable) = Cardinality(Marks(tunnel[t].awaits))
  <2>1. \A k \in Nat : \A b \in [1..k -> BOOLEAN] : b \in Seq(BOOLEAN) /\ Len(b) = k
    OBVIOUS
  <2>2. QED
    BY <1>2, <2>1
<1>5. /\ tunnel' = [tunnel EXCEPT ![t] = NoTunnel]
      /\ UNCHANGED <<meter, config, ledger, stood>>
  BY DEF End
<1>6. NoTunnel \in MeteredTunnel /\ NoTunnel.meter = Null /\ NoTunnel.awaits = <<>>
  <2>1. NoTunnel.meter = Null /\ NoTunnel.awaits = <<>>
    BY Zenon DEF NoTunnel
  <2>2. NoTunnel \in MeteredTunnel
    BY DEF NoTunnel, MeteredTunnel
  <2>3. QED
    BY <2>1, <2>2
<1>7. tunnel'[t] = NoTunnel
  BY <1>5, Types
<1>8. QED
  BY <1>1, <1>3, <1>4, <1>5, <1>6, <1>7

LEMMA TunnelStepTypes ==
    ASSUME TypeOK, Held, Connected, NEW t \in Tunnel,
           \/ AskPlain(t) \/ AskTooMuch(t)
           \/ \E billable \in BOOLEAN : Respond(t, billable)
           \/ End(t)
    PROVE  TypeOK'
<1>0. /\ Len(tunnel[t].awaits) <= MaxOutstanding /\ Len(tunnel[t].awaits) \in Nat
      /\ MaxOutstanding \in Nat
  BY TunnelTypes, Bounds
<1>1. CASE AskPlain(t) \/ AskTooMuch(t)
  <2>1. PICK b : Awaits(t, b) /\ Len(b) <= MaxOutstanding
    <3>1. CASE AskPlain(t)
      <4>1. /\ Awaits(t, Append(tunnel[t].awaits, FALSE))
            /\ Len(Append(tunnel[t].awaits, FALSE)) = Len(tunnel[t].awaits) + 1
            /\ Len(tunnel[t].awaits) < MaxOutstanding
        BY <3>1, AskPlainIs
      <4>2. Len(Append(tunnel[t].awaits, FALSE)) <= MaxOutstanding
        BY <1>0, <4>1
      <4>3. QED
        BY <4>1, <4>2, Zenon
    <3>2. CASE AskTooMuch(t)
      BY <1>0, <3>2, AskTooMuchIs
    <3>3. QED
      BY <1>1, <3>1, <3>2
  <2>2. UNCHANGED <<users, current, meter, config, calls, ledger, stood>>
    BY <1>1, AskPlainIs, AskTooMuchIs
  <2>3. QED
    BY <2>1, <2>2, TunnelAlone, Types DEF Awaits
<1>2. ASSUME NEW billable \in BOOLEAN, Respond(t, billable)
      PROVE  TypeOK'
  <2>1. /\ Awaits(t, Tail(tunnel[t].awaits)) /\ HolderOf(t) \in Meter
        /\ Len(Tail(tunnel[t].awaits)) = Len(tunnel[t].awaits) - 1
        /\ UNCHANGED <<meter, config, ledger, stood>>
        /\ \/ Settle(HolderOf(t), <<billable>>)
           \/ UNCHANGED <<users, current, calls>>
    BY <1>2, RespondIs
  <2>2. <<billable>> \in Seq(BOOLEAN)
    OBVIOUS
  <2>3. /\ users' \in [Meter -> User] /\ current' \in Meter \union {Null}
        /\ calls' \in Seq(Call)
    BY <2>1, <2>2, SettleTypes, Types
  <2>4. Len(Tail(tunnel[t].awaits)) <= MaxOutstanding
    BY <1>0, <2>1, Bounds
  <2>5. QED
    BY <2>1, <2>3, <2>4, TunnelAlone DEF Awaits
<1>3. CASE End(t)
  <2>1. PICK billable \in Seq(BOOLEAN) : Settle(HolderOf(t), billable)
    BY <1>3, EndIs
  <2>2. /\ HolderOf(t) \in Meter /\ tunnel'[t].awaits = <<>>
        /\ tunnel' = [tunnel EXCEPT ![t] = tunnel'[t]] /\ tunnel'[t] \in MeteredTunnel
        /\ UNCHANGED <<meter, config, ledger, stood>>
    BY <1>3, EndIs
  <2>3. /\ users' \in [Meter -> User] /\ current' \in Meter \union {Null}
        /\ calls' \in Seq(Call)
    BY <2>1, <2>2, SettleTypes
  <2>4. Len(tunnel'[t].awaits) <= MaxOutstanding
    BY <2>2, Bounds
  <2>5. QED
    BY <2>2, <2>3, <2>4, TunnelAlone
<1>4. QED
  BY <1>1, <1>2, <1>3

-----------------------------------------------------------------------------
(* Sessions and the hub's map: whoever holds an open meter, or is opening one, finds
   the person's state in the map. *)
Alive(m) == meter[m].session # Null /\ ~meter[m].closed
InMap ==
  \A m \in Meter : Alive(m) =>
    meter[m].user = current /\ meter[m].session \in users[current].sessions

\* The check an open awaits is the one of its own meter.
Asked ==
  \A i \in DOMAIN calls :
    calls[i].for # Null =>
      /\ meter[calls[i].for].user = calls[i].user
      /\ config[meter[calls[i].for].session] # calls[i].for

\* A state that has left the map has no call in flight.
AtRest == \A n \in Meter : n # current => users[n].inFlight = 0

\* A call that was not passed by an answer has no passed one behind it.
LateFirst ==
  \A i, j \in DOMAIN calls :
    j < i /\ calls[j].user = calls[i].user /\ calls[i].late => calls[j].late

LEMMA KeepsMeters ==
    ASSUME Held, Published, UNCHANGED <<meter, config, stood>>
    PROVE  Held' /\ Published'
  BY DEF Held, Published

LEMMA KeepsConnected ==
    ASSUME TypeOK, Connected, meter' = meter, NEW t \in Tunnel,
           tunnel' = [tunnel EXCEPT ![t] = tunnel'[t]],
           IF tunnel'[t].meter = Null THEN tunnel'[t].awaits = <<>>
                                      ELSE meter[tunnel'[t].meter].session # Null
    PROVE  Connected'
<1>1. \A x \in Tunnel : x # t => tunnel'[x] = tunnel[x]
  BY Types
<1>2. QED
  BY <1>1 DEF Connected

\* What a step keeps or adds is a call that was there, or one no open awaits.
SameAsking ==
  \A i \in DOMAIN calls' :
    \/ calls'[i].for = Null
    \/ \E j \in DOMAIN calls : calls'[i].for = calls[j].for /\ calls'[i].user = calls[j].user

LEMMA KeepsAsked ==
    ASSUME Asked, UNCHANGED <<meter, config>>, SameAsking
    PROVE  Asked'
  BY DEF Asked, SameAsking

LEMMA AliveHolds ==
    ASSUME TypeOK, Held, InMap, NEW m \in Meter, Alive(m)
    PROVE  current \in Meter /\ meter[m].user = current /\ meter[m].session \in Session
  BY Types, MeterTypes, NullIsNone DEF Held, InMap, Alive

LEMMA KeepsInMap ==
    ASSUME TypeOK, Held, InMap, meter' = meter, NEW n, Alters(n)
    PROVE  InMap'
<1> SUFFICES ASSUME NEW m \in Meter, Alive(m)
             PROVE  meter[m].user = current' /\ meter[m].session \in users'[current'].sessions
  BY DEF InMap, Alive
<1>1. /\ current \in Meter /\ meter[m].user = current
      /\ meter[m].session \in users[current].sessions
  BY AliveHolds DEF InMap
<1>2. users'[current].sessions = users[current].sessions
  BY <1>1, Types DEF Alters
<1>3. current' = current
  BY <1>1, <1>2 DEF Alters
<1>4. QED
  BY <1>1, <1>2, <1>3

LEMMA KeepsAtRest ==
    ASSUME TypeOK, AtRest, NEW n, Alters(n),
           users'[n].inFlight <= users[n].inFlight \/ n = current'
    PROVE  AtRest'
<1> SUFFICES ASSUME NEW x \in Meter, x # current'
             PROVE  users'[x].inFlight = 0
  BY DEF AtRest
<1>1. CASE x # n
  <2>1. users'[x] = users[x]
    BY <1>1, Types DEF Alters
  <2>2. x # current
    BY <1>1 DEF Alters
  <2>3. QED
    BY <2>1, <2>2 DEF AtRest
<1>2. CASE x = n
  <2>1. users[n].inFlight \in Nat /\ users'[n].inFlight \in Nat
    BY Types, Bounds DEF Alters, User
  <2>2. CASE current' = Null /\ current = n /\ users'[n].inFlight = 0
    BY <1>2, <2>2
  <2>3. CASE current' = current
    <3>1. users[n].inFlight = 0
      BY <1>2, <2>3 DEF AtRest
    <3>2. users'[n].inFlight <= users[n].inFlight
      BY <1>2
    <3>3. QED
      BY <1>2, <2>1, <3>1, <3>2
  <2>4. QED
    BY <2>2, <2>3 DEF Alters
<1>3. QED
  BY <1>1, <1>2

LEMMA AppendedIs ==
    ASSUME NEW S, NEW a \in Seq(S), NEW b \in Seq(S)
    PROVE  /\ a \o b \in Seq(S) /\ Len(a \o b) = Len(a) + Len(b)
           /\ DOMAIN (a \o b) = 1..(Len(a) + Len(b))
           /\ \A i \in 1..Len(a) : (a \o b)[i] = a[i]
           /\ \A i \in (Len(a) + 1)..(Len(a) + Len(b)) :
                i - Len(a) \in 1..Len(b) /\ (a \o b)[i] = b[i - Len(a)]
  OBVIOUS

-----------------------------------------------------------------------------
(* Slots and the calls that hold them. *)
LEMMA MarksAppended ==
    ASSUME NEW b \in Seq(BOOLEAN), NEW x \in BOOLEAN, IsFiniteSet(Marks(b))
    PROVE  /\ IsFiniteSet(Marks(Append(b, x)))
           /\ Cardinality(Marks(Append(b, x)))
                = IF x THEN Cardinality(Marks(b)) + 1 ELSE Cardinality(Marks(b))
<1>1. /\ DOMAIN b = 1..Len(b) /\ DOMAIN Append(b, x) = 1..(Len(b) + 1) /\ Len(b) \in Nat
      /\ \A i \in 1..Len(b) : Append(b, x)[i] = b[i]
      /\ Append(b, x)[Len(b) + 1] = x
  OBVIOUS
<1>2. Marks(Append(b, x)) = IF x THEN Marks(b) \union {Len(b) + 1} ELSE Marks(b)
  BY <1>1 DEF Marks
<1>3. Len(b) + 1 \notin Marks(b)
  BY <1>1 DEF Marks
<1>4. QED
  BY <1>2, <1>3, FS_AddElement

LEMMA MarksOfTail ==
    ASSUME NEW b \in Seq(BOOLEAN), b # <<>>, IsFiniteSet(Marks(b))
    PROVE  /\ IsFiniteSet(Marks(Tail(b)))
           /\ Cardinality(Marks(Tail(b)))
                = IF Head(b) THEN Cardinality(Marks(b)) - 1 ELSE Cardinality(Marks(b))
<1> DEFINE S == Marks(b) \ {1}
           T == Marks(Tail(b))
           f == [k \in S |-> k - 1]
<1>1. /\ DOMAIN b = 1..Len(b) /\ Len(b) \in Nat /\ Len(b) > 0
      /\ DOMAIN Tail(b) = 1..(Len(b) - 1)
      /\ \A i \in 1..(Len(b) - 1) : Tail(b)[i] = b[i + 1]
      /\ Head(b) = b[1]
  OBVIOUS
<1>2. S = {i \in 2..Len(b) : b[i]} /\ T = {i \in 1..(Len(b) - 1) : b[i + 1]}
  BY <1>1 DEF Marks
<1> HIDE DEF S, T
<1>3. f \in Bijection(S, T)
  <2>1. \A k \in S : k - 1 \in T
    BY <1>1, <1>2
  <2>2. f \in Injection(S, T)
    BY <1>2, <2>1 DEF Injection, IsInjective
  <2>3. \A i \in T : i + 1 \in S /\ f[i + 1] = i
    BY <1>1, <1>2
  <2>4. QED
    BY <2>1, <2>2, <2>3 DEF Bijection, Surjection
<1>4. ExistsBijection(S, T)
  BY <1>3 DEF ExistsBijection
<1>5. IsFiniteSet(S) /\ Cardinality(S) = IF b[1] THEN Cardinality(Marks(b)) - 1 ELSE Cardinality(Marks(b))
  <2>1. 1 \in Marks(b) <=> b[1]
    BY <1>1 DEF Marks
  <2>2. QED
    BY <2>1, FS_RemoveElement DEF S
<1>6. QED
  BY <1>1, <1>4, <1>5, FS_Bijection DEF T

\* The slots of a person's state, of any tunnels and meters.
SlotsOf(tun, met, n) ==
  {a \in Tunnel \X (1..MaxOutstanding) :
     a[2] \in Marks(tun[a[1]].awaits) /\ met[tun[a[1]].meter].user = n}

LEMMA SlotsAre ==
    /\ \A n : AdmittedBy(n) = SlotsOf(tunnel, meter, n)
    /\ \A n : AdmittedBy(n)' = SlotsOf(tunnel', meter', n')
<1>1. \A n : AdmittedBy(n) = SlotsOf(tunnel, meter, n)
  BY DEF AdmittedBy, Admitted, HolderOf, SlotsOf
<1>2. \A n : AdmittedBy(n)' = SlotsOf(tunnel', meter', n')
  BY DEF AdmittedBy, Admitted, HolderOf, SlotsOf
<1>3. QED
  BY <1>1, <1>2

\* Tunnels whose number of outstanding requests keeps its bound.
Bounded(tun) ==
  /\ tun \in [Tunnel -> MeteredTunnel]
  /\ \A t \in Tunnel : Len(tun[t].awaits) <= MaxOutstanding

MineOf(tun, met, t, n) == IF met[tun[t].meter].user = n THEN Marks(tun[t].awaits) ELSE {}

LEMMA SlotsSplit ==
    ASSUME NEW tun, Bounded(tun), NEW met, NEW t \in Tunnel, NEW n,
           NEW R, R = {a \in SlotsOf(tun, met, n) : a[1] # t}, IsFiniteSet(R)
    PROVE  /\ IsFiniteSet(SlotsOf(tun, met, n))
           /\ IsFiniteSet(MineOf(tun, met, t, n))
           /\ Cardinality(SlotsOf(tun, met, n)) = Cardinality(R) + Cardinality(MineOf(tun, met, t, n))
<1> DEFINE M == MineOf(tun, met, t, n)
<1>1. tun[t].awaits \in Seq(BOOLEAN) /\ Len(tun[t].awaits) <= MaxOutstanding
      /\ MaxOutstanding \in Nat
  BY Bounds DEF Bounded, MeteredTunnel
<1>2. M \subseteq 1..MaxOutstanding
  <2>1. Marks(tun[t].awaits) \subseteq 1..Len(tun[t].awaits) /\ Len(tun[t].awaits) \in Nat
    BY <1>1 DEF Marks
  <2>2. M \subseteq Marks(tun[t].awaits)
    BY DEF MineOf
  <2>3. QED
    BY <1>1, <2>1, <2>2
<1>3. IsFiniteSet(M)
  <2>1. IsFiniteSet(1..MaxOutstanding)
    BY <1>1, FS_Interval
  <2>2. M \in SUBSET (1..MaxOutstanding)
    BY <1>2
  <2>3. QED
    BY <2>1, <2>2, FS_Subset
<1>4. SlotsOf(tun, met, n) = R \union ({t} \X M)
  <2>1. \A a \in {t} \X M : a \in Tunnel \X (1..MaxOutstanding) /\ a[1] = t /\ a[2] \in M
    BY <1>2
  <2>2. \A a \in {t} \X M : a \in SlotsOf(tun, met, n)
    BY <2>1 DEF SlotsOf, MineOf
  <2>3. \A a \in SlotsOf(tun, met, n) : a[1] = t => a \in {t} \X M
    BY DEF SlotsOf, MineOf
  <2>4. QED
    BY <2>2, <2>3
<1>5. IsFiniteSet({t} \X M) /\ Cardinality({t} \X M) = Cardinality(M)
  <2>1. IsFiniteSet({t}) /\ Cardinality({t}) = 1
    BY FS_Singleton
  <2>2. Cardinality(M) \in Nat
    BY <1>3, FS_CardinalityType
  <2>3. IsFiniteSet({t} \X M) /\ Cardinality({t} \X M) = Cardinality({t}) * Cardinality(M)
    BY <1>3, <2>1, FS_Product
  <2>4. QED
    BY <2>1, <2>2, <2>3
<1>6. R \intersect ({t} \X M) = {}
  <2>1. \A a \in R : a[1] # t
    OBVIOUS
  <2>2. \A a \in {t} \X M : a[1] = t
    OBVIOUS
  <2>3. QED
    BY <2>1, <2>2
<1>7. Cardinality(R) \in Nat /\ Cardinality(M) \in Nat
  BY <1>3, FS_CardinalityType
<1>8. /\ IsFiniteSet(R \union ({t} \X M))
      /\ Cardinality(R \union ({t} \X M)) = Cardinality(R) + Cardinality({t} \X M)
                                              - Cardinality(R \intersect ({t} \X M))
  BY <1>5, FS_Union
<1>9. Cardinality(R \intersect ({t} \X M)) = 0
  BY <1>6, FS_EmptySet
<1> HIDE DEF M
<1>10. Cardinality(R \union ({t} \X M)) = Cardinality(R) + Cardinality(M)
  BY <1>5, <1>7, <1>8, <1>9
<1>11. QED
  BY <1>3, <1>4, <1>8, <1>10 DEF M

LEMMA SlotsChange ==
    ASSUME NEW tun, Bounded(tun), NEW new, Bounded(new), NEW met, NEW t \in Tunnel,
           \A x \in Tunnel : x # t => new[x] = tun[x],
           NEW n, IsFiniteSet(SlotsOf(tun, met, n))
    PROVE  /\ IsFiniteSet(SlotsOf(new, met, n))
           /\ Cardinality(SlotsOf(new, met, n)) \in Nat
           /\ Cardinality(MineOf(tun, met, t, n)) \in Nat
           /\ Cardinality(MineOf(new, met, t, n)) \in Nat
           /\ Cardinality(SlotsOf(new, met, n)) = Cardinality(SlotsOf(tun, met, n))
                - Cardinality(MineOf(tun, met, t, n)) + Cardinality(MineOf(new, met, t, n))
<1> DEFINE R == {a \in SlotsOf(tun, met, n) : a[1] # t}
<1>1. R = {a \in SlotsOf(new, met, n) : a[1] # t}
  BY DEF SlotsOf
<1>2. IsFiniteSet(R)
  BY FS_Subset
<1> HIDE DEF R
<1>3. /\ IsFiniteSet(MineOf(tun, met, t, n))
      /\ Cardinality(SlotsOf(tun, met, n)) = Cardinality(R) + Cardinality(MineOf(tun, met, t, n))
  BY <1>2, SlotsSplit DEF R
<1>4. /\ IsFiniteSet(SlotsOf(new, met, n)) /\ IsFiniteSet(MineOf(new, met, t, n))
      /\ Cardinality(SlotsOf(new, met, n)) = Cardinality(R) + Cardinality(MineOf(new, met, t, n))
  BY <1>1, <1>2, SlotsSplit
<1>5. /\ Cardinality(R) \in Nat /\ Cardinality(MineOf(tun, met, t, n)) \in Nat
      /\ Cardinality(MineOf(new, met, t, n)) \in Nat /\ Cardinality(SlotsOf(new, met, n)) \in Nat
  BY <1>2, <1>3, <1>4, FS_CardinalityType
<1>6. QED
  BY <1>3, <1>4, <1>5
\* Every slot of a person's state is a request whose answer is awaited.
Slots ==
  \A n \in Meter :
    IsFiniteSet(AdmittedBy(n)) /\ users[n].inFlight = Cardinality(AdmittedBy(n))

LEMMA TypesBounded ==
    ASSUME TypeOK
    PROVE  Bounded(tunnel)
  BY DEF TypeOK, Bounded

LEMMA TypesBoundedNext ==
    ASSUME TypeOK'
    PROVE  Bounded(tunnel')
  BY DEF TypeOK, Bounded

LEMMA KeepsSlots ==
    ASSUME TypeOK, TypeOK', Slots, meter' = meter, NEW t \in Tunnel,
           \A x \in Tunnel : x # t => tunnel'[x] = tunnel[x],
           \A n \in Meter : users'[n].inFlight = users[n].inFlight
              - Cardinality(MineOf(tunnel, meter, t, n)) + Cardinality(MineOf(tunnel', meter, t, n))
    PROVE  Slots'
<1> SUFFICES ASSUME NEW n \in Meter
             PROVE  /\ IsFiniteSet(SlotsOf(tunnel', meter, n))
                    /\ users'[n].inFlight = Cardinality(SlotsOf(tunnel', meter, n))
  BY SlotsAre DEF Slots
<1>1. Bounded(tunnel) /\ Bounded(tunnel')
  BY TypesBounded, TypesBoundedNext
<1>2. IsFiniteSet(SlotsOf(tunnel, meter, n)) /\ users[n].inFlight = Cardinality(SlotsOf(tunnel, meter, n))
  BY SlotsAre DEF Slots
<1>3. /\ IsFiniteSet(SlotsOf(tunnel', meter, n))
      /\ Cardinality(SlotsOf(tunnel', meter, n)) = Cardinality(SlotsOf(tunnel, meter, n))
           - Cardinality(MineOf(tunnel, meter, t, n)) + Cardinality(MineOf(tunnel', meter, t, n))
  BY <1>1, <1>2, SlotsChange
<1>4. QED
  BY <1>2, <1>3

\* A person has as many slots as one of their tunnels awaits answers, or more.
LEMMA MineWithin ==
    ASSUME TypeOK, Slots, NEW t \in Tunnel, HolderOf(t) \in Meter
    PROVE  Cardinality(Marks(tunnel[t].awaits)) <= users[HolderOf(t)].inFlight
<1> DEFINE n == HolderOf(t)
           R == {a \in SlotsOf(tunnel, meter, n) : a[1] # t}
<1>1. IsFiniteSet(SlotsOf(tunnel, meter, n)) /\ users[n].inFlight = Cardinality(SlotsOf(tunnel, meter, n))
  BY SlotsAre DEF Slots
<1>2. IsFiniteSet(R)
  BY <1>1, FS_Subset
<1>3. MineOf(tunnel, meter, t, n) = Marks(tunnel[t].awaits)
  BY DEF MineOf, HolderOf
<1> HIDE DEF n
<1>4. /\ Cardinality(SlotsOf(tunnel, meter, n)) = Cardinality(R) + Cardinality(Marks(tunnel[t].awaits))
      /\ IsFiniteSet(Marks(tunnel[t].awaits))
  BY <1>2, <1>3, TypesBounded, SlotsSplit
<1>5. Cardinality(R) \in Nat /\ Cardinality(Marks(tunnel[t].awaits)) \in Nat
  BY <1>2, <1>4, FS_CardinalityType
<1>6. QED
  BY <1>1, <1>4, <1>5 DEF n

\* A step of a tunnel whose requests count as what the person's slots become.
LEMMA KeepsSlotsOf ==
    ASSUME TypeOK, TypeOK', Slots, meter' = meter, NEW t \in Tunnel,
           NEW b \in Seq(BOOLEAN), Awaits(t, b),
           \A n \in Meter : n # HolderOf(t) => users'[n].inFlight = users[n].inFlight,
           HolderOf(t) \in Meter => users'[HolderOf(t)].inFlight = users[HolderOf(t)].inFlight
              - Cardinality(Marks(tunnel[t].awaits)) + Cardinality(Marks(b))
    PROVE  Slots'
<1>1. \A x \in Tunnel : x # t => tunnel'[x] = tunnel[x]
  BY Types DEF Awaits
<1>2. ASSUME NEW n \in Meter
      PROVE  users'[n].inFlight = users[n].inFlight
               - Cardinality(MineOf(tunnel, meter, t, n)) + Cardinality(MineOf(tunnel', meter, t, n))
  <2>1. CASE n = HolderOf(t)
    <3>1. /\ MineOf(tunnel, meter, t, n) = Marks(tunnel[t].awaits)
          /\ MineOf(tunnel', meter, t, n) = Marks(b)
      BY <2>1 DEF MineOf, HolderOf, Awaits
    <3>2. QED
      BY <2>1, <3>1
  <2>2. CASE n # HolderOf(t)
    <3>1. MineOf(tunnel, meter, t, n) = {} /\ MineOf(tunnel', meter, t, n) = {}
      BY <2>2 DEF MineOf, HolderOf, Awaits
    <3>2. users[n].inFlight \in Int
      BY Types, Bounds DEF User
    <3>3. QED
      BY <2>2, <3>1, <3>2, FS_EmptySet
  <2>3. QED
    BY <2>1, <2>2
<1>3. QED
  BY <1>1, <1>2, KeepsSlots

\* A step that leaves every slot and every request where it was.
LEMMA KeepsAdmitted ==
    ASSUME Slots, tunnel' = tunnel,
           \A t \in Tunnel : tunnel[t].awaits # <<>> =>
              meter'[tunnel[t].meter].user = meter[tunnel[t].meter].user,
           \A n \in Meter : users'[n].inFlight = users[n].inFlight
    PROVE  Slots'
<1> SUFFICES ASSUME NEW n \in Meter
             PROVE  SlotsOf(tunnel', meter', n) = SlotsOf(tunnel, meter, n)
  BY SlotsAre DEF Slots
<1>1. \A t \in Tunnel : \A k : k \in Marks(tunnel[t].awaits) => tunnel[t].awaits # <<>>
  BY DEF Marks
<1>2. QED
  BY <1>1 DEF SlotsOf

-----------------------------------------------------------------------------
(* The invariant but for the blocks: every action keeps it. *)
Core ==
  TypeOK /\ Held /\ Published /\ Connected /\ Asked /\ InMap /\ AtRest /\ Slots /\ LateFirst

LEMMA CalmKeeps ==
    ASSUME Core, TypeOK', UNCHANGED <<meter, config, stood>>, Connected', SameAsking, LateFirst',
           NEW n, Alters(n), users'[n].inFlight <= users[n].inFlight \/ n = current', Slots'
    PROVE  Core'
<1>1. Held' /\ Published'
  BY KeepsMeters DEF Core
<1>2. Asked'
  BY KeepsAsked DEF Core
<1>3. InMap' /\ AtRest'
  BY KeepsInMap, KeepsAtRest DEF Core
<1>4. QED
  BY <1>1, <1>2, <1>3 DEF Core

LEMMA StillAlters ==
    ASSUME TypeOK, NEW n \in Meter, UNCHANGED <<users, current>>
    PROVE  /\ Alters(n) /\ users'[n].inFlight <= users[n].inFlight
           /\ \A x \in Meter : users'[x].inFlight = users[x].inFlight
           /\ \A x \in Meter : users[x].inFlight \in Nat
<1>1. users[n] \in User /\ users' = [users EXCEPT ![n] = users'[n]]
  BY Types
<1>2. \A x \in Meter : users[x].inFlight \in Nat
  BY Types, Bounds DEF User
<1>3. QED
  BY <1>1, <1>2 DEF Alters

\* Calls that are added at the end, and no answer has passed yet.
Grows(new) ==
  /\ new \in Seq(Call) /\ calls' = calls \o new
  /\ \A i \in 1..Len(new) : ~new[i].late

LEMMA GrowsIs ==
    ASSUME TypeOK, NEW new, Grows(new)
    PROVE  /\ Len(calls) \in Nat /\ Len(calls') = Len(calls) + Len(new) /\ Len(new) \in Nat
           /\ DOMAIN calls = 1..Len(calls) /\ DOMAIN calls' = 1..(Len(calls) + Len(new))
           /\ \A i \in 1..Len(calls) : calls'[i] = calls[i]
           /\ \A i \in DOMAIN calls' : i \notin 1..Len(calls) =>
                i - Len(calls) \in 1..Len(new) /\ calls'[i] = new[i - Len(calls)]
<1>1. calls \in Seq(Call) /\ new \in Seq(Call) /\ calls' = calls \o new
  BY Types DEF Grows
<1>2. /\ Len(calls \o new) = Len(calls) + Len(new)
      /\ DOMAIN (calls \o new) = 1..(Len(calls) + Len(new))
      /\ \A i \in 1..Len(calls) : (calls \o new)[i] = calls[i]
      /\ \A i \in (Len(calls) + 1)..(Len(calls) + Len(new)) :
           i - Len(calls) \in 1..Len(new) /\ (calls \o new)[i] = new[i - Len(calls)]
  BY <1>1, AppendedIs
<1>3. Len(calls) \in Nat /\ Len(new) \in Nat /\ DOMAIN calls = 1..Len(calls)
  BY <1>1
<1>4. \A i \in 1..(Len(calls) + Len(new)) : i \notin 1..Len(calls) =>
        i \in (Len(calls) + 1)..(Len(calls) + Len(new))
  BY <1>3
<1>5. QED
  BY <1>1, <1>2, <1>3, <1>4

LEMMA GrowsLateFirst ==
    ASSUME TypeOK, LateFirst, NEW new, Grows(new)
    PROVE  LateFirst'
<1> SUFFICES ASSUME NEW i \in DOMAIN calls', NEW j \in DOMAIN calls', j < i,
                    calls'[j].user = calls'[i].user, calls'[i].late
             PROVE  calls'[j].late
  BY DEF LateFirst
<1>1. i \in 1..Len(calls)
  <2>1. \A k \in 1..Len(new) : ~new[k].late
    BY DEF Grows
  <2>2. i \notin 1..Len(calls) => i - Len(calls) \in 1..Len(new) /\ calls'[i] = new[i - Len(calls)]
    BY GrowsIs
  <2>3. QED
    BY <2>1, <2>2
<1>2. j \in 1..Len(calls)
  BY <1>1, GrowsIs
<1>3. calls'[i] = calls[i] /\ calls'[j] = calls[j]
  BY <1>1, <1>2, GrowsIs
<1>4. QED
  BY <1>1, <1>2, <1>3, GrowsIs DEF LateFirst

LEMMA GrowsAsking ==
    ASSUME TypeOK, NEW new, Grows(new), \A i \in 1..Len(new) : new[i].for = Null
    PROVE  SameAsking
<1> SUFFICES ASSUME NEW i \in DOMAIN calls'
             PROVE  \/ calls'[i].for = Null
                    \/ \E j \in DOMAIN calls : calls'[i].for = calls[j].for
                                               /\ calls'[i].user = calls[j].user
  BY DEF SameAsking
<1>1. CASE i \in 1..Len(calls)
  BY <1>1, GrowsIs
<1>2. CASE i \notin 1..Len(calls)
  BY <1>2, GrowsIs
<1>3. QED
  BY <1>1, <1>2

LEMMA SettleGrows ==
    ASSUME NEW n \in Meter, NEW k \in Nat
    PROVE  /\ Records(n, k) \in Seq(Call)
           /\ \A i \in 1..Len(Records(n, k)) :
                ~Records(n, k)[i].late /\ Records(n, k)[i].for = Null
<1>1. Records(n, k) \in Seq(Call) /\ Len(Records(n, k)) = k
  BY RecordsTypes
<1>2. RecordCall(n).for = Null /\ ~RecordCall(n).late
  BY Zenon DEF RecordCall
<1>3. QED
  BY <1>1, <1>2 DEF Records

LEMMA StatusGrows ==
    ASSUME NEW n \in Meter, NEW m \in Meter \union {Null}
    PROVE  /\ <<StatusCall(n, m)>> \in Seq(Call)
           /\ \A i \in 1..Len(<<StatusCall(n, m)>>) :
                /\ ~<<StatusCall(n, m)>>[i].late /\ <<StatusCall(n, m)>>[i].for = m
                /\ <<StatusCall(n, m)>>[i].user = n /\ <<StatusCall(n, m)>>[i].at = 1
<1>1. /\ StatusCall(n, m).for = m /\ ~StatusCall(n, m).late /\ StatusCall(n, m).user = n
      /\ StatusCall(n, m).at = 1
  BY Zenon DEF StatusCall
<1>2. QED
  BY <1>1, StatusTypes

\* A settle gives back the slots of the calls it settles, and records some of them.
LEMMA SettleKeeps ==
    ASSUME Core, NEW n \in Meter, NEW b \in Seq(BOOLEAN), Settle(n, b)
    PROVE  /\ Alters(n) /\ users'[n].inFlight <= users[n].inFlight
           /\ Len(b) <= users[n].inFlight => users'[n].inFlight = users[n].inFlight - Len(b)
           /\ \A x \in Meter : x # n => users'[x].inFlight = users[x].inFlight
           /\ SameAsking /\ LateFirst'
<1>1. PICK k \in Nat : calls' = calls \o Records(n, k)
  BY SettleIs DEF Core
<1>2. Grows(Records(n, k)) /\ \A i \in 1..Len(Records(n, k)) : Records(n, k)[i].for = Null
  BY <1>1, SettleGrows DEF Grows
<1>3. SameAsking /\ LateFirst'
  BY <1>2, GrowsAsking, GrowsLateFirst DEF Core
<1>4. Alters(n) /\ users'[n].inFlight = Less(users[n].inFlight, Len(b))
  BY SettleIs DEF Core
<1>5. users[n].inFlight \in Nat /\ Len(b) \in Nat
  BY Types, Bounds DEF User, Core
<1>6. \A x \in Meter : x # n => users'[x].inFlight = users[x].inFlight
  BY <1>4, Types DEF Alters, Core
<1>7. QED
  BY <1>3, <1>4, <1>5, <1>6 DEF Less

LEMMA InFlightTypes ==
    ASSUME TypeOK
    PROVE  \A n \in Meter : users[n].inFlight \in Nat
  BY Types, Bounds DEF User

LEMMA SameCallsKeep ==
    ASSUME LateFirst, calls' = calls
    PROVE  SameAsking /\ LateFirst'
  BY DEF SameAsking, LateFirst

LEMMA ConnectKeeps ==
    ASSUME Core, NEW t \in Tunnel, NEW s \in Session, Connect(t, s)
    PROVE  Core'
<1>1. /\ tunnel[t].awaits = <<>> /\ tunnel'[t].awaits = <<>>
      /\ tunnel'[t].meter \in Meter /\ meter[tunnel'[t].meter].session = s
      /\ tunnel' = [tunnel EXCEPT ![t] = tunnel'[t]]
      /\ UNCHANGED <<users, current, meter, config, calls, ledger, stood>>
  BY ConnectIs DEF Core
<1>2. TypeOK'
  BY ConnectTypes DEF Core
<1>3. Connected'
  BY <1>1, NullIsNone, KeepsConnected DEF Core
<1>4. Slots'
  <2>1. \A n \in Meter : MineOf(tunnel, meter, t, n) = {} /\ MineOf(tunnel', meter, t, n) = {}
    BY <1>1 DEF MineOf, Marks
  <2>2. \A n \in Meter : users[n].inFlight \in Nat
    BY InFlightTypes DEF Core
  <2>6. Cardinality({}) = 0
    BY FS_EmptySet
  <2>3. ASSUME NEW n \in Meter
        PROVE  users'[n].inFlight = users[n].inFlight
            - Cardinality(MineOf(tunnel, meter, t, n)) + Cardinality(MineOf(tunnel', meter, t, n))
    <3>1. /\ Cardinality(MineOf(tunnel, meter, t, n)) = 0
          /\ Cardinality(MineOf(tunnel', meter, t, n)) = 0
      BY <2>1, <2>6
    <3>2. QED
      BY <1>1, <2>2, <3>1
  <2>4. \A x \in Tunnel : x # t => tunnel'[x] = tunnel[x]
    BY <1>1, Types DEF Core
  <2>5. QED
    BY <1>1, <1>2, <2>3, <2>4, KeepsSlots DEF Core
<1>5. tunnel'[t].meter \in Meter
  BY <1>1
<1>6. SameAsking /\ LateFirst'
  BY <1>1, SameCallsKeep DEF Core
<1>7. Alters(tunnel'[t].meter)
      /\ users'[tunnel'[t].meter].inFlight <= users[tunnel'[t].meter].inFlight
  BY <1>1, StillAlters DEF Core
<1>8. QED
  BY <1>1, <1>2, <1>3, <1>4, <1>6, <1>7, CalmKeeps

LEMMA AwaitsConnected ==
    ASSUME TypeOK, Connected, meter' = meter, NEW t \in Tunnel, tunnel[t].meter # Null,
           NEW b, Awaits(t, b)
    PROVE  Connected'
<1>1. meter[tunnel[t].meter].session # Null
  BY DEF Connected
<1>2. QED
  BY <1>1, KeepsConnected DEF Awaits

LEMMA AskPlainKeeps ==
    ASSUME Core, NEW t \in Tunnel, AskPlain(t)
    PROVE  Core'
<1> DEFINE b == Append(tunnel[t].awaits, FALSE)
<1>1. /\ tunnel[t].meter # Null /\ Awaits(t, b)
      /\ UNCHANGED <<users, current, meter, config, calls, ledger, stood>>
  BY AskPlainIs DEF Core
<1>2. TypeOK'
  BY TunnelStepTypes DEF Core
<1>3. Connected' /\ HolderOf(t) \in Meter
  BY <1>1, AwaitsConnected, HolderTypes DEF Core
<1>4. b \in Seq(BOOLEAN) /\ Cardinality(Marks(b)) = Cardinality(Marks(tunnel[t].awaits))
      /\ Cardinality(Marks(tunnel[t].awaits)) \in Nat
  <2>1. tunnel[t].awaits \in Seq(BOOLEAN) /\ FALSE \in BOOLEAN
    BY TunnelTypes DEF Core
  <2>2. /\ IsFiniteSet(Marks(tunnel[t].awaits))
        /\ Cardinality(Marks(tunnel[t].awaits)) \in Nat
    BY <2>1, MarksAreFinite
  <2>3. Cardinality(Marks(b)) = IF FALSE THEN Cardinality(Marks(tunnel[t].awaits)) + 1
                                           ELSE Cardinality(Marks(tunnel[t].awaits))
    BY <2>1, <2>2, MarksAppended, Zenon
  <2>4. b \in Seq(BOOLEAN)
    BY <2>1
  <2>5. QED
    BY <2>2, <2>3, <2>4
<1> HIDE DEF b
<1>5. /\ Alters(HolderOf(t)) /\ users'[HolderOf(t)].inFlight <= users[HolderOf(t)].inFlight
      /\ \A x \in Meter : users'[x].inFlight = users[x].inFlight /\ users[x].inFlight \in Nat
  BY <1>1, <1>3, StillAlters DEF Core
<1>6. users'[HolderOf(t)].inFlight = users[HolderOf(t)].inFlight
         - Cardinality(Marks(tunnel[t].awaits)) + Cardinality(Marks(b))
  BY <1>3, <1>4, <1>5
<1>7. Slots'
  BY <1>1, <1>2, <1>4, <1>5, <1>6, KeepsSlotsOf DEF Core
<1>8. SameAsking /\ LateFirst'
  BY <1>1, SameCallsKeep DEF Core
<1>9. QED
  BY <1>1, <1>2, <1>3, <1>5, <1>7, <1>8, CalmKeeps

LEMMA AskTooMuchKeeps ==
    ASSUME Core, NEW t \in Tunnel, AskTooMuch(t)
    PROVE  Core'
<1> DEFINE b == tunnel[t].awaits
<1>1. /\ tunnel[t].meter # Null /\ Awaits(t, b)
      /\ UNCHANGED <<users, current, meter, config, calls, ledger, stood>>
  BY AskTooMuchIs DEF Core, AskTooMuch, Live
<1>2. TypeOK'
  BY TunnelStepTypes DEF Core
<1>3. Connected' /\ HolderOf(t) \in Meter
  BY <1>1, AwaitsConnected, HolderTypes DEF Core
<1>4. b \in Seq(BOOLEAN) /\ Cardinality(Marks(b)) \in Nat
  BY TunnelTypes, MarksAreFinite DEF Core
<1>5. /\ Alters(HolderOf(t)) /\ users'[HolderOf(t)].inFlight <= users[HolderOf(t)].inFlight
      /\ \A x \in Meter : users'[x].inFlight = users[x].inFlight /\ users[x].inFlight \in Nat
  BY <1>1, <1>3, StillAlters DEF Core
<1>6. users'[HolderOf(t)].inFlight = users[HolderOf(t)].inFlight
         - Cardinality(Marks(b)) + Cardinality(Marks(b))
  BY <1>3, <1>4, <1>5
<1>7. Slots'
  BY <1>1, <1>2, <1>4, <1>5, <1>6, KeepsSlotsOf DEF Core
<1>8. SameAsking /\ LateFirst'
  BY <1>1, SameCallsKeep DEF Core
<1>9. QED
  BY <1>1, <1>2, <1>3, <1>5, <1>7, <1>8, CalmKeeps

LEMMA RespondKeeps ==
    ASSUME Core, NEW t \in Tunnel, NEW billable \in BOOLEAN, Respond(t, billable)
    PROVE  Core'
<1> DEFINE b == Tail(tunnel[t].awaits)
           n == HolderOf(t)
<1>1. /\ tunnel[t].awaits # <<>> /\ Awaits(t, b) /\ b \in Seq(BOOLEAN) /\ n \in Meter
      /\ \/ Head(tunnel[t].awaits) /\ Settle(n, <<billable>>)
         \/ ~Head(tunnel[t].awaits) /\ UNCHANGED <<users, current, calls>>
      /\ UNCHANGED <<meter, config, ledger, stood>>
  BY RespondIs DEF Core
<1>2. TypeOK'
  BY TunnelStepTypes DEF Core
<1>3. Connected'
  BY <1>1, AwaitsConnected, AwaitingHasHolder DEF Core
<1>4. /\ Cardinality(Marks(tunnel[t].awaits)) \in Nat
      /\ Cardinality(Marks(tunnel[t].awaits)) <= users[n].inFlight
      /\ Cardinality(Marks(b)) = IF Head(tunnel[t].awaits)
                                    THEN Cardinality(Marks(tunnel[t].awaits)) - 1
                                    ELSE Cardinality(Marks(tunnel[t].awaits))
      /\ Cardinality(Marks(b)) \in Nat
  <2>1. tunnel[t].awaits \in Seq(BOOLEAN)
    BY TunnelTypes DEF Core
  <2>2. /\ IsFiniteSet(Marks(tunnel[t].awaits)) /\ Cardinality(Marks(tunnel[t].awaits)) \in Nat
        /\ Cardinality(Marks(b)) \in Nat
    BY <1>1, <2>1, MarksAreFinite
  <2>3. QED
    BY <1>1, <2>1, <2>2, MarksOfTail, MineWithin DEF Core
<1> HIDE DEF b, n
<1>5. users[n].inFlight \in Nat
  BY <1>1, InFlightTypes DEF Core
<1>6. /\ Alters(n) /\ users'[n].inFlight <= users[n].inFlight
      /\ \A x \in Meter : x # n => users'[x].inFlight = users[x].inFlight
      /\ users'[n].inFlight = users[n].inFlight - Cardinality(Marks(tunnel[t].awaits))
                                + Cardinality(Marks(b))
      /\ SameAsking /\ LateFirst'
  <2>1. CASE Head(tunnel[t].awaits) /\ Settle(n, <<billable>>)
    <3>1. <<billable>> \in Seq(BOOLEAN) /\ Len(<<billable>>) = 1
      OBVIOUS
    <3>2. /\ Alters(n) /\ users'[n].inFlight <= users[n].inFlight
          /\ 1 <= users[n].inFlight => users'[n].inFlight = users[n].inFlight - 1
          /\ \A x \in Meter : x # n => users'[x].inFlight = users[x].inFlight
          /\ SameAsking /\ LateFirst'
      BY <1>1, <2>1, <3>1, SettleKeeps
    <3>3. /\ Cardinality(Marks(b)) = Cardinality(Marks(tunnel[t].awaits)) - 1
          /\ Cardinality(Marks(b)) \in Nat /\ Cardinality(Marks(tunnel[t].awaits)) \in Nat
          /\ Cardinality(Marks(tunnel[t].awaits)) <= users[n].inFlight
      BY <1>4, <2>1
    <3>4. users'[n].inFlight = users[n].inFlight - Cardinality(Marks(tunnel[t].awaits))
                                + Cardinality(Marks(b))
      BY <1>5, <3>2, <3>3
    <3>5. QED
      BY <3>2, <3>4
  <2>2. CASE ~Head(tunnel[t].awaits) /\ UNCHANGED <<users, current, calls>>
    <3>1. /\ Alters(n) /\ users'[n].inFlight <= users[n].inFlight
          /\ \A x \in Meter : users'[x].inFlight = users[x].inFlight
          /\ SameAsking /\ LateFirst'
      BY <1>1, <2>2, StillAlters, SameCallsKeep DEF Core
    <3>2. /\ Cardinality(Marks(b)) = Cardinality(Marks(tunnel[t].awaits))
          /\ Cardinality(Marks(b)) \in Nat
      BY <1>4, <2>2
    <3>3. users'[n].inFlight = users[n].inFlight
      BY <1>1, <3>1
    <3>4. users'[n].inFlight = users[n].inFlight - Cardinality(Marks(tunnel[t].awaits))
                                + Cardinality(Marks(b))
      BY <1>5, <3>2, <3>3
    <3>5. QED
      BY <3>1, <3>4
  <2>3. QED
    BY <1>1, <2>1, <2>2
<1>7. Slots'
  BY <1>1, <1>2, <1>6, KeepsSlotsOf DEF Core, n
<1>8. QED
  BY <1>1, <1>2, <1>3, <1>6, <1>7, CalmKeeps

LEMMA EndKeeps ==
    ASSUME Core, NEW t \in Tunnel, End(t)
    PROVE  Core'
<1> DEFINE n == HolderOf(t)
<1>1. /\ n \in Meter
      /\ tunnel' = [tunnel EXCEPT ![t] = tunnel'[t]]
      /\ tunnel'[t].meter = Null /\ tunnel'[t].awaits = <<>>
      /\ UNCHANGED <<meter, config, ledger, stood>>
  BY EndIs DEF Core
<1>2. PICK billable \in Seq(BOOLEAN) :
         Len(billable) = Cardinality(Marks(tunnel[t].awaits)) /\ Settle(n, billable)
  BY EndIs DEF Core
<1>3. TypeOK'
  BY TunnelStepTypes DEF Core
<1>4. Connected'
  BY <1>1, KeepsConnected DEF Core
<1>5. /\ MineOf(tunnel, meter, t, n) = Marks(tunnel[t].awaits)
      /\ \A x \in Meter : x # n => MineOf(tunnel, meter, t, x) = {}
      /\ \A x \in Meter : MineOf(tunnel', meter, t, x) = {}
  BY <1>1 DEF MineOf, Marks, HolderOf
<1>6. Cardinality(Marks(tunnel[t].awaits)) <= users[n].inFlight
  BY <1>1, MineWithin DEF Core
<1> HIDE DEF n
<1>7. /\ Alters(n) /\ users'[n].inFlight <= users[n].inFlight
      /\ users'[n].inFlight = users[n].inFlight - Cardinality(Marks(tunnel[t].awaits))
      /\ \A x \in Meter : x # n => users'[x].inFlight = users[x].inFlight
      /\ SameAsking /\ LateFirst'
  BY <1>1, <1>2, <1>6, SettleKeeps
<1>8. Slots'
  <2>1. \A x \in Meter : users[x].inFlight \in Nat
    BY InFlightTypes DEF Core
  <2>2. Cardinality(Marks(tunnel[t].awaits)) \in Nat /\ Cardinality({}) = 0
    BY TunnelTypes, MarksAreFinite, FS_EmptySet DEF Core
  <2>3. ASSUME NEW x \in Meter
        PROVE  users'[x].inFlight = users[x].inFlight
          - Cardinality(MineOf(tunnel, meter, t, x)) + Cardinality(MineOf(tunnel', meter, t, x))
    <3>1. Cardinality(MineOf(tunnel', meter, t, x)) = 0
      <4>1. MineOf(tunnel', meter, t, x) = {}
        BY <1>5
      <4>2. QED
        BY <2>2, <4>1
    <3>2. CASE x = n
      <4>1. Cardinality(MineOf(tunnel, meter, t, x)) = Cardinality(Marks(tunnel[t].awaits))
        BY <1>5, <3>2
      <4>2. users'[x].inFlight = users[x].inFlight - Cardinality(Marks(tunnel[t].awaits))
        BY <1>7, <3>2
      <4>3. QED
        BY <2>1, <2>2, <3>1, <4>1, <4>2
    <3>3. CASE x # n
      <4>1. Cardinality(MineOf(tunnel, meter, t, x)) = 0
        BY <1>5, <2>2, <3>3
      <4>2. QED
        BY <1>7, <2>1, <3>1, <3>3, <4>1
    <3>4. QED
      BY <3>2, <3>3
  <2>4. \A x \in Tunnel : x # t => tunnel'[x] = tunnel[x]
    BY <1>1, Types DEF Core
  <2>5. QED
    BY <1>1, <1>3, <2>3, <2>4, KeepsSlots DEF Core
<1>9. QED
  BY <1>1, <1>3, <1>4, <1>7, <1>8, CalmKeeps

LEMMA ClosedFindsNoMap ==
    ASSUME Core, NEW t \in Tunnel, tunnel[t].meter # Null, ~meter[tunnel[t].meter].closed
    PROVE  HolderOf(t) = current
<1>1. tunnel[t].meter \in Meter /\ meter[tunnel[t].meter].session # Null
  BY TunnelTypes DEF Core, Connected
<1>2. QED
  BY <1>1 DEF Core, InMap, Alive, HolderOf

LEMMA AskKeeps ==
    ASSUME Core, NEW t \in Tunnel, Ask(t)
    PROVE  Core'
<1> DEFINE n == HolderOf(t)
<1>1. /\ Alters(n) /\ current' = current /\ Turns(t, n)
      /\ calls' = calls \/ calls' = calls \o <<StatusCall(n, Null)>>
  BY AskIs DEF Core
<1>2. /\ tunnel[t].meter # Null /\ UNCHANGED <<meter, config, stood>> /\ TypeOK'
      /\ n \in Meter
  BY AskTypes, HolderTypes DEF Ask, Live, Core
<1>3. SameAsking /\ LateFirst'
  <2>1. CASE calls' = calls
    BY <2>1, SameCallsKeep DEF Core
  <2>2. CASE calls' = calls \o <<StatusCall(n, Null)>>
    <3>1. /\ Grows(<<StatusCall(n, Null)>>)
          /\ \A i \in 1..Len(<<StatusCall(n, Null)>>) : <<StatusCall(n, Null)>>[i].for = Null
      BY <1>2, <2>2, StatusGrows DEF Grows
    <3>2. QED
      BY <3>1, GrowsAsking, GrowsLateFirst DEF Core
  <2>3. QED
    BY <1>1, <2>1, <2>2
<1>4. users[n].inFlight \in Nat
      /\ \A x \in Meter : x # n => users'[x].inFlight = users[x].inFlight
  BY <1>1, <1>2, InFlightTypes, Types DEF Alters, Core
<1>5. PICK b \in Seq(BOOLEAN) :
         /\ Awaits(t, b)
         /\ \/ b = tunnel[t].awaits /\ users'[n].inFlight = users[n].inFlight
            \/ /\ b = Append(tunnel[t].awaits, TRUE)
               /\ users'[n].inFlight = users[n].inFlight + 1 /\ n = current
  <2>1. tunnel[t].awaits \in Seq(BOOLEAN)
    BY TunnelTypes DEF Core
  <2>2. CASE tunnel' = [tunnel EXCEPT ![t].refused = TRUE]
             /\ users'[n].inFlight = users[n].inFlight
    BY <2>1, <2>2, RefusedIs DEF Core
  <2>3. CASE /\ ~meter[tunnel[t].meter].closed
             /\ users'[n].inFlight = users[n].inFlight + 1
             /\ tunnel' = [tunnel EXCEPT ![t].awaits = Append(@, TRUE)]
    <3>1. Append(tunnel[t].awaits, TRUE) \in Seq(BOOLEAN)
      BY <2>1
    <3>2. tunnel' = [tunnel EXCEPT ![t].awaits = Append(tunnel[t].awaits, TRUE)]
      BY <2>3
    <3>3. Awaits(t, Append(tunnel[t].awaits, TRUE))
      BY <3>1, <3>2, AwaitsIs DEF Core
    <3>4. n = current
      BY <1>2, <2>3, ClosedFindsNoMap
    <3>5. QED
      BY <2>3, <3>1, <3>3, <3>4
  <2>4. QED
    BY <1>1, <2>2, <2>3 DEF Turns
<1>6. Connected'
  BY <1>2, <1>5, AwaitsConnected DEF Core
<1> HIDE DEF n
<1>7. users'[n].inFlight = users[n].inFlight - Cardinality(Marks(tunnel[t].awaits))
         + Cardinality(Marks(b))
  <2>1. tunnel[t].awaits \in Seq(BOOLEAN) /\ TRUE \in BOOLEAN
    BY TunnelTypes DEF Core
  <2>2. /\ IsFiniteSet(Marks(tunnel[t].awaits))
        /\ Cardinality(Marks(tunnel[t].awaits)) \in Nat
    BY <2>1, MarksAreFinite
  <2>3. CASE b = tunnel[t].awaits /\ users'[n].inFlight = users[n].inFlight
    BY <1>4, <2>2, <2>3
  <2>4. CASE b = Append(tunnel[t].awaits, TRUE) /\ users'[n].inFlight = users[n].inFlight + 1
    <3>1. Cardinality(Marks(b)) = IF TRUE THEN Cardinality(Marks(tunnel[t].awaits)) + 1
                                          ELSE Cardinality(Marks(tunnel[t].awaits))
      BY <2>1, <2>2, <2>4, MarksAppended, Zenon
    <3>2. Cardinality(Marks(b)) = Cardinality(Marks(tunnel[t].awaits)) + 1
      BY ONLY <3>1
    <3>3. users'[n].inFlight = users[n].inFlight + 1 /\ users[n].inFlight \in Nat
      BY <1>4, <2>4
    <3>4. QED
      BY ONLY <2>2, <3>2, <3>3
  <2>5. QED
    BY <1>5, <2>3, <2>4
<1>8. Slots'
  BY <1>2, <1>4, <1>5, <1>7, KeepsSlotsOf DEF Core, n
<1>9. users'[n].inFlight <= users[n].inFlight \/ n = current'
  <2>1. users'[n].inFlight = users[n].inFlight \/ n = current
    BY <1>5
  <2>2. QED
    BY <1>1, <1>4, <2>1
<1>10. QED
  BY <1>1, <1>2, <1>3, <1>6, <1>8, <1>9, CalmKeeps

\* A step that leaves the tunnels, and every slot, alone.
LEMMA TunnelsApart ==
    ASSUME Core, UNCHANGED <<meter, tunnel>>,
           \A n \in Meter : users'[n].inFlight = users[n].inFlight
    PROVE  Connected' /\ Slots'
  BY KeepsAdmitted DEF Core, Connected

LEMMA ServeKeeps ==
    ASSUME Core, NEW i \in DOMAIN calls, Write(i) \/ Read(i) \/ Fail(i)
    PROVE  Core'
<1>1. UNCHANGED <<users, current, meter, config, tunnel, stood>> /\ TypeOK'
  BY ServeAdvances, ServeTypes DEF Core
<1>2. /\ calls' = [calls EXCEPT ![i] = calls'[i]]
      /\ calls'[i].user = calls[i].user /\ calls'[i].for = calls[i].for
      /\ calls'[i].late = calls[i].late
  BY ServeAdvances, AdvancesTo DEF Core
<1>3. /\ DOMAIN calls' = DOMAIN calls
      /\ \A j \in DOMAIN calls : /\ calls'[j].user = calls[j].user
                                 /\ calls'[j].for = calls[j].for /\ calls'[j].late = calls[j].late
  BY <1>2, Types DEF Core
<1>4. SameAsking
  BY <1>3 DEF SameAsking
<1>5. LateFirst'
  BY <1>3 DEF Core, LateFirst
<1>6. calls[i].user \in Meter
  BY CallTypes DEF Core
<1>7. /\ Alters(calls[i].user) /\ users'[calls[i].user].inFlight <= users[calls[i].user].inFlight
      /\ \A x \in Meter : users'[x].inFlight = users[x].inFlight
  BY <1>1, <1>6, StillAlters DEF Core
<1>8. Connected' /\ Slots'
  BY <1>1, <1>7, TunnelsApart
<1>9. QED
  BY <1>1, <1>4, <1>5, <1>7, <1>8, CalmKeeps

\* The calls that stay when one is answered, and where they stood.
LEMMA LandCalls ==
    ASSUME TypeOK, NEW i \in DOMAIN calls, Land(i), NEW j \in DOMAIN calls'
    PROVE  LET k == IF j < i THEN j ELSE j + 1 IN
           /\ k \in DOMAIN calls /\ k # i /\ (j < i => k < i) /\ (j >= i => k > i)
           /\ calls'[j].user = calls[k].user /\ calls'[j].for = calls[k].for
           /\ calls'[j].at = calls[k].at /\ calls'[j].blocked = calls[k].blocked
           /\ calls'[j].late = IF j < i THEN calls[k].late \/ calls[k].user = calls[i].user
                                        ELSE calls[k].late
<1>1. /\ i \in 1..Len(calls) /\ Len(calls) \in Nat /\ calls \in Seq(Call)
      /\ calls' \in Seq(Call) /\ Len(calls') = Len(calls) - 1
      /\ \A x \in 1..(Len(calls) - 1) :
           calls'[x] = IF x < i THEN Passed(calls[x], calls[i].user) ELSE calls[x + 1]
  BY LandIs, CallTypes, Types
<1>2. j \in 1..(Len(calls) - 1)
  BY <1>1
<1>3. CASE j < i
  <2>1. calls'[j] = Passed(calls[j], calls[i].user) /\ calls[j] \in Call /\ j \in DOMAIN calls
    BY <1>1, <1>2, <1>3
  <2>2. QED
    BY <1>1, <1>2, <1>3, <2>1, PassedIs
<1>4. CASE ~(j < i)
  BY <1>1, <1>2, <1>4
<1>5. QED
  BY <1>3, <1>4

LEMMA LandKeeps ==
    ASSUME Core, NEW i \in DOMAIN calls, Land(i)
    PROVE  Core'
<1> DEFINE n == calls[i].user
<1>1. /\ Alters(n) /\ users'[n].inFlight = users[n].inFlight /\ n \in Meter
      /\ UNCHANGED <<meter, config, tunnel, ledger, stood>> /\ TypeOK'
  BY LandIs, LandTypes, CallTypes DEF Core
<1>2. SameAsking
  <2> SUFFICES ASSUME NEW j \in DOMAIN calls'
               PROVE  \E k \in DOMAIN calls : /\ calls'[j].for = calls[k].for
                                              /\ calls'[j].user = calls[k].user
    BY DEF SameAsking
  <2>1. QED
    BY LandCalls DEF Core
<1>3. LateFirst'
  <2> SUFFICES ASSUME NEW x \in DOMAIN calls', NEW y \in DOMAIN calls', y < x,
                      calls'[y].user = calls'[x].user, calls'[x].late
               PROVE  calls'[y].late
    BY DEF LateFirst
  <2> DEFINE kx == IF x < i THEN x ELSE x + 1
             ky == IF y < i THEN y ELSE y + 1
  <2>1. /\ kx \in DOMAIN calls /\ ky \in DOMAIN calls
        /\ calls'[x].user = calls[kx].user /\ calls'[y].user = calls[ky].user
        /\ calls'[x].late = IF x < i THEN calls[kx].late \/ calls[kx].user = n ELSE calls[kx].late
        /\ calls'[y].late = IF y < i THEN calls[ky].late \/ calls[ky].user = n ELSE calls[ky].late
    BY LandCalls DEF Core
  <2>2. x \in Nat /\ y \in Nat /\ i \in Nat
    BY CallTypes, LandIs DEF Core
  <2>3. ky < kx /\ (x < i => y < i)
    BY <2>2
  <2> HIDE DEF kx, ky
  <2>4. CASE calls[kx].late
    <3>1. calls[ky].late
      BY <2>1, <2>3, <2>4 DEF Core, LateFirst
    <3>2. QED
      BY <2>1, <3>1
  <2>5. CASE ~calls[kx].late
    <3>1. x < i /\ calls[kx].user = n
      BY <2>1, <2>5
    <3>2. y < i /\ calls[ky].user = n
      BY <2>1, <2>3, <3>1
    <3>3. QED
      BY <2>1, <3>2
  <2>6. QED
    BY <2>4, <2>5
<1>4. \A x \in Meter : users'[x].inFlight = users[x].inFlight
  BY <1>1, Types DEF Alters, Core
<1>5. users[n].inFlight \in Nat
  BY <1>1, InFlightTypes DEF Core
<1>6. Connected' /\ Slots'
  BY <1>1, <1>4, TunnelsApart
<1>7. QED
  BY <1>1, <1>2, <1>3, <1>5, <1>6, CalmKeeps

LEMMA AgeKeeps ==
    ASSUME Core, NEW n \in Meter, Age(n)
    PROVE  Core'
<1>1. /\ Alters(n) /\ users'[n].inFlight = users[n].inFlight /\ TypeOK'
      /\ UNCHANGED <<current, meter, config, tunnel, calls, ledger, stood>>
  BY AgeIs, AgeTypes DEF Core
<1>2. \A x \in Meter : users'[x].inFlight = users[x].inFlight
  BY <1>1, Types DEF Alters, Core
<1>3. users[n].inFlight \in Nat
  BY InFlightTypes DEF Core
<1>4. Connected' /\ Slots'
  BY <1>1, <1>2, TunnelsApart
<1>5. SameAsking /\ LateFirst'
  BY <1>1, SameCallsKeep DEF Core
<1>6. QED
  BY <1>1, <1>3, <1>4, <1>5, CalmKeeps

LEMMA ElsewhereKeeps ==
    ASSUME Core, Elsewhere
    PROVE  Core'
<1>1. /\ stood' = [m \in Meter |-> stood[m] \intersect Standing'] /\ TypeOK'
      /\ UNCHANGED <<users, current, meter, config, tunnel, calls>>
  BY ElsewhereIs, ElsewhereTypes DEF Core
<1>2. Held' /\ Published' /\ Connected'
  BY <1>1 DEF Core, Held, Published, Connected
<1>3. Asked' /\ InMap' /\ AtRest' /\ LateFirst'
  BY <1>1 DEF Core, Asked, InMap, Alive, AtRest, LateFirst
<1>4. Slots'
  BY <1>1, KeepsAdmitted DEF Core
<1>5. QED
  BY <1>1, <1>2, <1>3, <1>4 DEF Core

LEMMA SessionOpenedKeeps ==
    ASSUME Core, NEW m \in Meter, SessionOpened(m)
    PROVE  Core'
<1>1. /\ Opening(m) /\ \A i \in DOMAIN calls : calls[i].for # m
      /\ config' = [config EXCEPT ![meter[m].session] = m]
      /\ UNCHANGED <<users, current, meter, tunnel, calls, ledger, stood>> /\ TypeOK'
  BY SessionOpenedTypes DEF Core, SessionOpened
<1>2. Held' /\ Connected' /\ InMap' /\ AtRest' /\ LateFirst'
  BY <1>1 DEF Core, Held, Connected, InMap, Alive, AtRest, LateFirst
<1>3. \A s \in Session : config'[s] = IF s = meter[m].session THEN m ELSE config[s]
  BY <1>1, Types DEF Core
<1>4. Published'
  BY <1>1, <1>3 DEF Core, Published
<1>5. Asked'
  <2> SUFFICES ASSUME NEW i \in DOMAIN calls, calls[i].for # Null
               PROVE  /\ meter[calls[i].for].user = calls[i].user
                      /\ config'[meter[calls[i].for].session] # calls[i].for
    BY <1>1 DEF Asked
  <2>1. /\ meter[calls[i].for].user = calls[i].user
        /\ config[meter[calls[i].for].session] # calls[i].for /\ calls[i].for # m
    BY <1>1 DEF Core, Asked
  <2>2. config' = [config EXCEPT ![meter[m].session] = m] /\ meter[m].session \in Session
    BY <1>1, MeterTypes DEF Opening, Core
  <2>3. calls[i].for \in Meter /\ calls[i].user \in Meter
    BY CallTypes DEF Core
  <2>4. meter[calls[i].for].session \in Session
    BY <2>1, <2>3, MeterTypes, NullIsNone DEF Core, Held
  <2>5. QED
    BY <1>3, <2>1, <2>4
<1>6. Slots'
  BY <1>1, KeepsAdmitted DEF Core
<1>7. QED
  BY <1>1, <1>2, <1>4, <1>5, <1>6 DEF Core

LEMMA CloseKeeps ==
    ASSUME Core, NEW s \in Session, CloseSession(s)
    PROVE  Core'
<1> DEFINE m == config[s]
           k == meter[m].user
<1>1. /\ m \in Meter /\ k \in Meter /\ meter[m].session = s
      /\ users' = [users EXCEPT ![k] = Without(users[k], s)]
      /\ users'[k] = Without(users[k], s)
      /\ current' = Evict(k, users'[k])
      /\ meter' = [meter EXCEPT ![m] = [meter[m] EXCEPT !.closed = TRUE]]
      /\ stood' = [stood EXCEPT ![m] = {}]
      /\ config' = [config EXCEPT ![s] = Null]
      /\ UNCHANGED <<tunnel, calls, ledger>>
      /\ \A x \in Meter : meter[x].session = s => ~Opening(x)
  BY CloseIs DEF Core
<1>2. TypeOK'
  BY CloseTypes DEF Core
<1>3. /\ users'[k].sessions = users[k].sessions \ {s} /\ users'[k].inFlight = users[k].inFlight
      /\ \A x \in Meter : users'[x].inFlight = users[x].inFlight
  BY <1>1, WithoutIs, Types DEF Core
<1>4. /\ \A x \in Meter : meter'[x].session = meter[x].session /\ meter'[x].user = meter[x].user
      /\ \A x \in Meter : x # m => meter'[x] = meter[x]
      /\ meter'[m].closed /\ stood'[m] = {} /\ \A x \in Meter : x # m => stood'[x] = stood[x]
  <2>1. meter[m] \in SessionMeter
    BY <1>1, Types DEF Core
  <2>2. /\ [meter[m] EXCEPT !.closed = TRUE].session = meter[m].session
        /\ [meter[m] EXCEPT !.closed = TRUE].user = meter[m].user
        /\ [meter[m] EXCEPT !.closed = TRUE].closed
    BY <2>1 DEF SessionMeter
  <2>3. QED
    BY <1>1, <2>2, Types DEF Core, TypeOK
<1> HIDE DEF m, k
<1>5. Held'
  BY <1>1, <1>4, NullIsNone DEF Core, Held
<1>6. Published' /\ Connected'
  <2>1. \A x \in Session : config'[x] \in {config[x], Null}
    BY <1>1, Types DEF Core
  <2>2. \A x \in Session : config[x] # Null => config[x] \in Meter
    BY Types DEF Core
  <2>3. Published'
    BY <1>4, <2>1, <2>2 DEF Core, Published
  <2>4. \A t \in Tunnel : tunnel[t].meter # Null => tunnel[t].meter \in Meter
    BY TunnelTypes DEF Core
  <2>5. Connected'
    BY <1>1, <1>4, <2>4 DEF Core, Connected
  <2>6. QED
    BY <2>3, <2>5
<1>7. Asked'
  <2> SUFFICES ASSUME NEW i \in DOMAIN calls, calls[i].for # Null
               PROVE  /\ meter'[calls[i].for].user = calls[i].user
                      /\ config'[meter'[calls[i].for].session] # calls[i].for
    BY <1>1 DEF Asked
  <2>1. /\ meter[calls[i].for].user = calls[i].user
        /\ config[meter[calls[i].for].session] # calls[i].for
    BY DEF Core, Asked
  <2>2. calls[i].for \in Meter /\ calls[i].user \in Meter
    BY CallTypes DEF Core
  <2>3. meter[calls[i].for].session \in Session
    BY <2>1, <2>2, MeterTypes, NullIsNone DEF Core, Held
  <2>4. config'[meter[calls[i].for].session] \in {config[meter[calls[i].for].session], Null}
    BY <1>1, <2>3, Types DEF Core
  <2>5. QED
    BY <1>4, <2>1, <2>2, <2>4
<1>8. InMap'
  <2> SUFFICES ASSUME NEW x \in Meter, Alive(x)'
               PROVE  meter'[x].user = current' /\ meter'[x].session \in users'[current'].sessions
    BY DEF InMap
  <2>1. x # m /\ Alive(x)
    BY <1>4 DEF Alive
  <2>2. /\ current \in Meter /\ meter[x].user = current /\ meter[x].session \in Session
        /\ meter[x].session \in users[current].sessions
    BY <2>1, AliveHolds DEF Core, InMap
  <2>3. meter[x].session # s
    <3>1. ASSUME meter[x].session = s
          PROVE  FALSE
      <4>1. config[s] = x
        BY <1>1, <2>1, <3>1 DEF Opening, Alive
      <4>2. QED
        BY <2>1, <4>1 DEF m
    <3>2. QED
      BY <3>1
  <2>4. meter[x].session \in users'[current].sessions
    BY <1>1, <1>3, <2>2, <2>3, Types DEF Core
  <2>5. current' = current
    BY <1>1, <2>4 DEF Evict, Idle
  <2>6. QED
    BY <1>4, <2>2, <2>4, <2>5
<1>9. AtRest'
  <2>1. current' = current \/ (current = k /\ users'[k].inFlight = 0)
    BY <1>1 DEF Evict, Idle
  <2>2. QED
    BY <1>1, <1>3, <2>1 DEF Core, AtRest
<1>10. Slots'
  <2>1. ASSUME NEW t \in Tunnel, tunnel[t].awaits # <<>>
        PROVE  meter'[tunnel[t].meter].user = meter[tunnel[t].meter].user
    BY <1>4, <2>1, AwaitingHasHolder, TunnelTypes DEF Core
  <2>2. QED
    BY <1>1, <1>3, <2>1, KeepsAdmitted DEF Core
<1>11. LateFirst'
  BY <1>1 DEF Core, LateFirst
<1>12. QED
  BY <1>2, <1>5, <1>6, <1>7, <1>8, <1>9, <1>10, <1>11 DEF Core

LEMMA OpenIs ==
    ASSUME Core, NEW s \in Session, NEW m \in Meter, OpenSession(s, m)
    PROVE  LET n == StateFor(s, m) IN
           /\ n \in Meter /\ current' = n /\ Left(s) \in {current, Null}
           /\ users' = [Was(s) EXCEPT ![n] = Joined(Was(s)[n], s)]
           /\ \A x \in Meter : users'[x].inFlight = users[x].inFlight
           /\ \A x \in Meter : users'[x].blocked = users[x].blocked
           /\ \A x \in Meter : users[x].sessions \ {s} \subseteq users'[x].sessions
           /\ s \in users'[n].sessions
           /\ calls' = calls \o <<StatusCall(n, m)>>
           /\ UNCHANGED <<config, tunnel, ledger>>
<1> DEFINE n == StateFor(s, m)
<1>1. /\ users' = [Was(s) EXCEPT ![n] = Joined(Was(s)[n], s)]
      /\ current' = n /\ calls' = calls \o <<StatusCall(n, m)>>
      /\ UNCHANGED <<config, tunnel, ledger>>
  BY OpenActs
<1>2. n \in Meter /\ Left(s) \in {current, Null}
  BY StateForIs DEF Core
<1>3. /\ Was(s) \in [Meter -> User]
      /\ \A x \in Meter : /\ Was(s)[x].sessions \in {users[x].sessions, users[x].sessions \ {s}}
                          /\ Was(s)[x].inFlight = users[x].inFlight
                          /\ Was(s)[x].blocked = users[x].blocked
  BY WasIs DEF Core
<1> HIDE DEF n
<1>4. /\ Joined(Was(s)[n], s).sessions = Was(s)[n].sessions \union {s}
      /\ Joined(Was(s)[n], s).inFlight = Was(s)[n].inFlight
      /\ Joined(Was(s)[n], s).blocked = Was(s)[n].blocked
  BY <1>2, <1>3, JoinedIs
<1>5. \A x \in Meter : /\ users'[x].inFlight = users[x].inFlight
                       /\ users'[x].blocked = users[x].blocked
                       /\ users[x].sessions \ {s} \subseteq users'[x].sessions
  <2> TAKE x \in Meter
  <2>1. CASE x = n
    <3>1. users'[x] = Joined(Was(s)[n], s)
      BY <1>1, <1>3, <2>1
    <3>2. QED
      BY <1>3, <1>4, <2>1, <3>1
  <2>2. CASE x # n
    <3>1. users'[x] = Was(s)[x]
      BY <1>1, <1>3, <2>2
    <3>2. QED
      BY <1>3, <3>1
  <2>3. QED
    BY <2>1, <2>2
<1>6. s \in users'[n].sessions
  BY <1>1, <1>2, <1>3, <1>4
<1>7. QED
  BY <1>1, <1>2, <1>5, <1>6 DEF n

\* The meters after an open: a new one, and perhaps one that has ended.
LEMMA OpenMeters ==
    ASSUME Core, NEW s \in Session, NEW m \in Meter, OpenSession(s, m)
    PROVE  /\ meter[m].session = Null /\ meter[m].user = Null /\ ~meter[m].closed
           /\ meter'[m].session = s /\ meter'[m].user = StateFor(s, m) /\ ~meter'[m].closed
           /\ stood'[m] = Standing
           /\ config[s] # m /\ config[s] \in Meter \union {Null}
           /\ \A x \in Meter : x # m => /\ meter'[x].session = meter[x].session
                                        /\ meter'[x].user = meter[x].user
           /\ \A x \in Meter : x # m /\ x # config[s] => /\ meter'[x] = meter[x]
                                                         /\ stood'[x] = stood[x]
           /\ config[s] # Null => meter'[config[s]].closed /\ stood'[config[s]] = {}
<1>1. meter[m] = NoMeter /\ meter' = Opened(s, m) /\ stood' = StoodNow(s, m)
  BY OpenActs
<1>2. meter[m].session = Null /\ meter[m].user = Null /\ ~meter[m].closed
  <2>1. NoMeter.session = Null /\ NoMeter.user = Null /\ ~NoMeter.closed
    BY Zenon DEF NoMeter
  <2>2. QED
    BY <1>1, <2>1
<1>3. config[s] \in Meter \union {Null} /\ config[s] # m
  <2>1. config[s] \in Meter \union {Null}
    BY Types DEF Core
  <2>2. config[s] # Null => meter[config[s]].session = s
    BY DEF Core, Published
  <2>3. QED
    BY <1>2, <2>1, <2>2, NullIsNone
<1>4. meter'[m] = [session |-> s, user |-> StateFor(s, m), closed |-> FALSE] /\ stood'[m] = Standing
  BY <1>1, <1>3 DEF Opened, StoodNow
<1>5. \A x \in Meter : x # m /\ x # config[s] => meter'[x] = meter[x] /\ stood'[x] = stood[x]
  BY <1>1 DEF Opened, StoodNow
<1>6. ASSUME config[s] # Null
      PROVE  /\ meter'[config[s]].session = meter[config[s]].session
             /\ meter'[config[s]].user = meter[config[s]].user
             /\ meter'[config[s]].closed /\ stood'[config[s]] = {}
  <2>1. config[s] \in Meter
    BY <1>3, <1>6
  <2>2. meter'[config[s]] = [meter[config[s]] EXCEPT !.closed = TRUE] /\ stood'[config[s]] = {}
    BY <1>1, <1>3, <2>1 DEF Opened, StoodNow
  <2>3. meter[config[s]] \in SessionMeter
    BY <2>1, Types DEF Core
  <2>4. QED
    BY <2>2, <2>3 DEF SessionMeter
<1>7. \A x \in Meter : x # m => /\ meter'[x].session = meter[x].session
                                /\ meter'[x].user = meter[x].user
  BY <1>5, <1>6, NullIsNone
<1>8. QED
  BY <1>2, <1>3, <1>4, <1>5, <1>6, <1>7

LEMMA OpenKeeps ==
    ASSUME Core, NEW s \in Session, NEW m \in Meter, OpenSession(s, m)
    PROVE  Core'
<1> DEFINE n == StateFor(s, m)
<1>1. /\ n \in Meter /\ current' = n /\ Left(s) \in {current, Null}
      /\ \A x \in Meter : users'[x].inFlight = users[x].inFlight
      /\ \A x \in Meter : users[x].sessions \ {s} \subseteq users'[x].sessions
      /\ s \in users'[n].sessions
      /\ calls' = calls \o <<StatusCall(n, m)>>
      /\ UNCHANGED <<config, tunnel, ledger>>
  BY OpenIs
<1>2. /\ meter[m].session = Null /\ meter[m].user = Null /\ ~meter[m].closed
      /\ meter'[m].session = s /\ meter'[m].user = n /\ ~meter'[m].closed
      /\ config[s] # m /\ config[s] \in Meter \union {Null}
      /\ \A x \in Meter : x # m => /\ meter'[x].session = meter[x].session
                                   /\ meter'[x].user = meter[x].user
      /\ \A x \in Meter : x # m /\ x # config[s] => meter'[x] = meter[x] /\ stood'[x] = stood[x]
      /\ config[s] # Null => meter'[config[s]].closed /\ stood'[config[s]] = {}
  BY OpenMeters
<1>3. TypeOK'
  BY OpenTypes DEF Core
<1>4. Grows(<<StatusCall(n, m)>>)
  BY <1>1, StatusGrows DEF Grows
<1>5. Left(s) = Null \/ n = current
  BY <1>1 DEF StateFor
<1> HIDE DEF n
<1>6. Held'
  <2> SUFFICES ASSUME NEW x \in Meter
               PROVE  /\ meter'[x].session = Null <=> meter'[x].user = Null
                      /\ meter'[x].session = Null => ~meter'[x].closed
                      /\ stood'[x] # {} => meter'[x].session # Null /\ ~meter'[x].closed
    BY DEF Held
  <2>1. CASE x = m
    BY <1>1, <1>2, <2>1, NullIsNone
  <2>2. CASE x # m /\ x = config[s]
    <3>1. meter[x].session = s
      BY <2>2, NullIsNone DEF Core, Published
    <3>2. QED
      BY <1>2, <2>2, <3>1, NullIsNone DEF Core, Held
  <2>3. CASE x # m /\ x # config[s]
    BY <1>2, <2>3 DEF Core, Held
  <2>4. QED
    BY <2>1, <2>2, <2>3
<1>7. Published'
  <2>1. \A y \in Session : config[y] # Null =>
          config[y] \in Meter /\ config[y] # m /\ meter[config[y]].session = y
    BY <1>2, NullIsNone, Types DEF Core, Published
  <2>2. QED
    BY <1>1, <1>2, <2>1 DEF Published
<1>8. \A t \in Tunnel : tunnel[t].meter # Null => tunnel[t].meter \in Meter /\ tunnel[t].meter # m
  BY <1>2, TunnelTypes DEF Core, Connected
<1>9. Connected'
  BY <1>1, <1>2, <1>8 DEF Core, Connected
<1>10. Slots'
  <2>1. ASSUME NEW t \in Tunnel, tunnel[t].awaits # <<>>
        PROVE  meter'[tunnel[t].meter].user = meter[tunnel[t].meter].user
    BY <1>2, <1>8, <2>1, AwaitingHasHolder DEF Core
  <2>2. QED
    BY <1>1, <2>1, KeepsAdmitted DEF Core
<1>11. LateFirst'
  BY <1>4, GrowsLateFirst DEF Core
<1>12. Asked'
  <2> SUFFICES ASSUME NEW i \in DOMAIN calls', calls'[i].for # Null
               PROVE  /\ meter'[calls'[i].for].user = calls'[i].user
                      /\ config'[meter'[calls'[i].for].session] # calls'[i].for
    BY DEF Asked
  <2>1. CASE i \in 1..Len(calls)
    <3>1. i \in DOMAIN calls /\ calls'[i] = calls[i]
      BY <1>4, <2>1, GrowsIs DEF Core
    <3>2. /\ meter[calls[i].for].user = calls[i].user
          /\ config[meter[calls[i].for].session] # calls[i].for
      BY <3>1 DEF Core, Asked
    <3>3. calls[i].for \in Meter /\ calls[i].user \in Meter
      BY <3>1, CallTypes DEF Core
    <3>4. calls[i].for # m
      BY <1>2, <3>2, <3>3, NullIsNone
    <3>5. QED
      BY <1>1, <1>2, <3>1, <3>2, <3>3, <3>4
  <2>2. CASE i \notin 1..Len(calls)
    <3>1. calls'[i].for = m /\ calls'[i].user = n
      BY <1>1, <1>4, <2>2, GrowsIs, StatusGrows DEF Core
    <3>2. QED
      BY <1>1, <1>2, <3>1
  <2>3. QED
    BY <2>1, <2>2
<1>13. InMap'
  <2> SUFFICES ASSUME NEW x \in Meter, Alive(x)'
               PROVE  meter'[x].user = current' /\ meter'[x].session \in users'[current'].sessions
    BY DEF InMap
  <2>1. CASE x = m
    BY <1>1, <1>2, <2>1
  <2>2. CASE x # m
    <3>1. x # config[s] /\ Alive(x) /\ meter'[x] = meter[x]
      BY <1>2, <2>2, NullIsNone DEF Alive
    <3>2. /\ current \in Meter /\ meter[x].user = current /\ meter[x].session \in Session
          /\ meter[x].session \in users[current].sessions
      BY <3>1, AliveHolds DEF Core, InMap
    <3>3. meter[x].session # s
      BY <3>1, OpenActs DEF Opening, Alive
    <3>4. n = current
      <4>1. Was(s)[current].sessions \in {users[current].sessions, users[current].sessions \ {s}}
        BY <3>2, WasIs DEF Core
      <4>2. Was(s)[current].sessions # {}
        BY <3>2, <3>3, <4>1
      <4>3. Left(s) = current
        BY <4>2 DEF Left, Evict, Idle
      <4>4. QED
        BY <1>5, <3>2, <4>3, NullIsNone
    <3>5. QED
      BY <1>1, <3>1, <3>2, <3>3, <3>4
  <2>3. QED
    BY <2>1, <2>2
<1>14. AtRest'
  <2> SUFFICES ASSUME NEW x \in Meter, x # n
               PROVE  users[x].inFlight = 0
    BY <1>1 DEF AtRest
  <2>1. CASE x # current
    BY <2>1 DEF Core, AtRest
  <2>2. CASE x = current
    <3>1. Left(s) = Null /\ current \in Meter /\ current # Null
      BY <1>5, <2>2, NullIsNone
    <3>2. Was(s)[current].inFlight = 0
      BY <3>1 DEF Left, Evict, Idle
    <3>3. QED
      BY <2>2, <3>1, <3>2, WasIs DEF Core
  <2>3. QED
    BY <2>1, <2>2
<1>15. QED
  BY <1>3, <1>6, <1>7, <1>9, <1>10, <1>11, <1>12, <1>13, <1>14 DEF Core

LEMMA InitCore == Init => Core
<1> SUFFICES ASSUME Init
             PROVE  Core
  OBVIOUS
<1>1. TypeOK
  BY InitTypes
<1>2. /\ NoMeter.session = Null /\ NoMeter.user = Null /\ ~NoMeter.closed
      /\ NoTunnel.meter = Null /\ NoTunnel.awaits = <<>> /\ NewUser.inFlight = 0
  BY Zenon DEF NoMeter, NoTunnel, NewUser
<1>3. /\ \A m \in Meter : meter[m].session = Null /\ meter[m].user = Null /\ ~meter[m].closed
      /\ \A m \in Meter : stood[m] = {}
      /\ \A t \in Tunnel : tunnel[t].meter = Null /\ tunnel[t].awaits = <<>>
      /\ \A n \in Meter : users[n].inFlight = 0
      /\ \A s \in Session : config[s] = Null
      /\ calls = <<>>
  BY <1>2 DEF Init
<1>4. Held /\ Published /\ Connected /\ Asked /\ InMap /\ AtRest /\ LateFirst
  BY <1>3 DEF Held, Published, Connected, Asked, InMap, Alive, AtRest, LateFirst
<1>5. Slots
  <2>1. \A n \in Meter : AdmittedBy(n) = {}
    BY <1>3 DEF AdmittedBy, Admitted, Marks
  <2>2. QED
    BY <1>3, <2>1, FS_EmptySet DEF Slots
<1>6. QED
  BY <1>1, <1>4, <1>5 DEF Core

LEMMA CoreStep ==
    ASSUME Core, [Next]_vars
    PROVE  Core'
<1>1. CASE \E s \in Session, m \in Meter : OpenSession(s, m)
  BY <1>1, OpenKeeps
<1>2. CASE \E m \in Meter : SessionOpened(m)
  BY <1>2, SessionOpenedKeeps
<1>3. CASE \E s \in Session : CloseSession(s)
  BY <1>3, CloseKeeps
<1>4. ASSUME NEW t \in Tunnel,
             \/ \E s \in Session : Connect(t, s)
             \/ AskPlain(t) \/ Ask(t) \/ AskTooMuch(t)
             \/ \E billable \in BOOLEAN : Respond(t, billable)
             \/ End(t)
      PROVE  Core'
  BY <1>4, ConnectKeeps, AskPlainKeeps, AskKeeps, AskTooMuchKeeps, RespondKeeps, EndKeeps
<1>5. CASE \E i \in DOMAIN calls : Serve(i)
  BY <1>5, ServeKeeps, LandKeeps DEF Serve
<1>6. CASE \E n \in Meter : Age(n)
  BY <1>6, AgeKeeps
<1>7. CASE Elsewhere
  BY <1>7, ElsewhereKeeps
<1>8. CASE UNCHANGED vars
  <2>1. UNCHANGED <<users, current, meter, config, tunnel, calls, ledger, stood>>
    BY <1>8 DEF vars
  <2>2. TypeOK' /\ Held' /\ Published' /\ Connected' /\ Asked' /\ InMap' /\ AtRest' /\ LateFirst'
    BY <2>1 DEF Core, TypeOK, Held, Published, Connected, Asked, InMap, Alive, AtRest, LateFirst
  <2>3. Slots'
    BY <2>1, KeepsAdmitted DEF Core
  <2>4. QED
    BY <2>2, <2>3 DEF Core
<1>9. QED
  BY <1>1, <1>2, <1>3, <1>4, <1>5, <1>6, <1>7, <1>8 DEF Next

-----------------------------------------------------------------------------
(* A reason that has stood since a session's meter was asked for is on its way to the
   person's state, or has arrived there. *)
Place(r) == CHOOSE k \in DOMAIN Reasons : Reasons[k] = r

\* A call that has yet to look at a reason that stands, or has found one.
WillBlock(c, r) == c.at <= Place(r) \/ (c.at = Answered /\ c.blocked)

\* No answer to call j that still counts for the person lifts the block.
Tells(n, r, j) == calls[j].user = n /\ ~calls[j].late => WillBlock(calls[j], r)

\* The check the open awaits will find the reason, and so will every later call; or
\* the person is blocked and every call in flight keeps them so.
Pending(m, r) ==
  \E i \in DOMAIN calls :
    /\ calls[i].for = m /\ ~calls[i].late
    /\ \A j \in i..Len(calls) : Tells(meter[m].user, r, j)
Settled(m, r) == Blocked(m) /\ \A j \in DOMAIN calls : Tells(meter[m].user, r, j)

Warned ==
  \A m \in Meter : /\ stood[m] \subseteq Standing
                   /\ \A r \in stood[m] : Pending(m, r) \/ Settled(m, r)

LEMMA PlaceIs ==
    ASSUME NEW r \in Reason
    PROVE  Place(r) \in 1..3 /\ Reasons[Place(r)] = r
<1>1. \E k \in DOMAIN Reasons : Reasons[k] = r
  BY DEF Reason
<1>2. Place(r) \in DOMAIN Reasons /\ Reasons[Place(r)] = r
  BY <1>1 DEF Place
<1>3. QED
  BY <1>2, ReasonsAre

LEMMA StoodTypes ==
    ASSUME TypeOK, NEW m \in Meter
    PROVE  stood[m] \subseteq Reason
  BY DEF TypeOK

\* Calls that have just been made tell whatever they will find.
LEMMA GrowsTelling ==
    ASSUME Core, NEW m \in Meter, NEW r \in Reason, NEW new, Grows(new),
           \A i \in 1..Len(new) : new[i].at \in 0..1,
           meter'[m].user = meter[m].user,
           \A x \in Meter : users'[x].blocked = users[x].blocked,
           Pending(m, r) \/ Settled(m, r)
    PROVE  Pending(m, r)' \/ Settled(m, r)'
<1> DEFINE n == meter[m].user
<1>1. /\ Len(calls) \in Nat /\ Len(new) \in Nat /\ Len(calls') = Len(calls) + Len(new)
      /\ DOMAIN calls = 1..Len(calls) /\ DOMAIN calls' = 1..(Len(calls) + Len(new))
      /\ \A i \in 1..Len(calls) : calls'[i] = calls[i]
      /\ \A i \in DOMAIN calls' : i \notin 1..Len(calls) =>
           i - Len(calls) \in 1..Len(new) /\ calls'[i] = new[i - Len(calls)]
  BY GrowsIs DEF Core
<1>2. \A j \in DOMAIN calls' : j \notin 1..Len(calls) => WillBlock(calls'[j], r)
  <2> TAKE j \in DOMAIN calls'
  <2> HAVE j \notin 1..Len(calls)
  <2>1. calls'[j].at \in 0..1
    BY <1>1
  <2>2. Place(r) \in 1..3
    BY PlaceIs
  <2>3. QED
    BY <2>1, <2>2 DEF WillBlock
<1>3. \A j \in DOMAIN calls' : j \in 1..Len(calls) /\ Tells(n, r, j) => Tells(n, r, j)'
  BY <1>1 DEF Tells, WillBlock
<1>4. \A j \in DOMAIN calls' : j \notin 1..Len(calls) => Tells(n, r, j)'
  BY <1>2 DEF Tells
<1>5. ASSUME Pending(m, r)
      PROVE  Pending(m, r)'
  <2>1. PICK i \in DOMAIN calls : /\ calls[i].for = m /\ ~calls[i].late
                                  /\ \A j \in i..Len(calls) : Tells(n, r, j)
    BY <1>5 DEF Pending
  <2>2. i \in DOMAIN calls' /\ calls'[i].for = m /\ ~calls'[i].late
    BY <1>1, <2>1
  <2>3. \A j \in i..Len(calls') : Tells(n, r, j)'
    BY <1>1, <1>3, <1>4, <2>1
  <2>4. QED
    BY <2>2, <2>3 DEF Pending
<1>6. ASSUME Settled(m, r)
      PROVE  Settled(m, r)'
  <2>1. Blocked(m)'
    BY <1>6, MeterTypes DEF Settled, Blocked, Core
  <2>2. \A j \in DOMAIN calls' : Tells(n, r, j)'
    BY <1>1, <1>3, <1>4, <1>6 DEF Settled
  <2>3. QED
    BY <2>1, <2>2 DEF Settled
<1>7. QED
  BY <1>5, <1>6

LEMMA NoneGrows ==
    ASSUME TypeOK, calls' = calls
    PROVE  Grows(<<>>) /\ \A i \in 1..Len(<<>>) : <<>>[i].at \in 0..1
  BY Types DEF Grows

\* What a step that makes calls, or none, and moves no block keeps.
LEMMA GrowsWarned ==
    ASSUME Core, Warned, NEW new, Grows(new), \A i \in 1..Len(new) : new[i].at \in 0..1,
           \A x \in Meter : users'[x].blocked = users[x].blocked,
           NEW m \in Meter, meter'[m].user = meter[m].user,
           stood'[m] \subseteq stood[m] \intersect Standing'
    PROVE  /\ stood'[m] \subseteq Standing'
           /\ \A r \in stood'[m] : Pending(m, r)' \/ Settled(m, r)'
<1>1. \A r \in stood'[m] : r \in Reason /\ (Pending(m, r) \/ Settled(m, r))
  BY StoodTypes DEF Core, Warned
<1>2. QED
  BY <1>1, GrowsTelling

LEMMA BlockedByAlters ==
    ASSUME TypeOK, NEW n, Alters(n), users'[n].blocked = users[n].blocked
    PROVE  \A x \in Meter : users'[x].blocked = users[x].blocked
  BY Types DEF Alters

\* A step of a session's meters and tunnels that makes no call that could lift a block.
LEMMA CalmWarned ==
    ASSUME Core, Warned, NEW new, Grows(new), \A i \in 1..Len(new) : new[i].at \in 0..1,
           \A x \in Meter : users'[x].blocked = users[x].blocked,
           UNCHANGED <<meter, ledger, stood>>
    PROVE  Warned'
<1>1. Standing' = Standing
  BY DEF Standing
<1>2. \A m \in Meter : stood'[m] \subseteq stood[m] \intersect Standing'
  BY <1>1 DEF Warned
<1>3. QED
  BY <1>2, GrowsWarned DEF Warned

LEMMA SettleWarned ==
    ASSUME Core, Warned, NEW n \in Meter, NEW b \in Seq(BOOLEAN), Settle(n, b),
           UNCHANGED <<meter, ledger, stood>>
    PROVE  Warned'
<1>1. PICK k \in Nat : calls' = calls \o Records(n, k)
  BY SettleIs DEF Core
<1>2. Alters(n) /\ users'[n].blocked = users[n].blocked
  BY SettleIs DEF Core
<1>3. Grows(Records(n, k))
  BY <1>1, SettleGrows DEF Grows
<1>4. \A i \in 1..Len(Records(n, k)) : Records(n, k)[i].at \in 0..1
  <2>1. RecordCall(n).at = 0
    BY ReasonsAre DEF RecordCall
  <2>2. Len(Records(n, k)) = k
    BY RecordsTypes
  <2>3. QED
    BY <2>1, <2>2 DEF Records
<1>5. \A x \in Meter : users'[x].blocked = users[x].blocked
  BY <1>2, BlockedByAlters DEF Core
<1>6. QED
  BY <1>3, <1>4, <1>5, CalmWarned

LEMMA QuietWarned ==
    ASSUME Core, Warned, UNCHANGED <<calls, meter, ledger, stood>>,
           \A x \in Meter : users'[x].blocked = users[x].blocked
    PROVE  Warned'
<1>1. Grows(<<>>) /\ \A i \in 1..Len(<<>>) : <<>>[i].at \in 0..1
  BY NoneGrows DEF Core
<1>2. QED
  BY <1>1, CalmWarned

LEMMA TunnelWarned ==
    ASSUME Core, Warned, NEW t \in Tunnel,
           \/ \E s \in Session : Connect(t, s)
           \/ AskPlain(t) \/ Ask(t) \/ AskTooMuch(t)
           \/ \E billable \in BOOLEAN : Respond(t, billable)
           \/ End(t)
    PROVE  Warned'
<1>1. CASE (\E s \in Session : Connect(t, s)) \/ AskPlain(t) \/ AskTooMuch(t)
  <2>1. UNCHANGED <<users, calls, meter, ledger, stood>>
    BY <1>1 DEF Connect, AskPlain, AskTooMuch
  <2>2. QED
    BY <2>1, QuietWarned
<1>2. CASE Ask(t)
  <2> DEFINE n == HolderOf(t)
  <2>1. /\ Alters(n) /\ users'[n].blocked = users[n].blocked
        /\ calls' = calls \/ calls' = calls \o <<StatusCall(n, Null)>>
    BY <1>2, AskIs DEF Core
  <2>2. n \in Meter /\ UNCHANGED <<meter, ledger, stood>>
    BY <1>2, HolderTypes DEF Ask, Live, Core
  <2>3. \A x \in Meter : users'[x].blocked = users[x].blocked
    BY <2>1, BlockedByAlters DEF Core
  <2>4. CASE calls' = calls
    BY <2>2, <2>3, <2>4, QuietWarned
  <2>5. CASE calls' = calls \o <<StatusCall(n, Null)>>
    <3>1. /\ Grows(<<StatusCall(n, Null)>>)
          /\ \A i \in 1..Len(<<StatusCall(n, Null)>>) : <<StatusCall(n, Null)>>[i].at \in 0..1
      BY <2>2, <2>5, StatusGrows DEF Grows
    <3>2. QED
      BY <2>2, <2>3, <3>1, CalmWarned
  <2>6. QED
    BY <2>1, <2>4, <2>5
<1>3. ASSUME NEW billable \in BOOLEAN, Respond(t, billable)
      PROVE  Warned'
  <2>1. /\ \/ Settle(HolderOf(t), <<billable>>)
           \/ UNCHANGED <<users, current, calls>>
        /\ HolderOf(t) \in Meter /\ UNCHANGED <<meter, ledger, stood>>
    BY <1>3, RespondIs DEF Core
  <2>2. <<billable>> \in Seq(BOOLEAN)
    OBVIOUS
  <2>3. QED
    BY <2>1, <2>2, SettleWarned, QuietWarned
<1>4. CASE End(t)
  <2>1. PICK billable \in Seq(BOOLEAN) : Settle(HolderOf(t), billable)
    BY <1>4, EndIs DEF Core
  <2>2. HolderOf(t) \in Meter /\ UNCHANGED <<meter, ledger, stood>>
    BY <1>4, EndIs DEF Core
  <2>3. QED
    BY <2>1, <2>2, SettleWarned
<1>5. QED
  BY <1>1, <1>2, <1>3, <1>4

\* A verdict reads the reasons in their order and misses none that stands.
LEMMA ServeWarned ==
    ASSUME Core, Warned, NEW i \in DOMAIN calls, Write(i) \/ Read(i) \/ Fail(i)
    PROVE  Warned'
<1>1. /\ UNCHANGED <<users, current, meter, config, tunnel, stood>>
      /\ ledger'.over = ledger.over /\ ledger'.spend \in 0..Ceiling
      /\ ledger'.spend >= ledger.spend
  BY ServeAdvances DEF Core
<1>2. /\ calls' = [calls EXCEPT ![i] = calls'[i]]
      /\ calls'[i].user = calls[i].user
      /\ calls'[i].for = calls[i].for /\ calls'[i].late = calls[i].late
      /\ \/ calls[i].at = 0 /\ calls'[i].at = 1
         \/ calls'[i].at = 4 /\ calls'[i].blocked
         \/ /\ calls[i].at \in 1..3 /\ Reasons[calls[i].at] \notin Standing
            /\ calls'[i].at = calls[i].at + 1
  BY ServeAdvances, AdvancesTo DEF Core
<1>3. /\ DOMAIN calls' = DOMAIN calls /\ DOMAIN calls = 1..Len(calls)
      /\ Len(calls') = Len(calls) /\ \A j \in DOMAIN calls : j # i => calls'[j] = calls[j]
  BY <1>2, Types DEF Core
<1>4. Standing \subseteq Standing'
  <2>1. ledger.spend = Ceiling => ledger'.spend = Ceiling
    BY <1>1, Bounds
  <2>2. QED
    BY <1>1, <2>1 DEF Standing
<1>5. ASSUME NEW r \in Standing, r \in Reason, WillBlock(calls[i], r)
      PROVE  WillBlock(calls'[i], r)
  <2>1. Place(r) \in 1..3 /\ Reasons[Place(r)] = r
    BY <1>5, PlaceIs
  <2>2. calls[i].at \in 0..4 /\ Answered = 4
    BY CallTypes, ReasonsAre DEF Core
  <2>3. CASE calls[i].at = 0 /\ calls'[i].at = 1
    BY <2>1, <2>3 DEF WillBlock
  <2>4. CASE calls'[i].at = 4 /\ calls'[i].blocked
    BY <2>2, <2>4 DEF WillBlock
  <2>5. CASE /\ calls[i].at \in 1..3 /\ Reasons[calls[i].at] \notin Standing
             /\ calls'[i].at = calls[i].at + 1
    <3>1. calls[i].at <= Place(r)
      BY <1>5, <2>2, <2>5 DEF WillBlock
    <3>2. calls[i].at # Place(r)
      BY <1>5, <2>1, <2>5
    <3>3. calls'[i].at <= Place(r)
      BY <2>1, <2>5, <3>1, <3>2
    <3>4. QED
      BY <3>3 DEF WillBlock
  <2>6. QED
    BY <1>2, <2>3, <2>4, <2>5
<1>6. ASSUME NEW r \in Standing, r \in Reason, NEW n, NEW j \in DOMAIN calls, Tells(n, r, j)
      PROVE  Tells(n, r, j)'
  <2>1. CASE j = i
    BY <1>2, <1>5, <1>6, <2>1 DEF Tells
  <2>2. CASE j # i
    BY <1>3, <1>6, <2>2 DEF Tells, WillBlock
  <2>3. QED
    BY <2>1, <2>2
<1>7. ASSUME NEW m \in Meter, NEW r \in stood[m]
      PROVE  Pending(m, r)' \/ Settled(m, r)'
  <2>1. r \in Standing /\ r \in Reason
    BY StoodTypes DEF Core, Warned
  <2>2. CASE Pending(m, r)
    <3>1. PICK k \in DOMAIN calls : /\ calls[k].for = m /\ ~calls[k].late
                                    /\ \A j \in k..Len(calls) : Tells(meter[m].user, r, j)
      BY <2>2 DEF Pending
    <3>2. calls'[k].for = m /\ ~calls'[k].late
      BY <1>2, <1>3, <3>1
    <3>3. \A j \in k..Len(calls) : j \in DOMAIN calls
      BY <1>3
    <3>4. \A j \in k..Len(calls) : Tells(meter[m].user, r, j)'
      BY <1>1, <1>6, <2>1, <3>1, <3>3 DEF Tells
    <3>5. QED
      BY <1>1, <1>3, <3>1, <3>2, <3>4 DEF Pending
  <2>3. CASE Settled(m, r)
    <3>1. Blocked(m)'
      BY <1>1, <2>3 DEF Settled, Blocked
    <3>2. \A j \in DOMAIN calls : Tells(meter[m].user, r, j)'
      BY <1>1, <1>6, <2>1, <2>3 DEF Settled, Tells
    <3>3. QED
      BY <1>3, <3>1, <3>2 DEF Settled
  <2>4. QED
    BY <2>2, <2>3 DEF Warned
<1>8. QED
  BY <1>1, <1>4, <1>7 DEF Warned

\* An answer that lands blocks, or is older than the check the open awaits.
LEMMA LandWarned ==
    ASSUME Core, Warned, NEW i \in DOMAIN calls, Land(i)
    PROVE  Warned'
<1> DEFINE u == calls[i].user
<1>1. /\ Alters(u) /\ calls[i].at = 4 /\ u \in Meter
      /\ users'[u].blocked = IF calls[i].late THEN users[u].blocked ELSE calls[i].blocked
      /\ Len(calls') = Len(calls) - 1 /\ UNCHANGED <<meter, config, tunnel, ledger, stood>>
  BY LandIs, CallTypes DEF Core
<1>2. Standing' = Standing
  BY <1>1 DEF Standing
<1>3. /\ Len(calls) \in Nat /\ i \in 1..Len(calls) /\ DOMAIN calls = 1..Len(calls)
      /\ DOMAIN calls' = 1..(Len(calls) - 1)
  BY LandIs, CallTypes, Types DEF Core
<1>4. \A x \in Meter : x # u => users'[x] = users[x]
  BY <1>1, Types DEF Alters, Core
<1>5. ASSUME NEW m \in Meter, NEW r \in stood[m]
      PROVE  Pending(m, r)' \/ Settled(m, r)'
  <2> DEFINE n == meter[m].user
  <2>1. r \in Reason /\ Place(r) \in 1..3 /\ Answered = 4
    BY StoodTypes, PlaceIs, ReasonsAre DEF Core
  \* What an answer that counts for the person makes of them.
  <2>2. ASSUME n = u, ~calls[i].late, Tells(n, r, i)
        PROVE  Blocked(m)'
    <3>1. WillBlock(calls[i], r)
      BY <2>2 DEF Tells
    <3>2. calls[i].blocked
      BY <1>1, <2>1, <3>1 DEF WillBlock
    <3>3. users'[u].blocked
      BY <1>1, <2>2, <3>2
    <3>4. u # Null
      BY <1>1, NullIsNone
    <3>5. QED
      BY <1>1, <2>2, <3>3, <3>4 DEF Blocked
  \* The calls behind the one that landed move up; those before it may be passed.
  <2>3. ASSUME NEW j \in DOMAIN calls', Tells(n, r, IF j < i THEN j ELSE j + 1)
        PROVE  Tells(n, r, j)'
    <3> DEFINE k == IF j < i THEN j ELSE j + 1
    <3>1. /\ calls'[j].user = calls[k].user /\ calls'[j].at = calls[k].at
          /\ calls'[j].blocked = calls[k].blocked
          /\ calls[k].late => calls'[j].late
      BY LandCalls DEF Core
    <3>2. WillBlock(calls[k], r) => WillBlock(calls'[j], r)
      BY <3>1 DEF WillBlock
    <3>3. calls[k].user = n /\ ~calls[k].late => WillBlock(calls[k], r)
      BY <2>3 DEF Tells
    <3> HIDE DEF k
    <3>4. calls'[j].user = n /\ ~calls'[j].late => WillBlock(calls'[j], r)
      BY <3>1, <3>2, <3>3
    <3>5. QED
      BY <1>1, <3>4 DEF Tells
  <2>4. ASSUME n = u, NEW j \in DOMAIN calls', j < i
        PROVE  Tells(n, r, j)'
    <3>1. calls'[j].user = calls[j].user
          /\ calls'[j].late = (calls[j].late \/ calls[j].user = u)
      BY <2>4, LandCalls DEF Core
    <3>2. calls'[j].user = n => calls'[j].late
      BY <2>4, <3>1
    <3>3. QED
      BY <1>1, <3>2 DEF Tells
  <2>5. CASE Pending(m, r)
    <3>1. PICK k \in DOMAIN calls : /\ calls[k].for = m /\ ~calls[k].late
                                    /\ \A j \in k..Len(calls) : Tells(n, r, j)
      BY <2>5 DEF Pending
    <3>2. calls[k].user = n
      <4>1. m # Null
        BY NullIsNone
      <4>2. QED
        BY <3>1, <4>1 DEF Core, Asked
    <3>3. CASE i < k
      <4>1. k - 1 \in DOMAIN calls' /\ ~(k - 1 < i) /\ (k - 1) + 1 = k
        BY <1>3, <3>3
      <4>2. calls'[k - 1].for = calls[k].for /\ calls'[k - 1].late = calls[k].late
        <5> DEFINE y == k - 1
        <5>1. y \in DOMAIN calls' /\ ~(y < i) /\ y + 1 = k
          BY <4>1
        <5> HIDE DEF y
        <5>2. calls'[y].for = calls[k].for /\ calls'[y].late = calls[k].late
          BY <5>1, LandCalls DEF Core
        <5>3. QED
          BY <5>2 DEF y
      <4>3. ASSUME NEW j \in (k - 1)..Len(calls')
            PROVE  Tells(n, r, j)'
        <5>1. j \in DOMAIN calls' /\ ~(j < i) /\ j + 1 \in k..Len(calls)
          BY <1>1, <1>3, <3>3
        <5>2. Tells(n, r, IF j < i THEN j ELSE j + 1)
          BY <3>1, <5>1
        <5>3. QED
          BY <2>3, <5>1, <5>2
      <4>4. Pending(m, r)'
        BY <1>1, <3>1, <4>1, <4>2, <4>3 DEF Pending
      <4>5. QED
        BY <4>4
    <3>4. CASE i >= k /\ n = u
      <4>1. Tells(n, r, i)
        BY <1>3, <3>1, <3>4
      <4>2. ~calls[i].late
        <5>1. k = i \/ k < i
          BY <1>3, <3>4
        <5>2. QED
          BY <3>1, <3>2, <3>4, <5>1 DEF Core, LateFirst
      <4>3. Blocked(m)'
        BY <2>2, <3>4, <4>1, <4>2
      <4>4. ASSUME NEW j \in DOMAIN calls'
            PROVE  Tells(n, r, j)'
        <5>1. CASE j < i
          BY <2>4, <3>4, <5>1
        <5>2. CASE ~(j < i)
          <6>1. j + 1 \in k..Len(calls)
            BY <1>3, <3>4, <5>2
          <6>2. Tells(n, r, IF j < i THEN j ELSE j + 1)
            BY <3>1, <5>2, <6>1
          <6>3. QED
            BY <2>3, <6>2
        <5>3. QED
          BY <5>1, <5>2
      <4>5. Settled(m, r)'
        BY <1>1, <4>3, <4>4 DEF Settled
      <4>6. QED
        BY <4>5
    <3>5. CASE i >= k /\ n # u
      <4>1. i # k
        BY <3>2, <3>5
      <4>2. k < i /\ k \in DOMAIN calls'
        BY <1>3, <3>5, <4>1
      <4>3. calls'[k].for = calls[k].for
            /\ calls'[k].late = (calls[k].late \/ calls[k].user = u)
        BY <4>2, LandCalls DEF Core
      <4>4. ~calls'[k].late
        BY <3>1, <3>2, <3>5, <4>3
      <4>5. ASSUME NEW j \in k..Len(calls')
            PROVE  Tells(n, r, j)'
        <5>1. j \in DOMAIN calls' /\ (IF j < i THEN j ELSE j + 1) \in k..Len(calls)
          BY <1>1, <1>3, <4>2
        <5>2. QED
          BY <2>3, <3>1, <5>1
      <4>6. Pending(m, r)'
        BY <1>1, <3>1, <4>2, <4>3, <4>4, <4>5 DEF Pending
      <4>7. QED
        BY <4>6
    <3>6. QED
      BY <1>3, <3>3, <3>4, <3>5
  <2>6. CASE Settled(m, r)
    <3>1. Blocked(m) /\ \A j \in DOMAIN calls : Tells(n, r, j)
      BY <2>6 DEF Settled
    <3>2. Blocked(m)'
      <4>1. CASE n = u /\ ~calls[i].late
        BY <2>2, <3>1, <4>1
      <4>2. CASE n = u /\ calls[i].late
        <5>1. users'[u].blocked = users[u].blocked
          BY <1>1, <4>2
        <5>2. QED
          BY <1>1, <3>1, <4>2, <5>1 DEF Blocked
      <4>3. CASE n # u
        BY <1>1, <1>4, <3>1, <4>3, MeterTypes DEF Blocked, Core
      <4>4. QED
        BY <4>1, <4>2, <4>3
    <3>3. ASSUME NEW j \in DOMAIN calls'
          PROVE  Tells(n, r, j)'
      <4>1. (IF j < i THEN j ELSE j + 1) \in DOMAIN calls
        BY <1>3
      <4>2. QED
        BY <2>3, <3>1, <4>1
    <3>4. QED
      BY <1>1, <3>2, <3>3 DEF Settled
  <2>7. QED
    BY <2>5, <2>6 DEF Warned
<1>6. QED
  BY <1>1, <1>2, <1>5 DEF Warned

LEMMA ElsewhereWarned ==
    ASSUME Core, Warned, Elsewhere
    PROVE  Warned'
<1>1. /\ stood' = [m \in Meter |-> stood[m] \intersect Standing']
      /\ UNCHANGED <<users, current, meter, config, tunnel, calls>>
  BY ElsewhereIs DEF Core
<1>2. Grows(<<>>) /\ \A i \in 1..Len(<<>>) : <<>>[i].at \in 0..1
  BY <1>1, NoneGrows DEF Core
<1>3. \A m \in Meter : stood'[m] \subseteq stood[m] \intersect Standing'
  BY <1>1
<1>4. QED
  BY <1>1, <1>2, <1>3, GrowsWarned DEF Warned

LEMMA CloseWarned ==
    ASSUME Core, Warned, NEW s \in Session, CloseSession(s)
    PROVE  Warned'
<1> DEFINE m == config[s]
           k == meter[m].user
<1>1. /\ m \in Meter /\ k \in Meter
      /\ users' = [users EXCEPT ![k] = Without(users[k], s)]
      /\ users'[k] = Without(users[k], s)
      /\ meter' = [meter EXCEPT ![m] = [meter[m] EXCEPT !.closed = TRUE]]
      /\ stood' = [stood EXCEPT ![m] = {}]
      /\ UNCHANGED <<tunnel, calls, ledger>>
  BY CloseIs DEF Core
<1>2. \A x \in Meter : users'[x].blocked = users[x].blocked
  BY <1>1, WithoutIs, Types DEF Core
<1>3. \A x \in Meter : meter'[x].user = meter[x].user
  <2>1. [meter[m] EXCEPT !.closed = TRUE].user = meter[m].user
    BY <1>1, Types DEF Core, SessionMeter
  <2>2. QED
    BY <1>1, <2>1, Types DEF Core
<1>4. \A x \in Meter : stood'[x] \subseteq stood[x]
  BY <1>1 DEF Core, TypeOK
<1>5. Standing' = Standing
  BY <1>1 DEF Standing
<1> HIDE DEF m, k
<1>6. \A x \in Meter : stood'[x] \subseteq stood[x] \intersect Standing'
  BY <1>4, <1>5 DEF Warned
<1>7. Grows(<<>>) /\ \A i \in 1..Len(<<>>) : <<>>[i].at \in 0..1
  BY <1>1, NoneGrows DEF Core
<1>8. QED
  BY <1>2, <1>3, <1>6, <1>7, GrowsWarned DEF Warned

\* What stands when a session is opened, its own check is going to find.
LEMMA OpenWarned ==
    ASSUME Core, Warned, NEW s \in Session, NEW m \in Meter, OpenSession(s, m)
    PROVE  Warned'
<1> DEFINE n == StateFor(s, m)
           new == <<StatusCall(n, m)>>
<1>1. /\ n \in Meter /\ calls' = calls \o new /\ ledger' = ledger
      /\ \A x \in Meter : users'[x].blocked = users[x].blocked
  BY OpenIs
<1>2. /\ meter'[m].user = n /\ stood'[m] = Standing
      /\ config[s] # m /\ config[s] \in Meter \union {Null}
      /\ \A x \in Meter : x # m => meter'[x].user = meter[x].user
      /\ \A x \in Meter : x # m /\ x # config[s] => stood'[x] = stood[x]
      /\ config[s] # Null => stood'[config[s]] = {}
  BY OpenMeters
<1>3. /\ new \in Seq(Call) /\ Len(new) = 1
      /\ \A i \in 1..Len(new) : /\ ~new[i].late /\ new[i].for = m
                                /\ new[i].user = n /\ new[i].at = 1
  <2>1. Len(new) = 1
    OBVIOUS
  <2>2. QED
    BY <1>1, <2>1, StatusGrows
<1> HIDE DEF n, new
<1>4. Grows(new) /\ \A i \in 1..Len(new) : new[i].at \in 0..1
  BY <1>1, <1>3 DEF Grows
<1>5. Standing' = Standing
  BY <1>1 DEF Standing
<1>6. ASSUME NEW r \in Standing
      PROVE  Pending(m, r)'
  <2> DEFINE i == Len(calls) + 1
  <2>1. i \in DOMAIN calls' /\ calls'[i] = new[1] /\ Len(calls') = i
    <3>1. /\ Len(calls) \in Nat /\ Len(calls') = Len(calls) + Len(new)
          /\ DOMAIN calls' = 1..(Len(calls) + Len(new))
          /\ \A j \in DOMAIN calls' : j \notin 1..Len(calls) => calls'[j] = new[j - Len(calls)]
      BY <1>4, GrowsIs DEF Core
    <3>2. i \in DOMAIN calls' /\ i \notin 1..Len(calls) /\ i - Len(calls) = 1
      BY <1>3, <3>1
    <3>3. QED
      BY <1>3, <3>1, <3>2
  <2>2. calls'[i].for = m /\ ~calls'[i].late /\ calls'[i].at = 1
    BY <1>3, <2>1
  <2>3. r \in Reason
    BY <1>6, <1>5, ReasonsAre DEF Standing, Core, TypeOK
  <2>4. WillBlock(calls'[i], r)
    <3>1. Place(r) \in 1..3
      BY <2>3, PlaceIs
    <3>2. QED
      BY <2>2, <3>1 DEF WillBlock
  <2>5. i \in Nat
    BY <1>4, GrowsIs DEF Core
  <2> HIDE DEF i
  <2>6. \A j \in i..Len(calls') : j = i
    BY <2>1, <2>5
  <2>7. \A j \in i..Len(calls') : Tells(meter[m].user, r, j)'
    BY <2>4, <2>6 DEF Tells
  <2>8. QED
    BY <2>1, <2>2, <2>7 DEF Pending
<1>7. ASSUME NEW x \in Meter
      PROVE  /\ stood'[x] \subseteq Standing'
             /\ \A r \in stood'[x] : Pending(x, r)' \/ Settled(x, r)'
  <2>1. CASE x = m
    BY <1>2, <1>5, <1>6, <2>1
  <2>2. CASE x # m /\ x = config[s]
    BY <1>2, <2>2, NullIsNone
  <2>3. CASE x # m /\ x # config[s]
    <3>1. stood'[x] \subseteq stood[x] \intersect Standing' /\ meter'[x].user = meter[x].user
      BY <1>2, <1>5, <2>3 DEF Warned
    <3>2. QED
      BY <1>1, <1>4, <3>1, GrowsWarned
  <2>4. QED
    BY <2>1, <2>2, <2>3
<1>8. QED
  BY <1>7 DEF Warned

LEMMA WarnedStep ==
    ASSUME Core, Warned, [Next]_vars
    PROVE  Warned'
<1>1. CASE \E s \in Session, m \in Meter : OpenSession(s, m)
  BY <1>1, OpenWarned
<1>2. CASE \E m \in Meter : SessionOpened(m)
  <2>1. UNCHANGED <<users, calls, meter, ledger, stood>>
    BY <1>2 DEF SessionOpened
  <2>2. QED
    BY <2>1, QuietWarned
<1>3. CASE \E s \in Session : CloseSession(s)
  BY <1>3, CloseWarned
<1>4. ASSUME NEW t \in Tunnel,
             \/ \E s \in Session : Connect(t, s)
             \/ AskPlain(t) \/ Ask(t) \/ AskTooMuch(t)
             \/ \E billable \in BOOLEAN : Respond(t, billable)
             \/ End(t)
      PROVE  Warned'
  BY <1>4, TunnelWarned
<1>5. CASE \E i \in DOMAIN calls : Serve(i)
  BY <1>5, ServeWarned, LandWarned DEF Serve
<1>6. ASSUME NEW n \in Meter, Age(n)
      PROVE  Warned'
  <2>1. /\ Alters(n) /\ users'[n].blocked = users[n].blocked
        /\ UNCHANGED <<calls, meter, ledger, stood>>
    BY <1>6, AgeIs DEF Core
  <2>2. QED
    BY <2>1, BlockedByAlters, QuietWarned DEF Core
<1>7. CASE Elsewhere
  BY <1>7, ElsewhereWarned
<1>8. CASE UNCHANGED vars
  <2>1. UNCHANGED <<users, calls, meter, ledger, stood>>
    BY <1>8 DEF vars
  <2>2. QED
    BY <2>1, QuietWarned
<1>9. QED
  BY <1>1, <1>2, <1>3, <1>4, <1>5, <1>6, <1>7, <1>8 DEF Next

-----------------------------------------------------------------------------
IInv == Core /\ Warned

\* The inductive invariant: what every reachable state satisfies.
THEOREM MeterInvariant == Spec => []IInv
<1>1. Init => IInv
  <2>1. ASSUME Init
        PROVE  Warned
    BY <2>1 DEF Init, Warned
  <2>2. QED
    BY <2>1, InitCore DEF IInv
<1>2. IInv /\ [Next]_vars => IInv'
  BY CoreStep, WarnedStep DEF IInv
<1>3. QED
  BY <1>1, <1>2, PTL DEF Spec

\* Every variable of the meter keeps its type (provider-meter.ts, metered-tunnel.ts).
THEOREM MeterTypesHold == Spec => []TypeOK
<1>1. IInv => TypeOK
  BY DEF IInv, Core
<1>2. QED
  BY <1>1, MeterInvariant, PTL

\* A slot of a person's state is a request whose answer is awaited, and the other way
\* round: settle gives back every slot admit took, once (provider-meter.ts:150-166).
THEOREM SlotsAreKept == Spec => []SlotsAreCalls
<1>1. IInv => SlotsAreCalls
  BY DEF IInv, Core, Slots, SlotsAreCalls
<1>2. QED
  BY <1>1, MeterInvariant, PTL

\* All the calls that are in flight are those of the state in the hub's map.
LEMMA AllInMap ==
    ASSUME Core
    PROVE  CapHolds
<1>1. ASSUME NEW a \in Admitted
      PROVE  /\ HolderOf(a[1]) \in Meter /\ HolderOf(a[1]) = current
  <2>1. a[1] \in Tunnel /\ tunnel[a[1]].awaits # <<>>
    BY DEF Admitted, Marks
  <2>2. HolderOf(a[1]) \in Meter
    BY <2>1, AwaitingHasHolder DEF Core
  <2>3. a \in AdmittedBy(HolderOf(a[1]))
    BY DEF AdmittedBy
  <2>4. users[HolderOf(a[1])].inFlight # 0
    BY <2>2, <2>3, FS_EmptySet DEF Core, Slots
  <2>5. QED
    BY <2>2, <2>4 DEF Core, AtRest
<1>2. CASE Admitted = {}
  BY <1>2, FS_EmptySet, Bounds DEF CapHolds
<1>3. CASE Admitted # {}
  <2>1. current \in Meter /\ Admitted = AdmittedBy(current)
    BY <1>1, <1>3 DEF AdmittedBy
  <2>2. users[current].inFlight = Cardinality(Admitted)
    BY <2>1 DEF Core, Slots
  <2>3. users[current].inFlight <= MaxInFlight
    BY <2>1, Types, Bounds DEF Core, User
  <2>4. QED
    BY <2>2, <2>3 DEF CapHolds
<1>4. QED
  BY <1>2, <1>3

\* However many sessions, and however often they close and open again, a person has no
\* more than MaxInFlight model calls in flight (provider-meter.ts:16-18).
THEOREM CapIsKept == Spec => []CapHolds
<1>1. IInv => CapHolds
  BY AllInMap DEF IInv
<1>2. QED
  BY <1>1, MeterInvariant, PTL

LEMMA WarnedBlocks ==
    ASSUME Core, Warned
    PROVE  StartsBlocked
<1> SUFFICES ASSUME NEW m \in Meter, Open(m), stood[m] # {}
             PROVE  Blocked(m)
  BY DEF StartsBlocked
<1>1. PICK r \in stood[m] : TRUE
  OBVIOUS
<1>2. CASE Pending(m, r)
  <2>1. PICK i \in DOMAIN calls : calls[i].for = m
    BY <1>2 DEF Pending
  <2>2. config[meter[m].session] # m
    BY <2>1, NullIsNone DEF Core, Asked
  <2>3. QED
    BY <2>2 DEF Open
<1>3. CASE Settled(m, r)
  BY <1>3 DEF Settled
<1>4. QED
  BY <1>1, <1>2, <1>3 DEF Warned

\* A session whose person was blocked when it was opened starts blocked and stays so:
\* no answer of the ledger from before, and none that lands out of order, lifts it
\* (provider-meter.ts:183-205 and apply, 257-262).
THEOREM StartsBlockedIsKept == Spec => []StartsBlocked
<1>1. IInv => StartsBlocked
  BY WarnedBlocks DEF IInv
<1>2. QED
  BY <1>1, MeterInvariant, PTL
=============================================================================
