--------------------------- MODULE ChatTurnProofs ---------------------------
(***************************************************************************)
(* Proofs about ChatTurn, for any number of turns and faults: an accepted  *)
(* Stop is not lost and stays behind its message, an open proxy session    *)
(* has somebody who will close it, no abnormal end is silent, and the      *)
(* types.                                                                  *)
(*                                                                         *)
(* What makes StopFollows inductive is that a Stop can only name a turn    *)
(* that has been bound (StopsBound), and that no turn goes back (Forward): *)
(* once a message is queued, or will never be, that stays so.              *)
(*                                                                         *)
(* What makes NoSilentEnd inductive (SInv) is that a turn stays in the     *)
(* list of its session's waiters from its registration to its end, that    *)
(* nobody is routed into a session before it is open, so that a failed     *)
(* opening concerns its own turn only, and that a runner that is known to  *)
(* have exited has no live session, so that no message is queued after the *)
(* end was announced.                                                      *)
(***************************************************************************)
EXTENDS ChatTurn, WellFoundedInduction, NaturalsInduction, TLAPS

\* What the parts of the invariant need of the types.
TurnTyped == turn \in [Turn -> [at : InvokeAt \union {"new", "posting", "ended"}, on : Turn]]
ConvTyped == conv \in [session : None, req : None]
OwnersTyped == warm \in [Turn -> {"no", "quiet", "armed", "grace"}] /\ proxy \subseteq Turn
StopTyped ==
    /\ stop \in [at : {"idle", "read", "probed", "done"}, req : None, session : None, alive : BOOLEAN]
    /\ stopRequested \subseteq Turn /\ asked \subseteq Turn
InboxTyped == inbox \in [Turn -> Seq(Entry)]

\* A Stop that is accepted is owed until it is queued.
Owed == \A t \in asked : t \in stopRequested \/ At(t, "stop")

\* A turn that a Stop can name has been bound to its conversation.
Bound(t) == turn[t].at \notin {"new", "posting"}
StopsBound ==
    /\ conv.req # Null => Bound(conv.req)
    /\ stop.at \in {"read", "probed"} => stop.req \in Turn /\ Bound(stop.req)
    /\ stop.alive => stop.session # Null

\* A turn whose interrupt is in an inbox has queued its message, or never will.
Past(t) == t \in Turn /\ turn[t].at \in {"stop", "await", "kill", "ended"}
StopsBehind ==
    \A s \in Turn : \A i \in 1..Len(inbox[s]) : inbox[s][i].what = "stop" => Past(inbox[s][i].of)

IInv ==
    /\ TurnTyped /\ ConvTyped /\ OwnersTyped /\ StopTyped /\ InboxTyped
    /\ Owed /\ StopsBound /\ StopsBehind /\ ProxyHasOwner

\* No step takes a turn back.
Forward == \A t \in Turn : (Bound(t) => Bound(t)') /\ (Past(t) => Past(t)')

\* What a step may do to the inboxes.
InboxMoves ==
    \/ UNCHANGED inbox
    \/ \E s \in Turn :
         \/ inbox' = [inbox EXCEPT ![s] = <<>>]
         \/ inbox[s] # <<>> /\ inbox' = [inbox EXCEPT ![s] = Tail(inbox[s])]
         \/ \E what \in {"message", "stop", "cancel"}, of \in None :
              (what = "stop" => Past(of)') /\ Put(s, what, of)

\* The updates of a turn and of a runner are always expanded.
USE DEF At, Goes, Moves, On, Does, Bound

-----------------------------------------------------------------------------

\* The inboxes keep their types, and every interrupt stays behind its message.
LEMMA InboxKept ==
    ASSUME TurnTyped, InboxTyped, StopsBehind, Forward, InboxMoves
    PROVE  InboxTyped' /\ StopsBehind'
<1>. DEFINE Behind(q) == \A i \in 1..Len(q) : q[i].what = "stop" =>
                   q[i].of \in Turn /\ turn'[q[i].of].at \in {"stop", "await", "kill", "ended"}
<1>1. \A s \in Turn : Behind(inbox[s])
    BY DEF StopsBehind, Forward, Past
<1>2. CASE UNCHANGED inbox
    BY <1>1, <1>2 DEF InboxTyped, StopsBehind, Past
<1>3. ASSUME NEW s \in Turn, NEW q \in Seq(Entry), Behind(q), inbox' = [inbox EXCEPT ![s] = q]
      PROVE  InboxTyped' /\ StopsBehind'
    <2>1. \A u \in Turn : inbox'[u] = IF u = s THEN q ELSE inbox[u]
        BY <1>3 DEF InboxTyped
    <2>. QED BY <1>1, <1>3, <2>1 DEF InboxTyped, StopsBehind, Past
<1>4. ASSUME NEW s \in Turn, inbox' = [inbox EXCEPT ![s] = <<>>]
      PROVE  InboxTyped' /\ StopsBehind'
    <2>1. <<>> \in Seq(Entry) /\ Behind(<<>>)
        OBVIOUS
    <2>. QED BY <1>3, <1>4, <2>1
<1>5. ASSUME NEW s \in Turn, inbox[s] # <<>>, inbox' = [inbox EXCEPT ![s] = Tail(inbox[s])]
      PROVE  InboxTyped' /\ StopsBehind'
    <2>1. inbox[s] \in Seq(Entry)
        BY DEF InboxTyped
    <2>2. Tail(inbox[s]) \in Seq(Entry) /\ Len(Tail(inbox[s])) = Len(inbox[s]) - 1
          /\ \A i \in 1..Len(Tail(inbox[s])) : Tail(inbox[s])[i] = inbox[s][i + 1]
        BY <1>5, <2>1
    <2>3. Behind(Tail(inbox[s]))
        BY <1>1, <2>1, <2>2
    <2>. QED BY <1>3, <1>5, <2>2, <2>3
<1>6. ASSUME NEW s \in Turn, NEW what \in {"message", "stop", "cancel"}, NEW of \in None,
             what = "stop" => Past(of)', Put(s, what, of)
      PROVE  InboxTyped' /\ StopsBehind'
    <2>. DEFINE e == [what |-> what, of |-> of]
    <2>1. inbox[s] \in Seq(Entry)
        BY DEF InboxTyped
    <2>2. e \in Entry
        BY DEF Entry
    <2>3. Append(inbox[s], e) \in Seq(Entry) /\ Len(Append(inbox[s], e)) = Len(inbox[s]) + 1
          /\ \A i \in 1..Len(inbox[s]) : Append(inbox[s], e)[i] = inbox[s][i]
          /\ Append(inbox[s], e)[Len(inbox[s]) + 1] = e
        BY <2>1, <2>2
    <2>4. Behind(Append(inbox[s], e))
        BY <1>1, <1>6, <2>1, <2>3 DEF Past
    <2>5. inbox' = [inbox EXCEPT ![s] = Append(inbox[s], e)]
        BY <1>6 DEF Put
    <2>. QED BY <1>3, <2>3, <2>4, <2>5
<1>. QED BY <1>2, <1>4, <1>5, <1>6 DEF InboxMoves

\* An invoke starts to wait, or has its outcome already.
LEMMA AwaitsMoves ==
    ASSUME TurnTyped, NEW t \in Turn, Awaits(t)
    PROVE  \E pc \in {"await", "ended", "kill"}, u \in Turn :
              turn' = [turn EXCEPT ![t] = [at |-> pc, on |-> u]]
<1>1. CASE waiter[t] = "open"
    BY <1>1 DEF Awaits, TurnTyped
<1>2. CASE waiter[t] # "open"
    BY <1>2 DEF Awaits, Over
<1>. QED BY <1>1, <1>2

\* A turn's end leaves the conversation's reqId or clears it.
LEMMA TurnEndedConv ==
    ASSUME NEW s \in Turn, TurnEnded(s)
    PROVE  conv' = conv \/ conv' = [session |-> conv.session, req |-> Null]
BY DEF TurnEnded

-----------------------------------------------------------------------------
(* The runner, and what follows its exit.                                  *)

LEMMA KeepsRead ==
    ASSUME IInv, NEW s \in Turn, Read(s)
    PROVE  IInv'
<1>1. TurnTyped'
    BY NullIsNoTurn DEF IInv, Read, TurnTyped, ConvTyped, Up, stopVars, InvokeAt, None
<1>2. ConvTyped'
    BY NullIsNoTurn DEF IInv, Read, ConvTyped, TurnTyped, Up, stopVars, None, InvokeAt
<1>3. OwnersTyped'
    BY NullIsNoTurn DEF IInv, Read, OwnersTyped, TurnTyped, Up, stopVars, InvokeAt
<1>4. StopTyped'
    BY NullIsNoTurn, SMTT(10) DEF IInv, Read, StopTyped, TurnTyped, ConvTyped, Up, stopVars,
       None, InvokeAt
<1>5. Forward
    BY NullIsNoTurn DEF IInv, Read, Forward, TurnTyped, Up, stopVars, Past, InvokeAt
<1>6. InboxMoves
    <2>1. inbox[s] # <<>> /\ inbox' = [inbox EXCEPT ![s] = Tail(inbox[s])]
        BY DEF Read
    <2>. QED BY <2>1 DEF InboxMoves
<1>7. Owed'
    BY NullIsNoTurn, SMTT(10) DEF IInv, Read, Owed, TurnTyped, StopTyped, Up, stopVars,
       InvokeAt, None
<1>8. StopsBound'
    BY NullIsNoTurn, SMTT(10) DEF IInv, Read, StopsBound, TurnTyped, ConvTyped, StopTyped,
       Up, stopVars, InvokeAt, None
<1>9. ProxyHasOwner'
    BY NullIsNoTurn, SMTT(10) DEF IInv, Read, ProxyHasOwner, TurnTyped, OwnersTyped, Up,
       stopVars, InvokeAt
<1>. QED BY <1>1, <1>2, <1>3, <1>4, <1>5, <1>6, <1>7, <1>8, <1>9, InboxKept DEF IInv

LEMMA KeepsConsume ==
    ASSUME IInv, NEW s \in Turn, Consume(s)
    PROVE  IInv'
<1>1. TurnTyped'
    BY NullIsNoTurn DEF IInv, Consume, TurnTyped, ConvTyped, Up, boxVars, stopVars,
       InvokeAt, None
<1>2. ConvTyped'
    BY NullIsNoTurn DEF IInv, Consume, ConvTyped, TurnTyped, Up, boxVars, stopVars, None,
       InvokeAt
<1>3. OwnersTyped'
    BY NullIsNoTurn DEF IInv, Consume, OwnersTyped, TurnTyped, Up, boxVars, stopVars,
       InvokeAt
<1>4. StopTyped'
    BY NullIsNoTurn, SMTT(10) DEF IInv, Consume, StopTyped, TurnTyped, ConvTyped, Up,
       boxVars, stopVars, None, InvokeAt
<1>5. Forward
    BY NullIsNoTurn DEF IInv, Consume, Forward, TurnTyped, Up, boxVars, stopVars, Past,
       InvokeAt
<1>6. InboxMoves
    BY NullIsNoTurn, SMTT(10) DEF IInv, Consume, InboxMoves, TurnTyped, StopTyped,
       StopsBound, Up, boxVars, stopVars, None, Past, Put, InvokeAt
<1>7. Owed'
    BY NullIsNoTurn, SMTT(10) DEF IInv, Consume, Owed, TurnTyped, StopTyped, Up, boxVars,
       stopVars, InvokeAt, None
<1>8. StopsBound'
    BY NullIsNoTurn, SMTT(10) DEF IInv, Consume, StopsBound, TurnTyped, ConvTyped,
       StopTyped, Up, boxVars, stopVars, InvokeAt, None
<1>9. ProxyHasOwner'
    BY NullIsNoTurn, SMTT(10) DEF IInv, Consume, ProxyHasOwner, TurnTyped, OwnersTyped, Up,
       boxVars, stopVars, InvokeAt
<1>. QED BY <1>1, <1>2, <1>3, <1>4, <1>5, <1>6, <1>7, <1>8, <1>9, InboxKept DEF IInv

LEMMA KeepsChunk ==
    ASSUME IInv, NEW s \in Turn, Chunk(s)
    PROVE  IInv'
<1>1. TurnTyped'
    BY NullIsNoTurn DEF IInv, Chunk, TurnTyped, ConvTyped, Up, boxVars, stopVars, InvokeAt,
       None
<1>2. ConvTyped'
    BY NullIsNoTurn DEF IInv, Chunk, ConvTyped, TurnTyped, Up, boxVars, stopVars, None,
       InvokeAt
<1>3. OwnersTyped'
    BY NullIsNoTurn DEF IInv, Chunk, OwnersTyped, TurnTyped, Up, boxVars, stopVars, InvokeAt
<1>4. StopTyped'
    BY NullIsNoTurn, SMTT(10) DEF IInv, Chunk, StopTyped, TurnTyped, ConvTyped, Up, boxVars,
       stopVars, None, InvokeAt
<1>5. Forward
    BY NullIsNoTurn DEF IInv, Chunk, Forward, TurnTyped, Up, boxVars, stopVars, Past,
       InvokeAt
<1>6. InboxMoves
    BY NullIsNoTurn, SMTT(10) DEF IInv, Chunk, InboxMoves, TurnTyped, StopTyped, StopsBound,
       Up, boxVars, stopVars, None, Past, Put, InvokeAt
<1>7. Owed'
    BY NullIsNoTurn, SMTT(10) DEF IInv, Chunk, Owed, TurnTyped, StopTyped, Up, boxVars,
       stopVars, InvokeAt, None
<1>8. StopsBound'
    BY NullIsNoTurn, SMTT(10) DEF IInv, Chunk, StopsBound, TurnTyped, ConvTyped, StopTyped,
       Up, boxVars, stopVars, InvokeAt, None
<1>9. ProxyHasOwner'
    BY NullIsNoTurn, SMTT(10) DEF IInv, Chunk, ProxyHasOwner, TurnTyped, OwnersTyped, Up,
       boxVars, stopVars, InvokeAt
<1>. QED BY <1>1, <1>2, <1>3, <1>4, <1>5, <1>6, <1>7, <1>8, <1>9, InboxKept DEF IInv

\* Whoever settles a deferred takes no turn back, and moves only those that await it.
LEMMA SettleTakesOn ==
    ASSUME TurnTyped, NEW T, NEW outcome, Settle(T, outcome)
    PROVE  /\ TurnTyped'
           /\ \A t \in Turn : turn'[t] = turn[t] \/ (At(t, "await") /\ turn'[t].at \in {"ended", "kill"})
<1>1. /\ turn' = [t \in Turn |-> turn'[t]]
      /\ \A t \in Turn : turn'[t] = IF t \in T /\ At(t, "await") THEN Over(t, outcome) ELSE turn[t]
    BY DEF Settle
<1>2. \A t \in Turn : Over(t, outcome) \in [at : {"ended", "kill"}, on : Turn]
    BY DEF Over
<1>3. \A t \in Turn : turn'[t] = turn[t] \/ (At(t, "await") /\ turn'[t] \in [at : {"ended", "kill"}, on : Turn])
    <2>. TAKE t \in Turn
    <2>1. turn'[t] = IF t \in T /\ At(t, "await") THEN Over(t, outcome) ELSE turn[t]
        BY <1>1
    <2>. QED BY <1>2, <2>1
<1>4. TurnTyped'
    <2>1. \A t \in Turn : turn'[t] \in [at : InvokeAt \union {"new", "posting", "ended"}, on : Turn]
        BY <1>3 DEF TurnTyped, InvokeAt
    <2>. QED BY <1>1, <2>1 DEF TurnTyped
<1>5. \A t \in Turn : turn'[t] = turn[t] \/ (At(t, "await") /\ turn'[t].at \in {"ended", "kill"})
    BY <1>3
<1>. QED BY <1>4, <1>5

LEMMA KeepsTurnEnded ==
    ASSUME IInv, NEW s \in Turn, TurnEnded(s), UNCHANGED <<inbox, proxy, stop, stopRequested, asked>>
    PROVE  IInv'
<1>1. PICK T : Settle(T, "complete")
    BY DEF TurnEnded
<1>2. /\ TurnTyped'
      /\ \A t \in Turn : turn'[t] = turn[t] \/ (At(t, "await") /\ turn'[t].at \in {"ended", "kill"})
    BY <1>1, SettleTakesOn DEF IInv
<1>3. conv' = conv \/ conv' = [session |-> conv.session, req |-> Null]
    BY TurnEndedConv
<1>4. ConvTyped'
    BY <1>3 DEF IInv, ConvTyped, None
<1>5. /\ warm' \in [Turn -> {"no", "quiet", "armed", "grace"}]
      /\ \A t \in Turn : warm[t] # "no" => warm'[t] # "no"
    BY DEF IInv, OwnersTyped, TurnEnded
<1>6. OwnersTyped' /\ StopTyped'
    BY <1>5 DEF IInv, OwnersTyped, StopTyped
<1>7. Forward
    BY <1>2 DEF Forward, Past
<1>8. Owed'
    BY <1>2 DEF IInv, StopTyped, Owed
<1>9. StopsBound'
    <2>1. conv'.req # Null => conv'.req = conv.req /\ conv.req \in Turn
        BY <1>3 DEF IInv, ConvTyped, None
    <2>. QED BY <1>7, <2>1 DEF IInv, StopsBound, Forward
<1>10. ProxyHasOwner'
    BY <1>2, <1>5 DEF IInv, OwnersTyped, ProxyHasOwner
<1>11. InboxMoves
    BY DEF InboxMoves
<1>. QED BY <1>2, <1>4, <1>6, <1>7, <1>8, <1>9, <1>10, <1>11, InboxKept DEF IInv

LEMMA KeepsEndTool ==
    ASSUME IInv, NEW s \in Turn, EndTool(s)
    PROVE  IInv'
BY KeepsTurnEnded DEF EndTool, boxVars, stopVars

LEMMA KeepsEndTurn ==
    ASSUME IInv, NEW s \in Turn, EndTurn(s)
    PROVE  IInv'
BY KeepsTurnEnded DEF EndTurn, boxVars, stopVars

LEMMA KeepsIdleFloor ==
    ASSUME IInv, NEW s \in Turn, IdleFloor(s)
    PROVE  IInv'
<1>1. TurnTyped'
    BY NullIsNoTurn DEF IInv, IdleFloor, TurnTyped, ConvTyped, Up, Entering, boxVars,
       stopVars, InvokeAt, None
<1>2. ConvTyped'
    BY NullIsNoTurn DEF IInv, IdleFloor, ConvTyped, TurnTyped, Up, Entering, boxVars,
       stopVars, None, InvokeAt
<1>3. OwnersTyped'
    BY NullIsNoTurn DEF IInv, IdleFloor, OwnersTyped, TurnTyped, Up, Entering, boxVars,
       stopVars, InvokeAt
<1>4. StopTyped'
    BY NullIsNoTurn, SMTT(10) DEF IInv, IdleFloor, StopTyped, TurnTyped, ConvTyped, Up,
       Entering, boxVars, stopVars, None, InvokeAt
<1>5. Forward
    BY NullIsNoTurn DEF IInv, IdleFloor, Forward, TurnTyped, Up, Entering, boxVars,
       stopVars, Past, InvokeAt
<1>6. InboxMoves
    BY NullIsNoTurn, SMTT(10) DEF IInv, IdleFloor, InboxMoves, TurnTyped, StopTyped,
       StopsBound, Up, Entering, boxVars, stopVars, None, Past, Put, InvokeAt
<1>7. Owed'
    BY NullIsNoTurn, SMTT(10) DEF IInv, IdleFloor, Owed, TurnTyped, StopTyped, Up, Entering,
       boxVars, stopVars, InvokeAt, None
<1>8. StopsBound'
    BY NullIsNoTurn, SMTT(10) DEF IInv, IdleFloor, StopsBound, TurnTyped, ConvTyped,
       StopTyped, Up, Entering, boxVars, stopVars, InvokeAt, None
<1>9. ProxyHasOwner'
    BY NullIsNoTurn, SMTT(10) DEF IInv, IdleFloor, ProxyHasOwner, TurnTyped, OwnersTyped,
       Up, Entering, boxVars, stopVars, InvokeAt
<1>. QED BY <1>1, <1>2, <1>3, <1>4, <1>5, <1>6, <1>7, <1>8, <1>9, InboxKept DEF IInv

LEMMA KeepsDrain ==
    ASSUME IInv, NEW s \in Turn, Drain(s)
    PROVE  IInv'
<1>1. TurnTyped'
    BY NullIsNoTurn DEF IInv, Drain, TurnTyped, ConvTyped, Resting, ChatEnded, Off, boxVars,
       stopVars, InvokeAt, None, Up, Settle, Open, Oldest, Hears, Over, Unregister
<1>2. ConvTyped'
    BY NullIsNoTurn DEF IInv, Drain, ConvTyped, TurnTyped, Resting, ChatEnded, Off, boxVars,
       stopVars, None, InvokeAt, Up, Settle, Open, Oldest, Hears, Over, Unregister
<1>3. OwnersTyped'
    BY NullIsNoTurn DEF IInv, Drain, OwnersTyped, TurnTyped, Resting, ChatEnded, Off,
       boxVars, stopVars, InvokeAt, Up, Settle, Open, Oldest, Hears, Over, Unregister
<1>4. StopTyped'
    BY NullIsNoTurn, SMTT(10) DEF IInv, Drain, StopTyped, TurnTyped, ConvTyped, Resting,
       ChatEnded, Off, boxVars, stopVars, None, InvokeAt, Up, Settle, Open, Oldest, Hears,
       Over, Unregister
<1>5. Forward
    BY NullIsNoTurn DEF IInv, Drain, Forward, TurnTyped, Resting, ChatEnded, Off, boxVars,
       stopVars, Past, InvokeAt, Up, Settle, Open, Oldest, Hears, Over, Unregister
<1>6. InboxMoves
    BY NullIsNoTurn, SMTT(10) DEF IInv, Drain, InboxMoves, TurnTyped, StopTyped, StopsBound,
       Resting, ChatEnded, Off, boxVars, stopVars, None, Past, Put, InvokeAt, Up, Settle,
       Open, Oldest, Hears, Over, Unregister
<1>7. Owed'
    BY NullIsNoTurn, SMTT(10) DEF IInv, Drain, Owed, TurnTyped, StopTyped, Resting,
       ChatEnded, Off, boxVars, stopVars, InvokeAt, None, Up, Settle, Open, Oldest, Hears,
       Over, Unregister
<1>8. StopsBound'
    BY NullIsNoTurn, SMTT(10) DEF IInv, Drain, StopsBound, TurnTyped, ConvTyped, StopTyped,
       Resting, ChatEnded, Off, boxVars, stopVars, InvokeAt, None, Up, Settle, Open, Oldest,
       Hears, Over, Unregister
<1>9. ProxyHasOwner'
    BY NullIsNoTurn, SMTT(10) DEF IInv, Drain, ProxyHasOwner, TurnTyped, OwnersTyped,
       Resting, ChatEnded, Off, boxVars, stopVars, InvokeAt, Up, Settle, Open, Oldest,
       Hears, Over, Unregister
<1>. QED BY <1>1, <1>2, <1>3, <1>4, <1>5, <1>6, <1>7, <1>8, <1>9, InboxKept DEF IInv

LEMMA KeepsLoopFails ==
    ASSUME IInv, NEW s \in Turn, LoopFails(s)
    PROVE  IInv'
<1>1. TurnTyped'
    BY NullIsNoTurn DEF IInv, LoopFails, TurnTyped, ConvTyped, Up, ChatEnded, Off, boxVars,
       stopVars, InvokeAt, None, Settle, Open, Oldest, Hears, Over, Unregister
<1>2. ConvTyped'
    BY NullIsNoTurn DEF IInv, LoopFails, ConvTyped, TurnTyped, Up, ChatEnded, Off, boxVars,
       stopVars, None, InvokeAt, Settle, Open, Oldest, Hears, Over, Unregister
<1>3. OwnersTyped'
    BY NullIsNoTurn DEF IInv, LoopFails, OwnersTyped, TurnTyped, Up, ChatEnded, Off,
       boxVars, stopVars, InvokeAt, Settle, Open, Oldest, Hears, Over, Unregister
<1>4. StopTyped'
    BY NullIsNoTurn, SMTT(10) DEF IInv, LoopFails, StopTyped, TurnTyped, ConvTyped, Up,
       ChatEnded, Off, boxVars, stopVars, None, InvokeAt, Settle, Open, Oldest, Hears, Over,
       Unregister
<1>5. Forward
    BY NullIsNoTurn DEF IInv, LoopFails, Forward, TurnTyped, Up, ChatEnded, Off, boxVars,
       stopVars, Past, InvokeAt, Settle, Open, Oldest, Hears, Over, Unregister
<1>6. InboxMoves
    BY NullIsNoTurn, SMTT(10) DEF IInv, LoopFails, InboxMoves, TurnTyped, StopTyped,
       StopsBound, Up, ChatEnded, Off, boxVars, stopVars, None, Past, Put, InvokeAt, Settle,
       Open, Oldest, Hears, Over, Unregister
<1>7. Owed'
    BY NullIsNoTurn, SMTT(10) DEF IInv, LoopFails, Owed, TurnTyped, StopTyped, Up,
       ChatEnded, Off, boxVars, stopVars, InvokeAt, None, Settle, Open, Oldest, Hears, Over,
       Unregister
<1>8. StopsBound'
    BY NullIsNoTurn, SMTT(10) DEF IInv, LoopFails, StopsBound, TurnTyped, ConvTyped,
       StopTyped, Up, ChatEnded, Off, boxVars, stopVars, InvokeAt, None, Settle, Open,
       Oldest, Hears, Over, Unregister
<1>9. ProxyHasOwner'
    BY NullIsNoTurn, SMTT(10) DEF IInv, LoopFails, ProxyHasOwner, TurnTyped, OwnersTyped,
       Up, ChatEnded, Off, boxVars, stopVars, InvokeAt, Settle, Open, Oldest, Hears, Over,
       Unregister
<1>. QED BY <1>1, <1>2, <1>3, <1>4, <1>5, <1>6, <1>7, <1>8, <1>9, InboxKept DEF IInv

LEMMA KeepsLeave ==
    ASSUME IInv, NEW s \in Turn, Leave(s)
    PROVE  IInv'
<1>1. TurnTyped'
    BY NullIsNoTurn DEF IInv, Leave, TurnTyped, ConvTyped, Up, Exits, boxVars, stopVars,
       InvokeAt, None, Off
<1>2. ConvTyped'
    BY NullIsNoTurn DEF IInv, Leave, ConvTyped, TurnTyped, Up, Exits, boxVars, stopVars,
       None, InvokeAt, Off
<1>3. OwnersTyped'
    BY NullIsNoTurn DEF IInv, Leave, OwnersTyped, TurnTyped, Up, Exits, boxVars, stopVars,
       InvokeAt, Off
<1>4. StopTyped'
    BY NullIsNoTurn, SMTT(10) DEF IInv, Leave, StopTyped, TurnTyped, ConvTyped, Up, Exits,
       boxVars, stopVars, None, InvokeAt, Off
<1>5. Forward
    BY NullIsNoTurn DEF IInv, Leave, Forward, TurnTyped, Up, Exits, boxVars, stopVars, Past,
       InvokeAt, Off
<1>6. InboxMoves
    BY NullIsNoTurn, SMTT(10) DEF IInv, Leave, InboxMoves, TurnTyped, StopTyped, StopsBound,
       Up, Exits, boxVars, stopVars, None, Past, Put, InvokeAt, Off
<1>7. Owed'
    BY NullIsNoTurn, SMTT(10) DEF IInv, Leave, Owed, TurnTyped, StopTyped, Up, Exits,
       boxVars, stopVars, InvokeAt, None, Off
<1>8. StopsBound'
    BY NullIsNoTurn, SMTT(10) DEF IInv, Leave, StopsBound, TurnTyped, ConvTyped, StopTyped,
       Up, Exits, boxVars, stopVars, InvokeAt, None, Off
<1>9. ProxyHasOwner'
    BY NullIsNoTurn, SMTT(10) DEF IInv, Leave, ProxyHasOwner, TurnTyped, OwnersTyped, Up,
       Exits, boxVars, stopVars, InvokeAt, Off
<1>. QED BY <1>1, <1>2, <1>3, <1>4, <1>5, <1>6, <1>7, <1>8, <1>9, InboxKept DEF IInv

LEMMA KeepsCrash ==
    ASSUME IInv, NEW s \in Turn, Crash(s)
    PROVE  IInv'
<1>1. TurnTyped'
    BY NullIsNoTurn DEF IInv, Crash, TurnTyped, ConvTyped, Up, Exits, boxVars, stopVars,
       InvokeAt, None, Off
<1>2. ConvTyped'
    BY NullIsNoTurn DEF IInv, Crash, ConvTyped, TurnTyped, Up, Exits, boxVars, stopVars,
       None, InvokeAt, Off
<1>3. OwnersTyped'
    BY NullIsNoTurn DEF IInv, Crash, OwnersTyped, TurnTyped, Up, Exits, boxVars, stopVars,
       InvokeAt, Off
<1>4. StopTyped'
    BY NullIsNoTurn, SMTT(10) DEF IInv, Crash, StopTyped, TurnTyped, ConvTyped, Up, Exits,
       boxVars, stopVars, None, InvokeAt, Off
<1>5. Forward
    BY NullIsNoTurn DEF IInv, Crash, Forward, TurnTyped, Up, Exits, boxVars, stopVars, Past,
       InvokeAt, Off
<1>6. InboxMoves
    BY NullIsNoTurn, SMTT(10) DEF IInv, Crash, InboxMoves, TurnTyped, StopTyped, StopsBound,
       Up, Exits, boxVars, stopVars, None, Past, Put, InvokeAt, Off
<1>7. Owed'
    BY NullIsNoTurn, SMTT(10) DEF IInv, Crash, Owed, TurnTyped, StopTyped, Up, Exits,
       boxVars, stopVars, InvokeAt, None, Off
<1>8. StopsBound'
    BY NullIsNoTurn, SMTT(10) DEF IInv, Crash, StopsBound, TurnTyped, ConvTyped, StopTyped,
       Up, Exits, boxVars, stopVars, InvokeAt, None, Off
<1>9. ProxyHasOwner'
    BY NullIsNoTurn, SMTT(10) DEF IInv, Crash, ProxyHasOwner, TurnTyped, OwnersTyped, Up,
       Exits, boxVars, stopVars, InvokeAt, Off
<1>. QED BY <1>1, <1>2, <1>3, <1>4, <1>5, <1>6, <1>7, <1>8, <1>9, InboxKept DEF IInv

LEMMA KeepsExitEnds ==
    ASSUME IInv, NEW s \in Turn, ExitEnds(s)
    PROVE  IInv'
<1>1. TurnTyped'
    BY NullIsNoTurn DEF IInv, ExitEnds, TurnTyped, ConvTyped, EndSession, Off, stopVars,
       InvokeAt, None
<1>2. ConvTyped'
    BY NullIsNoTurn DEF IInv, ExitEnds, ConvTyped, TurnTyped, EndSession, Off, stopVars,
       None, InvokeAt
<1>3. OwnersTyped'
    BY NullIsNoTurn DEF IInv, ExitEnds, OwnersTyped, TurnTyped, EndSession, Off, stopVars,
       InvokeAt
<1>4. StopTyped'
    BY NullIsNoTurn, SMTT(10) DEF IInv, ExitEnds, StopTyped, TurnTyped, ConvTyped,
       EndSession, Off, stopVars, None, InvokeAt
<1>5. Forward
    BY NullIsNoTurn DEF IInv, ExitEnds, Forward, TurnTyped, EndSession, Off, stopVars, Past,
       InvokeAt
<1>6. InboxMoves
    <2>1. inbox' = [inbox EXCEPT ![s] = <<>>]
        BY DEF ExitEnds, EndSession
    <2>. QED BY <2>1 DEF InboxMoves
<1>7. Owed'
    BY NullIsNoTurn, SMTT(10) DEF IInv, ExitEnds, Owed, TurnTyped, StopTyped, EndSession,
       Off, stopVars, InvokeAt, None
<1>8. StopsBound'
    BY NullIsNoTurn, SMTT(10) DEF IInv, ExitEnds, StopsBound, TurnTyped, ConvTyped,
       StopTyped, EndSession, Off, stopVars, InvokeAt, None
<1>9. ProxyHasOwner'
    BY NullIsNoTurn, SMTT(10) DEF IInv, ExitEnds, ProxyHasOwner, TurnTyped, OwnersTyped,
       EndSession, Off, stopVars, InvokeAt
<1>. QED BY <1>1, <1>2, <1>3, <1>4, <1>5, <1>6, <1>7, <1>8, <1>9, InboxKept DEF IInv

LEMMA KeepsExitTells ==
    ASSUME IInv, NEW s \in Turn, ExitTells(s)
    PROVE  IInv'
<1>1. TurnTyped'
    BY NullIsNoTurn DEF IInv, ExitTells, TurnTyped, ConvTyped, Announce, Off, boxVars,
       stopVars, InvokeAt, None, Hears, Open, Range
<1>2. ConvTyped'
    BY NullIsNoTurn DEF IInv, ExitTells, ConvTyped, TurnTyped, Announce, Off, boxVars,
       stopVars, None, InvokeAt, Hears, Open, Range
<1>3. OwnersTyped'
    BY NullIsNoTurn DEF IInv, ExitTells, OwnersTyped, TurnTyped, Announce, Off, boxVars,
       stopVars, InvokeAt, Hears, Open, Range
<1>4. StopTyped'
    BY NullIsNoTurn, SMTT(10) DEF IInv, ExitTells, StopTyped, TurnTyped, ConvTyped,
       Announce, Off, boxVars, stopVars, None, InvokeAt, Hears, Open, Range
<1>5. Forward
    BY NullIsNoTurn DEF IInv, ExitTells, Forward, TurnTyped, Announce, Off, boxVars,
       stopVars, Past, InvokeAt, Hears, Open, Range
<1>6. InboxMoves
    BY NullIsNoTurn, SMTT(10) DEF IInv, ExitTells, InboxMoves, TurnTyped, StopTyped,
       StopsBound, Announce, Off, boxVars, stopVars, None, Past, Put, InvokeAt, Hears, Open,
       Range
<1>7. Owed'
    BY NullIsNoTurn, SMTT(10) DEF IInv, ExitTells, Owed, TurnTyped, StopTyped, Announce,
       Off, boxVars, stopVars, InvokeAt, None, Hears, Open, Range
<1>8. StopsBound'
    BY NullIsNoTurn, SMTT(10) DEF IInv, ExitTells, StopsBound, TurnTyped, ConvTyped,
       StopTyped, Announce, Off, boxVars, stopVars, InvokeAt, None, Hears, Open, Range
<1>9. ProxyHasOwner'
    BY NullIsNoTurn, SMTT(10) DEF IInv, ExitTells, ProxyHasOwner, TurnTyped, OwnersTyped,
       Announce, Off, boxVars, stopVars, InvokeAt, Hears, Open, Range
<1>. QED BY <1>1, <1>2, <1>3, <1>4, <1>5, <1>6, <1>7, <1>8, <1>9, InboxKept DEF IInv

LEMMA KeepsWarmGone ==
    ASSUME IInv, NEW s \in Turn, WarmGone(s)
    PROVE  IInv'
<1>1. TurnTyped'
    BY NullIsNoTurn DEF IInv, WarmGone, TurnTyped, ConvTyped, Exited, boxVars, stopVars,
       InvokeAt, None
<1>2. ConvTyped'
    BY NullIsNoTurn DEF IInv, WarmGone, ConvTyped, TurnTyped, Exited, boxVars, stopVars,
       None, InvokeAt
<1>3. OwnersTyped'
    BY NullIsNoTurn DEF IInv, WarmGone, OwnersTyped, TurnTyped, Exited, boxVars, stopVars,
       InvokeAt
<1>4. StopTyped'
    BY NullIsNoTurn, SMTT(10) DEF IInv, WarmGone, StopTyped, TurnTyped, ConvTyped, Exited,
       boxVars, stopVars, None, InvokeAt
<1>5. Forward
    BY NullIsNoTurn DEF IInv, WarmGone, Forward, TurnTyped, Exited, boxVars, stopVars, Past,
       InvokeAt
<1>6. InboxMoves
    BY NullIsNoTurn, SMTT(10) DEF IInv, WarmGone, InboxMoves, TurnTyped, StopTyped,
       StopsBound, Exited, boxVars, stopVars, None, Past, Put, InvokeAt
<1>7. Owed'
    BY NullIsNoTurn, SMTT(10) DEF IInv, WarmGone, Owed, TurnTyped, StopTyped, Exited,
       boxVars, stopVars, InvokeAt, None
<1>8. StopsBound'
    BY NullIsNoTurn, SMTT(10) DEF IInv, WarmGone, StopsBound, TurnTyped, ConvTyped,
       StopTyped, Exited, boxVars, stopVars, InvokeAt, None
<1>9. ProxyHasOwner'
    BY NullIsNoTurn, SMTT(10) DEF IInv, WarmGone, ProxyHasOwner, TurnTyped, OwnersTyped,
       Exited, boxVars, stopVars, InvokeAt
<1>. QED BY <1>1, <1>2, <1>3, <1>4, <1>5, <1>6, <1>7, <1>8, <1>9, InboxKept DEF IInv

LEMMA KeepsIdleTimer ==
    ASSUME IInv, NEW s \in Turn, IdleTimer(s)
    PROVE  IInv'
<1>1. TurnTyped'
    BY NullIsNoTurn DEF IInv, IdleTimer, TurnTyped, ConvTyped, Entering, Put, stopVars,
       InvokeAt, None
<1>2. ConvTyped'
    BY NullIsNoTurn DEF IInv, IdleTimer, ConvTyped, TurnTyped, Entering, Put, stopVars,
       None, InvokeAt
<1>3. OwnersTyped'
    BY NullIsNoTurn DEF IInv, IdleTimer, OwnersTyped, TurnTyped, Entering, Put, stopVars,
       InvokeAt
<1>4. StopTyped'
    BY NullIsNoTurn, SMTT(10) DEF IInv, IdleTimer, StopTyped, TurnTyped, ConvTyped,
       Entering, Put, stopVars, None, InvokeAt
<1>5. Forward
    BY NullIsNoTurn DEF IInv, IdleTimer, Forward, TurnTyped, Entering, Put, stopVars, Past,
       InvokeAt
<1>6. InboxMoves
    <2>1. UNCHANGED inbox \/ Put(s, "cancel", Null)
        BY DEF IdleTimer
    <2>. QED BY <2>1 DEF InboxMoves, None
<1>7. Owed'
    BY NullIsNoTurn, SMTT(10) DEF IInv, IdleTimer, Owed, TurnTyped, StopTyped, Entering,
       Put, stopVars, InvokeAt, None
<1>8. StopsBound'
    BY NullIsNoTurn, SMTT(10) DEF IInv, IdleTimer, StopsBound, TurnTyped, ConvTyped,
       StopTyped, Entering, Put, stopVars, InvokeAt, None
<1>9. ProxyHasOwner'
    BY NullIsNoTurn, SMTT(10) DEF IInv, IdleTimer, ProxyHasOwner, TurnTyped, OwnersTyped,
       Entering, Put, stopVars, InvokeAt
<1>. QED BY <1>1, <1>2, <1>3, <1>4, <1>5, <1>6, <1>7, <1>8, <1>9, InboxKept DEF IInv

LEMMA KeepsGraceTimer ==
    ASSUME IInv, NEW s \in Turn, GraceTimer(s)
    PROVE  IInv'
<1>1. TurnTyped'
    BY NullIsNoTurn DEF IInv, GraceTimer, TurnTyped, ConvTyped, Exits, boxVars, stopVars,
       InvokeAt, None, Off
<1>2. ConvTyped'
    BY NullIsNoTurn DEF IInv, GraceTimer, ConvTyped, TurnTyped, Exits, boxVars, stopVars,
       None, InvokeAt, Off
<1>3. OwnersTyped'
    BY NullIsNoTurn DEF IInv, GraceTimer, OwnersTyped, TurnTyped, Exits, boxVars, stopVars,
       InvokeAt, Off
<1>4. StopTyped'
    BY NullIsNoTurn, SMTT(10) DEF IInv, GraceTimer, StopTyped, TurnTyped, ConvTyped, Exits,
       boxVars, stopVars, None, InvokeAt, Off
<1>5. Forward
    BY NullIsNoTurn DEF IInv, GraceTimer, Forward, TurnTyped, Exits, boxVars, stopVars,
       Past, InvokeAt, Off
<1>6. InboxMoves
    BY NullIsNoTurn, SMTT(10) DEF IInv, GraceTimer, InboxMoves, TurnTyped, StopTyped,
       StopsBound, Exits, boxVars, stopVars, None, Past, Put, InvokeAt, Off
<1>7. Owed'
    BY NullIsNoTurn, SMTT(10) DEF IInv, GraceTimer, Owed, TurnTyped, StopTyped, Exits,
       boxVars, stopVars, InvokeAt, None, Off
<1>8. StopsBound'
    BY NullIsNoTurn, SMTT(10) DEF IInv, GraceTimer, StopsBound, TurnTyped, ConvTyped,
       StopTyped, Exits, boxVars, stopVars, InvokeAt, None, Off
<1>9. ProxyHasOwner'
    BY NullIsNoTurn, SMTT(10) DEF IInv, GraceTimer, ProxyHasOwner, TurnTyped, OwnersTyped,
       Exits, boxVars, stopVars, InvokeAt, Off
<1>. QED BY <1>1, <1>2, <1>3, <1>4, <1>5, <1>6, <1>7, <1>8, <1>9, InboxKept DEF IInv

-----------------------------------------------------------------------------
(* A turn.                                                                 *)

LEMMA KeepsPost ==
    ASSUME IInv, NEW t \in Turn, Post(t)
    PROVE  IInv'
<1>1. TurnTyped'
    BY NullIsNoTurn DEF IInv, Post, TurnTyped, ConvTyped, Others, InvokeAt, None
<1>2. ConvTyped'
    BY NullIsNoTurn DEF IInv, Post, ConvTyped, TurnTyped, Others, None, InvokeAt
<1>3. OwnersTyped'
    BY NullIsNoTurn DEF IInv, Post, OwnersTyped, TurnTyped, Others, InvokeAt
<1>4. StopTyped'
    BY NullIsNoTurn, SMTT(10) DEF IInv, Post, StopTyped, TurnTyped, ConvTyped, Others, None,
       InvokeAt
<1>5. Forward
    BY NullIsNoTurn DEF IInv, Post, Forward, TurnTyped, Others, Past, InvokeAt
<1>6. InboxMoves
    BY NullIsNoTurn, SMTT(10) DEF IInv, Post, InboxMoves, TurnTyped, StopTyped, StopsBound,
       Others, None, Past, Put, InvokeAt
<1>7. Owed'
    BY NullIsNoTurn, SMTT(10) DEF IInv, Post, Owed, TurnTyped, StopTyped, Others, InvokeAt,
       None
<1>8. StopsBound'
    BY NullIsNoTurn, SMTT(10) DEF IInv, Post, StopsBound, TurnTyped, ConvTyped, StopTyped,
       Others, InvokeAt, None
<1>9. ProxyHasOwner'
    BY NullIsNoTurn, SMTT(10) DEF IInv, Post, ProxyHasOwner, TurnTyped, OwnersTyped, Others,
       InvokeAt
<1>. QED BY <1>1, <1>2, <1>3, <1>4, <1>5, <1>6, <1>7, <1>8, <1>9, InboxKept DEF IInv

LEMMA KeepsPostBinds ==
    ASSUME IInv, NEW t \in Turn, PostBinds(t)
    PROVE  IInv'
<1>1. TurnTyped'
    BY NullIsNoTurn DEF IInv, PostBinds, TurnTyped, ConvTyped, Binds, Others, InvokeAt, None
<1>2. ConvTyped'
    BY NullIsNoTurn DEF IInv, PostBinds, ConvTyped, TurnTyped, Binds, Others, None, InvokeAt
<1>3. OwnersTyped'
    BY NullIsNoTurn DEF IInv, PostBinds, OwnersTyped, TurnTyped, Binds, Others, InvokeAt
<1>4. StopTyped'
    BY NullIsNoTurn, SMTT(10) DEF IInv, PostBinds, StopTyped, TurnTyped, ConvTyped, Binds,
       Others, None, InvokeAt
<1>5. Forward
    BY NullIsNoTurn DEF IInv, PostBinds, Forward, TurnTyped, Binds, Others, Past, InvokeAt
<1>6. InboxMoves
    BY NullIsNoTurn, SMTT(10) DEF IInv, PostBinds, InboxMoves, TurnTyped, StopTyped,
       StopsBound, Binds, Others, None, Past, Put, InvokeAt
<1>7. Owed'
    BY NullIsNoTurn, SMTT(10) DEF IInv, PostBinds, Owed, TurnTyped, StopTyped, Binds,
       Others, InvokeAt, None
<1>8. StopsBound'
    BY NullIsNoTurn, SMTT(10) DEF IInv, PostBinds, StopsBound, TurnTyped, ConvTyped,
       StopTyped, Binds, Others, InvokeAt, None
<1>9. ProxyHasOwner'
    BY NullIsNoTurn, SMTT(10) DEF IInv, PostBinds, ProxyHasOwner, TurnTyped, OwnersTyped,
       Binds, Others, InvokeAt
<1>. QED BY <1>1, <1>2, <1>3, <1>4, <1>5, <1>6, <1>7, <1>8, <1>9, InboxKept DEF IInv

LEMMA KeepsRefuse ==
    ASSUME IInv, NEW t \in Turn, Refuse(t)
    PROVE  IInv'
<1>1. TurnTyped'
    BY NullIsNoTurn DEF IInv, Refuse, TurnTyped, ConvTyped, Hears, Ends, InvokeAt, None
<1>2. ConvTyped'
    BY NullIsNoTurn DEF IInv, Refuse, ConvTyped, TurnTyped, Hears, Ends, None, InvokeAt
<1>3. OwnersTyped'
    BY NullIsNoTurn DEF IInv, Refuse, OwnersTyped, TurnTyped, Hears, Ends, InvokeAt
<1>4. StopTyped'
    BY NullIsNoTurn, SMTT(10) DEF IInv, Refuse, StopTyped, TurnTyped, ConvTyped, Hears,
       Ends, None, InvokeAt
<1>5. Forward
    BY NullIsNoTurn DEF IInv, Refuse, Forward, TurnTyped, Hears, Ends, Past, InvokeAt
<1>6. InboxMoves
    BY NullIsNoTurn, SMTT(10) DEF IInv, Refuse, InboxMoves, TurnTyped, StopTyped,
       StopsBound, Hears, Ends, None, Past, Put, InvokeAt
<1>7. Owed'
    BY NullIsNoTurn, SMTT(10) DEF IInv, Refuse, Owed, TurnTyped, StopTyped, Hears, Ends,
       InvokeAt, None
<1>8. StopsBound'
    BY NullIsNoTurn, SMTT(10) DEF IInv, Refuse, StopsBound, TurnTyped, ConvTyped, StopTyped,
       Hears, Ends, InvokeAt, None
<1>9. ProxyHasOwner'
    BY NullIsNoTurn, SMTT(10) DEF IInv, Refuse, ProxyHasOwner, TurnTyped, OwnersTyped,
       Hears, Ends, InvokeAt
<1>. QED BY <1>1, <1>2, <1>3, <1>4, <1>5, <1>6, <1>7, <1>8, <1>9, InboxKept DEF IInv

LEMMA KeepsLookup ==
    ASSUME IInv, NEW t \in Turn, Lookup(t)
    PROVE  IInv'
<1>1. TurnTyped'
    BY NullIsNoTurn DEF IInv, Lookup, TurnTyped, ConvTyped, Others, InvokeAt, None
<1>2. ConvTyped'
    BY NullIsNoTurn DEF IInv, Lookup, ConvTyped, TurnTyped, Others, None, InvokeAt
<1>3. OwnersTyped'
    BY NullIsNoTurn DEF IInv, Lookup, OwnersTyped, TurnTyped, Others, InvokeAt
<1>4. StopTyped'
    BY NullIsNoTurn, SMTT(10) DEF IInv, Lookup, StopTyped, TurnTyped, ConvTyped, Others,
       None, InvokeAt
<1>5. Forward
    BY NullIsNoTurn DEF IInv, Lookup, Forward, TurnTyped, Others, Past, InvokeAt
<1>6. InboxMoves
    BY NullIsNoTurn, SMTT(10) DEF IInv, Lookup, InboxMoves, TurnTyped, StopTyped,
       StopsBound, Others, None, Past, Put, InvokeAt
<1>7. Owed'
    BY NullIsNoTurn, SMTT(10) DEF IInv, Lookup, Owed, TurnTyped, StopTyped, Others,
       InvokeAt, None
<1>8. StopsBound'
    BY NullIsNoTurn, SMTT(10) DEF IInv, Lookup, StopsBound, TurnTyped, ConvTyped, StopTyped,
       Others, InvokeAt, None
<1>9. ProxyHasOwner'
    BY NullIsNoTurn, SMTT(10) DEF IInv, Lookup, ProxyHasOwner, TurnTyped, OwnersTyped,
       Others, InvokeAt
<1>. QED BY <1>1, <1>2, <1>3, <1>4, <1>5, <1>6, <1>7, <1>8, <1>9, InboxKept DEF IInv

LEMMA KeepsLookupFails ==
    ASSUME IInv, NEW t \in Turn, LookupFails(t)
    PROVE  IInv'
<1>1. TurnTyped'
    BY NullIsNoTurn DEF IInv, LookupFails, TurnTyped, ConvTyped, Others, InvokeAt, None
<1>2. ConvTyped'
    BY NullIsNoTurn DEF IInv, LookupFails, ConvTyped, TurnTyped, Others, None, InvokeAt
<1>3. OwnersTyped'
    BY NullIsNoTurn DEF IInv, LookupFails, OwnersTyped, TurnTyped, Others, InvokeAt
<1>4. StopTyped'
    BY NullIsNoTurn, SMTT(10) DEF IInv, LookupFails, StopTyped, TurnTyped, ConvTyped,
       Others, None, InvokeAt
<1>5. Forward
    BY NullIsNoTurn DEF IInv, LookupFails, Forward, TurnTyped, Others, Past, InvokeAt
<1>6. InboxMoves
    BY NullIsNoTurn, SMTT(10) DEF IInv, LookupFails, InboxMoves, TurnTyped, StopTyped,
       StopsBound, Others, None, Past, Put, InvokeAt
<1>7. Owed'
    BY NullIsNoTurn, SMTT(10) DEF IInv, LookupFails, Owed, TurnTyped, StopTyped, Others,
       InvokeAt, None
<1>8. StopsBound'
    BY NullIsNoTurn, SMTT(10) DEF IInv, LookupFails, StopsBound, TurnTyped, ConvTyped,
       StopTyped, Others, InvokeAt, None
<1>9. ProxyHasOwner'
    BY NullIsNoTurn, SMTT(10) DEF IInv, LookupFails, ProxyHasOwner, TurnTyped, OwnersTyped,
       Others, InvokeAt
<1>. QED BY <1>1, <1>2, <1>3, <1>4, <1>5, <1>6, <1>7, <1>8, <1>9, InboxKept DEF IInv

LEMMA KeepsProbe ==
    ASSUME IInv, NEW t \in Turn, Probe(t)
    PROVE  IInv'
<1>1. TurnTyped'
    BY NullIsNoTurn DEF IInv, Probe, TurnTyped, ConvTyped, Others, InvokeAt, None
<1>2. ConvTyped'
    BY NullIsNoTurn DEF IInv, Probe, ConvTyped, TurnTyped, Others, None, InvokeAt
<1>3. OwnersTyped'
    BY NullIsNoTurn DEF IInv, Probe, OwnersTyped, TurnTyped, Others, InvokeAt
<1>4. StopTyped'
    BY NullIsNoTurn, SMTT(10) DEF IInv, Probe, StopTyped, TurnTyped, ConvTyped, Others,
       None, InvokeAt
<1>5. Forward
    BY NullIsNoTurn DEF IInv, Probe, Forward, TurnTyped, Others, Past, InvokeAt
<1>6. InboxMoves
    BY NullIsNoTurn, SMTT(10) DEF IInv, Probe, InboxMoves, TurnTyped, StopTyped, StopsBound,
       Others, None, Past, Put, InvokeAt
<1>7. Owed'
    BY NullIsNoTurn, SMTT(10) DEF IInv, Probe, Owed, TurnTyped, StopTyped, Others, InvokeAt,
       None
<1>8. StopsBound'
    BY NullIsNoTurn, SMTT(10) DEF IInv, Probe, StopsBound, TurnTyped, ConvTyped, StopTyped,
       Others, InvokeAt, None
<1>9. ProxyHasOwner'
    BY NullIsNoTurn, SMTT(10) DEF IInv, Probe, ProxyHasOwner, TurnTyped, OwnersTyped,
       Others, InvokeAt
<1>. QED BY <1>1, <1>2, <1>3, <1>4, <1>5, <1>6, <1>7, <1>8, <1>9, InboxKept DEF IInv

LEMMA KeepsRefresh ==
    ASSUME IInv, NEW t \in Turn, Refresh(t)
    PROVE  IInv'
<1>1. TurnTyped'
    BY NullIsNoTurn DEF IInv, Refresh, TurnTyped, ConvTyped, Others, InvokeAt, None
<1>2. ConvTyped'
    BY NullIsNoTurn DEF IInv, Refresh, ConvTyped, TurnTyped, Others, None, InvokeAt
<1>3. OwnersTyped'
    BY NullIsNoTurn DEF IInv, Refresh, OwnersTyped, TurnTyped, Others, InvokeAt
<1>4. StopTyped'
    BY NullIsNoTurn, SMTT(10) DEF IInv, Refresh, StopTyped, TurnTyped, ConvTyped, Others,
       None, InvokeAt
<1>5. Forward
    BY NullIsNoTurn DEF IInv, Refresh, Forward, TurnTyped, Others, Past, InvokeAt
<1>6. InboxMoves
    BY NullIsNoTurn, SMTT(10) DEF IInv, Refresh, InboxMoves, TurnTyped, StopTyped,
       StopsBound, Others, None, Past, Put, InvokeAt
<1>7. Owed'
    BY NullIsNoTurn, SMTT(10) DEF IInv, Refresh, Owed, TurnTyped, StopTyped, Others,
       InvokeAt, None
<1>8. StopsBound'
    BY NullIsNoTurn, SMTT(10) DEF IInv, Refresh, StopsBound, TurnTyped, ConvTyped,
       StopTyped, Others, InvokeAt, None
<1>9. ProxyHasOwner'
    BY NullIsNoTurn, SMTT(10) DEF IInv, Refresh, ProxyHasOwner, TurnTyped, OwnersTyped,
       Others, InvokeAt
<1>. QED BY <1>1, <1>2, <1>3, <1>4, <1>5, <1>6, <1>7, <1>8, <1>9, InboxKept DEF IInv

LEMMA KeepsRetire ==
    ASSUME IInv, NEW t \in Turn, Retire(t)
    PROVE  IInv'
<1>1. TurnTyped'
    BY NullIsNoTurn DEF IInv, Retire, TurnTyped, ConvTyped, Binds, Others, InvokeAt, None
<1>2. ConvTyped'
    BY NullIsNoTurn DEF IInv, Retire, ConvTyped, TurnTyped, Binds, Others, None, InvokeAt
<1>3. OwnersTyped'
    BY NullIsNoTurn DEF IInv, Retire, OwnersTyped, TurnTyped, Binds, Others, InvokeAt
<1>4. StopTyped'
    BY NullIsNoTurn, SMTT(10) DEF IInv, Retire, StopTyped, TurnTyped, ConvTyped, Binds,
       Others, None, InvokeAt
<1>5. Forward
    BY NullIsNoTurn DEF IInv, Retire, Forward, TurnTyped, Binds, Others, Past, InvokeAt
<1>6. InboxMoves
    BY NullIsNoTurn, SMTT(10) DEF IInv, Retire, InboxMoves, TurnTyped, StopTyped,
       StopsBound, Binds, Others, None, Past, Put, InvokeAt
<1>7. Owed'
    BY NullIsNoTurn, SMTT(10) DEF IInv, Retire, Owed, TurnTyped, StopTyped, Binds, Others,
       InvokeAt, None
<1>8. StopsBound'
    BY NullIsNoTurn, SMTT(10) DEF IInv, Retire, StopsBound, TurnTyped, ConvTyped, StopTyped,
       Binds, Others, InvokeAt, None
<1>9. ProxyHasOwner'
    BY NullIsNoTurn, SMTT(10) DEF IInv, Retire, ProxyHasOwner, TurnTyped, OwnersTyped,
       Binds, Others, InvokeAt
<1>. QED BY <1>1, <1>2, <1>3, <1>4, <1>5, <1>6, <1>7, <1>8, <1>9, InboxKept DEF IInv

LEMMA KeepsCloseOld ==
    ASSUME IInv, NEW t \in Turn, CloseOld(t)
    PROVE  IInv'
<1>1. TurnTyped'
    BY NullIsNoTurn DEF IInv, CloseOld, TurnTyped, ConvTyped, Others, InvokeAt, None
<1>2. ConvTyped'
    BY NullIsNoTurn DEF IInv, CloseOld, ConvTyped, TurnTyped, Others, None, InvokeAt
<1>3. OwnersTyped'
    BY NullIsNoTurn DEF IInv, CloseOld, OwnersTyped, TurnTyped, Others, InvokeAt
<1>4. StopTyped'
    BY NullIsNoTurn, SMTT(10) DEF IInv, CloseOld, StopTyped, TurnTyped, ConvTyped, Others,
       None, InvokeAt
<1>5. Forward
    BY NullIsNoTurn DEF IInv, CloseOld, Forward, TurnTyped, Others, Past, InvokeAt
<1>6. InboxMoves
    BY NullIsNoTurn, SMTT(10) DEF IInv, CloseOld, InboxMoves, TurnTyped, StopTyped,
       StopsBound, Others, None, Past, Put, InvokeAt
<1>7. Owed'
    BY NullIsNoTurn, SMTT(10) DEF IInv, CloseOld, Owed, TurnTyped, StopTyped, Others,
       InvokeAt, None
<1>8. StopsBound'
    BY NullIsNoTurn, SMTT(10) DEF IInv, CloseOld, StopsBound, TurnTyped, ConvTyped,
       StopTyped, Others, InvokeAt, None
<1>9. ProxyHasOwner'
    BY NullIsNoTurn, SMTT(10) DEF IInv, CloseOld, ProxyHasOwner, TurnTyped, OwnersTyped,
       Others, InvokeAt
<1>. QED BY <1>1, <1>2, <1>3, <1>4, <1>5, <1>6, <1>7, <1>8, <1>9, InboxKept DEF IInv

LEMMA KeepsEndOld ==
    ASSUME IInv, NEW t \in Turn, EndOld(t)
    PROVE  IInv'
<1>1. TurnTyped'
    BY NullIsNoTurn DEF IInv, EndOld, TurnTyped, ConvTyped, EndSession, stopVars, InvokeAt,
       None
<1>2. ConvTyped'
    BY NullIsNoTurn DEF IInv, EndOld, ConvTyped, TurnTyped, EndSession, stopVars, None,
       InvokeAt
<1>3. OwnersTyped'
    BY NullIsNoTurn DEF IInv, EndOld, OwnersTyped, TurnTyped, EndSession, stopVars, InvokeAt
<1>4. StopTyped'
    BY NullIsNoTurn, SMTT(10) DEF IInv, EndOld, StopTyped, TurnTyped, ConvTyped, EndSession,
       stopVars, None, InvokeAt
<1>5. Forward
    BY NullIsNoTurn DEF IInv, EndOld, Forward, TurnTyped, EndSession, stopVars, Past,
       InvokeAt
<1>6. InboxMoves
    <2>1. On(t) \in Turn
        BY DEF IInv, TurnTyped
    <2>2. inbox' = [inbox EXCEPT ![On(t)] = <<>>]
        BY DEF EndOld, EndSession
    <2>. QED BY <2>1, <2>2 DEF InboxMoves
<1>7. Owed'
    BY NullIsNoTurn, SMTT(10) DEF IInv, EndOld, Owed, TurnTyped, StopTyped, EndSession,
       stopVars, InvokeAt, None
<1>8. StopsBound'
    BY NullIsNoTurn, SMTT(10) DEF IInv, EndOld, StopsBound, TurnTyped, ConvTyped, StopTyped,
       EndSession, stopVars, InvokeAt, None
<1>9. ProxyHasOwner'
    BY NullIsNoTurn, SMTT(10) DEF IInv, EndOld, ProxyHasOwner, TurnTyped, OwnersTyped,
       EndSession, stopVars, InvokeAt
<1>. QED BY <1>1, <1>2, <1>3, <1>4, <1>5, <1>6, <1>7, <1>8, <1>9, InboxKept DEF IInv

LEMMA KeepsEndOldFails ==
    ASSUME IInv, NEW t \in Turn, EndOldFails(t)
    PROVE  IInv'
<1>1. TurnTyped'
    BY NullIsNoTurn DEF IInv, EndOldFails, TurnTyped, ConvTyped, Others, InvokeAt, None
<1>2. ConvTyped'
    BY NullIsNoTurn DEF IInv, EndOldFails, ConvTyped, TurnTyped, Others, None, InvokeAt
<1>3. OwnersTyped'
    BY NullIsNoTurn DEF IInv, EndOldFails, OwnersTyped, TurnTyped, Others, InvokeAt
<1>4. StopTyped'
    BY NullIsNoTurn, SMTT(10) DEF IInv, EndOldFails, StopTyped, TurnTyped, ConvTyped,
       Others, None, InvokeAt
<1>5. Forward
    BY NullIsNoTurn DEF IInv, EndOldFails, Forward, TurnTyped, Others, Past, InvokeAt
<1>6. InboxMoves
    BY NullIsNoTurn, SMTT(10) DEF IInv, EndOldFails, InboxMoves, TurnTyped, StopTyped,
       StopsBound, Others, None, Past, Put, InvokeAt
<1>7. Owed'
    BY NullIsNoTurn, SMTT(10) DEF IInv, EndOldFails, Owed, TurnTyped, StopTyped, Others,
       InvokeAt, None
<1>8. StopsBound'
    BY NullIsNoTurn, SMTT(10) DEF IInv, EndOldFails, StopsBound, TurnTyped, ConvTyped,
       StopTyped, Others, InvokeAt, None
<1>9. ProxyHasOwner'
    BY NullIsNoTurn, SMTT(10) DEF IInv, EndOldFails, ProxyHasOwner, TurnTyped, OwnersTyped,
       Others, InvokeAt
<1>. QED BY <1>1, <1>2, <1>3, <1>4, <1>5, <1>6, <1>7, <1>8, <1>9, InboxKept DEF IInv

LEMMA KeepsTellOld ==
    ASSUME IInv, NEW t \in Turn, TellOld(t)
    PROVE  IInv'
<1>1. TurnTyped'
    BY NullIsNoTurn DEF IInv, TellOld, TurnTyped, ConvTyped, Announce, Others, InvokeAt,
       None, Hears, Open, Range
<1>2. ConvTyped'
    BY NullIsNoTurn DEF IInv, TellOld, ConvTyped, TurnTyped, Announce, Others, None,
       InvokeAt, Hears, Open, Range
<1>3. OwnersTyped'
    BY NullIsNoTurn DEF IInv, TellOld, OwnersTyped, TurnTyped, Announce, Others, InvokeAt,
       Hears, Open, Range
<1>4. StopTyped'
    BY NullIsNoTurn, SMTT(10) DEF IInv, TellOld, StopTyped, TurnTyped, ConvTyped, Announce,
       Others, None, InvokeAt, Hears, Open, Range
<1>5. Forward
    BY NullIsNoTurn DEF IInv, TellOld, Forward, TurnTyped, Announce, Others, Past, InvokeAt,
       Hears, Open, Range
<1>6. InboxMoves
    BY NullIsNoTurn, SMTT(10) DEF IInv, TellOld, InboxMoves, TurnTyped, StopTyped,
       StopsBound, Announce, Others, None, Past, Put, InvokeAt, Hears, Open, Range
<1>7. Owed'
    BY NullIsNoTurn, SMTT(10) DEF IInv, TellOld, Owed, TurnTyped, StopTyped, Announce,
       Others, InvokeAt, None, Hears, Open, Range
<1>8. StopsBound'
    BY NullIsNoTurn, SMTT(10) DEF IInv, TellOld, StopsBound, TurnTyped, ConvTyped,
       StopTyped, Announce, Others, InvokeAt, None, Hears, Open, Range
<1>9. ProxyHasOwner'
    BY NullIsNoTurn, SMTT(10) DEF IInv, TellOld, ProxyHasOwner, TurnTyped, OwnersTyped,
       Announce, Others, InvokeAt, Hears, Open, Range
<1>. QED BY <1>1, <1>2, <1>3, <1>4, <1>5, <1>6, <1>7, <1>8, <1>9, InboxKept DEF IInv

LEMMA KeepsOpenProxy ==
    ASSUME IInv, NEW t \in Turn, OpenProxy(t)
    PROVE  IInv'
<1>1. TurnTyped'
    BY NullIsNoTurn DEF IInv, OpenProxy, TurnTyped, ConvTyped, Register, Others, InvokeAt,
       None
<1>2. ConvTyped'
    BY NullIsNoTurn DEF IInv, OpenProxy, ConvTyped, TurnTyped, Register, Others, None,
       InvokeAt
<1>3. OwnersTyped'
    BY NullIsNoTurn DEF IInv, OpenProxy, OwnersTyped, TurnTyped, Register, Others, InvokeAt
<1>4. StopTyped'
    BY NullIsNoTurn, SMTT(10) DEF IInv, OpenProxy, StopTyped, TurnTyped, ConvTyped,
       Register, Others, None, InvokeAt
<1>5. Forward
    BY NullIsNoTurn DEF IInv, OpenProxy, Forward, TurnTyped, Register, Others, Past,
       InvokeAt
<1>6. InboxMoves
    BY NullIsNoTurn, SMTT(10) DEF IInv, OpenProxy, InboxMoves, TurnTyped, StopTyped,
       StopsBound, Register, Others, None, Past, Put, InvokeAt
<1>7. Owed'
    BY NullIsNoTurn, SMTT(10) DEF IInv, OpenProxy, Owed, TurnTyped, StopTyped, Register,
       Others, InvokeAt, None
<1>8. StopsBound'
    BY NullIsNoTurn, SMTT(10) DEF IInv, OpenProxy, StopsBound, TurnTyped, ConvTyped,
       StopTyped, Register, Others, InvokeAt, None
<1>9. ProxyHasOwner'
    BY NullIsNoTurn, SMTT(10) DEF IInv, OpenProxy, ProxyHasOwner, TurnTyped, OwnersTyped,
       Register, Others, InvokeAt
<1>. QED BY <1>1, <1>2, <1>3, <1>4, <1>5, <1>6, <1>7, <1>8, <1>9, InboxKept DEF IInv

LEMMA KeepsSpawn ==
    ASSUME IInv, NEW t \in Turn, Spawn(t)
    PROVE  IInv'
<1>1. TurnTyped'
    BY NullIsNoTurn DEF IInv, Spawn, TurnTyped, ConvTyped, Off, Others, InvokeAt, None
<1>2. ConvTyped'
    BY NullIsNoTurn DEF IInv, Spawn, ConvTyped, TurnTyped, Off, Others, None, InvokeAt
<1>3. OwnersTyped'
    BY NullIsNoTurn DEF IInv, Spawn, OwnersTyped, TurnTyped, Off, Others, InvokeAt
<1>4. StopTyped'
    BY NullIsNoTurn, SMTT(10) DEF IInv, Spawn, StopTyped, TurnTyped, ConvTyped, Off, Others,
       None, InvokeAt
<1>5. Forward
    BY NullIsNoTurn DEF IInv, Spawn, Forward, TurnTyped, Off, Others, Past, InvokeAt
<1>6. InboxMoves
    BY NullIsNoTurn, SMTT(10) DEF IInv, Spawn, InboxMoves, TurnTyped, StopTyped, StopsBound,
       Off, Others, None, Past, Put, InvokeAt
<1>7. Owed'
    BY NullIsNoTurn, SMTT(10) DEF IInv, Spawn, Owed, TurnTyped, StopTyped, Off, Others,
       InvokeAt, None
<1>8. StopsBound'
    BY NullIsNoTurn, SMTT(10) DEF IInv, Spawn, StopsBound, TurnTyped, ConvTyped, StopTyped,
       Off, Others, InvokeAt, None
<1>9. ProxyHasOwner'
    BY NullIsNoTurn, SMTT(10) DEF IInv, Spawn, ProxyHasOwner, TurnTyped, OwnersTyped, Off,
       Others, InvokeAt
<1>. QED BY <1>1, <1>2, <1>3, <1>4, <1>5, <1>6, <1>7, <1>8, <1>9, InboxKept DEF IInv

LEMMA KeepsOpened ==
    ASSUME IInv, NEW t \in Turn, Opened(t)
    PROVE  IInv'
<1>1. TurnTyped'
    BY NullIsNoTurn DEF IInv, Opened, TurnTyped, ConvTyped, Others, InvokeAt, None
<1>2. ConvTyped'
    BY NullIsNoTurn DEF IInv, Opened, ConvTyped, TurnTyped, Others, None, InvokeAt
<1>3. OwnersTyped'
    BY NullIsNoTurn DEF IInv, Opened, OwnersTyped, TurnTyped, Others, InvokeAt
<1>4. StopTyped'
    BY NullIsNoTurn, SMTT(10) DEF IInv, Opened, StopTyped, TurnTyped, ConvTyped, Others,
       None, InvokeAt
<1>5. Forward
    BY NullIsNoTurn DEF IInv, Opened, Forward, TurnTyped, Others, Past, InvokeAt
<1>6. InboxMoves
    BY NullIsNoTurn, SMTT(10) DEF IInv, Opened, InboxMoves, TurnTyped, StopTyped,
       StopsBound, Others, None, Past, Put, InvokeAt
<1>7. Owed'
    BY NullIsNoTurn, SMTT(10) DEF IInv, Opened, Owed, TurnTyped, StopTyped, Others,
       InvokeAt, None
<1>8. StopsBound'
    BY NullIsNoTurn, SMTT(10) DEF IInv, Opened, StopsBound, TurnTyped, ConvTyped, StopTyped,
       Others, InvokeAt, None
<1>9. ProxyHasOwner'
    BY NullIsNoTurn, SMTT(10) DEF IInv, Opened, ProxyHasOwner, TurnTyped, OwnersTyped,
       Others, InvokeAt
<1>. QED BY <1>1, <1>2, <1>3, <1>4, <1>5, <1>6, <1>7, <1>8, <1>9, InboxKept DEF IInv

LEMMA KeepsOpenFails ==
    ASSUME IInv, NEW t \in Turn, OpenFails(t)
    PROVE  IInv'
<1>1. TurnTyped'
    BY NullIsNoTurn DEF IInv, OpenFails, TurnTyped, ConvTyped, Unregister, EndSession,
       boxVars, Off, Hears, Ends, InvokeAt, None
<1>2. ConvTyped'
    BY NullIsNoTurn DEF IInv, OpenFails, ConvTyped, TurnTyped, Unregister, EndSession,
       boxVars, Off, Hears, Ends, None, InvokeAt
<1>3. OwnersTyped'
    BY NullIsNoTurn DEF IInv, OpenFails, OwnersTyped, TurnTyped, Unregister, EndSession,
       boxVars, Off, Hears, Ends, InvokeAt
<1>4. StopTyped'
    BY NullIsNoTurn, SMTT(10) DEF IInv, OpenFails, StopTyped, TurnTyped, ConvTyped,
       Unregister, EndSession, boxVars, Off, Hears, Ends, None, InvokeAt
<1>5. Forward
    BY NullIsNoTurn DEF IInv, OpenFails, Forward, TurnTyped, Unregister, EndSession,
       boxVars, Off, Hears, Ends, Past, InvokeAt
<1>6. InboxMoves
    BY NullIsNoTurn, SMTT(10) DEF IInv, OpenFails, InboxMoves, TurnTyped, StopTyped,
       StopsBound, Unregister, EndSession, boxVars, Off, Hears, Ends, None, Past, Put,
       InvokeAt
<1>7. Owed'
    BY NullIsNoTurn, SMTT(10) DEF IInv, OpenFails, Owed, TurnTyped, StopTyped, Unregister,
       EndSession, boxVars, Off, Hears, Ends, InvokeAt, None
<1>8. StopsBound'
    BY NullIsNoTurn, SMTT(10) DEF IInv, OpenFails, StopsBound, TurnTyped, ConvTyped,
       StopTyped, Unregister, EndSession, boxVars, Off, Hears, Ends, InvokeAt, None
<1>9. ProxyHasOwner'
    BY NullIsNoTurn, SMTT(10) DEF IInv, OpenFails, ProxyHasOwner, TurnTyped, OwnersTyped,
       Unregister, EndSession, boxVars, Off, Hears, Ends, InvokeAt
<1>. QED BY <1>1, <1>2, <1>3, <1>4, <1>5, <1>6, <1>7, <1>8, <1>9, InboxKept DEF IInv

LEMMA KeepsBind ==
    ASSUME IInv, NEW t \in Turn, Bind(t)
    PROVE  IInv'
<1>1. TurnTyped'
    BY NullIsNoTurn DEF IInv, Bind, TurnTyped, ConvTyped, Binds, Register, Others, InvokeAt,
       None
<1>2. ConvTyped'
    BY NullIsNoTurn DEF IInv, Bind, ConvTyped, TurnTyped, Binds, Register, Others, None,
       InvokeAt
<1>3. OwnersTyped'
    BY NullIsNoTurn DEF IInv, Bind, OwnersTyped, TurnTyped, Binds, Register, Others,
       InvokeAt
<1>4. StopTyped'
    BY NullIsNoTurn, SMTT(10) DEF IInv, Bind, StopTyped, TurnTyped, ConvTyped, Binds,
       Register, Others, None, InvokeAt
<1>5. Forward
    BY NullIsNoTurn DEF IInv, Bind, Forward, TurnTyped, Binds, Register, Others, Past,
       InvokeAt
<1>6. InboxMoves
    BY NullIsNoTurn, SMTT(10) DEF IInv, Bind, InboxMoves, TurnTyped, StopTyped, StopsBound,
       Binds, Register, Others, None, Past, Put, InvokeAt
<1>7. Owed'
    BY NullIsNoTurn, SMTT(10) DEF IInv, Bind, Owed, TurnTyped, StopTyped, Binds, Register,
       Others, InvokeAt, None
<1>8. StopsBound'
    BY NullIsNoTurn, SMTT(10) DEF IInv, Bind, StopsBound, TurnTyped, ConvTyped, StopTyped,
       Binds, Register, Others, InvokeAt, None
<1>9. ProxyHasOwner'
    BY NullIsNoTurn, SMTT(10) DEF IInv, Bind, ProxyHasOwner, TurnTyped, OwnersTyped, Binds,
       Register, Others, InvokeAt
<1>. QED BY <1>1, <1>2, <1>3, <1>4, <1>5, <1>6, <1>7, <1>8, <1>9, InboxKept DEF IInv

LEMMA KeepsQueue ==
    ASSUME IInv, NEW t \in Turn, Queue(t)
    PROVE  IInv'
<1>1. TurnTyped'
    BY NullIsNoTurn DEF IInv, Queue, TurnTyped, ConvTyped, Put, stopVars, InvokeAt, None
<1>2. ConvTyped'
    BY NullIsNoTurn DEF IInv, Queue, ConvTyped, TurnTyped, Put, stopVars, None, InvokeAt
<1>3. OwnersTyped'
    BY NullIsNoTurn DEF IInv, Queue, OwnersTyped, TurnTyped, Put, stopVars, InvokeAt
<1>4. StopTyped'
    BY NullIsNoTurn, SMTT(10) DEF IInv, Queue, StopTyped, TurnTyped, ConvTyped, Put,
       stopVars, None, InvokeAt
<1>5. Forward
    BY NullIsNoTurn DEF IInv, Queue, Forward, TurnTyped, Put, stopVars, Past, InvokeAt
<1>6. InboxMoves
    <2>1. On(t) \in Turn
        BY DEF IInv, TurnTyped
    <2>2. Put(On(t), "message", t)
        BY DEF Queue
    <2>. QED BY <2>1, <2>2 DEF InboxMoves, None
<1>7. Owed'
    BY NullIsNoTurn, SMTT(10) DEF IInv, Queue, Owed, TurnTyped, StopTyped, Put, stopVars,
       InvokeAt, None
<1>8. StopsBound'
    BY NullIsNoTurn, SMTT(10) DEF IInv, Queue, StopsBound, TurnTyped, ConvTyped, StopTyped,
       Put, stopVars, InvokeAt, None
<1>9. ProxyHasOwner'
    BY NullIsNoTurn, SMTT(10) DEF IInv, Queue, ProxyHasOwner, TurnTyped, OwnersTyped, Put,
       stopVars, InvokeAt
<1>. QED BY <1>1, <1>2, <1>3, <1>4, <1>5, <1>6, <1>7, <1>8, <1>9, InboxKept DEF IInv

LEMMA KeepsQueueFails ==
    ASSUME IInv, NEW t \in Turn, QueueFails(t)
    PROVE  IInv'
<1>1. TurnTyped'
    BY NullIsNoTurn DEF IInv, QueueFails, TurnTyped, ConvTyped, Unregister, Exits, Hears,
       Ends, InvokeAt, None, Off
<1>2. ConvTyped'
    BY NullIsNoTurn DEF IInv, QueueFails, ConvTyped, TurnTyped, Unregister, Exits, Hears,
       Ends, None, InvokeAt, Off
<1>3. OwnersTyped'
    BY NullIsNoTurn DEF IInv, QueueFails, OwnersTyped, TurnTyped, Unregister, Exits, Hears,
       Ends, InvokeAt, Off
<1>4. StopTyped'
    BY NullIsNoTurn, SMTT(10) DEF IInv, QueueFails, StopTyped, TurnTyped, ConvTyped,
       Unregister, Exits, Hears, Ends, None, InvokeAt, Off
<1>5. Forward
    BY NullIsNoTurn DEF IInv, QueueFails, Forward, TurnTyped, Unregister, Exits, Hears,
       Ends, Past, InvokeAt, Off
<1>6. InboxMoves
    BY NullIsNoTurn, SMTT(10) DEF IInv, QueueFails, InboxMoves, TurnTyped, StopTyped,
       StopsBound, Unregister, Exits, Hears, Ends, None, Past, Put, InvokeAt, Off
<1>7. Owed'
    BY NullIsNoTurn, SMTT(10) DEF IInv, QueueFails, Owed, TurnTyped, StopTyped, Unregister,
       Exits, Hears, Ends, InvokeAt, None, Off
<1>8. StopsBound'
    BY NullIsNoTurn, SMTT(10) DEF IInv, QueueFails, StopsBound, TurnTyped, ConvTyped,
       StopTyped, Unregister, Exits, Hears, Ends, InvokeAt, None, Off
<1>9. ProxyHasOwner'
    BY NullIsNoTurn, SMTT(10) DEF IInv, QueueFails, ProxyHasOwner, TurnTyped, OwnersTyped,
       Unregister, Exits, Hears, Ends, InvokeAt, Off
<1>. QED BY <1>1, <1>2, <1>3, <1>4, <1>5, <1>6, <1>7, <1>8, <1>9, InboxKept DEF IInv

LEMMA KeepsAfterQueued ==
    ASSUME IInv, NEW t \in Turn, AfterQueued(t)
    PROVE  IInv'
<1>1. TurnTyped'
    <2>1. PICK pc \in {"stop", "await", "ended", "kill"}, u \in Turn :
             turn' = [turn EXCEPT ![t] = [at |-> pc, on |-> u]] /\ (t \in stopRequested => pc = "stop")
        BY AwaitsMoves DEF IInv, TurnTyped, AfterQueued
    <2>. QED BY <2>1 DEF IInv, AfterQueued, TurnTyped, InvokeAt
<1>2. ConvTyped'
    BY NullIsNoTurn DEF IInv, AfterQueued, ConvTyped, TurnTyped, Awaits, Others, None,
       InvokeAt, Over, Unregister
<1>3. OwnersTyped'
    BY NullIsNoTurn DEF IInv, AfterQueued, OwnersTyped, TurnTyped, Awaits, Others, InvokeAt,
       Over, Unregister
<1>4. StopTyped'
    BY NullIsNoTurn, SMTT(10) DEF IInv, AfterQueued, StopTyped, TurnTyped, ConvTyped,
       Awaits, Others, None, InvokeAt, Over, Unregister
<1>5. Forward
    <2>1. PICK pc \in {"stop", "await", "ended", "kill"}, u \in Turn :
             turn' = [turn EXCEPT ![t] = [at |-> pc, on |-> u]] /\ (t \in stopRequested => pc = "stop")
        BY AwaitsMoves DEF IInv, TurnTyped, AfterQueued
    <2>. QED BY <2>1 DEF IInv, AfterQueued, TurnTyped, Forward, Past
<1>6. InboxMoves
    BY NullIsNoTurn, SMTT(10) DEF IInv, AfterQueued, InboxMoves, TurnTyped, StopTyped,
       StopsBound, Awaits, Others, None, Past, Put, InvokeAt, Over, Unregister
<1>7. Owed'
    <2>1. PICK pc \in {"stop", "await", "ended", "kill"}, u \in Turn :
             turn' = [turn EXCEPT ![t] = [at |-> pc, on |-> u]] /\ (t \in stopRequested => pc = "stop")
        BY AwaitsMoves DEF IInv, TurnTyped, AfterQueued
    <2>. QED BY <2>1 DEF IInv, AfterQueued, TurnTyped, StopTyped, Owed, Others
<1>8. StopsBound'
    <2>1. PICK pc \in {"stop", "await", "ended", "kill"}, u \in Turn :
             turn' = [turn EXCEPT ![t] = [at |-> pc, on |-> u]] /\ (t \in stopRequested => pc = "stop")
        BY AwaitsMoves DEF IInv, TurnTyped, AfterQueued
    <2>. QED BY <2>1 DEF IInv, AfterQueued, TurnTyped, ConvTyped, StopTyped, StopsBound, Others, None
<1>9. ProxyHasOwner'
    <2>1. PICK pc \in {"stop", "await", "ended", "kill"}, u \in Turn :
             turn' = [turn EXCEPT ![t] = [at |-> pc, on |-> u]] /\ (t \in stopRequested => pc = "stop")
        BY AwaitsMoves DEF IInv, TurnTyped, AfterQueued
    <2>. QED BY <2>1 DEF IInv, AfterQueued, TurnTyped, OwnersTyped, ProxyHasOwner
<1>. QED BY <1>1, <1>2, <1>3, <1>4, <1>5, <1>6, <1>7, <1>8, <1>9, InboxKept DEF IInv

LEMMA KeepsQueueStop ==
    ASSUME IInv, NEW t \in Turn, QueueStop(t)
    PROVE  IInv'
<1>1. TurnTyped'
    <2>1. PICK pc \in {"await", "ended", "kill"}, u \in Turn :
             turn' = [turn EXCEPT ![t] = [at |-> pc, on |-> u]]
        BY AwaitsMoves DEF IInv, QueueStop
    <2>. QED BY <2>1 DEF IInv, QueueStop, TurnTyped, InvokeAt
<1>2. ConvTyped'
    BY NullIsNoTurn DEF IInv, QueueStop, ConvTyped, TurnTyped, Put, Awaits, None, InvokeAt,
       Over, Unregister
<1>3. OwnersTyped'
    BY NullIsNoTurn DEF IInv, QueueStop, OwnersTyped, TurnTyped, Put, Awaits, InvokeAt,
       Over, Unregister
<1>4. StopTyped'
    BY NullIsNoTurn, SMTT(10) DEF IInv, QueueStop, StopTyped, TurnTyped, ConvTyped, Put,
       Awaits, None, InvokeAt, Over, Unregister
<1>5. Forward
    <2>1. PICK pc \in {"await", "ended", "kill"}, u \in Turn :
             turn' = [turn EXCEPT ![t] = [at |-> pc, on |-> u]]
        BY AwaitsMoves DEF IInv, QueueStop
    <2>. QED BY <2>1 DEF IInv, QueueStop, TurnTyped, Forward, Past
<1>6. InboxMoves
    <2>1. On(t) \in Turn
        BY DEF IInv, TurnTyped
    <2>2. UNCHANGED inbox \/ Put(On(t), "stop", t)
        BY DEF QueueStop
    <2>3. Past(t)'
        BY AwaitsMoves DEF IInv, TurnTyped, QueueStop, Past
    <2>. QED BY <2>1, <2>2, <2>3 DEF InboxMoves, None
<1>7. Owed'
    <2>1. PICK pc \in {"await", "ended", "kill"}, u \in Turn :
             turn' = [turn EXCEPT ![t] = [at |-> pc, on |-> u]]
        BY AwaitsMoves DEF IInv, QueueStop
    <2>. QED BY <2>1 DEF IInv, QueueStop, TurnTyped, StopTyped, Owed
<1>8. StopsBound'
    <2>1. PICK pc \in {"await", "ended", "kill"}, u \in Turn :
             turn' = [turn EXCEPT ![t] = [at |-> pc, on |-> u]]
        BY AwaitsMoves DEF IInv, QueueStop
    <2>. QED BY <2>1 DEF IInv, QueueStop, TurnTyped, ConvTyped, StopTyped, StopsBound, Others, None
<1>9. ProxyHasOwner'
    <2>1. PICK pc \in {"await", "ended", "kill"}, u \in Turn :
             turn' = [turn EXCEPT ![t] = [at |-> pc, on |-> u]]
        BY AwaitsMoves DEF IInv, QueueStop
    <2>. QED BY <2>1 DEF IInv, QueueStop, TurnTyped, OwnersTyped, ProxyHasOwner
<1>. QED BY <1>1, <1>2, <1>3, <1>4, <1>5, <1>6, <1>7, <1>8, <1>9, InboxKept DEF IInv

LEMMA KeepsTimeout ==
    ASSUME IInv, NEW t \in Turn, Timeout(t)
    PROVE  IInv'
<1>1. TurnTyped'
    BY NullIsNoTurn DEF IInv, Timeout, TurnTyped, ConvTyped, Settle, Hears, Others,
       InvokeAt, None, Over, Unregister
<1>2. ConvTyped'
    BY NullIsNoTurn DEF IInv, Timeout, ConvTyped, TurnTyped, Settle, Hears, Others, None,
       InvokeAt, Over, Unregister
<1>3. OwnersTyped'
    BY NullIsNoTurn DEF IInv, Timeout, OwnersTyped, TurnTyped, Settle, Hears, Others,
       InvokeAt, Over, Unregister
<1>4. StopTyped'
    BY NullIsNoTurn, SMTT(10) DEF IInv, Timeout, StopTyped, TurnTyped, ConvTyped, Settle,
       Hears, Others, None, InvokeAt, Over, Unregister
<1>5. Forward
    BY NullIsNoTurn DEF IInv, Timeout, Forward, TurnTyped, Settle, Hears, Others, Past,
       InvokeAt, Over, Unregister
<1>6. InboxMoves
    BY NullIsNoTurn, SMTT(10) DEF IInv, Timeout, InboxMoves, TurnTyped, StopTyped,
       StopsBound, Settle, Hears, Others, None, Past, Put, InvokeAt, Over, Unregister
<1>7. Owed'
    BY NullIsNoTurn, SMTT(10) DEF IInv, Timeout, Owed, TurnTyped, StopTyped, Settle, Hears,
       Others, InvokeAt, None, Over, Unregister
<1>8. StopsBound'
    BY NullIsNoTurn, SMTT(10) DEF IInv, Timeout, StopsBound, TurnTyped, ConvTyped,
       StopTyped, Settle, Hears, Others, InvokeAt, None, Over, Unregister
<1>9. ProxyHasOwner'
    BY NullIsNoTurn, SMTT(10) DEF IInv, Timeout, ProxyHasOwner, TurnTyped, OwnersTyped,
       Settle, Hears, Others, InvokeAt, Over, Unregister
<1>. QED BY <1>1, <1>2, <1>3, <1>4, <1>5, <1>6, <1>7, <1>8, <1>9, InboxKept DEF IInv

LEMMA KeepsExitSeen ==
    ASSUME IInv, NEW t \in Turn, ExitSeen(t)
    PROVE  IInv'
<1>1. TurnTyped'
    BY NullIsNoTurn DEF IInv, ExitSeen, TurnTyped, ConvTyped, Exited, Settle, Hears, Others,
       InvokeAt, None, Over, Unregister
<1>2. ConvTyped'
    BY NullIsNoTurn DEF IInv, ExitSeen, ConvTyped, TurnTyped, Exited, Settle, Hears, Others,
       None, InvokeAt, Over, Unregister
<1>3. OwnersTyped'
    BY NullIsNoTurn DEF IInv, ExitSeen, OwnersTyped, TurnTyped, Exited, Settle, Hears,
       Others, InvokeAt, Over, Unregister
<1>4. StopTyped'
    BY NullIsNoTurn, SMTT(10) DEF IInv, ExitSeen, StopTyped, TurnTyped, ConvTyped, Exited,
       Settle, Hears, Others, None, InvokeAt, Over, Unregister
<1>5. Forward
    BY NullIsNoTurn DEF IInv, ExitSeen, Forward, TurnTyped, Exited, Settle, Hears, Others,
       Past, InvokeAt, Over, Unregister
<1>6. InboxMoves
    BY NullIsNoTurn, SMTT(10) DEF IInv, ExitSeen, InboxMoves, TurnTyped, StopTyped,
       StopsBound, Exited, Settle, Hears, Others, None, Past, Put, InvokeAt, Over,
       Unregister
<1>7. Owed'
    BY NullIsNoTurn, SMTT(10) DEF IInv, ExitSeen, Owed, TurnTyped, StopTyped, Exited,
       Settle, Hears, Others, InvokeAt, None, Over, Unregister
<1>8. StopsBound'
    BY NullIsNoTurn, SMTT(10) DEF IInv, ExitSeen, StopsBound, TurnTyped, ConvTyped,
       StopTyped, Exited, Settle, Hears, Others, InvokeAt, None, Over, Unregister
<1>9. ProxyHasOwner'
    BY NullIsNoTurn, SMTT(10) DEF IInv, ExitSeen, ProxyHasOwner, TurnTyped, OwnersTyped,
       Exited, Settle, Hears, Others, InvokeAt, Over, Unregister
<1>. QED BY <1>1, <1>2, <1>3, <1>4, <1>5, <1>6, <1>7, <1>8, <1>9, InboxKept DEF IInv

LEMMA KeepsKill ==
    ASSUME IInv, NEW t \in Turn, Kill(t)
    PROVE  IInv'
<1>1. TurnTyped'
    BY NullIsNoTurn DEF IInv, Kill, TurnTyped, ConvTyped, Exits, Ends, InvokeAt, None, Off
<1>2. ConvTyped'
    BY NullIsNoTurn DEF IInv, Kill, ConvTyped, TurnTyped, Exits, Ends, None, InvokeAt, Off
<1>3. OwnersTyped'
    BY NullIsNoTurn DEF IInv, Kill, OwnersTyped, TurnTyped, Exits, Ends, InvokeAt, Off
<1>4. StopTyped'
    BY NullIsNoTurn, SMTT(10) DEF IInv, Kill, StopTyped, TurnTyped, ConvTyped, Exits, Ends,
       None, InvokeAt, Off
<1>5. Forward
    BY NullIsNoTurn DEF IInv, Kill, Forward, TurnTyped, Exits, Ends, Past, InvokeAt, Off
<1>6. InboxMoves
    BY NullIsNoTurn, SMTT(10) DEF IInv, Kill, InboxMoves, TurnTyped, StopTyped, StopsBound,
       Exits, Ends, None, Past, Put, InvokeAt, Off
<1>7. Owed'
    BY NullIsNoTurn, SMTT(10) DEF IInv, Kill, Owed, TurnTyped, StopTyped, Exits, Ends,
       InvokeAt, None, Off
<1>8. StopsBound'
    BY NullIsNoTurn, SMTT(10) DEF IInv, Kill, StopsBound, TurnTyped, ConvTyped, StopTyped,
       Exits, Ends, InvokeAt, None, Off
<1>9. ProxyHasOwner'
    BY NullIsNoTurn, SMTT(10) DEF IInv, Kill, ProxyHasOwner, TurnTyped, OwnersTyped, Exits,
       Ends, InvokeAt, Off
<1>. QED BY <1>1, <1>2, <1>3, <1>4, <1>5, <1>6, <1>7, <1>8, <1>9, InboxKept DEF IInv

-----------------------------------------------------------------------------
(* agent:interrupt.                                                        *)

LEMMA KeepsStopReads ==
    ASSUME IInv, StopReads
    PROVE  IInv'
<1>1. TurnTyped'
    BY NullIsNoTurn DEF IInv, StopReads, TurnTyped, ConvTyped, boxVars, InvokeAt, None
<1>2. ConvTyped'
    BY NullIsNoTurn DEF IInv, StopReads, ConvTyped, TurnTyped, boxVars, None, InvokeAt
<1>3. OwnersTyped'
    BY NullIsNoTurn DEF IInv, StopReads, OwnersTyped, TurnTyped, boxVars, InvokeAt
<1>4. StopTyped'
    BY NullIsNoTurn, SMTT(10) DEF IInv, StopReads, StopTyped, TurnTyped, ConvTyped, boxVars,
       None, InvokeAt
<1>5. Forward
    BY NullIsNoTurn DEF IInv, StopReads, Forward, TurnTyped, boxVars, Past, InvokeAt
<1>6. InboxMoves
    BY NullIsNoTurn, SMTT(10) DEF IInv, StopReads, InboxMoves, TurnTyped, StopTyped,
       StopsBound, boxVars, None, Past, Put, InvokeAt
<1>7. Owed'
    BY NullIsNoTurn, SMTT(10) DEF IInv, StopReads, Owed, TurnTyped, StopTyped, boxVars,
       InvokeAt, None
<1>8. StopsBound'
    BY NullIsNoTurn, SMTT(10) DEF IInv, StopReads, StopsBound, TurnTyped, ConvTyped,
       StopTyped, boxVars, InvokeAt, None
<1>9. ProxyHasOwner'
    BY NullIsNoTurn, SMTT(10) DEF IInv, StopReads, ProxyHasOwner, TurnTyped, OwnersTyped,
       boxVars, InvokeAt
<1>. QED BY <1>1, <1>2, <1>3, <1>4, <1>5, <1>6, <1>7, <1>8, <1>9, InboxKept DEF IInv

LEMMA KeepsStopProbes ==
    ASSUME IInv, StopProbes
    PROVE  IInv'
<1>1. TurnTyped'
    BY NullIsNoTurn DEF IInv, StopProbes, TurnTyped, ConvTyped, boxVars, InvokeAt, None
<1>2. ConvTyped'
    BY NullIsNoTurn DEF IInv, StopProbes, ConvTyped, TurnTyped, boxVars, None, InvokeAt
<1>3. OwnersTyped'
    BY NullIsNoTurn DEF IInv, StopProbes, OwnersTyped, TurnTyped, boxVars, InvokeAt
<1>4. StopTyped'
    BY NullIsNoTurn, SMTT(10) DEF IInv, StopProbes, StopTyped, TurnTyped, ConvTyped,
       boxVars, None, InvokeAt
<1>5. Forward
    BY NullIsNoTurn DEF IInv, StopProbes, Forward, TurnTyped, boxVars, Past, InvokeAt
<1>6. InboxMoves
    BY NullIsNoTurn, SMTT(10) DEF IInv, StopProbes, InboxMoves, TurnTyped, StopTyped,
       StopsBound, boxVars, None, Past, Put, InvokeAt
<1>7. Owed'
    BY NullIsNoTurn, SMTT(10) DEF IInv, StopProbes, Owed, TurnTyped, StopTyped, boxVars,
       InvokeAt, None
<1>8. StopsBound'
    BY NullIsNoTurn, SMTT(10) DEF IInv, StopProbes, StopsBound, TurnTyped, ConvTyped,
       StopTyped, boxVars, InvokeAt, None
<1>9. ProxyHasOwner'
    BY NullIsNoTurn, SMTT(10) DEF IInv, StopProbes, ProxyHasOwner, TurnTyped, OwnersTyped,
       boxVars, InvokeAt
<1>. QED BY <1>1, <1>2, <1>3, <1>4, <1>5, <1>6, <1>7, <1>8, <1>9, InboxKept DEF IInv

LEMMA KeepsStopActs ==
    ASSUME IInv, StopActs
    PROVE  IInv'
<1>1. TurnTyped'
    BY NullIsNoTurn DEF IInv, StopActs, TurnTyped, ConvTyped, Pending, Put, InvokeAt, None
<1>2. ConvTyped'
    BY NullIsNoTurn DEF IInv, StopActs, ConvTyped, TurnTyped, Pending, Put, None, InvokeAt
<1>3. OwnersTyped'
    BY NullIsNoTurn DEF IInv, StopActs, OwnersTyped, TurnTyped, Pending, Put, InvokeAt
<1>4. StopTyped'
    <2>1. stop.req \in Turn
        BY DEF IInv, StopsBound, StopActs
    <2>2. stop' = [at |-> "done", req |-> Null, session |-> Null, alive |-> FALSE]
        BY DEF StopActs
    <2>3. stopRequested' \in {stopRequested, stopRequested \union {stop.req}}
          /\ asked' \in {asked, asked \union {stop.req}}
        BY DEF StopActs
    <2>. QED BY <2>1, <2>2, <2>3 DEF IInv, StopTyped, None
<1>5. Forward
    BY NullIsNoTurn DEF IInv, StopActs, Forward, TurnTyped, Pending, Put, Past, InvokeAt
<1>6. InboxMoves
    <2>1. PICK r \in Turn : r = stop.req
        BY DEF IInv, StopsBound, StopActs
    <2>2. turn[r].at \notin {"new", "posting"} /\ turn' = turn
        BY <2>1 DEF IInv, StopsBound, StopActs
    <2>3. ~Pending(r) => Past(r)'
        BY <2>2 DEF IInv, TurnTyped, Pending, Past, InvokeAt
    <2>4. stop.session \in None /\ (stop.alive => stop.session # Null)
        BY DEF IInv, StopTyped, StopsBound
    <2>5. UNCHANGED inbox \/ (~Pending(r) /\ stop.alive /\ Put(stop.session, "stop", r))
        BY <2>1 DEF StopActs
    <2>6. CASE UNCHANGED inbox
        BY <2>6 DEF InboxMoves
    <2>7. CASE ~Pending(r) /\ stop.alive /\ Put(stop.session, "stop", r)
        BY <2>3, <2>4, <2>7 DEF InboxMoves, None
    <2>. QED BY <2>5, <2>6, <2>7
<1>7. Owed'
    BY NullIsNoTurn, SMTT(10) DEF IInv, StopActs, Owed, TurnTyped, StopTyped, Pending, Put,
       InvokeAt, None
<1>8. StopsBound'
    BY NullIsNoTurn, SMTT(10) DEF IInv, StopActs, StopsBound, TurnTyped, ConvTyped,
       StopTyped, Pending, Put, InvokeAt, None
<1>9. ProxyHasOwner'
    BY NullIsNoTurn, SMTT(10) DEF IInv, StopActs, ProxyHasOwner, TurnTyped, OwnersTyped,
       Pending, Put, InvokeAt
<1>. QED BY <1>1, <1>2, <1>3, <1>4, <1>5, <1>6, <1>7, <1>8, <1>9, InboxKept DEF IInv

-----------------------------------------------------------------------------
(* The invariant, and what it is for.                                      *)

LEMMA InitIInv == ASSUME Init PROVE IInv
<1>1. TurnTyped /\ ConvTyped /\ OwnersTyped /\ StopTyped
    BY DEF Init, TurnTyped, ConvTyped, OwnersTyped, StopTyped, None, NoStop
<1>2. InboxTyped
    <2>1. <<>> \in Seq(Entry)
        OBVIOUS
    <2>. QED BY <2>1 DEF Init, InboxTyped
<1>3. StopsBehind
    BY DEF Init, StopsBehind
<1>4. Owed /\ StopsBound /\ ProxyHasOwner
    BY DEF Init, Owed, StopsBound, ProxyHasOwner, NoStop
<1>. QED BY <1>1, <1>2, <1>3, <1>4 DEF IInv

LEMMA SessionIInv ==
    ASSUME IInv, NEW s \in Turn, SessionStep(s)
    PROVE  IInv'
BY KeepsRead, KeepsConsume, KeepsChunk, KeepsEndTool, KeepsEndTurn, KeepsIdleFloor, KeepsDrain,
   KeepsLoopFails, KeepsLeave, KeepsCrash, KeepsExitEnds, KeepsExitTells, KeepsWarmGone,
   KeepsIdleTimer, KeepsGraceTimer, Zenon DEF SessionStep

LEMMA InvokeIInv ==
    ASSUME IInv, NEW t \in Turn, InvokeStep(t)
    PROVE  IInv'
<1>1. CASE Routing(t)
    BY <1>1, KeepsLookup, KeepsProbe, KeepsRefresh, KeepsRetire, KeepsCloseOld, KeepsEndOld,
       KeepsTellOld, Zenon DEF Routing
<1>2. CASE ~Routing(t)
    BY <1>2, KeepsPostBinds, KeepsOpenProxy, KeepsSpawn, KeepsOpened, KeepsBind, KeepsQueue,
       KeepsQueueFails, KeepsAfterQueued, KeepsQueueStop, KeepsTimeout, KeepsExitSeen, KeepsKill,
       Zenon DEF InvokeStep
<1>. QED BY <1>1, <1>2

LEMMA NextIInv == ASSUME IInv, [Next]_vars PROVE IInv'
<1>1. CASE \E t \in Turn : Post(t) \/ InvokeStep(t) \/ Refuse(t) \/ LookupFails(t)
                          \/ EndOldFails(t) \/ OpenFails(t) \/ SessionStep(t)
    BY <1>1, KeepsPost, InvokeIInv, KeepsRefuse, KeepsLookupFails, KeepsEndOldFails,
       KeepsOpenFails, SessionIInv, Zenon
<1>2. CASE StopReads \/ StopProbes \/ StopActs
    BY <1>2, KeepsStopReads, KeepsStopProbes, KeepsStopActs
<1>3. CASE UNCHANGED vars
    <2>1. (TurnTyped /\ ConvTyped /\ OwnersTyped /\ StopTyped /\ InboxTyped)'
        BY <1>3 DEF vars, stopVars, boxVars, IInv, TurnTyped, ConvTyped, OwnersTyped, StopTyped, InboxTyped
    <2>2. (Owed /\ StopsBound /\ StopsBehind /\ ProxyHasOwner)'
        BY <1>3 DEF vars, stopVars, boxVars, IInv, Owed, StopsBound, StopsBehind, Past, ProxyHasOwner
    <2>. QED BY <2>1, <2>2 DEF IInv
<1>. QED BY <1>1, <1>2, <1>3 DEF Next

LEMMA Inductive == Spec => []IInv
BY InitIInv, NextIInv, PTL DEF Spec

\* A Stop accepted for a turn whose message is on its way is never lost, and is
\* queued behind that message (agent:interrupt and afterUserMessageQueued).
THEOREM StopsFollow == Spec => []StopFollows
<1>1. ASSUME IInv PROVE StopFollows
    <2>1. \A t \in asked : t \in stopRequested \/ At(t, "stop")
        BY <1>1 DEF IInv, Owed
    <2>2. ASSUME NEW s \in Turn, NEW t \in Turn, Holds(s, "stop", t)
          PROVE  ~Pending(t)
        <3>1. PICK i \in 1..Len(inbox[s]) : inbox[s][i] = [what |-> "stop", of |-> t]
            BY <2>2 DEF Holds, Range
        <3>2. Past(t)
            BY <1>1, <3>1 DEF IInv, StopsBehind
        <3>. QED BY <3>2 DEF Past, Pending, InvokeAt
    <2>. QED BY <2>1, <2>2 DEF StopFollows
<1>. QED BY <1>1, Inductive, PTL

\* The credentials an open proxy session substitutes are always somebody's to
\* close: the invoke's that opens the session, or the warm entry's exit handler.
THEOREM ProxiesHaveOwners == Spec => []ProxyHasOwner
<1>1. IInv => ProxyHasOwner
    BY DEF IInv
<1>. QED BY <1>1, Inductive, PTL

-----------------------------------------------------------------------------
(* The lists of waiters.                                                   *)

\* A set of natural numbers that has a member has a least one.
LEMMA Least ==
    ASSUME NEW S, S \subseteq Nat, S # {}
    PROVE  \E m \in S : \A n \in S : ~(n < m)
<1>1. \E m \in S : \A n \in S : <<n, m>> \notin OpToRel(<, Nat)
    BY WFMin, NatLessThanWellFounded, Zenon
<1>. QED BY <1>1, Zenon DEF OpToRel

\* A turn at the end of a sequence.
LEMMA AppendKeeps ==
    ASSUME NEW q \in Seq(Turn), NEW t \in Turn
    PROVE  Append(q, t) \in Seq(Turn) /\ Range(Append(q, t)) = Range(q) \union {t}
<1>. DEFINE p == Append(q, t)
<1>1. p \in Seq(Turn) /\ Len(p) = Len(q) + 1 /\ p[Len(q) + 1] = t
      /\ \A i \in 1..Len(q) : p[i] = q[i]
    OBVIOUS
<1>2. Range(p) \subseteq Range(q) \union {t}
    BY <1>1 DEF Range
<1>3. Range(q) \subseteq Range(p)
    BY <1>1 DEF Range
<1>4. t \in Range(p)
    BY <1>1 DEF Range
<1>. QED BY <1>1, <1>2, <1>3, <1>4

\* What is left of a sequence of turns without those of T.
LEMMA WithoutKeeps ==
    ASSUME NEW q \in Seq(Turn), NEW T
    PROVE  Without(q, T) \in Seq(Turn) /\ Range(Without(q, T)) = Range(q) \ T
<1>. DEFINE Next1(f, i) == IF q[i] \in T THEN f[i - 1] ELSE Append(f[i - 1], q[i])
            Is(f, n) == f = [i \in 0..n |-> IF i = 0 THEN <<>> ELSE Next1(f, i)]
<1>0. ASSUME NEW f, NEW n \in Nat, NEW i \in 1..n, Is(f, n)
      PROVE  f[i] = Next1(f, i)
    <2>. DEFINE G(k) == IF k = 0 THEN <<>> ELSE Next1(f, k)
    <2>1. f = [k \in 0..n |-> G(k)]
        BY <1>0
    <2>2. f[i] = G(i)
        <3>. HIDE DEF G
        <3>. QED BY <2>1
    <2>. QED BY <2>2
<1>1. \A n \in 0..Len(q) : \E f : Is(f, n)
    <2>. DEFINE Bad == {n \in 0..Len(q) : ~(\E f : Is(f, n))}
    <2>1. SUFFICES ASSUME Bad # {} PROVE FALSE
        OBVIOUS
    <2>2. PICK m \in Bad : \A n \in Bad : ~(n < m)
        <3>. HIDE DEF Bad
        <3>1. Bad \subseteq Nat
            BY DEF Bad
        <3>. QED BY <2>1, <3>1, Least
    <2>3. m \in 0..Len(q) /\ ~(\E f : Is(f, m))
        OBVIOUS
    <2>4. m # 0
        <3>1. Is([i \in 0..0 |-> <<>>], 0)
            OBVIOUS
        <3>. QED BY <2>3, <3>1
    <2>5. m - 1 \in 0..Len(q) /\ m - 1 < m
        BY <2>3, <2>4
    <2>6. PICK f : Is(f, m - 1)
        BY <2>2, <2>5
    <2>. DEFINE g == [i \in 0..m |-> IF i = m THEN Next1(f, i) ELSE f[i]]
    <2>7. Is(g, m)
        <3>1. \A i \in 0..m : g[i] = IF i = 0 THEN <<>> ELSE Next1(g, i)
            <4>1. SUFFICES ASSUME NEW i \in 0..m PROVE g[i] = IF i = 0 THEN <<>> ELSE Next1(g, i)
                OBVIOUS
            <4>2. CASE i = 0
                BY <4>2, <2>4, <2>6, <2>3
            <4>3. CASE i # 0 /\ i # m
                <5>1. m - 1 \in Nat /\ i \in 1..(m - 1) /\ i - 1 \in 0..(m - 1)
                    BY <2>3, <4>3
                <5>2. g[i] = f[i] /\ g[i - 1] = f[i - 1]
                    BY <2>3, <4>3, <5>1
                <5>3. f[i] = Next1(f, i)
                    <6>. HIDE DEF Next1, Is
                    <6>. QED BY <1>0, <2>3, <2>6, <5>1
                <5>. QED BY <4>3, <5>2, <5>3
            <4>4. CASE i = m
                BY <4>4, <2>4, <2>3
            <4>. QED BY <4>2, <4>3, <4>4
        <3>. QED BY <3>1
    <2>. QED BY <2>3, <2>7
<1>2. PICK f : Is(f, Len(q)) /\ Without(q, T) = f[Len(q)]
    <2>. DEFINE f == CHOOSE f : Is(f, Len(q))
    <2>1. Len(q) \in 0..Len(q)
        OBVIOUS
    <2>2. Is(f, Len(q))
        BY <1>1, <2>1
    <2>3. Without(q, T) = f[Len(q)]
        BY DEF Without
    <2>. QED BY <2>2, <2>3
<1>. DEFINE Good(n) == f[n] \in Seq(Turn) /\ Range(f[n]) = {q[i] : i \in 1..n} \ T
<1>3. \A n \in 0..Len(q) : Good(n)
    <2>. DEFINE Bad == {n \in 0..Len(q) : ~Good(n)}
    <2>1. SUFFICES ASSUME Bad # {} PROVE FALSE
        OBVIOUS
    <2>2. PICK m \in Bad : \A n \in Bad : ~(n < m)
        <3>. HIDE DEF Bad
        <3>1. Bad \subseteq Nat
            BY DEF Bad
        <3>. QED BY <2>1, <3>1, Least
    <2>3. m \in 0..Len(q) /\ ~Good(m)
        OBVIOUS
    <2>4. m # 0
        <3>1. f[0] = <<>>
            BY <1>2
        <3>2. f[0] \in Seq(Turn) /\ Range(f[0]) = {}
            BY <3>1 DEF Range
        <3>. QED BY <2>3, <3>2
    <2>5. Good(m - 1)
        <3>. HIDE DEF Good
        <3>1. m - 1 \in 0..Len(q) /\ m - 1 < m
            BY <2>3, <2>4
        <3>. QED BY <2>2, <3>1
    <2>6. f[m] = Next1(f, m) /\ q[m] \in Turn
        <3>1. m \in 1..Len(q)
            BY <2>3, <2>4
        <3>. HIDE DEF Next1, Is
        <3>2. f[m] = Next1(f, m)
            BY <1>0, <1>2, <3>1
        <3>. QED BY <3>1, <3>2
    <2>7. {q[i] : i \in 1..m} = {q[i] : i \in 1..(m - 1)} \union {q[m]}
        BY <2>3, <2>4
    <2>8. CASE q[m] \in T
        BY <2>3, <2>5, <2>6, <2>7, <2>8
    <2>9. CASE q[m] \notin T
        <3>1. f[m] = Append(f[m - 1], q[m])
            BY <2>6, <2>9
        <3>2. f[m] \in Seq(Turn) /\ Range(f[m]) = Range(f[m - 1]) \union {q[m]}
            BY <3>1, <2>5, <2>6, AppendKeeps
        <3>. QED BY <2>3, <2>5, <2>7, <2>9, <3>2
    <2>. QED BY <2>8, <2>9
<1>4. Len(q) \in 0..Len(q)
    OBVIOUS
<1>. QED BY <1>2, <1>3, <1>4 DEF Range

-----------------------------------------------------------------------------
(* No abnormal end is silent.                                              *)

Outcome == {"none", "open", "complete", "terminated"}
Runner == [up : {"none", "up", "leaving", "gone", "ended", "told"}, active : BOOLEAN,
           work : {"no", "yes", "closing"}, tag : None, parked : None,
           folded : SUBSET Turn, queue : Seq(Turn), sealed : {"no", "cancel", "floor"}]
HostTyped ==
    /\ waiter \in [Turn -> Outcome]
    /\ order \in [Turn -> Seq(Turn)]
    /\ row \in [Turn -> {"none", "live", "ended"}]
    /\ heard \in [Turn -> {"nothing", "reply", "error"}]
    /\ cancelled \subseteq Turn
    /\ faults \in 0..MaxFaults
RunnerTyped == runner \in [Turn -> Runner]

\* A message in an inbox is a turn's.
Named == \A s \in Turn : \A i \in 1..Len(inbox[s]) :
             inbox[s][i].what = "message" => inbox[s][i].of \in Turn

\* A turn that opens a session is about the session it is to open.
OwnSession(t) == turn[t].at \in {"open", "spawn", "opening", "kill", "ended"} => On(t) = t

\* From its registration to its end a turn is in its session's list of waiters.
Waits(t) == \/ turn[t].at \in {"spawn", "opening", "queue", "queued", "stop", "await"}
            \/ At(t, "bind") /\ On(t) = t
Waited(t) ==
    /\ Waits(t) => waiter[t] # "none" /\ t \in Range(order[On(t)])
    /\ At(t, "await") => waiter[t] = "open"
    /\ At(t, "kill") => waiter[t] = "terminated"

\* A turn whose outcome is not a completed one was told.
Told(t) ==
    /\ waiter[t] = "terminated" => heard[t] # "nothing"
    /\ At(t, "ended") /\ waiter[t] # "complete" => heard[t] # "nothing"

\* Nobody is routed into a session before the invoke that opens it has opened it.
Opener(s) == \/ turn[s].at \in {"queue", "queued", "stop", "await", "kill", "ended"}
             \/ At(s, "bind") /\ On(s) = s
WarmOpened(t) ==
    /\ warm[t] # "no" => Opener(t)
    /\ turn[t].at \in {"refresh", "bind", "queue", "queued", "stop", "await"} => Opener(On(t))

\* A runner that is known to have exited has no session to take a message in.
DeadRow == \A s \in Turn : runner[s].up \in {"ended", "told"} => row[s] # "live"

\* The announcement of a session's end reaches whoever has queued a message in it.
ToldHeard(t) ==
    /\ turn[t].at \in {"queued", "stop", "await"} /\ runner[On(t)].up = "told"
    /\ waiter[t] = "open"
    => heard[t] # "nothing"

TInv == HostTyped /\ RunnerTyped /\ Named
Sound(t) == OwnSession(t) /\ Waited(t) /\ Told(t) /\ WarmOpened(t) /\ ToldHeard(t)
SInv == DeadRow /\ \A t \in Turn : Sound(t)

LEMMA UnregisterKeeps ==
    ASSUME HostTyped, NEW T, Unregister(T)
    PROVE  /\ order' \in [Turn -> Seq(Turn)]
           /\ \A s \in Turn : Range(order'[s]) = Range(order[s]) \ T
BY WithoutKeeps DEF HostTyped, Unregister

LEMMA RegisterKeeps ==
    ASSUME HostTyped, NEW t \in Turn, NEW s \in Turn, Register(t, s)
    PROVE  /\ waiter' = [waiter EXCEPT ![t] = "open"]
           /\ order' \in [Turn -> Seq(Turn)]
           /\ \A u \in Turn : Range(order'[u]) =
                  IF u = s THEN Range(order[u]) \union {t} ELSE Range(order[u])
BY AppendKeeps DEF HostTyped, Register

LEMMA SettleMoves ==
    ASSUME TurnTyped, HostTyped, NEW T \in SUBSET Turn,
           NEW outcome \in {"complete", "terminated"}, Settle(T, outcome)
    PROVE  /\ waiter' \in [Turn -> Outcome] /\ order' \in [Turn -> Seq(Turn)]
           /\ \A u \in Turn :
                 /\ waiter'[u] = IF u \in T THEN outcome ELSE waiter[u]
                 /\ u \in T /\ At(u, "await") => turn'[u] = Over(u, outcome)
                 /\ ~(u \in T /\ At(u, "await")) => turn'[u] = turn[u]
           /\ \A s, u \in Turn : u \in Range(order[s]) /\ ~(u \in T /\ At(u, "await"))
                 => u \in Range(order'[s])
<1>1. Unregister({u \in T : At(u, "await")})
    BY DEF Settle
<1>2. order' \in [Turn -> Seq(Turn)]
      /\ \A s \in Turn : Range(order'[s]) = Range(order[s]) \ {u \in T : At(u, "await")}
    BY <1>1, UnregisterKeeps
<1>3. waiter' = [u \in Turn |-> IF u \in T THEN outcome ELSE waiter[u]]
    BY DEF Settle
<1>4. turn' = [u \in Turn |-> IF u \in {v \in T : At(v, "await")} THEN Over(u, outcome) ELSE turn[u]]
    BY DEF Settle
<1>. QED BY <1>2, <1>3, <1>4 DEF HostTyped, Outcome

\* What a step that tells nobody of an exit leaves alone.
Calm ==
    /\ \A t \in Turn : heard[t] # "nothing" => heard'[t] # "nothing"
    /\ \A s \in Turn : warm'[s] # "no" => warm[s] # "no"
    /\ \A s \in Turn : row'[s] = "live" => row[s] = "live"
    /\ \A s \in Turn : runner'[s].up \in {"ended", "told"} => runner'[s].up = runner[s].up

LEMMA SettledKeeps ==
    ASSUME TurnTyped, HostTyped, SInv, Calm, NEW T \in SUBSET Turn,
           NEW outcome \in {"complete", "terminated"}, Settle(T, outcome),
           \A u \in T : waiter[u] = "open",
           outcome = "terminated" => \A u \in T : heard'[u] # "nothing"
    PROVE  SInv'
<1>1. /\ \A u \in Turn :
           /\ waiter'[u] = IF u \in T THEN outcome ELSE waiter[u]
           /\ u \in T /\ At(u, "await") => turn'[u] = Over(u, outcome)
           /\ ~(u \in T /\ At(u, "await")) => turn'[u] = turn[u]
      /\ \A s, u \in Turn : u \in Range(order[s]) /\ ~(u \in T /\ At(u, "await"))
                 => u \in Range(order'[s])
    BY SettleMoves
<1>2. \A u \in Turn : Over(u, outcome).on = u /\ Over(u, outcome).at \in {"ended", "kill"}
                      /\ (Over(u, outcome).at = "kill" => outcome = "terminated")
    BY DEF Over
<1>3. \A u \in Turn : On(u) \in Turn
    BY DEF TurnTyped
<1>4. \A u \in Turn : OwnSession(u)'
    BY <1>1, <1>2 DEF SInv, Sound, OwnSession
<1>5. \A u \in Turn : Waited(u)'
    BY <1>1, <1>2, <1>3 DEF SInv, Sound, Waited, Waits
<1>6. \A u \in Turn : Told(u)'
    BY <1>1, <1>2 DEF SInv, Sound, Told, Calm
<1>7. \A u \in Turn : WarmOpened(u)'
    BY <1>1, <1>2, <1>3 DEF SInv, Sound, WarmOpened, Opener, Calm
<1>8. DeadRow'
    BY DEF SInv, Sound, DeadRow, Calm
<1>9. \A u \in Turn : ToldHeard(u)'
    BY <1>1, <1>2, <1>3 DEF SInv, Sound, ToldHeard, Calm
<1>. QED BY <1>4, <1>5, <1>6, <1>7, <1>8, <1>9 DEF SInv, Sound

LEMMA StandsKeeps ==
    ASSUME TurnTyped, SInv, Calm, UNCHANGED <<turn, waiter, order>>
    PROVE  SInv'
<1>1. \A u \in Turn : On(u) \in Turn
    BY DEF TurnTyped
<1>2. \A u \in Turn : OwnSession(u)' /\ Waited(u)'
    BY DEF SInv, Sound, OwnSession, Waited, Waits
<1>3. \A u \in Turn : Told(u)'
    BY DEF SInv, Sound, Told, Calm
<1>4. \A u \in Turn : WarmOpened(u)'
    BY <1>1 DEF SInv, Sound, WarmOpened, Opener, Calm
<1>5. DeadRow' /\ \A u \in Turn : ToldHeard(u)'
    BY <1>1 DEF SInv, Sound, DeadRow, ToldHeard, Calm
<1>. QED BY <1>2, <1>3, <1>4, <1>5 DEF SInv, Sound

LEMMA OffTyped ==
    ASSUME NEW up \in {"none", "up", "leaving", "gone", "ended", "told"},
           NEW sealed \in {"no", "cancel", "floor"}
    PROVE  /\ [Off EXCEPT !.up = up, !.sealed = sealed] \in Runner
           /\ [Off EXCEPT !.up = up] \in Runner
<1>1. <<>> \in Seq(Turn)
    OBVIOUS
<1>. QED BY <1>1 DEF Off, Runner, None

LEMMA DoesKeeps ==
    ASSUME RunnerTyped, NEW s \in Turn, NEW new \in Runner, Does(s, new)
    PROVE  RunnerTyped' /\ \A u \in Turn : runner'[u] = IF u = s THEN new ELSE runner[u]
BY DEF RunnerTyped

LEMMA ExitsKeeps ==
    ASSUME RunnerTyped, NEW s \in Turn, Exits(s) \/ UNCHANGED runner
    PROVE  /\ RunnerTyped'
           /\ \A u \in Turn : runner'[u].up = runner[u].up \/ runner'[u].up = "gone"
<1>1. CASE Exits(s)
    <2>1. [Off EXCEPT !.up = "gone"] \in Runner /\ [Off EXCEPT !.up = "gone"].up = "gone"
        BY OffTyped DEF Off
    <2>. DEFINE new == [Off EXCEPT !.up = "gone"]
    <2>2. new \in Runner /\ new.up = "gone" /\ Does(s, new)
        BY <1>1, <2>1 DEF Exits
    <2>. HIDE DEF new
    <2>. QED BY <2>2 DEF RunnerTyped
<1>2. CASE UNCHANGED runner
    BY <1>2 DEF RunnerTyped
<1>. QED BY <1>1, <1>2

LEMMA NamedKeeps ==
    ASSUME InboxTyped, Named,
           \/ UNCHANGED inbox
           \/ \E s \in Turn :
                \/ inbox' = [inbox EXCEPT ![s] = <<>>]
                \/ inbox[s] # <<>> /\ inbox' = [inbox EXCEPT ![s] = Tail(inbox[s])]
                \/ \E what \in {"message", "stop", "cancel"}, of \in None :
                     (what = "message" => of \in Turn) /\ Put(s, what, of)
    PROVE  Named'
<1>1. ASSUME NEW s \in Turn, NEW q, inbox' = [inbox EXCEPT ![s] = q],
             \A i \in 1..Len(q) : q[i].what = "message" => q[i].of \in Turn
      PROVE  Named'
    BY <1>1 DEF InboxTyped, Named
<1>2. ASSUME NEW s \in Turn, inbox[s] # <<>>
      PROVE  \A i \in 1..Len(Tail(inbox[s])) :
                 Tail(inbox[s])[i].what = "message" => Tail(inbox[s])[i].of \in Turn
    <2>1. inbox[s] \in Seq(Entry)
        BY DEF InboxTyped
    <2>2. Len(Tail(inbox[s])) = Len(inbox[s]) - 1
          /\ \A i \in 1..Len(Tail(inbox[s])) : Tail(inbox[s])[i] = inbox[s][i + 1]
        BY <1>2, <2>1
    <2>. QED BY <2>1, <2>2 DEF Named
<1>3. ASSUME NEW s \in Turn, NEW what, NEW of, what = "message" => of \in Turn, Put(s, what, of),
             what \in {"message", "stop", "cancel"}, of \in None
      PROVE  Named'
    <2>. DEFINE e == [what |-> what, of |-> of]
    <2>1. inbox[s] \in Seq(Entry) /\ e \in Entry
        BY <1>3 DEF InboxTyped, Entry
    <2>2. Len(Append(inbox[s], e)) = Len(inbox[s]) + 1
          /\ \A i \in 1..Len(inbox[s]) : Append(inbox[s], e)[i] = inbox[s][i]
          /\ Append(inbox[s], e)[Len(inbox[s]) + 1] = e
        BY <2>1
    <2>3. \A i \in 1..Len(Append(inbox[s], e)) :
              Append(inbox[s], e)[i].what = "message" => Append(inbox[s], e)[i].of \in Turn
        BY <1>3, <2>1, <2>2 DEF Named
    <2>. QED BY <1>1, <1>3, <2>3 DEF Put
<1>4. CASE UNCHANGED inbox
    BY <1>4 DEF Named
<1>5. ASSUME NEW s \in Turn, inbox' = [inbox EXCEPT ![s] = <<>>] PROVE Named'
    <2>1. \A i \in 1..Len(<<>>) : FALSE
        OBVIOUS
    <2>. QED BY <1>1, <1>5, <2>1
<1>6. ASSUME NEW s \in Turn, inbox[s] # <<>>, inbox' = [inbox EXCEPT ![s] = Tail(inbox[s])]
      PROVE  Named'
    BY <1>1, <1>2, <1>6
<1>. QED BY <1>3, <1>4, <1>5, <1>6

LEMMA TellsRead ==
    ASSUME IInv, TInv, SInv, NEW s \in Turn, Read(s)
    PROVE  TInv' /\ SInv'
<1>1. HostTyped'
    BY FaultBound DEF IInv, TInv, HostTyped, Outcome, Read, Up, stopVars
<1>2. RunnerTyped' /\ \A u \in Turn : runner'[u].up = runner[u].up
    <2>1. runner[s] \in Runner /\ Head(inbox[s]) \in Entry
          /\ (Head(inbox[s]).what = "message" => Head(inbox[s]).of \in Turn)
        <3>1. inbox[s] \in Seq(Entry) /\ inbox[s] # <<>>
            BY DEF IInv, InboxTyped, Read
        <3>2. Head(inbox[s]) = inbox[s][1] /\ 1 \in 1..Len(inbox[s])
            BY <3>1
        <3>. QED BY <3>1, <3>2 DEF TInv, RunnerTyped, Named
    <2>2. UNCHANGED runner \/ \E new \in Runner : new.up = runner[s].up /\ Does(s, new)
        <3>1. CASE Head(inbox[s]).what = "message"
            <4>1. Append(runner[s].queue, Head(inbox[s]).of) \in Seq(Turn)
                BY <2>1, <3>1 DEF Runner
            <4>. QED BY <2>1, <3>1, <4>1 DEF Read, Runner, None
        <3>2. CASE Head(inbox[s]).what # "message"
            BY <2>1, <3>2 DEF Read, Runner, Entry
        <3>. QED BY <3>1, <3>2
    <2>. QED BY <2>2 DEF TInv, RunnerTyped
<1>3. Named'
    BY NamedKeeps DEF IInv, TInv, Read, boxVars
<1>4. Calm /\ UNCHANGED <<turn, waiter, order>>
    BY <1>2 DEF Calm, Read
<1>. QED BY <1>1, <1>2, <1>3, <1>4, StandsKeeps DEF IInv, TInv

LEMMA TellsConsume ==
    ASSUME IInv, TInv, SInv, NEW s \in Turn, Consume(s)
    PROVE  TInv' /\ SInv'
<1>1. HostTyped'
    BY FaultBound DEF IInv, TInv, HostTyped, Outcome, Consume, Up, boxVars, stopVars
<1>2. RunnerTyped'
    <2>1. runner[s] \in Runner /\ runner[s].queue # <<>>
        BY DEF TInv, RunnerTyped, Consume
    <2>2. Head(runner[s].queue) \in Turn /\ Tail(runner[s].queue) \in Seq(Turn)
        BY <2>1 DEF Runner
    <2>3. \E new \in Runner : Does(s, new)
        BY <2>1, <2>2 DEF Consume, Runner
    <2>. QED BY <2>3 DEF TInv, RunnerTyped
<1>3. Named'
    BY NamedKeeps DEF IInv, TInv, Consume, boxVars
<1>4. Calm /\ UNCHANGED <<turn, waiter, order>>
    BY DEF IInv, TInv, OwnersTyped, RunnerTyped, Runner, Calm, Consume, Up, boxVars,
       stopVars
<1>. QED BY <1>1, <1>2, <1>3, <1>4, StandsKeeps DEF IInv, TInv

LEMMA TellsChunk ==
    ASSUME IInv, TInv, SInv, NEW s \in Turn, Chunk(s)
    PROVE  TInv' /\ SInv'
<1>1. HostTyped'
    BY FaultBound DEF IInv, TInv, HostTyped, Outcome, Chunk, Up, boxVars, stopVars
<1>2. RunnerTyped'
    <2>1. runner[s] \in Runner
        BY DEF TInv, RunnerTyped
    <2>2. [runner[s] EXCEPT !.active = TRUE] \in Runner
        BY <2>1 DEF Runner
    <2>. QED BY <2>2 DEF TInv, RunnerTyped, Chunk
<1>3. Named'
    BY NamedKeeps DEF IInv, TInv, Chunk, boxVars
<1>4. Calm /\ UNCHANGED <<turn, waiter, order>>
    BY DEF IInv, TInv, OwnersTyped, RunnerTyped, Runner, Calm, Chunk, Up, boxVars, stopVars
<1>. QED BY <1>1, <1>2, <1>3, <1>4, StandsKeeps DEF IInv, TInv

LEMMA TellsIdleFloor ==
    ASSUME IInv, TInv, SInv, NEW s \in Turn, IdleFloor(s)
    PROVE  TInv' /\ SInv'
<1>1. HostTyped'
    BY FaultBound DEF IInv, TInv, HostTyped, Outcome, IdleFloor, Up, boxVars, stopVars
<1>2. RunnerTyped'
    BY NullIsNoTurn DEF IInv, TInv, RunnerTyped, Runner, None, IdleFloor, Up, boxVars,
       stopVars
<1>3. Named'
    BY NamedKeeps DEF IInv, TInv, IdleFloor, boxVars
<1>4. Calm /\ UNCHANGED <<turn, waiter, order>>
    BY DEF IInv, TInv, OwnersTyped, RunnerTyped, Runner, Calm, IdleFloor, Up, boxVars,
       stopVars
<1>. QED BY <1>1, <1>2, <1>3, <1>4, StandsKeeps DEF IInv, TInv

LEMMA TellsLeave ==
    ASSUME IInv, TInv, SInv, NEW s \in Turn, Leave(s)
    PROVE  TInv' /\ SInv'
<1>1. HostTyped'
    BY FaultBound DEF IInv, TInv, HostTyped, Outcome, Leave, Up, Exits, Off, boxVars,
       stopVars
<1>2. RunnerTyped'
    BY ExitsKeeps DEF TInv, Leave
<1>3. Named'
    BY NamedKeeps DEF IInv, TInv, Leave, boxVars
<1>4. Calm /\ UNCHANGED <<turn, waiter, order>>
    BY DEF IInv, TInv, OwnersTyped, RunnerTyped, Runner, Calm, Leave, Up, Exits, Off,
       boxVars, stopVars
<1>. QED BY <1>1, <1>2, <1>3, <1>4, StandsKeeps DEF IInv, TInv

LEMMA TellsCrash ==
    ASSUME IInv, TInv, SInv, NEW s \in Turn, Crash(s)
    PROVE  TInv' /\ SInv'
<1>1. HostTyped'
    BY FaultBound DEF IInv, TInv, HostTyped, Outcome, Crash, Up, Exits, Off, boxVars,
       stopVars
<1>2. RunnerTyped'
    BY ExitsKeeps DEF TInv, Crash
<1>3. Named'
    BY NamedKeeps DEF IInv, TInv, Crash, boxVars
<1>4. Calm /\ UNCHANGED <<turn, waiter, order>>
    BY DEF IInv, TInv, OwnersTyped, RunnerTyped, Runner, Calm, Crash, Up, Exits, Off,
       boxVars, stopVars
<1>. QED BY <1>1, <1>2, <1>3, <1>4, StandsKeeps DEF IInv, TInv

LEMMA TellsWarmGone ==
    ASSUME IInv, TInv, SInv, NEW s \in Turn, WarmGone(s)
    PROVE  TInv' /\ SInv'
<1>1. HostTyped'
    BY FaultBound DEF IInv, TInv, HostTyped, Outcome, WarmGone, boxVars, stopVars
<1>2. RunnerTyped'
    BY NullIsNoTurn DEF IInv, TInv, RunnerTyped, Runner, None, WarmGone, boxVars, stopVars
<1>3. Named'
    BY NamedKeeps DEF IInv, TInv, WarmGone, boxVars
<1>4. Calm /\ UNCHANGED <<turn, waiter, order>>
    BY DEF IInv, TInv, OwnersTyped, RunnerTyped, Runner, Calm, WarmGone, boxVars, stopVars
<1>. QED BY <1>1, <1>2, <1>3, <1>4, StandsKeeps DEF IInv, TInv

LEMMA TellsIdleTimer ==
    ASSUME IInv, TInv, SInv, NEW s \in Turn, IdleTimer(s)
    PROVE  TInv' /\ SInv'
<1>1. HostTyped'
    BY FaultBound DEF IInv, TInv, HostTyped, Outcome, IdleTimer, Put, stopVars
<1>2. RunnerTyped'
    BY NullIsNoTurn DEF IInv, TInv, RunnerTyped, Runner, None, IdleTimer, Put, stopVars
<1>3. Named'
    <2>1. UNCHANGED inbox \/ Put(s, "cancel", Null)
        BY DEF IdleTimer
    <2>. QED BY <2>1, NamedKeeps DEF IInv, TInv, None
<1>4. Calm /\ UNCHANGED <<turn, waiter, order>>
    BY DEF IInv, TInv, OwnersTyped, RunnerTyped, Runner, Calm, IdleTimer, Put, stopVars
<1>. QED BY <1>1, <1>2, <1>3, <1>4, StandsKeeps DEF IInv, TInv

LEMMA TellsGraceTimer ==
    ASSUME IInv, TInv, SInv, NEW s \in Turn, GraceTimer(s)
    PROVE  TInv' /\ SInv'
<1>1. HostTyped'
    BY FaultBound DEF IInv, TInv, HostTyped, Outcome, GraceTimer, Exits, Off, boxVars,
       stopVars
<1>2. RunnerTyped'
    BY ExitsKeeps DEF TInv, GraceTimer
<1>3. Named'
    BY NamedKeeps DEF IInv, TInv, GraceTimer, boxVars
<1>4. Calm /\ UNCHANGED <<turn, waiter, order>>
    <2>1. \A u \in Turn : runner'[u].up = runner[u].up \/ runner'[u].up = "gone"
        BY ExitsKeeps DEF TInv, GraceTimer
    <2>2. UNCHANGED <<turn, waiter, order, row, heard>>
        BY DEF GraceTimer, boxVars
    <2>3. \A u \in Turn : warm'[u] # "no" => warm[u] # "no"
        BY DEF IInv, OwnersTyped, GraceTimer
    <2>. QED BY <2>1, <2>2, <2>3 DEF Calm
<1>. QED BY <1>1, <1>2, <1>3, <1>4, StandsKeeps DEF IInv, TInv

LEMMA HearsMoves ==
    ASSUME HostTyped, NEW T, NEW what \in {"reply", "error"}, Hears(T, what)
    PROVE  /\ heard' \in [Turn -> {"nothing", "reply", "error"}]
           /\ \A t \in Turn : heard[t] # "nothing" => heard'[t] # "nothing"
           /\ \A t \in Turn : t \in T => heard'[t] # "nothing"
BY DEF HostTyped, Hears

LEMMA OpenWaiters ==
    ASSUME HostTyped, NEW s \in Turn
    PROVE  /\ Open(Oldest(s)) \in SUBSET Turn
           /\ \A T : \A u \in Open(T) : waiter[u] = "open"
           /\ \A T : Open(T) \subseteq T
<1>1. Oldest(s) \subseteq Turn
    <2>1. CASE order[s] = <<>>
        BY <2>1 DEF Oldest
    <2>2. CASE order[s] # <<>>
        <3>1. order[s] \in Seq(Turn)
            BY DEF HostTyped
        <3>2. Head(order[s]) \in Turn
            BY <2>2, <3>1
        <3>. QED BY <2>2, <3>2 DEF Oldest
    <2>. QED BY <2>1, <2>2
<1>. QED BY <1>1 DEF Open

\* Whom the end of a turn settles, and what it leaves alone.
LEMMA TurnEndedSettles ==
    ASSUME IInv, TInv, NEW s \in Turn, TurnEnded(s)
    PROVE  /\ \E T \in SUBSET Turn : (\A u \in T : waiter[u] = "open") /\ Settle(T, "complete")
           /\ heard' \in [Turn -> {"nothing", "reply", "error"}]
           /\ \A t \in Turn : heard[t] # "nothing" => heard'[t] # "nothing"
           /\ \A u \in Turn : warm'[u] # "no" => warm[u] # "no"
<1>. DEFINE tag == runner[s].tag
            named == (runner[s].folded \union {tag}) \ {Null}
            T == WaiterFor(tag, s) \union Open((named \ {tag}) \intersect Range(order[s]))
<1>1. runner[s] \in Runner
    BY DEF TInv, RunnerTyped
<1>2. T \in SUBSET Turn /\ \A u \in T : waiter[u] = "open"
    <2>1. tag \in None /\ named \subseteq Turn
        BY <1>1 DEF Runner, None
    <2>2. WaiterFor(tag, s) \subseteq Turn /\ \A u \in WaiterFor(tag, s) : waiter[u] = "open"
        <3>1. WaiterFor(tag, s) = Open(Oldest(s)) \/ (tag # Null /\ WaiterFor(tag, s) = Open({tag}))
            BY DEF WaiterFor
        <3>. QED BY <2>1, <3>1, OpenWaiters DEF TInv, None
    <2>. QED BY <2>1, <2>2, OpenWaiters DEF TInv
<1>3. Settle(T, "complete") /\ Hears(named, "reply")
      /\ warm' = IF warm[s] = "no" THEN warm ELSE [warm EXCEPT ![s] = "armed"]
    BY DEF TurnEnded
<1>. HIDE DEF T, named
<1>4. /\ heard' \in [Turn -> {"nothing", "reply", "error"}]
      /\ \A t \in Turn : heard[t] # "nothing" => heard'[t] # "nothing"
    BY <1>3, HearsMoves DEF TInv
<1>5. \A u \in Turn : warm'[u] # "no" => warm[u] # "no"
    BY <1>3 DEF IInv, OwnersTyped
<1>. QED BY <1>2, <1>3, <1>4, <1>5

LEMMA ChatEndedSettles ==
    ASSUME IInv, TInv, NEW s \in Turn, NEW outcome \in {"complete", "terminated"},
           ChatEnded(s, outcome)
    PROVE  /\ \E T \in SUBSET Turn :
                /\ \A u \in T : waiter[u] = "open"
                /\ Settle(T, outcome)
                /\ outcome = "terminated" => \A u \in T : heard'[u] # "nothing"
           /\ heard' \in [Turn -> {"nothing", "reply", "error"}]
           /\ \A t \in Turn : heard[t] # "nothing" => heard'[t] # "nothing"
           /\ cancelled' \subseteq Turn
<1>. DEFINE T == Open(Oldest(s))
<1>1. T \in SUBSET Turn /\ \A u \in T : waiter[u] = "open"
    BY OpenWaiters DEF TInv
<1>2. Settle(T, outcome) /\ cancelled' \subseteq Turn
      /\ (IF outcome = "terminated" THEN Hears(T, "error") ELSE UNCHANGED heard)
    BY DEF ChatEnded, TInv, HostTyped
<1>. HIDE DEF T
<1>3. /\ heard' \in [Turn -> {"nothing", "reply", "error"}]
      /\ \A t \in Turn : heard[t] # "nothing" => heard'[t] # "nothing"
      /\ outcome = "terminated" => \A t \in T : heard'[t] # "nothing"
    <2>1. CASE outcome = "terminated"
        BY <1>1, <1>2, <2>1, HearsMoves DEF TInv
    <2>2. CASE outcome # "terminated"
        BY <1>2, <2>2 DEF TInv, HostTyped
    <2>. QED BY <2>1, <2>2
<1>. QED BY <1>1, <1>2, <1>3

LEMMA TellsEndTool ==
    ASSUME IInv, TInv, SInv, NEW s \in Turn, EndTool(s)
    PROVE  TInv' /\ SInv'
<1>1. TurnEnded(s) /\ UNCHANGED <<row, inbox, cancelled, faults>>
    BY DEF EndTool, boxVars
<1>2. PICK T \in SUBSET Turn : (\A u \in T : waiter[u] = "open") /\ Settle(T, "complete")
    BY <1>1, TurnEndedSettles
<1>3. /\ heard' \in [Turn -> {"nothing", "reply", "error"}]
      /\ \A t \in Turn : heard[t] # "nothing" => heard'[t] # "nothing"
      /\ \A u \in Turn : warm'[u] # "no" => warm[u] # "no"
    BY <1>1, TurnEndedSettles
<1>4. \E new \in Runner : new.up = "up" /\ Does(s, new)
    <2>1. runner[s] \in Runner
        BY DEF TInv, RunnerTyped
    <2>2. <<>> \in Seq(Turn)
        OBVIOUS
    <2>. QED BY <2>1, <2>2 DEF EndTool, Up, Runner, None
<1>5. RunnerTyped' /\ \A u \in Turn : runner'[u].up \in {runner[u].up, "up"}
    BY <1>4 DEF TInv, RunnerTyped
<1>6. TInv'
    BY <1>1, <1>2, <1>3, <1>5, SettleMoves, NamedKeeps DEF IInv, TInv, HostTyped
<1>7. Calm
    BY <1>1, <1>3, <1>5 DEF Calm
<1>. QED BY <1>2, <1>6, <1>7, SettledKeeps DEF IInv, TInv

LEMMA TellsEndTurn ==
    ASSUME IInv, TInv, SInv, NEW s \in Turn, EndTurn(s)
    PROVE  TInv' /\ SInv'
<1>1. TurnEnded(s) /\ UNCHANGED <<row, inbox, cancelled, faults>>
    BY DEF EndTurn, boxVars
<1>2. PICK T \in SUBSET Turn : (\A u \in T : waiter[u] = "open") /\ Settle(T, "complete")
    BY <1>1, TurnEndedSettles
<1>3. /\ heard' \in [Turn -> {"nothing", "reply", "error"}]
      /\ \A t \in Turn : heard[t] # "nothing" => heard'[t] # "nothing"
      /\ \A u \in Turn : warm'[u] # "no" => warm[u] # "no"
    BY <1>1, TurnEndedSettles
<1>4. \E new \in Runner : new.up = "up" /\ Does(s, new)
    <2>1. runner[s] \in Runner
        BY DEF TInv, RunnerTyped
    <2>2. <<>> \in Seq(Turn)
        OBVIOUS
    <2>. QED BY <2>1, <2>2 DEF EndTurn, Up, Runner, None
<1>5. RunnerTyped' /\ \A u \in Turn : runner'[u].up \in {runner[u].up, "up"}
    BY <1>4 DEF TInv, RunnerTyped
<1>6. TInv'
    BY <1>1, <1>2, <1>3, <1>5, SettleMoves, NamedKeeps DEF IInv, TInv, HostTyped
<1>7. Calm
    BY <1>1, <1>3, <1>5 DEF Calm
<1>. QED BY <1>2, <1>6, <1>7, SettledKeeps DEF IInv, TInv

LEMMA TellsDrain ==
    ASSUME IInv, TInv, SInv, NEW s \in Turn, Drain(s)
    PROVE  TInv' /\ SInv'
<1>1. ChatEnded(s, "complete") /\ UNCHANGED <<row, inbox, warm>> /\ faults' \in 0..MaxFaults
    BY FaultBound DEF Drain, boxVars, TInv, HostTyped
<1>2. PICK T \in SUBSET Turn : 
         /\ \A u \in T : waiter[u] = "open"
         /\ Settle(T, "complete")
         /\ "complete" = "terminated" => \A u \in T : heard'[u] # "nothing"
    BY <1>1, ChatEndedSettles
<1>3. /\ heard' \in [Turn -> {"nothing", "reply", "error"}]
      /\ \A t \in Turn : heard[t] # "nothing" => heard'[t] # "nothing"
      /\ cancelled' \subseteq Turn
    BY <1>1, ChatEndedSettles
<1>4. \E new \in Runner : new.up = "leaving" /\ Does(s, new)
    <2>1. runner[s].sealed \in {"no", "cancel", "floor"}
        BY DEF TInv, RunnerTyped, Runner
    <2>. QED BY <2>1, OffTyped DEF Drain, Off
<1>5. RunnerTyped' /\ \A u \in Turn : runner'[u].up \in {runner[u].up, "leaving"}
    BY <1>4 DEF TInv, RunnerTyped
<1>6. TInv'
    BY <1>1, <1>2, <1>3, <1>5, SettleMoves, NamedKeeps DEF IInv, TInv, HostTyped
<1>7. Calm
    BY <1>1, <1>3, <1>5 DEF Calm
<1>. QED BY <1>2, <1>6, <1>7, SettledKeeps DEF IInv, TInv

LEMMA TellsLoopFails ==
    ASSUME IInv, TInv, SInv, NEW s \in Turn, LoopFails(s)
    PROVE  TInv' /\ SInv'
<1>1. ChatEnded(s, "terminated") /\ UNCHANGED <<row, inbox, warm>> /\ faults' \in 0..MaxFaults
    BY FaultBound DEF LoopFails, boxVars, TInv, HostTyped
<1>2. PICK T \in SUBSET Turn : 
         /\ \A u \in T : waiter[u] = "open"
         /\ Settle(T, "terminated")
         /\ "terminated" = "terminated" => \A u \in T : heard'[u] # "nothing"
    BY <1>1, ChatEndedSettles
<1>3. /\ heard' \in [Turn -> {"nothing", "reply", "error"}]
      /\ \A t \in Turn : heard[t] # "nothing" => heard'[t] # "nothing"
      /\ cancelled' \subseteq Turn
    BY <1>1, ChatEndedSettles
<1>4. \E new \in Runner : new.up = "leaving" /\ Does(s, new)
    <2>1. runner[s].sealed \in {"no", "cancel", "floor"}
        BY DEF TInv, RunnerTyped, Runner
    <2>. QED BY <2>1, OffTyped DEF LoopFails, Off
<1>5. RunnerTyped' /\ \A u \in Turn : runner'[u].up \in {runner[u].up, "leaving"}
    BY <1>4 DEF TInv, RunnerTyped
<1>6. TInv'
    BY <1>1, <1>2, <1>3, <1>5, SettleMoves, NamedKeeps DEF IInv, TInv, HostTyped
<1>7. Calm
    BY <1>1, <1>3, <1>5 DEF Calm
<1>. QED BY <1>2, <1>6, <1>7, SettledKeeps DEF IInv, TInv

LEMMA TellsExitEnds ==
    ASSUME IInv, TInv, SInv, NEW s \in Turn, ExitEnds(s)
    PROVE  TInv' /\ SInv'
<1>1. /\ row' = [row EXCEPT ![s] = "ended"] /\ inbox' = [inbox EXCEPT ![s] = <<>>]
      /\ UNCHANGED <<turn, waiter, order, warm, cancelled, heard, faults>>
    BY DEF ExitEnds, EndSession
<1>2. PICK new \in Runner : new.up = "ended" /\ Does(s, new)
    BY OffTyped DEF ExitEnds, Off
<1>3. TInv'
    BY <1>1, <1>2, NamedKeeps DEF IInv, TInv, HostTyped, RunnerTyped
<1>4. \A u \in Turn : runner'[u] = IF u = s THEN new ELSE runner[u]
    BY <1>2 DEF TInv, RunnerTyped
<1>5. \A u \in Turn : row'[u] = IF u = s THEN "ended" ELSE row[u]
    BY <1>1 DEF TInv, HostTyped
<1>6. \A u \in Turn : On(u) \in Turn
    BY DEF IInv, TurnTyped
<1>7. \A u \in Turn : OwnSession(u)' /\ Waited(u)' /\ Told(u)' /\ WarmOpened(u)'
    BY <1>1 DEF SInv, Sound, OwnSession, Waited, Waits, Told, WarmOpened, Opener
<1>8. DeadRow' /\ \A u \in Turn : ToldHeard(u)'
    BY <1>1, <1>2, <1>4, <1>5, <1>6 DEF SInv, Sound, DeadRow, ToldHeard
<1>. QED BY <1>3, <1>7, <1>8 DEF SInv, Sound

\* The announcement is heard by every registered waiter that is still open.
LEMMA AnnounceMoves ==
    ASSUME HostTyped, NEW s \in Turn, Announce(s)
    PROVE  /\ heard' \in [Turn -> {"nothing", "reply", "error"}]
           /\ \A t \in Turn : heard[t] # "nothing" => heard'[t] # "nothing"
           /\ \A t \in Turn : t \in Range(order[s]) /\ waiter[t] = "open" => heard'[t] # "nothing"
<1>. DEFINE T == Open(Range(order[s]))
<1>1. Hears(T, "error") /\ \A t \in Range(order[s]) : waiter[t] = "open" => t \in T
    BY DEF Announce, Open
<1>. HIDE DEF T
<1>. QED BY <1>1, HearsMoves

LEMMA TellsExitTells ==
    ASSUME IInv, TInv, SInv, NEW s \in Turn, ExitTells(s)
    PROVE  TInv' /\ SInv'
<1>1. /\ runner[s].up = "ended"
      /\ UNCHANGED <<turn, waiter, order, row, inbox, warm, cancelled, faults>>
    BY DEF ExitTells, boxVars
<1>2. PICK new \in Runner : new.up = "told" /\ Does(s, new)
    BY OffTyped DEF ExitTells, Off
<1>3. /\ heard' \in [Turn -> {"nothing", "reply", "error"}]
      /\ \A t \in Turn : heard[t] # "nothing" => heard'[t] # "nothing"
      /\ \A t \in Turn : t \in Range(order[s]) /\ waiter[t] = "open" => heard'[t] # "nothing"
    BY AnnounceMoves DEF ExitTells, TInv
<1>4. TInv'
    BY <1>1, <1>2, <1>3, NamedKeeps DEF IInv, TInv, HostTyped, RunnerTyped
<1>5. \A u \in Turn : runner'[u] = IF u = s THEN new ELSE runner[u]
    BY <1>2 DEF TInv, RunnerTyped
<1>6. \A u \in Turn : On(u) \in Turn
    BY DEF IInv, TurnTyped
<1>7. \A u \in Turn : OwnSession(u)' /\ Waited(u)' /\ Told(u)' /\ WarmOpened(u)'
    BY <1>1, <1>3 DEF SInv, Sound, OwnSession, Waited, Waits, Told, WarmOpened, Opener
<1>8. DeadRow'
    BY <1>1, <1>2, <1>5 DEF SInv, Sound, DeadRow
<1>9. \A u \in Turn : ToldHeard(u)'
    BY <1>1, <1>2, <1>3, <1>5, <1>6 DEF SInv, Sound, ToldHeard, Waited, Waits
<1>. QED BY <1>4, <1>7, <1>8, <1>9 DEF SInv, Sound

\* A step of one invoke, which says nothing of the others: what remains is t itself.
Alone(t) ==
    /\ \A u \in Turn \ {t} :
          /\ turn'[u] = turn[u] /\ waiter'[u] = waiter[u]
          /\ \A s \in Turn : u \in Range(order[s]) => u \in Range(order'[s])
    /\ \A u \in Turn : heard[u] # "nothing" => heard'[u] # "nothing"
    /\ \A u \in Turn : warm'[u] # "no" => warm[u] # "no" \/ Opener(u)'
    /\ \A s \in Turn : runner'[s].up = "told" => runner[s].up = "told" \/ ~Opener(s)
    /\ Opener(t) => Opener(t)'

LEMMA AloneKeeps ==
    ASSUME TurnTyped, SInv, NEW t \in Turn, Alone(t), Sound(t)', DeadRow'
    PROVE  SInv'
<1>1. ASSUME NEW u \in Turn, u # t PROVE Sound(u)'
    <2>1. On(u) \in Turn /\ turn'[u] = turn[u] /\ waiter'[u] = waiter[u] /\ Sound(u)
        BY <1>1 DEF TurnTyped, Alone, SInv
    <2>2. \A v \in Turn : Opener(v) => Opener(v)'
        BY DEF Alone, Opener
    <2>3. OwnSession(u)'
        BY <2>1 DEF Sound, OwnSession
    <2>4. Waited(u)'
        BY <1>1, <2>1 DEF Sound, Waited, Waits, Alone
    <2>5. Told(u)'
        BY <2>1 DEF Sound, Told, Alone
    <2>6. WarmOpened(u)'
        BY <2>1, <2>2 DEF Sound, WarmOpened, Alone
    <2>7. ToldHeard(u)'
        BY <2>1 DEF Sound, ToldHeard, WarmOpened, Alone
    <2>. QED BY <2>3, <2>4, <2>5, <2>6, <2>7 DEF Sound
<1>. QED BY <1>1 DEF SInv

LEMMA RoutingSound ==
    ASSUME SInv, NEW t \in Turn, Alone(t), UNCHANGED waiter,
           \/ turn'[t].at \in {"posting", "invoked", "probe", "retire", "close", "end", "tell"}
           \/ turn'[t] = [at |-> "open", on |-> t]
    PROVE  Sound(t)'
<1>1. OwnSession(t)' /\ Waited(t)' /\ ToldHeard(t)'
    BY DEF OwnSession, Waited, Waits, ToldHeard
<1>2. Told(t)'
    BY DEF SInv, Sound, Told, Alone
<1>3. WarmOpened(t)'
    BY DEF SInv, Sound, WarmOpened, Alone
<1>. QED BY <1>1, <1>2, <1>3 DEF Sound

LEMMA TellsPost ==
    ASSUME IInv, TInv, SInv, NEW t \in Turn, Post(t)
    PROVE  TInv' /\ SInv'
<1>1. HostTyped'
    BY FaultBound DEF IInv, TInv, HostTyped, Outcome, Others, stopVars, Post
<1>2. RunnerTyped'
    BY DEF TInv, RunnerTyped, Post
<1>3. Named'
    BY NamedKeeps DEF IInv, TInv, Others, Post
<1>4. Alone(t) /\ DeadRow'
    BY DEF IInv, TInv, TurnTyped, OwnersTyped, HostTyped, RunnerTyped, Runner, Alone,
       Opener, SInv, DeadRow, Others, Post
<1>5. Sound(t)'
    <2>1. UNCHANGED waiter
          /\ \/ turn'[t].at \in {"posting", "invoked", "probe", "retire", "close", "end", "tell"}
             \/ turn'[t] = [at |-> "open", on |-> t]
        BY DEF IInv, TurnTyped, Post
    <2>. QED BY <1>4, <2>1, RoutingSound
<1>. QED BY <1>1, <1>2, <1>3, <1>4, <1>5, AloneKeeps DEF IInv, TInv

LEMMA TellsPostBinds ==
    ASSUME IInv, TInv, SInv, NEW t \in Turn, PostBinds(t)
    PROVE  TInv' /\ SInv'
<1>1. HostTyped'
    BY FaultBound DEF IInv, TInv, HostTyped, Outcome, Others, stopVars, PostBinds
<1>2. RunnerTyped'
    BY DEF TInv, RunnerTyped, PostBinds
<1>3. Named'
    BY NamedKeeps DEF IInv, TInv, Others, PostBinds
<1>4. Alone(t) /\ DeadRow'
    BY DEF IInv, TInv, TurnTyped, OwnersTyped, HostTyped, RunnerTyped, Runner, Alone,
       Opener, SInv, DeadRow, Others, PostBinds
<1>5. Sound(t)'
    <2>1. UNCHANGED waiter
          /\ \/ turn'[t].at \in {"posting", "invoked", "probe", "retire", "close", "end", "tell"}
             \/ turn'[t] = [at |-> "open", on |-> t]
        BY DEF IInv, TurnTyped, PostBinds
    <2>. QED BY <1>4, <2>1, RoutingSound
<1>. QED BY <1>1, <1>2, <1>3, <1>4, <1>5, AloneKeeps DEF IInv, TInv

LEMMA TellsLookup ==
    ASSUME IInv, TInv, SInv, NEW t \in Turn, Lookup(t)
    PROVE  TInv' /\ SInv'
<1>1. HostTyped'
    BY FaultBound DEF IInv, TInv, HostTyped, Outcome, Others, stopVars, Lookup
<1>2. RunnerTyped'
    BY DEF TInv, RunnerTyped, Lookup
<1>3. Named'
    BY NamedKeeps DEF IInv, TInv, Others, Lookup
<1>4. Alone(t) /\ DeadRow'
    BY DEF IInv, TInv, TurnTyped, OwnersTyped, HostTyped, RunnerTyped, Runner, Alone,
       Opener, SInv, DeadRow, Others, Lookup
<1>5. Sound(t)'
    <2>1. UNCHANGED waiter
          /\ \/ turn'[t].at \in {"posting", "invoked", "probe", "retire", "close", "end", "tell"}
             \/ turn'[t] = [at |-> "open", on |-> t]
        BY DEF IInv, TurnTyped, Lookup
    <2>. QED BY <1>4, <2>1, RoutingSound
<1>. QED BY <1>1, <1>2, <1>3, <1>4, <1>5, AloneKeeps DEF IInv, TInv

LEMMA TellsLookupFails ==
    ASSUME IInv, TInv, SInv, NEW t \in Turn, LookupFails(t)
    PROVE  TInv' /\ SInv'
<1>1. HostTyped'
    BY FaultBound DEF IInv, TInv, HostTyped, Outcome, Others, stopVars, LookupFails
<1>2. RunnerTyped'
    BY DEF TInv, RunnerTyped, LookupFails
<1>3. Named'
    BY NamedKeeps DEF IInv, TInv, Others, LookupFails
<1>4. Alone(t) /\ DeadRow'
    BY DEF IInv, TInv, TurnTyped, OwnersTyped, HostTyped, RunnerTyped, Runner, Alone,
       Opener, SInv, DeadRow, Others, LookupFails
<1>5. Sound(t)'
    <2>1. UNCHANGED waiter
          /\ \/ turn'[t].at \in {"posting", "invoked", "probe", "retire", "close", "end", "tell"}
             \/ turn'[t] = [at |-> "open", on |-> t]
        BY DEF IInv, TurnTyped, LookupFails
    <2>. QED BY <1>4, <2>1, RoutingSound
<1>. QED BY <1>1, <1>2, <1>3, <1>4, <1>5, AloneKeeps DEF IInv, TInv

LEMMA TellsProbe ==
    ASSUME IInv, TInv, SInv, NEW t \in Turn, Probe(t)
    PROVE  TInv' /\ SInv'
<1>1. HostTyped'
    BY FaultBound DEF IInv, TInv, HostTyped, Outcome, Others, stopVars, Probe
<1>2. RunnerTyped'
    BY DEF TInv, RunnerTyped, Probe
<1>3. Named'
    BY NamedKeeps DEF IInv, TInv, Others, Probe
<1>4. Alone(t) /\ DeadRow'
    BY DEF IInv, TInv, TurnTyped, OwnersTyped, HostTyped, RunnerTyped, Runner, Alone,
       Opener, SInv, DeadRow, Others, Probe
<1>5. Sound(t)'
    <2>1. UNCHANGED <<waiter, order, warm, heard, runner>> /\ On(t) \in Turn
        BY DEF IInv, TurnTyped, Probe
    <2>2. CASE Goes(t, "refresh") /\ warm[On(t)] # "no"
        <3>1. Opener(On(t)) /\ On(t) # t
            BY <2>1, <2>2 DEF SInv, Sound, WarmOpened, Opener, Probe
        <3>2. turn'[t] = [at |-> "refresh", on |-> On(t)] /\ turn'[On(t)] = turn[On(t)]
            BY <2>1, <2>2, <3>1 DEF IInv, TurnTyped
        <3>3. WarmOpened(t)'
            BY <1>4, <2>1, <3>1, <3>2 DEF WarmOpened, Opener, Alone, SInv, Sound
        <3>. QED BY <2>1, <3>2, <3>3 DEF SInv, Sound, OwnSession, Waited, Waits, Told, ToldHeard
    <2>3. CASE ~(Goes(t, "refresh") /\ warm[On(t)] # "no")
        <3>1. turn'[t].at = "retire" \/ turn'[t] = [at |-> "open", on |-> t]
            BY <2>3 DEF IInv, TurnTyped, Probe
        <3>. QED BY <1>4, <2>1, <3>1, RoutingSound
    <2>. QED BY <2>2, <2>3
<1>. QED BY <1>1, <1>2, <1>3, <1>4, <1>5, AloneKeeps DEF IInv, TInv

LEMMA TellsRefresh ==
    ASSUME IInv, TInv, SInv, NEW t \in Turn, Refresh(t)
    PROVE  TInv' /\ SInv'
<1>1. HostTyped'
    BY FaultBound DEF IInv, TInv, HostTyped, Outcome, Others, stopVars, Refresh
<1>2. RunnerTyped'
    BY DEF TInv, RunnerTyped, Refresh
<1>3. Named'
    BY NamedKeeps DEF IInv, TInv, Others, Refresh
<1>4. Alone(t) /\ DeadRow'
    BY DEF IInv, TInv, TurnTyped, OwnersTyped, HostTyped, RunnerTyped, Runner, Alone,
       Opener, SInv, DeadRow, Others, Refresh
<1>5. Sound(t)'
    BY DEF IInv, TInv, TurnTyped, ConvTyped, None, OwnersTyped, HostTyped, RunnerTyped,
       Runner, SInv, DeadRow, Sound, OwnSession, Waited, Waits, Told, WarmOpened, Opener,
       ToldHeard, Others, Refresh
<1>. QED BY <1>1, <1>2, <1>3, <1>4, <1>5, AloneKeeps DEF IInv, TInv

LEMMA TellsRetire ==
    ASSUME IInv, TInv, SInv, NEW t \in Turn, Retire(t)
    PROVE  TInv' /\ SInv'
<1>1. HostTyped'
    BY FaultBound DEF IInv, TInv, HostTyped, Outcome, Others, stopVars, Retire
<1>2. RunnerTyped'
    BY DEF TInv, RunnerTyped, Retire
<1>3. Named'
    BY NamedKeeps DEF IInv, TInv, Others, Retire
<1>4. Alone(t) /\ DeadRow'
    BY DEF IInv, TInv, TurnTyped, OwnersTyped, HostTyped, RunnerTyped, Runner, Alone,
       Opener, SInv, DeadRow, Others, Retire
<1>5. Sound(t)'
    <2>1. UNCHANGED waiter
          /\ \/ turn'[t].at \in {"posting", "invoked", "probe", "retire", "close", "end", "tell"}
             \/ turn'[t] = [at |-> "open", on |-> t]
        BY DEF IInv, TurnTyped, Retire
    <2>. QED BY <1>4, <2>1, RoutingSound
<1>. QED BY <1>1, <1>2, <1>3, <1>4, <1>5, AloneKeeps DEF IInv, TInv

LEMMA TellsCloseOld ==
    ASSUME IInv, TInv, SInv, NEW t \in Turn, CloseOld(t)
    PROVE  TInv' /\ SInv'
<1>1. HostTyped'
    BY FaultBound DEF IInv, TInv, HostTyped, Outcome, Others, stopVars, CloseOld
<1>2. RunnerTyped'
    BY DEF TInv, RunnerTyped, CloseOld
<1>3. Named'
    BY NamedKeeps DEF IInv, TInv, Others, CloseOld
<1>4. Alone(t) /\ DeadRow'
    BY DEF IInv, TInv, TurnTyped, OwnersTyped, HostTyped, RunnerTyped, Runner, Alone,
       Opener, SInv, DeadRow, Others, CloseOld
<1>5. Sound(t)'
    <2>1. UNCHANGED waiter
          /\ \/ turn'[t].at \in {"posting", "invoked", "probe", "retire", "close", "end", "tell"}
             \/ turn'[t] = [at |-> "open", on |-> t]
        BY DEF IInv, TurnTyped, CloseOld
    <2>. QED BY <1>4, <2>1, RoutingSound
<1>. QED BY <1>1, <1>2, <1>3, <1>4, <1>5, AloneKeeps DEF IInv, TInv

LEMMA TellsEndOldFails ==
    ASSUME IInv, TInv, SInv, NEW t \in Turn, EndOldFails(t)
    PROVE  TInv' /\ SInv'
<1>1. HostTyped'
    BY FaultBound DEF IInv, TInv, HostTyped, Outcome, Others, stopVars, EndOldFails
<1>2. RunnerTyped'
    BY DEF TInv, RunnerTyped, EndOldFails
<1>3. Named'
    BY NamedKeeps DEF IInv, TInv, Others, EndOldFails
<1>4. Alone(t) /\ DeadRow'
    BY DEF IInv, TInv, TurnTyped, OwnersTyped, HostTyped, RunnerTyped, Runner, Alone,
       Opener, SInv, DeadRow, Others, EndOldFails
<1>5. Sound(t)'
    <2>1. UNCHANGED waiter
          /\ \/ turn'[t].at \in {"posting", "invoked", "probe", "retire", "close", "end", "tell"}
             \/ turn'[t] = [at |-> "open", on |-> t]
        BY DEF IInv, TurnTyped, EndOldFails
    <2>. QED BY <1>4, <2>1, RoutingSound
<1>. QED BY <1>1, <1>2, <1>3, <1>4, <1>5, AloneKeeps DEF IInv, TInv

LEMMA TellsOpened ==
    ASSUME IInv, TInv, SInv, NEW t \in Turn, Opened(t)
    PROVE  TInv' /\ SInv'
<1>1. HostTyped'
    BY FaultBound DEF IInv, TInv, HostTyped, Outcome, Others, stopVars, Opened
<1>2. RunnerTyped'
    BY DEF TInv, RunnerTyped, Opened
<1>3. Named'
    BY NamedKeeps DEF IInv, TInv, Others, Opened
<1>4. Alone(t) /\ DeadRow'
    <2>1. On(t) = t
        BY DEF SInv, Sound, OwnSession, Opened
    <2>2. turn' = [turn EXCEPT ![t] = [at |-> "bind", on |-> t]]
          /\ warm' = [warm EXCEPT ![t] = "quiet"]
          /\ UNCHANGED <<waiter, order, row, runner, heard>>
        BY <2>1 DEF Opened
    <2>. QED BY <2>2 DEF IInv, TurnTyped, OwnersTyped, Alone, Opener, SInv, DeadRow, Opened
<1>5. Sound(t)'
    BY DEF IInv, TInv, TurnTyped, ConvTyped, None, OwnersTyped, HostTyped, RunnerTyped,
       Runner, SInv, DeadRow, Sound, OwnSession, Waited, Waits, Told, WarmOpened, Opener,
       ToldHeard, Others, Opened
<1>. QED BY <1>1, <1>2, <1>3, <1>4, <1>5, AloneKeeps DEF IInv, TInv

\* An invoke that ends has told its client, or has completed.
LEMMA EndedSound ==
    ASSUME NEW t \in Turn, turn'[t] = [at |-> "ended", on |-> t],
           heard'[t] # "nothing" \/ waiter'[t] = "complete"
    PROVE  Sound(t)' /\ (Opener(t) => Opener(t)')
BY DEF Sound, OwnSession, Waited, Waits, Told, WarmOpened, Opener, ToldHeard

LEMMA TellsRefuse ==
    ASSUME IInv, TInv, SInv, NEW t \in Turn, Refuse(t)
    PROVE  TInv' /\ SInv'
<1>1. /\ heard' \in [Turn -> {"nothing", "reply", "error"}]
      /\ \A u \in Turn : heard[u] # "nothing" => heard'[u] # "nothing"
      /\ heard'[t] # "nothing"
    BY HearsMoves DEF TInv, Refuse
<1>2. /\ turn' = [turn EXCEPT ![t] = [at |-> "ended", on |-> t]]
      /\ UNCHANGED <<waiter, order, row, inbox, runner, warm, cancelled>>
      /\ faults' \in 0..MaxFaults
    BY FaultBound DEF TInv, HostTyped, Refuse, Ends
<1>3. TInv'
    BY <1>1, <1>2, NamedKeeps DEF IInv, TInv, HostTyped, RunnerTyped
<1>4. Sound(t)' /\ (Opener(t) => Opener(t)')
    BY <1>1, <1>2, EndedSound DEF IInv, TurnTyped
<1>5. Alone(t) /\ DeadRow'
    BY <1>1, <1>2, <1>4 DEF IInv, TurnTyped, Alone, SInv, DeadRow
<1>. QED BY <1>3, <1>4, <1>5, AloneKeeps DEF IInv

LEMMA TellsEndOld ==
    ASSUME IInv, TInv, SInv, NEW t \in Turn, EndOld(t)
    PROVE  TInv' /\ SInv'
<1>1. /\ On(t) \in Turn
      /\ turn' = [turn EXCEPT ![t] = [at |-> "tell", on |-> On(t)]]
      /\ row' = [row EXCEPT ![On(t)] = "ended"] /\ inbox' = [inbox EXCEPT ![On(t)] = <<>>]
      /\ UNCHANGED <<waiter, order, runner, warm, cancelled, heard, faults>>
    BY DEF IInv, TurnTyped, EndOld, EndSession
<1>2. TInv'
    BY <1>1, NamedKeeps DEF IInv, TInv, HostTyped, RunnerTyped
<1>3. Alone(t) /\ DeadRow'
    BY <1>1 DEF EndOld, IInv, TInv, TurnTyped, HostTyped, Alone, Opener, SInv, DeadRow
<1>4. Sound(t)'
    BY <1>1, <1>3, RoutingSound DEF IInv, TurnTyped
<1>. QED BY <1>2, <1>3, <1>4, AloneKeeps DEF IInv

LEMMA TellsTellOld ==
    ASSUME IInv, TInv, SInv, NEW t \in Turn, TellOld(t)
    PROVE  TInv' /\ SInv'
<1>1. /\ turn' = [turn EXCEPT ![t] = [at |-> "open", on |-> t]]
      /\ UNCHANGED <<waiter, order, row, inbox, runner, warm, cancelled, faults>>
    BY DEF TellOld, Others
<1>2. /\ heard' \in [Turn -> {"nothing", "reply", "error"}]
      /\ \A u \in Turn : heard[u] # "nothing" => heard'[u] # "nothing"
    BY AnnounceMoves DEF IInv, TurnTyped, TInv, TellOld
<1>3. TInv'
    BY <1>1, <1>2, NamedKeeps DEF IInv, TInv, HostTyped, RunnerTyped
<1>4. Alone(t) /\ DeadRow'
    BY <1>1, <1>2 DEF TellOld, IInv, TurnTyped, Alone, Opener, SInv, DeadRow
<1>5. Sound(t)'
    BY <1>1, <1>4, RoutingSound DEF IInv, TurnTyped
<1>. QED BY <1>3, <1>4, <1>5, AloneKeeps DEF IInv

LEMMA TellsOpenProxy ==
    ASSUME IInv, TInv, SInv, NEW t \in Turn, OpenProxy(t)
    PROVE  TInv' /\ SInv'
<1>1. On(t) = t
    BY DEF SInv, Sound, OwnSession, OpenProxy
<1>2. /\ turn' = [turn EXCEPT ![t] = [at |-> "spawn", on |-> t]]
      /\ UNCHANGED <<row, inbox, runner, warm, cancelled, heard, faults>>
    BY <1>1 DEF OpenProxy, Others
<1>3. /\ waiter' = [waiter EXCEPT ![t] = "open"]
      /\ order' \in [Turn -> Seq(Turn)]
      /\ \A u \in Turn : Range(order'[u]) =
             IF u = t THEN Range(order[u]) \union {t} ELSE Range(order[u])
    BY RegisterKeeps DEF TInv, OpenProxy
<1>4. TInv'
    BY <1>2, <1>3, NamedKeeps DEF IInv, TInv, HostTyped, Outcome, RunnerTyped
<1>5. Alone(t) /\ DeadRow'
    BY <1>2, <1>3 DEF OpenProxy, IInv, TInv, TurnTyped, HostTyped, Alone, Opener, SInv, DeadRow
<1>6. turn'[t] = [at |-> "spawn", on |-> t] /\ waiter'[t] = "open" /\ t \in Range(order'[t])
    BY <1>2, <1>3 DEF IInv, TInv, TurnTyped, HostTyped
<1>7. Sound(t)'
    BY <1>5, <1>6 DEF SInv, Sound, OwnSession, Waited, Waits, Told, WarmOpened, ToldHeard, Alone
<1>. QED BY <1>4, <1>5, <1>7, AloneKeeps DEF IInv

LEMMA TellsSpawn ==
    ASSUME IInv, TInv, SInv, NEW t \in Turn, Spawn(t)
    PROVE  TInv' /\ SInv'
<1>1. On(t) = t /\ waiter[t] # "none" /\ t \in Range(order[t])
    BY DEF SInv, Sound, OwnSession, Waited, Waits, Spawn
<1>2. /\ turn' = [turn EXCEPT ![t] = [at |-> "opening", on |-> t]]
      /\ row' = [row EXCEPT ![t] = "live"]
      /\ UNCHANGED <<waiter, order, inbox, warm, cancelled, heard, faults>>
    BY <1>1 DEF Spawn, Others
<1>3. PICK new \in Runner : new.up = "up" /\ Does(t, new)
    BY OffTyped DEF Spawn, Off
<1>4. TInv'
    BY <1>2, <1>3, NamedKeeps DEF IInv, TInv, HostTyped, RunnerTyped
<1>5. \A u \in Turn : runner'[u] = IF u = t THEN new ELSE runner[u]
    BY <1>3 DEF TInv, RunnerTyped
<1>6. Alone(t) /\ DeadRow'
    BY <1>2, <1>3, <1>5 DEF Spawn, IInv, TInv, TurnTyped, HostTyped, Alone, Opener, SInv, DeadRow
<1>7. turn'[t] = [at |-> "opening", on |-> t]
    BY <1>2 DEF IInv, TurnTyped
<1>8. Sound(t)'
    BY <1>1, <1>2, <1>6, <1>7 DEF SInv, Sound, OwnSession, Waited, Waits, Told, WarmOpened,
       ToldHeard, Alone
<1>. QED BY <1>4, <1>6, <1>8, AloneKeeps DEF IInv

LEMMA TellsOpenFails ==
    ASSUME IInv, TInv, SInv, NEW t \in Turn, OpenFails(t)
    PROVE  TInv' /\ SInv'
<1>1. /\ heard' \in [Turn -> {"nothing", "reply", "error"}]
      /\ \A u \in Turn : heard[u] # "nothing" => heard'[u] # "nothing"
      /\ heard'[t] # "nothing"
    BY HearsMoves DEF TInv, OpenFails
<1>2. /\ turn' = [turn EXCEPT ![t] = [at |-> "ended", on |-> t]]
      /\ UNCHANGED <<waiter, warm, cancelled>>
      /\ faults' \in 0..MaxFaults
    BY FaultBound DEF TInv, HostTyped, OpenFails, Ends
<1>3. /\ order' \in [Turn -> Seq(Turn)]
      /\ \A s \in Turn : Range(order'[s]) = Range(order[s]) \ {t}
    BY UnregisterKeeps DEF TInv, OpenFails
<1>4. /\ row' \in [Turn -> {"none", "live", "ended"}]
      /\ \A s \in Turn : row'[s] = "live" => row[s] = "live" /\ s # t
      /\ UNCHANGED inbox \/ inbox' = [inbox EXCEPT ![t] = <<>>]
    BY DEF TInv, HostTyped, OpenFails, EndSession, boxVars
<1>5. PICK new \in Runner : new.up = "told" /\ Does(t, new)
    BY OffTyped DEF OpenFails, Off
<1>6. \A u \in Turn : runner'[u] = IF u = t THEN new ELSE runner[u]
    BY <1>5 DEF TInv, RunnerTyped
<1>7. TInv'
    BY <1>1, <1>2, <1>3, <1>4, <1>5, NamedKeeps DEF IInv, TInv, HostTyped, RunnerTyped
<1>8. Sound(t)' /\ (Opener(t) => Opener(t)')
    BY <1>1, <1>2, EndedSound DEF IInv, TurnTyped
<1>9. Alone(t) /\ DeadRow'
    <2>1. \A u \in Turn \ {t} : turn'[u] = turn[u] /\ waiter'[u] = waiter[u]
        BY <1>2 DEF IInv, TurnTyped
    <2>2. DeadRow'
        BY <1>4, <1>6 DEF SInv, DeadRow
    <2>3. ~Opener(t)
        BY DEF OpenFails, Opener
    <2>4. \A u \in Turn : runner'[u].up = "told" => runner[u].up = "told" \/ ~Opener(u)
        BY <1>6, <2>3
    <2>5. Opener(t) => Opener(t)'
        BY <1>8
    <2>6. Alone(t)
        BY <1>1, <1>2, <1>3, <2>1, <2>4, <2>5 DEF Alone
    <2>. QED BY <2>2, <2>6
<1>. QED BY <1>7, <1>8, <1>9, AloneKeeps DEF IInv

LEMMA TellsBind ==
    ASSUME IInv, TInv, SInv, NEW t \in Turn, Bind(t)
    PROVE  TInv' /\ SInv'
<1>. DEFINE s == On(t)
<1>1. s \in Turn /\ Opener(s) /\ (s = t => waiter[t] # "none" /\ t \in Range(order[t]))
    BY DEF IInv, TurnTyped, SInv, Sound, WarmOpened, Waited, Waits, Bind
<1>2. /\ turn' = [turn EXCEPT ![t] = [at |-> "queue", on |-> s]]
      /\ UNCHANGED <<row, inbox, runner, warm, cancelled, heard>>
      /\ faults' \in 0..MaxFaults
    BY FaultBound DEF TInv, HostTyped, Bind, Others
<1>3. /\ waiter' = waiter \/ waiter' = [waiter EXCEPT ![t] = "open"]
      /\ order' \in [Turn -> Seq(Turn)]
      /\ \A u, v \in Turn : v \in Range(order[u]) => v \in Range(order'[u])
      /\ waiter'[t] # "none" /\ t \in Range(order'[s])
      /\ waiter'[t] = "terminated" => waiter[t] = "terminated"
    <2>1. CASE s = t
        BY <1>1, <2>1 DEF Bind, TInv, HostTyped
    <2>2. CASE s # t
        <3>1. Register(t, s)
            BY <2>2 DEF Bind
        <3>2. /\ waiter' = [waiter EXCEPT ![t] = "open"]
              /\ order' \in [Turn -> Seq(Turn)]
              /\ \A u \in Turn : Range(order'[u]) =
                     IF u = s THEN Range(order[u]) \union {t} ELSE Range(order[u])
            BY <1>1, <3>1, RegisterKeeps DEF TInv
        <3>3. waiter'[t] = "open"
            BY <3>2 DEF TInv, HostTyped
        <3>. QED BY <1>1, <3>2, <3>3
    <2>. QED BY <2>1, <2>2
<1>4. TInv'
    BY <1>2, <1>3, NamedKeeps DEF IInv, TInv, HostTyped, Outcome, RunnerTyped
<1>5. Alone(t) /\ DeadRow'
    BY <1>2, <1>3 DEF IInv, TInv, TurnTyped, HostTyped, Alone, Opener, SInv, DeadRow
<1>6. turn'[t] = [at |-> "queue", on |-> s] /\ Opener(s)'
    BY <1>1, <1>2 DEF IInv, TurnTyped, Opener
<1>7. Sound(t)'
    BY <1>2, <1>3, <1>5, <1>6 DEF SInv, Sound, OwnSession, Waited, Waits, Told, WarmOpened,
       ToldHeard, Opener
<1>. QED BY <1>4, <1>5, <1>7, AloneKeeps DEF IInv

\* Queueing succeeds for a live session only: its end is still to be announced.
LEMMA TellsQueue ==
    ASSUME IInv, TInv, SInv, NEW t \in Turn, Queue(t)
    PROVE  TInv' /\ SInv'
<1>. DEFINE s == On(t)
<1>1. s \in Turn /\ Opener(s) /\ waiter[t] # "none" /\ t \in Range(order[s])
      /\ runner[s].up # "told"
    BY DEF IInv, TurnTyped, SInv, Sound, WarmOpened, Waited, Waits, DeadRow, Queue
<1>2. /\ turn' = [turn EXCEPT ![t] = [at |-> "queued", on |-> s]]
      /\ Put(s, "message", t)
      /\ UNCHANGED <<waiter, order, row, runner, warm, cancelled, heard, faults>>
    BY DEF Queue
<1>3. TInv'
    <2>1. t \in None
        BY DEF None
    <2>. QED BY <1>1, <1>2, <2>1, NamedKeeps DEF IInv, TInv, HostTyped, RunnerTyped
<1>4. Alone(t) /\ DeadRow'
    BY <1>2 DEF IInv, TurnTyped, Alone, Opener, SInv, DeadRow
<1>5. turn'[t] = [at |-> "queued", on |-> s] /\ Opener(s)'
    BY <1>1, <1>2 DEF IInv, TurnTyped, Opener
<1>6. Sound(t)'
    <2>1. /\ turn'[t].at = "queued" /\ On(t)' = s
          /\ waiter'[t] # "none" /\ t \in Range(order'[s])
          /\ runner'[s].up # "told"
        BY <1>1, <1>2, <1>5
    <2>2. OwnSession(t)'
        BY <2>1 DEF OwnSession
    <2>3. Waited(t)'
        BY <2>1 DEF Waited
    <2>4. Told(t)'
        BY <1>2, <2>1 DEF SInv, Sound, Told
    <2>5. WarmOpened(t)'
        <3>1. Opener(t)'
            BY <2>1 DEF Opener
        <3>. QED BY <1>5, <2>1, <3>1 DEF WarmOpened
    <2>6. ToldHeard(t)'
        BY <2>1 DEF ToldHeard
    <2>. QED BY <2>2, <2>3, <2>4, <2>5, <2>6 DEF Sound
<1>. QED BY <1>3, <1>4, <1>6, AloneKeeps DEF IInv

LEMMA TellsQueueFails ==
    ASSUME IInv, TInv, SInv, NEW t \in Turn, QueueFails(t)
    PROVE  TInv' /\ SInv'
<1>1. /\ heard' \in [Turn -> {"nothing", "reply", "error"}]
      /\ \A u \in Turn : heard[u] # "nothing" => heard'[u] # "nothing"
      /\ heard'[t] # "nothing"
    BY HearsMoves DEF TInv, QueueFails
<1>2. /\ turn' = [turn EXCEPT ![t] = [at |-> "ended", on |-> t]]
      /\ UNCHANGED <<waiter, row, inbox, warm, cancelled>>
      /\ faults' \in 0..MaxFaults
    BY FaultBound DEF TInv, HostTyped, QueueFails, Ends
<1>3. /\ order' \in [Turn -> Seq(Turn)]
      /\ \A s \in Turn : Range(order'[s]) = Range(order[s]) \ {t}
    BY UnregisterKeeps DEF TInv, QueueFails
<1>4. RunnerTyped' /\ \A u \in Turn : runner'[u].up = runner[u].up \/ runner'[u].up = "gone"
    BY ExitsKeeps DEF TInv, QueueFails
<1>5. TInv'
    BY <1>1, <1>2, <1>3, <1>4, NamedKeeps DEF IInv, TInv, HostTyped
<1>6. Sound(t)' /\ (Opener(t) => Opener(t)')
    BY <1>1, <1>2, EndedSound DEF IInv, TurnTyped
<1>7. Alone(t) /\ DeadRow'
    BY <1>1, <1>2, <1>3, <1>4, <1>6 DEF IInv, TurnTyped, Alone, SInv, DeadRow
<1>. QED BY <1>5, <1>6, <1>7, AloneKeeps DEF IInv

\* An invoke starts to wait, or goes on with the outcome it has.
LEMMA AwaitsKeeps ==
    ASSUME IInv, TInv, SInv, NEW t \in Turn, turn[t].at \in {"queued", "stop"}, Awaits(t),
           UNCHANGED <<waiter, row, runner, warm, heard>>
    PROVE  SInv' /\ order' \in [Turn -> Seq(Turn)]
<1>. DEFINE s == On(t)
<1>1. /\ s \in Turn /\ Opener(s) /\ Opener(t)
      /\ waiter[t] # "none" /\ t \in Range(order[s])
      /\ waiter[t] = "terminated" => heard[t] # "nothing"
      /\ runner[s].up = "told" /\ waiter[t] = "open" => heard[t] # "nothing"
    BY DEF IInv, TurnTyped, SInv, Sound, WarmOpened, Waited, Waits, Told, ToldHeard, Opener
<1>2. CASE waiter[t] = "open"
    <2>1. turn' = [turn EXCEPT ![t] = [at |-> "await", on |-> s]] /\ UNCHANGED order
        BY <1>2 DEF Awaits
    <2>2. Alone(t) /\ DeadRow'
        BY <2>1 DEF IInv, TurnTyped, Alone, Opener, SInv, DeadRow
    <2>3. turn'[t] = [at |-> "await", on |-> s] /\ Opener(s)' /\ Opener(t)'
        BY <1>1, <2>1 DEF IInv, TurnTyped, Opener
    <2>4. Sound(t)'
        BY <1>1, <1>2, <2>1, <2>3 DEF Sound, OwnSession, Waited, Waits, Told, WarmOpened, ToldHeard
    <2>. QED BY <2>1, <2>2, <2>4, AloneKeeps DEF IInv, TInv, HostTyped
<1>3. CASE waiter[t] # "open"
    <2>1. /\ turn' = [turn EXCEPT ![t] = Over(t, waiter[t])]
          /\ order' \in [Turn -> Seq(Turn)]
          /\ \A u \in Turn : Range(order'[u]) = Range(order[u]) \ {t}
        BY <1>3, UnregisterKeeps DEF Awaits, TInv
    <2>2. PICK pc \in {"ended", "kill"} : /\ Over(t, waiter[t]) = [at |-> pc, on |-> t]
                                          /\ pc = "kill" => waiter[t] # "complete"
        BY DEF Over
    <2>3. waiter[t] \in {"complete", "terminated"}
        BY <1>1, <1>3 DEF TInv, HostTyped, Outcome
    <2>4. turn'[t] = [at |-> pc, on |-> t]
        BY <2>1, <2>2 DEF IInv, TurnTyped
    <2>5. Alone(t) /\ DeadRow'
        BY <2>1, <2>4 DEF IInv, TurnTyped, Alone, Opener, SInv, DeadRow
    <2>6. Sound(t)'
        BY <1>1, <2>2, <2>3, <2>4 DEF Sound, OwnSession, Waited, Waits, Told, WarmOpened,
           ToldHeard, Opener
    <2>. QED BY <2>1, <2>5, <2>6, AloneKeeps DEF IInv
<1>. QED BY <1>2, <1>3

LEMMA TellsAfterQueued ==
    ASSUME IInv, TInv, SInv, NEW t \in Turn, AfterQueued(t)
    PROVE  TInv' /\ SInv'
<1>1. UNCHANGED <<waiter, row, inbox, runner, warm, cancelled, heard, faults>>
    BY DEF AfterQueued, Others
<1>2. SInv' /\ order' \in [Turn -> Seq(Turn)]
    <2>1. CASE t \in stopRequested
        <3>. DEFINE s == On(t)
        <3>1. turn' = [turn EXCEPT ![t] = [at |-> "stop", on |-> s]] /\ UNCHANGED order
            BY <2>1 DEF AfterQueued
        <3>2. At(t, "queued") /\ Sound(t) /\ s \in Turn /\ Opener(s)
            BY DEF IInv, TurnTyped, SInv, Sound, WarmOpened, AfterQueued
        <3>3. Alone(t) /\ DeadRow'
            BY <1>1, <3>1, <3>2 DEF IInv, TurnTyped, Alone, Opener, SInv, DeadRow
        <3>4. turn'[t] = [at |-> "stop", on |-> s] /\ Opener(s)' /\ Opener(t)'
            BY <3>1, <3>2 DEF IInv, TurnTyped, Opener
        <3>5. Sound(t)'
            BY <1>1, <3>1, <3>2, <3>4 DEF Sound, OwnSession, Waited, Waits, Told, WarmOpened,
               ToldHeard
        <3>. QED BY <3>1, <3>3, <3>5, AloneKeeps DEF IInv, TInv, HostTyped
    <2>2. CASE t \notin stopRequested
        BY <1>1, <2>2, AwaitsKeeps DEF AfterQueued
    <2>. QED BY <2>1, <2>2
<1>3. TInv'
    BY <1>1, <1>2, NamedKeeps DEF IInv, TInv, HostTyped, RunnerTyped
<1>. QED BY <1>2, <1>3

LEMMA TellsQueueStop ==
    ASSUME IInv, TInv, SInv, NEW t \in Turn, QueueStop(t)
    PROVE  TInv' /\ SInv'
<1>1. UNCHANGED <<waiter, row, runner, warm, cancelled, heard, faults>>
      /\ (UNCHANGED inbox \/ Put(On(t), "stop", t)) /\ On(t) \in Turn /\ t \in None
    BY DEF IInv, TurnTyped, QueueStop, None
<1>2. SInv' /\ order' \in [Turn -> Seq(Turn)]
    BY <1>1, AwaitsKeeps DEF QueueStop
<1>3. Named'
    BY <1>1, NamedKeeps DEF IInv, TInv
<1>4. TInv'
    BY <1>1, <1>2, <1>3 DEF TInv, HostTyped, RunnerTyped
<1>. QED BY <1>2, <1>4

LEMMA TellsTimeout ==
    ASSUME IInv, TInv, SInv, NEW t \in Turn, Timeout(t) \/ ExitSeen(t)
    PROVE  TInv' /\ SInv'
<1>1. /\ At(t, "await") /\ Settle({t}, "terminated") /\ Hears({t}, "error")
      /\ UNCHANGED <<row, inbox, runner, warm, cancelled, faults>>
    BY DEF Timeout, ExitSeen, Others
<1>2. waiter[t] = "open"
    BY <1>1 DEF SInv, Sound, Waited
<1>3. /\ heard' \in [Turn -> {"nothing", "reply", "error"}]
      /\ \A u \in Turn : heard[u] # "nothing" => heard'[u] # "nothing"
      /\ heard'[t] # "nothing"
    BY <1>1, HearsMoves DEF TInv
<1>4. TInv'
    BY <1>1, <1>3, SettleMoves, NamedKeeps DEF IInv, TInv, HostTyped, RunnerTyped
<1>5. Calm
    BY <1>1, <1>3 DEF Calm
<1>6. SInv'
    BY <1>1, <1>2, <1>3, <1>5, SettledKeeps DEF IInv, TInv
<1>. QED BY <1>4, <1>6

LEMMA TellsKill ==
    ASSUME IInv, TInv, SInv, NEW t \in Turn, Kill(t)
    PROVE  TInv' /\ SInv'
<1>1. /\ turn' = [turn EXCEPT ![t] = [at |-> "ended", on |-> t]]
      /\ UNCHANGED <<waiter, order, row, inbox, warm, cancelled, heard, faults>>
    BY DEF Kill, Ends
<1>2. heard[t] # "nothing"
    BY DEF SInv, Sound, Waited, Told, Kill
<1>3. RunnerTyped' /\ \A u \in Turn : runner'[u].up = runner[u].up \/ runner'[u].up = "gone"
    BY ExitsKeeps DEF TInv, Kill
<1>4. TInv'
    BY <1>1, <1>3, NamedKeeps DEF IInv, TInv, HostTyped
<1>5. Sound(t)' /\ (Opener(t) => Opener(t)')
    BY <1>1, <1>2, EndedSound DEF IInv, TurnTyped
<1>6. Alone(t) /\ DeadRow'
    BY <1>1, <1>3, <1>5 DEF IInv, TurnTyped, Alone, SInv, DeadRow
<1>. QED BY <1>4, <1>5, <1>6, AloneKeeps DEF IInv

LEMMA TellsStops ==
    ASSUME IInv, TInv, SInv, StopReads \/ StopProbes \/ StopActs
    PROVE  TInv' /\ SInv'
<1>1. UNCHANGED <<turn, waiter, order, row, runner, warm, cancelled, heard, faults>>
    BY DEF StopReads, StopProbes, StopActs, boxVars
<1>2. Named'
    <2>1. CASE UNCHANGED inbox
        BY <2>1, NamedKeeps DEF IInv, TInv
    <2>2. CASE StopActs /\ ~(UNCHANGED inbox)
        <3>1. stop.session \in Turn /\ stop.req \in None /\ Put(stop.session, "stop", stop.req)
            BY <2>2 DEF StopActs, IInv, StopTyped, StopsBound, None
        <3>. QED BY <3>1, NamedKeeps DEF IInv, TInv
    <2>. QED BY <2>1, <2>2 DEF StopReads, StopProbes, boxVars
<1>3. TInv'
    BY <1>1, <1>2 DEF TInv, HostTyped, RunnerTyped
<1>4. Calm
    BY <1>1 DEF Calm
<1>. QED BY <1>1, <1>3, <1>4, StandsKeeps DEF IInv

LEMMA InitTells == ASSUME Init PROVE TInv /\ SInv
<1>1. <<>> \in Seq(Turn)
    OBVIOUS
<1>2. TInv
    BY <1>1, FaultBound DEF Init, TInv, HostTyped, Outcome, RunnerTyped, Runner, Off, None, Named
<1>3. DeadRow
    BY DEF Init, DeadRow, Off
<1>4. ASSUME NEW t \in Turn PROVE Sound(t)
    BY DEF Init, Sound, OwnSession, Waited, Waits, Told, WarmOpened, ToldHeard
<1>. QED BY <1>2, <1>3, <1>4 DEF SInv

LEMMA SessionTells ==
    ASSUME IInv, TInv, SInv, NEW s \in Turn, SessionStep(s)
    PROVE  TInv' /\ SInv'
BY TellsRead, TellsConsume, TellsChunk, TellsEndTool, TellsEndTurn, TellsIdleFloor, TellsDrain,
   TellsLoopFails, TellsLeave, TellsCrash, TellsExitEnds, TellsExitTells, TellsWarmGone,
   TellsIdleTimer, TellsGraceTimer, Zenon DEF SessionStep

LEMMA InvokeTells ==
    ASSUME IInv, TInv, SInv, NEW t \in Turn, InvokeStep(t)
    PROVE  TInv' /\ SInv'
<1>1. CASE Routing(t)
    BY <1>1, TellsLookup, TellsProbe, TellsRefresh, TellsRetire, TellsCloseOld, TellsEndOld,
       TellsTellOld, Zenon DEF Routing
<1>2. CASE ~Routing(t)
    BY <1>2, TellsPostBinds, TellsOpenProxy, TellsSpawn, TellsOpened, TellsBind, TellsQueue,
       TellsQueueFails, TellsAfterQueued, TellsQueueStop, TellsTimeout, TellsKill,
       Zenon DEF InvokeStep
<1>. QED BY <1>1, <1>2

LEMMA NextTells == ASSUME IInv, TInv, SInv, [Next]_vars PROVE TInv' /\ SInv'
<1>1. CASE \E t \in Turn : Post(t) \/ InvokeStep(t) \/ Refuse(t) \/ LookupFails(t)
                          \/ EndOldFails(t) \/ OpenFails(t) \/ SessionStep(t)
    BY <1>1, TellsPost, InvokeTells, TellsRefuse, TellsLookupFails, TellsEndOldFails,
       TellsOpenFails, SessionTells, Zenon
<1>2. CASE StopReads \/ StopProbes \/ StopActs
    BY <1>2, TellsStops
<1>3. CASE UNCHANGED vars
    <2>1. TInv'
        BY <1>3 DEF vars, stopVars, TInv, HostTyped, RunnerTyped, Named
    <2>2. UNCHANGED <<turn, waiter, order>> /\ Calm
        BY <1>3 DEF vars, stopVars, Calm
    <2>. QED BY <2>1, <2>2, StandsKeeps DEF IInv
<1>. QED BY <1>1, <1>2, <1>3 DEF Next

LEMMA InductiveTells == Spec => [](IInv /\ TInv /\ SInv)
<1>1. Init => IInv /\ TInv /\ SInv
    BY InitIInv, InitTells
<1>2. IInv /\ TInv /\ SInv /\ [Next]_vars => (IInv /\ TInv /\ SInv)'
    BY NextIInv, NextTells
<1>. QED BY <1>1, <1>2, PTL DEF Spec

\* The types of ChatTurn, of what is in the runners' queues and the inboxes too.
THEOREM TurnTypesHold == Spec => []TypeOK
<1>1. ASSUME IInv, TInv PROVE TypeOK
    <2>1. \A q \in Seq(Turn) : Range(q) \subseteq Turn
        BY DEF Range
    <2>2. \A q \in Seq(Entry) : Range(q) \subseteq Entry
        BY DEF Range
    <2>3. \A s \in Turn : runner[s] \in Runner
        BY <1>1 DEF TInv, RunnerTyped
    <2>. QED BY <1>1, <2>1, <2>2, <2>3 DEF IInv, TInv, HostTyped, Outcome, Runner, TurnTyped,
         ConvTyped, OwnersTyped, StopTyped, InboxTyped, TypeOK
<1>. QED BY <1>1, InductiveTells, PTL

\* A turn that does not complete is never silent: whatever ended it (a refusal, a
\* failed call, a crash, a timeout, the end of its session) showed its client an error.
THEOREM EveryEndIsTold == Spec => []NoSilentEnd
<1>1. ASSUME SInv PROVE NoSilentEnd
    BY <1>1 DEF SInv, Sound, Waited, Told, ToldHeard, NoSilentEnd
<1>. QED BY <1>1, InductiveTells, PTL
=============================================================================
