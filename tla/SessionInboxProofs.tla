------------------------- MODULE SessionInboxProofs -------------------------
(***************************************************************************)
(* Proofs about the session inbox, for any number of hosts, entries and    *)
(* polls, any number of faults and of attempts: the cursors are dense, and *)
(* the inbox implements the mailbox.                                       *)
(***************************************************************************)
EXTENDS SessionInboxRefinement, FiniteSetTheorems, SequenceTheorems, TLAPS

\* The number of rows.
Count == Cardinality(DOMAIN inbox)

\* What the rows, calls, claims and the runner look like.
Shapes ==
  /\ \A c \in DOMAIN inbox : inbox[c] \in Entry
  /\ calls \in [Entry -> CallState]
  /\ claims \in [Poll -> ClaimState]
  /\ runner \in RunnerState

Dense == Count \in Nat /\ DOMAIN inbox = 0..(Count - 1)

\* A cursor some call is about to insert is a used one or the next.
ReadCursors == \A e \in Entry : calls[e].pc = "insert" => calls[e].next \in 0..Count

Pending == {"idle", "max", "insert"}

\* An entry whose call has not inserted it stands nowhere.
NotYetPosted ==
  \A e \in Entry : calls[e].pc \in Pending => \A c \in DOMAIN inbox : inbox[c] # e

\* The answer is an entry only if it stands at the cursor that was asked for.
Right(cursor, answer) ==
  answer \in Entry => cursor \in DOMAIN inbox /\ inbox[cursor] = answer

RightAnswers == \A p \in Poll : Right(claims[p].cursor, claims[p].answer)

\* The runner's poll asks for the runner's cursor.
PollAsks == runner.poll # Null => claims[runner.poll].cursor = runner.cursor

\* What the runner has is the inbox up to its cursor.
ReceivedSoFar ==
  /\ runner.cursor \in 0..Count
  /\ Len(runner.received) = runner.cursor
  /\ \A i \in 1..runner.cursor : runner.received[i] = inbox[i - 1]

IInv ==
  /\ Shapes
  /\ Dense
  /\ ReadCursors
  /\ NotYetPosted
  /\ RightAnswers
  /\ PollAsks
  /\ ReceivedSoFar

-----------------------------------------------------------------------------
(* What a step may do to the calls and the claims without any harm.        *)

CallsGoOn ==
  /\ calls' \in [Entry -> CallState]
  /\ \A e \in Entry :
       /\ calls'[e].pc \in Pending => calls[e].pc \in Pending
       /\ calls'[e].pc = "insert" => \/ calls[e].pc = "insert" /\ calls'[e].next = calls[e].next
                                     \/ calls'[e].next = Count

ClaimsGoOn ==
  /\ claims' \in [Poll -> ClaimState]
  /\ \A p \in Poll :
       \/ claims'[p].answer \notin Entry
       \/ claims'[p].cursor = claims[p].cursor /\ claims'[p].answer = claims[p].answer
       \/ Right(claims'[p].cursor, claims'[p].answer)

PollGoesOn ==
  runner.poll # Null => claims'[runner.poll].cursor = claims[runner.poll].cursor

LEMMA SameCalls ==
  ASSUME IInv, UNCHANGED calls
  PROVE  CallsGoOn
BY DEF IInv, Shapes, CallsGoOn

LEMMA SameClaims ==
  ASSUME IInv, UNCHANGED claims
  PROVE  ClaimsGoOn /\ PollGoesOn
BY DEF IInv, Shapes, ClaimsGoOn, PollGoesOn

LEMMA Onward ==
  ASSUME IInv, UNCHANGED inbox, CallsGoOn, ClaimsGoOn, PollAsks',
         runner' \in RunnerState,
         runner'.cursor = runner.cursor, runner'.received = runner.received
  PROVE  IInv'
<1>1. Shapes' /\ Dense' /\ ReceivedSoFar'
  BY DEF IInv, Shapes, Dense, ReceivedSoFar, CallsGoOn, ClaimsGoOn, Count
<1>2. ReadCursors'
  BY DEF IInv, Dense, ReadCursors, CallsGoOn, Count
<1>3. NotYetPosted'
  BY DEF IInv, NotYetPosted, CallsGoOn
<1>4. RightAnswers'
  BY DEF IInv, RightAnswers, Right, ClaimsGoOn
<1> QED BY <1>1, <1>2, <1>3, <1>4 DEF IInv

LEMMA GoingOn ==
  ASSUME IInv, UNCHANGED <<inbox, runner>>, CallsGoOn, ClaimsGoOn, PollGoesOn
  PROVE  IInv'
<1>1. PollAsks'
  BY DEF IInv, PollAsks, PollGoesOn
<1>2. runner' \in RunnerState
  BY DEF IInv, Shapes
<1> QED BY <1>1, <1>2, Onward

-----------------------------------------------------------------------------
(* Cursors.                                                                *)

LEMMA NextIsCount ==
  ASSUME Dense
  PROVE  nextCursor(inbox) = Count
<1>1. CASE Count = 0
  BY <1>1 DEF Dense, nextCursor
<1>2. CASE Count # 0
  <2>1. DOMAIN inbox # {} /\ Count - 1 \in DOMAIN inbox
    BY <1>2 DEF Dense
  <2>2. ASSUME NEW c \in DOMAIN inbox
        PROVE  (\A d \in DOMAIN inbox : d <= c) <=> c = Count - 1
    <3>1. ASSUME \A d \in DOMAIN inbox : d <= c PROVE c = Count - 1
      BY <2>1, <3>1 DEF Dense
    <3>2. ASSUME c = Count - 1 PROVE \A d \in DOMAIN inbox : d <= c
      BY <3>2 DEF Dense
    <3> QED BY <3>1, <3>2
  <2>3. (CHOOSE c \in DOMAIN inbox : \A d \in DOMAIN inbox : d <= c) = Count - 1
    BY <2>1, <2>2
  <2> QED BY <2>1, <2>3, <1>2 DEF nextCursor, Dense
<1> QED BY <1>1, <1>2

LEMMA RowAdded ==
  ASSUME Dense, NEW c \in 0..Count, ~CursorTaken(inbox, c),
         DOMAIN inbox' = DOMAIN inbox \union {c}
  PROVE  c = Count /\ Dense' /\ Count' = Count + 1
<1>1. c = Count
  BY DEF Dense, CursorTaken
<1>2. DOMAIN inbox' = 0..Count
  BY <1>1 DEF Dense
<1>3. Count' = Count + 1
  <2>1. Count \in Nat
    BY DEF Dense
  <2>2. Cardinality(0..Count) = Count + 1
    BY <2>1, FS_Interval
  <2> QED BY <1>2, <2>2 DEF Count
<1> QED BY <1>1, <1>2, <1>3 DEF Dense

LEMMA InitIInv == Init => IInv
<1> SUFFICES ASSUME Init PROVE IInv
  OBVIOUS
<1>1. DOMAIN inbox = {}
  BY DEF Init
<1>2. Count = 0
  BY <1>1, FS_EmptySet DEF Count
<1>3. Dense
  BY <1>1, <1>2 DEF Dense
<1>4. Shapes
  BY <1>1 DEF Init, Shapes, CallState, IdleCall, ClaimState, IdleClaim, RunnerState
<1>5. ReadCursors /\ NotYetPosted
  BY <1>1 DEF Init, ReadCursors, NotYetPosted, IdleCall
<1>6. RightAnswers
  BY InboxNullAssumption DEF Init, RightAnswers, Right, IdleClaim
<1>7. PollAsks
  BY DEF Init, PollAsks
<1>8. ReceivedSoFar
  BY <1>2 DEF Init, ReceivedSoFar
<1> QED BY <1>3, <1>4, <1>5, <1>6, <1>7, <1>8 DEF IInv

-----------------------------------------------------------------------------
(* The steps of a queue and of a terminate.                                *)

LEMMA QueueStep ==
  ASSUME IInv, NEW e \in Entry, Queue(e)
  PROVE  IInv'
<1>0. calls \in [Entry -> CallState]
  BY DEF IInv, Shapes
<1>1. ASSUME NEW h \in Host, QueueStart(e, h) PROVE IInv'
  <2>1. CallsGoOn
    BY <1>0, <1>1, ZenonT(30) DEF QueueStart, CallsGoOn, CallState, Pending
  <2> QED BY <1>1, <2>1, SameClaims, GoingOn DEF QueueStart
<1>2. CASE QueueRead(e)
  <2>1. nextCursor(inbox) = Count /\ Count \in Nat
    BY NextIsCount DEF IInv, Dense
  <2>2. CallsGoOn
    BY <1>0, <1>2, <2>1, ZenonT(30) DEF QueueRead, CallsGoOn, CallState, Pending
  <2> QED BY <1>2, <2>2, SameClaims, GoingOn DEF QueueRead
<1>3. CASE QueueInsert(e)
  <2> DEFINE c == calls[e].next
  <2>1. c \in 0..Count /\ DOMAIN inbox' = DOMAIN inbox \union {c}
    BY <1>3 DEF QueueInsert, IInv, ReadCursors
  <2>2. c = Count /\ Dense' /\ Count' = Count + 1
    BY <1>3, <2>1, RowAdded DEF QueueInsert, IInv
  <2>3. inbox'[c] = e /\ \A d \in DOMAIN inbox : inbox'[d] = inbox[d]
    BY <1>3, <2>1 DEF QueueInsert, CursorTaken
  <2>4. /\ calls' \in [Entry -> CallState] /\ calls'[e].pc = "notify"
        /\ \A f \in Entry \ {e} : calls'[f] = calls[f]
    BY <1>0, <1>3 DEF QueueInsert, CallState
  <2>5. UNCHANGED <<claims, runner>>
    BY <1>3 DEF QueueInsert
  <2>6. Shapes'
    BY <2>1, <2>3, <2>4, <2>5 DEF IInv, Shapes
  <2>7. ReadCursors'
    BY <2>2, <2>4 DEF IInv, Dense, ReadCursors
  <2>8. NotYetPosted'
    BY <2>1, <2>3, <2>4, <1>3 DEF IInv, NotYetPosted, Pending, QueueInsert
  <2>9. RightAnswers'
    BY <2>1, <2>3, <2>5 DEF IInv, RightAnswers, Right
  <2>10. PollAsks'
    BY <2>5 DEF IInv, PollAsks
  <2>11. ReceivedSoFar'
    <3>1. /\ Count \in Nat /\ DOMAIN inbox = 0..(Count - 1)
          /\ runner.cursor \in 0..Count /\ Len(runner.received) = runner.cursor
          /\ \A i \in 1..runner.cursor : runner.received[i] = inbox[i - 1]
      BY DEF IInv, Dense, ReceivedSoFar
    <3>2. runner' = runner /\ runner.cursor \in 0..Count'
      BY <2>2, <2>5, <3>1
    <3>3. \A i \in 1..runner.cursor : i - 1 \in DOMAIN inbox
      BY <3>1
    <3>4. \A i \in 1..runner.cursor : runner.received[i] = inbox'[i - 1]
      BY <2>3, <3>1, <3>3
    <3> QED BY <3>1, <3>2, <3>4 DEF ReceivedSoFar
  <2> QED BY <2>2, <2>6, <2>7, <2>8, <2>9, <2>10, <2>11 DEF IInv
<1>4. CASE QueueConflict(e)
  <2>1. CallsGoOn
    BY <1>0, <1>4 DEF QueueConflict, CallsGoOn, CallState, Pending, Ended, IdleCall
  <2> QED BY <1>4, <2>1, SameClaims, GoingOn DEF QueueConflict
<1>5. CASE QueueNotify(e)
  <2>1. CallsGoOn
    BY <1>0, <1>5 DEF QueueNotify, CallsGoOn, CallState, Pending
  <2> QED BY <1>5, <2>1, SameClaims, GoingOn DEF QueueNotify
<1> QED BY <1>1, <1>2, <1>3, <1>4, <1>5 DEF Queue

LEMMA TerminateStep ==
  ASSUME IInv, Terminate
  PROVE  IInv'
<1>1. UNCHANGED <<inbox, runner, calls, claims>>
  BY DEF Terminate, TerminateFlag, TerminateNotify
<1> QED BY <1>1, SameCalls, SameClaims, GoingOn

-----------------------------------------------------------------------------
(* The steps of a claim and of the runner.                                 *)

LEMMA AnsweredRight ==
  ASSUME IInv, NEW p \in Poll, NEW answer \in Entry \union {"timeout", "error"},
         Answered(p, answer), Right(claims[p].cursor, answer)
  PROVE  ClaimsGoOn /\ PollGoesOn
<1>0. claims \in [Poll -> ClaimState]
  BY DEF IInv, Shapes
<1>1. /\ claims' \in [Poll -> ClaimState]
      /\ \A q \in Poll : claims'[q].cursor = claims[q].cursor
      /\ claims'[p].answer = answer
      /\ \A q \in Poll \ {p} : claims'[q].answer = claims[q].answer
  <2> DEFINE new == [claims[p] EXCEPT !.pc = "done", !.wakes = {}, !.answer = answer]
  <2>1. new \in ClaimState /\ new.cursor = claims[p].cursor /\ new.answer = answer
    BY <1>0 DEF ClaimState
  <2>2. claims' = [claims EXCEPT ![p] = new]
    BY <1>0 DEF Answered, ClaimState
  <2> HIDE DEF new
  <2> QED BY <1>0, <2>1, <2>2
<1>2. ClaimsGoOn
  BY <1>1 DEF ClaimsGoOn
<1>3. PollGoesOn
  BY <1>1 DEF PollGoesOn, IInv, Shapes, RunnerState
<1> QED BY <1>2, <1>3

LEMMA FinishedRight ==
  ASSUME IInv, NEW p \in Poll, NEW answer \in Entry \union {"timeout", "error"},
         Finish(p, answer), Right(claims[p].cursor, answer)
  PROVE  IInv'
<1>1. Answered(p, answer) /\ UNCHANGED <<inbox, runner, calls>>
  BY DEF Finish, table
<1> QED BY <1>1, AnsweredRight, SameCalls, GoingOn

LEMMA RowIsRight ==
  ASSUME IInv, NEW p \in Poll, claims[p].cursor \in DOMAIN inbox
  PROVE  /\ inbox[claims[p].cursor] \in Entry
         /\ Right(claims[p].cursor, inbox[claims[p].cursor])
BY DEF IInv, Shapes, Right

LEMMA ClockIsRight ==
  ASSUME NEW c, NEW answer \in {"timeout", "error"}
  PROVE  Right(c, answer)
BY AnswerAssumption DEF Right

\* A step of a claim that answers nothing.
LEMMA StateOnly ==
  ASSUME IInv, UNCHANGED <<inbox, runner, calls>>, claims' \in [Poll -> ClaimState],
         \A q \in Poll : /\ claims'[q].cursor = claims[q].cursor
                         /\ claims'[q].answer = claims[q].answer
  PROVE  IInv'
<1>1. ClaimsGoOn
  BY DEF ClaimsGoOn
<1>2. PollGoesOn
  BY DEF PollGoesOn, IInv, Shapes, RunnerState
<1> QED BY <1>1, <1>2, SameCalls, GoingOn

LEMMA ClaimStep ==
  ASSUME IInv, NEW p \in Poll, Claim(p)
  PROVE  IInv'
<1>0. claims \in [Poll -> ClaimState]
  BY DEF IInv, Shapes
<1>1. CASE ClaimFetch(p)
  <2>1. CASE claims[p].cursor \in DOMAIN inbox
    BY <1>1, <2>1, RowIsRight, AnsweredRight, SameCalls, GoingOn DEF ClaimFetch, table
  <2>2. CASE claims[p].cursor \notin DOMAIN inbox
    BY <1>0, <1>1, <2>2, StateOnly DEF ClaimFetch, ClaimState, table
  <2> QED BY <2>1, <2>2
<1>2. CASE ClaimCheck(p)
  <2>1. CASE terminated
    BY <1>2, <2>1, ClockIsRight, AnsweredRight, SameCalls, GoingOn DEF ClaimCheck, table
  <2>2. CASE ~terminated
    BY <1>0, <1>2, <2>2, StateOnly DEF ClaimCheck, ClaimState, table
  <2> QED BY <2>1, <2>2
<1>3. CASE ClaimBind(p)
  BY <1>0, <1>3, StateOnly DEF ClaimBind, ClaimState, table
<1>4. CASE ClaimPark(p)
  <2>1. FirstWake \in SUBSET {"fetch", "check"}
    BY DEF FirstWake
  <2>2. claims' = [claims EXCEPT ![p] = [claims[p] EXCEPT !.pc = "parked", !.wakes = FirstWake]]
    BY <1>0, <1>4 DEF ClaimPark
  <2>3. /\ claims' \in [Poll -> ClaimState]
        /\ \A q \in Poll : /\ claims'[q].cursor = claims[q].cursor
                           /\ claims'[q].answer = claims[q].answer
    <3> DEFINE new == [claims[p] EXCEPT !.pc = "parked", !.wakes = FirstWake]
    <3>1. /\ new \in ClaimState /\ new.cursor = claims[p].cursor
          /\ new.answer = claims[p].answer
      BY <1>0, <2>1 DEF ClaimState
    <3> HIDE DEF new
    <3>2. claims' = [claims EXCEPT ![p] = new]
      BY <2>2 DEF new
    <3> QED BY <1>0, <3>1, <3>2
  <2>4. UNCHANGED <<inbox, runner, calls>>
    BY <1>4 DEF ClaimPark, table
  <2> QED BY <2>3, <2>4, StateOnly
<1>5. CASE WakeFetch(p)
  <2>1. CASE claims[p].cursor \in DOMAIN inbox
    BY <1>5, <2>1, RowIsRight, FinishedRight DEF WakeFetch
  <2>2. CASE claims[p].cursor \notin DOMAIN inbox
    BY <1>0, <1>5, <2>2, StateOnly DEF WakeFetch, ClaimState, table
  <2> QED BY <2>1, <2>2
<1>6. CASE WakeCheck(p)
  <2>1. CASE terminated
    BY <1>6, <2>1, ClockIsRight, FinishedRight DEF WakeCheck
  <2>2. CASE ~terminated
    BY <1>0, <1>6, <2>2, StateOnly DEF WakeCheck, ClaimState, table
  <2> QED BY <2>1, <2>2
<1>7. CASE ClaimForgotten(p)
  <2>1. /\ claims' \in [Poll -> ClaimState] /\ claims'[p].answer = Null
        /\ \A q \in Poll \ {p} : claims'[q] = claims[q]
    BY <1>0, <1>7 DEF ClaimForgotten, ClaimState, IdleClaim
  <2>2. ClaimsGoOn
    BY <2>1, InboxNullAssumption DEF ClaimsGoOn
  <2>3. PollGoesOn
    BY <1>7, <2>1 DEF ClaimForgotten, PollGoesOn, IInv, Shapes, RunnerState
  <2> QED BY <1>7, <2>2, <2>3, SameCalls, GoingOn DEF ClaimForgotten, table
<1> QED BY <1>1, <1>2, <1>3, <1>4, <1>5, <1>6, <1>7 DEF Claim

LEMMA TimerStep ==
  ASSUME IInv, NEW p \in Poll, ClaimTimer(p)
  PROVE  IInv'
BY ClockIsRight, FinishedRight DEF ClaimTimer

LEMMA RunnerStep ==
  ASSUME IInv, Runner
  PROVE  IInv'
<1>0. claims \in [Poll -> ClaimState] /\ runner \in RunnerState
  BY DEF IInv, Shapes
<1>1. ASSUME NEW p \in Poll, NEW h \in Host, PollStart(p, h) PROVE IInv'
  <2>1. /\ runner' \in RunnerState /\ runner'.poll = p
        /\ runner'.cursor = runner.cursor /\ runner'.received = runner.received
    BY <1>0, <1>1 DEF PollStart, RunnerState
  <2>2. /\ claims' \in [Poll -> ClaimState]
        /\ claims'[p].cursor = runner.cursor /\ claims'[p].answer = Null
        /\ \A q \in Poll \ {p} : claims'[q] = claims[q]
    BY <1>0, <1>1 DEF PollStart, ClaimState, IdleClaim, RunnerState
  <2>3. ClaimsGoOn
    BY <2>2, InboxNullAssumption DEF ClaimsGoOn
  <2>4. PollAsks'
    BY <2>1, <2>2 DEF PollAsks
  <2> QED BY <1>1, <2>1, <2>3, <2>4, SameCalls, Onward DEF PollStart, table
<1>2. ASSUME NEW p \in Poll, RunnerTakes(p) PROVE IInv'
  <2>1. UNCHANGED <<inbox, calls>>
    BY <1>2 DEF RunnerTakes, table
  <2>2. /\ claims' \in [Poll -> ClaimState] /\ claims'[p].answer = Null
        /\ \A q \in Poll \ {p} : claims'[q] = claims[q]
    BY <1>0, <1>2 DEF RunnerTakes, ClaimState, IdleClaim
  <2>3. ClaimsGoOn
    BY <2>2, InboxNullAssumption DEF ClaimsGoOn
  <2>4. CASE claims[p].answer \notin Entry
    <3>1. /\ runner' \in RunnerState /\ runner'.poll = Null
          /\ runner'.cursor = runner.cursor /\ runner'.received = runner.received
      BY <1>0, <1>2, <2>4 DEF RunnerTakes, RunnerState
    <3>2. PollAsks'
      BY <3>1 DEF PollAsks
    <3> QED BY <2>1, <2>3, <3>1, <3>2, SameCalls, Onward
  <2>5. CASE claims[p].answer \in Entry
    <3>1. /\ runner' \in RunnerState /\ runner'.poll = Null
          /\ runner'.cursor = claims[p].cursor + 1
          /\ runner'.received = Append(runner.received, claims[p].answer)
      <4> DEFINE next == claims[p].cursor + 1
                 got == Append(runner.received, claims[p].answer)
      <4>1. next \in Nat
        BY <1>0 DEF ClaimState
      <4>2. got \in Seq(Entry)
        BY <1>0, <2>5 DEF RunnerState
      <4>3. runner' = [runner EXCEPT !.poll = Null, !.cursor = next, !.received = got]
        BY <1>2, <2>5 DEF RunnerTakes, advanced
      <4> HIDE DEF next, got
      <4>4. /\ runner' \in RunnerState /\ runner'.poll = Null
            /\ runner'.cursor = next /\ runner'.received = got
        BY <1>0, <4>1, <4>2, <4>3 DEF RunnerState
      <4> QED BY <4>4 DEF next, got
    <3>2. /\ claims[p].cursor = runner.cursor
          /\ runner.cursor \in DOMAIN inbox /\ inbox[runner.cursor] = claims[p].answer
      BY <1>2, <2>5, InboxNullAssumption
         DEF IInv, RunnerTakes, PollAsks, RightAnswers, Right
    <3>3. ReceivedSoFar'
      <4>1. runner'.cursor \in 0..Count /\ Count' = Count
        BY <2>1, <3>1, <3>2 DEF IInv, Dense, Count
      <4>2. /\ Len(runner'.received) = runner'.cursor
            /\ \A i \in 1..runner.cursor : runner'.received[i] = runner.received[i]
            /\ runner'.received[runner'.cursor] = claims[p].answer
        BY <1>0, <2>5, <3>1, <3>2 DEF IInv, ReceivedSoFar, RunnerState
      <4>3. \A i \in 1..runner'.cursor : runner'.received[i] = inbox[i - 1]
        BY <1>0, <3>1, <3>2, <4>2 DEF IInv, ReceivedSoFar, RunnerState
      <4> QED BY <2>1, <4>1, <4>2, <4>3 DEF ReceivedSoFar
    <3>4. Shapes' /\ Dense'
      BY <2>1, <2>2, <3>1 DEF IInv, Shapes, Dense, Count
    <3>5. ReadCursors' /\ NotYetPosted'
      BY <2>1 DEF IInv, ReadCursors, NotYetPosted, Count
    <3>6. RightAnswers'
      BY <2>1, <2>3 DEF IInv, RightAnswers, Right, ClaimsGoOn
    <3>7. PollAsks'
      BY <3>1 DEF PollAsks
    <3> QED BY <3>3, <3>4, <3>5, <3>6, <3>7 DEF IInv
  <2> QED BY <2>4, <2>5
<1>3. CASE RunnerGivesUp \/ PollTimesOut \/ RunnerExits
  <2>1. /\ runner' \in RunnerState /\ runner'.poll = Null
        /\ runner'.cursor = runner.cursor /\ runner'.received = runner.received
    BY <1>0, <1>3 DEF RunnerGivesUp, PollTimesOut, RunnerExits, RunnerState
  <2>2. UNCHANGED <<inbox, calls, claims>>
    BY <1>3 DEF RunnerGivesUp, PollTimesOut, RunnerExits, table
  <2>3. PollAsks'
    BY <2>1 DEF PollAsks
  <2> QED BY <2>1, <2>2, <2>3, SameCalls, SameClaims, Onward
<1> QED BY <1>1, <1>2, <1>3 DEF Runner, Polls

-----------------------------------------------------------------------------
(* The steps of a connection.                                              *)

LEMMA RejectedStep ==
  ASSUME IInv, NEW h \in Host, Rejected(h)
  PROVE  IInv'
<1> DEFINE failed == {p \in Poll : claims[p].pc = "listen" /\ claims[p].host = h}
           queues == {e \in Entry : calls[e].pc = "notifying" /\ calls[e].host = h}
<1>0. claims \in [Poll -> ClaimState] /\ calls \in [Entry -> CallState]
  BY DEF IInv, Shapes
<1>1. UNCHANGED <<inbox, runner>>
  BY DEF Rejected
<1>2. CallsGoOn
  <2>1. calls' = [e \in Entry |-> IF e \in queues THEN Ended("rejected") ELSE calls[e]]
    BY DEF Rejected
  <2>2. Ended("rejected") \in CallState /\ Ended("rejected").pc = "rejected"
    BY DEF Ended, IdleCall, CallState
  <2> QED BY <1>0, <2>1, <2>2 DEF CallsGoOn, Pending
<1>3. /\ claims' \in [Poll -> ClaimState]
      /\ \A p \in Poll : /\ claims'[p].cursor = claims[p].cursor
                         /\ \/ claims'[p].answer = claims[p].answer
                            \/ claims'[p].answer = "error"
  <2> DEFINE new(p) == [claims[p] EXCEPT !.pc = "done", !.answer = "error"]
  <2>1. claims' = [p \in Poll |-> IF p \in failed THEN new(p) ELSE claims[p]]
    BY DEF Rejected
  <2>2. \A p \in Poll : /\ new(p) \in ClaimState /\ new(p).cursor = claims[p].cursor
                        /\ new(p).answer = "error"
    BY <1>0 DEF ClaimState
  <2> HIDE DEF new, failed
  <2> QED BY <1>0, <2>1, <2>2
<1>4. ClaimsGoOn
  BY <1>3, AnswerAssumption DEF ClaimsGoOn
<1>5. PollGoesOn
  BY <1>3 DEF PollGoesOn, IInv, Shapes, RunnerState
<1> QED BY <1>1, <1>2, <1>4, <1>5, GoingOn

LEMMA LinkStep ==
  ASSUME IInv, NEW h \in Host, Link(h)
  PROVE  IInv'
<1>0. claims \in [Poll -> ClaimState] /\ calls \in [Entry -> CallState]
  BY DEF IInv, Shapes
<1>1. CASE RunListen(h)
  <2>1. UNCHANGED <<inbox, runner, calls>>
    BY <1>1 DEF RunListen, table
  <2>2. PICK q \in {Head(pipe[h]).by} : claims' = [claims EXCEPT ![q].pc = "bound"]
    BY <1>1 DEF RunListen
  <2>3. /\ claims' \in [Poll -> ClaimState]
        /\ \A x \in Poll : /\ claims'[x].cursor = claims[x].cursor
                           /\ claims'[x].answer = claims[x].answer
    <3>1. claims' = [claims EXCEPT ![q] = [claims[q] EXCEPT !.pc = "bound"]]
      BY <2>2
    <3>2. \A x \in Poll : /\ [claims[x] EXCEPT !.pc = "bound"] \in ClaimState
                         /\ [claims[x] EXCEPT !.pc = "bound"].cursor = claims[x].cursor
                         /\ [claims[x] EXCEPT !.pc = "bound"].answer = claims[x].answer
      BY <1>0 DEF ClaimState
    <3> QED BY <1>0, <3>1, <3>2
  <2> QED BY <2>1, <2>3, StateOnly
<1>2. CASE RunNotify(h)
  <2>1. UNCHANGED <<inbox, runner, claims>>
    BY <1>2 DEF RunNotify
  <2>2. CallsGoOn
    <3>1. CASE UNCHANGED calls
      BY <3>1, SameCalls
    <3>2. CASE calls' = [calls EXCEPT ![Head(pipe[h]).by] = Ended("queued")]
      BY <1>0, <3>2 DEF CallsGoOn, CallState, Ended, IdleCall, Pending
    <3> QED BY <1>2, <3>1, <3>2 DEF RunNotify
  <2> QED BY <2>1, <2>2, SameClaims, GoingOn
<1>3. CASE OnNotification(h)
  <2>1. UNCHANGED <<inbox, runner, calls>>
    BY <1>3 DEF OnNotification, table
  <2>2. /\ claims' \in [Poll -> ClaimState]
        /\ \A q \in Poll : /\ claims'[q].cursor = claims[q].cursor
                           /\ claims'[q].answer = claims[q].answer
    BY <1>0, <1>3 DEF OnNotification, ClaimState
  <2> QED BY <2>1, <2>2, StateOnly
<1>4. CASE OnClientError(h)
  BY <1>4, RejectedStep DEF OnClientError
<1>5. CASE RunUnlisten(h) \/ Connect(h) \/ Replay(h) \/ GoLive(h) \/ Start(h)
  <2>1. UNCHANGED <<inbox, runner, calls, claims>>
    BY <1>5 DEF RunUnlisten, Connect, Replay, GoLive, Start, table
  <2> QED BY <2>1, SameCalls, SameClaims, GoingOn
<1> QED BY <1>1, <1>2, <1>3, <1>4, <1>5 DEF Link, Answers

LEMMA CrashStep ==
  ASSUME IInv, NEW h \in Host, Crash(h)
  PROVE  IInv'
<1>0. /\ claims \in [Poll -> ClaimState] /\ calls \in [Entry -> CallState]
      /\ runner \in RunnerState
  BY DEF IInv, Shapes
<1>1. UNCHANGED inbox
  BY DEF Crash
<1>2. CallsGoOn
  <2>1. calls' = [e \in Entry |-> IF calls[e].host = h THEN Ended("lost") ELSE calls[e]]
    BY DEF Crash
  <2>2. Ended("lost") \in CallState /\ Ended("lost").pc = "lost"
    BY DEF Ended, IdleCall, CallState
  <2> QED BY <1>0, <2>1, <2>2 DEF CallsGoOn, Pending
<1>3. claims' = [p \in Poll |-> IF claims[p].host = h THEN IdleClaim ELSE claims[p]]
  BY DEF Crash
<1>4. ClaimsGoOn
  <2>1. IdleClaim \in ClaimState /\ IdleClaim.answer \notin Entry
    BY InboxNullAssumption DEF IdleClaim, ClaimState
  <2> QED BY <1>0, <1>3, <2>1 DEF ClaimsGoOn
<1>5. /\ runner' \in RunnerState
      /\ runner'.cursor = runner.cursor /\ runner'.received = runner.received
  BY <1>0 DEF Crash, RunnerState
<1>6. PollAsks'
  <2>1. CASE runner.poll # Null /\ claims[runner.poll].host = h
    BY <1>0, <2>1 DEF Crash, PollAsks, RunnerState
  <2>2. CASE ~(runner.poll # Null /\ claims[runner.poll].host = h)
    <3>1. UNCHANGED runner
      BY <2>2 DEF Crash
    <3>2. runner.poll # Null => claims'[runner.poll] = claims[runner.poll]
      BY <1>0, <1>3, <2>2 DEF RunnerState
    <3> QED BY <3>1, <3>2 DEF IInv, PollAsks
  <2> QED BY <2>1, <2>2
<1> QED BY <1>1, <1>2, <1>4, <1>5, <1>6, Onward

LEMMA FailureStep ==
  ASSUME IInv, NEW h \in Host, Failure(h)
  PROVE  IInv'
<1>1. CASE Disconnect(h)
  <2>1. UNCHANGED <<inbox, runner, calls, claims>>
    BY <1>1 DEF Disconnect, table
  <2> QED BY <2>1, SameCalls, SameClaims, GoingOn
<1>2. CASE ConnectFails(h)
  BY <1>2, RejectedStep DEF ConnectFails
<1> QED BY <1>1, <1>2, CrashStep DEF Failure

-----------------------------------------------------------------------------
(* The theorems.                                                           *)

LEMMA StepIInv == IInv /\ [Next]_vars => IInv'
<1> SUFFICES ASSUME IInv, [Next]_vars PROVE IInv'
  OBVIOUS
<1>1. CASE UNCHANGED vars
  <2>1. UNCHANGED <<inbox, runner, calls, claims>>
    BY <1>1 DEF vars
  <2> QED BY <2>1, SameCalls, SameClaims, GoingOn
<1> QED BY <1>1, QueueStep, TerminateStep, ClaimStep, TimerStep, RunnerStep,
           LinkStep, FailureStep DEF Next

LEMMA AlwaysIInv == Spec => []IInv
BY InitIInv, StepIInv, PTL DEF Spec

\* The cursors a session's queues give out have no gap, however the queues
\* race for them (inbox.ts, queue).
THEOREM CursorsAreDense == Spec => []DenseCursors
<1>1. IInv => DenseCursors
  BY DEF IInv, Dense, DenseCursors, Count
<1> QED BY <1>1, AlwaysIInv, PTL

-----------------------------------------------------------------------------
(* The inbox is a mailbox.                                                 *)

Posted == [i \in 1..Count |-> inbox[i - 1]]

LEMMA AppendIsFunction ==
  ASSUME NEW S, NEW s \in Seq(S), NEW x \in S
  PROVE  Append(s, x) = [i \in 1..(Len(s) + 1) |-> IF i = Len(s) + 1 THEN x ELSE s[i]]
<1>1. /\ Append(s, x) \in Seq(S) /\ Len(Append(s, x)) = Len(s) + 1
      /\ \A i \in 1..Len(s) : Append(s, x)[i] = s[i]
      /\ Append(s, x)[Len(s) + 1] = x
  BY AppendProperties
<1>2. Append(s, x) = [i \in 1..(Len(s) + 1) |-> Append(s, x)[i]]
  <2>1. Append(s, x) \in [1..(Len(s) + 1) -> S]
    BY <1>1, LenProperties
  <2> QED BY <2>1
<1>3. \A i \in 1..(Len(s) + 1) : Append(s, x)[i] = IF i = Len(s) + 1 THEN x ELSE s[i]
  BY <1>1
<1> QED BY <1>2, <1>3

\* A row added is a letter posted.
LEMMA InsertPosts ==
  ASSUME IInv, NEW e \in Entry, QueueInsert(e)
  PROVE  Mailbox!Post(e)
<1>1. Count \in Nat /\ DOMAIN inbox = 0..(Count - 1)
  BY DEF IInv, Dense
<1>2. /\ calls[e].next \in 0..Count
      /\ DOMAIN inbox' = DOMAIN inbox \union {calls[e].next}
  BY DEF QueueInsert, IInv, ReadCursors
<1>3. calls[e].next = Count /\ Count' = Count + 1
  BY <1>2, RowAdded DEF QueueInsert, IInv
<1>4. inbox'[Count] = e /\ \A c \in DOMAIN inbox : inbox'[c] = inbox[c]
  BY <1>1, <1>3 DEF QueueInsert
<1>5. \A i \in DOMAIN Posted : Posted[i] # e
  <2>1. \A c \in DOMAIN inbox : inbox[c] # e
    BY DEF IInv, NotYetPosted, Pending, QueueInsert
  <2> QED BY <1>1, <2>1 DEF Posted
<1>6. Posted' = Append(Posted, e)
  <2>1. Posted \in Seq(Entry) /\ Len(Posted) = Count
    <3>1. \A i \in 1..Count : inbox[i - 1] \in Entry
      BY <1>1 DEF IInv, Shapes
    <3> QED BY <1>1, <3>1 DEF Posted
  <2>2. Append(Posted, e) = [i \in 1..(Count + 1) |-> IF i = Count + 1 THEN e ELSE Posted[i]]
    BY <1>1, <2>1, AppendIsFunction
  <2>3. Posted' = [i \in 1..(Count + 1) |-> inbox'[i - 1]]
    BY <1>3 DEF Posted
  <2>4. \A i \in 1..(Count + 1) : inbox'[i - 1] = IF i = Count + 1 THEN e ELSE Posted[i]
    BY <1>1, <1>4 DEF Posted
  <2> QED BY <2>2, <2>3, <2>4
<1>7. UNCHANGED runner.received
  BY DEF QueueInsert
<1> QED BY <1>5, <1>6, <1>7 DEF Mailbox!Post, Posted, Count

\* An entry taken by the runner is the next letter received.
LEMMA TakeReceives ==
  ASSUME IInv, NEW p \in Poll, RunnerTakes(p), claims[p].answer \in Entry
  PROVE  Mailbox!Receive
<1>1. /\ Count \in Nat /\ DOMAIN inbox = 0..(Count - 1)
      /\ runner.cursor \in 0..Count /\ Len(runner.received) = runner.cursor
  BY DEF IInv, Dense, ReceivedSoFar
<1>2. runner.cursor \in DOMAIN inbox /\ inbox[runner.cursor] = claims[p].answer
  BY InboxNullAssumption DEF IInv, RunnerTakes, PollAsks, RightAnswers, Right
<1>3. Len(Posted) = Count /\ Posted[runner.cursor + 1] = claims[p].answer
  BY <1>1, <1>2 DEF Posted
<1>4. runner'.received = Append(runner.received, claims[p].answer)
  BY DEF RunnerTakes, IInv, Shapes, RunnerState
<1>5. UNCHANGED inbox
  BY DEF RunnerTakes, table
<1>6. Len(runner.received) < Len(Posted) /\ UNCHANGED Posted
  BY <1>1, <1>2, <1>3, <1>5 DEF Posted, Count
<1> QED BY <1>1, <1>3, <1>4, <1>6 DEF Mailbox!Receive, Posted, Count

\* Every other step leaves the rows and what the runner has alone.
Unmoved == UNCHANGED inbox /\ UNCHANGED runner.received

LEMMA Moves ==
  ASSUME IInv, [Next]_vars
  PROVE  \/ Unmoved
         \/ \E e \in Entry : QueueInsert(e)
         \/ \E p \in Poll : RunnerTakes(p) /\ claims[p].answer \in Entry
<1>0. runner \in RunnerState
  BY DEF IInv, Shapes
<1>1. CASE UNCHANGED vars
  BY <1>1 DEF vars, Unmoved
<1>2. ASSUME NEW e \in Entry, Queue(e) PROVE Unmoved \/ QueueInsert(e)
  BY <1>2 DEF Queue, QueueStart, QueueRead, QueueConflict, QueueNotify, Unmoved
<1>3. CASE Terminate
  BY <1>3 DEF Terminate, TerminateFlag, TerminateNotify, Unmoved
<1>4. ASSUME NEW p \in Poll, Claim(p) \/ ClaimTimer(p) PROVE Unmoved
  BY <1>4 DEF Claim, ClaimFetch, ClaimCheck, ClaimBind, ClaimPark, WakeFetch, WakeCheck,
              ClaimForgotten, ClaimTimer, Finish, table, Unmoved
<1>5. CASE Runner
  <2>1. ASSUME NEW p \in Poll, NEW h \in Host, PollStart(p, h) PROVE Unmoved
    BY <1>0, <2>1 DEF PollStart, RunnerState, table, Unmoved
  <2>2. ASSUME NEW p \in Poll, RunnerTakes(p), claims[p].answer \notin Entry PROVE Unmoved
    BY <1>0, <2>2 DEF RunnerTakes, RunnerState, table, Unmoved
  <2>3. CASE RunnerGivesUp \/ PollTimesOut \/ RunnerExits
    BY <1>0, <2>3 DEF RunnerGivesUp, PollTimesOut, RunnerExits, RunnerState, table, Unmoved
  <2> QED BY <1>5, <2>1, <2>2, <2>3 DEF Runner, Polls
<1>6. ASSUME NEW h \in Host, Link(h) PROVE Unmoved
  BY <1>6 DEF Link, Answers, RunListen, RunUnlisten, RunNotify, OnNotification, OnClientError,
              Rejected, Connect, Replay, GoLive, Start, table, Unmoved
<1>7. ASSUME NEW h \in Host, Failure(h) PROVE Unmoved
  BY <1>0, <1>7 DEF Failure, Disconnect, ConnectFails, Crash, Rejected, RunnerState,
                    table, Unmoved
<1> QED BY <1>1, <1>2, <1>3, <1>4, <1>5, <1>6, <1>7 DEF Next

LEMMA InitMailbox == IInv /\ Init => Mailbox!MailboxInit
<1> SUFFICES ASSUME IInv, Init PROVE Mailbox!MailboxInit
  OBVIOUS
<1>1. Count = 0
  BY FS_EmptySet DEF Init, Count
<1>2. Posted = << >>
  BY <1>1 DEF Posted
<1> QED BY <1>2 DEF Init, Mailbox!MailboxInit, Posted, Count

LEMMA StepMailbox == IInv /\ [Next]_vars => [Mailbox!MailboxNext]_Mailbox!mailboxVars
<1> SUFFICES ASSUME IInv, [Next]_vars
             PROVE  [Mailbox!MailboxNext]_Mailbox!mailboxVars
  OBVIOUS
<1>1. CASE Unmoved
  BY <1>1 DEF Unmoved, Mailbox!mailboxVars
<1>2. ASSUME NEW e \in Entry, QueueInsert(e) PROVE Mailbox!MailboxNext
  BY <1>2, InsertPosts DEF Mailbox!MailboxNext
<1>3. ASSUME NEW p \in Poll, RunnerTakes(p), claims[p].answer \in Entry
      PROVE  Mailbox!MailboxNext
  BY <1>3, TakeReceives DEF Mailbox!MailboxNext
<1> QED BY <1>1, <1>2, <1>3, Moves

\* Whatever the hosts, their connections and the runner's polls do, the runner
\* receives the queued entries once each, in the order of their cursors
\* (inbox.ts, claim; inbox-loop.ts, deliver).
THEOREM InboxIsMailbox == Spec => ImplementsMailbox
<1>1. Spec => []IInv
  BY AlwaysIInv
<1>2. IInv /\ Init => Mailbox!MailboxInit
  BY InitMailbox
<1>3. IInv /\ [Next]_vars => [Mailbox!MailboxNext]_Mailbox!mailboxVars
  BY StepMailbox
<1> QED BY <1>1, <1>2, <1>3, PTL DEF Spec, ImplementsMailbox, Mailbox!MailboxSpec

-----------------------------------------------------------------------------
(***************************************************************************)
(* Proofs about the LISTEN connections of the hosts, for any number of     *)
(* hosts and polls and of faults: references are counted, and a channel    *)
(* somebody waits on stays listened to.  They stand on the invariant of    *)
(* SessionInboxProofs.                                                     *)
(***************************************************************************)

LinkTypes ==
  /\ terminated \in BOOLEAN
  /\ closer \in [pc : {"idle", "flagged", "notifying", "done"}, host : Host \union {Null}]
  /\ conn \in [Host -> {"live", "dying", "down", "replaying", "starting"}]
  /\ listening \in [Host -> BOOLEAN]
  /\ pipe \in [Host -> Seq(Statement)]
  /\ notes \in [Host -> Nat]
  /\ refs \in [Host -> Nat]
  /\ faults \in Nat /\ breaks \in Nat

Holding == {"listen", "bound", "parked"}

\* The claims of h that hold a reference.
Holders(h) == {p \in Poll : claims[p].host = h /\ claims[p].pc \in Holding}

Counting == \A h \in Host : IsFiniteSet(Holders(h)) /\ refs[h] = Cardinality(Holders(h))

\* A claim under way is some host's, and a host that is starting has none.
ClaimHosts ==
  \A p \in Poll : claims[p].pc # "idle" => claims[p].host \in Host /\ Up(claims[p].host)

\* A LISTEN in a pipe is that of a claim which waits for it; there is one.
Listens ==
  \A h \in Host : \A i \in 1..Len(pipe[h]) : pipe[h][i].op = "LISTEN" =>
    /\ claims[pipe[h][i].by].pc = "listen" /\ claims[pipe[h][i].by].host = h
    /\ \A j \in 1..Len(pipe[h]) : pipe[h][j].op = "LISTEN" => j = i

\* A client that is not connected has not been asked to UNLISTEN.
NoUnlisten ==
  \A h \in Host : conn[h] \in {"down", "replaying"} =>
    \A i \in 1..Len(pipe[h]) : pipe[h][i].op # "UNLISTEN"

LInv == LinkTypes /\ Counting /\ ClaimHosts /\ Listens /\ NoUnlisten /\ StillListening

-----------------------------------------------------------------------------
(* Pipes.  WillListen(h) is Ends(pipe[h], listening[h]).                   *)

Ends(q, now) ==
  LET subs == {i \in 1..Len(q) : q[i].op # "NOTIFY"} IN
  IF subs = {} THEN now
  ELSE \E i \in subs : q[i].op = "LISTEN" /\ \A j \in subs : j <= i

LEMMA WillListenIsEnds == \A h \in Host : WillListen(h) = Ends(pipe[h], listening[h])
BY DEF WillListen, Ends

LEMMA StatementKinds ==
  ASSUME NEW s \in Statement
  PROVE  /\ s.op \in {"LISTEN", "UNLISTEN", "NOTIFY"}
         /\ s.op = "LISTEN" => s.by \in Poll
         /\ s.op = "NOTIFY" => s.by \in Entry \union {Null}
BY DEF Statement, Unlisten

\* A pipe that ends with a LISTEN makes the backend listen.
LEMMA AppendListen ==
  ASSUME NEW q \in Seq(Statement), NEW p \in Poll, NEW now \in BOOLEAN
  PROVE  Ends(Append(q, Listen(p)), now)
<1> DEFINE r == Append(q, Listen(p))
<1>1. Listen(p) \in Statement /\ Listen(p).op = "LISTEN"
  BY DEF Listen, Statement
<1>2. Len(q) \in Nat /\ Len(r) = Len(q) + 1 /\ r[Len(q) + 1] = Listen(p)
  BY <1>1, AppendProperties, LenProperties
<1> HIDE DEF r
<1>3. Ends(r, now)
  BY <1>1, <1>2 DEF Ends
<1> QED BY <1>3 DEF r

\* A NOTIFY changes nothing.
LEMMA AppendNotify ==
  ASSUME NEW q \in Seq(Statement), NEW e \in Entry \union {Null}, NEW now \in BOOLEAN,
         Ends(q, now)
  PROVE  Ends(Append(q, Notify(e)), now)
<1> DEFINE r == Append(q, Notify(e))
           sq == {i \in 1..Len(q) : q[i].op # "NOTIFY"}
           sr == {i \in 1..Len(r) : r[i].op # "NOTIFY"}
<1>1. Notify(e) \in Statement /\ Notify(e).op = "NOTIFY"
  BY DEF Notify, Statement
<1>2. /\ Len(q) \in Nat /\ Len(r) = Len(q) + 1 /\ r[Len(q) + 1] = Notify(e)
      /\ \A i \in 1..Len(q) : r[i] = q[i]
  BY <1>1, AppendProperties, LenProperties
<1> HIDE DEF r
<1>3. sr = sq
  BY <1>1, <1>2
<1>4. \A i \in sq : r[i] = q[i]
  BY <1>2
<1>5. IF sr = {} THEN now ELSE \E i \in sr : r[i].op = "LISTEN" /\ \A j \in sr : j <= i
  BY <1>3, <1>4 DEF Ends
<1>6. Ends(r, now)
  BY <1>5 DEF Ends
<1> QED BY <1>6 DEF r

\* Running the first statement of a pipe.
LEMMA TailEnds ==
  ASSUME NEW q \in Seq(Statement), q # << >>, NEW now \in BOOLEAN, NEW then \in BOOLEAN,
         Ends(q, now),
         Head(q).op = "LISTEN" => then, Head(q).op = "NOTIFY" => then = now
  PROVE  Ends(Tail(q), then)
<1> DEFINE r == Tail(q)
           sq == {i \in 1..Len(q) : q[i].op # "NOTIFY"}
           sr == {i \in 1..Len(r) : r[i].op # "NOTIFY"}
<1>1. /\ Len(q) \in Nat /\ Len(r) \in Nat /\ Len(q) = Len(r) + 1
      /\ \A i \in 1..Len(r) : r[i] = q[i + 1]
      /\ Head(q) = q[1] /\ q[1] \in Statement
  BY HeadTailProperties, LenProperties, ElementOfSeq
<1>2. q[1].op \in {"LISTEN", "UNLISTEN", "NOTIFY"}
  BY <1>1, StatementKinds
<1> HIDE DEF r
<1>3. \A i \in 1..Len(q) : i = 1 \/ (i - 1 \in 1..Len(r) /\ r[i - 1] = q[i])
  BY <1>1
<1>4. \A i \in sr : i + 1 \in sq
  BY <1>1
<1>5. \A i \in sq : i = 1 \/ i - 1 \in sr
  BY <1>3
<1>6. ASSUME sr = {} PROVE Ends(r, then)
  <2>1. CASE q[1].op = "NOTIFY"
    <3>1. sq = {}
      BY <1>5, <1>6, <2>1
    <3>2. now
      BY <3>1 DEF Ends
    <3> QED BY <1>1, <1>6, <2>1, <3>2 DEF Ends
  <2>2. CASE q[1].op # "NOTIFY"
    <3>1. sq = {1}
      <4>1. 1 \in sq
        BY <1>1, <2>2
      <4>2. \A i \in sq : i = 1
        BY <1>5, <1>6
      <4> QED BY <4>1, <4>2
    <3>2. q[1].op = "LISTEN"
      BY <3>1 DEF Ends
    <3> QED BY <1>1, <1>6, <3>2 DEF Ends
  <2> QED BY <2>1, <2>2
<1>7. ASSUME sr # {} PROVE Ends(r, then)
  <2>1. sq # {}
    BY <1>4, <1>7
  <2>2. PICK i \in sq : q[i].op = "LISTEN" /\ \A j \in sq : j <= i
    BY <2>1 DEF Ends
  <2>3. i # 1
    BY <1>1, <1>4, <1>7, <2>2
  <2>4. i - 1 \in sr /\ r[i - 1].op = "LISTEN"
    BY <1>3, <1>5, <2>2, <2>3
  <2>5. \A j \in sr : j <= i - 1
    BY <1>1, <1>4, <2>2
  <2> QED BY <1>7, <2>4, <2>5 DEF Ends
<1>8. Ends(r, then)
  BY <1>6, <1>7
<1> QED BY <1>8 DEF r

\* A pipe without UNLISTEN, and with one LISTEN at most.
LEMMA NoUnlistenEnds ==
  ASSUME NEW q \in Seq(Statement), NEW now \in BOOLEAN, now,
         \A i \in 1..Len(q) : q[i].op # "UNLISTEN",
         \A i, j \in 1..Len(q) : q[i].op = "LISTEN" /\ q[j].op = "LISTEN" => i = j
  PROVE  Ends(q, now)
<1> DEFINE sq == {i \in 1..Len(q) : q[i].op # "NOTIFY"}
<1>1. Len(q) \in Nat
  BY LenProperties
<1>2. \A i \in sq : q[i].op = "LISTEN"
  <2> SUFFICES ASSUME NEW i \in sq PROVE q[i].op = "LISTEN"
    OBVIOUS
  <2>1. q[i].op \in {"LISTEN", "UNLISTEN", "NOTIFY"}
    BY ElementOfSeq, StatementKinds
  <2> QED BY <2>1
<1>3. \A i, j \in sq : j <= i
  BY <1>1, <1>2
<1> QED BY <1>2, <1>3 DEF Ends

-----------------------------------------------------------------------------
(* Steps that leave references, pipes and connections as they are.         *)

ClaimsRest ==
  \A p \in Poll :
    \/ claims'[p] = claims[p]
    \/ /\ claims[p].pc # "idle" /\ claims'[p].host = claims[p].host
       /\ claims'[p].pc \in Holding <=> claims[p].pc \in Holding
       /\ claims'[p].pc = "listen" <=> claims[p].pc = "listen"
    \/ /\ claims[p].pc \notin Holding /\ claims'[p].pc \notin Holding
       /\ claims'[p].pc # "idle" => claims'[p].host \in Host /\ Up(claims'[p].host)

LEMMA RestIsRest ==
  ASSUME LInv, ClaimsRest, UNCHANGED conn
  PROVE  /\ ClaimHosts'
         /\ \A h \in Host : Holders(h)' = Holders(h)
         /\ \A p \in Poll : claims[p].pc = "listen" =>
              claims'[p].pc = "listen" /\ claims'[p].host = claims[p].host
<1>1. ClaimHosts'
  BY DEF LInv, ClaimHosts, ClaimsRest, Up
<1>2. ASSUME NEW h \in Host PROVE Holders(h)' = Holders(h)
  BY DEF Holders, ClaimsRest
<1>3. \A p \in Poll : claims[p].pc = "listen" =>
        claims'[p].pc = "listen" /\ claims'[p].host = claims[p].host
  BY DEF ClaimsRest, Holding
<1> QED BY <1>1, <1>2, <1>3

\* Statements keep their claims when no waiting claim moves.
LEMMA ListenersStay ==
  ASSUME LInv, UNCHANGED pipe,
         \A p \in Poll : claims[p].pc = "listen" =>
           claims'[p].pc = "listen" /\ claims'[p].host = claims[p].host
  PROVE  Listens'
<1> SUFFICES ASSUME NEW h \in Host, NEW i \in 1..Len(pipe[h]), pipe[h][i].op = "LISTEN"
             PROVE  /\ claims'[pipe[h][i].by].pc = "listen" /\ claims'[pipe[h][i].by].host = h
                    /\ \A j \in 1..Len(pipe[h]) : pipe[h][j].op = "LISTEN" => j = i
  BY DEF Listens
<1>1. pipe[h][i] \in Statement
  BY ElementOfSeq DEF LInv, LinkTypes
<1>2. pipe[h][i].by \in Poll
  BY <1>1, StatementKinds
<1> QED BY <1>2 DEF LInv, Listens

LEMMA Quiet ==
  ASSUME LInv, ClaimsRest, UNCHANGED <<conn, listening, pipe, refs>>, LinkTypes'
  PROVE  LInv'
<1>1. ClaimHosts' /\ Counting'
  BY RestIsRest DEF LInv, Counting
<1>2. Listens'
  BY RestIsRest, ListenersStay
<1>3. NoUnlisten' /\ StillListening'
  BY DEF LInv, NoUnlisten, StillListening, WillListen
<1> QED BY <1>1, <1>2, <1>3 DEF LInv

LEMMA SameClaimsRest ==
  ASSUME UNCHANGED claims
  PROVE  ClaimsRest
BY DEF ClaimsRest

-----------------------------------------------------------------------------
(* A notification is handed to a connection.                               *)

LEMMA NotifySubmitted ==
  ASSUME LInv, NEW g \in Host \union {Null}, NEW e \in Entry \union {Null},
         Submit(g, Notify(e)), UNCHANGED <<claims, conn, listening, refs>>, LinkTypes'
  PROVE  LInv'
<1>0. pipe \in [Host -> Seq(Statement)] /\ listening \in [Host -> BOOLEAN]
  BY DEF LInv, LinkTypes
<1>1. Notify(e) \in Statement /\ Notify(e).op = "NOTIFY"
  BY DEF Notify, Statement
<1>2. \A h \in Host : pipe'[h] = IF h = g THEN Append(pipe[h], Notify(e)) ELSE pipe[h]
  BY <1>0 DEF Submit
<1>3. ASSUME NEW h \in Host
      PROVE  /\ Len(pipe[h]) \in Nat
             /\ \A i \in 1..Len(pipe'[h]) : pipe'[h][i].op # "NOTIFY" =>
                  i \in 1..Len(pipe[h]) /\ pipe'[h][i] = pipe[h][i]
  <2>1. pipe[h] \in Seq(Statement) /\ Len(pipe[h]) \in Nat
    BY <1>0, LenProperties
  <2>2. CASE h # g
    BY <1>2, <2>1, <2>2
  <2>3. CASE h = g
    <3>1. /\ Len(pipe'[h]) = Len(pipe[h]) + 1
          /\ pipe'[h][Len(pipe[h]) + 1] = Notify(e)
          /\ \A i \in 1..Len(pipe[h]) : pipe'[h][i] = pipe[h][i]
      <4>1. pipe'[h] = Append(pipe[h], Notify(e))
        BY <1>2, <2>3
      <4> QED BY <1>1, <2>1, <4>1, AppendProperties
    <3> QED BY <1>1, <2>1, <3>1
  <2> QED BY <2>2, <2>3
<1>4. Counting' /\ ClaimHosts'
  BY DEF LInv, Counting, Holders, ClaimHosts, Up
<1>5. Listens'
  <2>1. ASSUME NEW h \in Host, NEW i \in 1..Len(pipe'[h]), pipe'[h][i].op = "LISTEN"
        PROVE  i \in 1..Len(pipe[h]) /\ pipe'[h][i] = pipe[h][i] /\ pipe[h][i].op = "LISTEN"
    BY <1>3, <2>1
  <2>2. ASSUME NEW h \in Host, NEW i \in 1..Len(pipe'[h]), pipe'[h][i].op = "LISTEN"
        PROVE  /\ claims[pipe'[h][i].by].pc = "listen" /\ claims[pipe'[h][i].by].host = h
               /\ \A j \in 1..Len(pipe'[h]) : pipe'[h][j].op = "LISTEN" => j = i
    BY <2>1, <2>2 DEF LInv, Listens
  <2> QED BY <2>2 DEF Listens
<1>6. NoUnlisten'
  BY <1>3 DEF LInv, NoUnlisten
<1>7. StillListening'
  <2> SUFFICES ASSUME NEW h \in Host, conn[h] = "live", refs[h] > 0 PROVE WillListen(h)'
    BY DEF StillListening
  <2>1. Ends(pipe[h], listening[h])
    BY WillListenIsEnds DEF LInv, StillListening
  <2>2. Ends(pipe'[h], listening[h])
    BY <1>0, <1>2, <2>1, AppendNotify
  <2> QED BY <2>2 DEF WillListen, Ends
<1> QED BY <1>4, <1>5, <1>6, <1>7 DEF LInv

-----------------------------------------------------------------------------
(* Initial states; queues, terminates, the runner.                         *)

LEMMA InitLInv == Init => LInv
<1> SUFFICES ASSUME Init PROVE LInv
  OBVIOUS
<1>1. LinkTypes
  <2>1. pipe \in [Host -> Seq(Statement)]
    BY EmptySeq DEF Init
  <2> QED BY <2>1 DEF Init, LinkTypes
<1>2. Counting
  <2>1. \A h \in Host : Holders(h) = {}
    BY DEF Init, Holders, Holding, IdleClaim
  <2> QED BY <2>1, FS_EmptySet DEF Init, Counting
<1>3. ClaimHosts /\ NoUnlisten /\ StillListening
  <2>1. \A h \in Host : conn[h] = "live" /\ refs[h] = 0
    BY DEF Init
  <2>2. \A p \in Poll : claims[p].pc = "idle"
    BY DEF Init, IdleClaim
  <2> QED BY <2>1, <2>2 DEF ClaimHosts, NoUnlisten, StillListening
<1>4. Listens
  <2>1. \A h \in Host : Len(pipe[h]) = 0
    BY DEF Init
  <2> QED BY <2>1 DEF Listens
<1> QED BY <1>1, <1>2, <1>3, <1>4 DEF LInv

LEMMA QueueLinks ==
  ASSUME IInv, LInv, NEW e \in Entry, Queue(e)
  PROVE  LInv'
<1>0. LinkTypes /\ calls[e].host \in Host \union {Null}
  BY DEF IInv, Shapes, CallState, LInv
<1>1. CASE QueueNotify(e)
  <2>1. Submit(calls[e].host, Notify(e)) /\ UNCHANGED <<claims, conn, listening, refs>>
    BY <1>1 DEF QueueNotify
  <2>2. LinkTypes'
    <3>1. Notify(e) \in Statement
      BY DEF Notify, Statement
    <3>2. \A h \in Host : Append(pipe[h], Notify(e)) \in Seq(Statement)
      BY <1>0, <3>1, AppendProperties DEF LinkTypes
    <3>3. pipe' \in [Host -> Seq(Statement)]
      BY <1>0, <2>1, <3>2 DEF LinkTypes, Submit
    <3> QED BY <1>0, <1>1, <3>3 DEF QueueNotify, LinkTypes
  <2> QED BY <1>0, <2>1, <2>2, NotifySubmitted
<1>2. CASE UNCHANGED <<claims, terminated, closer, network>>
  BY <1>0, <1>2, Quiet, SameClaimsRest DEF LinkTypes, network
<1> QED BY <1>1, <1>2 DEF Queue, QueueStart, QueueRead, QueueInsert, QueueConflict

LEMMA TerminateLinks ==
  ASSUME LInv, Terminate
  PROVE  LInv'
<1>0. LinkTypes
  BY DEF LInv
<1>1. ASSUME NEW h \in Host, TerminateFlag(h) PROVE LInv'
  <2>1. LinkTypes' /\ UNCHANGED <<claims, conn, listening, pipe, refs>>
    BY <1>0, <1>1 DEF TerminateFlag, LinkTypes, network
  <2> QED BY <2>1, Quiet, SameClaimsRest
<1>2. CASE TerminateNotify
  <2>1. Submit(closer.host, Notify(Null)) /\ UNCHANGED <<claims, conn, listening, refs>>
        /\ closer.host \in Host \union {Null}
    BY <1>0, <1>2 DEF TerminateNotify, LinkTypes
  <2>2. LinkTypes'
    <3>1. Notify(Null) \in Statement
      BY DEF Notify, Statement
    <3>2. \A h \in Host : Append(pipe[h], Notify(Null)) \in Seq(Statement)
      BY <1>0, <3>1, AppendProperties DEF LinkTypes
    <3>3. pipe' \in [Host -> Seq(Statement)]
      BY <1>0, <2>1, <3>2 DEF LinkTypes, Submit
    <3>4. closer' \in [pc : {"idle", "flagged", "notifying", "done"}, host : Host \union {Null}]
      BY <1>0, <1>2 DEF TerminateNotify, LinkTypes
    <3> QED BY <1>0, <1>2, <3>3, <3>4 DEF TerminateNotify, LinkTypes
  <2> QED BY <2>1, <2>2, NotifySubmitted
<1> QED BY <1>1, <1>2 DEF Terminate

LEMMA RunnerLinks ==
  ASSUME IInv, LInv, Runner
  PROVE  LInv'
<1>0. LinkTypes /\ claims \in [Poll -> ClaimState]
  BY DEF IInv, Shapes, LInv
<1>1. LinkTypes' /\ UNCHANGED <<conn, listening, pipe, refs>>
  <2>1. /\ UNCHANGED <<terminated, closer, conn, listening, pipe, notes, refs, faults>>
        /\ breaks' = breaks \/ breaks' = breaks + 1
    BY DEF Runner, Polls, PollStart, RunnerTakes, RunnerGivesUp, PollTimesOut, RunnerExits, table, network
  <2> QED BY <1>0, <2>1 DEF LinkTypes
<1>2. ClaimsRest
  <2>1. ASSUME NEW p \in Poll, NEW h \in Host, PollStart(p, h) PROVE ClaimsRest
    <3>1. /\ claims[p].pc = "idle" /\ Up(h)
          /\ claims'[p].pc = "fetch" /\ claims'[p].host = h
          /\ \A q \in Poll \ {p} : claims'[q] = claims[q]
          /\ UNCHANGED conn
      <4> DEFINE new == [IdleClaim EXCEPT !.pc = "fetch", !.host = h, !.cursor = runner.cursor]
      <4>1. new.pc = "fetch" /\ new.host = h
        BY DEF IdleClaim
      <4>2. claims' = [claims EXCEPT ![p] = new]
        BY <2>1 DEF PollStart
      <4> HIDE DEF new
      <4> QED BY <1>0, <2>1, <4>1, <4>2 DEF PollStart, network
    <3> QED BY <3>1 DEF ClaimsRest, Holding, Up
  <2>2. ASSUME NEW p \in Poll, RunnerTakes(p) PROVE ClaimsRest
    BY <1>0, <2>2 DEF RunnerTakes, ClaimsRest, Holding, IdleClaim
  <2>3. CASE RunnerGivesUp \/ PollTimesOut \/ RunnerExits
    BY <2>3 DEF RunnerGivesUp, PollTimesOut, RunnerExits, ClaimsRest
  <2> QED BY <2>1, <2>2, <2>3 DEF Runner, Polls
<1> QED BY <1>1, <1>2, Quiet

-----------------------------------------------------------------------------
(* The steps of a claim.                                                   *)

LEMMA Submitted ==
  ASSUME LinkTypes, NEW h \in Host, NEW s \in Statement, Submit(h, s)
  PROVE  /\ pipe' \in [Host -> Seq(Statement)]
         /\ pipe'[h] = Append(pipe[h], s)
         /\ \A g \in Host : \A i \in 1..Len(pipe'[g]) :
              \/ i \in 1..Len(pipe[g]) /\ pipe'[g][i] = pipe[g][i]
              \/ g = h /\ i = Len(pipe[h]) + 1 /\ pipe'[g][i] = s
<1>0. pipe \in [Host -> Seq(Statement)]
  BY DEF LinkTypes
<1>1. /\ pipe[h] \in Seq(Statement) /\ Len(pipe[h]) \in Nat
      /\ Append(pipe[h], s) \in Seq(Statement)
      /\ Len(Append(pipe[h], s)) = Len(pipe[h]) + 1
      /\ Append(pipe[h], s)[Len(pipe[h]) + 1] = s
      /\ \A i \in 1..Len(pipe[h]) : Append(pipe[h], s)[i] = pipe[h][i]
  BY <1>0, AppendProperties, LenProperties
<1>2. /\ pipe'[h] = Append(pipe[h], s)
      /\ \A g \in Host \ {h} : pipe'[g] = pipe[g]
  BY <1>0 DEF Submit
<1>3. pipe' \in [Host -> Seq(Statement)]
  BY <1>0, <1>1 DEF Submit
<1>4. ASSUME NEW i \in 1..Len(pipe'[h])
      PROVE  \/ i \in 1..Len(pipe[h]) /\ pipe'[h][i] = pipe[h][i]
             \/ i = Len(pipe[h]) + 1 /\ pipe'[h][i] = s
  BY <1>1, <1>2
<1> QED BY <1>2, <1>3, <1>4

\* While nobody holds a reference, no LISTEN is on its way.
LEMMA NobodyListens ==
  ASSUME LInv, NEW h \in Host, refs[h] = 0
  PROVE  \A i \in 1..Len(pipe[h]) : pipe[h][i].op # "LISTEN"
<1>1. Holders(h) = {}
  BY FS_EmptySet DEF LInv, Counting
<1>2. ASSUME NEW i \in 1..Len(pipe[h]), pipe[h][i].op = "LISTEN" PROVE FALSE
  <2>1. pipe[h][i] \in Statement
    BY ElementOfSeq DEF LInv, LinkTypes
  <2>2. pipe[h][i].by \in Holders(h)
    BY <1>2, <2>1, StatementKinds DEF LInv, Listens, Holders, Holding
  <2> QED BY <1>1, <2>2
<1> QED BY <1>2

LEMMA BindLinks ==
  ASSUME IInv, LInv, NEW p \in Poll, NEW h \in Host, h = claims[p].host, ClaimBind(p)
  PROVE  LInv'
<1>0. /\ LinkTypes /\ claims \in [Poll -> ClaimState]
      /\ Up(h) /\ claims[p].pc = "bind"
  BY DEF IInv, Shapes, LInv, ClaimHosts, ClaimBind
<1>1. /\ UNCHANGED <<terminated, closer, conn, listening, notes, faults, breaks>>
      /\ refs' \in [Host -> Nat] /\ refs'[h] = refs[h] + 1
      /\ \A g \in Host \ {h} : refs'[g] = refs[g]
  BY <1>0 DEF ClaimBind, LinkTypes, table
<1>2. /\ \A q \in Poll \ {p} : claims'[q] = claims[q]
      /\ claims'[p].host = h /\ claims'[p].pc = IF refs[h] = 0 THEN "listen" ELSE "bound"
  BY <1>0 DEF ClaimBind, ClaimState
<1>3. Counting'
  <2>1. Holders(h)' = Holders(h) \union {p} /\ p \notin Holders(h)
    BY <1>0, <1>2 DEF Holders, Holding
  <2>2. \A g \in Host \ {h} : Holders(g)' = Holders(g)
    BY <1>0, <1>2 DEF Holders
  <2>3. IsFiniteSet(Holders(h)) /\ refs[h] = Cardinality(Holders(h))
    BY <1>0 DEF LInv, Counting
  <2>4. /\ IsFiniteSet(Holders(h) \union {p})
        /\ Cardinality(Holders(h) \union {p}) = Cardinality(Holders(h)) + 1
    BY <2>1, <2>3, FS_AddElement
  <2>5. IsFiniteSet(Holders(h)') /\ refs'[h] = Cardinality(Holders(h)')
    BY <1>1, <2>1, <2>3, <2>4
  <2>6. \A g \in Host \ {h} : IsFiniteSet(Holders(g)') /\ refs'[g] = Cardinality(Holders(g)')
    BY <1>1, <2>2 DEF LInv, Counting
  <2> QED BY <2>5, <2>6 DEF Counting
<1>4. ClaimHosts'
  BY <1>0, <1>1, <1>2 DEF LInv, ClaimHosts, Up
<1>5. CASE refs[h] # 0
  <2>1. UNCHANGED pipe
    BY <1>5 DEF ClaimBind
  <2>2. LinkTypes'
    BY <1>0, <1>1, <2>1 DEF LinkTypes
  <2>3. Listens'
    BY <1>0, <1>2, <2>1, ListenersStay
  <2>4. refs[h] > 0
    BY <1>0, <1>5 DEF LinkTypes
  <2>5. NoUnlisten' /\ StillListening'
    BY <1>1, <2>1, <2>4 DEF LInv, NoUnlisten, StillListening, WillListen
  <2> QED BY <1>3, <1>4, <2>2, <2>3, <2>5 DEF LInv
<1>6. CASE refs[h] = 0
  <2>1. Submit(h, Listen(p)) /\ Listen(p) \in Statement /\ Listen(p).op = "LISTEN" /\ Listen(p).by = p
    BY <1>6 DEF ClaimBind, Listen, Statement
  <2>2. /\ pipe' \in [Host -> Seq(Statement)]
        /\ pipe'[h] = Append(pipe[h], Listen(p))
        /\ \A g \in Host : \A i \in 1..Len(pipe'[g]) :
              \/ i \in 1..Len(pipe[g]) /\ pipe'[g][i] = pipe[g][i]
              \/ g = h /\ i = Len(pipe[h]) + 1 /\ pipe'[g][i] = Listen(p)
    BY <1>0, <2>1, Submitted
  <2>3. LinkTypes'
    BY <1>0, <1>1, <2>2 DEF LinkTypes
  <2>4. Listens'
    <3> SUFFICES ASSUME NEW g \in Host, NEW i \in 1..Len(pipe'[g]), pipe'[g][i].op = "LISTEN"
                 PROVE  /\ claims'[pipe'[g][i].by].pc = "listen"
                        /\ claims'[pipe'[g][i].by].host = g
                        /\ \A j \in 1..Len(pipe'[g]) : pipe'[g][j].op = "LISTEN" => j = i
      BY DEF Listens
    <3>1. CASE g = h
      <4>1. \A j \in 1..Len(pipe'[h]) : pipe'[h][j].op = "LISTEN" =>
              j = Len(pipe[h]) + 1 /\ pipe'[h][j] = Listen(p)
        BY <1>0, <1>6, <2>2, NobodyListens
      <4> QED BY <1>2, <1>6, <2>1, <3>1, <4>1
    <3>2. CASE g # h
      <4>1. \A j \in 1..Len(pipe'[g]) : j \in 1..Len(pipe[g]) /\ pipe'[g][j] = pipe[g][j]
        BY <2>2, <3>2
      <4>2. claims[pipe[g][i].by].pc = "listen" /\ claims[pipe[g][i].by].host = g
        BY <4>1 DEF LInv, Listens
      <4>3. pipe[g][i].by \in Poll
        <5>1. pipe[g][i] \in Statement
          BY <1>0, <4>1, ElementOfSeq DEF LinkTypes
        <5> QED BY <4>1, <5>1, StatementKinds
      <4>4. pipe[g][i].by # p
        BY <1>0, <4>2
      <4> QED BY <1>2, <4>1, <4>2, <4>3, <4>4, SMTT(20), ZenonT(30) DEF LInv, Listens
    <3> QED BY <3>1, <3>2
  <2>5. NoUnlisten'
    BY <1>1, <2>1, <2>2 DEF LInv, NoUnlisten
  <2>6. StillListening'
    <3>1. ASSUME NEW g \in Host, g # h, conn[g] = "live", refs[g] > 0 PROVE WillListen(g)'
      <4>1. pipe'[g] = pipe[g]
        BY <1>0, <2>1, <3>1 DEF Submit, LinkTypes
      <4> QED BY <1>1, <3>1, <4>1 DEF LInv, StillListening, WillListen
    <3>2. WillListen(h)'
      <4>1. Ends(pipe'[h], listening[h])
        BY <1>0, <2>2, AppendListen DEF LinkTypes
      <4> QED BY <1>1, <4>1 DEF WillListen, Ends
    <3> QED BY <1>1, <3>1, <3>2 DEF StillListening
  <2> QED BY <1>3, <1>4, <2>3, <2>4, <2>5, <2>6 DEF LInv
<1> QED BY <1>5, <1>6

LEMMA FinishLinks ==
  ASSUME IInv, LInv, NEW p \in Poll, NEW h \in Host, h = claims[p].host,
         NEW answer, Finish(p, answer)
  PROVE  LInv'
<1>0. /\ LinkTypes /\ claims \in [Poll -> ClaimState]
      /\ Up(h) /\ claims[p].pc = "parked"
  BY DEF IInv, Shapes, LInv, ClaimHosts, Finish
<1>1. /\ UNCHANGED <<terminated, closer, conn, listening, notes, faults, breaks>>
      /\ refs' = [refs EXCEPT ![h] = refs[h] - 1]
  BY DEF Finish, table
<1>2. /\ \A q \in Poll \ {p} : claims'[q] = claims[q]
      /\ claims'[p].host = h /\ claims'[p].pc = "done"
  BY <1>0 DEF Finish, Answered, ClaimState
<1>3. /\ Holders(h)' = Holders(h) \ {p} /\ p \in Holders(h)
      /\ \A g \in Host \ {h} : Holders(g)' = Holders(g)
  BY <1>0, <1>2 DEF Holders, Holding
<1>4. /\ IsFiniteSet(Holders(h)') /\ Cardinality(Holders(h)') = refs[h] - 1
      /\ Cardinality(Holders(h)') \in Nat
  <2>1. IsFiniteSet(Holders(h)) /\ refs[h] = Cardinality(Holders(h))
    BY <1>0 DEF LInv, Counting
  <2> QED BY <1>3, <2>1, FS_RemoveElement, FS_CardinalityType
<1>5. refs' \in [Host -> Nat] /\ refs'[h] = refs[h] - 1
      /\ \A g \in Host \ {h} : refs'[g] = refs[g]
  BY <1>0, <1>1, <1>4 DEF LinkTypes
<1>6. Counting'
  <2>1. \A g \in Host \ {h} : IsFiniteSet(Holders(g)') /\ refs'[g] = Cardinality(Holders(g)')
    BY <1>3, <1>5 DEF LInv, Counting
  <2> QED BY <1>4, <1>5, <2>1 DEF Counting
<1>7. ClaimHosts'
  BY <1>0, <1>1, <1>2 DEF LInv, ClaimHosts, Up
<1>8. \A q \in Poll : claims[q].pc = "listen" =>
        claims'[q].pc = "listen" /\ claims'[q].host = claims[q].host
  BY <1>0, <1>2
<1>9. CASE UNCHANGED pipe
  <2>1. LinkTypes'
    BY <1>0, <1>1, <1>5, <1>9 DEF LinkTypes
  <2>2. Listens'
    BY <1>8, <1>9, ListenersStay
  <2>3. NoUnlisten'
    BY <1>1, <1>9 DEF LInv, NoUnlisten
  <2>4. StillListening'
    <3>1. ASSUME NEW g \in Host, refs'[g] > 0 PROVE refs[g] > 0
      <4>1. refs[g] \in Nat
        BY <1>0 DEF LinkTypes
      <4> QED BY <1>5, <3>1, <4>1
    <3> QED BY <1>1, <1>9, <3>1 DEF LInv, StillListening, WillListen
  <2> QED BY <1>6, <1>7, <2>1, <2>2, <2>3, <2>4 DEF LInv
<1>10. CASE Submit(h, Unlisten) /\ refs[h] - 1 <= 0 /\ conn[h] \in {"live", "dying"}
  <2>1. Unlisten \in Statement /\ Unlisten.op = "UNLISTEN"
    BY DEF Unlisten, Statement
  <2>2. /\ pipe' \in [Host -> Seq(Statement)]
        /\ \A g \in Host : \A i \in 1..Len(pipe'[g]) :
              \/ i \in 1..Len(pipe[g]) /\ pipe'[g][i] = pipe[g][i]
              \/ g = h /\ i = Len(pipe[h]) + 1 /\ pipe'[g][i] = Unlisten
    BY <1>0, <1>10, <2>1, Submitted
  <2>3. LinkTypes'
    BY <1>0, <1>1, <1>5, <2>2 DEF LinkTypes
  <2>4. Listens'
    <3> SUFFICES ASSUME NEW g \in Host, NEW i \in 1..Len(pipe'[g]), pipe'[g][i].op = "LISTEN"
                 PROVE  /\ claims'[pipe'[g][i].by].pc = "listen"
                        /\ claims'[pipe'[g][i].by].host = g
                        /\ \A j \in 1..Len(pipe'[g]) : pipe'[g][j].op = "LISTEN" => j = i
      BY DEF Listens
    <3>1. \A j \in 1..Len(pipe'[g]) : pipe'[g][j].op = "LISTEN" =>
            j \in 1..Len(pipe[g]) /\ pipe'[g][j] = pipe[g][j]
      BY <2>1, <2>2
    <3>2. pipe[g][i].by \in Poll
      <4>1. pipe[g][i] \in Statement
        BY <1>0, <3>1, ElementOfSeq DEF LinkTypes
      <4> QED BY <3>1, <4>1, StatementKinds
    <3> QED BY <1>8, <3>1, <3>2, SMTT(20), ZenonT(30) DEF LInv, Listens
  <2>5. NoUnlisten'
    BY <1>1, <1>10, <2>2 DEF LInv, NoUnlisten
  <2>6. StillListening'
    <3>1. ASSUME NEW g \in Host, conn[g] = "live", refs'[g] > 0 PROVE WillListen(g)'
      <4>1. g # h
        BY <1>5, <1>10, <3>1
      <4>2. pipe'[g] = pipe[g] /\ refs[g] > 0
        BY <1>0, <1>5, <1>10, <3>1, <4>1 DEF Submit, LinkTypes
      <4> QED BY <1>1, <3>1, <4>2 DEF LInv, StillListening, WillListen
    <3> QED BY <1>1, <3>1 DEF StillListening
  <2> QED BY <1>6, <1>7, <2>3, <2>4, <2>5, <2>6 DEF LInv
<1> QED BY <1>9, <1>10 DEF Finish, LastRelease

LEMMA ClaimLinks ==
  ASSUME IInv, LInv, NEW p \in Poll, Claim(p) \/ ClaimTimer(p)
  PROVE  LInv'
<1>0. LinkTypes /\ claims \in [Poll -> ClaimState]
  BY DEF IInv, Shapes, LInv
<1>1. ASSUME UNCHANGED <<table, network>>, ClaimsRest PROVE LInv'
  <2>1. LinkTypes' /\ UNCHANGED <<conn, listening, pipe, refs>>
    BY <1>0, <1>1 DEF table, network, LinkTypes
  <2> QED BY <1>1, <2>1, Quiet
<1>2. ASSUME NEW answer, Finish(p, answer) PROVE LInv'
  <2>1. claims[p].host \in Host
    BY <1>2 DEF LInv, ClaimHosts, Finish
  <2> QED BY <1>2, <2>1, FinishLinks
<1>3. CASE ClaimFetch(p)
  <2>1. ClaimsRest
    BY <1>0, <1>3 DEF ClaimFetch, Answered, ClaimsRest, Holding, ClaimState
  <2> QED BY <1>1, <1>3, <2>1 DEF ClaimFetch, table, network
<1>4. CASE ClaimCheck(p)
  <2>1. ClaimsRest
    BY <1>0, <1>4 DEF ClaimCheck, Answered, ClaimsRest, Holding, ClaimState
  <2> QED BY <1>1, <1>4, <2>1 DEF ClaimCheck, table, network
<1>5. CASE ClaimBind(p)
  <2>1. claims[p].host \in Host
    BY <1>5 DEF LInv, ClaimHosts, ClaimBind
  <2> QED BY <1>5, <2>1, BindLinks
<1>6. CASE ClaimPark(p)
  <2>1. ClaimsRest
    BY <1>0, <1>6 DEF ClaimPark, ClaimsRest, Holding, ClaimState
  <2> QED BY <1>1, <1>6, <2>1 DEF ClaimPark, table, network
<1>7. CASE WakeFetch(p)
  <2>1. CASE claims[p].cursor \in DOMAIN inbox
    BY <1>2, <1>7, <2>1 DEF WakeFetch
  <2>2. CASE claims[p].cursor \notin DOMAIN inbox
    <3>1. ClaimsRest
      BY <1>0, <1>7, <2>2 DEF WakeFetch, ClaimsRest, Holding, ClaimState
    <3> QED BY <1>1, <1>7, <2>2, <3>1 DEF WakeFetch, table, network
  <2> QED BY <2>1, <2>2
<1>8. CASE WakeCheck(p)
  <2>1. CASE terminated
    BY <1>2, <1>8, <2>1 DEF WakeCheck
  <2>2. CASE ~terminated
    <3>1. ClaimsRest
      BY <1>0, <1>8, <2>2 DEF WakeCheck, ClaimsRest, Holding, ClaimState
    <3> QED BY <1>1, <1>8, <2>2, <3>1 DEF WakeCheck, table, network
  <2> QED BY <2>1, <2>2
<1>9. CASE ClaimForgotten(p)
  <2>1. ClaimsRest
    BY <1>0, <1>9 DEF ClaimForgotten, ClaimsRest, Holding, IdleClaim
  <2> QED BY <1>1, <1>9, <2>1 DEF ClaimForgotten, table, network
<1>10. CASE ClaimTimer(p)
  BY <1>2, <1>10 DEF ClaimTimer
<1> QED BY <1>3, <1>4, <1>5, <1>6, <1>7, <1>8, <1>9, <1>10 DEF Claim

-----------------------------------------------------------------------------
(* A connection runs a statement.                                          *)

StatementRuns(h) ==
  /\ conn[h] = "live" /\ pipe[h] # << >>
  /\ pipe' = [pipe EXCEPT ![h] = Tail(pipe[h])]
  /\ UNCHANGED <<conn, refs>>

LEMMA PipeRuns ==
  ASSUME LinkTypes, NEW h \in Host, StatementRuns(h)
  PROVE  /\ pipe' \in [Host -> Seq(Statement)]
         /\ pipe'[h] = Tail(pipe[h])
         /\ \A g \in Host \ {h} : pipe'[g] = pipe[g]
         /\ Head(pipe[h]) = pipe[h][1] /\ 1 \in 1..Len(pipe[h]) /\ pipe[h][1] \in Statement
         /\ \A i \in 1..Len(pipe'[h]) : i + 1 \in 1..Len(pipe[h]) /\ i + 1 # 1
                                        /\ pipe'[h][i] = pipe[h][i + 1]
<1>0. pipe \in [Host -> Seq(Statement)] /\ pipe[h] # << >>
  BY DEF LinkTypes, StatementRuns
<1>1. /\ Tail(pipe[h]) \in Seq(Statement)
      /\ Len(pipe[h]) \in Nat /\ Len(Tail(pipe[h])) \in Nat
      /\ Len(pipe[h]) = Len(Tail(pipe[h])) + 1
      /\ \A i \in 1..Len(Tail(pipe[h])) : Tail(pipe[h])[i] = pipe[h][i + 1]
      /\ Head(pipe[h]) = pipe[h][1]
  BY <1>0, HeadTailProperties, LenProperties
<1>2. 1 \in 1..Len(pipe[h]) /\ pipe[h][1] \in Statement
  BY <1>0, <1>1, ElementOfSeq
<1>3. /\ pipe' \in [Host -> Seq(Statement)] /\ pipe'[h] = Tail(pipe[h])
      /\ \A g \in Host \ {h} : pipe'[g] = pipe[g]
  BY <1>0, <1>1 DEF StatementRuns
<1>4. \A i \in 1..Len(pipe'[h]) : i + 1 \in 1..Len(pipe[h]) /\ i + 1 # 1
                                  /\ pipe'[h][i] = pipe[h][i + 1]
  BY <1>1, <1>3
<1> QED BY <1>1, <1>2, <1>3, <1>4

\* The LISTENs left in the pipes keep their claims, if no claim moves but the
\* one whose LISTEN has run.
LEMMA ListensLeft ==
  ASSUME LInv, NEW h \in Host, StatementRuns(h),
         \A p \in Poll : claims[p].pc = "listen" /\ ~(Head(pipe[h]).op = "LISTEN" /\ Head(pipe[h]).by = p)
           => claims'[p].pc = "listen" /\ claims'[p].host = claims[p].host
  PROVE  Listens'
<1>0. LinkTypes /\ Listens /\ pipe \in [Host -> Seq(Statement)]
  BY DEF LInv, LinkTypes
<1>1. ASSUME NEW g \in Host, NEW k \in 1..Len(pipe[g]), pipe[g][k].op = "LISTEN", g # h \/ k # 1
      PROVE  /\ claims'[pipe[g][k].by].pc = "listen" /\ claims'[pipe[g][k].by].host = g
             /\ \A j \in 1..Len(pipe[g]) : pipe[g][j].op = "LISTEN" => j = k
  <2> DEFINE p == pipe[g][k].by
  <2>1. /\ claims[p].pc = "listen" /\ claims[p].host = g
        /\ \A j \in 1..Len(pipe[g]) : pipe[g][j].op = "LISTEN" => j = k
    BY <1>0, <1>1 DEF Listens
  <2>2. p \in Poll
    <3>1. pipe[g][k] \in Statement
      BY <1>0, ElementOfSeq
    <3> QED BY <1>1, <3>1, StatementKinds
  <2>3. ASSUME Head(pipe[h]).op = "LISTEN", Head(pipe[h]).by = p PROVE FALSE
    <3>1. Head(pipe[h]) = pipe[h][1] /\ 1 \in 1..Len(pipe[h])
      BY <1>0, PipeRuns
    <3>2. claims[p].host = h
      BY <1>0, <2>3, <3>1 DEF Listens
    <3>3. g = h
      BY <2>1, <3>2
    <3>4. k = 1
      BY <2>1, <2>3, <3>1, <3>3
    <3> QED BY <1>1, <3>3, <3>4
  <2>4. claims'[p].pc = "listen" /\ claims'[p].host = g
    BY <2>1, <2>2, <2>3
  <2> QED BY <2>1, <2>4
<1>2. ASSUME NEW g \in Host, NEW i \in 1..Len(pipe'[g]), pipe'[g][i].op = "LISTEN"
      PROVE  /\ claims'[pipe'[g][i].by].pc = "listen"
             /\ claims'[pipe'[g][i].by].host = g
             /\ \A j \in 1..Len(pipe'[g]) : pipe'[g][j].op = "LISTEN" => j = i
  <2>1. CASE g # h
    <3>1. pipe'[g] = pipe[g]
      BY <1>0, <2>1, PipeRuns
    <3> QED BY <1>1, <1>2, <2>1, <3>1
  <2>2. CASE g = h
    <3>1. \A j \in 1..Len(pipe'[h]) : j + 1 \in 1..Len(pipe[h]) /\ j + 1 # 1
                                      /\ pipe'[h][j] = pipe[h][j + 1]
      BY <1>0, PipeRuns
    <3>2. /\ claims'[pipe[h][i + 1].by].pc = "listen" /\ claims'[pipe[h][i + 1].by].host = h
          /\ \A j \in 1..Len(pipe[h]) : pipe[h][j].op = "LISTEN" => j = i + 1
      BY <1>1, <1>2, <2>2, <3>1
    <3>3. ASSUME NEW j \in 1..Len(pipe'[h]), pipe'[h][j].op = "LISTEN" PROVE j = i
      <4>1. j + 1 = i + 1
        BY <3>1, <3>2, <3>3
      <4> QED BY <4>1
    <3> QED BY <2>2, <3>1, <3>2, <3>3
  <2> QED BY <2>1, <2>2
<1> QED BY <1>2 DEF Listens

\* A statement has run: what it did to claims and to the backend is right.
LEMMA StatementRan ==
  ASSUME LInv, NEW h \in Host, StatementRuns(h), LinkTypes', Counting', ClaimHosts',
         \A p \in Poll : claims[p].pc = "listen" /\ ~(Head(pipe[h]).op = "LISTEN" /\ Head(pipe[h]).by = p)
           => claims'[p].pc = "listen" /\ claims'[p].host = claims[p].host,
         Head(pipe[h]).op = "LISTEN" => listening'[h],
         Head(pipe[h]).op = "NOTIFY" => listening'[h] = listening[h],
         \A g \in Host \ {h} : listening'[g] = listening[g]
  PROVE  LInv'
<1>0. LinkTypes /\ LinkTypes'
  BY DEF LInv
<1>1. Listens'
  BY ListensLeft
<1>2. NoUnlisten'
  <2> SUFFICES ASSUME NEW g \in Host, conn[g] \in {"down", "replaying"},
                      NEW i \in 1..Len(pipe'[g])
               PROVE  pipe'[g][i].op # "UNLISTEN"
    BY DEF NoUnlisten, StatementRuns
  <2>1. g # h
    BY DEF StatementRuns
  <2>2. pipe'[g] = pipe[g]
    BY <1>0, <2>1, PipeRuns
  <2> QED BY <2>2 DEF LInv, NoUnlisten
<1>3. StillListening'
  <2> SUFFICES ASSUME NEW g \in Host, conn[g] = "live", refs[g] > 0 PROVE WillListen(g)'
    BY DEF StillListening, StatementRuns
  <2>1. Ends(pipe[g], listening[g])
    BY WillListenIsEnds DEF LInv, StillListening
  <2>2. CASE g # h
    <3>1. pipe'[g] = pipe[g] /\ listening'[g] = listening[g]
      BY <1>0, <2>2, PipeRuns
    <3> QED BY <2>1, <3>1 DEF WillListen, Ends
  <2>3. CASE g = h
    <3>1. /\ pipe[h] \in Seq(Statement) /\ pipe[h] # << >>
          /\ listening[h] \in BOOLEAN /\ listening'[h] \in BOOLEAN
      BY <1>0 DEF LinkTypes, StatementRuns
    <3>2. Ends(Tail(pipe[h]), listening'[h])
      BY <2>1, <2>3, <3>1, TailEnds
    <3>3. pipe'[h] = Tail(pipe[h])
      BY <1>0, PipeRuns
    <3> QED BY <2>3, <3>2, <3>3 DEF WillListen, Ends
  <2> QED BY <2>2, <2>3
<1> QED BY <1>0, <1>1, <1>2, <1>3 DEF LInv

LEMMA RunLinks ==
  ASSUME IInv, LInv, NEW h \in Host, RunListen(h) \/ RunUnlisten(h) \/ RunNotify(h)
  PROVE  LInv'
<1>0. LinkTypes /\ claims \in [Poll -> ClaimState]
  BY DEF IInv, Shapes, LInv
<1>1. StatementRuns(h)
  BY DEF RunListen, RunUnlisten, RunNotify, StatementRuns
<1>2. /\ pipe' \in [Host -> Seq(Statement)]
      /\ Head(pipe[h]) = pipe[h][1] /\ 1 \in 1..Len(pipe[h]) /\ pipe[h][1] \in Statement
  BY <1>0, <1>1, PipeRuns
<1>3. CASE RunListen(h)
  <2> DEFINE p == Head(pipe[h]).by
  <2>1. p \in Poll /\ claims[p].pc = "listen" /\ claims[p].host = h
    BY <1>2, <1>3, StatementKinds DEF RunListen, LInv, Listens
  <2>2. /\ \A q \in Poll \ {p} : claims'[q] = claims[q]
        /\ claims'[p].pc = "bound" /\ claims'[p].host = h
    BY <1>0, <1>3, <2>1 DEF RunListen, ClaimState
  <2>3. LinkTypes'
    BY <1>0, <1>2, <1>3 DEF RunListen, LinkTypes, table
  <2>4. /\ listening'[h] /\ \A g \in Host \ {h} : listening'[g] = listening[g]
        /\ UNCHANGED <<conn, refs>>
    BY <1>0, <1>3 DEF RunListen, LinkTypes
  <2> HIDE DEF p
  <2>5. \A g \in Host : Holders(g)' = Holders(g)
    BY <2>1, <2>2 DEF Holders, Holding
  <2>6. Counting'
    BY <2>4, <2>5 DEF LInv, Counting
  <2>7. ClaimHosts'
    BY <2>1, <2>2, <2>4 DEF LInv, ClaimHosts, Up
  <2>8. \A q \in Poll : claims[q].pc = "listen" /\ ~(Head(pipe[h]).op = "LISTEN" /\ Head(pipe[h]).by = q)
          => claims'[q].pc = "listen" /\ claims'[q].host = claims[q].host
    <3>1. Head(pipe[h]).op = "LISTEN"
      BY <1>3 DEF RunListen
    <3> QED BY <2>2, <3>1 DEF p
  <2>9. Head(pipe[h]).op # "NOTIFY"
    BY <1>3 DEF RunListen
  <2> QED BY <1>1, <2>3, <2>4, <2>6, <2>7, <2>8, <2>9, StatementRan
<1>4. ASSUME UNCHANGED claims PROVE Counting' /\ ClaimHosts'
  BY <1>1, <1>4 DEF StatementRuns, LInv, Counting, Holders, ClaimHosts, Up
<1>5. CASE RunUnlisten(h)
  <2>1. LinkTypes'
    BY <1>0, <1>2, <1>5 DEF RunUnlisten, LinkTypes, table
  <2>2. /\ Head(pipe[h]).op = "UNLISTEN" /\ UNCHANGED claims
        /\ \A g \in Host \ {h} : listening'[g] = listening[g]
    BY <1>0, <1>5 DEF RunUnlisten, LinkTypes
  <2> QED BY <1>1, <1>4, <2>1, <2>2, StatementRan
<1>6. CASE RunNotify(h)
  <2>1. LinkTypes'
    <3>1. notes' \in [Host -> Nat]
      BY <1>0, <1>6 DEF RunNotify, LinkTypes
    <3>2. closer' \in [pc : {"idle", "flagged", "notifying", "done"}, host : Host \union {Null}]
      BY <1>0, <1>6 DEF RunNotify, LinkTypes, ClosedDown
    <3> QED BY <1>0, <1>2, <1>6, <3>1, <3>2 DEF RunNotify, LinkTypes
  <2>2. Head(pipe[h]).op = "NOTIFY" /\ UNCHANGED <<claims, listening>>
    BY <1>6 DEF RunNotify
  <2> QED BY <1>1, <1>4, <2>1, <2>2, StatementRan
<1> QED BY <1>3, <1>5, <1>6

-----------------------------------------------------------------------------
(* Connections come and go.                                                *)

LEMMA ConnLinks ==
  ASSUME LInv, NEW h \in Host,
         Disconnect(h) \/ Connect(h) \/ Replay(h) \/ GoLive(h) \/ Start(h)
  PROVE  LInv'
<1>0. LinkTypes
  BY DEF LInv
<1>1. /\ UNCHANGED <<terminated, closer, claims, pipe, notes, refs, breaks>>
      /\ faults' \in Nat
  BY <1>0 DEF LinkTypes, Disconnect, Fault, Connect, Replay, GoLive, Start, table
<1>2. /\ conn' \in [Host -> {"live", "dying", "down", "replaying", "starting"}]
      /\ listening' \in [Host -> BOOLEAN]
      /\ \A g \in Host \ {h} : conn'[g] = conn[g] /\ listening'[g] = listening[g]
  <2>1. CASE Disconnect(h)
    BY <1>0, <2>1 DEF LinkTypes, Disconnect
  <2>2. CASE Connect(h)
    BY <1>0, <2>2 DEF LinkTypes, Connect
  <2>3. CASE Replay(h)
    BY <1>0, <2>3 DEF LinkTypes, Replay
  <2>4. CASE GoLive(h)
    BY <1>0, <2>4 DEF LinkTypes, GoLive
  <2>5. CASE Start(h)
    BY <1>0, <2>5 DEF LinkTypes, Start
  <2> QED BY <2>1, <2>2, <2>3, <2>4, <2>5
<1>3. LinkTypes'
  BY <1>0, <1>1, <1>2 DEF LinkTypes
<1>4. conn'[h] # "starting"
  BY <1>0 DEF LinkTypes, Disconnect, Connect, Replay, GoLive, Start
<1>5. Counting' /\ ClaimHosts'
  <2>1. \A g \in Host : Up(g) => Up(g)'
    BY <1>2, <1>4 DEF Up
  <2>2. Counting'
    BY <1>1 DEF LInv, Counting, Holders
  <2> QED BY <1>1, <2>1, <2>2 DEF LInv, ClaimHosts
<1>6. Listens'
  BY <1>1 DEF LInv, Listens
<1>7. NoUnlisten'
  <2>1. conn'[h] \in {"down", "replaying"} => conn[h] \in {"down", "replaying"}
    BY <1>0 DEF LinkTypes, Disconnect, Connect, Replay, GoLive, Start
  <2> QED BY <1>1, <1>2, <2>1 DEF LInv, NoUnlisten
<1>8. StillListening'
  <2> SUFFICES ASSUME NEW g \in Host, conn'[g] = "live", refs[g] > 0 PROVE WillListen(g)'
    BY <1>1 DEF StillListening
  <2>1. CASE g # h
    BY <1>1, <1>2, <2>1 DEF LInv, StillListening, WillListen
  <2>2. CASE g = h /\ GoLive(h)
    <3>1. /\ listening[h] /\ UNCHANGED listening
          /\ \A i \in 1..Len(pipe[h]) : pipe[h][i].op # "UNLISTEN"
      BY <2>2 DEF GoLive, ReplayReady, LInv, NoUnlisten
    <3>2. pipe[h] \in Seq(Statement) /\ listening[h] \in BOOLEAN
      BY <1>0 DEF LinkTypes
    <3>3. \A i, j \in 1..Len(pipe[h]) :
            pipe[h][i].op = "LISTEN" /\ pipe[h][j].op = "LISTEN" => i = j
      BY DEF LInv, Listens
    <3>4. Ends(pipe[h], listening[h])
      BY <3>1, <3>2, <3>3, NoUnlistenEnds
    <3> QED BY <1>1, <2>2, <3>1, <3>4 DEF WillListen, Ends
  <2>3. CASE g = h /\ Start(h)
    <3>1. Holders(h) = {}
      BY <2>3 DEF Start, LInv, ClaimHosts, Up, Holders, Holding
    <3>2. refs[h] = 0
      BY <3>1, FS_EmptySet DEF LInv, Counting
    <3> QED BY <2>3, <3>2
  <2>4. CASE g = h /\ (Disconnect(h) \/ Connect(h) \/ Replay(h))
    <3>1. conn'[h] # "live"
      BY <1>0, <2>4 DEF LinkTypes, Disconnect, Connect, Replay
    <3> QED BY <2>4, <3>1
  <2> QED BY <2>1, <2>2, <2>3, <2>4
<1> QED BY <1>3, <1>5, <1>6, <1>7, <1>8 DEF LInv

LEMMA NotificationLinks ==
  ASSUME LInv, NEW h \in Host, OnNotification(h)
  PROVE  LInv'
<1>0. LinkTypes
  BY DEF LInv
<1>1. notes' \in [Host -> Nat]
  BY <1>0 DEF OnNotification, LinkTypes
<1>2. LinkTypes' /\ UNCHANGED <<conn, listening, pipe, refs>>
  BY <1>0, <1>1 DEF OnNotification, LinkTypes, table
<1>3. ClaimsRest
  BY DEF OnNotification, Waiting, ClaimsRest
<1> QED BY <1>2, <1>3, Quiet

\* The connection of h is lost, or could not be made.
LEMMA RejectedLinks ==
  ASSUME IInv, LInv, NEW h \in Host, OnClientError(h) \/ ConnectFails(h)
  PROVE  LInv'
<1> DEFINE failed == {p \in Poll : claims[p].pc = "listen" /\ claims[p].host = h}
<1>0. LinkTypes /\ claims \in [Poll -> ClaimState]
  BY DEF IInv, Shapes, LInv
<1>1. /\ Rejected(h) /\ conn[h] # "starting"
      /\ conn' = [conn EXCEPT ![h] = "down"] /\ notes' = [notes EXCEPT ![h] = 0]
      /\ listening' \in [Host -> BOOLEAN]
      /\ \A g \in Host \ {h} : listening'[g] = listening[g]
      /\ faults' \in Nat /\ UNCHANGED breaks
  <2>1. CASE OnClientError(h)
    BY <1>0, <2>1 DEF OnClientError, LinkTypes
  <2>2. CASE ConnectFails(h)
    BY <1>0, <2>2 DEF ConnectFails, Fault, LinkTypes
  <2> QED BY <2>1, <2>2
<1>2. /\ \A p \in failed : claims'[p].pc = "done" /\ claims'[p].host = h
      /\ \A p \in Poll \ failed : claims'[p] = claims[p]
  <2> DEFINE new(p) == [claims[p] EXCEPT !.pc = "done", !.answer = "error"]
  <2>1. claims' = [p \in Poll |-> IF p \in failed THEN new(p) ELSE claims[p]]
    BY <1>1 DEF Rejected
  <2>2. \A p \in Poll : new(p).pc = "done" /\ new(p).host = claims[p].host
    BY <1>0 DEF ClaimState
  <2> HIDE DEF new
  <2> QED BY <2>1, <2>2
<1>3. /\ pipe' \in [Host -> Seq(Statement)] /\ Len(pipe'[h]) = 0
      /\ \A g \in Host \ {h} : pipe'[g] = pipe[g]
  BY <1>0, <1>1, EmptySeq DEF Rejected, LinkTypes
<1>4. Holders(h)' = Holders(h) \ failed /\ failed \subseteq Holders(h)
  BY <1>2 DEF Holders, Holding
<1>5. \A g \in Host \ {h} : Holders(g)' = Holders(g)
  BY <1>2 DEF Holders
<1>6. /\ IsFiniteSet(Holders(h)') /\ Cardinality(Holders(h)') = refs[h] - Cardinality(failed)
      /\ Cardinality(Holders(h)') \in Nat
  <2>1. IsFiniteSet(Holders(h)) /\ refs[h] = Cardinality(Holders(h))
    BY DEF LInv, Counting
  <2>2. Holders(h) \intersect failed = failed
    BY <1>4
  <2> HIDE DEF failed
  <2>3. /\ IsFiniteSet(Holders(h) \ failed)
        /\ Cardinality(Holders(h) \ failed) = Cardinality(Holders(h)) - Cardinality(failed)
    BY <2>1, <2>2, FS_Difference
  <2>4. Cardinality(Holders(h) \ failed) \in Nat
    BY <2>3, FS_CardinalityType
  <2> QED BY <1>4, <2>1, <2>3, <2>4
<1>7. /\ refs' \in [Host -> Nat] /\ refs'[h] = refs[h] - Cardinality(failed)
      /\ \A g \in Host \ {h} : refs'[g] = refs[g]
  <2>1. refs' = [refs EXCEPT ![h] = refs[h] - Cardinality(failed)]
    BY <1>1 DEF Rejected, Returned
  <2> HIDE DEF failed
  <2> QED BY <1>0, <1>6, <2>1 DEF LinkTypes
<1>8. LinkTypes'
  <2>1. terminated' = terminated
        /\ closer' \in [pc : {"idle", "flagged", "notifying", "done"}, host : Host \union {Null}]
    BY <1>0, <1>1 DEF Rejected, ClosedDown, LinkTypes
  <2> QED BY <1>0, <1>1, <1>3, <1>7, <2>1 DEF LinkTypes
<1> HIDE DEF failed
<1>9. Counting'
  <2>1. \A g \in Host \ {h} : IsFiniteSet(Holders(g)') /\ refs'[g] = Cardinality(Holders(g)')
    BY <1>5, <1>7 DEF LInv, Counting
  <2> QED BY <1>6, <1>7, <2>1 DEF Counting
<1>10. ClaimHosts'
  <2>1. \A g \in Host : Up(g) => Up(g)'
    BY <1>0, <1>1 DEF Up, LinkTypes
  <2>2. \A p \in failed : claims[p].pc # "idle" /\ claims[p].host = h
    BY DEF failed
  <2> QED BY <1>2, <2>1, <2>2 DEF LInv, ClaimHosts
<1>11. Listens'
  <2> SUFFICES ASSUME NEW g \in Host, NEW i \in 1..Len(pipe'[g]), pipe'[g][i].op = "LISTEN"
               PROVE  /\ claims'[pipe'[g][i].by].pc = "listen"
                      /\ claims'[pipe'[g][i].by].host = g
                      /\ \A j \in 1..Len(pipe'[g]) : pipe'[g][j].op = "LISTEN" => j = i
    BY DEF Listens
  <2>1. g # h /\ pipe'[g] = pipe[g]
    BY <1>3
  <2>2. pipe[g][i] \in Statement
    BY <1>0, <2>1, ElementOfSeq DEF LinkTypes
  <2>3. pipe[g][i].by \in Poll /\ claims[pipe[g][i].by].host = g
    BY <2>1, <2>2, StatementKinds DEF LInv, Listens
  <2>4. claims'[pipe[g][i].by] = claims[pipe[g][i].by]
    BY <1>2, <2>1, <2>3 DEF failed
  <2> QED BY <2>1, <2>4 DEF LInv, Listens
<1>12. NoUnlisten'
  BY <1>0, <1>1, <1>3 DEF LInv, NoUnlisten, LinkTypes
<1>13. StillListening'
  <2> SUFFICES ASSUME NEW g \in Host, conn'[g] = "live", refs'[g] > 0 PROVE WillListen(g)'
    BY DEF StillListening
  <2>1. g # h /\ conn[g] = "live"
    BY <1>0, <1>1 DEF LinkTypes
  <2>2. pipe'[g] = pipe[g] /\ refs'[g] = refs[g] /\ listening'[g] = listening[g]
    BY <1>1, <1>3, <1>7, <2>1
  <2>3. WillListen(g)
    BY <2>1, <2>2 DEF LInv, StillListening
  <2> QED BY <2>2, <2>3 DEF WillListen
<1> QED BY <1>8, <1>9, <1>10, <1>11, <1>12, <1>13 DEF LInv

LEMMA CrashLinks ==
  ASSUME IInv, LInv, NEW h \in Host, Crash(h)
  PROVE  LInv'
<1>0. LinkTypes /\ claims \in [Poll -> ClaimState]
  BY DEF IInv, Shapes, LInv
<1>1. /\ conn' = [conn EXCEPT ![h] = "starting"] /\ listening' = [listening EXCEPT ![h] = FALSE]
      /\ pipe' = [pipe EXCEPT ![h] = << >>] /\ notes' = [notes EXCEPT ![h] = 0]
      /\ refs' = [refs EXCEPT ![h] = 0] /\ UNCHANGED <<terminated, breaks>>
  BY DEF Crash
<1>2. /\ \A p \in Poll : claims[p].host = h => claims'[p].pc = "idle" /\ claims'[p].host = Null
      /\ \A p \in Poll : claims[p].host # h => claims'[p] = claims[p]
  BY DEF Crash, IdleClaim
<1>3. LinkTypes'
  <2>1. closer' \in [pc : {"idle", "flagged", "notifying", "done"}, host : Host \union {Null}]
    BY <1>0 DEF Crash, ClosedDown, LinkTypes
  <2>2. pipe' \in [Host -> Seq(Statement)]
    BY <1>0, <1>1, EmptySeq DEF LinkTypes
  <2>3. faults' \in Nat
    BY <1>0 DEF Crash, Fault, LinkTypes
  <2> QED BY <1>0, <1>1, <2>1, <2>2, <2>3 DEF LinkTypes
<1>4. Counting'
  <2>1. Holders(h)' = {} /\ \A g \in Host \ {h} : Holders(g)' = Holders(g)
    BY <1>2, InboxNullAssumption DEF Holders, Holding
  <2>2. refs'[h] = 0 /\ \A g \in Host \ {h} : refs'[g] = refs[g]
    BY <1>0, <1>1 DEF LinkTypes
  <2>3. \A g \in Host \ {h} : IsFiniteSet(Holders(g)') /\ refs'[g] = Cardinality(Holders(g)')
    BY <2>1, <2>2 DEF LInv, Counting
  <2> QED BY <2>1, <2>2, <2>3, FS_EmptySet DEF Counting
<1>5. ClaimHosts'
  BY <1>0, <1>1, <1>2 DEF LInv, ClaimHosts, Up, LinkTypes
<1>6. /\ Len(pipe'[h]) = 0 /\ conn'[h] = "starting"
      /\ \A g \in Host \ {h} : /\ pipe'[g] = pipe[g] /\ conn'[g] = conn[g]
                               /\ refs'[g] = refs[g] /\ listening'[g] = listening[g]
  BY <1>0, <1>1 DEF LinkTypes
<1>7. Listens'
  <2> SUFFICES ASSUME NEW g \in Host, NEW i \in 1..Len(pipe'[g]), pipe'[g][i].op = "LISTEN"
               PROVE  /\ claims'[pipe'[g][i].by].pc = "listen"
                      /\ claims'[pipe'[g][i].by].host = g
                      /\ \A j \in 1..Len(pipe'[g]) : pipe'[g][j].op = "LISTEN" => j = i
    BY DEF Listens
  <2>1. g # h /\ pipe'[g] = pipe[g]
    BY <1>6
  <2>2. pipe[g][i] \in Statement
    BY <1>0, <2>1, ElementOfSeq DEF LinkTypes
  <2>3. pipe[g][i].by \in Poll /\ claims[pipe[g][i].by].host = g
    BY <2>1, <2>2, StatementKinds DEF LInv, Listens
  <2>4. claims'[pipe[g][i].by] = claims[pipe[g][i].by]
    BY <1>2, <2>1, <2>3
  <2> QED BY <2>1, <2>4 DEF LInv, Listens
<1>8. NoUnlisten'
  BY <1>6 DEF LInv, NoUnlisten
<1>9. StillListening'
  BY <1>6 DEF LInv, StillListening, WillListen
<1> QED BY <1>3, <1>4, <1>5, <1>7, <1>8, <1>9 DEF LInv

-----------------------------------------------------------------------------
(* The invariant, and what it says.                                        *)

LEMMA StepLInv == IInv /\ LInv /\ [Next]_vars => LInv'
<1> SUFFICES ASSUME IInv, LInv, [Next]_vars PROVE LInv'
  OBVIOUS
<1>1. CASE UNCHANGED vars
  <2>1. LinkTypes' /\ UNCHANGED <<claims, conn, listening, pipe, refs>>
    BY <1>1 DEF vars, LInv, LinkTypes
  <2> QED BY <2>1, SameClaimsRest, Quiet
<1>2. ASSUME NEW h \in Host, Link(h) \/ Failure(h) PROVE LInv'
  BY <1>2, RunLinks, ConnLinks, NotificationLinks, RejectedLinks, CrashLinks DEF Link, Answers, Failure
<1> QED BY <1>1, <1>2, QueueLinks, TerminateLinks, ClaimLinks, RunnerLinks DEF Next

LEMMA AlwaysLInv == Spec => [](IInv /\ LInv)
<1>1. Init => IInv /\ LInv
  BY InitIInv, InitLInv
<1>2. IInv /\ LInv /\ [Next]_vars => (IInv /\ LInv)'
  BY StepIInv, StepLInv
<1> QED BY <1>1, <1>2, PTL DEF Spec

\* Every variable of the inbox keeps its type; the counts are never negative.
THEOREM TypeCorrect == Spec => []TypeOK
<1>1. IInv /\ LInv => TypeOK
  <2>1. Dense => DOMAIN inbox \subseteq Nat
    BY DEF Dense
  <2> QED BY <2>1 DEF IInv, Shapes, LInv, LinkTypes, TypeOK
<1> QED BY <1>1, AlwaysLInv, PTL

\* ensureListen and its releases keep the number of the claims that hold a
\* reference, through failed LISTENs, lost connections and crashes (inbox.ts).
THEOREM ReferencesAreCounted == Spec => []RefsCounted
<1>1. LInv => RefsCounted
  BY DEF LInv, Counting, RefsCounted, Holders, Holding
<1> QED BY <1>1, AlwaysLInv, PTL

\* While a host counts a claim, its live connection listens on the channel or
\* has been asked to, with no UNLISTEN behind (inbox.ts, listen-connection.ts).
THEOREM ListenedWhileCounted == Spec => []StillListening
<1>1. LInv => StillListening
  BY DEF LInv
<1> QED BY <1>1, AlwaysLInv, PTL

-----------------------------------------------------------------------------
(***************************************************************************)
(* Proofs about the wakes of a poll, for any number of hosts and entries,  *)
(* when no connection is lost and the runner has one poll at a time: no    *)
(* wake is lost, and a notification is heard wherever a claim is parked.   *)
(* Without either of the two conditions they are not true.                 *)
(***************************************************************************)

Quietly == MaxFaults = 0 /\ \A p, q \in Poll : p = q

AllLive == \A h \in Host : conn[h] = "live"

\* An UNLISTEN in a pipe is older than a LISTEN in it.
ListenIsLast ==
  \A h \in Host : \A i, j \in 1..Len(pipe[h]) :
    pipe[h][i].op = "LISTEN" /\ pipe[h][j].op = "UNLISTEN" => j < i

\* The claim that has its LISTEN is listened for.
Attended ==
  \A p \in Poll : claims[p].pc \in {"bound", "parked"} =>
    /\ listening[claims[p].host]
    /\ \A i \in 1..Len(pipe[claims[p].host]) : pipe[claims[p].host][i].op # "UNLISTEN"

Announcing == \E e \in Entry : calls[e].pc \in {"notify", "notifying"}

\* A parked claim whose entry is there, or whose session has ended, will know.
EntryKnown ==
  \A p \in Poll : claims[p].pc = "parked" /\ claims[p].cursor \in DOMAIN inbox =>
    "fetch" \in claims[p].wakes \/ notes[claims[p].host] > 0 \/ Announcing

EndKnown ==
  \A p \in Poll : claims[p].pc = "parked" /\ terminated =>
    \/ claims[p].wakes # {} \/ notes[claims[p].host] > 0
    \/ Announcing \/ closer.pc \in {"flagged", "notifying"}

WInv == AllLive /\ ListenIsLast /\ Attended /\ EntryKnown /\ EndKnown

Base == IInv /\ LInv /\ WInv

LEMMA Typed ==
  ASSUME Base
  PROVE  /\ LinkTypes /\ claims \in [Poll -> ClaimState] /\ calls \in [Entry -> CallState]
         /\ ClaimHosts
BY DEF Base, IInv, Shapes, LInv

\* A fault does not happen, and nothing that follows one.
LEMMA NoFault ==
  ASSUME Quietly, Base, NEW h \in Host
  PROVE  /\ ~Failure(h) /\ ~OnClientError(h) /\ ~Connect(h) /\ ~Replay(h) /\ ~GoLive(h)
         /\ ~Start(h)
<1>1. faults \in Nat /\ conn[h] = "live"
  BY Typed DEF LinkTypes, Base, WInv, AllLive
<1>2. ~Fault
  BY <1>1 DEF Quietly, Fault
<1> QED BY <1>1, <1>2 DEF Failure, Disconnect, ConnectFails, Crash, OnClientError, Connect,
                          Replay, GoLive, Start

LEMMA InitWInv == Init => WInv
<1> SUFFICES ASSUME Init PROVE WInv
  OBVIOUS
<1>1. /\ \A h \in Host : conn[h] = "live" /\ Len(pipe[h]) = 0
      /\ \A p \in Poll : claims[p].pc = "idle"
  BY DEF Init, IdleClaim
<1> QED BY <1>1 DEF WInv, AllLive, ListenIsLast, Attended, EntryKnown, EndKnown

-----------------------------------------------------------------------------
(* Steps that take no wake away.                                           *)

\* Claims that were not waiting may do anything but wait; others stay.
WaitersStay ==
  \A p \in Poll :
    \/ claims'[p].pc \notin {"bound", "parked"}
    \/ /\ claims[p].pc = "bound" /\ claims'[p].pc = "parked"
       /\ "fetch" \in claims'[p].wakes /\ claims'[p].host = claims[p].host
    \/ claims'[p] = claims[p]

LinksStay == UNCHANGED <<conn, listening, pipe, notes>>

LEMMA LinksStayed ==
  ASSUME WInv, LinksStay, WaitersStay
  PROVE  AllLive' /\ ListenIsLast' /\ Attended'
<1>1. AllLive' /\ ListenIsLast'
  BY DEF WInv, AllLive, ListenIsLast, LinksStay
<1>2. Attended'
  BY DEF WInv, Attended, LinksStay, WaitersStay
<1> QED BY <1>1, <1>2

LEMMA WakesStayed ==
  ASSUME WInv, WaitersStay, UNCHANGED <<inbox, terminated, closer, notes>>,
         Announcing => Announcing'
  PROVE  EntryKnown' /\ EndKnown'
<1>1. EntryKnown'
  BY DEF WInv, EntryKnown, WaitersStay
<1>2. EndKnown'
  BY DEF WInv, EndKnown, WaitersStay
<1> QED BY <1>1, <1>2

LEMMA QueueWakes ==
  ASSUME Quietly, Base, NEW e \in Entry, Queue(e)
  PROVE  WInv'
<1>0. LinkTypes /\ calls \in [Entry -> CallState]
  BY Typed
<1>1. UNCHANGED <<claims, conn, listening, notes, terminated, closer>>
  BY DEF Queue, QueueStart, QueueRead, QueueInsert, QueueConflict, QueueNotify, network
<1>2. WaitersStay
  BY <1>1 DEF WaitersStay
<1>3. Announcing => Announcing'
  BY <1>0 DEF Queue, QueueStart, QueueRead, QueueInsert, QueueConflict, QueueNotify, Announcing,
              CallState, Ended, IdleCall
<1>4. EntryKnown' /\ EndKnown'
  <2>1. CASE UNCHANGED inbox
    BY <1>1, <1>2, <1>3, <2>1, WakesStayed DEF Base
  <2>2. CASE QueueInsert(e)
    <3>1. Announcing'
      BY <1>0, <2>2 DEF QueueInsert, Announcing, CallState
    <3> QED BY <3>1 DEF EntryKnown, EndKnown
  <2> QED BY <2>1, <2>2 DEF Queue, QueueStart, QueueRead, QueueConflict, QueueNotify
<1>5. AllLive' /\ ListenIsLast' /\ Attended'
  <2>1. CASE UNCHANGED pipe
    BY <1>1, <1>2, <2>1, LinksStayed DEF Base, LinksStay
  <2>2. CASE QueueNotify(e)
    <3>1. Submit(calls[e].host, Notify(e)) /\ calls[e].host \in Host \union {Null}
      BY <1>0, <2>2 DEF QueueNotify, CallState
    <3>2. CASE calls[e].host \in Host
      <4>1. Notify(e) \in Statement /\ Notify(e).op = "NOTIFY"
        BY DEF Notify, Statement
      <4>2. \A g \in Host : \A i \in 1..Len(pipe'[g]) :
              pipe'[g][i].op = "NOTIFY" \/ (i \in 1..Len(pipe[g]) /\ pipe'[g][i] = pipe[g][i])
        BY <1>0, <3>1, <3>2, <4>1, Submitted
      <4>3. AllLive' /\ ListenIsLast'
        BY <1>1, <4>2 DEF Base, WInv, AllLive, ListenIsLast
      <4>4. Attended'
        BY <1>1, <4>2, Typed DEF Base, WInv, Attended, ClaimHosts
      <4> QED BY <4>3, <4>4
    <3>3. CASE calls[e].host = Null
      <4>1. UNCHANGED pipe
        BY <1>0, <3>1, <3>3, InboxNullAssumption DEF Submit, LinkTypes
      <4> QED BY <2>1, <4>1
    <3> QED BY <3>1, <3>2, <3>3
  <2> QED BY <2>1, <2>2 DEF Queue, QueueStart, QueueRead, QueueInsert, QueueConflict, network
<1> QED BY <1>4, <1>5 DEF WInv

LEMMA TerminateWakes ==
  ASSUME Quietly, Base, Terminate
  PROVE  WInv'
<1>0. LinkTypes
  BY Typed
<1>1. /\ UNCHANGED <<claims, calls, inbox, conn, listening, notes>>
      /\ closer'.pc \in {"flagged", "notifying"}
  BY <1>0 DEF Terminate, TerminateFlag, TerminateNotify, network, LinkTypes
<1>2. EntryKnown' /\ EndKnown'
  <2>1. Announcing' = Announcing
    BY <1>1 DEF Announcing
  <2> QED BY <1>1, <2>1 DEF Base, WInv, EntryKnown, EndKnown
<1>3. AllLive' /\ ListenIsLast' /\ Attended'
  <2>1. CASE UNCHANGED pipe
    <3>1. WaitersStay
      BY <1>1 DEF WaitersStay
    <3> QED BY <1>1, <2>1, <3>1, LinksStayed DEF Base, LinksStay
  <2>2. CASE TerminateNotify
    <3>1. Submit(closer.host, Notify(Null)) /\ closer.host \in Host \union {Null}
      BY <1>0, <2>2 DEF TerminateNotify, LinkTypes
    <3>2. CASE closer.host \in Host
      <4>1. Notify(Null) \in Statement /\ Notify(Null).op = "NOTIFY"
        BY DEF Notify, Statement
      <4>2. \A g \in Host : \A i \in 1..Len(pipe'[g]) :
              pipe'[g][i].op = "NOTIFY" \/ (i \in 1..Len(pipe[g]) /\ pipe'[g][i] = pipe[g][i])
        BY <1>0, <3>1, <3>2, <4>1, Submitted
      <4>3. AllLive' /\ ListenIsLast'
        BY <1>1, <4>2 DEF Base, WInv, AllLive, ListenIsLast
      <4>4. Attended'
        BY <1>1, <4>2, Typed DEF Base, WInv, Attended, ClaimHosts
      <4> QED BY <4>3, <4>4
    <3>3. CASE closer.host = Null
      <4>1. UNCHANGED pipe
        BY <1>0, <3>1, <3>3, InboxNullAssumption DEF Submit, LinkTypes
      <4> QED BY <2>1, <4>1
    <3> QED BY <3>1, <3>2, <3>3
  <2> QED BY <2>1, <2>2 DEF Terminate, TerminateFlag, network
<1> QED BY <1>2, <1>3 DEF WInv

-----------------------------------------------------------------------------
(* The steps of the one claim.                                             *)

LEMMA RunnerWakes ==
  ASSUME Quietly, Base, Runner
  PROVE  WInv'
<1>0. claims \in [Poll -> ClaimState]
  BY Typed
<1>1. LinksStay /\ UNCHANGED <<inbox, terminated, closer, calls>>
  BY DEF Runner, Polls, PollStart, RunnerTakes, RunnerGivesUp, PollTimesOut, RunnerExits, LinksStay, table, network
<1>2. WaitersStay
  <2>1. ASSUME NEW p \in Poll, NEW h \in Host, PollStart(p, h) PROVE WaitersStay
    <3> DEFINE new == [IdleClaim EXCEPT !.pc = "fetch", !.host = h, !.cursor = runner.cursor]
    <3>1. new.pc = "fetch"
      BY DEF IdleClaim
    <3>2. claims' = [claims EXCEPT ![p] = new]
      BY <2>1 DEF PollStart
    <3> HIDE DEF new
    <3> QED BY <1>0, <3>1, <3>2 DEF WaitersStay
  <2>2. ASSUME NEW p \in Poll, RunnerTakes(p) PROVE WaitersStay
    BY <1>0, <2>2 DEF RunnerTakes, WaitersStay, IdleClaim
  <2>3. CASE RunnerGivesUp \/ PollTimesOut \/ RunnerExits
    BY <2>3 DEF RunnerGivesUp, PollTimesOut, RunnerExits, WaitersStay
  <2> QED BY <2>1, <2>2, <2>3 DEF Runner, Polls
<1>3. Announcing => Announcing'
  BY <1>1 DEF Announcing
<1> QED BY <1>1, <1>2, <1>3, LinksStayed, WakesStayed DEF Base, WInv, LinksStay

\* With one poll, a claim that is about to bind is the first on its channel,
\* and nobody LISTENs while a claim is parked.
LEMMA OneClaim ==
  ASSUME Quietly, Base, NEW p \in Poll
  PROVE  /\ claims[p].pc \notin Holding => \A h \in Host : refs[h] = 0
         /\ claims[p].pc # "listen" =>
              \A h \in Host : \A i \in 1..Len(pipe[h]) : pipe[h][i].op # "LISTEN"
<1>1. ASSUME claims[p].pc \notin Holding, NEW h \in Host PROVE refs[h] = 0
  <2>1. Holders(h) = {}
    BY <1>1 DEF Quietly, Holders
  <2> QED BY <2>1, FS_EmptySet DEF Base, LInv, Counting
<1>2. ASSUME claims[p].pc # "listen", NEW h \in Host, NEW i \in 1..Len(pipe[h]),
             pipe[h][i].op = "LISTEN"
      PROVE  FALSE
  <2>1. pipe[h][i] \in Statement
    BY Typed, ElementOfSeq DEF LinkTypes
  <2>2. pipe[h][i].by = p
    BY <1>2, <2>1, StatementKinds DEF Quietly
  <2> QED BY <1>2, <2>2 DEF Base, LInv, Listens
<1> QED BY <1>1, <1>2

LEMMA BindWakes ==
  ASSUME Quietly, Base, NEW p \in Poll, ClaimBind(p)
  PROVE  WInv'
<1> DEFINE h == claims[p].host
<1>0. /\ LinkTypes /\ claims \in [Poll -> ClaimState] /\ h \in Host
      /\ claims[p].pc = "bind"
  BY Typed DEF ClaimBind, ClaimHosts
<1>1. refs[h] = 0
  BY <1>0, OneClaim DEF Holding
<1>2. claims'[p].pc = "listen" /\ \A q \in Poll : q = p
  BY <1>0, <1>1 DEF ClaimBind, Quietly, ClaimState
<1>3. Attended' /\ EntryKnown' /\ EndKnown'
  BY <1>2 DEF Attended, EntryKnown, EndKnown
<1>4. AllLive'
  BY DEF Base, WInv, AllLive, ClaimBind
<1>5. ListenIsLast'
  <2>1. Submit(h, Listen(p)) /\ Listen(p) \in Statement /\ Listen(p).op = "LISTEN"
    BY <1>1 DEF ClaimBind, Listen, Statement
  <2>2. \A g \in Host : \A i \in 1..Len(pipe'[g]) :
          \/ i \in 1..Len(pipe[g]) /\ pipe'[g][i] = pipe[g][i]
          \/ g = h /\ i = Len(pipe[h]) + 1 /\ pipe'[g][i] = Listen(p)
    BY <1>0, <2>1, Submitted
  <2>3. \A g \in Host : \A i \in 1..Len(pipe[g]) : pipe[g][i].op # "LISTEN"
    BY <1>0, OneClaim
  <2>4. Len(pipe[h]) \in Nat
    BY <1>0, LenProperties DEF LinkTypes
  <2> SUFFICES ASSUME NEW g \in Host, NEW i \in 1..Len(pipe'[g]), NEW j \in 1..Len(pipe'[g]),
                      pipe'[g][i].op = "LISTEN", pipe'[g][j].op = "UNLISTEN"
               PROVE  j < i
    BY DEF ListenIsLast
  <2>5. g = h /\ i = Len(pipe[h]) + 1
    BY <2>2, <2>3
  <2>6. j \in 1..Len(pipe[h])
    BY <2>1, <2>2, <2>5
  <2> QED BY <2>4, <2>5, <2>6
<1> QED BY <1>3, <1>4, <1>5 DEF WInv

LEMMA FinishWakes ==
  ASSUME Quietly, Base, NEW p \in Poll, NEW answer, Finish(p, answer)
  PROVE  WInv'
<1> DEFINE h == claims[p].host
<1>0. /\ LinkTypes /\ claims \in [Poll -> ClaimState] /\ h \in Host
      /\ claims[p].pc = "parked"
  BY Typed DEF Finish, ClaimHosts
<1>1. claims'[p].pc = "done" /\ \A q \in Poll : q = p
  BY <1>0 DEF Finish, Answered, Quietly, ClaimState
<1>2. Attended' /\ EntryKnown' /\ EndKnown'
  BY <1>1 DEF Attended, EntryKnown, EndKnown
<1>3. AllLive'
  BY DEF Base, WInv, AllLive, Finish
<1>4. \A g \in Host : \A i \in 1..Len(pipe'[g]) : pipe'[g][i].op # "LISTEN"
  <2>1. \A g \in Host : \A i \in 1..Len(pipe[g]) : pipe[g][i].op # "LISTEN"
    BY <1>0, OneClaim
  <2>2. Unlisten \in Statement /\ Unlisten.op = "UNLISTEN"
    BY DEF Unlisten, Statement
  <2>3. CASE UNCHANGED pipe
    BY <2>1, <2>3
  <2>4. CASE Submit(h, Unlisten)
    BY <1>0, <2>1, <2>2, <2>4, Submitted
  <2> QED BY <2>3, <2>4 DEF Finish
<1>5. ListenIsLast'
  BY <1>4 DEF ListenIsLast
<1> QED BY <1>2, <1>3, <1>5 DEF WInv

LEMMA ClaimWakes ==
  ASSUME Quietly, Base, NEW p \in Poll, Claim(p) \/ ClaimTimer(p)
  PROVE  WInv'
<1>0. claims \in [Poll -> ClaimState]
  BY Typed
<1>1. ASSUME UNCHANGED <<table, network>>, WaitersStay PROVE WInv'
  <2>1. LinksStay /\ UNCHANGED <<inbox, terminated, closer, notes, calls>>
    BY <1>1 DEF table, network, LinksStay
  <2>2. Announcing => Announcing'
    BY <2>1 DEF Announcing
  <2> QED BY <1>1, <2>1, <2>2, LinksStayed, WakesStayed DEF Base, WInv
<1>2. CASE ClaimFetch(p)
  <2>1. WaitersStay
    BY <1>0, <1>2 DEF ClaimFetch, Answered, WaitersStay, ClaimState
  <2> QED BY <1>1, <1>2, <2>1 DEF ClaimFetch, table, network
<1>3. CASE ClaimCheck(p)
  <2>1. WaitersStay
    BY <1>0, <1>3 DEF ClaimCheck, Answered, WaitersStay, ClaimState
  <2> QED BY <1>1, <1>3, <2>1 DEF ClaimCheck, table, network
<1>4. CASE ClaimPark(p)
  <2>1. WaitersStay
    BY <1>0, <1>4 DEF ClaimPark, FirstWake, WaitersStay, ClaimState
  <2> QED BY <1>1, <1>4, <2>1 DEF ClaimPark, table, network
<1>5. CASE ClaimForgotten(p)
  <2>1. WaitersStay
    BY <1>0, <1>5 DEF ClaimForgotten, WaitersStay, IdleClaim
  <2> QED BY <1>1, <1>5, <2>1 DEF ClaimForgotten, table, network
<1>6. ASSUME UNCHANGED <<table, network>>,
             \A q \in Poll \ {p} : claims'[q] = claims[q],
             claims'[p].pc = claims[p].pc, claims'[p].host = claims[p].host,
             claims'[p].cursor = claims[p].cursor,
             \/ claims[p].cursor \notin DOMAIN inbox /\ claims'[p].wakes # {}
             \/ ~terminated /\ ("fetch" \in claims[p].wakes => "fetch" \in claims'[p].wakes)
      PROVE  WInv'
  <2>1. UNCHANGED <<conn, listening, pipe, notes, inbox, terminated, closer, calls>>
    BY <1>6 DEF table, network
  <2>2. AllLive' /\ ListenIsLast'
    BY <2>1 DEF Base, WInv, AllLive, ListenIsLast
  <2>3. Attended'
    BY <1>6, <2>1 DEF Base, WInv, Attended
  <2>4. Announcing' = Announcing
    BY <2>1 DEF Announcing
  <2>5. EntryKnown'
    BY <1>6, <2>1, <2>4 DEF Base, WInv, EntryKnown
  <2>6. EndKnown'
    BY <1>6, <2>1, <2>4 DEF Base, WInv, EndKnown
  <2> QED BY <2>2, <2>3, <2>5, <2>6 DEF WInv
<1>7. CASE WakeFetch(p)
  <2>1. CASE claims[p].cursor \in DOMAIN inbox
    BY <1>7, <2>1, FinishWakes DEF WakeFetch
  <2>2. CASE claims[p].cursor \notin DOMAIN inbox
    <3>1. /\ UNCHANGED <<table, network>>
          /\ claims' = [claims EXCEPT ![p].wakes = (claims[p].wakes \ {"fetch"}) \union {"check"}]
      BY <1>7, <2>2 DEF WakeFetch, table, network
    <3> QED BY <1>0, <1>6, <2>2, <3>1 DEF ClaimState
  <2> QED BY <2>1, <2>2
<1>8. CASE WakeCheck(p)
  <2>1. CASE terminated
    BY <1>8, <2>1, FinishWakes DEF WakeCheck
  <2>2. CASE ~terminated
    <3>1. /\ UNCHANGED <<table, network>>
          /\ claims' = [claims EXCEPT ![p].wakes = claims[p].wakes \ {"check"}]
      BY <1>8, <2>2 DEF WakeCheck, table, network
    <3> QED BY <1>0, <1>6, <2>2, <3>1 DEF ClaimState
  <2> QED BY <2>1, <2>2
<1>9. CASE ClaimTimer(p)
  BY <1>9, FinishWakes DEF ClaimTimer
<1> QED BY <1>2, <1>3, <1>4, <1>5, <1>7, <1>8, <1>9, BindWakes DEF Claim

-----------------------------------------------------------------------------
(* The steps of a connection that lives.                                   *)

LEMMA StatementWakes ==
  ASSUME Quietly, Base, NEW h \in Host, RunListen(h) \/ RunUnlisten(h) \/ RunNotify(h)
  PROVE  WInv'
<1>0. /\ LinkTypes /\ claims \in [Poll -> ClaimState] /\ calls \in [Entry -> CallState]
      /\ StatementRuns(h)
  BY Typed DEF RunListen, RunUnlisten, RunNotify, StatementRuns
<1>1. /\ Head(pipe[h]) = pipe[h][1] /\ 1 \in 1..Len(pipe[h]) /\ pipe[h][1] \in Statement
      /\ \A g \in Host \ {h} : pipe'[g] = pipe[g]
      /\ \A i \in 1..Len(pipe'[h]) : i + 1 \in 1..Len(pipe[h]) /\ i + 1 # 1
                                     /\ pipe'[h][i] = pipe[h][i + 1]
  BY <1>0, PipeRuns
<1>2. AllLive'
  BY <1>0 DEF Base, WInv, AllLive, StatementRuns
<1>3. ListenIsLast'
  <2> SUFFICES ASSUME NEW g \in Host, NEW i \in 1..Len(pipe'[g]), NEW j \in 1..Len(pipe'[g]),
                      pipe'[g][i].op = "LISTEN", pipe'[g][j].op = "UNLISTEN"
               PROVE  j < i
    BY DEF ListenIsLast
  <2>1. CASE g # h
    BY <1>1, <2>1 DEF Base, WInv, ListenIsLast
  <2>2. CASE g = h
    <3>1. j + 1 < i + 1
      BY <1>1, <2>2 DEF Base, WInv, ListenIsLast
    <3> QED BY <3>1
  <2> QED BY <2>1, <2>2
\* What is left of the pipes has no UNLISTEN where there was none.
<1>4. ASSUME NEW g \in Host, \A i \in 1..Len(pipe[g]) : pipe[g][i].op # "UNLISTEN"
      PROVE  \A i \in 1..Len(pipe'[g]) : pipe'[g][i].op # "UNLISTEN"
  BY <1>1, <1>4
<1>5. CASE RunListen(h)
  <2> DEFINE p == Head(pipe[h]).by
  <2>1. p \in Poll /\ claims[p].pc = "listen" /\ claims[p].host = h
    BY <1>1, <1>5, StatementKinds DEF RunListen, Base, LInv, Listens
  <2>2. claims'[p].pc = "bound" /\ claims'[p].host = h /\ \A q \in Poll : q = p
    BY <1>0, <1>5, <2>1 DEF RunListen, Quietly, ClaimState
  <2>3. listening'[h]
    BY <1>0, <1>5 DEF RunListen, LinkTypes
  <2>4. \A i \in 1..Len(pipe'[h]) : pipe'[h][i].op # "UNLISTEN"
    <3> SUFFICES ASSUME NEW i \in 1..Len(pipe'[h]), pipe'[h][i].op = "UNLISTEN" PROVE FALSE
      OBVIOUS
    <3>1. i + 1 < 1
      BY <1>1, <1>5 DEF RunListen, Base, WInv, ListenIsLast
    <3> QED BY <3>1
  <2> HIDE DEF p
  <2>5. Attended' /\ EntryKnown' /\ EndKnown'
    BY <2>2, <2>3, <2>4 DEF Attended, EntryKnown, EndKnown
  <2> QED BY <1>2, <1>3, <2>5 DEF WInv
<1>6. CASE RunUnlisten(h)
  <2>1. /\ UNCHANGED <<claims, inbox, terminated, closer, calls, notes>>
        /\ \A g \in Host \ {h} : listening'[g] = listening[g]
        /\ pipe[h][1].op = "UNLISTEN"
    BY <1>0, <1>1, <1>6 DEF RunUnlisten, LinkTypes, table
  <2>2. Attended'
    <3> SUFFICES ASSUME NEW p \in Poll, claims[p].pc \in {"bound", "parked"}
                 PROVE  /\ listening'[claims[p].host]
                        /\ \A i \in 1..Len(pipe'[claims[p].host]) :
                             pipe'[claims[p].host][i].op # "UNLISTEN"
      BY <2>1 DEF Attended
    <3> DEFINE g == claims[p].host
    <3>1. g \in Host
      BY Typed DEF ClaimHosts
    <3>2. listening[g] /\ \A i \in 1..Len(pipe[g]) : pipe[g][i].op # "UNLISTEN"
      BY DEF Base, WInv, Attended
    <3>3. g # h
      <4>1. ASSUME g = h PROVE FALSE
        <5>1. \A i \in 1..Len(pipe[h]) : pipe[h][i].op # "UNLISTEN"
          BY <3>2, <4>1
        <5> QED BY <1>1, <2>1, <5>1
      <4> QED BY <4>1
    <3> QED BY <1>4, <2>1, <3>1, <3>2, <3>3
  <2>3. Announcing' = Announcing
    BY <2>1 DEF Announcing
  <2>4. EntryKnown' /\ EndKnown'
    BY <2>1, <2>3 DEF Base, WInv, EntryKnown, EndKnown
  <2> QED BY <1>2, <1>3, <2>2, <2>4 DEF WInv
<1>7. CASE RunNotify(h)
  <2>1. /\ UNCHANGED <<claims, inbox, terminated, listening>>
        /\ \A g \in Host : notes'[g] = IF listening[g] THEN notes[g] + 1 ELSE notes[g]
        /\ \A g \in Host : notes[g] \in Nat
    BY <1>0, <1>7 DEF RunNotify, Heard, LinkTypes
  <2>2. Attended'
    <3> SUFFICES ASSUME NEW p \in Poll, claims[p].pc \in {"bound", "parked"}
                 PROVE  /\ listening[claims[p].host]
                        /\ \A i \in 1..Len(pipe'[claims[p].host]) :
                             pipe'[claims[p].host][i].op # "UNLISTEN"
      BY <2>1 DEF Attended
    <3>1. claims[p].host \in Host
      BY Typed DEF ClaimHosts
    <3> QED BY <1>4, <3>1 DEF Base, WInv, Attended
  <2>3. \A p \in Poll : claims[p].pc = "parked" => notes'[claims[p].host] > 0
    <3> SUFFICES ASSUME NEW p \in Poll, claims[p].pc = "parked" PROVE notes'[claims[p].host] > 0
      OBVIOUS
    <3>1. claims[p].host \in Host /\ listening[claims[p].host]
      BY Typed DEF ClaimHosts, Base, WInv, Attended
    <3> QED BY <2>1, <3>1
  <2>4. EntryKnown' /\ EndKnown'
    BY <2>1, <2>3 DEF EntryKnown, EndKnown
  <2> QED BY <1>2, <1>3, <2>2, <2>4 DEF WInv
<1> QED BY <1>5, <1>6, <1>7

LEMMA NotificationWakes ==
  ASSUME Quietly, Base, NEW h \in Host, OnNotification(h)
  PROVE  WInv'
<1>0. LinkTypes /\ claims \in [Poll -> ClaimState]
  BY Typed
<1>1. UNCHANGED <<conn, listening, pipe, inbox, terminated, closer, calls>>
  BY DEF OnNotification, table
<1>2. \A g \in Host \ {h} : notes'[g] = notes[g]
  BY <1>0 DEF OnNotification, LinkTypes
<1>3. \A p \in Poll :
        IF claims[p].pc = "parked" /\ claims[p].host = h
        THEN /\ claims'[p].pc = "parked" /\ claims'[p].host = h /\ "fetch" \in claims'[p].wakes
        ELSE claims'[p] = claims[p]
  BY <1>0 DEF OnNotification, Waiting, ClaimState
<1>4. AllLive' /\ ListenIsLast'
  BY <1>1 DEF Base, WInv, AllLive, ListenIsLast
<1>5. Attended'
  BY <1>1, <1>3 DEF Base, WInv, Attended
<1>6. Announcing' = Announcing
  BY <1>1 DEF Announcing
<1>7. EntryKnown' /\ EndKnown'
  <2>1. \A p \in Poll : claims[p].pc = "parked" => claims[p].host \in Host
    BY Typed DEF ClaimHosts
  <2> QED BY <1>1, <1>2, <1>3, <1>6, <2>1 DEF Base, WInv, EntryKnown, EndKnown
<1> QED BY <1>4, <1>5, <1>7 DEF WInv

-----------------------------------------------------------------------------
(* The invariant, and what it says.                                        *)

LEMMA StepWInv ==
  ASSUME Quietly
  PROVE  Base /\ [Next]_vars => WInv'
<1> SUFFICES ASSUME Base, [Next]_vars PROVE WInv'
  OBVIOUS
<1>1. CASE UNCHANGED vars
  <2>1. LinksStay /\ WaitersStay /\ UNCHANGED <<inbox, terminated, closer, notes, calls>>
    BY <1>1 DEF vars, LinksStay, WaitersStay
  <2>2. Announcing' = Announcing
    BY <2>1 DEF Announcing
  <2> QED BY <2>1, <2>2, LinksStayed, WakesStayed DEF Base, WInv
<1>2. ASSUME NEW h \in Host, Link(h) \/ Failure(h) PROVE WInv'
  BY <1>2, NoFault, StatementWakes, NotificationWakes DEF Link, Answers
<1> QED BY <1>1, <1>2, QueueWakes, TerminateWakes, ClaimWakes, RunnerWakes DEF Next

LEMMA AlwaysBase ==
  ASSUME Quietly
  PROVE  Spec => []Base
<1>1. Init => WInv
  BY InitWInv
<1>2. Base /\ [Next]_vars => WInv'
  BY StepWInv
<1>3. Spec => [](IInv /\ LInv)
  BY AlwaysLInv
<1>4. IInv /\ LInv /\ WInv <=> Base
  BY DEF Base
<1> QED BY <1>1, <1>2, <1>3, <1>4, PTL DEF Spec

\* While no connection is lost and the runner polls once at a time, a poll that
\* waits for what is there already is about to look (inbox.ts, claim).
THEOREM WakesAreKept ==
  ASSUME Quietly
  PROVE  Spec => []NoLostWake
<1>1. Base => NoLostWake
  BY DEF Base, WInv, EntryKnown, EndKnown, Announcing, NoLostWake, WakeComing
<1> QED BY <1>1, AlwaysBase, PTL

\* Under the same conditions the notification of an entry reaches every host
\* that has a claim parked (eventbus and inbox.ts, queue).
THEOREM NotificationsAreHeard ==
  ASSUME Quietly
  PROVE  Spec => NotifyIsHeard
<1> DEFINE HeardBy ==
      \A e \in Entry, h \in Host :
        calls[e].pc = "notifying" /\ calls'[e].pc = "queued" /\ Waiting(h) # {}
          => notes'[h] > notes[h]
<1>1. ASSUME Base, [Next]_vars PROVE HeardBy
  <2> SUFFICES ASSUME NEW e \in Entry, NEW h \in Host,
                      calls[e].pc = "notifying", calls'[e].pc = "queued", Waiting(h) # {}
               PROVE  notes'[h] > notes[h]
    OBVIOUS
  <2>0. LinkTypes /\ calls \in [Entry -> CallState]
    BY <1>1, Typed
  <2>1. PICK g \in Host : RunNotify(g)
    <3>1. calls' # calls
      OBVIOUS
    <3>2. ASSUME NEW f \in Entry, Queue(f) PROVE FALSE
      BY <2>0, <3>2 DEF Queue, QueueStart, QueueRead, QueueInsert, QueueConflict, QueueNotify,
                        CallState, Ended, IdleCall
    <3>3. ASSUME NEW g \in Host, Link(g) \/ Failure(g) PROVE RunNotify(g)
      <4>1. ~Failure(g) /\ ~OnClientError(g) /\ ~Connect(g) /\ ~Replay(g) /\ ~GoLive(g) /\ ~Start(g)
        BY <1>1, NoFault
      <4> QED BY <3>1, <3>3, <4>1 DEF Link, Answers, RunListen, RunUnlisten, OnNotification, table
    <3>4. ~UNCHANGED vars
      BY <3>1 DEF vars
    <3>5. ~Terminate /\ ~Runner
      BY <3>1 DEF Terminate, TerminateFlag, TerminateNotify, Runner, Polls, PollStart,
                  RunnerTakes, RunnerGivesUp, PollTimesOut, RunnerExits, table
    <3>6. \A p \in Poll : ~Claim(p) /\ ~ClaimTimer(p)
      BY <3>1 DEF Claim, ClaimFetch, ClaimCheck, ClaimBind, ClaimPark, WakeFetch, WakeCheck,
                  ClaimForgotten, ClaimTimer, Finish, table
    <3> QED BY <1>1, <3>2, <3>3, <3>4, <3>5, <3>6 DEF Next
  <2>2. PICK p \in Poll : claims[p].pc = "parked" /\ claims[p].host = h
    BY DEF Waiting
  <2>3. listening[h]
    BY <1>1, <2>2 DEF Base, WInv, Attended
  <2>4. notes'[h] = notes[h] + 1 /\ notes[h] \in Nat
    BY <2>0, <2>1, <2>3 DEF RunNotify, Heard, LinkTypes
  <2> QED BY <2>4
<1>2. Spec => []Base
  BY AlwaysBase
<1>3. Base /\ [Next]_vars => [HeardBy]_vars
  BY <1>1
<1>4. NotifyIsHeard <=> [][HeardBy]_vars
  BY PTL DEF NotifyIsHeard
<1> QED BY <1>2, <1>3, <1>4, PTL DEF Spec

=============================================================================
