------------------------- MODULE TokenRefreshProofs -------------------------
(***************************************************************************)
(* Proofs about TokenRefresh: on a host one read at a time resolves, and   *)
(* the row's refresh token works unless a good one is on its way to the    *)
(* row, for any number of hosts, reads and faults.                         *)
(*                                                                         *)
(* RowWorks is inductive only with StoresFresh: two good tokens on their   *)
(* way to the row are different, so that whoever spends one leaves the     *)
(* other as it is.                                                         *)
(***************************************************************************)
EXTENDS TokenRefresh, TLAPS

\* A read that resolves is its host's read in flight.
SlotsFit == \A r \in Reader : read[r].at \in Resolving => slot[Here(r)] = r

\* What waits to be stored works, and nobody else has it: neither the row, nor
\* another read, nor the sign-in.
StoresFresh ==
    ~spoilt =>
        /\ \A r \in Reader : read[r].at \in {"clear", "store"} =>
              /\ read[r].snap \in Token /\ read[r].snap # row /\ read[r].snap # person.token
              /\ \A x \in Reader \ {r} : read[x].snap # read[r].snap
        /\ person.at = "store" =>
              /\ person.token \in Token /\ person.token # row
              /\ \A x \in Reader : read[x].snap # person.token
        /\ person.at # "store" => person.token = None

IInv == TypeOK /\ SlotsFit /\ StoresFresh /\ RowWorks

\* No token is mistaken for none, or for a spent one.
LEMMA TokensApart == None \notin Token /\ Spent \notin Token /\ None # Spent
BY Bounds DEF None, Token, Spent

\* The accessors of a read, and its updates, are always expanded.
USE DEF At, Here, Becomes, Goes, Table, Rest, Resolving

-----------------------------------------------------------------------------

\* What a read does when the row's answer has arrived: lead, join, or start over.
Led(r) ==
    /\ read[r].at \in {"found", "foundAgain"} /\ slot[Here(r)] = Null
    /\ Leads(r)
    /\ UNCHANGED <<Table, person, spoilt, faults>>
Joined(r, pc) ==
    /\ read[r].at \in {"found", "foundAgain"} /\ pc \in {"share", "wait"}
    /\ slot[Here(r)] # Null
    /\ Joins(r, pc)
    /\ UNCHANGED <<Table, person, spoilt, faults>>
Turned(r, new) ==
    /\ read[r].at \in {"found", "foundAgain"}
    /\ new \in {Resting(Here(r)), Afresh(r, FALSE), Being(r, "find", read[r].snap)}
    /\ Becomes(r, new)
    /\ UNCHANGED <<Table, slot, person, spoilt, faults>>

LEMMA KeepsLed ==
    ASSUME IInv, NEW r \in Reader, Led(r)
    PROVE  IInv'
<1>1. TypeOK'
    BY NullIsNoReader, TokensApart, Bounds DEF IInv, Led, TypeOK, Leads, Held, ReadAt, Being
<1>2. SlotsFit'
    BY NullIsNoReader, TokensApart DEF IInv, Led, SlotsFit, TypeOK, Leads, Held, ReadAt,
       Being
<1>3. StoresFresh'
    BY NullIsNoReader, TokensApart DEF IInv, Led, StoresFresh, TypeOK, Leads, Held, ReadAt,
       Being
<1>4. RowWorks'
    BY NullIsNoReader, TokensApart DEF IInv, Led, RowWorks, TypeOK, Leads, Held, ReadAt,
       Being
<1>. QED BY <1>1, <1>2, <1>3, <1>4 DEF IInv

LEMMA KeepsJoined ==
    ASSUME IInv, NEW r \in Reader, NEW pc, Joined(r, pc)
    PROVE  IInv'
<1>1. TypeOK'
    BY NullIsNoReader, TokensApart, Bounds DEF IInv, Joined, TypeOK, Joins, Held, ReadAt,
       Behind
<1>2. SlotsFit'
    BY NullIsNoReader, TokensApart DEF IInv, Joined, SlotsFit, TypeOK, Joins, Held, ReadAt,
       Behind
<1>3. StoresFresh'
    BY NullIsNoReader, TokensApart DEF IInv, Joined, StoresFresh, TypeOK, Joins, Held,
       ReadAt, Behind
<1>4. RowWorks'
    BY NullIsNoReader, TokensApart DEF IInv, Joined, RowWorks, TypeOK, Joins, Held, ReadAt,
       Behind
<1>. QED BY <1>1, <1>2, <1>3, <1>4 DEF IInv

LEMMA KeepsTurned ==
    ASSUME IInv, NEW r \in Reader, NEW new, Turned(r, new)
    PROVE  IInv'
<1>1. TypeOK'
    <2>1. TypeOK
        BY DEF IInv
    <2>. DEFINE ReadType == [at : ReadAt, host : Host, snap : Held, renew : BOOLEAN,
                             leader : Reader \union {Null}]
    <2>2. read[r] \in ReadType
        BY <2>1 DEF TypeOK
    <2>3. Resting(Here(r)) \in ReadType /\ Afresh(r, FALSE) \in ReadType
        BY <2>2 DEF ReadAt, Held, Resting, Afresh
    <2>4. Being(r, "find", read[r].snap) \in ReadType
        BY <2>2 DEF ReadAt, Being
    <2>5. new \in ReadType
        BY <2>3, <2>4 DEF Turned
    <2>. QED BY <2>1, <2>5 DEF Turned, TypeOK
<1>2. SlotsFit'
    BY NullIsNoReader, TokensApart DEF IInv, Turned, SlotsFit, TypeOK, Resting, Afresh,
       Being, Held, ReadAt
<1>3. StoresFresh'
    BY NullIsNoReader, TokensApart DEF IInv, Turned, StoresFresh, TypeOK, Resting, Afresh,
       Being, Held, ReadAt
<1>4. RowWorks'
    BY NullIsNoReader, TokensApart DEF IInv, Turned, RowWorks, TypeOK, Resting, Afresh,
       Being, Held, ReadAt
<1>. QED BY <1>1, <1>2, <1>3, <1>4 DEF IInv

LEMMA KeepsEnter ==
    ASSUME IInv, NEW r \in Reader, Enter(r)
    PROVE  IInv'
<1>1. read[r].at = "found" /\ UNCHANGED <<Table, person, spoilt, faults>>
    BY DEF Enter
<1>2. CASE read[r].snap = None /\ Becomes(r, Resting(Here(r))) /\ UNCHANGED slot
    BY <1>1, <1>2, KeepsTurned DEF Turned
<1>3. CASE read[r].snap # None /\ slot[Here(r)] = Null /\ Leads(r)
    BY <1>1, <1>3, KeepsLed DEF Led
<1>4. CASE slot[Here(r)] # Null /\ Joins(r, "share")
    BY <1>1, <1>4, KeepsJoined DEF Joined
<1>5. CASE slot[Here(r)] # Null /\ Joins(r, "wait")
    BY <1>1, <1>5, KeepsJoined DEF Joined
<1>. QED BY <1>2, <1>3, <1>4, <1>5 DEF Enter

LEMMA KeepsEnterAgain ==
    ASSUME IInv, NEW r \in Reader, EnterAgain(r)
    PROVE  IInv'
<1>1. read[r].at = "foundAgain" /\ UNCHANGED <<Table, person, spoilt, faults>>
    BY DEF EnterAgain
<1>2. CASE read[r].snap = None /\ Becomes(r, Afresh(r, FALSE)) /\ UNCHANGED slot
    BY <1>1, <1>2, KeepsTurned DEF Turned
<1>3. CASE read[r].snap # None /\ slot[Here(r)] = Null /\ Leads(r)
    BY <1>1, <1>3, KeepsLed DEF Led
<1>4. CASE slot[Here(r)] # Null /\ Joins(r, "share")
    BY <1>1, <1>4, KeepsJoined DEF Joined
<1>5. CASE Goes(r, "find") /\ UNCHANGED slot
    BY <1>1, <1>5, KeepsTurned DEF Turned
<1>. QED BY <1>2, <1>3, <1>4, <1>5 DEF EnterAgain


LEMMA KeepsBegin ==
    ASSUME IInv, NEW r \in Reader, NEW renew \in BOOLEAN, Begin(r, renew)
    PROVE  IInv'
<1>1. TypeOK'
    BY NullIsNoReader, TokensApart, Bounds DEF IInv, Begin, TypeOK, Afresh, Held, ReadAt
<1>2. SlotsFit'
    BY NullIsNoReader, TokensApart DEF IInv, Begin, SlotsFit, TypeOK, Afresh, Held, ReadAt
<1>3. StoresFresh'
    BY NullIsNoReader, TokensApart DEF IInv, Begin, StoresFresh, TypeOK, Afresh, Held,
       ReadAt
<1>4. RowWorks'
    BY NullIsNoReader, TokensApart DEF IInv, Begin, RowWorks, TypeOK, Afresh, Held, ReadAt
<1>. QED BY <1>1, <1>2, <1>3, <1>4 DEF IInv

LEMMA KeepsFind ==
    ASSUME IInv, NEW r \in Reader, Find(r)
    PROVE  IInv'
<1>1. TypeOK'
    BY NullIsNoReader, TokensApart, Bounds DEF IInv, Find, TypeOK, Being, Held, ReadAt
<1>2. SlotsFit'
    BY NullIsNoReader, TokensApart DEF IInv, Find, SlotsFit, TypeOK, Being, Held, ReadAt
<1>3. StoresFresh'
    BY NullIsNoReader, TokensApart DEF IInv, Find, StoresFresh, TypeOK, Being, Held, ReadAt
<1>4. RowWorks'
    BY NullIsNoReader, TokensApart DEF IInv, Find, RowWorks, TypeOK, Being, Held, ReadAt
<1>. QED BY <1>1, <1>2, <1>3, <1>4 DEF IInv

LEMMA KeepsCheck ==
    ASSUME IInv, NEW r \in Reader, Check(r)
    PROVE  IInv'
<1>1. TypeOK'
    BY NullIsNoReader, TokensApart, Bounds DEF IInv, Check, TypeOK, Answers, Held, ReadAt,
       Being
<1>2. SlotsFit'
    BY NullIsNoReader, TokensApart DEF IInv, Check, SlotsFit, TypeOK, Answers, Held, ReadAt,
       Being
<1>3. StoresFresh'
    BY NullIsNoReader, TokensApart DEF IInv, Check, StoresFresh, TypeOK, Answers, Held,
       ReadAt, Being
<1>4. RowWorks'
    BY NullIsNoReader, TokensApart DEF IInv, Check, RowWorks, TypeOK, Answers, Held, ReadAt,
       Being
<1>. QED BY <1>1, <1>2, <1>3, <1>4 DEF IInv

LEMMA KeepsRefresh ==
    ASSUME IInv, NEW r \in Reader, Refresh(r)
    PROVE  IInv'
<1>1. TypeOK'
    BY NullIsNoReader, TokensApart, Bounds DEF IInv, Refresh, TypeOK, Spend, Issued, Being,
       Spending, Held, ReadAt, Without, Remembered
<1>2. SlotsFit'
    BY NullIsNoReader, TokensApart DEF IInv, Refresh, SlotsFit, TypeOK, Spend, Issued,
       Being, Spending, Held, ReadAt, Without, Remembered
<1>3. StoresFresh'
    BY NullIsNoReader, TokensApart DEF IInv, Refresh, StoresFresh, TypeOK, Spend, Issued,
       Being, Spending, Held, ReadAt, Without, Remembered
<1>4. RowWorks'
    BY NullIsNoReader, TokensApart DEF IInv, Refresh, RowWorks, TypeOK, Spend, Issued,
       Being, Spending, Held, ReadAt, Without, Remembered
<1>. QED BY <1>1, <1>2, <1>3, <1>4 DEF IInv

LEMMA KeepsRefreshFails ==
    ASSUME IInv, NEW r \in Reader, RefreshFails(r)
    PROVE  IInv'
<1>1. TypeOK'
    BY NullIsNoReader, TokensApart, Bounds DEF IInv, RefreshFails, TypeOK, Spend, Being,
       Spending, Held, ReadAt, Without
<1>2. SlotsFit'
    BY NullIsNoReader, TokensApart DEF IInv, RefreshFails, SlotsFit, TypeOK, Spend, Being,
       Spending, Held, ReadAt, Without
<1>3. StoresFresh'
    BY NullIsNoReader, TokensApart DEF IInv, RefreshFails, StoresFresh, TypeOK, Spend,
       Being, Spending, Held, ReadAt, Without
<1>4. RowWorks'
    <2>1. TypeOK /\ RowWorks
        BY DEF IInv
    <2>2. PICK T \in {{}, {read[r].snap} \intersect Token} :
             /\ Spend(T)
             /\ spoilt' = (spoilt \/ T # {})
             /\ read' = [x \in Reader |->
                  IF x = r THEN Being(r, "settle", None) ELSE Spending(T, x)]
        BY DEF RefreshFails
    <2>3. CASE T = {}
        <3>1. row' = row /\ (spoilt' <=> spoilt)
            BY <2>2, <2>3 DEF Spend, Without
        <3>2. \A x \in Reader : read[x].at \in {"clear", "store"} => read'[x].at = read[x].at
            BY <2>1, <2>2 DEF RefreshFails, Spending, Being, TypeOK
        <3>. QED BY <2>1, <3>1, <3>2 DEF RowWorks
    <2>4. CASE T # {}
        BY <2>2, <2>4 DEF RowWorks
    <2>. QED BY <2>3, <2>4
<1>. QED BY <1>1, <1>2, <1>3, <1>4 DEF IInv

LEMMA KeepsClear ==
    ASSUME IInv, NEW r \in Reader, Clear(r)
    PROVE  IInv'
<1>1. TypeOK'
    <2>1. TypeOK
        BY DEF IInv
    <2>2. read' \in [Reader -> [at : ReadAt, host : Host, snap : Held, renew : BOOLEAN,
                                leader : Reader \union {Null}]]
        BY <2>1 DEF Clear, TypeOK, ReadAt, Held, Being
    <2>3. marked' \in BOOLEAN
        BY DEF Clear
    <2>4. UNCHANGED <<row, slot, person, spoilt, faults>>
        BY DEF Clear
    <2>. QED BY <2>1, <2>2, <2>3, <2>4, Zenon DEF TypeOK
<1>2. SlotsFit'
    BY NullIsNoReader, TokensApart DEF IInv, Clear, SlotsFit, TypeOK, Held, ReadAt, Being
<1>3. StoresFresh'
    BY NullIsNoReader, TokensApart DEF IInv, Clear, StoresFresh, TypeOK, Held, ReadAt, Being
<1>4. RowWorks'
    BY NullIsNoReader, TokensApart DEF IInv, Clear, RowWorks, TypeOK, Held, ReadAt, Being
<1>. QED BY <1>1, <1>2, <1>3, <1>4 DEF IInv

LEMMA KeepsStore ==
    ASSUME IInv, NEW r \in Reader, Store(r)
    PROVE  IInv'
<1>1. TypeOK'
    BY NullIsNoReader, TokensApart, Bounds DEF IInv, Store, TypeOK, Answers, Held, ReadAt,
       Being
<1>2. SlotsFit'
    BY NullIsNoReader, TokensApart DEF IInv, Store, SlotsFit, TypeOK, Answers, Held, ReadAt,
       Being
<1>3. StoresFresh'
    BY NullIsNoReader, TokensApart DEF IInv, Store, StoresFresh, TypeOK, Answers, Held,
       ReadAt, Being
<1>4. RowWorks'
    <2>1. row' = read[r].snap /\ UNCHANGED spoilt /\ read[r].at = "store"
        BY DEF Store
    <2>2. ~spoilt => read[r].snap \in Token
        BY <2>1 DEF IInv, StoresFresh
    <2>. QED BY <2>1, <2>2, TokensApart DEF RowWorks
<1>. QED BY <1>1, <1>2, <1>3, <1>4 DEF IInv

LEMMA KeepsMark ==
    ASSUME IInv, NEW r \in Reader, Mark(r)
    PROVE  IInv'
<1>1. TypeOK'
    BY NullIsNoReader, TokensApart, Bounds DEF IInv, Mark, TypeOK, Answers, Held, ReadAt,
       Being
<1>2. SlotsFit'
    BY NullIsNoReader, TokensApart DEF IInv, Mark, SlotsFit, TypeOK, Answers, Held, ReadAt,
       Being
<1>3. StoresFresh'
    BY NullIsNoReader, TokensApart DEF IInv, Mark, StoresFresh, TypeOK, Answers, Held,
       ReadAt, Being
<1>4. RowWorks'
    BY NullIsNoReader, TokensApart DEF IInv, Mark, RowWorks, TypeOK, Answers, Held, ReadAt,
       Being
<1>. QED BY <1>1, <1>2, <1>3, <1>4 DEF IInv

LEMMA KeepsSettle ==
    ASSUME IInv, NEW r \in Reader, Settle(r)
    PROVE  IInv'
<1>1. TypeOK'
    BY NullIsNoReader, TokensApart, Bounds DEF IInv, Settle, TypeOK, Resting, Behind, Held,
       ReadAt
<1>2. SlotsFit'
    BY NullIsNoReader, TokensApart DEF IInv, Settle, SlotsFit, TypeOK, Resting, Behind,
       Held, ReadAt
<1>3. StoresFresh'
    BY NullIsNoReader, TokensApart DEF IInv, Settle, StoresFresh, TypeOK, Resting, Behind,
       Held, ReadAt
<1>4. RowWorks'
    BY NullIsNoReader, TokensApart DEF IInv, Settle, RowWorks, TypeOK, Resting, Behind,
       Held, ReadAt
<1>. QED BY <1>1, <1>2, <1>3, <1>4 DEF IInv

-----------------------------------------------------------------------------
(* The sign-in, its removal, and what goes wrong.                          *)

LEMMA KeepsRedeem ==
    ASSUME IInv, Redeem
    PROVE  IInv'
<1>1. TypeOK'
    BY NullIsNoReader, TokensApart, Bounds DEF IInv, Redeem, TypeOK, Remembered, Issued,
       Held, ReadAt
<1>2. SlotsFit'
    BY NullIsNoReader, TokensApart DEF IInv, Redeem, SlotsFit, TypeOK, Remembered, Issued,
       Held, ReadAt
<1>3. StoresFresh'
    BY NullIsNoReader, TokensApart DEF IInv, Redeem, StoresFresh, TypeOK, Remembered,
       Issued, Held, ReadAt
<1>4. RowWorks'
    BY NullIsNoReader, TokensApart DEF IInv, Redeem, RowWorks, TypeOK, Remembered, Issued,
       Held, ReadAt
<1>. QED BY <1>1, <1>2, <1>3, <1>4 DEF IInv

LEMMA KeepsStoreSignIn ==
    ASSUME IInv, StoreSignIn
    PROVE  IInv'
<1>1. TypeOK'
    BY NullIsNoReader, TokensApart, Bounds DEF IInv, StoreSignIn, TypeOK, Held, ReadAt
<1>2. SlotsFit'
    BY NullIsNoReader, TokensApart DEF IInv, StoreSignIn, SlotsFit, TypeOK, Held, ReadAt
<1>3. StoresFresh'
    BY NullIsNoReader, TokensApart DEF IInv, StoreSignIn, StoresFresh, TypeOK, Held, ReadAt
<1>4. RowWorks'
    BY NullIsNoReader, TokensApart, SMTT(30) DEF IInv, StoreSignIn, RowWorks, TypeOK,
       StoresFresh, Held, ReadAt
<1>. QED BY <1>1, <1>2, <1>3, <1>4 DEF IInv

LEMMA KeepsRemove ==
    ASSUME IInv, Remove
    PROVE  IInv'
<1>1. TypeOK'
    BY NullIsNoReader, TokensApart, Bounds DEF IInv, Remove, TypeOK, Held, ReadAt
<1>2. SlotsFit'
    BY NullIsNoReader, TokensApart DEF IInv, Remove, SlotsFit, TypeOK, Held, ReadAt
<1>3. StoresFresh'
    BY NullIsNoReader, TokensApart DEF IInv, Remove, StoresFresh, TypeOK, Held, ReadAt
<1>4. RowWorks'
    BY NullIsNoReader, TokensApart DEF IInv, Remove, RowWorks, TypeOK, Held, ReadAt
<1>. QED BY <1>1, <1>2, <1>3, <1>4 DEF IInv

LEMMA KeepsClearMark ==
    ASSUME IInv, ClearMark
    PROVE  IInv'
<1>1. TypeOK'
    <2>1. TypeOK
        BY DEF IInv
    <2>2. person' \in [at : {"idle", "store", "clear", "removed"}, token : Held]
        BY DEF ClearMark, Held
    <2>3. marked' \in BOOLEAN
        BY DEF ClearMark
    <2>4. UNCHANGED <<row, read, slot, spoilt, faults>>
        BY DEF ClearMark
    <2>. QED BY <2>1, <2>2, <2>3, <2>4, Zenon DEF TypeOK
<1>2. SlotsFit'
    BY NullIsNoReader, TokensApart DEF IInv, ClearMark, SlotsFit, TypeOK, Held, ReadAt
<1>3. StoresFresh'
    BY NullIsNoReader, TokensApart DEF IInv, ClearMark, StoresFresh, TypeOK, Held, ReadAt
<1>4. RowWorks'
    BY NullIsNoReader, TokensApart DEF IInv, ClearMark, RowWorks, TypeOK, Held, ReadAt
<1>. QED BY <1>1, <1>2, <1>3, <1>4 DEF IInv

LEMMA KeepsRevoke ==
    ASSUME IInv, Revoke
    PROVE  IInv'
<1>1. TypeOK'
    BY NullIsNoReader, TokensApart, Bounds DEF IInv, Revoke, TypeOK, Spend, Spending, Held,
       ReadAt, Without, Being
<1>2. SlotsFit'
    BY NullIsNoReader, TokensApart DEF IInv, Revoke, SlotsFit, TypeOK, Spend, Spending,
       Held, ReadAt, Without, Being
<1>3. StoresFresh'
    BY NullIsNoReader, TokensApart DEF IInv, Revoke, StoresFresh, TypeOK, Spend, Spending,
       Held, ReadAt, Without, Being
<1>4. RowWorks'
    BY NullIsNoReader, TokensApart DEF IInv, Revoke, RowWorks, TypeOK, Spend, Spending,
       Held, ReadAt, Without, Being
<1>. QED BY <1>1, <1>2, <1>3, <1>4 DEF IInv

LEMMA KeepsCrash ==
    ASSUME IInv, NEW h \in Host, Crash(h)
    PROVE  IInv'
<1>1. TypeOK'
    BY NullIsNoReader, TokensApart, Bounds DEF IInv, Crash, TypeOK, Resting, Held, ReadAt
<1>2. SlotsFit'
    BY NullIsNoReader, TokensApart DEF IInv, Crash, SlotsFit, TypeOK, Resting, Held, ReadAt
<1>3. StoresFresh'
    BY NullIsNoReader, TokensApart DEF IInv, Crash, StoresFresh, TypeOK, Resting, Held,
       ReadAt
<1>4. RowWorks'
    <2>1. TypeOK /\ RowWorks
        BY DEF IInv
    <2>2. row' = row
        BY DEF Crash
    <2>3. ~spoilt' => ~spoilt /\ \A x \in Reader : read[x].at \in {"clear", "store"} => Here(x) # h
        BY DEF Crash
    <2>4. \A x \in Reader : Here(x) # h => read'[x] = read[x]
        BY <2>1 DEF Crash, TypeOK
    <2>. QED BY <2>1, <2>2, <2>3, <2>4 DEF RowWorks
<1>. QED BY <1>1, <1>2, <1>3, <1>4 DEF IInv

-----------------------------------------------------------------------------
(* The invariant, and what it is for.                                      *)

LEMMA InitIInv == ASSUME Init PROVE IInv
<1>1. TypeOK
    <2>. DEFINE ReadType == [at : ReadAt, host : Host, snap : Held, renew : BOOLEAN,
                             leader : Reader \union {Null}]
    <2>0. \A h \in Host : Resting(h) \in ReadType
        BY DEF ReadAt, Held, Resting
    <2>. HIDE DEF ReadType
    <2>1. read \in [Reader -> ReadType]
        BY <2>0 DEF Init
    <2>2. row \in Held /\ slot \in [Host -> Reader \union {Null}]
          /\ person \in [at : {"idle", "store", "clear", "removed"}, token : Held]
        BY DEF Init, Held
    <2>3. marked \in BOOLEAN /\ spoilt \in BOOLEAN
        BY DEF Init
    <2>4. faults \in 0..MaxFaults
        BY Bounds DEF Init
    <2>. QED BY <2>1, <2>2, <2>3, <2>4 DEF TypeOK, ReadType
<1>2. SlotsFit /\ StoresFresh /\ RowWorks
    BY TokensApart DEF Init, SlotsFit, StoresFresh, RowWorks, Resting
<1>. QED BY <1>1, <1>2 DEF IInv

LEMMA NextIInv == ASSUME IInv, [Next]_vars PROVE IInv'
<1>1. CASE \E r \in Reader : ReadStep(r)
    <2>. SUFFICES ASSUME NEW r \in Reader, ReadStep(r) PROVE IInv'
        BY <1>1
    <2>. QED BY KeepsFind, KeepsEnter, KeepsEnterAgain, KeepsCheck, KeepsRefresh, KeepsClear,
             KeepsStore, KeepsMark, KeepsSettle, Zenon DEF ReadStep
<1>2. CASE \E r \in Reader : RefreshFails(r) \/ \E renew \in BOOLEAN : Begin(r, renew)
    BY <1>2, KeepsRefreshFails, KeepsBegin
<1>3. CASE Redeem \/ StoreSignIn \/ Remove \/ ClearMark \/ Revoke
    BY <1>3, KeepsRedeem, KeepsStoreSignIn, KeepsRemove, KeepsClearMark, KeepsRevoke
<1>4. CASE \E h \in Host : Crash(h)
    BY <1>4, KeepsCrash
<1>5. CASE UNCHANGED vars
    BY <1>5 DEF vars, IInv, TypeOK, SlotsFit, StoresFresh, RowWorks
<1>. QED BY <1>1, <1>2, <1>3, <1>4, <1>5 DEF Next

LEMMA Inductive == Spec => []IInv
BY InitIInv, NextIInv, PTL DEF Spec

\* The types hold (TypeOK), whatever the instance.
THEOREM TypesHold == Spec => []TypeOK
<1>1. IInv => TypeOK
    BY DEF IInv
<1>. QED BY <1>1, Inductive, PTL

\* On a host one read at a time resolves a row (the mutex of credentials:get),
\* renewing reads, waits, errors and restarts included.
THEOREM ResolvesAlone == Spec => []OneResolver
<1>1. IInv => OneResolver
    BY DEF IInv, SlotsFit, OneResolver
<1>. QED BY <1>1, Inductive, PTL

\* The stored refresh token works, unless one is on its way or was lost: on any
\* number of hosts that do not know of each other's reads.
THEOREM RowKeepsWorking == Spec => []RowWorks
<1>1. IInv => RowWorks
    BY DEF IInv
<1>. QED BY <1>1, Inductive, PTL
=============================================================================
