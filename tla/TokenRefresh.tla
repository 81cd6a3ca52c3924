---------------------------- MODULE TokenRefresh ----------------------------
(***************************************************************************)
(* One agent's sign-in to one connector: reads of the token                *)
(* (packages/credentials) that may refresh it (packages/mcp-oauth), the    *)
(* sign-in's own callback and its removal, and the "sign-in expired" mark. *)
(*                                                                         *)
(* The vault row has one token pair.  Refreshing spends the refresh token: *)
(* the authorization server rotates it, and answers a spent one with       *)
(* invalid_grant.  Each host lets reads of the row share one Promise.  One *)
(* statement, or one call of the authorization server, is one step; the    *)
(* code between two awaits is one step.                                    *)
(*                                                                         *)
(* A token the server accepts is a number; all those it no longer accepts  *)
(* are Spent.  A number nobody remembers may be issued again, so behaviours *)
(* need no bound on refreshes.                                             *)
(***************************************************************************)
EXTENDS Naturals, FiniteSets

CONSTANTS
    Host,           \* replicas
    Reader,         \* calls of credentials:get
    Tokens,         \* how many good tokens can be remembered at once
    MaxFaults,      \* lost answers, transient errors, crashes, revocations
    Null            \* no reader

ASSUME NullIsNoReader == Null \notin Reader
ASSUME Bounds == Tokens \in Nat \ {0} /\ MaxFaults \in Nat

VARIABLES
    row,            \* the vault row's token, None when it is a tombstone
    marked,         \* the "sign-in expired" mark
    read,           \* the reads
    slot,           \* a host's read in flight
    person,         \* the callback of a sign-in, or its removal
    spoilt,         \* has a token been revoked, or lost between rotation and store?
    faults

vars == <<row, marked, read, slot, person, spoilt, faults>>

None == 0
Token == 1..Tokens
Spent == Tokens + 1
Held == Token \union {None, Spent}

Resolving == {"check", "refresh", "clear", "store", "mark", "settle"}
ReadAt == {"idle", "find", "found", "again", "foundAgain", "wait", "share"} \union Resolving

TypeOK ==
    /\ row \in Held /\ marked \in BOOLEAN
    /\ read \in [Reader -> [at : ReadAt, host : Host, snap : Held, renew : BOOLEAN,
                            leader : Reader \union {Null}]]
    /\ slot \in [Host -> Reader \union {Null}]
    /\ person \in [at : {"idle", "store", "clear", "removed"}, token : Held]
    /\ spoilt \in BOOLEAN /\ faults \in 0..MaxFaults

Resting(h) == [at |-> "idle", host |-> h, snap |-> None, renew |-> FALSE,
               leader |-> Null]

Init ==
    /\ row = None /\ marked = FALSE
    /\ read \in [Reader -> {Resting(h) : h \in Host}]
    /\ slot = [h \in Host |-> Null]
    /\ person = [at |-> "idle", token |-> None]
    /\ spoilt = FALSE /\ faults = 0

\* What anybody remembers.  The next token is the smallest number nobody does
\* (a set of one; empty when Tokens is too small for the readers).
Remembered == {row, person.token} \union {read[r].snap : r \in Reader}
Issued == {t \in Token \ Remembered : \A u \in Token \ Remembered : t <= u}

At(r, pc) == read[r].at = pc
Here(r) == read[r].host
Becomes(r, new) == read' = [read EXCEPT ![r] = new]
Being(r, pc, snap) ==
    [at |-> pc, host |-> Here(r), snap |-> snap, renew |-> read[r].renew, leader |-> read[r].leader]
Afresh(r, renew) ==
    [at |-> "find", host |-> Here(r), snap |-> None, renew |-> renew, leader |-> Null]
Behind(r, pc, leader) ==
    [at |-> pc, host |-> Here(r), snap |-> None, renew |-> read[r].renew, leader |-> leader]
Goes(r, pc) == Becomes(r, Being(r, pc, read[r].snap))
Table == <<row, marked>>
Rest == <<slot, person, spoilt, faults>>

-----------------------------------------------------------------------------
\* credentials:get, by a caller whose last value was refused (renew) or not.
Begin(r, renew) ==
    /\ At(r, "idle")
    /\ Becomes(r, Afresh(r, renew))
    /\ UNCHANGED <<Table, Rest>>

\* findRow: the row as it is, read outside the mutex.
Find(r) ==
    /\ read[r].at \in {"find", "again"}
    /\ Becomes(r, Being(r, IF At(r, "find") THEN "found" ELSE "foundAgain", row))
    /\ UNCHANGED <<Table, Rest>>

\* Whether the clock calls the token valid is an answer that may be yes or no.
Leads(r) ==
    /\ slot' = [slot EXCEPT ![Here(r)] = r]
    /\ \/ Goes(r, "refresh")
       \/ ~read[r].renew /\ Goes(r, "check")
Joins(r, pc) ==
    /\ Becomes(r, Behind(r, pc, slot[Here(r)]))
    /\ UNCHANGED slot

\* Mutant: a caller whose value was refused waits for nobody.
EnterAlone(r) ==
    /\ At(r, "found")
    /\ LET other == slot[Here(r)]
       IN  \/ read[r].snap = None /\ Becomes(r, Resting(Here(r))) /\ UNCHANGED slot
           \/ read[r].snap # None /\ (other = Null \/ read[r].renew) /\ Leads(r)
           \/ read[r].snap # None /\ other # Null /\ ~read[r].renew /\ Joins(r, "share")
    /\ UNCHANGED <<Table, person, spoilt, faults>>

\* The answer has arrived: share the read in flight, or be it; a caller whose
\* value was refused shares only a renewing one, and waits for any other.
Enter(r) ==
    /\ At(r, "found")
    /\ LET other == slot[Here(r)]
       IN  \/ read[r].snap = None /\ Becomes(r, Resting(Here(r))) /\ UNCHANGED slot
           \/ read[r].snap # None /\ other = Null /\ Leads(r)
           \/ /\ read[r].snap # None /\ other # Null
              /\ Joins(r, IF read[r].renew => read[other].renew THEN "share" ELSE "wait")
    /\ UNCHANGED <<Table, person, spoilt, faults>>

\* The same, after a wait: start over when another ordinary read has begun.
EnterAgain(r) ==
    /\ At(r, "foundAgain")
    /\ LET other == slot[Here(r)]
       IN  \/ read[r].snap = None /\ Becomes(r, Afresh(r, FALSE)) /\ UNCHANGED slot
           \/ read[r].snap # None /\ other = Null /\ Leads(r)
           \/ /\ read[r].snap # None /\ other # Null
              /\ IF read[other].renew THEN Joins(r, "share") ELSE Goes(r, "find") /\ UNCHANGED slot
    /\ UNCHANGED <<Table, person, spoilt, faults>>

Answers(r) == Becomes(r, Being(r, "settle", None))

\* The resolver: a token valid by the clock is answered unless it is marked.
Check(r) ==
    /\ At(r, "check")
    /\ IF marked THEN Goes(r, "refresh") ELSE Answers(r)
    /\ UNCHANGED <<Table, Rest>>

\* What is left of a token when the server no longer accepts those in T.
Without(T, t) == IF t \in T THEN Spent ELSE t
Spend(T) ==
    /\ row' = Without(T, row)
    /\ person' = [at |-> person.at, token |-> Without(T, person.token)]
Spending(T, r) == Being(r, read[r].at, Without(T, read[r].snap))

\* The authorization server rotates a good refresh token and refuses another.
Refresh(r) ==
    /\ At(r, "refresh")
    /\ IF read[r].snap \in Token
         THEN /\ Spend({read[r].snap})
              /\ \E t \in Issued : read' = [x \in Reader |->
                   IF x = r THEN Being(r, "clear", t)
                            ELSE Spending({read[r].snap}, x)]
         ELSE Goes(r, "mark") /\ UNCHANGED <<row, person>>
    /\ UNCHANGED <<marked, slot, spoilt, faults>>

\* A transient error; the server may have rotated the token all the same.
RefreshFails(r) ==
    /\ At(r, "refresh") /\ faults < MaxFaults
    /\ \E T \in {{}, {read[r].snap} \intersect Token} :
         /\ Spend(T)
         /\ spoilt' = (spoilt \/ T # {})
         /\ read' = [x \in Reader |->
              IF x = r THEN Being(r, "settle", None) ELSE Spending(T, x)]
    /\ faults' = faults + 1
    /\ UNCHANGED <<marked, slot>>

\* Mutant: the mark stays after a refresh that worked.
ClearNot(r) ==
    /\ At(r, "clear")
    /\ Goes(r, "store")
    /\ UNCHANGED <<Table, Rest>>

\* The resolver clears or sets the mark; then the vault stores what it answered.
Clear(r) ==
    /\ At(r, "clear")
    /\ marked' = FALSE
    /\ Goes(r, "store")
    /\ UNCHANGED <<row, Rest>>

\* Mutant: what the refresh answered is not stored.
StoreNot(r) ==
    /\ At(r, "store")
    /\ Answers(r)
    /\ UNCHANGED <<Table, Rest>>

Store(r) ==
    /\ At(r, "store")
    /\ row' = read[r].snap
    /\ Answers(r)
    /\ UNCHANGED <<marked, Rest>>

Mark(r) ==
    /\ At(r, "mark")
    /\ marked' = TRUE
    /\ Answers(r)
    /\ UNCHANGED <<row, Rest>>

\* Mutant: a Promise that settles leaves the host's read in flight as it is.
SettleKept(r) ==
    /\ At(r, "settle")
    /\ Becomes(r, Resting(Here(r)))
    /\ UNCHANGED <<Table, Rest>>

\* The Promise settles: who shared it has its answer, who waited reads again.
Settle(r) ==
    /\ At(r, "settle")
    /\ read' = [x \in Reader |->
         IF x = r \/ (At(x, "share") /\ read[x].leader = r) THEN Resting(Here(x))
         ELSE IF At(x, "wait") /\ read[x].leader = r THEN Behind(x, "again", Null)
         ELSE read[x]]
    /\ slot' = [slot EXCEPT ![Here(r)] = IF @ = r THEN Null ELSE @]
    /\ UNCHANGED <<Table, person, spoilt, faults>>

-----------------------------------------------------------------------------
\* The OAuth callback: the code is redeemed, the row set, the mark cleared.
\* (A number must be left for a refresh: a bound of the model.)
Redeem ==
    /\ person.at = "idle"
    /\ Cardinality(Remembered \intersect Token) < Tokens - 1
    /\ \E t \in Issued : person' = [at |-> "store", token |-> t]
    /\ UNCHANGED <<Table, read, slot, spoilt, faults>>

StoreSignIn ==
    /\ person.at = "store"
    /\ row' = person.token
    /\ person' = [at |-> "clear", token |-> None]
    /\ UNCHANGED <<marked, read, slot, spoilt, faults>>

\* mcp-oauth:remove-shared-sign-in: the row first, then the mark.
Remove ==
    /\ person.at = "idle" /\ row # None
    /\ row' = None
    /\ person' = [at |-> "removed", token |-> None]
    /\ UNCHANGED <<marked, read, slot, spoilt, faults>>

ClearMark ==
    /\ person.at \in {"clear", "removed"}
    /\ marked' = FALSE
    /\ person' = [at |-> "idle", token |-> None]
    /\ UNCHANGED <<row, read, slot, spoilt, faults>>

\* The provider revokes what it has granted.
Revoke ==
    /\ faults < MaxFaults
    /\ Spend(Token)
    /\ read' = [r \in Reader |-> Spending(Token, r)]
    /\ spoilt' = TRUE /\ faults' = faults + 1
    /\ UNCHANGED <<marked, slot>>

\* A host dies with its reads.
Crash(h) ==
    /\ faults < MaxFaults
    /\ spoilt' = (spoilt \/ \E r \in Reader : Here(r) = h /\ read[r].at \in {"clear", "store"})
    /\ read' = [r \in Reader |-> IF Here(r) = h THEN Resting(h) ELSE read[r]]
    /\ slot' = [slot EXCEPT ![h] = Null]
    /\ faults' = faults + 1
    /\ UNCHANGED <<Table, person>>

ReadStep(r) ==
    \/ Find(r) \/ Enter(r) \/ EnterAgain(r) \/ Check(r) \/ Refresh(r)
    \/ Clear(r) \/ Store(r) \/ Mark(r) \/ Settle(r)

Next ==
    \/ \E r \in Reader :
         \/ ReadStep(r) \/ RefreshFails(r)
         \/ \E renew \in BOOLEAN : Begin(r, renew)
    \/ Redeem \/ StoreSignIn \/ Remove \/ ClearMark \/ Revoke
    \/ \E h \in Host : Crash(h)

Spec == Init /\ [][Next]_vars

Fairness == \A r \in Reader : WF_vars(ReadStep(r))
FairSpec == Spec /\ Fairness /\ WF_vars(ClearMark \/ StoreSignIn)

-----------------------------------------------------------------------------
\* On a host no two reads resolve the row at once, renewing ones included: two
\* refreshes of one refresh token side by side would be refused as reuse.
OneResolver ==
    \A r \in Reader : read[r].at \in Resolving =>
        /\ slot[Here(r)] = r
        /\ \A x \in Reader : Here(x) = Here(r) /\ read[x].at \in Resolving => x = r

\* The row's refresh token works, unless one is on its way to the row: reads
\* on several hosts, sign-ins and removals never store a spent token over a
\* good one.  A revocation, or an answer lost after the rotation, excuses it.
RowWorks ==
    row = Spent /\ ~spoilt =>
        \E r \in Reader : read[r].at \in {"clear", "store"}

\* Every ordinary read ends: no caller waits for a read that has gone.  One that
\* renews ends once ordinary reads leave it a turn (it waits for each of them).
ReadEnds ==
    \A r \in Reader :
        /\ read[r].at # "idle" /\ ~read[r].renew ~> read[r].at = "idle"
        /\ <>[](\A x \in Reader : read[x].at # "idle" => read[x].renew) =>
               []<>(read[r].at = "idle")

\* A sign-in that works and is used is not called expired for ever.
MarkHeals ==
    []<>(\E r \in Reader : read[r].at \in {"check", "refresh"}) => []<>(~marked \/ row \notin Token)

\* What the comment on the mutex says: of reads on one host that share a row the
\* refresh fires at most once, so a refresh token is presented once.
FiresOnce == \A r \in Reader : At(r, "mark") => spoilt
=============================================================================
