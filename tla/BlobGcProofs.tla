---------------------------- MODULE BlobGcProofs ----------------------------
(***************************************************************************)
(* Proofs about BlobGc: as long as the sweep lock holds, no promised blob   *)
(* is lost unless its retire was begun while a read was moving it back,    *)
(* for any number of blobs, holders, sweepers, clients and faults.         *)
(*                                                                         *)
(* IInv is inductive.  Its parts say who may be where (OneSweep, GoalFits), *)
(* what a move has secured before it deletes (MovesAreSafe, Retiring,      *)
(* Dedup's part of Repairing), what a row says about the copies            *)
(* (RowsHaveCopies, StoredIsLive, Repairing), and what the purge pass      *)
(* knows of a blob it may still delete (Purging).  Most of them are        *)
(* silent about a crossed blob; what Start forgets to be crossed satisfies *)
(* them, for nobody moves it then and it has a copy.                       *)
(***************************************************************************)
EXTENDS BlobGc, TLAPS

Of(a) == job[a].blob
Goal(a) == job[a].goal

\* Whoever sweeps has the lock.
OneSweep == \A s \in Sweeper : job[s] # Idle => locked = s

\* What an actor does fits what it does it for, and with which blob.
GoalFits ==
    /\ \A c \in Client : job[c].at \in Lookup => Goal(c) \in {"read", "adopt"}
    /\ \A s \in Sweeper :
        /\ job[s].at \in {"live", "revive", "gone", "claim"} => Goal(s) \in {"report", "repair"}
        /\ job[s].at \in Lookup => Goal(s) \in {"repair", "purge"} /\ Of(s) \in Blob
        /\ At(s, "dedup") => Goal(s) = "repair" /\ Of(s) \in Blob
        /\ At(s, "next") => Goal(s) \in {"repair", "retire", "purge"}
        /\ At(s, "ask") => Goal(s) \in {"retire", "purge"}
        /\ job[s].at \in {"retire", "unlink"} => Goal(s) = "retire" /\ Of(s) \in Blob
        /\ job[s].at \in {"purge", "probe", "restored", "forget"} => Goal(s) = "purge" /\ Of(s) \in Blob

\* A lookup drops a retired copy, and reads again past one, only after the copy.
MovesAreSafe ==
    \A a \in Actor : Of(a) \notin crossed =>
        /\ At(a, "drop") => Of(a) \in live
        /\ At(a, "reread") /\ Of(a) \in retired => Of(a) \in live

\* A row that is not due has a copy to show for it.
RowsHaveCopies ==
    \A b \in Blob \ crossed : row[b] \in {"new", "old", "set"} => b \in live \union retired

\* A client that was told its blob is stored: if its row is due, it is live.
StoredIsLive ==
    \A c \in Client : job[c].at \in {"record", "insert"} /\ row[Of(c)] = "due" => Of(c) \in live

\* What was listed is still there; a row aged without a live copy is listed retired.
Listing ==
    \A s \in Sweeper :
        /\ At(s, "revive") => todo[s] \subseteq live
        /\ At(s, "claim") => /\ todo[s] \subseteq live \union retired \union crossed
                             /\ \A b \in Blob \ crossed :
                                  row[b] = "old" /\ b \notin live => b \in todo[s]

\* Once the claims are done, every old row has its live copy.
Repairing ==
    \A s \in Sweeper :
        /\ Goal(s) = "retire" \/ (Goal(s) = "repair" /\ job[s].at \in {"next", "dedup"} \union Lookup) =>
               \A b \in Blob \ crossed : row[b] = "old" => b \in live
        /\ At(s, "dedup") => Of(s) \in live

\* A blob on its way out is still there, and no read is moving it back.
Retiring ==
    \A s \in Sweeper : job[s].at \in {"retire", "unlink"} =>
        /\ row[Of(s)] \in {"set", "new"}
        /\ Of(s) \notin crossed =>
              /\ Of(s) \in live
              /\ \A c \in Client : job[c].at \in {"copy", "drop", "reread"} => Of(c) # Of(s)
              /\ At(s, "unlink") => Of(s) \in retired

\* The purge pass may still delete b's retired copy.
ToPurge(s, b) ==
    /\ Goal(s) = "purge"
    /\ b \in todo[s] \/ (At(s, "purge") /\ Of(s) = b)

\* What it knows of such a blob: due or live, and held by no holder it has asked,
\* unless it was seen held or is live again.
Purging ==
    \A s \in Sweeper :
        /\ Goal(s) = "purge" => Of(s) \notin todo[s]
        /\ At(s, "purge") => Of(s) \notin seen[s]
        /\ job[s].at \in Lookup \union {"restored"} /\ Goal(s) = "purge" =>
              Of(s) \in live \union retired \union crossed
        /\ \A b \in Blob \ crossed : ToPurge(s, b) =>
              /\ At(s, "ask") \/ asked[s] = Holder
              /\ row[b] = "due" \/ b \in live
              /\ b \in seen[s] => b \in live \union retired
              /\ \A h \in asked[s] \intersect held[b] : b \in seen[s] \/ b \in live
              /\ \A c \in Client : job[c].at \in {"record", "insert"} /\ Of(c) = b => b \in live

IInv ==
    /\ TypeOK /\ OneSweep /\ GoalFits /\ MovesAreSafe /\ RowsHaveCopies /\ StoredIsLive
    /\ Listing /\ Repairing /\ Retiring /\ Purging /\ PromisedIsKept

\* The accessors and the updates of a job are always expanded.
USE DEF At, Goes, Rests, TakesUp, Next1, Idle, Lookup, Of, Goal, Actor, sweepVars

-----------------------------------------------------------------------------
\* A client, or a sweeper that looks a blob up, goes on and moves no copy.
ClientGoesOn(c, j) ==
    /\ j \in {Idle} \union [at : {"head", "copy", "exists", "upload", "record", "insert"},
                            blob : Blob, goal : {"read", "adopt"}]
    /\ j.at = "copy" => j.blob \notin live
    /\ j.at \in {"record", "insert"} => j.blob \in live
    /\ job' = [job EXCEPT ![c] = j]
    /\ UNCHANGED <<live, retired, row, held, sweepVars, locked, faults, crossed>>

LookupGoesOn(s, j) ==
    /\ job[s].at \in Lookup
    /\ j \in [at : {"copy", "dedup", "next", "restored"}, blob : Blob \union {Null}, goal : {Goal(s)}]
    /\ j.at # "next" => j.blob = Of(s)
    /\ j.at = "dedup" => Goal(s) = "repair" /\ Of(s) \in live
    /\ j.at = "next" => Goal(s) = "repair"
    /\ j.at = "restored" => Goal(s) = "purge"
    /\ job' = [job EXCEPT ![s] = j]
    /\ UNCHANGED <<live, retired, row, held, sweepVars, locked, faults, crossed>>

LEMMA KeepsClientGoesOn ==
    ASSUME IInv, NEW c \in Client, NEW j, ClientGoesOn(c, j)
    PROVE  IInv'
<1>1. TypeOK'
    BY NullIsNothing, ActorsApart, Switches DEF IInv, ClientGoesOn, TypeOK, RowState,
       SweepAt, ClientAt
<1>2. OneSweep'
    BY NullIsNothing, ActorsApart DEF IInv, ClientGoesOn, OneSweep, TypeOK, RowState,
       SweepAt, ClientAt
<1>3. GoalFits'
    BY NullIsNothing, ActorsApart DEF IInv, ClientGoesOn, GoalFits, TypeOK, RowState,
       SweepAt, ClientAt
<1>4. MovesAreSafe'
    BY NullIsNothing, ActorsApart DEF IInv, ClientGoesOn, MovesAreSafe, TypeOK, RowState,
       SweepAt, ClientAt
<1>5. RowsHaveCopies'
    BY NullIsNothing, ActorsApart DEF IInv, ClientGoesOn, RowsHaveCopies, TypeOK, RowState,
       SweepAt, ClientAt
<1>6. StoredIsLive'
    BY NullIsNothing, ActorsApart DEF IInv, ClientGoesOn, StoredIsLive, TypeOK, RowState,
       SweepAt, ClientAt
<1>7. Listing'
    BY NullIsNothing, ActorsApart DEF IInv, ClientGoesOn, Listing, TypeOK, RowState,
       SweepAt, ClientAt
<1>8. Repairing'
    BY NullIsNothing, ActorsApart DEF IInv, ClientGoesOn, Repairing, TypeOK, RowState,
       SweepAt, ClientAt
<1>9. Retiring'
    BY NullIsNothing, ActorsApart DEF IInv, ClientGoesOn, Retiring, TypeOK, RowState,
       SweepAt, ClientAt
<1>10. Purging'
    BY NullIsNothing, ActorsApart, SMTT(30) DEF IInv, ClientGoesOn, Purging, TypeOK,
       ToPurge, RowState, SweepAt, ClientAt
<1>11. PromisedIsKept'
    BY NullIsNothing, ActorsApart DEF IInv, ClientGoesOn, PromisedIsKept, TypeOK, Promised,
       RowState, SweepAt, ClientAt
<1>. QED BY <1>1, <1>2, <1>3, <1>4, <1>5, <1>6, <1>7, <1>8, <1>9, <1>10, <1>11 DEF IInv

LEMMA KeepsLookupGoesOn ==
    ASSUME IInv, NEW s \in Sweeper, NEW j, LookupGoesOn(s, j)
    PROVE  IInv'
<1>1. TypeOK'
    BY NullIsNothing, ActorsApart, Switches DEF IInv, LookupGoesOn, TypeOK, RowState,
       SweepAt, ClientAt
<1>2. OneSweep'
    BY NullIsNothing, ActorsApart DEF IInv, LookupGoesOn, OneSweep, TypeOK, RowState,
       SweepAt, ClientAt
<1>3. GoalFits'
    BY NullIsNothing, ActorsApart DEF IInv, LookupGoesOn, GoalFits, TypeOK, RowState,
       SweepAt, ClientAt
<1>4. MovesAreSafe'
    BY NullIsNothing, ActorsApart DEF IInv, LookupGoesOn, MovesAreSafe, TypeOK, RowState,
       SweepAt, ClientAt
<1>5. RowsHaveCopies'
    BY NullIsNothing, ActorsApart DEF IInv, LookupGoesOn, RowsHaveCopies, TypeOK, RowState,
       SweepAt, ClientAt
<1>6. StoredIsLive'
    BY NullIsNothing, ActorsApart DEF IInv, LookupGoesOn, StoredIsLive, TypeOK, RowState,
       SweepAt, ClientAt
<1>7. Listing'
    BY NullIsNothing, ActorsApart DEF IInv, LookupGoesOn, Listing, TypeOK, RowState,
       SweepAt, ClientAt
<1>8. Repairing'
    BY NullIsNothing, ActorsApart DEF IInv, LookupGoesOn, Repairing, TypeOK, RowState,
       SweepAt, ClientAt
<1>9. Retiring'
    BY NullIsNothing, ActorsApart DEF IInv, LookupGoesOn, Retiring, TypeOK, RowState,
       SweepAt, ClientAt
<1>10. Purging'
    BY NullIsNothing, ActorsApart, SMTT(30) DEF IInv, LookupGoesOn, Purging, TypeOK,
       ToPurge, RowState, SweepAt, ClientAt
<1>11. PromisedIsKept'
    BY NullIsNothing, ActorsApart DEF IInv, LookupGoesOn, PromisedIsKept, TypeOK, Promised,
       RowState, SweepAt, ClientAt
<1>. QED BY <1>1, <1>2, <1>3, <1>4, <1>5, <1>6, <1>7, <1>8, <1>9, <1>10, <1>11 DEF IInv

\* What a client's lookup was for goes on.
LEMMA ClientResumes ==
    ASSUME IInv, NEW c \in Client, job[c].at \in Lookup, NEW found \in BOOLEAN,
           found => Of(c) \in live,
           Resume(c, found), UNCHANGED <<live, retired, row, held, sweepVars, locked, faults, crossed>>
    PROVE  \E j : ClientGoesOn(c, j)
<1>1. Goal(c) \in {"read", "adopt"} /\ Of(c) \in Blob
    BY NullIsNothing DEF IInv, GoalFits, TypeOK
<1>2. CASE Goal(c) = "adopt" /\ found
    <2>. DEFINE j == [at |-> "insert", blob |-> Of(c), goal |-> Goal(c)]
    <2>1. ClientGoesOn(c, j)
        BY <1>1, <1>2 DEF ClientGoesOn, Resume
    <2>. QED BY <2>1
<1>3. CASE ~(Goal(c) = "adopt" /\ found)
    <2>1. ClientGoesOn(c, Idle)
        BY <1>1, <1>3 DEF ClientGoesOn, Resume
    <2>. QED BY <2>1
<1>. QED BY <1>2, <1>3

\* What a sweeper's lookup was for goes on.
LEMMA SweeperResumes ==
    ASSUME IInv, NEW s \in Sweeper, job[s].at \in Lookup, NEW found \in BOOLEAN,
           found => Of(s) \in live,
           Resume(s, found), UNCHANGED <<live, retired, row, held, sweepVars, locked, faults, crossed>>
    PROVE  \E j : LookupGoesOn(s, j)
<1>1. Goal(s) \in {"repair", "purge"} /\ Of(s) \in Blob
    BY DEF IInv, GoalFits
<1>2. CASE Goal(s) = "purge"
    <2>. DEFINE j == [at |-> "restored", blob |-> Of(s), goal |-> Goal(s)]
    <2>1. LookupGoesOn(s, j)
        BY <1>1, <1>2 DEF LookupGoesOn, Resume
    <2>. QED BY <2>1
<1>3. CASE Goal(s) = "repair" /\ found
    <2>. DEFINE j == [at |-> "dedup", blob |-> Of(s), goal |-> Goal(s)]
    <2>1. LookupGoesOn(s, j)
        BY <1>1, <1>3 DEF LookupGoesOn, Resume
    <2>. QED BY <2>1
<1>4. CASE Goal(s) = "repair" /\ ~found
    <2>. DEFINE j == [at |-> "next", blob |-> Null, goal |-> Goal(s)]
    <2>1. LookupGoesOn(s, j)
        BY <1>1, <1>4 DEF LookupGoesOn, Resume
    <2>. QED BY <2>1
<1>. QED BY <1>1, <1>2, <1>3, <1>4

LEMMA KeepsLook ==
    ASSUME IInv, NEW a \in Actor, Look(a)
    PROVE  IInv'
<1>1. CASE Of(a) \in live
    <2>1. job[a].at \in Lookup /\ Resume(a, TRUE)
          /\ UNCHANGED <<live, retired, row, held, sweepVars, locked, faults, crossed>>
        BY <1>1 DEF Look
    <2>2. CASE a \in Client
        BY <1>1, <2>1, <2>2, ClientResumes, KeepsClientGoesOn
    <2>3. CASE a \in Sweeper
        BY <1>1, <2>1, <2>3, SweeperResumes, KeepsLookupGoesOn
    <2>. QED BY <2>2, <2>3
<1>2. CASE Of(a) \notin live
    <2>. DEFINE j == [at |-> "copy", blob |-> Of(a), goal |-> Goal(a)]
    <2>1. CASE a \in Client
        <3>1. Goal(a) \in {"read", "adopt"} /\ Of(a) \in Blob
            BY <2>1, NullIsNothing DEF IInv, GoalFits, TypeOK, Look
        <3>2. ClientGoesOn(a, j)
            BY <1>2, <3>1 DEF Look, ClientGoesOn
        <3>. QED BY <2>1, <3>2, KeepsClientGoesOn
    <2>2. CASE a \in Sweeper
        <3>1. Goal(a) \in {"repair", "purge"} /\ Of(a) \in Blob
            BY <2>2 DEF IInv, GoalFits, Look
        <3>2. LookupGoesOn(a, j)
            BY <1>2, <3>1 DEF Look, LookupGoesOn
        <3>. QED BY <2>2, <3>2, KeepsLookupGoesOn
    <2>. QED BY <2>1, <2>2
<1>. QED BY <1>1, <1>2

LEMMA KeepsReread ==
    ASSUME IInv, NEW a \in Actor, Reread(a)
    PROVE  IInv'
<1>1. job[a].at \in Lookup /\ UNCHANGED <<live, retired, row, held, sweepVars, locked, faults, crossed>>
    BY DEF Reread
<1>2. PICK found \in BOOLEAN : Resume(a, found) /\ (found => Of(a) \in live)
    <2>1. CASE Of(a) \in live
        <3>1. Resume(a, TRUE)
            BY <2>1 DEF Reread, Resume
        <3>. QED BY <2>1, <3>1
    <2>2. CASE Of(a) \notin live
        <3>1. Resume(a, FALSE)
            BY <2>2 DEF Reread, Resume
        <3>. QED BY <3>1
    <2>. QED BY <2>1, <2>2
<1>3. CASE a \in Client
    BY <1>1, <1>2, <1>3, ClientResumes, KeepsClientGoesOn
<1>4. CASE a \in Sweeper
    BY <1>1, <1>2, <1>4, SweeperResumes, KeepsLookupGoesOn
<1>. QED BY <1>3, <1>4


-----------------------------------------------------------------------------
(* The client's own steps.                                                 *)

LEMMA KeepsBegin ==
    ASSUME IInv, NEW c \in Client, NEW b \in Blob, NEW call \in {"put", "read", "adopt"},
           Begin(c, b, call)
    PROVE  IInv'
<1>1. TypeOK'
    BY NullIsNothing, ActorsApart, Switches DEF IInv, Begin, TypeOK, RowState, SweepAt,
       ClientAt
<1>2. OneSweep'
    BY NullIsNothing, ActorsApart DEF IInv, Begin, OneSweep, TypeOK, RowState, SweepAt,
       ClientAt
<1>3. GoalFits'
    BY NullIsNothing, ActorsApart DEF IInv, Begin, GoalFits, TypeOK, RowState, SweepAt,
       ClientAt
<1>4. MovesAreSafe'
    BY NullIsNothing, ActorsApart DEF IInv, Begin, MovesAreSafe, TypeOK, RowState, SweepAt,
       ClientAt
<1>5. RowsHaveCopies'
    BY NullIsNothing, ActorsApart DEF IInv, Begin, RowsHaveCopies, TypeOK, RowState,
       SweepAt, ClientAt
<1>6. StoredIsLive'
    BY NullIsNothing, ActorsApart DEF IInv, Begin, StoredIsLive, TypeOK, RowState, SweepAt,
       ClientAt
<1>7. Listing'
    BY NullIsNothing, ActorsApart DEF IInv, Begin, Listing, TypeOK, RowState, SweepAt,
       ClientAt
<1>8. Repairing'
    BY NullIsNothing, ActorsApart DEF IInv, Begin, Repairing, TypeOK, RowState, SweepAt,
       ClientAt
<1>9. Retiring'
    BY NullIsNothing, ActorsApart DEF IInv, Begin, Retiring, TypeOK, RowState, SweepAt,
       ClientAt
<1>10. Purging'
    BY NullIsNothing, ActorsApart, SMTT(30) DEF IInv, Begin, Purging, TypeOK, ToPurge,
       RowState, SweepAt, ClientAt
<1>11. PromisedIsKept'
    BY NullIsNothing, ActorsApart DEF IInv, Begin, PromisedIsKept, TypeOK, Promised,
       RowState, SweepAt, ClientAt
<1>. QED BY <1>1, <1>2, <1>3, <1>4, <1>5, <1>6, <1>7, <1>8, <1>9, <1>10, <1>11 DEF IInv

LEMMA KeepsPutExists ==
    ASSUME IInv, NEW c \in Client, PutExists(c)
    PROVE  IInv'
<1>1. TypeOK'
    BY NullIsNothing, ActorsApart, Switches DEF IInv, PutExists, TypeOK, RowState, SweepAt,
       ClientAt
<1>2. OneSweep'
    BY NullIsNothing, ActorsApart DEF IInv, PutExists, OneSweep, TypeOK, RowState, SweepAt,
       ClientAt
<1>3. GoalFits'
    BY NullIsNothing, ActorsApart DEF IInv, PutExists, GoalFits, TypeOK, RowState, SweepAt,
       ClientAt
<1>4. MovesAreSafe'
    BY NullIsNothing, ActorsApart DEF IInv, PutExists, MovesAreSafe, TypeOK, RowState,
       SweepAt, ClientAt
<1>5. RowsHaveCopies'
    BY NullIsNothing, ActorsApart DEF IInv, PutExists, RowsHaveCopies, TypeOK, RowState,
       SweepAt, ClientAt
<1>6. StoredIsLive'
    BY NullIsNothing, ActorsApart DEF IInv, PutExists, StoredIsLive, TypeOK, RowState,
       SweepAt, ClientAt
<1>7. Listing'
    BY NullIsNothing, ActorsApart DEF IInv, PutExists, Listing, TypeOK, RowState, SweepAt,
       ClientAt
<1>8. Repairing'
    BY NullIsNothing, ActorsApart DEF IInv, PutExists, Repairing, TypeOK, RowState, SweepAt,
       ClientAt
<1>9. Retiring'
    BY NullIsNothing, ActorsApart DEF IInv, PutExists, Retiring, TypeOK, RowState, SweepAt,
       ClientAt
<1>10. Purging'
    BY NullIsNothing, ActorsApart, SMTT(30) DEF IInv, PutExists, Purging, TypeOK, ToPurge,
       RowState, SweepAt, ClientAt
<1>11. PromisedIsKept'
    BY NullIsNothing, ActorsApart DEF IInv, PutExists, PromisedIsKept, TypeOK, Promised,
       RowState, SweepAt, ClientAt
<1>. QED BY <1>1, <1>2, <1>3, <1>4, <1>5, <1>6, <1>7, <1>8, <1>9, <1>10, <1>11 DEF IInv

LEMMA KeepsUpload ==
    ASSUME IInv, NEW c \in Client, Upload(c)
    PROVE  IInv'
<1>1. TypeOK'
    BY NullIsNothing, ActorsApart, Switches DEF IInv, Upload, TypeOK, RowState, SweepAt,
       ClientAt
<1>2. OneSweep'
    BY NullIsNothing, ActorsApart DEF IInv, Upload, OneSweep, TypeOK, RowState, SweepAt,
       ClientAt
<1>3. GoalFits'
    BY NullIsNothing, ActorsApart DEF IInv, Upload, GoalFits, TypeOK, RowState, SweepAt,
       ClientAt
<1>4. MovesAreSafe'
    BY NullIsNothing, ActorsApart DEF IInv, Upload, MovesAreSafe, TypeOK, RowState, SweepAt,
       ClientAt
<1>5. RowsHaveCopies'
    BY NullIsNothing, ActorsApart DEF IInv, Upload, RowsHaveCopies, TypeOK, RowState,
       SweepAt, ClientAt
<1>6. StoredIsLive'
    BY NullIsNothing, ActorsApart DEF IInv, Upload, StoredIsLive, TypeOK, RowState, SweepAt,
       ClientAt
<1>7. Listing'
    BY NullIsNothing, ActorsApart DEF IInv, Upload, Listing, TypeOK, RowState, SweepAt,
       ClientAt
<1>8. Repairing'
    BY NullIsNothing, ActorsApart DEF IInv, Upload, Repairing, TypeOK, RowState, SweepAt,
       ClientAt
<1>9. Retiring'
    BY NullIsNothing, ActorsApart DEF IInv, Upload, Retiring, TypeOK, RowState, SweepAt,
       ClientAt
<1>10. Purging'
    BY NullIsNothing, ActorsApart, SMTT(30) DEF IInv, Upload, Purging, TypeOK, ToPurge,
       RowState, SweepAt, ClientAt
<1>11. PromisedIsKept'
    BY NullIsNothing, ActorsApart DEF IInv, Upload, PromisedIsKept, TypeOK, Promised,
       RowState, SweepAt, ClientAt
<1>. QED BY <1>1, <1>2, <1>3, <1>4, <1>5, <1>6, <1>7, <1>8, <1>9, <1>10, <1>11 DEF IInv

LEMMA KeepsRecord ==
    ASSUME IInv, NEW c \in Client, Record(c)
    PROVE  IInv'
<1>1. TypeOK'
    BY NullIsNothing, ActorsApart, Switches DEF IInv, Record, TypeOK, OneSweep, RowState,
       SweepAt, ClientAt
<1>2. OneSweep'
    BY NullIsNothing, ActorsApart DEF IInv, Record, OneSweep, TypeOK, RowState, SweepAt,
       ClientAt
<1>3. GoalFits'
    BY NullIsNothing, ActorsApart DEF IInv, Record, GoalFits, TypeOK, RowState, SweepAt,
       ClientAt
<1>4. MovesAreSafe'
    BY NullIsNothing, ActorsApart DEF IInv, Record, MovesAreSafe, TypeOK, RowState, SweepAt,
       ClientAt
<1>5. RowsHaveCopies'
    BY NullIsNothing, ActorsApart, SMTT(30) DEF IInv, Record, RowsHaveCopies, TypeOK,
       PromisedIsKept, RowState, SweepAt, ClientAt, Promised
<1>6. StoredIsLive'
    BY NullIsNothing, ActorsApart DEF IInv, Record, StoredIsLive, TypeOK, RowState, SweepAt,
       ClientAt
<1>7. Listing'
    BY NullIsNothing, ActorsApart DEF IInv, Record, Listing, TypeOK, RowState, SweepAt,
       ClientAt
<1>8. Repairing'
    BY NullIsNothing, ActorsApart DEF IInv, Record, Repairing, TypeOK, RowState, SweepAt,
       ClientAt
<1>9. Retiring'
    BY NullIsNothing, ActorsApart DEF IInv, Record, Retiring, TypeOK, RowState, SweepAt,
       ClientAt
<1>10. Purging'
    BY NullIsNothing, ActorsApart, SMTT(30) DEF IInv, Record, Purging, TypeOK, ToPurge,
       RowState, SweepAt, ClientAt
<1>11. PromisedIsKept'
    BY NullIsNothing, ActorsApart DEF IInv, Record, PromisedIsKept, TypeOK, Promised,
       RowState, SweepAt, ClientAt
<1>. QED BY <1>1, <1>2, <1>3, <1>4, <1>5, <1>6, <1>7, <1>8, <1>9, <1>10, <1>11 DEF IInv

LEMMA KeepsInsert ==
    ASSUME IInv, NEW c \in Client, NEW h \in Holder, Insert(c, h)
    PROVE  IInv'
<1>1. TypeOK'
    BY NullIsNothing, ActorsApart, Switches DEF IInv, Insert, TypeOK, RowState, SweepAt,
       ClientAt
<1>2. OneSweep'
    BY NullIsNothing, ActorsApart DEF IInv, Insert, OneSweep, TypeOK, RowState, SweepAt,
       ClientAt
<1>3. GoalFits'
    BY NullIsNothing, ActorsApart DEF IInv, Insert, GoalFits, TypeOK, RowState, SweepAt,
       ClientAt
<1>4. MovesAreSafe'
    BY NullIsNothing, ActorsApart DEF IInv, Insert, MovesAreSafe, TypeOK, RowState, SweepAt,
       ClientAt
<1>5. RowsHaveCopies'
    BY NullIsNothing, ActorsApart DEF IInv, Insert, RowsHaveCopies, TypeOK, RowState,
       SweepAt, ClientAt
<1>6. StoredIsLive'
    BY NullIsNothing, ActorsApart DEF IInv, Insert, StoredIsLive, TypeOK, RowState, SweepAt,
       ClientAt
<1>7. Listing'
    BY NullIsNothing, ActorsApart DEF IInv, Insert, Listing, TypeOK, RowState, SweepAt,
       ClientAt
<1>8. Repairing'
    BY NullIsNothing, ActorsApart DEF IInv, Insert, Repairing, TypeOK, RowState, SweepAt,
       ClientAt
<1>9. Retiring'
    BY NullIsNothing, ActorsApart DEF IInv, Insert, Retiring, TypeOK, RowState, SweepAt,
       ClientAt
<1>10. Purging'
    BY NullIsNothing, ActorsApart, SMTT(30) DEF IInv, Insert, Purging, TypeOK, ToPurge,
       RowState, SweepAt, ClientAt
<1>11. PromisedIsKept'
    BY NullIsNothing, ActorsApart DEF IInv, Insert, PromisedIsKept, TypeOK, Promised,
       RowState, SweepAt, ClientAt
<1>. QED BY <1>1, <1>2, <1>3, <1>4, <1>5, <1>6, <1>7, <1>8, <1>9, <1>10, <1>11 DEF IInv

LEMMA KeepsGiveUp ==
    ASSUME IInv, NEW c \in Client, GiveUp(c)
    PROVE  IInv'
<1>1. TypeOK'
    BY NullIsNothing, ActorsApart, Switches DEF IInv, GiveUp, TypeOK, RowState, SweepAt,
       ClientAt
<1>2. OneSweep'
    BY NullIsNothing, ActorsApart DEF IInv, GiveUp, OneSweep, TypeOK, RowState, SweepAt,
       ClientAt
<1>3. GoalFits'
    BY NullIsNothing, ActorsApart DEF IInv, GiveUp, GoalFits, TypeOK, RowState, SweepAt,
       ClientAt
<1>4. MovesAreSafe'
    BY NullIsNothing, ActorsApart DEF IInv, GiveUp, MovesAreSafe, TypeOK, RowState, SweepAt,
       ClientAt
<1>5. RowsHaveCopies'
    BY NullIsNothing, ActorsApart DEF IInv, GiveUp, RowsHaveCopies, TypeOK, RowState,
       SweepAt, ClientAt
<1>6. StoredIsLive'
    BY NullIsNothing, ActorsApart DEF IInv, GiveUp, StoredIsLive, TypeOK, RowState, SweepAt,
       ClientAt
<1>7. Listing'
    BY NullIsNothing, ActorsApart DEF IInv, GiveUp, Listing, TypeOK, RowState, SweepAt,
       ClientAt
<1>8. Repairing'
    BY NullIsNothing, ActorsApart DEF IInv, GiveUp, Repairing, TypeOK, RowState, SweepAt,
       ClientAt
<1>9. Retiring'
    BY NullIsNothing, ActorsApart DEF IInv, GiveUp, Retiring, TypeOK, RowState, SweepAt,
       ClientAt
<1>10. Purging'
    BY NullIsNothing, ActorsApart, SMTT(30) DEF IInv, GiveUp, Purging, TypeOK, ToPurge,
       RowState, SweepAt, ClientAt
<1>11. PromisedIsKept'
    BY NullIsNothing, ActorsApart DEF IInv, GiveUp, PromisedIsKept, TypeOK, Promised,
       RowState, SweepAt, ClientAt
<1>. QED BY <1>1, <1>2, <1>3, <1>4, <1>5, <1>6, <1>7, <1>8, <1>9, <1>10, <1>11 DEF IInv

LEMMA KeepsUnreference ==
    ASSUME IInv, NEW b \in Blob, NEW h \in Holder, Unreference(b, h)
    PROVE  IInv'
<1>1. TypeOK'
    BY NullIsNothing, ActorsApart, Switches DEF IInv, Unreference, TypeOK, RowState,
       SweepAt, ClientAt
<1>2. OneSweep'
    BY NullIsNothing, ActorsApart DEF IInv, Unreference, OneSweep, TypeOK, RowState,
       SweepAt, ClientAt
<1>3. GoalFits'
    BY NullIsNothing, ActorsApart DEF IInv, Unreference, GoalFits, TypeOK, RowState,
       SweepAt, ClientAt
<1>4. MovesAreSafe'
    BY NullIsNothing, ActorsApart DEF IInv, Unreference, MovesAreSafe, TypeOK, RowState,
       SweepAt, ClientAt
<1>5. RowsHaveCopies'
    BY NullIsNothing, ActorsApart DEF IInv, Unreference, RowsHaveCopies, TypeOK, RowState,
       SweepAt, ClientAt
<1>6. StoredIsLive'
    BY NullIsNothing, ActorsApart DEF IInv, Unreference, StoredIsLive, TypeOK, RowState,
       SweepAt, ClientAt
<1>7. Listing'
    BY NullIsNothing, ActorsApart DEF IInv, Unreference, Listing, TypeOK, RowState, SweepAt,
       ClientAt
<1>8. Repairing'
    BY NullIsNothing, ActorsApart DEF IInv, Unreference, Repairing, TypeOK, RowState,
       SweepAt, ClientAt
<1>9. Retiring'
    BY NullIsNothing, ActorsApart DEF IInv, Unreference, Retiring, TypeOK, RowState,
       SweepAt, ClientAt
<1>10. Purging'
    BY NullIsNothing, ActorsApart, SMTT(30) DEF IInv, Unreference, Purging, TypeOK, ToPurge,
       RowState, SweepAt, ClientAt
<1>11. PromisedIsKept'
    BY NullIsNothing, ActorsApart DEF IInv, Unreference, PromisedIsKept, TypeOK, Promised,
       RowState, SweepAt, ClientAt
<1>. QED BY <1>1, <1>2, <1>3, <1>4, <1>5, <1>6, <1>7, <1>8, <1>9, <1>10, <1>11 DEF IInv

-----------------------------------------------------------------------------
(* A lookup's moves.                                                       *)

LEMMA KeepsCopyBack ==
    ASSUME IInv, NEW a \in Actor, CopyBack(a)
    PROVE  IInv'
<1>0. /\ live \subseteq live' /\ UNCHANGED <<retired, row, held, todo, seen, asked, crossed>>
      /\ \A x \in Actor :
           /\ job'[x].blob = job[x].blob /\ job'[x].goal = job[x].goal
           /\ \/ job'[x].at = job[x].at
              \/ job[x].at = "copy" /\ job'[x].at \in {"drop", "reread"}
    <2>1. \E pc \in {"drop", "reread"} :
            job' = [job EXCEPT ![a] = [at |-> pc, blob |-> job[a].blob, goal |-> job[a].goal]]
        BY DEF CopyBack
    <2>2. \A x \in Actor : x # a => job'[x] = job[x]
        BY <2>1 DEF IInv, TypeOK
    <2>3. job'[a].blob = job[a].blob /\ job'[a].goal = job[a].goal /\ job[a].at = "copy"
          /\ job'[a].at \in {"drop", "reread"}
        BY <2>1 DEF IInv, TypeOK, CopyBack
    <2>4. live \subseteq live' /\ UNCHANGED <<retired, row, held, todo, seen, asked, crossed>>
        BY DEF CopyBack
    <2>. QED BY <2>2, <2>3, <2>4
<1>1. TypeOK'
    <2>1. PICK pc \in {"drop", "reread"} :
            job' = [job EXCEPT ![a] = [at |-> pc, blob |-> Of(a), goal |-> Goal(a)]]
        BY DEF CopyBack
    <2>2. Of(a) \in Blob
        BY NullIsNothing, ActorsApart DEF IInv, TypeOK, GoalFits, CopyBack, ClientAt
    <2>3. live' \subseteq Blob /\ UNCHANGED <<locked, faults>>
        BY <2>2 DEF IInv, TypeOK, CopyBack
    <2>. QED BY <1>0, <2>1, <2>2, <2>3, ActorsApart DEF IInv, TypeOK, SweepAt, ClientAt
<1>2. OneSweep'
    BY NullIsNothing, ActorsApart DEF IInv, CopyBack, OneSweep, TypeOK, RowState, SweepAt,
       ClientAt
<1>3. GoalFits'
    BY <1>0 DEF IInv, GoalFits
<1>4. MovesAreSafe'
    BY NullIsNothing, ActorsApart DEF IInv, CopyBack, MovesAreSafe, TypeOK, RowState,
       SweepAt, ClientAt
<1>5. RowsHaveCopies'
    BY NullIsNothing, ActorsApart DEF IInv, CopyBack, RowsHaveCopies, TypeOK, RowState,
       SweepAt, ClientAt
<1>6. StoredIsLive'
    BY NullIsNothing, ActorsApart DEF IInv, CopyBack, StoredIsLive, TypeOK, RowState,
       SweepAt, ClientAt
<1>7. Listing'
    BY NullIsNothing, ActorsApart DEF IInv, CopyBack, Listing, TypeOK, RowState, SweepAt,
       ClientAt
<1>8. Repairing'
    BY <1>0, ActorsApart DEF IInv, Repairing
<1>9. Retiring'
    <2>1. \A c \in Client : job'[c].at \in {"copy", "drop", "reread"} =>
              job[c].at \in {"copy", "drop", "reread"} /\ job'[c].blob = job[c].blob
        BY <1>0
    <2>2. \A s \in Sweeper : job'[s].at \in {"retire", "unlink"} =>
              job'[s].at = job[s].at /\ job'[s].blob = job[s].blob
        BY <1>0
    <2>. QED BY <1>0, <2>1, <2>2 DEF IInv, Retiring
<1>10. Purging'
    BY <1>0, ActorsApart DEF IInv, Purging, ToPurge
<1>11. PromisedIsKept'
    <2>1. \A b \in Blob : Promised(b)' => Promised(b)
        BY <1>0 DEF Promised
    <2>. QED BY <1>0, <2>1 DEF IInv, PromisedIsKept
<1>. QED BY <1>1, <1>2, <1>3, <1>4, <1>5, <1>6, <1>7, <1>8, <1>9, <1>10, <1>11 DEF IInv

LEMMA KeepsDropRetired ==
    ASSUME IInv, NEW a \in Actor, DropRetired(a)
    PROVE  IInv'
<1>1. TypeOK'
    BY NullIsNothing, ActorsApart, Switches DEF IInv, DropRetired, TypeOK, RowState,
       SweepAt, ClientAt
<1>2. OneSweep'
    BY NullIsNothing, ActorsApart DEF IInv, DropRetired, OneSweep, TypeOK, RowState,
       SweepAt, ClientAt
<1>3. GoalFits'
    BY NullIsNothing, ActorsApart DEF IInv, DropRetired, GoalFits, TypeOK, RowState,
       SweepAt, ClientAt
<1>4. MovesAreSafe'
    BY NullIsNothing, ActorsApart DEF IInv, DropRetired, MovesAreSafe, TypeOK, RowState,
       SweepAt, ClientAt
<1>5. RowsHaveCopies'
    BY NullIsNothing, ActorsApart, SMTT(30) DEF IInv, DropRetired, RowsHaveCopies, TypeOK,
       MovesAreSafe, RowState, SweepAt, ClientAt
<1>6. StoredIsLive'
    BY NullIsNothing, ActorsApart DEF IInv, DropRetired, StoredIsLive, TypeOK, RowState,
       SweepAt, ClientAt
<1>7. Listing'
    BY NullIsNothing, ActorsApart, SMTT(30) DEF IInv, DropRetired, Listing, TypeOK,
       MovesAreSafe, RowState, SweepAt, ClientAt
<1>8. Repairing'
    BY NullIsNothing, ActorsApart DEF IInv, DropRetired, Repairing, TypeOK, RowState,
       SweepAt, ClientAt
<1>9. Retiring'
    BY NullIsNothing, ActorsApart, SMTT(30) DEF IInv, DropRetired, Retiring, TypeOK,
       OneSweep, RowState, SweepAt, ClientAt
<1>10. Purging'
    BY NullIsNothing, ActorsApart, SMTT(30) DEF IInv, DropRetired, Purging, TypeOK,
       MovesAreSafe, ToPurge, RowState, SweepAt, ClientAt
<1>11. PromisedIsKept'
    BY NullIsNothing, ActorsApart, SMTT(30) DEF IInv, DropRetired, PromisedIsKept, TypeOK,
       MovesAreSafe, Promised, RowState, SweepAt, ClientAt
<1>. QED BY <1>1, <1>2, <1>3, <1>4, <1>5, <1>6, <1>7, <1>8, <1>9, <1>10, <1>11 DEF IInv

-----------------------------------------------------------------------------
(* The sweep lists and repairs.                                            *)

LEMMA KeepsStart ==
    ASSUME ~LockLoss, IInv, NEW s \in Sweeper, NEW mode \in {"report", "repair"}, Start(s, mode)
    PROVE  IInv'
<1> DEFINE first == [at |-> "live", blob |-> Null, goal |-> mode]
<1>1. \A x \in Sweeper : job[x] = Idle
    BY NullIsNothing DEF IInv, OneSweep, Start
<1>2. /\ locked' = s /\ faults' = faults /\ UNCHANGED <<live, retired, row, held, sweepVars>>
      /\ job' = [job EXCEPT ![s] = first]
      /\ crossed' = {b \in crossed : MovingBack(b) \/ b \notin live \union retired}
    BY DEF Start
<1>3. TypeOK
    BY DEF IInv
<1>4. /\ job'[s] = first
      /\ \A x \in Actor : x # s => job'[x] = job[x]
      /\ \A x \in Sweeper : x # s => job'[x] = Idle
    BY <1>1, <1>2, <1>3 DEF TypeOK
<1>5. /\ crossed' \subseteq crossed
      /\ \A b \in Blob : b \notin crossed' =>
             b \notin crossed \/ (~MovingBack(b) /\ b \in live \union retired)
    BY <1>2
<1>6. TypeOK'
    <2>1. /\ \A x \in Sweeper : job'[x] \in {Idle} \union
                [at : SweepAt, blob : Blob \union {Null}, goal : {"report", "repair", "retire", "purge"}]
          /\ \A c \in Client : job'[c] = job[c]
        BY <1>4, ActorsApart DEF SweepAt
    <2>2. job' \in [Actor -> [at : {"idle"} \union SweepAt \union ClientAt, blob : Blob \union {Null},
                             goal : {"none", "report", "repair", "retire", "purge",
                                     "read", "adopt"}]]
        BY <1>2, <1>3 DEF TypeOK, SweepAt
    <2>. QED BY <1>2, <1>3, <1>5, <2>1, <2>2 DEF TypeOK
<1>7. OneSweep' /\ GoalFits'
    BY <1>2, <1>4, ActorsApart DEF IInv, OneSweep, GoalFits
<1>8. MovesAreSafe'
    <2>. SUFFICES ASSUME NEW a \in Actor, job'[a].blob \notin crossed',
                         job'[a].at \in {"drop", "reread"}
                  PROVE  /\ job'[a].at = "drop" => job'[a].blob \in live
                         /\ job'[a].blob \in retired => job'[a].blob \in live
        BY <1>2 DEF MovesAreSafe
    <2>1. a \in Client /\ job'[a] = job[a]
        BY <1>4
    <2>2. Of(a) \in Blob /\ MovingBack(Of(a))
        BY <1>3, <2>1, NullIsNothing DEF TypeOK, MovingBack
    <2>3. Of(a) \notin crossed
        BY <1>5, <2>1, <2>2
    <2>. QED BY <2>1, <2>3 DEF IInv, MovesAreSafe
<1>9. RowsHaveCopies' /\ PromisedIsKept'
    <2>1. \A b \in Blob : Promised(b)' => Promised(b)
        BY <1>2, <1>4, ActorsApart DEF Promised
    <2>. QED BY <1>2, <1>5, <2>1 DEF IInv, RowsHaveCopies, PromisedIsKept
<1>10. StoredIsLive'
    BY <1>2, <1>4, ActorsApart DEF IInv, StoredIsLive
<1>11. Listing' /\ Repairing' /\ Retiring' /\ Purging'
    BY <1>4 DEF Listing, Repairing, Retiring, Purging, ToPurge
<1>. QED BY <1>6, <1>7, <1>8, <1>9, <1>10, <1>11 DEF IInv

LEMMA KeepsStop ==
    ASSUME IInv, NEW s \in Sweeper, Stop(s)
    PROVE  IInv'
<1>1. TypeOK'
    BY NullIsNothing, ActorsApart, Switches DEF IInv, Stop, TypeOK, Unlock, Forgets,
       RowState, SweepAt, ClientAt
<1>2. OneSweep'
    BY NullIsNothing, ActorsApart DEF IInv, Stop, OneSweep, TypeOK, Unlock, Forgets,
       RowState, SweepAt, ClientAt
<1>3. GoalFits'
    BY NullIsNothing, ActorsApart DEF IInv, Stop, GoalFits, TypeOK, Unlock, Forgets,
       RowState, SweepAt, ClientAt
<1>4. MovesAreSafe'
    BY NullIsNothing, ActorsApart DEF IInv, Stop, MovesAreSafe, TypeOK, Unlock, Forgets,
       RowState, SweepAt, ClientAt
<1>5. RowsHaveCopies'
    BY NullIsNothing, ActorsApart DEF IInv, Stop, RowsHaveCopies, TypeOK, Unlock, Forgets,
       RowState, SweepAt, ClientAt
<1>6. StoredIsLive'
    BY NullIsNothing, ActorsApart DEF IInv, Stop, StoredIsLive, TypeOK, Unlock, Forgets,
       RowState, SweepAt, ClientAt
<1>7. Listing'
    BY NullIsNothing, ActorsApart DEF IInv, Stop, Listing, TypeOK, Unlock, Forgets,
       RowState, SweepAt, ClientAt
<1>8. Repairing'
    BY NullIsNothing, ActorsApart DEF IInv, Stop, Repairing, TypeOK, Unlock, Forgets,
       RowState, SweepAt, ClientAt
<1>9. Retiring'
    BY NullIsNothing, ActorsApart DEF IInv, Stop, Retiring, TypeOK, Unlock, Forgets,
       RowState, SweepAt, ClientAt
<1>10. Purging'
    BY NullIsNothing, ActorsApart, SMTT(30) DEF IInv, Stop, Purging, TypeOK, Unlock,
       Forgets, ToPurge, RowState, SweepAt, ClientAt
<1>11. PromisedIsKept'
    BY NullIsNothing, ActorsApart DEF IInv, Stop, PromisedIsKept, TypeOK, Unlock, Forgets,
       Promised, RowState, SweepAt, ClientAt
<1>. QED BY <1>1, <1>2, <1>3, <1>4, <1>5, <1>6, <1>7, <1>8, <1>9, <1>10, <1>11 DEF IInv

LEMMA KeepsListLive ==
    ASSUME IInv, NEW s \in Sweeper, ListLive(s)
    PROVE  IInv'
<1>1. TypeOK'
    BY NullIsNothing, ActorsApart, Switches DEF IInv, ListLive, TypeOK, Lists, RowState,
       SweepAt, ClientAt
<1>2. OneSweep'
    BY NullIsNothing, ActorsApart DEF IInv, ListLive, OneSweep, TypeOK, Lists, RowState,
       SweepAt, ClientAt
<1>3. GoalFits'
    BY NullIsNothing, ActorsApart DEF IInv, ListLive, GoalFits, TypeOK, Lists, RowState,
       SweepAt, ClientAt
<1>4. MovesAreSafe'
    BY NullIsNothing, ActorsApart DEF IInv, ListLive, MovesAreSafe, TypeOK, Lists, RowState,
       SweepAt, ClientAt
<1>5. RowsHaveCopies'
    BY NullIsNothing, ActorsApart DEF IInv, ListLive, RowsHaveCopies, TypeOK, Lists,
       RowState, SweepAt, ClientAt
<1>6. StoredIsLive'
    BY NullIsNothing, ActorsApart DEF IInv, ListLive, StoredIsLive, TypeOK, Lists, RowState,
       SweepAt, ClientAt
<1>7. Listing'
    BY NullIsNothing, ActorsApart DEF IInv, ListLive, Listing, TypeOK, Lists, RowState,
       SweepAt, ClientAt
<1>8. Repairing'
    BY NullIsNothing, ActorsApart DEF IInv, ListLive, Repairing, TypeOK, Lists, RowState,
       SweepAt, ClientAt
<1>9. Retiring'
    BY NullIsNothing, ActorsApart DEF IInv, ListLive, Retiring, TypeOK, Lists, RowState,
       SweepAt, ClientAt
<1>10. Purging'
    BY NullIsNothing, ActorsApart, SMTT(30) DEF IInv, ListLive, Purging, TypeOK, GoalFits,
       Lists, ToPurge, RowState, SweepAt, ClientAt
<1>11. PromisedIsKept'
    BY NullIsNothing, ActorsApart DEF IInv, ListLive, PromisedIsKept, TypeOK, Lists,
       Promised, RowState, SweepAt, ClientAt
<1>. QED BY <1>1, <1>2, <1>3, <1>4, <1>5, <1>6, <1>7, <1>8, <1>9, <1>10, <1>11 DEF IInv

LEMMA KeepsListRetired ==
    ASSUME IInv, NEW s \in Sweeper, ListRetired(s)
    PROVE  IInv'
<1>1. TypeOK'
    BY NullIsNothing, ActorsApart, Switches DEF IInv, ListRetired, TypeOK, Lists, RowState,
       SweepAt, ClientAt
<1>2. OneSweep'
    BY NullIsNothing, ActorsApart DEF IInv, ListRetired, OneSweep, TypeOK, Lists, RowState,
       SweepAt, ClientAt
<1>3. GoalFits'
    BY NullIsNothing, ActorsApart DEF IInv, ListRetired, GoalFits, TypeOK, Lists, RowState,
       SweepAt, ClientAt
<1>4. MovesAreSafe'
    BY NullIsNothing, ActorsApart DEF IInv, ListRetired, MovesAreSafe, TypeOK, Lists,
       RowState, SweepAt, ClientAt
<1>5. RowsHaveCopies'
    BY NullIsNothing, ActorsApart DEF IInv, ListRetired, RowsHaveCopies, TypeOK, Lists,
       RowState, SweepAt, ClientAt
<1>6. StoredIsLive'
    BY NullIsNothing, ActorsApart DEF IInv, ListRetired, StoredIsLive, TypeOK, Lists,
       RowState, SweepAt, ClientAt
<1>7. Listing'
    BY NullIsNothing, ActorsApart, SMTT(30) DEF IInv, ListRetired, Listing, TypeOK,
       RowsHaveCopies, Lists, RowState, SweepAt, ClientAt
<1>8. Repairing'
    BY NullIsNothing, ActorsApart DEF IInv, ListRetired, Repairing, TypeOK, Lists, RowState,
       SweepAt, ClientAt
<1>9. Retiring'
    BY NullIsNothing, ActorsApart DEF IInv, ListRetired, Retiring, TypeOK, Lists, RowState,
       SweepAt, ClientAt
<1>10. Purging'
    BY NullIsNothing, ActorsApart, SMTT(30) DEF IInv, ListRetired, Purging, TypeOK,
       GoalFits, Lists, ToPurge, RowState, SweepAt, ClientAt
<1>11. PromisedIsKept'
    BY NullIsNothing, ActorsApart DEF IInv, ListRetired, PromisedIsKept, TypeOK, Lists,
       Promised, RowState, SweepAt, ClientAt
<1>. QED BY <1>1, <1>2, <1>3, <1>4, <1>5, <1>6, <1>7, <1>8, <1>9, <1>10, <1>11 DEF IInv

LEMMA KeepsRevive ==
    ASSUME IInv, NEW s \in Sweeper, Revive(s)
    PROVE  IInv'
<1>1. TypeOK'
    BY NullIsNothing, ActorsApart, Switches DEF IInv, Revive, TypeOK, RowState, SweepAt,
       ClientAt
<1>2. OneSweep'
    BY NullIsNothing, ActorsApart DEF IInv, Revive, OneSweep, TypeOK, RowState, SweepAt,
       ClientAt
<1>3. GoalFits'
    BY NullIsNothing, ActorsApart DEF IInv, Revive, GoalFits, TypeOK, RowState, SweepAt,
       ClientAt
<1>4. MovesAreSafe'
    BY NullIsNothing, ActorsApart DEF IInv, Revive, MovesAreSafe, TypeOK, RowState, SweepAt,
       ClientAt
<1>5. RowsHaveCopies'
    BY NullIsNothing, ActorsApart, SMTT(30) DEF IInv, Revive, RowsHaveCopies, TypeOK,
       Listing, RowState, SweepAt, ClientAt
<1>6. StoredIsLive'
    BY NullIsNothing, ActorsApart DEF IInv, Revive, StoredIsLive, TypeOK, RowState, SweepAt,
       ClientAt
<1>7. Listing'
    BY NullIsNothing, ActorsApart DEF IInv, Revive, Listing, TypeOK, RowState, SweepAt,
       ClientAt
<1>8. Repairing'
    BY NullIsNothing, ActorsApart DEF IInv, Revive, Repairing, TypeOK, RowState, SweepAt,
       ClientAt
<1>9. Retiring'
    BY NullIsNothing, ActorsApart DEF IInv, Revive, Retiring, TypeOK, RowState, SweepAt,
       ClientAt
<1>10. Purging'
    BY NullIsNothing, ActorsApart, SMTT(30) DEF IInv, Revive, Purging, TypeOK, OneSweep,
       ToPurge, RowState, SweepAt, ClientAt
<1>11. PromisedIsKept'
    BY NullIsNothing, ActorsApart DEF IInv, Revive, PromisedIsKept, TypeOK, Promised,
       RowState, SweepAt, ClientAt
<1>. QED BY <1>1, <1>2, <1>3, <1>4, <1>5, <1>6, <1>7, <1>8, <1>9, <1>10, <1>11 DEF IInv

LEMMA KeepsClaim ==
    ASSUME IInv, NEW s \in Sweeper, Claim(s)
    PROVE  IInv'
<1>1. TypeOK'
    BY NullIsNothing, ActorsApart, Switches DEF IInv, Claim, TypeOK, RowState, SweepAt,
       ClientAt
<1>2. OneSweep'
    BY NullIsNothing, ActorsApart DEF IInv, Claim, OneSweep, TypeOK, RowState, SweepAt,
       ClientAt
<1>3. GoalFits'
    BY NullIsNothing, ActorsApart DEF IInv, Claim, GoalFits, TypeOK, RowState, SweepAt,
       ClientAt
<1>4. MovesAreSafe'
    BY NullIsNothing, ActorsApart DEF IInv, Claim, MovesAreSafe, TypeOK, RowState, SweepAt,
       ClientAt
<1>5. RowsHaveCopies'
    BY NullIsNothing, ActorsApart, SMTT(30) DEF IInv, Claim, RowsHaveCopies, TypeOK,
       Listing, RowState, SweepAt, ClientAt
<1>6. StoredIsLive'
    BY NullIsNothing, ActorsApart DEF IInv, Claim, StoredIsLive, TypeOK, RowState, SweepAt,
       ClientAt
<1>7. Listing'
    BY NullIsNothing, ActorsApart DEF IInv, Claim, Listing, TypeOK, RowState, SweepAt,
       ClientAt
<1>8. Repairing'
    BY NullIsNothing, ActorsApart, SMTT(30) DEF IInv, Claim, Repairing, TypeOK, Listing,
       RowState, SweepAt, ClientAt
<1>9. Retiring'
    BY NullIsNothing, ActorsApart DEF IInv, Claim, Retiring, TypeOK, RowState, SweepAt,
       ClientAt
<1>10. Purging'
    BY NullIsNothing, ActorsApart, SMTT(30) DEF IInv, Claim, Purging, TypeOK, ToPurge,
       RowState, SweepAt, ClientAt
<1>11. PromisedIsKept'
    BY NullIsNothing, ActorsApart DEF IInv, Claim, PromisedIsKept, TypeOK, Promised,
       RowState, SweepAt, ClientAt
<1>. QED BY <1>1, <1>2, <1>3, <1>4, <1>5, <1>6, <1>7, <1>8, <1>9, <1>10, <1>11 DEF IInv

LEMMA KeepsReport ==
    ASSUME IInv, NEW s \in Sweeper, Report(s)
    PROVE  IInv'
<1>1. TypeOK'
    BY NullIsNothing, ActorsApart, Switches DEF IInv, Report, TypeOK, Unlock, Forgets,
       RowState, SweepAt, ClientAt
<1>2. OneSweep'
    BY NullIsNothing, ActorsApart DEF IInv, Report, OneSweep, TypeOK, Unlock, Forgets,
       RowState, SweepAt, ClientAt
<1>3. GoalFits'
    BY NullIsNothing, ActorsApart DEF IInv, Report, GoalFits, TypeOK, Unlock, Forgets,
       RowState, SweepAt, ClientAt
<1>4. MovesAreSafe'
    BY NullIsNothing, ActorsApart DEF IInv, Report, MovesAreSafe, TypeOK, Unlock, Forgets,
       RowState, SweepAt, ClientAt
<1>5. RowsHaveCopies'
    BY NullIsNothing, ActorsApart, SMTT(30) DEF IInv, Report, RowsHaveCopies, TypeOK,
       Listing, Unlock, Forgets, RowState, SweepAt, ClientAt
<1>6. StoredIsLive'
    BY NullIsNothing, ActorsApart DEF IInv, Report, StoredIsLive, TypeOK, Unlock, Forgets,
       RowState, SweepAt, ClientAt
<1>7. Listing'
    BY NullIsNothing, ActorsApart DEF IInv, Report, Listing, TypeOK, Unlock, Forgets,
       RowState, SweepAt, ClientAt
<1>8. Repairing'
    BY NullIsNothing, ActorsApart DEF IInv, Report, Repairing, TypeOK, Unlock, Forgets,
       RowState, SweepAt, ClientAt
<1>9. Retiring'
    BY NullIsNothing, ActorsApart DEF IInv, Report, Retiring, TypeOK, Unlock, Forgets,
       RowState, SweepAt, ClientAt
<1>10. Purging'
    BY NullIsNothing, ActorsApart, SMTT(30) DEF IInv, Report, Purging, TypeOK, Unlock,
       Forgets, ToPurge, RowState, SweepAt, ClientAt
<1>11. PromisedIsKept'
    BY NullIsNothing, ActorsApart DEF IInv, Report, PromisedIsKept, TypeOK, Unlock, Forgets,
       Promised, RowState, SweepAt, ClientAt
<1>. QED BY <1>1, <1>2, <1>3, <1>4, <1>5, <1>6, <1>7, <1>8, <1>9, <1>10, <1>11 DEF IInv

LEMMA KeepsRepair ==
    ASSUME IInv, NEW s \in Sweeper, NEW b \in Blob, Repair(s, b)
    PROVE  IInv'
<1>1. TypeOK'
    BY NullIsNothing, ActorsApart, Switches DEF IInv, Repair, TypeOK, RowState, SweepAt,
       ClientAt
<1>2. OneSweep'
    BY NullIsNothing, ActorsApart DEF IInv, Repair, OneSweep, TypeOK, RowState, SweepAt,
       ClientAt
<1>3. GoalFits'
    BY NullIsNothing, ActorsApart DEF IInv, Repair, GoalFits, TypeOK, RowState, SweepAt,
       ClientAt
<1>4. MovesAreSafe'
    BY NullIsNothing, ActorsApart DEF IInv, Repair, MovesAreSafe, TypeOK, RowState, SweepAt,
       ClientAt
<1>5. RowsHaveCopies'
    BY NullIsNothing, ActorsApart DEF IInv, Repair, RowsHaveCopies, TypeOK, RowState,
       SweepAt, ClientAt
<1>6. StoredIsLive'
    BY NullIsNothing, ActorsApart DEF IInv, Repair, StoredIsLive, TypeOK, RowState, SweepAt,
       ClientAt
<1>7. Listing'
    BY NullIsNothing, ActorsApart DEF IInv, Repair, Listing, TypeOK, RowState, SweepAt,
       ClientAt
<1>8. Repairing'
    BY NullIsNothing, ActorsApart DEF IInv, Repair, Repairing, TypeOK, RowState, SweepAt,
       ClientAt
<1>9. Retiring'
    BY NullIsNothing, ActorsApart DEF IInv, Repair, Retiring, TypeOK, RowState, SweepAt,
       ClientAt
<1>10. Purging'
    BY NullIsNothing, ActorsApart, SMTT(30) DEF IInv, Repair, Purging, TypeOK, ToPurge,
       RowState, SweepAt, ClientAt
<1>11. PromisedIsKept'
    BY NullIsNothing, ActorsApart DEF IInv, Repair, PromisedIsKept, TypeOK, Promised,
       RowState, SweepAt, ClientAt
<1>. QED BY <1>1, <1>2, <1>3, <1>4, <1>5, <1>6, <1>7, <1>8, <1>9, <1>10, <1>11 DEF IInv

LEMMA KeepsDedup ==
    ASSUME IInv, NEW s \in Sweeper, Dedup(s)
    PROVE  IInv'
<1>1. TypeOK'
    BY NullIsNothing, ActorsApart, Switches DEF IInv, Dedup, TypeOK, RowState, SweepAt,
       ClientAt
<1>2. OneSweep'
    BY NullIsNothing, ActorsApart DEF IInv, Dedup, OneSweep, TypeOK, RowState, SweepAt,
       ClientAt
<1>3. GoalFits'
    BY NullIsNothing, ActorsApart DEF IInv, Dedup, GoalFits, TypeOK, RowState, SweepAt,
       ClientAt
<1>4. MovesAreSafe'
    BY NullIsNothing, ActorsApart DEF IInv, Dedup, MovesAreSafe, TypeOK, RowState, SweepAt,
       ClientAt
<1>5. RowsHaveCopies'
    BY NullIsNothing, ActorsApart, SMTT(30) DEF IInv, Dedup, RowsHaveCopies, TypeOK,
       Repairing, RowState, SweepAt, ClientAt
<1>6. StoredIsLive'
    BY NullIsNothing, ActorsApart DEF IInv, Dedup, StoredIsLive, TypeOK, RowState, SweepAt,
       ClientAt
<1>7. Listing'
    BY NullIsNothing, ActorsApart, SMTT(30) DEF IInv, Dedup, Listing, TypeOK, OneSweep,
       RowState, SweepAt, ClientAt
<1>8. Repairing'
    BY NullIsNothing, ActorsApart DEF IInv, Dedup, Repairing, TypeOK, RowState, SweepAt,
       ClientAt
<1>9. Retiring'
    BY NullIsNothing, ActorsApart, SMTT(30) DEF IInv, Dedup, Retiring, TypeOK, OneSweep,
       RowState, SweepAt, ClientAt
<1>10. Purging'
    BY NullIsNothing, ActorsApart, SMTT(30) DEF IInv, Dedup, Purging, TypeOK, OneSweep,
       ToPurge, RowState, SweepAt, ClientAt
<1>11. PromisedIsKept'
    BY NullIsNothing, ActorsApart, SMTT(30) DEF IInv, Dedup, PromisedIsKept, TypeOK,
       Repairing, Promised, RowState, SweepAt, ClientAt
<1>. QED BY <1>1, <1>2, <1>3, <1>4, <1>5, <1>6, <1>7, <1>8, <1>9, <1>10, <1>11 DEF IInv

-----------------------------------------------------------------------------
(* It retires.                                                             *)

LEMMA KeepsNextPass ==
    ASSUME IInv, NEW s \in Sweeper, NextPass(s)
    PROVE  IInv'
<1>1. TypeOK'
    BY NullIsNothing, ActorsApart, Switches DEF IInv, NextPass, TypeOK, Candidates,
       RowState, SweepAt, ClientAt
<1>2. OneSweep'
    BY NullIsNothing, ActorsApart DEF IInv, NextPass, OneSweep, TypeOK, Candidates,
       RowState, SweepAt, ClientAt
<1>3. GoalFits'
    BY NullIsNothing, ActorsApart DEF IInv, NextPass, GoalFits, TypeOK, Candidates,
       RowState, SweepAt, ClientAt
<1>4. MovesAreSafe'
    BY NullIsNothing, ActorsApart DEF IInv, NextPass, MovesAreSafe, TypeOK, Candidates,
       RowState, SweepAt, ClientAt
<1>5. RowsHaveCopies'
    BY NullIsNothing, ActorsApart DEF IInv, NextPass, RowsHaveCopies, TypeOK, Candidates,
       RowState, SweepAt, ClientAt
<1>6. StoredIsLive'
    BY NullIsNothing, ActorsApart DEF IInv, NextPass, StoredIsLive, TypeOK, Candidates,
       RowState, SweepAt, ClientAt
<1>7. Listing'
    BY NullIsNothing, ActorsApart DEF IInv, NextPass, Listing, TypeOK, Candidates, RowState,
       SweepAt, ClientAt
<1>8. Repairing'
    BY NullIsNothing, ActorsApart DEF IInv, NextPass, Repairing, TypeOK, Candidates,
       RowState, SweepAt, ClientAt
<1>9. Retiring'
    BY NullIsNothing, ActorsApart DEF IInv, NextPass, Retiring, TypeOK, Candidates,
       RowState, SweepAt, ClientAt
<1>10. Purging'
    BY NullIsNothing, ActorsApart, SMTT(30) DEF IInv, NextPass, Purging, TypeOK,
       StoredIsLive, Candidates, ToPurge, RowState, SweepAt, ClientAt
<1>11. PromisedIsKept'
    BY NullIsNothing, ActorsApart DEF IInv, NextPass, PromisedIsKept, TypeOK, Candidates,
       Promised, RowState, SweepAt, ClientAt
<1>. QED BY <1>1, <1>2, <1>3, <1>4, <1>5, <1>6, <1>7, <1>8, <1>9, <1>10, <1>11 DEF IInv

LEMMA KeepsAsk ==
    ASSUME IInv, NEW s \in Sweeper, NEW h \in Holder, Ask(s, h)
    PROVE  IInv'
<1>1. TypeOK'
    BY NullIsNothing, ActorsApart, Switches DEF IInv, Ask, TypeOK, RowState, SweepAt,
       ClientAt
<1>2. OneSweep'
    BY NullIsNothing, ActorsApart DEF IInv, Ask, OneSweep, TypeOK, RowState, SweepAt,
       ClientAt
<1>3. GoalFits'
    BY NullIsNothing, ActorsApart DEF IInv, Ask, GoalFits, TypeOK, RowState, SweepAt,
       ClientAt
<1>4. MovesAreSafe'
    BY NullIsNothing, ActorsApart DEF IInv, Ask, MovesAreSafe, TypeOK, RowState, SweepAt,
       ClientAt
<1>5. RowsHaveCopies'
    BY NullIsNothing, ActorsApart DEF IInv, Ask, RowsHaveCopies, TypeOK, RowState, SweepAt,
       ClientAt
<1>6. StoredIsLive'
    BY NullIsNothing, ActorsApart DEF IInv, Ask, StoredIsLive, TypeOK, RowState, SweepAt,
       ClientAt
<1>7. Listing'
    BY NullIsNothing, ActorsApart DEF IInv, Ask, Listing, TypeOK, RowState, SweepAt,
       ClientAt
<1>8. Repairing'
    BY NullIsNothing, ActorsApart DEF IInv, Ask, Repairing, TypeOK, RowState, SweepAt,
       ClientAt
<1>9. Retiring'
    BY NullIsNothing, ActorsApart DEF IInv, Ask, Retiring, TypeOK, RowState, SweepAt,
       ClientAt
<1>10. Purging'
    BY NullIsNothing, ActorsApart, SMTT(30) DEF IInv, Ask, Purging, TypeOK, PromisedIsKept,
       ToPurge, RowState, SweepAt, ClientAt, Promised
<1>11. PromisedIsKept'
    BY NullIsNothing, ActorsApart DEF IInv, Ask, PromisedIsKept, TypeOK, Promised, RowState,
       SweepAt, ClientAt
<1>. QED BY <1>1, <1>2, <1>3, <1>4, <1>5, <1>6, <1>7, <1>8, <1>9, <1>10, <1>11 DEF IInv

LEMMA KeepsJudge ==
    ASSUME IInv, NEW s \in Sweeper, Judge(s)
    PROVE  IInv'
<1>1. TypeOK'
    BY NullIsNothing, ActorsApart, Switches DEF IInv, Judge, TypeOK, RowState, SweepAt,
       ClientAt
<1>2. OneSweep'
    BY NullIsNothing, ActorsApart DEF IInv, Judge, OneSweep, TypeOK, RowState, SweepAt,
       ClientAt
<1>3. GoalFits'
    BY NullIsNothing, ActorsApart DEF IInv, Judge, GoalFits, TypeOK, RowState, SweepAt,
       ClientAt
<1>4. MovesAreSafe'
    BY NullIsNothing, ActorsApart DEF IInv, Judge, MovesAreSafe, TypeOK, RowState, SweepAt,
       ClientAt
<1>5. RowsHaveCopies'
    BY NullIsNothing, ActorsApart DEF IInv, Judge, RowsHaveCopies, TypeOK, RowState,
       SweepAt, ClientAt
<1>6. StoredIsLive'
    BY NullIsNothing, ActorsApart DEF IInv, Judge, StoredIsLive, TypeOK, RowState, SweepAt,
       ClientAt
<1>7. Listing'
    BY NullIsNothing, ActorsApart DEF IInv, Judge, Listing, TypeOK, RowState, SweepAt,
       ClientAt
<1>8. Repairing'
    BY NullIsNothing, ActorsApart, SMTT(30) DEF IInv, Judge, Repairing, TypeOK, GoalFits,
       RowState, SweepAt, ClientAt
<1>9. Retiring'
    BY NullIsNothing, ActorsApart DEF IInv, Judge, Retiring, TypeOK, RowState, SweepAt,
       ClientAt
<1>10. Purging'
    BY NullIsNothing, ActorsApart, SMTT(30) DEF IInv, Judge, Purging, TypeOK, ToPurge,
       RowState, SweepAt, ClientAt
<1>11. PromisedIsKept'
    BY NullIsNothing, ActorsApart DEF IInv, Judge, PromisedIsKept, TypeOK, Promised,
       RowState, SweepAt, ClientAt
<1>. QED BY <1>1, <1>2, <1>3, <1>4, <1>5, <1>6, <1>7, <1>8, <1>9, <1>10, <1>11 DEF IInv

LEMMA KeepsMarkRetired ==
    ASSUME IInv, NEW s \in Sweeper, NEW b \in Blob, MarkRetired(s, b)
    PROVE  IInv'
<1>0. /\ job[s].at = "next" /\ Goal(s) = "retire"
      /\ \A x \in Actor \ {s} : job'[x] = job[x]
      /\ UNCHANGED <<live, retired, held, asked, seen, locked, faults>>
      /\ crossed \subseteq crossed' /\ crossed' \subseteq Blob
      /\ \/ row' = row /\ job' = job
         \/ /\ row[b] = "old" /\ row' = [row EXCEPT ![b] = "set"]
            /\ job' = [job EXCEPT ![s] = [at |-> "retire", blob |-> b, goal |-> "retire"]]
            /\ job'[s] = [at |-> "retire", blob |-> b, goal |-> "retire"]
            /\ MovingBack(b) => b \in crossed'
    <2>1. TypeOK
        BY DEF IInv
    <2>2. job[s].at = "next" /\ UNCHANGED <<live, retired, held, asked, seen, locked, faults>>
        BY DEF MarkRetired
    <2>3. CASE row[b] = "old"
        <3>1. /\ job' = [job EXCEPT ![s] = [at |-> "retire", blob |-> b, goal |-> "retire"]]
              /\ Goal(s) = "retire" /\ row' = [row EXCEPT ![b] = "set"]
              /\ crossed \subseteq crossed' /\ crossed' \subseteq Blob
              /\ MovingBack(b) => b \in crossed'
            BY <2>1, <2>3 DEF MarkRetired, TypeOK
        <3>. QED BY <2>1, <2>2, <2>3, <3>1 DEF TypeOK
    <2>4. CASE row[b] # "old"
        BY <2>1, <2>2, <2>4 DEF MarkRetired, TypeOK
    <2>. QED BY <2>3, <2>4
<1>1. TypeOK'
    <2>1. TypeOK
        BY DEF IInv
    <2>2. [at |-> "retire", blob |-> b, goal |-> "retire"] \in
            [at : SweepAt, blob : Blob \union {Null}, goal : {"report", "repair", "retire", "purge"}]
        BY DEF SweepAt
    <2>3. /\ \A x \in Sweeper : job'[x] \in {Idle} \union
                [at : SweepAt, blob : Blob \union {Null}, goal : {"report", "repair", "retire", "purge"}]
          /\ \A c \in Client : job'[c] = job[c]
        BY <1>0, <2>1, <2>2, ActorsApart DEF TypeOK
    <2>4. job' \in [Actor -> [at : {"idle"} \union SweepAt \union ClientAt, blob : Blob \union {Null},
                             goal : {"none", "report", "repair", "retire", "purge",
                                     "read", "adopt"}]]
        BY <1>0, <2>1, <2>2 DEF TypeOK
    <2>5. todo' \in [Sweeper -> SUBSET Blob] /\ row' \in [Blob -> RowState]
        BY <1>0, <2>1 DEF TypeOK, MarkRetired, RowState
    <2>. QED BY <1>0, <2>1, <2>3, <2>4, <2>5 DEF TypeOK
<1>2. OneSweep'
    BY NullIsNothing, ActorsApart DEF IInv, MarkRetired, OneSweep, TypeOK,
       RowState, SweepAt, ClientAt
<1>3. GoalFits'
    <2>1. TypeOK /\ GoalFits
        BY DEF IInv
    <2>2. CASE row[b] = "old"
        <3>1. job' = [job EXCEPT ![s] = [at |-> "retire", blob |-> b, goal |-> "retire"]]
            BY <2>2 DEF MarkRetired
        <3>. QED BY <2>1, <3>1, NullIsNothing, ActorsApart DEF GoalFits, TypeOK, SweepAt, ClientAt
    <2>3. CASE row[b] # "old"
        BY NullIsNothing, ActorsApart, <2>1, <2>3 DEF MarkRetired, GoalFits, TypeOK,
           RowState, SweepAt, ClientAt
    <2>. QED BY <2>2, <2>3
<1>4. MovesAreSafe'
    BY NullIsNothing, ActorsApart DEF IInv, MarkRetired, MovesAreSafe, TypeOK,
       RowState, SweepAt, ClientAt
<1>5. RowsHaveCopies'
    BY NullIsNothing, ActorsApart DEF IInv, MarkRetired, RowsHaveCopies, TypeOK,
       RowState, SweepAt, ClientAt
<1>6. StoredIsLive'
    <2>1. \A c \in Client : job'[c] = job[c]
        BY <1>0, ActorsApart
    <2>2. \A d \in Blob : row'[d] = "due" => row[d] = "due"
        BY <1>0 DEF IInv, TypeOK
    <2>3. \A c \in Client : job[c].at \in {"record", "insert"} => Of(c) \in Blob
        BY NullIsNothing DEF IInv, TypeOK
    <2>. QED BY <1>0, <2>1, <2>2, <2>3 DEF IInv, StoredIsLive
<1>7. Listing'
    BY NullIsNothing, ActorsApart DEF IInv, MarkRetired, Listing, TypeOK,
       RowState, SweepAt, ClientAt
<1>8. Repairing'
    BY NullIsNothing, ActorsApart DEF IInv, MarkRetired, Repairing, TypeOK,
       RowState, SweepAt, ClientAt
<1>9. Retiring'
    <2>1. row[b] = "old" => b \in live \union crossed
        BY <1>0 DEF IInv, Repairing
    <2>2. \A c \in Client : job'[c] = job[c]
        BY <1>0, ActorsApart
    <2>3. \A x \in Sweeper : x # s => job'[x] = job[x] /\ job[x].at \notin {"retire", "unlink"}
        BY <1>0 DEF IInv, OneSweep, TypeOK
    <2>4. row \in [Blob -> RowState]
        BY DEF IInv, TypeOK
    <2>. QED BY <1>0, <2>1, <2>2, <2>3, <2>4 DEF Retiring, MovingBack
<1>10. Purging'
    BY NullIsNothing, ActorsApart, SMTT(30) DEF IInv, MarkRetired, Purging, TypeOK,
       OneSweep, ToPurge, RowState, SweepAt, ClientAt
<1>11. PromisedIsKept'
    BY NullIsNothing, ActorsApart, SMTT(20) DEF IInv, MarkRetired, PromisedIsKept, TypeOK,
       Promised, RowState, SweepAt, ClientAt
<1>. QED BY <1>1, <1>2, <1>3, <1>4, <1>5, <1>6, <1>7, <1>8, <1>9, <1>10, <1>11 DEF IInv

LEMMA KeepsRetireCopy ==
    ASSUME IInv, NEW s \in Sweeper, RetireCopy(s)
    PROVE  IInv'
<1>0. /\ Goal(s) = "retire" /\ job[s].at = "retire" /\ job'[s].goal = "retire"
      /\ \/ job'[s].at = "next"
         \/ job'[s].at = "unlink" /\ job'[s].blob = job[s].blob /\ job[s].blob \in retired'
      /\ \A x \in Actor \ {s} : job'[x] = job[x]
      /\ retired \subseteq retired'
      /\ UNCHANGED <<live, row, held, todo, seen, asked, crossed>>
    BY NullIsNothing, ActorsApart DEF IInv, GoalFits, TypeOK, RetireCopy
<1>t. PICK j \in [at : {"next", "unlink"}, blob : Blob \union {Null}, goal : {"retire"}] :
           job' = [job EXCEPT ![s] = j]
    <2>1. Of(s) \in Blob
        BY <1>0 DEF IInv, GoalFits
    <2>. QED BY <1>0, <2>1 DEF RetireCopy
<1>c. retired' \subseteq Blob /\ UNCHANGED <<locked, faults>>
    <2>1. Of(s) \in Blob
        BY <1>0 DEF IInv, GoalFits
    <2>. QED BY <2>1 DEF IInv, TypeOK, RetireCopy
<1>1. TypeOK'
    BY <1>0, <1>t, <1>c, ActorsApart DEF IInv, TypeOK, SweepAt, ClientAt
<1>2. OneSweep'
    BY <1>0, <1>t, <1>c DEF IInv, OneSweep, TypeOK
<1>3. GoalFits'
    <2>1. At(s, "retire") /\ Of(s) \in Blob
        BY <1>0 DEF IInv, GoalFits
    <2>2. \A x \in Actor \ {s} : job'[x] = job[x]
        BY <1>0
    <2>3. s \notin Client
        BY ActorsApart
    <2>. QED BY <1>0, <1>t, <2>1, <2>2, <2>3 DEF IInv, GoalFits
<1>4. MovesAreSafe'
    BY NullIsNothing, ActorsApart DEF IInv, RetireCopy, MovesAreSafe, TypeOK, RowState,
       SweepAt, ClientAt
<1>5. RowsHaveCopies'
    BY NullIsNothing, ActorsApart DEF IInv, RetireCopy, RowsHaveCopies, TypeOK, RowState,
       SweepAt, ClientAt
<1>6. StoredIsLive'
    BY NullIsNothing, ActorsApart DEF IInv, RetireCopy, StoredIsLive, TypeOK, RowState,
       SweepAt, ClientAt
<1>7. Listing'
    BY NullIsNothing, ActorsApart DEF IInv, RetireCopy, Listing, TypeOK, RowState, SweepAt,
       ClientAt
<1>8. Repairing'
    BY <1>0, ActorsApart DEF IInv, Repairing
<1>9. Retiring'
    BY <1>0, ActorsApart DEF IInv, Retiring
<1>10. Purging'
    <2>. SUFFICES ASSUME NEW x \in Sweeper, job'[x].goal = "purge"
                  PROVE  x # s /\ job'[x] = job[x]
        BY <1>0, ActorsApart DEF IInv, Purging, ToPurge
    <2>. QED BY <1>0
<1>11. PromisedIsKept'
    BY NullIsNothing, ActorsApart DEF IInv, RetireCopy, PromisedIsKept, TypeOK, Promised,
       RowState, SweepAt, ClientAt
<1>. QED BY <1>1, <1>2, <1>3, <1>4, <1>5, <1>6, <1>7, <1>8, <1>9, <1>10, <1>11 DEF IInv

LEMMA KeepsRetireDelete ==
    ASSUME IInv, NEW s \in Sweeper, RetireDelete(s)
    PROVE  IInv'
<1>1. TypeOK'
    BY NullIsNothing, ActorsApart, Switches DEF IInv, RetireDelete, TypeOK, RowState,
       SweepAt, ClientAt
<1>2. OneSweep'
    BY NullIsNothing, ActorsApart DEF IInv, RetireDelete, OneSweep, TypeOK, RowState,
       SweepAt, ClientAt
<1>3. GoalFits'
    BY NullIsNothing, ActorsApart DEF IInv, RetireDelete, GoalFits, TypeOK, RowState,
       SweepAt, ClientAt
<1>4. MovesAreSafe'
    BY NullIsNothing, ActorsApart, SMTT(30) DEF IInv, RetireDelete, MovesAreSafe, TypeOK,
       OneSweep, Retiring, RowState, SweepAt, ClientAt
<1>5. RowsHaveCopies'
    BY NullIsNothing, ActorsApart, SMTT(30) DEF IInv, RetireDelete, RowsHaveCopies, TypeOK,
       Retiring, RowState, SweepAt, ClientAt
<1>6. StoredIsLive'
    BY NullIsNothing, ActorsApart, SMTT(30) DEF IInv, RetireDelete, StoredIsLive, TypeOK,
       Retiring, RowState, SweepAt, ClientAt
<1>7. Listing'
    BY NullIsNothing, ActorsApart, SMTT(30) DEF IInv, RetireDelete, Listing, TypeOK,
       OneSweep, RowState, SweepAt, ClientAt
<1>8. Repairing'
    BY NullIsNothing, ActorsApart, SMTT(30) DEF IInv, RetireDelete, Repairing, TypeOK,
       OneSweep, GoalFits, MovesAreSafe, RowsHaveCopies, StoredIsLive, Listing, Retiring,
       Purging, PromisedIsKept, RowState, SweepAt, ClientAt, ToPurge, Promised
<1>9. Retiring'
    BY NullIsNothing, ActorsApart, SMTT(30) DEF IInv, RetireDelete, Retiring, TypeOK,
       OneSweep, RowState, SweepAt, ClientAt
<1>10. Purging'
    BY NullIsNothing, ActorsApart, SMTT(30) DEF IInv, RetireDelete, Purging, TypeOK,
       OneSweep, ToPurge, RowState, SweepAt, ClientAt
<1>11. PromisedIsKept'
    BY NullIsNothing, ActorsApart, SMTT(30) DEF IInv, RetireDelete, PromisedIsKept, TypeOK,
       Retiring, Promised, RowState, SweepAt, ClientAt
<1>. QED BY <1>1, <1>2, <1>3, <1>4, <1>5, <1>6, <1>7, <1>8, <1>9, <1>10, <1>11 DEF IInv

LEMMA KeepsRetireFails ==
    ASSUME IInv, NEW s \in Sweeper, RetireFails(s)
    PROVE  IInv'
<1>1. TypeOK'
    BY NullIsNothing, ActorsApart, Switches DEF IInv, RetireFails, TypeOK, GoalFits, Unlock,
       Forgets, RowState, SweepAt, ClientAt
<1>2. OneSweep'
    BY NullIsNothing, ActorsApart DEF IInv, RetireFails, OneSweep, TypeOK, Unlock, Forgets,
       RowState, SweepAt, ClientAt
<1>3. GoalFits'
    BY NullIsNothing, ActorsApart DEF IInv, RetireFails, GoalFits, TypeOK, Unlock, Forgets,
       RowState, SweepAt, ClientAt
<1>4. MovesAreSafe'
    BY NullIsNothing, ActorsApart, SMTT(30) DEF IInv, RetireFails, MovesAreSafe, TypeOK,
       OneSweep, Retiring, Unlock, Forgets, RowState, SweepAt, ClientAt
<1>5. RowsHaveCopies'
    BY NullIsNothing, ActorsApart, SMTT(30) DEF IInv, RetireFails, RowsHaveCopies, TypeOK,
       Retiring, Unlock, Forgets, RowState, SweepAt, ClientAt
<1>6. StoredIsLive'
    BY NullIsNothing, ActorsApart, SMTT(30) DEF IInv, RetireFails, StoredIsLive, TypeOK,
       Retiring, Unlock, Forgets, RowState, SweepAt, ClientAt
<1>7. Listing'
    BY NullIsNothing, ActorsApart, SMTT(30) DEF IInv, RetireFails, Listing, TypeOK,
       OneSweep, Unlock, Forgets, RowState, SweepAt, ClientAt
<1>8. Repairing'
    BY NullIsNothing, ActorsApart, SMTT(30) DEF IInv, RetireFails, Repairing, TypeOK,
       OneSweep, Unlock, Forgets, RowState, SweepAt, ClientAt
<1>9. Retiring'
    BY NullIsNothing, ActorsApart, SMTT(30) DEF IInv, RetireFails, Retiring, TypeOK,
       OneSweep, Unlock, Forgets, RowState, SweepAt, ClientAt
<1>10. Purging'
    BY NullIsNothing, ActorsApart, SMTT(30) DEF IInv, RetireFails, Purging, TypeOK,
       OneSweep, Unlock, Forgets, ToPurge, RowState, SweepAt, ClientAt
<1>11. PromisedIsKept'
    BY NullIsNothing, ActorsApart, SMTT(30) DEF IInv, RetireFails, PromisedIsKept, TypeOK,
       Retiring, Unlock, Forgets, Promised, RowState, SweepAt, ClientAt
<1>. QED BY <1>1, <1>2, <1>3, <1>4, <1>5, <1>6, <1>7, <1>8, <1>9, <1>10, <1>11 DEF IInv

-----------------------------------------------------------------------------
(* It purges.                                                              *)

LEMMA KeepsTakePurge ==
    ASSUME IInv, NEW s \in Sweeper, NEW b \in Blob, TakePurge(s, b)
    PROVE  IInv'
<1>1. TypeOK'
    BY NullIsNothing, ActorsApart, Switches DEF IInv, TakePurge, TypeOK, RowState, SweepAt,
       ClientAt
<1>2. OneSweep'
    BY NullIsNothing, ActorsApart DEF IInv, TakePurge, OneSweep, TypeOK, RowState, SweepAt,
       ClientAt
<1>3. GoalFits'
    BY NullIsNothing, ActorsApart DEF IInv, TakePurge, GoalFits, TypeOK, RowState, SweepAt,
       ClientAt
<1>4. MovesAreSafe'
    BY NullIsNothing, ActorsApart DEF IInv, TakePurge, MovesAreSafe, TypeOK, RowState,
       SweepAt, ClientAt
<1>5. RowsHaveCopies'
    BY NullIsNothing, ActorsApart DEF IInv, TakePurge, RowsHaveCopies, TypeOK, RowState,
       SweepAt, ClientAt
<1>6. StoredIsLive'
    BY NullIsNothing, ActorsApart DEF IInv, TakePurge, StoredIsLive, TypeOK, RowState,
       SweepAt, ClientAt
<1>7. Listing'
    BY NullIsNothing, ActorsApart DEF IInv, TakePurge, Listing, TypeOK, RowState, SweepAt,
       ClientAt
<1>8. Repairing'
    BY NullIsNothing, ActorsApart DEF IInv, TakePurge, Repairing, TypeOK, RowState, SweepAt,
       ClientAt
<1>9. Retiring'
    BY NullIsNothing, ActorsApart DEF IInv, TakePurge, Retiring, TypeOK, RowState, SweepAt,
       ClientAt
<1>10. Purging'
    BY NullIsNothing, ActorsApart, SMTT(30) DEF IInv, TakePurge, Purging, TypeOK, ToPurge,
       RowState, SweepAt, ClientAt
<1>11. PromisedIsKept'
    BY NullIsNothing, ActorsApart DEF IInv, TakePurge, PromisedIsKept, TypeOK, Promised,
       RowState, SweepAt, ClientAt
<1>. QED BY <1>1, <1>2, <1>3, <1>4, <1>5, <1>6, <1>7, <1>8, <1>9, <1>10, <1>11 DEF IInv

LEMMA KeepsPurge ==
    ASSUME IInv, NEW s \in Sweeper, Purge(s)
    PROVE  IInv'
<1>1. TypeOK'
    BY NullIsNothing, ActorsApart, Switches DEF IInv, Purge, TypeOK, RowState, SweepAt,
       ClientAt
<1>2. OneSweep'
    BY NullIsNothing, ActorsApart DEF IInv, Purge, OneSweep, TypeOK, RowState, SweepAt,
       ClientAt
<1>3. GoalFits'
    BY NullIsNothing, ActorsApart DEF IInv, Purge, GoalFits, TypeOK, RowState, SweepAt,
       ClientAt
<1>4. MovesAreSafe'
    BY NullIsNothing, ActorsApart DEF IInv, Purge, MovesAreSafe, TypeOK, RowState, SweepAt,
       ClientAt
<1>5. RowsHaveCopies'
    BY NullIsNothing, ActorsApart, SMTT(30) DEF IInv, Purge, RowsHaveCopies, TypeOK,
       GoalFits, Purging, RowState, SweepAt, ClientAt, ToPurge
<1>6. StoredIsLive'
    BY NullIsNothing, ActorsApart DEF IInv, Purge, StoredIsLive, TypeOK, RowState, SweepAt,
       ClientAt
<1>7. Listing'
    BY NullIsNothing, ActorsApart, SMTT(30) DEF IInv, Purge, Listing, TypeOK, OneSweep,
       RowState, SweepAt, ClientAt
<1>8. Repairing'
    BY NullIsNothing, ActorsApart DEF IInv, Purge, Repairing, TypeOK, RowState, SweepAt,
       ClientAt
<1>9. Retiring'
    BY NullIsNothing, ActorsApart, SMTT(30) DEF IInv, Purge, Retiring, TypeOK, OneSweep,
       RowState, SweepAt, ClientAt
<1>10. Purging'
    BY NullIsNothing, ActorsApart, SMTT(30) DEF IInv, Purge, Purging, TypeOK, OneSweep,
       ToPurge, RowState, SweepAt, ClientAt
<1>11. PromisedIsKept'
    BY NullIsNothing, ActorsApart, SMTT(30) DEF IInv, Purge, PromisedIsKept, TypeOK,
       GoalFits, Purging, Promised, RowState, SweepAt, ClientAt, ToPurge
<1>. QED BY <1>1, <1>2, <1>3, <1>4, <1>5, <1>6, <1>7, <1>8, <1>9, <1>10, <1>11 DEF IInv

LEMMA KeepsProbe ==
    ASSUME IInv, NEW s \in Sweeper, Probe(s)
    PROVE  IInv'
<1>1. TypeOK'
    BY NullIsNothing, ActorsApart, Switches DEF IInv, Probe, TypeOK, RowState, SweepAt,
       ClientAt
<1>2. OneSweep'
    BY NullIsNothing, ActorsApart DEF IInv, Probe, OneSweep, TypeOK, RowState, SweepAt,
       ClientAt
<1>3. GoalFits'
    BY NullIsNothing, ActorsApart DEF IInv, Probe, GoalFits, TypeOK, RowState, SweepAt,
       ClientAt
<1>4. MovesAreSafe'
    BY NullIsNothing, ActorsApart DEF IInv, Probe, MovesAreSafe, TypeOK, RowState, SweepAt,
       ClientAt
<1>5. RowsHaveCopies'
    BY NullIsNothing, ActorsApart DEF IInv, Probe, RowsHaveCopies, TypeOK, RowState,
       SweepAt, ClientAt
<1>6. StoredIsLive'
    BY NullIsNothing, ActorsApart DEF IInv, Probe, StoredIsLive, TypeOK, RowState, SweepAt,
       ClientAt
<1>7. Listing'
    BY NullIsNothing, ActorsApart DEF IInv, Probe, Listing, TypeOK, RowState, SweepAt,
       ClientAt
<1>8. Repairing'
    BY NullIsNothing, ActorsApart DEF IInv, Probe, Repairing, TypeOK, RowState, SweepAt,
       ClientAt
<1>9. Retiring'
    BY NullIsNothing, ActorsApart DEF IInv, Probe, Retiring, TypeOK, RowState, SweepAt,
       ClientAt
<1>10. Purging'
    BY NullIsNothing, ActorsApart, SMTT(30) DEF IInv, Probe, Purging, TypeOK, ToPurge,
       RowState, SweepAt, ClientAt
<1>11. PromisedIsKept'
    BY NullIsNothing, ActorsApart DEF IInv, Probe, PromisedIsKept, TypeOK, Promised,
       RowState, SweepAt, ClientAt
<1>. QED BY <1>1, <1>2, <1>3, <1>4, <1>5, <1>6, <1>7, <1>8, <1>9, <1>10, <1>11 DEF IInv

LEMMA KeepsMarkRestored ==
    ASSUME IInv, NEW s \in Sweeper, MarkRestored(s)
    PROVE  IInv'
<1>1. TypeOK'
    BY NullIsNothing, ActorsApart, Switches DEF IInv, MarkRestored, TypeOK, GoalFits,
       RowState, SweepAt, ClientAt
<1>2. OneSweep'
    BY NullIsNothing, ActorsApart DEF IInv, MarkRestored, OneSweep, TypeOK, RowState,
       SweepAt, ClientAt
<1>3. GoalFits'
    BY NullIsNothing, ActorsApart DEF IInv, MarkRestored, GoalFits, TypeOK, RowState,
       SweepAt, ClientAt
<1>4. MovesAreSafe'
    BY NullIsNothing, ActorsApart DEF IInv, MarkRestored, MovesAreSafe, TypeOK, RowState,
       SweepAt, ClientAt
<1>5. RowsHaveCopies'
    BY NullIsNothing, ActorsApart, SMTT(30) DEF IInv, MarkRestored, RowsHaveCopies, TypeOK,
       GoalFits, Purging, RowState, SweepAt, ClientAt, ToPurge
<1>6. StoredIsLive'
    BY NullIsNothing, ActorsApart DEF IInv, MarkRestored, StoredIsLive, TypeOK, RowState,
       SweepAt, ClientAt
<1>7. Listing'
    BY NullIsNothing, ActorsApart DEF IInv, MarkRestored, Listing, TypeOK, RowState,
       SweepAt, ClientAt
<1>8. Repairing'
    BY NullIsNothing, ActorsApart, SMTT(30) DEF IInv, MarkRestored, Repairing, TypeOK,
       GoalFits, RowState, SweepAt, ClientAt
<1>9. Retiring'
    BY NullIsNothing, ActorsApart DEF IInv, MarkRestored, Retiring, TypeOK, RowState,
       SweepAt, ClientAt
<1>10. Purging'
    BY NullIsNothing, ActorsApart, SMTT(30) DEF IInv, MarkRestored, Purging, TypeOK,
       OneSweep, ToPurge, RowState, SweepAt, ClientAt
<1>11. PromisedIsKept'
    BY NullIsNothing, ActorsApart DEF IInv, MarkRestored, PromisedIsKept, TypeOK, Promised,
       RowState, SweepAt, ClientAt
<1>. QED BY <1>1, <1>2, <1>3, <1>4, <1>5, <1>6, <1>7, <1>8, <1>9, <1>10, <1>11 DEF IInv

LEMMA KeepsDeletePurged ==
    ASSUME IInv, NEW s \in Sweeper, DeletePurged(s)
    PROVE  IInv'
<1>1. TypeOK'
    BY NullIsNothing, ActorsApart, Switches DEF IInv, DeletePurged, TypeOK, GoalFits,
       RowState, SweepAt, ClientAt
<1>2. OneSweep'
    BY NullIsNothing, ActorsApart DEF IInv, DeletePurged, OneSweep, TypeOK, RowState,
       SweepAt, ClientAt
<1>3. GoalFits'
    BY NullIsNothing, ActorsApart DEF IInv, DeletePurged, GoalFits, TypeOK, RowState,
       SweepAt, ClientAt
<1>4. MovesAreSafe'
    BY NullIsNothing, ActorsApart DEF IInv, DeletePurged, MovesAreSafe, TypeOK, RowState,
       SweepAt, ClientAt
<1>5. RowsHaveCopies'
    BY NullIsNothing, ActorsApart DEF IInv, DeletePurged, RowsHaveCopies, TypeOK, RowState,
       SweepAt, ClientAt
<1>6. StoredIsLive'
    BY NullIsNothing, ActorsApart DEF IInv, DeletePurged, StoredIsLive, TypeOK, RowState,
       SweepAt, ClientAt
<1>7. Listing'
    BY NullIsNothing, ActorsApart DEF IInv, DeletePurged, Listing, TypeOK, RowState,
       SweepAt, ClientAt
<1>8. Repairing'
    BY NullIsNothing, ActorsApart, SMTT(30) DEF IInv, DeletePurged, Repairing, TypeOK,
       GoalFits, RowState, SweepAt, ClientAt
<1>9. Retiring'
    BY NullIsNothing, ActorsApart DEF IInv, DeletePurged, Retiring, TypeOK, RowState,
       SweepAt, ClientAt
<1>10. Purging'
    BY NullIsNothing, ActorsApart, SMTT(30) DEF IInv, DeletePurged, Purging, TypeOK,
       OneSweep, ToPurge, RowState, SweepAt, ClientAt
<1>11. PromisedIsKept'
    BY NullIsNothing, ActorsApart DEF IInv, DeletePurged, PromisedIsKept, TypeOK, Promised,
       RowState, SweepAt, ClientAt
<1>. QED BY <1>1, <1>2, <1>3, <1>4, <1>5, <1>6, <1>7, <1>8, <1>9, <1>10, <1>11 DEF IInv

LEMMA KeepsFinish ==
    ASSUME IInv, NEW s \in Sweeper, Finish(s)
    PROVE  IInv'
<1>1. TypeOK'
    BY NullIsNothing, ActorsApart, Switches DEF IInv, Finish, TypeOK, Unlock, Forgets,
       RowState, SweepAt, ClientAt
<1>2. OneSweep'
    BY NullIsNothing, ActorsApart DEF IInv, Finish, OneSweep, TypeOK, Unlock, Forgets,
       RowState, SweepAt, ClientAt
<1>3. GoalFits'
    BY NullIsNothing, ActorsApart DEF IInv, Finish, GoalFits, TypeOK, Unlock, Forgets,
       RowState, SweepAt, ClientAt
<1>4. MovesAreSafe'
    BY NullIsNothing, ActorsApart DEF IInv, Finish, MovesAreSafe, TypeOK, Unlock, Forgets,
       RowState, SweepAt, ClientAt
<1>5. RowsHaveCopies'
    BY NullIsNothing, ActorsApart DEF IInv, Finish, RowsHaveCopies, TypeOK, Unlock, Forgets,
       RowState, SweepAt, ClientAt
<1>6. StoredIsLive'
    BY NullIsNothing, ActorsApart DEF IInv, Finish, StoredIsLive, TypeOK, Unlock, Forgets,
       RowState, SweepAt, ClientAt
<1>7. Listing'
    BY NullIsNothing, ActorsApart DEF IInv, Finish, Listing, TypeOK, Unlock, Forgets,
       RowState, SweepAt, ClientAt
<1>8. Repairing'
    BY NullIsNothing, ActorsApart DEF IInv, Finish, Repairing, TypeOK, Unlock, Forgets,
       RowState, SweepAt, ClientAt
<1>9. Retiring'
    BY NullIsNothing, ActorsApart DEF IInv, Finish, Retiring, TypeOK, Unlock, Forgets,
       RowState, SweepAt, ClientAt
<1>10. Purging'
    BY NullIsNothing, ActorsApart, SMTT(30) DEF IInv, Finish, Purging, TypeOK, Unlock,
       Forgets, ToPurge, RowState, SweepAt, ClientAt
<1>11. PromisedIsKept'
    BY NullIsNothing, ActorsApart DEF IInv, Finish, PromisedIsKept, TypeOK, Unlock, Forgets,
       Promised, RowState, SweepAt, ClientAt
<1>. QED BY <1>1, <1>2, <1>3, <1>4, <1>5, <1>6, <1>7, <1>8, <1>9, <1>10, <1>11 DEF IInv

-----------------------------------------------------------------------------
(* Time.                                                                   *)

LEMMA KeepsAge ==
    ASSUME IInv, NEW b \in Blob, Age(b)
    PROVE  IInv'
<1>1. TypeOK'
    BY NullIsNothing, ActorsApart, Switches DEF IInv, Age, TypeOK, RowState, SweepAt,
       ClientAt
<1>2. OneSweep'
    BY NullIsNothing, ActorsApart DEF IInv, Age, OneSweep, TypeOK, RowState, SweepAt,
       ClientAt
<1>3. GoalFits'
    BY NullIsNothing, ActorsApart DEF IInv, Age, GoalFits, TypeOK, RowState, SweepAt,
       ClientAt
<1>4. MovesAreSafe'
    BY NullIsNothing, ActorsApart DEF IInv, Age, MovesAreSafe, TypeOK, RowState, SweepAt,
       ClientAt
<1>5. RowsHaveCopies'
    BY NullIsNothing, ActorsApart DEF IInv, Age, RowsHaveCopies, TypeOK, RowState, SweepAt,
       ClientAt
<1>6. StoredIsLive'
    BY NullIsNothing, ActorsApart DEF IInv, Age, StoredIsLive, TypeOK, RowState, SweepAt,
       ClientAt
<1>7. Listing'
    BY NullIsNothing, ActorsApart DEF IInv, Age, Listing, TypeOK, RowState, SweepAt,
       ClientAt
<1>8. Repairing'
    BY NullIsNothing, ActorsApart DEF IInv, Age, Repairing, TypeOK, RowState, SweepAt,
       ClientAt
<1>9. Retiring'
    BY NullIsNothing, ActorsApart DEF IInv, Age, Retiring, TypeOK, RowState, SweepAt,
       ClientAt
<1>10. Purging'
    BY NullIsNothing, ActorsApart, SMTT(30) DEF IInv, Age, Purging, TypeOK, ToPurge,
       RowState, SweepAt, ClientAt
<1>11. PromisedIsKept'
    BY NullIsNothing, ActorsApart DEF IInv, Age, PromisedIsKept, TypeOK, Promised, RowState,
       SweepAt, ClientAt
<1>. QED BY <1>1, <1>2, <1>3, <1>4, <1>5, <1>6, <1>7, <1>8, <1>9, <1>10, <1>11 DEF IInv

-----------------------------------------------------------------------------
(* The invariant, and what it is for.                                      *)

LEMMA InitIInv == ASSUME Init PROVE IInv
<1>1. TypeOK
    BY NullIsNothing, ActorsApart, Switches DEF Init, TypeOK, RowState, SweepAt, ClientAt
<1>2. OneSweep /\ GoalFits /\ MovesAreSafe /\ RowsHaveCopies /\ StoredIsLive
    BY DEF Init, OneSweep, GoalFits, MovesAreSafe, RowsHaveCopies, StoredIsLive
<1>3. Listing /\ Repairing /\ Retiring
    BY DEF Init, Listing, Repairing, Retiring
<1>4. Purging /\ PromisedIsKept
    BY DEF Init, Purging, ToPurge, PromisedIsKept, Promised
<1>. QED BY <1>1, <1>2, <1>3, <1>4 DEF IInv

LEMMA StutterIInv == ASSUME IInv, UNCHANGED vars PROVE IInv'
<1>1. (TypeOK /\ OneSweep /\ GoalFits /\ MovesAreSafe /\ RowsHaveCopies /\ StoredIsLive)'
    BY DEF vars, IInv, TypeOK, OneSweep, GoalFits, MovesAreSafe, RowsHaveCopies, StoredIsLive
<1>2. (Listing /\ Repairing /\ Retiring)'
    BY DEF vars, IInv, Listing, Repairing, Retiring
<1>3. (Purging /\ PromisedIsKept)'
    BY DEF vars, IInv, Purging, ToPurge, PromisedIsKept, Promised
<1>. QED BY <1>1, <1>2, <1>3 DEF IInv

LEMMA LookupKeepsIInv ==
    ASSUME IInv, NEW a \in Actor, LookupStep(a)
    PROVE  IInv'
BY KeepsLook, KeepsCopyBack, KeepsDropRetired, KeepsReread DEF LookupStep

LEMMA ClientKeepsIInv ==
    ASSUME IInv, NEW c \in Client, ClientStep(c)
    PROVE  IInv'
<1>1. CASE LookupStep(c)
    BY <1>1, LookupKeepsIInv
<1>2. CASE PutExists(c) \/ Upload(c) \/ Record(c) \/ \E h \in Holder : Insert(c, h)
    BY <1>2, KeepsPutExists, KeepsUpload, KeepsRecord, KeepsInsert
<1>. QED BY <1>1, <1>2 DEF ClientStep

LEMMA SweepKeepsIInv ==
    ASSUME IInv, NEW s \in Sweeper, SweepStep(s)
    PROVE  IInv'
<1>1. CASE LookupStep(s)
    BY <1>1, LookupKeepsIInv
<1>2. CASE ListLive(s) \/ Revive(s) \/ ListRetired(s) \/ Claim(s) \/ Report(s) \/ Dedup(s)
    BY <1>2, KeepsListLive, KeepsRevive, KeepsListRetired, KeepsClaim, KeepsReport, KeepsDedup
<1>3. CASE NextPass(s) \/ Judge(s) \/ Finish(s) \/ RetireCopy(s) \/ RetireDelete(s)
    BY <1>3, KeepsNextPass, KeepsJudge, KeepsFinish, KeepsRetireCopy, KeepsRetireDelete
<1>4. CASE Purge(s) \/ Probe(s) \/ MarkRestored(s) \/ DeletePurged(s)
    BY <1>4, KeepsPurge, KeepsProbe, KeepsMarkRestored, KeepsDeletePurged
<1>5. CASE \E h \in Holder : Ask(s, h)
    BY <1>5, KeepsAsk
<1>6. CASE \E b \in Blob : Repair(s, b) \/ MarkRetired(s, b) \/ TakePurge(s, b)
    BY <1>6, KeepsRepair, KeepsMarkRetired, KeepsTakePurge
<1>. QED BY <1>1, <1>2, <1>3, <1>4, <1>5, <1>6 DEF SweepStep

LEMMA NextIInv ==
    ASSUME ~LockLoss, IInv, Next
    PROVE  IInv'
<1>1. CASE \E c \in Client : ClientStep(c) \/ GiveUp(c)
    BY <1>1, ClientKeepsIInv, KeepsGiveUp
<1>2. CASE \E c \in Client, b \in Blob, call \in {"put", "read", "adopt"} : Begin(c, b, call)
    BY <1>2, KeepsBegin
<1>3. CASE \E s \in Sweeper : SweepStep(s) \/ Stop(s) \/ RetireFails(s)
    BY <1>3, SweepKeepsIInv, KeepsStop, KeepsRetireFails
<1>4. CASE \E s \in Sweeper, mode \in {"report", "repair"} : Start(s, mode)
    BY <1>4, KeepsStart
<1>5. CASE \E b \in Blob : Age(b) \/ \E h \in Holder : Unreference(b, h)
    BY <1>5, KeepsAge, KeepsUnreference
<1>. QED BY <1>1, <1>2, <1>3, <1>4, <1>5 DEF Next

LEMMA Inductive == ASSUME ~LockLoss PROVE Spec => []IInv
<1>1. Init => IInv
    BY InitIInv
<1>2. IInv /\ [Next]_vars => IInv'
    BY NextIInv, StutterIInv
<1>. QED BY <1>1, <1>2, PTL DEF Spec

\* The types hold (TypeOK), whatever the instance.
THEOREM TypesHold == ASSUME ~LockLoss PROVE Spec => []TypeOK
<1>1. IInv => TypeOK
    BY DEF IInv
<1>. QED BY <1>1, Inductive, PTL

\* No blob that is referenced, or about to be, loses both its copies, by no put,
\* read, half-finished move or sweep in any order (blob-gc's runSweep, the S3
\* store's retire, purge and restore), unless its retire crossed a restore.
THEOREM KeepsPromises == ASSUME ~LockLoss PROVE Spec => []PromisedIsKept
<1>1. IInv => PromisedIsKept
    BY DEF IInv
<1>. QED BY <1>1, Inductive, PTL

\* A read of a referenced blob finds it, wherever its copy was and whatever
\* moved it meanwhile, unless that was a retire that crossed a restore.
THEOREM ReadsFind == ASSUME ~LockLoss PROVE Spec => []ReadFinds
<1>1. ASSUME IInv PROVE ReadFinds
    <2>. SUFFICES ASSUME NEW a \in Actor, At(a, "reread"), held[Of(a)] # {}, Of(a) \notin crossed
                  PROVE  Of(a) \in live
        BY DEF ReadFinds
    <2>1. Of(a) \in Blob
        BY <1>1, NullIsNothing DEF IInv, GoalFits, TypeOK
    <2>2. Of(a) \in live \union retired
        BY <1>1, <2>1 DEF IInv, PromisedIsKept, Promised
    <2>. QED BY <1>1, <2>2 DEF IInv, MovesAreSafe
<1>. QED BY <1>1, Inductive, PTL

\* The last copy of a blob is deleted only from a row that is due, unless its
\* retire crossed a restore.
THEOREM LastCopiesAreDue == ASSUME ~LockLoss PROVE Spec => LastCopyIsDue
<1>. DEFINE Leaves == \A b \in Blob \ crossed :
                        b \in live \union retired /\ b \notin live' \union retired' => row[b] = "due"
<1>1. ASSUME IInv, Next PROVE Leaves
    <2>1. CASE \E c \in Client : GiveUp(c) \/ \E b \in Blob, call \in {"put", "read", "adopt"} : Begin(c, b, call)
        BY <2>1 DEF GiveUp, Begin
    <2>2. CASE \E a \in Actor : LookupStep(a)
        BY <1>1, <2>2 DEF LookupStep, Look, CopyBack, DropRetired, Reread, IInv, MovesAreSafe
    <2>3. CASE \E c \in Client : PutExists(c) \/ Upload(c) \/ Record(c) \/ \E h \in Holder : Insert(c, h)
        BY <2>3 DEF PutExists, Upload, Record, Insert
    <2>4. CASE \E s \in Sweeper : Dedup(s)
        BY <1>1, <2>4 DEF Dedup, IInv, Repairing
    <2>5. CASE \E s \in Sweeper : RetireCopy(s) \/ RetireDelete(s) \/ RetireFails(s)
        BY <1>1, <2>5 DEF RetireCopy, RetireDelete, RetireFails, IInv, Retiring
    <2>6. CASE \E s \in Sweeper : Purge(s)
        BY <1>1, <2>6 DEF Purge, IInv, Purging, ToPurge, GoalFits
    <2>7. CASE \E s \in Sweeper : ListLive(s) \/ Revive(s) \/ ListRetired(s) \/ Claim(s) \/ Report(s)
        BY <2>7 DEF ListLive, Revive, ListRetired, Claim, Report, Lists
    <2>8. CASE \E s \in Sweeper : NextPass(s) \/ Judge(s) \/ Finish(s) \/ Probe(s)
                                  \/ MarkRestored(s) \/ DeletePurged(s) \/ \E h \in Holder : Ask(s, h)
        BY <2>8 DEF NextPass, Judge, Finish, Probe, MarkRestored, DeletePurged, Ask
    <2>9. CASE \E s \in Sweeper, b \in Blob : Repair(s, b) \/ MarkRetired(s, b) \/ TakePurge(s, b)
        BY <2>9 DEF Repair, MarkRetired, TakePurge
    <2>10. CASE \E s \in Sweeper : Stop(s) \/ \E mode \in {"report", "repair"} : Start(s, mode)
        BY <2>10 DEF Stop, Start
    <2>11. CASE \E b \in Blob : Age(b) \/ \E h \in Holder : Unreference(b, h)
        BY <2>11 DEF Age, Unreference
    <2>. QED BY <1>1, <2>1, <2>2, <2>3, <2>4, <2>5, <2>6, <2>7, <2>8, <2>9, <2>10, <2>11
             DEF Next, ClientStep, SweepStep
<1>2. ASSUME UNCHANGED vars PROVE Leaves
    BY <1>2 DEF vars
<1>3. IInv /\ [Next]_vars => [Leaves]_vars
    BY <1>1, <1>2
<1>. QED BY <1>3, Inductive, PTL DEF Spec, LastCopyIsDue
=============================================================================
