------------------------------- MODULE BlobGc -------------------------------
(***************************************************************************)
(* The garbage collection of blobs (packages/blob-gc) over the S3 store    *)
(* (packages/blob-store-s3), where a move is a copy and then a delete.     *)
(*                                                                         *)
(* A blob has up to two copies, live and retired.  Clients put, read, and  *)
(* reference blobs; a holder's rows are the references.  A sweep repairs   *)
(* what half-finished moves left, retires old blobs nobody references and  *)
(* purges those that have been retired for long enough.  One request to    *)
(* the store, one SQL statement or one holder's answer is one step.        *)
(*                                                                         *)
(* Instants are reduced to what the code compares them with: a live row is *)
(* "new" or "old" (put before the grace cutoff), a retired one "set" or    *)
(* "due" (retired before the retention cutoff).                            *)
(***************************************************************************)
EXTENDS Naturals, FiniteSets

CONSTANTS
    Blob,           \* contents, by their digest
    Holder,         \* the plugins whose rows reference blobs: the roster
    Sweeper,        \* the hosts' sweep timers
    Client,         \* calls that put, read or reference a blob
    Null,           \* no blob, no sweeper
    LockLoss,       \* may the connection that holds the sweep lock drop?
    MaxFaults       \* failures of sweeps and of their lock

ASSUME NullIsNothing == Null \notin Blob \union Sweeper
ASSUME ActorsApart == Sweeper \intersect Client = {}
ASSUME Switches == LockLoss \in BOOLEAN /\ MaxFaults \in Nat

VARIABLES
    live, retired,  \* the copies in the two namespaces of the bucket
    row,            \* the collector's table
    held,           \* which holders reference a blob
    job,            \* what a sweeper or a client is doing, with which blob
    todo,           \* a sweeper's page or batch
    asked, seen,    \* the holders that have answered, what they reference
    locked,         \* who has the advisory lock
    crossed,        \* history: blobs whose retire was begun while a read was moving them back
    faults

vars == <<live, retired, row, held, job, todo, asked, seen, locked, crossed, faults>>
sweepVars == <<todo, asked, seen>>

Actor == Sweeper \union Client
RowState == {"none", "new", "old", "set", "due"}
Lookup == {"head", "copy", "drop", "reread"}
SweepAt == Lookup \union {"live", "revive", "gone", "claim", "dedup", "next", "ask",
                          "retire", "unlink", "purge", "probe", "restored", "forget"}
ClientAt == Lookup \union {"exists", "upload", "record", "insert"}

Idle == [at |-> "idle", blob |-> Null, goal |-> "none"]

TypeOK ==
    /\ live \subseteq Blob /\ retired \subseteq Blob
    /\ row \in [Blob -> RowState]
    /\ held \in [Blob -> SUBSET Holder]
    /\ \A s \in Sweeper : job[s] \in {Idle} \union
           [at : SweepAt, blob : Blob \union {Null}, goal : {"report", "repair", "retire", "purge"}]
    /\ \A c \in Client : job[c] \in {Idle} \union
           [at : ClientAt, blob : Blob, goal : {"read", "adopt"}]
    /\ job \in [Actor -> [at : {"idle"} \union SweepAt \union ClientAt, blob : Blob \union {Null},
                         goal : {"none", "report", "repair", "retire", "purge", "read", "adopt"}]]
    /\ todo \in [Sweeper -> SUBSET Blob]
    /\ asked \in [Sweeper -> SUBSET Holder]
    /\ seen \in [Sweeper -> SUBSET Blob]
    /\ locked \in Sweeper \union {Null}
    /\ crossed \subseteq Blob
    /\ faults \in 0..MaxFaults

Init ==
    /\ live = {} /\ retired = {}
    /\ row = [b \in Blob |-> "none"]
    /\ held = [b \in Blob |-> {}]
    /\ job = [a \in Actor |-> Idle]
    /\ todo = [s \in Sweeper |-> {}]
    /\ asked = [s \in Sweeper |-> {}]
    /\ seen = [s \in Sweeper |-> {}]
    /\ locked = Null
    /\ crossed = {}
    /\ faults = 0

At(a, pc) == job[a].at = pc
TakesUp(a, b, pc) == job' = [job EXCEPT ![a] = [at |-> pc, blob |-> b, goal |-> job[a].goal]]
Goes(a, pc) == TakesUp(a, job[a].blob, pc)
Rests(a) == job' = [job EXCEPT ![a] = Idle]
Next1(s) == TakesUp(s, Null, "next")

-----------------------------------------------------------------------------
(* get and stat, by whoever calls them: a miss in the live namespace moves  *)
(* a retired copy back and looks once more.                                 *)

\* What a lookup was for goes on with what it found.
Resume(a, found) ==
    CASE job[a].goal = "read"   -> Rests(a)
      [] job[a].goal = "adopt"  -> IF found THEN Goes(a, "insert") ELSE Rests(a)
      [] job[a].goal = "repair" -> IF found THEN Goes(a, "dedup") ELSE Next1(a)
      [] job[a].goal = "purge"  -> Goes(a, "restored")

Look(a) ==
    /\ At(a, "head")
    /\ IF job[a].blob \in live THEN Resume(a, TRUE) ELSE Goes(a, "copy")
    /\ UNCHANGED <<live, retired, row, held, sweepVars, locked, faults, crossed>>

CopyBack(a) ==
    /\ At(a, "copy")
    /\ IF job[a].blob \in retired
         THEN live' = live \union {job[a].blob} /\ Goes(a, "drop")
         ELSE Goes(a, "reread") /\ UNCHANGED live
    /\ UNCHANGED <<retired, row, held, sweepVars, locked, faults, crossed>>

DropRetired(a) ==
    /\ At(a, "drop")
    /\ retired' = retired \ {job[a].blob}
    /\ Goes(a, "reread")
    /\ UNCHANGED <<live, row, held, sweepVars, locked, faults, crossed>>

Reread(a) ==
    /\ At(a, "reread")
    /\ Resume(a, job[a].blob \in live)
    /\ UNCHANGED <<live, retired, row, held, sweepVars, locked, faults, crossed>>

-----------------------------------------------------------------------------
(* Clients.                                                                 *)

\* A put, a read, or a reference to a blob that must exist (artifacts:publish).
Begin(c, b, call) ==
    /\ job[c] = Idle
    /\ job' = [job EXCEPT ![c] = [at |-> IF call = "put" THEN "exists" ELSE "head", blob |-> b,
                                  goal |-> IF call = "read" THEN "read" ELSE "adopt"]]
    /\ UNCHANGED <<live, retired, row, held, sweepVars, locked, faults, crossed>>

\* blob:put: no upload when the live key exists.
PutExists(c) ==
    /\ At(c, "exists")
    /\ Goes(c, IF job[c].blob \in live THEN "record" ELSE "upload")
    /\ UNCHANGED <<live, retired, row, held, sweepVars, locked, faults, crossed>>

Upload(c) ==
    /\ At(c, "upload")
    /\ live' = live \union {job[c].blob}
    /\ Goes(c, "record")
    /\ UNCHANGED <<retired, row, held, sweepVars, locked, faults, crossed>>

\* blob:stored: the put is recorded, or the record is lost (logged only).
Record(c) ==
    /\ At(c, "record")
    /\ row' \in {row, [row EXCEPT ![job[c].blob] = "new"]}
    /\ Goes(c, "insert")
    /\ UNCHANGED <<live, retired, held, sweepVars, locked, faults, crossed>>

\* The holder writes the row that references the blob.
Insert(c, h) ==
    /\ At(c, "insert")
    /\ held' = [held EXCEPT ![job[c].blob] = held[job[c].blob] \union {h}]
    /\ Rests(c)
    /\ UNCHANGED <<live, retired, row, sweepVars, locked, faults, crossed>>

GiveUp(c) ==
    /\ job[c] # Idle
    /\ Rests(c)
    /\ UNCHANGED <<live, retired, row, held, sweepVars, locked, faults, crossed>>

\* The row that references the blob is deleted.
Unreference(b, h) ==
    /\ h \in held[b]
    /\ held' = [held EXCEPT ![b] = held[b] \ {h}]
    /\ UNCHANGED <<live, retired, row, job, sweepVars, locked, faults, crossed>>

-----------------------------------------------------------------------------
(* A sweep: discover and repair, retire, purge.                             *)

\* A read that missed the live copy of b is not over.
MovingBack(b) == \E c \in Client : job[c].blob = b /\ job[c].at \in {"copy", "drop", "reread"}

\* One sweep at a time, as long as the connection that holds the lock lives.  (What
\* was crossed is forgotten here, if the read is over and the blob was not lost.)
Start(s, mode) ==
    /\ job[s] = Idle
    /\ IF locked = Null
         THEN UNCHANGED faults
         ELSE LockLoss /\ faults < MaxFaults /\ faults' = faults + 1
    /\ locked' = s
    /\ job' = [job EXCEPT ![s] = [at |-> "live", blob |-> Null, goal |-> mode]]
    /\ crossed' = {b \in crossed : MovingBack(b) \/ b \notin live \union retired}
    /\ UNCHANGED <<live, retired, row, held, sweepVars>>

Unlock(s) == locked' = IF locked = s THEN Null ELSE locked
Forgets(s) ==
    /\ todo' = [todo EXCEPT ![s] = {}]
    /\ asked' = [asked EXCEPT ![s] = {}]
    /\ seen' = [seen EXCEPT ![s] = {}]

\* The host dies, a call throws, or a holder did not answer or could not tell.
Stop(s) ==
    /\ job[s] # Idle /\ faults < MaxFaults
    /\ Rests(s) /\ Unlock(s) /\ Forgets(s)
    /\ faults' = faults + 1
    /\ UNCHANGED <<live, retired, row, held, crossed>>

Lists(s, copies, pc) ==
    /\ todo' = [todo EXCEPT ![s] = copies]
    /\ Goes(s, pc)
    /\ UNCHANGED <<live, retired, row, held, asked, seen, locked, faults, crossed>>

ListLive(s) == At(s, "live") /\ Lists(s, live, "revive")
ListRetired(s) == At(s, "gone") /\ Lists(s, retired, "claim")

\* Listed live: never seen rows are inserted; enforcing, retired ones revived.
Revive(s) ==
    /\ At(s, "revive")
    /\ LET from == IF job[s].goal = "report" THEN {"none"} ELSE {"none", "set", "due"}
       IN  row' = [b \in Blob |-> IF b \in todo[s] /\ row[b] \in from THEN "new" ELSE row[b]]
    /\ todo' = [todo EXCEPT ![s] = {}]
    /\ Goes(s, "gone")
    /\ UNCHANGED <<live, retired, held, asked, seen, locked, faults, crossed>>

\* Mutant: the claimed rows are aged, and none of them is repaired.
ClaimNoRepair(s) ==
    /\ At(s, "claim")
    /\ job[s].goal = "repair"
    /\ row' = [b \in Blob |-> IF b \in todo[s] /\ row[b] \in {"none", "old"} THEN "new" ELSE row[b]]
    /\ todo' = [todo EXCEPT ![s] = {}]
    /\ Goes(s, "next")
    /\ UNCHANGED <<live, retired, held, asked, seen, locked, faults, crossed>>

\* Listed retired: never seen rows are inserted; enforcing, live rows are claimed.
Claim(s) ==
    /\ At(s, "claim")
    /\ job[s].goal = "repair"
    /\ row' = [b \in Blob |-> IF b \notin todo[s] THEN row[b]
                              ELSE IF row[b] = "none" THEN "set"
                              ELSE IF row[b] = "old" THEN "new" ELSE row[b]]
    /\ todo' = [todo EXCEPT ![s] = {b \in todo[s] : row[b] \in {"new", "old"}}]
    /\ Goes(s, "next")
    /\ UNCHANGED <<live, retired, held, asked, seen, locked, faults, crossed>>

\* A report ends here: what it asks the holders moves nothing.
Report(s) ==
    /\ At(s, "claim")
    /\ job[s].goal = "report"
    /\ row' = [b \in Blob |-> IF b \in todo[s] /\ row[b] = "none" THEN "set" ELSE row[b]]
    /\ Rests(s) /\ Unlock(s) /\ Forgets(s)
    /\ UNCHANGED <<live, retired, held, faults, crossed>>

\* A claimed blob: make sure that a live copy exists, then purge the retired one.
Repair(s, b) ==
    /\ At(s, "next") /\ job[s].goal = "repair" /\ b \in todo[s]
    /\ todo' = [todo EXCEPT ![s] = todo[s] \ {b}]
    /\ TakesUp(s, b, "head")
    /\ UNCHANGED <<live, retired, row, held, asked, seen, locked, faults, crossed>>

Dedup(s) ==
    /\ At(s, "dedup")
    /\ retired' = retired \ {job[s].blob}
    /\ Next1(s)
    /\ UNCHANGED <<live, row, held, sweepVars, locked, faults, crossed>>

\* Mutant: the purge pass does not wait for the retention.
CandidatesAny(goal) == {b \in Blob : IF goal = "retire" THEN row[b] = "old" ELSE row[b] \in {"set", "due"}}

\* The rows a pass is about.
Candidates(goal) == {b \in Blob : row[b] = IF goal = "retire" THEN "old" ELSE "due"}

\* The repairs, or the retire pass, are done: the next batch is chosen, and asked
\* about; nobody is asked about nothing to purge.
NextPass(s) ==
    /\ At(s, "next") /\ todo[s] = {} /\ job[s].goal \in {"repair", "retire"}
    /\ LET goal == IF job[s].goal = "repair" THEN "retire" ELSE "purge"
           first == IF goal = "purge" /\ Candidates(goal) = {} THEN "next" ELSE "ask"
       IN  /\ job' = [job EXCEPT ![s] = [at |-> first, blob |-> Null, goal |-> goal]]
           /\ todo' = [todo EXCEPT ![s] = Candidates(goal)]
    /\ asked' = [asked EXCEPT ![s] = {}]
    /\ seen' = [seen EXCEPT ![s] = {}]
    /\ UNCHANGED <<live, retired, row, held, locked, faults, crossed>>

\* One holder reads its rows and answers.
Ask(s, h) ==
    /\ At(s, "ask") /\ h \notin asked[s]
    /\ asked' = [asked EXCEPT ![s] = asked[s] \union {h}]
    /\ seen' = [seen EXCEPT ![s] = seen[s] \union {b \in todo[s] : h \in held[b]}]
    /\ UNCHANGED <<live, retired, row, held, job, todo, locked, faults, crossed>>

\* Mutant: one holder's answer is enough.
JudgeEarly(s) ==
    /\ At(s, "ask") /\ asked[s] # {}
    /\ todo' = [todo EXCEPT ![s] = IF job[s].goal = "retire" THEN todo[s] \ seen[s] ELSE todo[s]]
    /\ seen' = [seen EXCEPT ![s] = IF job[s].goal = "retire" THEN {} ELSE seen[s]]
    /\ Goes(s, "next")
    /\ UNCHANGED <<live, retired, row, held, asked, locked, faults, crossed>>

\* Every holder of the roster has answered; what is held is not retired.
Judge(s) ==
    /\ At(s, "ask") /\ asked[s] = Holder
    /\ todo' = [todo EXCEPT ![s] = IF job[s].goal = "retire" THEN todo[s] \ seen[s] ELSE todo[s]]
    /\ seen' = [seen EXCEPT ![s] = IF job[s].goal = "retire" THEN {} ELSE seen[s]]
    /\ Goes(s, "next")
    /\ UNCHANGED <<live, retired, row, held, asked, locked, faults, crossed>>

\* markRetired: only a row still live and still old, whatever a read is doing.
MarkRetired(s, b) ==
    /\ At(s, "next") /\ job[s].goal = "retire" /\ b \in todo[s]
    /\ todo' = [todo EXCEPT ![s] = todo[s] \ {b}]
    /\ IF row[b] = "old"
         THEN /\ row' = [row EXCEPT ![b] = "set"] /\ TakesUp(s, b, "retire")
              /\ crossed' = IF MovingBack(b) THEN crossed \union {b} ELSE crossed
         ELSE UNCHANGED <<row, job, crossed>>
    /\ UNCHANGED <<live, retired, held, asked, seen, locked, faults>>

\* blob:retire: copy live to retired; nothing to do when there is no live copy.
RetireCopy(s) ==
    /\ At(s, "retire")
    /\ IF job[s].blob \in live
         THEN retired' = retired \union {job[s].blob} /\ Goes(s, "unlink")
         ELSE Next1(s) /\ UNCHANGED retired
    /\ UNCHANGED <<live, row, held, sweepVars, locked, faults, crossed>>

RetireDelete(s) ==
    /\ At(s, "unlink")
    /\ live' = live \ {job[s].blob}
    /\ Next1(s)
    /\ UNCHANGED <<retired, row, held, sweepVars, locked, faults, crossed>>

\* blob:retire throws, its last request done or not; the row goes back to what
\* it was, unless somebody else has changed it; the sweep fails.
RetireFails(s) ==
    /\ job[s].at \in {"retire", "unlink"} /\ faults < MaxFaults
    /\ live' \in {live, IF At(s, "unlink") THEN live \ {job[s].blob} ELSE live}
    /\ row' = [row EXCEPT ![job[s].blob] = IF row[job[s].blob] = "set" THEN "old" ELSE @]
    /\ Rests(s) /\ Unlock(s) /\ Forgets(s)
    /\ faults' = faults + 1
    /\ UNCHANGED <<retired, held, crossed>>

\* Mutant: the purge pass does not look at what the holders answered.
TakePurgeBlind(s, b) ==
    /\ At(s, "next") /\ job[s].goal = "purge" /\ b \in todo[s]
    /\ todo' = [todo EXCEPT ![s] = todo[s] \ {b}]
    /\ TakesUp(s, b, "purge")
    /\ UNCHANGED <<live, retired, row, held, asked, seen, locked, faults, crossed>>

\* A retired blob past its retention: held again, it is restored; else purged.
TakePurge(s, b) ==
    /\ At(s, "next") /\ job[s].goal = "purge" /\ b \in todo[s]
    /\ todo' = [todo EXCEPT ![s] = todo[s] \ {b}]
    /\ TakesUp(s, b, IF b \in seen[s] THEN "head" ELSE "purge")
    /\ UNCHANGED <<live, retired, row, held, asked, seen, locked, faults, crossed>>

Purge(s) ==
    /\ At(s, "purge")
    /\ retired' = retired \ {job[s].blob}
    /\ Goes(s, "probe")
    /\ UNCHANGED <<live, row, held, sweepVars, locked, faults, crossed>>

\* A stat that restores nothing: is anything left?
Probe(s) ==
    /\ At(s, "probe")
    /\ Goes(s, IF job[s].blob \in live \union retired THEN "restored" ELSE "forget")
    /\ UNCHANGED <<live, retired, row, held, sweepVars, locked, faults, crossed>>

MarkRestored(s) ==
    /\ At(s, "restored")
    /\ row' = [row EXCEPT ![job[s].blob] = IF row[job[s].blob] \in {"set", "due"} THEN "new" ELSE @]
    /\ Next1(s)
    /\ UNCHANGED <<live, retired, held, sweepVars, locked, faults, crossed>>

\* Mutant: the delete looks for a row retired a moment ago, not for one that is due.
DeletePurgedKept(s) ==
    /\ At(s, "forget")
    /\ row' = [row EXCEPT ![job[s].blob] = IF row[job[s].blob] = "set" THEN "none" ELSE @]
    /\ Next1(s)
    /\ UNCHANGED <<live, retired, held, sweepVars, locked, faults, crossed>>

DeletePurged(s) ==
    /\ At(s, "forget")
    /\ row' = [row EXCEPT ![job[s].blob] = IF row[job[s].blob] = "due" THEN "none" ELSE @]
    /\ Next1(s)
    /\ UNCHANGED <<live, retired, held, sweepVars, locked, faults, crossed>>

Finish(s) ==
    /\ At(s, "next") /\ todo[s] = {} /\ job[s].goal = "purge"
    /\ Rests(s) /\ Unlock(s) /\ Forgets(s)
    /\ UNCHANGED <<live, retired, row, held, faults, crossed>>

-----------------------------------------------------------------------------
\* A day or more passes.  A sweep's cutoffs are those of its start, so a row that
\* ages during a sweep ages for the next one.  Nobody takes so long from a put, or
\* a publish's stat, to the row that references the blob; a read may.
Age(b) ==
    /\ \A c \in Client : job[c].blob = b => job[c].at \in Lookup
    /\ \A s \in Sweeper : job[s] = Idle
    /\ row[b] \in {"new", "set"}
    /\ row' = [row EXCEPT ![b] = IF @ = "new" THEN "old" ELSE "due"]
    /\ UNCHANGED <<live, retired, held, job, sweepVars, locked, faults, crossed>>

LookupStep(a) == Look(a) \/ CopyBack(a) \/ DropRetired(a) \/ Reread(a)

ClientStep(c) ==
    \/ LookupStep(c) \/ PutExists(c) \/ Upload(c) \/ Record(c)
    \/ \E h \in Holder : Insert(c, h)

SweepStep(s) ==
    \/ LookupStep(s)
    \/ ListLive(s) \/ Revive(s) \/ ListRetired(s) \/ Claim(s) \/ Report(s)
    \/ Dedup(s) \/ NextPass(s) \/ Judge(s) \/ Finish(s)
    \/ RetireCopy(s) \/ RetireDelete(s)
    \/ Purge(s) \/ Probe(s) \/ MarkRestored(s) \/ DeletePurged(s)
    \/ \E h \in Holder : Ask(s, h)
    \/ \E b \in Blob : Repair(s, b) \/ MarkRetired(s, b) \/ TakePurge(s, b)

Next ==
    \/ \E c \in Client :
         \/ ClientStep(c) \/ GiveUp(c)
         \/ \E b \in Blob, call \in {"put", "read", "adopt"} : Begin(c, b, call)
    \/ \E s \in Sweeper :
         \/ SweepStep(s) \/ Stop(s) \/ RetireFails(s)
         \/ \E mode \in {"report", "repair"} : Start(s, mode)
    \/ \E b \in Blob : Age(b) \/ \E h \in Holder : Unreference(b, h)

Spec == Init /\ [][Next]_vars

Fairness ==
    /\ \A c \in Client : WF_vars(ClientStep(c))
    /\ \A s \in Sweeper : WF_vars(SweepStep(s)) /\ SF_vars(Start(s, "repair"))
    /\ \A b \in Blob : SF_vars(Age(b))
FairSpec == Spec /\ Fairness

-----------------------------------------------------------------------------
\* A blob that is referenced, or whose put or stat has told a caller that it is
\* stored, so that a reference to it is about to be written.
Promised(b) ==
    \/ held[b] # {}
    \/ \E c \in Client : job[c].blob = b /\ job[c].at \in {"record", "insert"}

\* No blob that somebody references, or was told is stored, loses both its
\* copies, however puts, reads, half-finished moves and sweeps interleave, except
\* in a sweep that began to retire it while a read was moving it back, and as long
\* as that read takes.
PromisedIsKept == \A b \in Blob \ crossed : Promised(b) => b \in live \union retired

\* A read, a publish's stat, or the purge pass's restore never comes back empty
\* for a blob that is referenced, with the same exception.
ReadFinds ==
    \A a \in Actor :
        At(a, "reread") /\ held[job[a].blob] # {} => job[a].blob \in live \union crossed

\* The last copy of a blob goes only from a row that was retired a retention
\* ago: until then a mistake of the holders can be undone by any read.  The same
\* exception.
LastCopyIsDue ==
    [][\A b \in Blob \ crossed :
         b \in live \union retired /\ b \notin live' \union retired' => row[b] = "due"]_vars

\* blob-store-s3/SECURITY.md:49-54 says that such a loss "needs two GC sweeps
\* working the same sha at the same moment": with one it never happens.
LossNeedsTwoSweeps == \A b \in Blob : Promised(b) => b \in live \union retired

\* What a move that died half-way left is cleared: two copies become one.
DuplicateGoes == \A b \in Blob : b \in live \intersect retired ~> b \notin live \intersect retired

\* A blob that nobody references or looks at any more is freed, row and all.
GarbageGoes ==
    \A b \in Blob :
        <>[](held[b] = {} /\ \A c \in Client : job[c].blob # b) =>
            <>[](b \notin live \union retired /\ row[b] = "none")
=============================================================================
