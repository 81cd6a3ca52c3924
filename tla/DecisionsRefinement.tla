------------------------- MODULE DecisionsRefinement -------------------------
(***************************************************************************)
(* The queue implements the authority it promises: a row is granted while  *)
(* it authorises and nothing went out, and out once the call was sent or   *)
(* the row says that nobody can tell.  An open row is open, whatever was   *)
(* sent under it: reopening one that went out would be a step the          *)
(* authority does not have.                                                *)
(***************************************************************************)
EXTENDS Decisions

StandingOf(d) ==
  CASE rows[d].status = "absent" -> "unasked"
    [] isOpen(rows[d]) -> "open"
    [] rows[d].status \notin {"absent"} \union OPEN_STATUSES
         /\ (sent[d] > 0 \/ rows[d].abandoned) -> "out"
    [] Authorising(rows[d]) /\ sent[d] <= 0 /\ ~rows[d].abandoned -> "granted"
    [] rows[d].status = "dismissed" /\ sent[d] <= 0 /\ ~rows[d].abandoned -> "declined"
    [] OTHER -> "closed"

Authority == INSTANCE CallAuthority WITH
  Question <- Id, Call <- Key, NoCall <- Null,
  about <- [d \in Id |-> rows[d].key],
  standing <- [d \in Id |-> StandingOf(d)]

\* Every behaviour of the queue is one of the abstract authority: the rows,
\* replays, deliveries, sweeps and crashes never grant a call twice at a
\* time, never send what was not granted, and never reopen what went out.
ImplementsAuthority == Authority!AuthoritySpec
=============================================================================
