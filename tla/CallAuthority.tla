---------------------------- MODULE CallAuthority ----------------------------
(***************************************************************************)
(* What the approval queue promises, without its table, its clock or its   *)
(* processes: a question about a call may be granted; while it is granted  *)
(* no other question about that call is; a grant may be withdrawn until    *)
(* the call may have gone out under it; and then it never opens again.     *)
(***************************************************************************)
CONSTANTS
  Question,  \* questions a person may be asked
  Call,      \* the calls they are about
  NoCall     \* a question not asked yet is about no call

VARIABLES
  about,     \* the call each question is about
  standing   \* where each question stands

authorityVars == <<about, standing>>

Standings == {"unasked", "open", "granted", "out", "declined", "closed"}

AuthorityTypeOK ==
  /\ about \in [Question -> Call \union {NoCall}]
  /\ standing \in [Question -> Standings]

AuthorityInit ==
  /\ about = [q \in Question |-> NoCall]
  /\ standing = [q \in Question |-> "unasked"]

\* Every question of S, all standing at one of from, now stands at to.
Move(S, from, to) ==
  /\ \A q \in S : standing[q] \in from
  /\ standing' = [q \in Question |-> IF q \in S THEN to ELSE standing[q]]
  /\ UNCHANGED about

Ask(q, c) ==
  /\ standing[q] = "unasked"
  /\ about' = [about EXCEPT ![q] = c]
  /\ standing' = [standing EXCEPT ![q] = "open"]

Grant(q) ==
  /\ \A p \in Question : p # q /\ about[p] = about[q] => standing[p] # "granted"
  /\ Move({q}, {"open"}, "granted")

\* An undo: of a yes whose call has not gone out, or of a no.
Withdraw(q) == Move({q}, {"granted", "declined"}, "open")

Decline(q) == Move({q}, {"open"}, "declined")

\* The call goes out, or may have.
GoOut(S) == Move(S, {"granted"}, "out")

\* The call is known to have done nothing.
ReportFailure(q) == Move({q}, {"out"}, "closed")

Lapse(S) == Move(S, {"open"}, "closed")

AuthorityNext ==
  \/ \E q \in Question, c \in Call : Ask(q, c)
  \/ \E q \in Question : Grant(q)
  \/ \E q \in Question : Withdraw(q)
  \/ \E q \in Question : Decline(q)
  \/ \E S \in SUBSET Question : GoOut(S)
  \/ \E q \in Question : ReportFailure(q)
  \/ \E S \in SUBSET Question : Lapse(S)

AuthoritySpec == AuthorityInit /\ [][AuthorityNext]_authorityVars
=============================================================================
