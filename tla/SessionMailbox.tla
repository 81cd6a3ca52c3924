--------------------------- MODULE SessionMailbox ---------------------------
(***************************************************************************)
(* What a session's inbox promises, whatever hosts, polls and connections  *)
(* do: entries stand in one order, and the runner receives each of them    *)
(* once, in that order.                                                    *)
(***************************************************************************)
EXTENDS Naturals, Sequences

CONSTANT Letter

VARIABLES
  posted,     \* the entries, in the order of their cursors
  received    \* what the runner has been given

mailboxVars == <<posted, received>>

MailboxInit == posted = <<>> /\ received = <<>>

Post(x) ==
  /\ \A i \in DOMAIN posted : posted[i] # x
  /\ posted' = Append(posted, x)
  /\ UNCHANGED received

Receive ==
  /\ Len(received) < Len(posted)
  /\ received' = Append(received, posted[Len(received) + 1])
  /\ UNCHANGED posted

MailboxNext == (\E x \in Letter : Post(x)) \/ Receive

MailboxSpec == MailboxInit /\ [][MailboxNext]_mailboxVars
=============================================================================
