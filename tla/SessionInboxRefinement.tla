----------------------- MODULE SessionInboxRefinement -----------------------
(***************************************************************************)
(* The inbox implements the mailbox: the table read by cursor is the       *)
(* mailbox's sequence, and the runner's own record what was received.      *)
(***************************************************************************)
EXTENDS SessionInbox

Mailbox == INSTANCE SessionMailbox WITH
  Letter <- Entry,
  posted <- [i \in 1..Cardinality(DOMAIN inbox) |-> inbox[i - 1]],
  received <- runner.received

\* Concurrent queues, answers of polls that were given up, retried polls on
\* another host, crashes: the runner still receives every entry once and in
\* the order of the cursors, and no cursor is ever given twice.
ImplementsMailbox == Mailbox!MailboxSpec
=============================================================================
