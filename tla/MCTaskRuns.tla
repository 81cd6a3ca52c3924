----------------------------- MODULE MCTaskRuns -----------------------------
(* TaskRuns for TLC: hosts are interchangeable.                            *)
EXTENDS TaskRuns
=============================================================================
