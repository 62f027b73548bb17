----------------------------- MODULE MCTaskWait -----------------------------
(* The command and one `pc task wait` on its task, with and without a      *)
(* timeout; the task may end well, with warnings, or in an error.          *)
EXTENDS TaskWait

CONSTANTS issuer, follower

OneFollower == {follower}
MCExitStatuses == {"OK", "WARNINGS: 1", "command failed"}
=============================================================================
