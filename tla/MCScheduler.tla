----------------------------- MODULE MCScheduler -----------------------------
(* The instance of Scheduler for TLC.                                      *)
EXTENDS Scheduler

CONSTANTS daily, mailbox
\* A daily run, which continues automatically, beside a mailbox run, which
\* cannot be stopped cooperatively and shares its caller's event.
MCRuns == {daily, mailbox}
MCDaily == {daily}
==============================================================================
