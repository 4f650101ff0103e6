-------------------------- MODULE MCPublishScheduler --------------------------
(* Small instances of PublishScheduler for TLC. *)
EXTENDS PublishScheduler

\* One request in time, one already too late when the poller first sees it.
MCDueChoices == {-2, 1}

===============================================================================
