--------------------------- MODULE TaskCompletion ---------------------------
(* settle_task_completion: how the end of a runner becomes a task status,    *)
(* the same table for the runner's own report and for the completion         *)
(* notification the controller session receives.                             *)
EXTENDS TaskModel

\* What an end says of a runner, once completion_reason and
\* completion_reply_summary have read it:
\*   "reply"      exit 0 and a recognisable reply
\*   "silent"     exit 0 and no reply
\*   "error"      a non-zero exit for any reason but a cancellation
\*   "cancelled"  a non-zero exit with reason "cancelled"
\*   "unknown"    a notification without an exit code
Ends == {"reply", "silent", "error", "cancelled", "unknown"}

LegacyRecoverableFailure(row) == row.status = "failed" /\ Resumable(row)

\* Faulty: a turn that ended without a final reply is never settled.
SettlesNoAbort(row, end) ==
    /\ row.status \notin {"absent", "settling"}
    /\ Terminal(row) => LegacyRecoverableFailure(row)
    /\ ~(row.status = "stopping" /\ end = "unknown")

\* The early returns: nothing to settle, already settled, or a cancellation
\* nobody has confirmed yet.
Settles(row, end) ==
    /\ row.status # "absent"
    /\ Terminal(row) => LegacyRecoverableFailure(row)
    /\ ~(row.status = "stopping" /\ end = "unknown")

\* Faulty: the exit code decides before the final hook does.
SettledByExitCode(row, end) ==
    CASE row.status = "stopping" /\ end = "cancelled" -> "cancelled"
      [] end = "unknown" -> "unconfirmed"
      [] end = "reply" -> "completed"
      [] end = "silent" -> "unconfirmed"
      [] OTHER -> IF WorkerStarted(row) \/ row.status \in {"settling", "continuing"}
                    THEN "interrupted" ELSE "failed"

SettledStatus(row, end) ==
    CASE row.status = "stopping" /\ end = "cancelled" -> "cancelled"
      [] end = "unknown" -> "unconfirmed"
      [] end = "reply" \/ (row.status = "returning" /\ end # "unknown") -> "completed"
      [] end = "silent" /\ row.status # "returning" -> "unconfirmed"
      [] OTHER -> IF WorkerStarted(row) \/ row.status \in {"settling", "continuing"}
                    THEN "interrupted" ELSE "failed"

\* Faulty: the completion loses its evidence.
OutcomeWithoutEvidence(status) == Ask(status, "plain")

\* Only a completion carries final evidence ("hook:post_llm_call + ...",
\* "... exit 0 with reply"); every other outcome replaces the evidence.
Outcome(status) == Ask(status, IF status = "completed" THEN "final" ELSE "plain")
=============================================================================
