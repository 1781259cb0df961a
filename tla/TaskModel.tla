----------------------------- MODULE TaskModel -----------------------------
(* The task record of task_model.py, reduced to what the rest of the bridge  *)
(* decides on.  A runner is one background process of one task; it starts at *)
(* most one Bot turn, so its name also stands for that turn.  Progress text, *)
(* exit codes, errors, revisions and timestamps are left out; evidence is    *)
(* kept as the class of it that some test in the code can tell apart.        *)

CONSTANTS Runners,   \* background runners the bridge may ever start
          NoRunner   \* a NULL process_id or worker_turn_id

ASSUME RunnersAssumption == NoRunner \notin Runners

----------------------------------------------------------------------------

FinalTaskStatuses == {"completed", "failed", "cancelled"}

RecoverableTerminalTaskStatuses == {"interrupted", "unconfirmed"}

TerminalTaskStatuses == FinalTaskStatuses \union RecoverableTerminalTaskStatuses

TaskStatuses ==
    {"dispatching", "dispatched", "running", "waiting", "blocked", "settling",
     "continuing", "stopping", "returning"} \union TerminalTaskStatuses

\* "final": the evidence names post_llm_call or a reply; "explicit": it is one
\* of EXPLICIT_EVIDENCE; "plain": any other text.
EvidenceClasses == {"plain", "explicit", "final"}

RunnerOrNone == Runners \union {NoRunner}

\* said: some event since the last continuation intent is explicit progress,
\* what latest_explicit_progress looks up.  "absent": no row yet.
TaskRecords ==
    [status   : TaskStatuses \union {"absent"},
     proc     : RunnerOrNone,
     worker   : RunnerOrNone,
     evidence : EvidenceClasses,
     said     : BOOLEAN,
     finished : BOOLEAN]

NoTask == [status |-> "absent", proc |-> NoRunner, worker |-> NoRunner,
           evidence |-> "plain", said |-> FALSE, finished |-> FALSE]

----------------------------------------------------------------------------

Terminal(row) == row.status \in TerminalTaskStatuses

WorkerStarted(row) == row.worker # NoRunner

FinalObserved(row) == row.status = "returning" \/ row.evidence = "final"

Resumable(row) ==
    \/ row.status \in RecoverableTerminalTaskStatuses
    \/ row.status = "failed" /\ WorkerStarted(row) /\ ~FinalObserved(row)

Final(row) == row.status \in FinalTaskStatuses /\ ~Resumable(row)

----------------------------------------------------------------------------

(* What a caller of transition_task asks for.  Every caller names a status   *)
(* and an evidence; NoRunner stands for an identity argument left out.       *)
Ask(status, evidence) ==
    [status |-> status, evidence |-> evidence,
     proc |-> NoRunner, worker |-> NoRunner]

\* The acknowledgement of a background runner carries its process_id ...
AskWithProcess(status, r) == [Ask(status, "plain") EXCEPT !.proc = r]

\* ... and bind_worker the session and turn of the Bot.
AskWithWorker(r) == [Ask("running", "plain") EXCEPT !.worker = r]

Requests ==
         {AskWithProcess(s, r) : s \in {"dispatched", "continuing"}, r \in Runners}
  \union {AskWithWorker(r) : r \in Runners}
  \union {Ask(s, "explicit") : s \in {"running", "waiting", "blocked"}}
  \union {Ask(s, "final") : s \in {"returning", "completed"}}
  \union {Ask(s, "plain") : s \in {"running", "settling", "stopping", "interrupted",
                                  "unconfirmed", "failed", "cancelled"}}
=============================================================================
