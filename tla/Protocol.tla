------------------------------ MODULE Protocol ------------------------------
(***************************************************************************)
(* The vocabulary of internal/protocol: how an answer of the server is     *)
(* decoded into the error taxonomy, how a polled task status is read, and  *)
(* the exit code internal/cli/errors.go gives to an error.                 *)
(***************************************************************************)
EXTENDS Naturals

(***************************************************************************)
(* Decoding an answer: a record of its HTTP status, whether its message    *)
(* says "is locked (...)", and whether its body has an "errors" map.       *)
(***************************************************************************)
Answers == [status : (200 .. 299) \cup (400 .. 599),
            locked : BOOLEAN,
            fields : BOOLEAN]

Kinds == {"Unknown", "Auth", "Permission", "NotFound", "Validation",
          "Conflict", "Precondition", "Transport", "Server"}

\* The kinds that only an answer of the server yields, and that say it
\* declined to run the call.
DefiniteKinds == Kinds \ {"Transport", "Server"}

Success(r) == r.status \in 200 .. 299

RetryableStatus(r) == r.status \in {429, 502, 503, 504}

\* Fault: the server errors fall into the default of the switch.
KindFromStatus_NoServer(status) ==
    CASE status = 401 -> "Auth"
      [] status = 403 -> "Permission"
      [] status = 404 -> "NotFound"
      [] status = 400 -> "Validation"
      [] status = 409 -> "Conflict"
      [] status = 412 -> "Precondition"
      [] OTHER        -> "Unknown"

KindFromStatus(status) ==
    CASE status = 401  -> "Auth"
      [] status = 403  -> "Permission"
      [] status = 404  -> "NotFound"
      [] status = 400  -> "Validation"
      [] status = 409  -> "Conflict"
      [] status = 412  -> "Precondition"
      [] status >= 500 -> "Server"
      [] OTHER         -> "Unknown"

\* DecodeError: an errors map turns a vague kind into Validation, and a
\* locked guest is a conflict whatever the status.
KindOf(r) ==
    LET k == KindFromStatus(r.status) IN
    IF r.locked THEN "Conflict"
    ELSE IF r.fields /\ k \in {"Unknown", "Server"} THEN "Validation"
    ELSE k

\* ExitCodeFor. A bare context error ("ctx") and an answer that does not decode
\* ("undecoded") are of no kind.
ExitCode(o) ==
    CASE o = "ok"                                   -> 0
      [] o \in {"Auth", "Permission"}               -> 2
      [] o = "NotFound"                             -> 3
      [] o \in {"Validation", "Precondition"}       -> 6
      [] o \in {"Conflict", "Server", "Transport"}  -> 4
      [] o = "TaskFailed"                           -> 5
      [] OTHER                                      -> 1

(***************************************************************************)
(* A polled task status: "running", or "stopped" with an exit status.      *)
(***************************************************************************)
Running == [status |-> "running", exitstatus |-> ""]
Stopped(e) == [status |-> "stopped", exitstatus |-> e]

\* Fault: a task is done only when it ended well.
TaskDone_OnlyOK(st) == st.exitstatus = "OK"

TaskDone(st) == st.status = "stopped"

\* Fault: a task that stopped is taken for a success.
TaskOK_AnyEnd(st) == TaskDone(st)

TaskOK(st) == TaskDone(st) /\ st.exitstatus = "OK"
=============================================================================
