------------------------------- MODULE Sandbox -------------------------------
(***************************************************************************)
(* One configured command in a Docker container (depguard-sandbox run).    *)
(* The CLI starts a detached container and polls it with docker commands;  *)
(* the container and the clock go on between any two of them.  One action  *)
(* is one docker command.  A docker command may answer nothing useful (its *)
(* exit status is never looked at after the start) or not even be spawned, *)
(* and the CLI may be killed.                                              *)
(***************************************************************************)
EXTENDS Integers, FiniteSets

CONSTANTS
  Configs,      \* the sandbox sections of depguard.yaml: [network, timeout], a timeout
                \* an amount of seconds or minutes
  Minute,       \* ticks of a minute, a second being one tick
  Modulus,      \* what unsigned integers count up to
  ExitCodes,    \* what the command may exit with by itself
  MaxFaults,    \* bound on failing docker commands and kills of the CLI
  NoCode        \* an exit code that could not be parsed

Killed == 137

ASSUME ConfigsAssumption ==
  /\ Configs \subseteq [network : STRING, timeout : [unit : {"s", "m"}, amount : 0 .. Modulus - 1]]
  /\ Minute \in Nat \ {0} /\ Modulus \in Nat \ {0} /\ MaxFaults \in Nat
ASSUME ExitCodesAssumption == ExitCodes \subseteq Int /\ 0 \in ExitCodes /\ NoCode \notin Int

VARIABLES
  cfg,        \* the sandbox section configured
  pc,         \* the docker command the CLI is at
  container,  \* "none", "created" (never started), "running", "exited", "removed"
  exitCode,   \* State.ExitCode of the container: 0 while it runs
  ownExit,    \* what the command exited with by itself, NoCode if it did not
  elapsed,    \* ticks since the container was started
  timedOut,   \* the deadline was found to have passed
  readCode,   \* the exit code the CLI parsed
  result,     \* what run returns
  faults      \* docker commands that failed and kills, by kind

cliVars == <<cfg, pc, timedOut, readCode, result>>
containerVars == <<container, exitCode, ownExit>>
vars == <<cfg, pc, timedOut, readCode, result, container, exitCode, ownExit, elapsed, faults>>

Results == {"none", "Passed", "Failed", "TimedOut", "error"}

Ticks(timeout) == IF timeout.unit = "m" THEN timeout.amount * Minute ELSE timeout.amount

(* parse_timeout: minutes are multiplied in 64 bits, without a check in a
   release build. *)
ParseTimeout_MinutesAsSeconds(timeout) == timeout.amount
ParseTimeout(timeout) == Ticks(timeout) % Modulus
Timeout == ParseTimeout(cfg.timeout)

Init ==
  /\ cfg \in Configs
  /\ pc = "start"
  /\ container = "none"
  /\ exitCode = 0
  /\ ownExit = NoCode
  /\ elapsed = 0
  /\ timedOut = FALSE
  /\ readCode = NoCode
  /\ result = "none"
  /\ faults = {}

Fault(kind) == Cardinality(faults) < MaxFaults /\ faults' = faults \cup {kind}

Return_PollsOn(r) == pc' = "inspect" /\ result' = r
Return(r) == pc' = "returned" /\ result' = r

(* `?` on a docker command that cannot be spawned: run returns the error. *)
SpawnFails(command) ==
  /\ pc = command
  /\ Fault(command)
  /\ Return("error")
  /\ UNCHANGED <<cfg, timedOut, readCode, containerVars, elapsed>>

-----------------------------------------------------------------------------

(* Anything but network=deny is refused before docker is called. *)
Refuse ==
  /\ pc = "start" /\ cfg.network # "deny"
  /\ Return("error")
  /\ UNCHANGED <<cfg, timedOut, readCode, containerVars, elapsed, faults>>

DockerRun ==
  /\ pc = "start" /\ cfg.network = "deny"
  /\ container' = "running"
  /\ pc' = "inspect"
  /\ UNCHANGED <<cfg, timedOut, readCode, result, exitCode, ownExit, elapsed, faults>>

(* docker run fails; it may have created the container before. *)
DockerRunFails ==
  /\ cfg.network = "deny"
  /\ pc = "start"
  /\ Fault("start")
  /\ container' \in {"none", "created"}
  /\ Return("error")
  /\ UNCHANGED <<cfg, timedOut, readCode, exitCode, ownExit, elapsed>>

(* docker inspect State.Running: any answer but "true" ends the polling. *)
Inspect ==
  /\ pc = "inspect"
  /\ \/ container = "running" /\ pc' = "deadline" /\ UNCHANGED faults
     \/ container # "running" /\ pc' = "logs" /\ UNCHANGED faults
     \/ Fault("inspect") /\ pc' = "logs"
  /\ UNCHANGED <<cfg, timedOut, readCode, result, containerVars, elapsed>>

DeadlinePassed_Never == FALSE
DeadlinePassed == elapsed >= Timeout

(* The deadline is checked after the inspect, then the CLI sleeps. *)
Deadline ==
  /\ pc = "deadline"
  /\ timedOut' = DeadlinePassed
  /\ pc' = IF DeadlinePassed THEN "kill" ELSE "inspect"
  /\ UNCHANGED <<cfg, readCode, result, containerVars, elapsed, faults>>

(* Its outcome is ignored; a container that has exited stays as it is. *)
Kill ==
  /\ pc = "kill"
  /\ pc' = "logs"
  /\ \/ /\ container = "running"
        /\ container' = "exited" /\ exitCode' = Killed
        /\ UNCHANGED faults
     \/ container # "running" /\ UNCHANGED <<container, exitCode, faults>>
     \/ Fault("kill") /\ UNCHANGED <<container, exitCode>>
  /\ UNCHANGED <<cfg, timedOut, readCode, result, ownExit, elapsed>>

Logs ==
  /\ pc = "logs"
  /\ pc' = "exitCode"
  /\ UNCHANGED <<cfg, timedOut, readCode, result, containerVars, elapsed, faults>>

(* docker inspect State.ExitCode: an answer that is no number gives None. *)
ReadExitCode ==
  /\ pc = "exitCode"
  /\ \/ readCode' = exitCode /\ UNCHANGED faults
     \/ Fault("exitCode") /\ readCode' = NoCode
  /\ pc' = "remove"
  /\ UNCHANGED <<cfg, timedOut, result, containerVars, elapsed>>

Verdict_ExitCodeFirst ==
  IF readCode = 0 THEN "Passed" ELSE IF timedOut THEN "TimedOut" ELSE "Failed"
Verdict == IF timedOut THEN "TimedOut" ELSE IF readCode = 0 THEN "Passed" ELSE "Failed"

(* docker rm -f, its outcome ignored, and the result. *)
Remove_UnlessTimedOut ==
  /\ pc = "remove"
  /\ IF timedOut THEN UNCHANGED container ELSE container' = "removed"
  /\ Return(Verdict)
  /\ UNCHANGED <<cfg, timedOut, readCode, exitCode, ownExit, elapsed, faults>>
Remove ==
  /\ pc = "remove"
  /\ \/ container' = "removed" /\ UNCHANGED faults
     \/ Fault("remove") /\ UNCHANGED container
  /\ Return(Verdict)
  /\ UNCHANGED <<cfg, timedOut, readCode, exitCode, ownExit, elapsed>>

-----------------------------------------------------------------------------

CommandExits ==
  /\ container = "running"
  /\ container' = "exited"
  /\ \E c \in ExitCodes : exitCode' = c /\ ownExit' = c
  /\ UNCHANGED <<cliVars, elapsed, faults>>

(* Time is counted up to the deadline: after it nothing depends on it. *)
Tick ==
  /\ pc \notin {"start", "returned", "killed"}
  /\ elapsed < Timeout
  /\ elapsed' = elapsed + 1
  /\ UNCHANGED <<cliVars, containerVars, faults>>

CliKilled ==
  /\ pc \notin {"returned", "killed"}
  /\ Fault("killed")
  /\ pc' = "killed"
  /\ UNCHANGED <<cfg, timedOut, readCode, result, containerVars, elapsed>>

CannotSpawn == \E command \in {"inspect", "logs", "exitCode"} : SpawnFails(command)

Step ==
  \/ Refuse \/ DockerRun \/ DockerRunFails
  \/ Inspect \/ Deadline \/ Kill \/ Logs \/ ReadExitCode \/ Remove

Next == Step \/ CannotSpawn \/ CommandExits \/ Tick \/ CliKilled

Spec == Init /\ [][Next]_vars

(* The CLI goes on, every docker command returns and time passes; a command
   need never exit. *)
FairSpec == Spec /\ WF_vars(Step) /\ WF_vars(Tick)

-----------------------------------------------------------------------------
(* Properties *)

(* Every variable has its type; a container exits by itself only once. *)
TypeOK ==
  /\ cfg \in Configs
  /\ pc \in {"start", "inspect", "deadline", "kill", "logs", "exitCode", "remove",
             "returned", "killed"}
  /\ container \in {"none", "created", "running", "exited", "removed"}
  /\ exitCode \in ExitCodes \cup {Killed}
  /\ ownExit \in ExitCodes \cup {NoCode}
  /\ elapsed \in 0 .. Timeout
  /\ timedOut \in BOOLEAN
  /\ readCode \in ExitCodes \cup {Killed, NoCode}
  /\ result \in Results /\ (result = "none" <=> pc # "returned")

(* The status recorded for a command says what the command did: it passed only
   if it ended by itself with exit code 0, it failed only if it ended with
   another code, and it timed out only when the time configured was over -
   whatever races between the poll, the deadline and the kill.  The exceptions
   are a docker inspect that fails, whose empty answer is taken for a container
   that stopped, and a timeout in minutes whose seconds do not fit 64 bits. *)
VerdictMatchesCommand ==
  LET inspected == {"inspect", "exitCode"} \cap faults = {} IN
  /\ result = "Passed" /\ inspected => ownExit = 0
  /\ result = "Failed" /\ inspected => ownExit \notin {0, NoCode}
  /\ result = "TimedOut" /\ Ticks(cfg.timeout) < Modulus => elapsed >= Ticks(cfg.timeout)

(* A container that run created is left in Docker only when the CLI could not
   call docker, the removal failed or the CLI was killed: a command that passes,
   fails or times out always leaves nothing behind. *)
NothingLeftBehind ==
  pc \in {"returned", "killed"} /\ container \in {"created", "running", "exited"} =>
    faults \cap {"start", "inspect", "logs", "exitCode", "remove", "killed"} # {}

(* A command that hangs does not hang the CLI: run returns within its timeout. *)
RunReturns == <>(pc \in {"returned", "killed"})

-----------------------------------------------------------------------------
(* The inductive invariant behind VerdictMatchesCommand *)

InspectReliable == {"inspect", "exitCode"} \cap faults = {}

(* What the container, the clock and the CLI know of each other. *)
VerdictInv ==
  /\ pc = "start" => container = "none"
  /\ pc \in {"start", "inspect", "deadline"} => ~timedOut
  /\ timedOut => elapsed >= Timeout
  /\ container \in {"none", "created", "running"} => ownExit = NoCode /\ exitCode = 0
  /\ container = "exited" => ownExit = exitCode \/ (timedOut /\ ownExit = NoCode)
  /\ pc \in {"inspect", "deadline", "kill", "logs", "exitCode", "remove"} =>
       container \in {"running", "exited"}
  /\ pc \in {"logs", "exitCode", "remove"} /\ ~timedOut /\ InspectReliable => container = "exited"
  /\ pc = "remove" /\ ~timedOut /\ InspectReliable => readCode = ownExit
=============================================================================
