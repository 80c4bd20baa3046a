---------------------------- MODULE SandboxProofs ----------------------------
(***************************************************************************)
(* For every timeout, every set of exit codes and any number of failing    *)
(* docker commands: the status run returns is what the command did, and a  *)
(* container is left behind only by a failure.  Each invariant is shown to *)
(* be preserved action by action.                                          *)
(***************************************************************************)
EXTENDS Sandbox, TLAPS

LEMMA FaultsGrow == [Next]_vars => faults \subseteq faults'
  BY DEF Next, Step, CannotSpawn, vars, Refuse, DockerRun, DockerRunFails, Inspect, Deadline,
         Kill, Logs, ReadExitCode, Remove, SpawnFails, CommandExits, Tick, CliKilled, Fault

(* The sandbox section is read once, and its timeout is a number of ticks. *)
LEMMA TimeoutFixed ==
  ASSUME TypeOK
  PROVE  /\ Timeout \in Nat
         /\ [Next]_vars => Timeout' = Timeout
         /\ Ticks(cfg.timeout) < Modulus => Timeout = Ticks(cfg.timeout)
<1>1. cfg \in [network : STRING, timeout : [unit : {"s", "m"}, amount : 0 .. Modulus - 1]]
  BY ConfigsAssumption DEF TypeOK
<1>2. cfg.timeout.amount \in Nat /\ Modulus \in Nat \ {0} /\ Minute \in Nat
  BY <1>1, ConfigsAssumption
<1>3. \A t \in Nat : t % Modulus \in Nat /\ (t < Modulus => t % Modulus = t)
  BY <1>2
<1>4. \A m, n \in Nat : m * n \in Nat
  OBVIOUS
<1>5. Ticks(cfg.timeout) \in Nat
  BY <1>2, <1>4 DEF Ticks
<1>6. [Next]_vars => cfg' = cfg
  BY DEF Next, Step, CannotSpawn, vars, cliVars, Refuse, DockerRun, DockerRunFails, Inspect, Deadline,
         Kill, Logs, ReadExitCode, Remove, SpawnFails, CommandExits, Tick, CliKilled
<1> QED
  BY <1>3, <1>5, <1>6 DEF Timeout, ParseTimeout

LEMMA InitType == Init => TypeOK
<1> SUFFICES ASSUME Init PROVE TypeOK
  OBVIOUS
<1>1. Timeout \in Nat
  <2>1. cfg.timeout.amount \in Nat /\ Modulus \in Nat \ {0} /\ Minute \in Nat
    BY ConfigsAssumption DEF Init
  <2>2. Ticks(cfg.timeout) \in Nat
    BY <2>1 DEF Ticks
  <2> QED
    BY <2>1, <2>2 DEF Timeout, ParseTimeout
<1>2. 0 \in 0 .. Timeout /\ 0 \in ExitCodes
  BY <1>1, ExitCodesAssumption
<1> QED
  BY <1>2 DEF Init, TypeOK, Results

(* Every variable keeps its type. *)
LEMMA StepType == TypeOK /\ [Next]_vars => TypeOK'
<1> SUFFICES ASSUME TypeOK, [Next]_vars PROVE TypeOK'
  OBVIOUS
<1>0. Timeout \in Nat /\ Timeout' = Timeout
  BY TimeoutFixed
<1> USE <1>0, ConfigsAssumption, ExitCodesAssumption
    DEF TypeOK, Results, Return, cliVars, containerVars, Killed
<1>1. CASE Refuse
  BY <1>1 DEF Refuse
<1>2. CASE DockerRun
  BY <1>2 DEF DockerRun
<1>3. CASE DockerRunFails
  BY <1>3 DEF DockerRunFails
<1>4. CASE Inspect
  BY <1>4 DEF Inspect
<1>5. CASE Deadline
  BY <1>5 DEF Deadline, DeadlinePassed
<1>6. CASE Kill
  BY <1>6 DEF Kill
<1>7. CASE Logs
  BY <1>7 DEF Logs
<1>8. CASE ReadExitCode
  BY <1>8 DEF ReadExitCode
<1>9. CASE Remove
  BY <1>9 DEF Remove, Verdict
<1>10. CASE CannotSpawn
  BY <1>10 DEF CannotSpawn, SpawnFails
<1>11. CASE CommandExits
  BY <1>11 DEF CommandExits
<1>12. CASE Tick
  BY <1>12 DEF Tick
<1>13. CASE CliKilled
  BY <1>13 DEF CliKilled
<1>14. CASE UNCHANGED vars
  BY <1>14 DEF vars
<1> QED
  BY <1>1, <1>2, <1>3, <1>4, <1>5, <1>6, <1>7, <1>8, <1>9, <1>10, <1>11, <1>12, <1>13, <1>14
  DEF Next, Step

(* The clock stays within the timeout that was parsed, the exit code that is
   read is one of the container's, and a run has a result exactly when it
   returned, for every configuration the deserializer accepts. *)
THEOREM TypeCorrect == Spec => []TypeOK
BY InitType, StepType, PTL DEF Spec

(* Where a run is and how its deadline, its container and its record of the
   exit code stand agree, whatever happens between two docker commands. *)
LEMMA StepVerdictInv == TypeOK /\ VerdictInv /\ [Next]_vars => VerdictInv'
<1> SUFFICES ASSUME TypeOK, VerdictInv, [Next]_vars PROVE VerdictInv'
  OBVIOUS
<1>0. faults \subseteq faults'
  BY FaultsGrow
<1>a. InspectReliable' => InspectReliable
  BY <1>0 DEF InspectReliable
<1>b. Timeout \in Nat /\ Timeout' = Timeout
  BY TimeoutFixed
<1> USE ExitCodesAssumption, <1>a, <1>b
    DEF TypeOK, VerdictInv, Return, cliVars, containerVars
<1>1. CASE Refuse
  BY <1>1 DEF Refuse
<1>2. CASE DockerRun
  BY <1>2 DEF DockerRun
<1>3. CASE DockerRunFails
  BY <1>3 DEF DockerRunFails
<1>4. CASE Inspect
  <2>1. container # "running" \/ ~InspectReliable' \/ pc' = "deadline"
    BY <1>4 DEF Inspect, Fault, InspectReliable
  <2> QED
    BY <1>4, <2>1 DEF Inspect
<1>5. CASE Deadline
  BY <1>5 DEF Deadline, DeadlinePassed
<1>6. CASE Kill
  BY <1>6 DEF Kill, Killed
<1>7. CASE Logs
  BY <1>7 DEF Logs
<1>8. CASE ReadExitCode
  <2>1. readCode' = exitCode \/ ~InspectReliable'
    BY <1>8 DEF ReadExitCode, Fault, InspectReliable
  <2> QED
    BY <1>8, <2>1 DEF ReadExitCode
<1>9. CASE Remove
  BY <1>9 DEF Remove
<1>10. CASE CannotSpawn
  BY <1>10 DEF CannotSpawn, SpawnFails
<1>11. CASE CommandExits
  BY <1>11 DEF CommandExits
<1>12. CASE Tick
  BY <1>12 DEF Tick
<1>13. CASE CliKilled
  BY <1>13 DEF CliKilled
<1>14. CASE UNCHANGED vars
  BY <1>14 DEF vars, InspectReliable
<1> QED
  BY <1>1, <1>2, <1>3, <1>4, <1>5, <1>6, <1>7, <1>8, <1>9, <1>10, <1>11, <1>12, <1>13, <1>14
  DEF Next, Step

(* VerdictMatchesCommand with the timeout as it was parsed. *)
Recorded ==
  /\ result = "Passed" /\ InspectReliable => ownExit = 0
  /\ result = "Failed" /\ InspectReliable => ownExit \notin {0, NoCode}
  /\ result = "TimedOut" => elapsed >= Timeout

(* It is settled by the step that returns. *)
LEMMA StepRecorded == TypeOK /\ VerdictInv /\ Recorded /\ [Next]_vars => Recorded'
<1> SUFFICES ASSUME TypeOK, VerdictInv, Recorded, [Next]_vars PROVE Recorded'
  OBVIOUS
<1>0. faults \subseteq faults'
  BY FaultsGrow
<1>a. InspectReliable' => InspectReliable
  BY <1>0 DEF InspectReliable
<1>b. Timeout \in Nat /\ Timeout' = Timeout
  BY TimeoutFixed
<1>1. CASE Remove
  <2>1. /\ pc = "remove" /\ result' = Verdict
        /\ ownExit' = ownExit /\ elapsed' = elapsed
    BY <1>1 DEF Remove, Return
  <2>2. ~timedOut /\ InspectReliable => readCode = ownExit /\ container = "exited"
    BY <2>1 DEF VerdictInv
  <2>3. ~timedOut /\ InspectReliable => readCode \in ExitCodes
    BY <2>2, ExitCodesAssumption DEF VerdictInv, TypeOK, Killed
  <2>4. timedOut => elapsed >= Timeout
    BY DEF VerdictInv
  <2>5. CASE timedOut
    BY <1>b, <2>1, <2>4, <2>5 DEF Verdict, Recorded
  <2>6. CASE ~timedOut
    <3>1. result' = IF readCode = 0 THEN "Passed" ELSE "Failed"
      BY <2>1, <2>6 DEF Verdict
    <3>2. InspectReliable' => readCode = ownExit' /\ ownExit' # NoCode
      BY <1>a, <2>1, <2>2, <2>3, <2>6, ExitCodesAssumption
    <3> QED
      BY <3>1, <3>2 DEF Recorded
  <2> QED
    BY <2>5, <2>6
<1>2. CASE ~Remove
  <2>1. result' = result \/ result' = "error"
    BY <1>2 DEF Next, Step, CannotSpawn, vars, cliVars, Return, Refuse, DockerRun, DockerRunFails,
                Inspect, Deadline, Kill, Logs, ReadExitCode, SpawnFails, CommandExits, Tick, CliKilled
  <2>2. elapsed' = elapsed \/ elapsed' = elapsed + 1
    BY <1>2 DEF Next, Step, CannotSpawn, vars, Refuse, DockerRun, DockerRunFails,
                Inspect, Deadline, Kill, Logs, ReadExitCode, SpawnFails, CommandExits, Tick, CliKilled
  <2>3. ownExit' = ownExit \/ container = "running"
    BY <1>2 DEF Next, Step, CannotSpawn, vars, containerVars, Refuse, DockerRun, DockerRunFails,
                Inspect, Deadline, Kill, Logs, ReadExitCode, SpawnFails, CommandExits, Tick, CliKilled
  <2>4. container = "running" => ownExit = NoCode /\ NoCode # 0
    BY ExitCodesAssumption DEF VerdictInv
  <2>5. result = "TimedOut" => elapsed' >= Timeout
    BY <1>b, <2>2 DEF TypeOK, Recorded
  <2>6. ownExit' # ownExit /\ InspectReliable' => result \notin {"Passed", "Failed"}
    BY <1>a, <2>3, <2>4 DEF Recorded
  <2> QED
    BY <1>a, <1>b, <2>1, <2>5, <2>6 DEF Recorded
<1> QED
  BY <1>1, <1>2

(* Whatever the timeout, the exit codes and the docker commands that fail, the
   status recorded for a command is what the command did. *)
THEOREM VerdictSound == Spec => []VerdictMatchesCommand
<1>1. Init => TypeOK /\ VerdictInv /\ Recorded
  BY InitType DEF Init, VerdictInv, Recorded
<1>2. TypeOK /\ VerdictInv /\ Recorded /\ [Next]_vars => TypeOK' /\ VerdictInv' /\ Recorded'
  BY StepType, StepVerdictInv, StepRecorded
<1>3. TypeOK /\ Recorded => VerdictMatchesCommand
  BY TimeoutFixed DEF VerdictMatchesCommand, Recorded, InspectReliable
<1> QED
  BY <1>1, <1>2, <1>3, PTL DEF Spec

-----------------------------------------------------------------------------

LeakingFaults == {"start", "inspect", "logs", "exitCode", "remove", "killed"}

(* While run is under way it may hold a container; afterwards only with a cause. *)
LeakInv ==
  /\ pc = "start" => container = "none"
  /\ pc \in {"returned", "killed"} =>
       container \in {"none", "removed"} \/ faults \cap LeakingFaults # {}

(* The end of run is the only step that has to account for the container. *)
LEMMA StepLeakInv == LeakInv /\ [Next]_vars => LeakInv'
<1> SUFFICES ASSUME LeakInv, [Next]_vars PROVE LeakInv'
  OBVIOUS
<1>0. faults \subseteq faults'
  BY FaultsGrow
<1> USE DEF LeakInv, LeakingFaults, Return, Fault, cliVars, containerVars
<1>1. CASE Refuse \/ DockerRun \/ DockerRunFails
  BY <1>1 DEF Refuse, DockerRun, DockerRunFails
<1>2. CASE Inspect \/ Deadline \/ Kill \/ Logs \/ ReadExitCode
  BY <1>2 DEF Inspect, Deadline, Kill, Logs, ReadExitCode
<1>3. CASE Remove
  BY <1>3 DEF Remove
<1>4. CASE CannotSpawn
  BY <1>4 DEF CannotSpawn, SpawnFails
<1>5. CASE CommandExits
  BY <1>5 DEF CommandExits
<1>6. CASE Tick
  BY <1>6 DEF Tick
<1>7. CASE CliKilled
  BY <1>7 DEF CliKilled
<1>8. CASE UNCHANGED vars
  BY <1>8 DEF vars
<1> QED
  BY <1>1, <1>2, <1>3, <1>4, <1>5, <1>6, <1>7, <1>8 DEF Next, Step

(* No command that passes, fails or times out leaves its container behind. *)
THEOREM NoContainerLeft == Spec => []NothingLeftBehind
<1>1. Init => LeakInv
  BY DEF Init, LeakInv
<1>2. LeakInv => NothingLeftBehind
  BY DEF LeakInv, NothingLeftBehind, LeakingFaults
<1> QED
  BY <1>1, <1>2, StepLeakInv, PTL DEF Spec
=============================================================================
