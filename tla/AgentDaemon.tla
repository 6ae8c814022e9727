----------------------------- MODULE AgentDaemon -----------------------------
(***************************************************************************)
(* Starting and stopping mmc-agent (agent/mmc/agent.py, class MMCApp) with *)
(* the init script around it (agent/init/mmc-agent.in).                    *)
(*                                                                         *)
(* An attempt is one execution of the mmc-agent command.  Its first        *)
(* process, the father, takes a lock shared with its descendants, forks    *)
(* twice and waits for the lock; the daemon initialises itself, leaves its *)
(* return code in shared memory and releases the lock.  Attempts share the *)
(* pid file and the TCP port.  The daemon of attempt i has pid i, which    *)
(* another program may have once the daemon is gone ("reuse").             *)
(***************************************************************************)
EXTENDS Integers

CONSTANTS
    N,          \* number of attempts                              (bound)
    MaxScripts, \* number of runs of a stop or restart command     (bound)
    Faults,     \* what may go wrong: a subset of AllFaults
    Commands,   \* the commands in use: a subset of AllCommands
    Serial      \* TRUE: a command is only given when all is quiet

AllFaults == {"fork", "pidfile", "raise", "code", "audit", "reuse"}
Stops == {"stop", "force-stop", "restart"}       \* of the init script
AllCommands == Stops \cup {"start", "run", "kill"}

ASSUME DaemonAssumption ==
    /\ N \in Nat \ {0} /\ MaxScripts \in Nat
    /\ Faults \subseteq AllFaults /\ Commands \subseteq AllCommands
    /\ Serial \in BOOLEAN

Attempts == 1..N
None == 0
Codes == {0, 1, 4}   \* 4: PluginManager.loadPlugins gave up
NoCode == -1

VARIABLES
    father,   \* what the first process of each attempt is doing
    daemon,   \* what the daemonized process of each attempt is doing
    locked,   \* self.lock of each attempt
    state,    \* self.state of each attempt, in shared memory
    code,     \* exit code of the father, or NoCode
    pidfile,  \* content of the pid file, or None when there is no file
    port,     \* which daemon listens, or None
    foreign,  \* the pids that programs other than mmc-agent have now
    script,   \* the stop or restart command being run
    scripts   \* how many have been

attempt == <<father, daemon, locked, state, code>>
vars == <<attempt, pidfile, port, foreign, script, scripts>>

FatherSteps == {"off", "launched", "forking", "waiting", "gone"}
DaemonSteps == {"none", "child", "grandchild", "init", "listening", "started",
                "serving", "stopping", "cleaned", "failed", "ended"}
Reported == {"started", "serving", "stopping", "cleaned", "ended"}
NoScript == [op |-> "idle", step |-> "idle", pid |-> None]

TypeOK ==
    /\ father \in [Attempts -> FatherSteps]
    /\ daemon \in [Attempts -> DaemonSteps]
    /\ locked \in [Attempts -> BOOLEAN]
    /\ state \in [Attempts -> Codes]
    /\ code \in [Attempts -> Codes \cup {NoCode}]
    /\ pidfile \in Attempts \cup {None}
    /\ port \in Attempts \cup {None}
    /\ foreign \subseteq Attempts
    /\ script \in [op : Stops \cup {"idle"},
                   step : {"idle", "signal", "remove", "start"},
                   pid : Attempts \cup {None}]
    /\ scripts \in 0..MaxScripts

Init ==
    /\ father = [i \in Attempts |-> "off"]
    /\ daemon = [i \in Attempts |-> "none"]
    /\ locked = [i \in Attempts |-> FALSE]
    /\ state = [i \in Attempts |-> 0]
    /\ code = [i \in Attempts |-> NoCode]
    /\ pidfile = None
    /\ port = None
    /\ foreign = {}
    /\ script = NoScript
    /\ scripts = 0

\* "failed" and "ended": the process is gone, before or after it reported that
\* it had started.
Alive(i) == daemon[i] \notin {"none", "failed", "ended"}

\* Nobody is starting, stopping or running a script.
Quiet ==
    /\ script = NoScript
    /\ \A i \in Attempts : /\ father[i] \in {"off", "gone"}
                           /\ (Alive(i) => daemon[i] = "serving")

MayBegin == Serial => Quiet

FatherGoes(i, from, to) ==
    /\ father[i] = from
    /\ father' = [father EXCEPT ![i] = to]

DaemonGoes(i, from, to) ==
    /\ daemon[i] = from
    /\ daemon' = [daemon EXCEPT ![i] = to]

\* sys.exit(c) of the father.
Exits(i, c) == code' = [code EXCEPT ![i] = c]

\* Attempts are made in the order of their numbers.
Earliest(i) == \A j \in Attempts : j < i => father[j] # "off"
-----------------------------------------------------------------------------
\* `mmc-agent` is run by hand or by systemd, which test nothing first.
RunCommand(i) ==
    /\ "run" \in Commands /\ MayBegin /\ Earliest(i)
    /\ FatherGoes(i, "off", "launched")
    /\ UNCHANGED <<daemon, locked, state, code, pidfile, port, script, scripts>>

RunningPid_PsAlwaysFails == None
RunningPid_WithoutPs == pidfile

\* get_running_pid: a pid file that names no process is removed.  Any process
\* will do, for ps is only given the number.
RunningPid ==
    IF pidfile # None /\ (Alive(pidfile) \/ pidfile \in foreign) THEN pidfile ELSE None
RemoveIfStale == pidfile' = RunningPid

\* start() of the init script: says "already running" or runs the command.
ScriptStart(i) ==
    /\ Earliest(i)
    /\ \/ "start" \in Commands /\ MayBegin /\ UNCHANGED script
       \/ script.step = "start" /\ script' = NoScript
    /\ father[i] = "off"
    /\ RemoveIfStale
    /\ \/ /\ RunningPid # None
          /\ father' = [father EXCEPT ![i] = "gone"]
          /\ Exits(i, 0)
       \/ /\ RunningPid = None
          /\ father' = [father EXCEPT ![i] = "launched"]
          /\ UNCHANGED code
    /\ UNCHANGED <<daemon, locked, state, port, scripts>>

TestPidFile_Untested(i) ==
    /\ FatherGoes(i, "launched", "forking")
    /\ locked' = [locked EXCEPT ![i] = TRUE]
    /\ UNCHANGED <<daemon, state, code, pidfile, port, script, scripts>>

\* run() takes the lock; daemonize() tests for the pid file.
TestPidFile(i) ==
    /\ father[i] = "launched"
    /\ locked' = [locked EXCEPT ![i] = TRUE]
    /\ \/ pidfile = None /\ FatherGoes(i, "launched", "forking") /\ UNCHANGED code
       \/ pidfile # None /\ FatherGoes(i, "launched", "gone") /\ Exits(i, 0)
    /\ UNCHANGED <<daemon, state, pidfile, port, script, scripts>>

\* fork #1
Fork(i) ==
    /\ \/ /\ FatherGoes(i, "forking", "waiting")
          /\ DaemonGoes(i, "none", "child")
          /\ UNCHANGED code
       \/ /\ "fork" \in Faults
          /\ FatherGoes(i, "forking", "gone")
          /\ Exits(i, 1)
          /\ UNCHANGED daemon
    /\ UNCHANGED <<locked, state, pidfile, port, script, scripts>>

ForkAgain_KeepingTheLock(i) ==
    /\ \/ DaemonGoes(i, "child", "grandchild")
       \/ "fork" \in Faults /\ DaemonGoes(i, "child", "failed")
    /\ UNCHANGED <<father, locked, state, code, pidfile, port, script, scripts>>

\* fork #2, whose failure is reported to the father.
ForkAgain(i) ==
    /\ \/ DaemonGoes(i, "child", "grandchild") /\ UNCHANGED <<state, locked>>
       \/ /\ "fork" \in Faults
          /\ DaemonGoes(i, "child", "failed")
          /\ state' = [state EXCEPT ![i] = 1]
          /\ locked' = [locked EXCEPT ![i] = FALSE]
    /\ UNCHANGED <<father, code, pidfile, port, script, scripts>>

\* writePid(); an IOError leaves run() before its try clause.
WritePid(i) ==
    /\ \/ DaemonGoes(i, "grandchild", "init") /\ pidfile' = i
       \/ /\ "pidfile" \in Faults
          /\ DaemonGoes(i, "grandchild", "failed") /\ UNCHANGED pidfile
    /\ UNCHANGED <<father, locked, state, code, port, script, scripts>>

\* The finally clause of run(): the code first, then the lock.
Report(i, c) ==
    /\ state' = [state EXCEPT ![i] = c]
    /\ locked' = [locked EXCEPT ![i] = FALSE]

\* initialize() gives up: a plugin (4), or startService, for one because the
\* port is taken (1).  The process ends; the pid file stays.
InitFails(i) ==
    /\ \E c \in Codes \ {0} :
          /\ "code" \in Faults \/ (c = 1 /\ port # None)
          /\ Report(i, c)
    /\ DaemonGoes(i, "init", "failed")
    /\ UNCHANGED <<father, code, pidfile, port, script, scripts>>

\* An exception leaves initialize(): ret is unbound in the finally clause,
\* which raises in turn before it reaches the release.
InitRaises(i) ==
    /\ "raise" \in Faults
    /\ DaemonGoes(i, "init", "failed")
    /\ UNCHANGED <<father, locked, state, code, pidfile, port, script, scripts>>

\* startService(): listenSSL or listenTCP.
InitListens(i) ==
    /\ port = None
    /\ DaemonGoes(i, "init", "listening")
    /\ port' = i
    /\ UNCHANGED <<father, locked, state, code, pidfile, script, scripts>>

InitReports(i) ==
    /\ DaemonGoes(i, "listening", "started")
    /\ Report(i, 0)
    /\ UNCHANGED <<father, code, pidfile, port, script, scripts>>

\* reactor.run(), which installs the handler of SIGTERM.
ReactorRuns(i) ==
    /\ DaemonGoes(i, "started", "serving")
    /\ UNCHANGED <<father, locked, state, code, pidfile, port, script, scripts>>

FatherReturns_WithoutWaiting(i) ==
    /\ FatherGoes(i, "waiting", "gone")
    /\ Exits(i, state[i])
    /\ UNCHANGED <<daemon, locked, state, pidfile, port, script, scripts>>

\* self.lock.acquire() returns: sys.exit(self.state).
FatherReturns(i) ==
    /\ FatherGoes(i, "waiting", "gone")
    /\ ~locked[i]
    /\ locked' = [locked EXCEPT ![i] = TRUE]
    /\ Exits(i, state[i])
    /\ UNCHANGED <<daemon, state, pidfile, port, script, scripts>>

\* cleanUp() before the reactor stops: an audit record, then cleanPid(),
\* which unlinks the pid file whoever wrote it.  A failing audit skips it.
CleanUp(i) ==
    /\ DaemonGoes(i, "stopping", "cleaned")
    /\ \/ pidfile' = None
       \/ "audit" \in Faults /\ UNCHANGED pidfile
    /\ UNCHANGED <<father, locked, state, code, port, script, scripts>>

\* The reactor closes the port and the process ends.
Exit(i) ==
    /\ DaemonGoes(i, "cleaned", "ended")
    /\ port' = IF port = i THEN None ELSE port
    /\ UNCHANGED <<father, locked, state, code, pidfile, script, scripts>>
-----------------------------------------------------------------------------
(***************************************************************************)
(* Stopping.  SIGTERM ends a process at once unless the reactor runs in it.*)
(***************************************************************************)
Dies(i) ==
    /\ daemon' = [daemon EXCEPT ![i] = IF @ \in Reported THEN "ended" ELSE "failed"]
    /\ port' = IF port = i THEN None ELSE port

Terminate(i) ==
    \/ /\ daemon[i] = "serving"
       /\ daemon' = [daemon EXCEPT ![i] = "stopping"]
       /\ UNCHANGED port
    \/ /\ daemon[i] \in {"stopping", "cleaned"}
       /\ UNCHANGED <<daemon, port>>
    \/ /\ daemon[i] \in {"child", "grandchild", "init", "listening", "started"}
       /\ Dies(i)

\* A stop or restart command begins with get_running_pid.
ScriptStops(op) ==
    /\ op \in Commands
    /\ script = NoScript /\ scripts < MaxScripts /\ MayBegin
    /\ scripts' = scripts + 1
    /\ script' = [op |-> op, pid |-> RunningPid,
                  step |-> IF RunningPid = None THEN "remove" ELSE "signal"]
    /\ RemoveIfStale
    /\ UNCHANGED <<attempt, port>>

\* kill -15 or kill -9, to whatever process has the number; when it has gone
\* meanwhile kill fails and the script gives up on the pid file.
ScriptSignals ==
    /\ script.step = "signal"
    /\ LET i == script.pid IN
          \/ /\ ~Alive(i) /\ i \notin foreign
             /\ script' = IF script.op = "restart" THEN [script EXCEPT !.step = "start"]
                                                   ELSE NoScript
             /\ UNCHANGED <<daemon, port>>
          \/ /\ ~Alive(i) /\ i \in foreign
             /\ script' = [script EXCEPT !.step = "remove"]
             /\ UNCHANGED <<daemon, port>>
          \/ /\ Alive(i)
             /\ script' = [script EXCEPT !.step = "remove"]
             /\ IF script.op = "force-stop" THEN Dies(i) ELSE Terminate(i)
    /\ UNCHANGED <<father, locked, state, code, pidfile, scripts>>

\* rm -f: at once, the daemon may still be shutting down.  restart() sleeps
\* two seconds and goes on with start().
ScriptRemoves ==
    /\ script.step = "remove"
    /\ pidfile' = None
    /\ script' = IF script.op = "restart" THEN [script EXCEPT !.step = "start"]
                                          ELSE NoScript
    /\ UNCHANGED <<attempt, port, scripts>>

\* A restart that has no attempt left in this bounded model.
ScriptEnds ==
    /\ script.step = "start" /\ \A i \in Attempts : father[i] # "off"
    /\ script' = NoScript
    /\ UNCHANGED <<attempt, pidfile, port, scripts>>

\* mmc-agent -k: SIGTERM to what readPid finds; the file is left alone.
KillCommand ==
    /\ "kill" \in Commands
    /\ scripts < MaxScripts /\ MayBegin
    /\ scripts' = scripts + 1
    /\ pidfile # None
    /\ IF Alive(pidfile) THEN Terminate(pidfile) ELSE UNCHANGED <<daemon, port>>
    /\ UNCHANGED <<father, locked, state, code, pidfile, script>>

PidIsReused(i) ==
    /\ "reuse" \in Faults
    /\ daemon[i] \in {"failed", "ended"}
    /\ foreign' = foreign \cup {i}
    /\ UNCHANGED <<attempt, pidfile, port, script, scripts>>

PidIsFree(i) ==
    /\ i \in foreign
    /\ foreign' = foreign \ {i}
    /\ UNCHANGED <<attempt, pidfile, port, script, scripts>>

AttemptStep(i) ==
    /\ \/ TestPidFile(i) \/ Fork(i) \/ ForkAgain(i) \/ WritePid(i)
       \/ InitFails(i) \/ InitRaises(i) \/ InitListens(i) \/ InitReports(i)
       \/ ReactorRuns(i) \/ FatherReturns(i) \/ CleanUp(i) \/ Exit(i)
    /\ UNCHANGED foreign

ScriptStep ==
    /\ \/ ScriptSignals \/ ScriptRemoves \/ ScriptEnds
       \/ script.step = "start" /\ \E i \in Attempts : ScriptStart(i)
    /\ UNCHANGED foreign

CommandGiven ==
    /\ \/ \E i \in Attempts : RunCommand(i) \/ ScriptStart(i)
       \/ \E op \in Stops : ScriptStops(op)
       \/ KillCommand
    /\ UNCHANGED foreign

Next ==
    \/ CommandGiven \/ ScriptStep
    \/ \E i \in Attempts : AttemptStep(i) \/ PidIsReused(i) \/ PidIsFree(i)

Spec == Init /\ [][Next]_vars

\* What was started keeps running: the operating system schedules every
\* process.  Giving a command is the operator's choice.
Fairness == /\ \A i \in Attempts : WF_vars(AttemptStep(i))
            /\ WF_vars(ScriptStep)

FairSpec == Spec /\ Fairness
-----------------------------------------------------------------------------
(* The father exits with 0 exactly when its daemon got as far as serving   *)
(* requests: run() stores the code before it releases the lock, and fork   *)
(* #2 reports its failure the same way ("Tell the father how to return",   *)
(* agent.py:621).                                                          *)
FatherLearnsOutcome ==
    \A i \in Attempts :
        father[i] = "gone" /\ daemon[i] # "none"
        => (code[i] = 0 <=> daemon[i] \in Reported)

(* A running daemon is the one the pid file names, so that stop, kill and  *)
(* the next start find it (readPid: "Try to read pid of running mmc-agent  *)
(* in pidfile", agent.py:579).                                             *)
PidFileNamesServer ==
    \A i \in Attempts : daemon[i] = "serving" => pidfile = i

(* Two daemons never live together: a start tests "if mmcagent has been    *)
(* already launched in daemon mode" (agent.py:484).                        *)
SingleInstance ==
    \A i, j \in Attempts : Alive(i) /\ Alive(j) => i = j

(* A start that answers with success leaves an agent behind: its own or    *)
(* the one it found (agent.py:484-487, init script start()), unless it     *)
(* answers "already running" because another program has the number that   *)
(* a pid file left behind holds: get_running_pid asks ps for the number.   *)
SuccessMeansRunning ==
    [][\A i \in Attempts :
          father[i] # "gone" /\ father'[i] = "gone" /\ code'[i] = 0
          => \/ \E j \in Attempts : Alive(j)
             \/ father[i] = "off" /\ pidfile \in foreign]_vars

(* The father that waits for its daemon is let go ("and let him return",   *)
(* agent.py:621).                                                          *)
FatherIsReleased ==
    \A i \in Attempts : father[i] = "waiting" ~> father[i] = "gone"
=============================================================================
