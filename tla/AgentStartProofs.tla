-------------------------- MODULE AgentStartProofs --------------------------
(***************************************************************************)
(* Proofs about the start of an agent, for any numbers of attempts,        *)
(* commands and faults: of AgentDaemon, which makes the daemon, and of     *)
(* SchemaUpgrade, which its plugins go through while they are loaded.      *)
(***************************************************************************)
EXTENDS AgentDaemon, SchemaUpgrade, SequenceTheorems, TLAPS
-----------------------------------------------------------------------------
(***************************************************************************)
(* Proof that the father of an attempt tells the truth about its daemon,   *)
(* for every number of attempts and stop commands, every set of faults and *)
(* commands, given one after the other or at any moment.                   *)
(*                                                                         *)
(* The argument: while the father waits, the lock is free only once the    *)
(* daemon has stored the code of an initialisation that has ended, and     *)
(* from then on the daemon can end but never change sides.                 *)
(*                                                                         *)
(* And proof that one agent lives at most, the one that the pid file       *)
(* names, when commands are given one after the other and none is restart, *)
(* whatever fails.  Its invariant says of a start how far it can be while  *)
(* another agent lives, and of a stop that nothing starts beside it.       *)
(***************************************************************************)
Handshake(i) ==
    /\ father[i] \in {"off", "launched", "forking"} => daemon[i] = "none"
    /\ father[i] = "forking" => locked[i]
    /\ father[i] = "waiting" /\ ~locked[i]
       => /\ daemon[i] \in Reported \cup {"failed"}
          /\ state[i] = 0 <=> daemon[i] \in Reported
    /\ father[i] = "gone" /\ daemon[i] # "none"
       => /\ daemon[i] \in Reported \cup {"failed"}
          /\ code[i] = 0 <=> daemon[i] \in Reported

HandshakeInv ==
    /\ father \in [Attempts -> FatherSteps]
    /\ daemon \in [Attempts -> DaemonSteps]
    /\ locked \in [Attempts -> BOOLEAN]
    /\ state \in [Attempts -> Codes]
    /\ code \in [Attempts -> Codes \cup {NoCode}]
    /\ \A i \in Attempts : Handshake(i)

LEMMA InitHandshake == Init => HandshakeInv
BY DEF Init, HandshakeInv, Handshake, FatherSteps, DaemonSteps, Codes, NoCode

(* A process that dies or is told to stop stays on its side of the report. *)
LEMMA SignalKeeps ==
    ASSUME HandshakeInv, NEW p, Alive(p), Terminate(p) \/ Dies(p),
           UNCHANGED <<father, locked, state, code>>
    PROVE  HandshakeInv'
<1>1. /\ daemon' \in [Attempts -> DaemonSteps]
      /\ \A i \in Attempts :
            \/ daemon'[i] = daemon[i]
            \/ daemon[i] \in Reported /\ daemon'[i] \in Reported
            \/ /\ daemon[i] \notin Reported \cup {"none", "failed"}
               /\ daemon'[i] = "failed"
  <2>1. CASE Dies(p)
    BY <2>1 DEF HandshakeInv, Dies, Alive, Reported, DaemonSteps
  <2>2. CASE daemon[p] = "serving" /\ daemon' = [daemon EXCEPT ![p] = "stopping"]
    BY <2>2 DEF HandshakeInv, Reported, DaemonSteps
  <2>3. CASE daemon' = daemon
    BY <2>3 DEF HandshakeInv
  <2>4. QED
    BY <2>1, <2>2, <2>3 DEF Terminate
<1>2. ASSUME NEW i \in Attempts PROVE Handshake(i)'
  BY <1>1 DEF HandshakeInv, Handshake, Reported
<1>3. QED
  BY <1>1, <1>2 DEF HandshakeInv

(* A step of the daemon of one attempt that reports nothing and does not   *)
(* leave the sides "before" and "after" the report.                        *)
LEMMA DaemonMoves ==
    ASSUME HandshakeInv, NEW i \in Attempts,
           NEW from \in DaemonSteps \ {"none", "failed"}, NEW to \in DaemonSteps \ {"none"},
           from \in Reported <=> to \in Reported,
           DaemonGoes(i, from, to), UNCHANGED <<father, locked, state, code>>
    PROVE  HandshakeInv'
<1>1. ASSUME NEW j \in Attempts PROVE Handshake(j)'
  BY DEF HandshakeInv, Handshake, DaemonGoes, Reported, DaemonSteps
<1>2. QED
  BY <1>1 DEF HandshakeInv, DaemonGoes

(* The daemon of one attempt leaves initialisation and reports.            *)
LEMMA DaemonReports ==
    ASSUME HandshakeInv, NEW i \in Attempts, NEW c \in Codes,
           NEW from \in DaemonSteps \ (Reported \cup {"none", "failed"}),
           NEW to \in Reported \cup {"failed"},
           c = 0 <=> to \in Reported,
           DaemonGoes(i, from, to),
           state' = [state EXCEPT ![i] = c],
           locked' = [locked EXCEPT ![i] = FALSE],
           UNCHANGED <<father, code>>
    PROVE  HandshakeInv'
<1>1. father[i] \notin {"off", "launched", "forking", "gone"}
  BY DEF HandshakeInv, Handshake, DaemonGoes, Reported
<1>2. ASSUME NEW j \in Attempts PROVE Handshake(j)'
  BY <1>1, <1>2 DEF HandshakeInv, Handshake, DaemonGoes, Reported
<1>3. QED
  BY <1>2 DEF HandshakeInv, DaemonGoes, DaemonSteps, Reported

LEMMA NextHandshake == HandshakeInv /\ [Next]_vars => HandshakeInv'
<1> SUFFICES ASSUME HandshakeInv, [Next]_vars PROVE HandshakeInv'
  OBVIOUS
<1>1. ASSUME NEW i \in Attempts, RunCommand(i) PROVE HandshakeInv'
  BY <1>1 DEF HandshakeInv, Handshake, RunCommand, FatherGoes, FatherSteps
<1>2. ASSUME NEW i \in Attempts, ScriptStart(i) PROVE HandshakeInv'
  BY <1>2 DEF HandshakeInv, Handshake, ScriptStart, Exits, FatherSteps, Codes
<1>3. ASSUME NEW i \in Attempts, TestPidFile(i) PROVE HandshakeInv'
  BY <1>3 DEF HandshakeInv, Handshake, TestPidFile, FatherGoes, Exits, FatherSteps, Codes
<1>4. ASSUME NEW i \in Attempts, Fork(i) PROVE HandshakeInv'
  BY <1>4 DEF HandshakeInv, Handshake, Fork, FatherGoes, DaemonGoes, Exits,
     FatherSteps, DaemonSteps, Codes
<1>5. ASSUME NEW i \in Attempts, ForkAgain(i) PROVE HandshakeInv'
  <2>1. CASE DaemonGoes(i, "child", "grandchild") /\ UNCHANGED <<state, locked>>
    BY <1>5, <2>1, DaemonMoves DEF ForkAgain, DaemonSteps, Reported
  <2>2. CASE /\ DaemonGoes(i, "child", "failed")
             /\ state' = [state EXCEPT ![i] = 1]
             /\ locked' = [locked EXCEPT ![i] = FALSE]
    <3>1. /\ "child" \in DaemonSteps \ (Reported \cup {"none", "failed"})
          /\ "failed" \in Reported \cup {"failed"}
          /\ 1 \in Codes
          /\ 1 = 0 <=> "failed" \in Reported
      BY DEF DaemonSteps, Reported, Codes
    <3>2. UNCHANGED <<father, code>>
      BY <1>5 DEF ForkAgain
    <3>3. QED
      BY <2>2, <3>1, <3>2, DaemonReports
  <2>3. QED
    BY <1>5, <2>1, <2>2 DEF ForkAgain
<1>6. ASSUME NEW i \in Attempts, WritePid(i) PROVE HandshakeInv'
  BY <1>6, DaemonMoves DEF WritePid, DaemonSteps, Reported
<1>7. ASSUME NEW i \in Attempts, InitFails(i) PROVE HandshakeInv'
  BY <1>7, DaemonReports DEF InitFails, Report, DaemonSteps, Reported
<1>8. ASSUME NEW i \in Attempts, InitRaises(i) PROVE HandshakeInv'
  BY <1>8, DaemonMoves DEF InitRaises, DaemonSteps, Reported
<1>9. ASSUME NEW i \in Attempts, InitListens(i) PROVE HandshakeInv'
  BY <1>9, DaemonMoves DEF InitListens, DaemonSteps, Reported
<1>10. ASSUME NEW i \in Attempts, InitReports(i) PROVE HandshakeInv'
  BY <1>10, DaemonReports DEF InitReports, Report, DaemonSteps, Reported, Codes
<1>11. ASSUME NEW i \in Attempts, ReactorRuns(i) PROVE HandshakeInv'
  BY <1>11, DaemonMoves DEF ReactorRuns, DaemonSteps, Reported
<1>12. ASSUME NEW i \in Attempts, FatherReturns(i) PROVE HandshakeInv'
  <2>1. ASSUME NEW j \in Attempts PROVE Handshake(j)'
    BY <1>12, <2>1 DEF HandshakeInv, Handshake, FatherReturns, FatherGoes, Exits,
       FatherSteps, Codes
  <2>2. QED
    BY <1>12, <2>1 DEF HandshakeInv, FatherReturns, FatherGoes, Exits, FatherSteps
<1>13. ASSUME NEW i \in Attempts, CleanUp(i) PROVE HandshakeInv'
  BY <1>13, DaemonMoves DEF CleanUp, DaemonSteps, Reported
<1>14. ASSUME NEW i \in Attempts, Exit(i) PROVE HandshakeInv'
  BY <1>14, DaemonMoves DEF Exit, DaemonSteps, Reported
<1>15. ASSUME UNCHANGED attempt PROVE HandshakeInv'
  BY <1>15 DEF attempt, HandshakeInv, Handshake
<1>16. ASSUME NEW op \in Stops, ScriptStops(op) PROVE HandshakeInv'
  BY <1>15, <1>16 DEF ScriptStops
<1>17. CASE ScriptSignals
  <2>1. CASE Alive(script.pid)
    BY <1>17, <2>1, SignalKeeps DEF ScriptSignals
  <2>2. CASE ~Alive(script.pid)
    BY <1>15, <1>17, <2>2 DEF ScriptSignals, attempt
  <2>3. QED
    BY <2>1, <2>2
<1>18. CASE ScriptRemoves \/ ScriptEnds
  BY <1>15, <1>18 DEF ScriptRemoves, ScriptEnds
<1>19. CASE KillCommand
  <2>1. CASE Alive(pidfile)
    BY <1>19, <2>1, SignalKeeps DEF KillCommand
  <2>2. CASE ~Alive(pidfile)
    BY <1>15, <1>19, <2>2 DEF KillCommand, attempt
  <2>3. QED
    BY <2>1, <2>2
<1>20. CASE UNCHANGED vars
  BY <1>15, <1>20 DEF vars
<1>21. ASSUME NEW i \in Attempts, PidIsReused(i) \/ PidIsFree(i) PROVE HandshakeInv'
  BY <1>15, <1>21 DEF PidIsReused, PidIsFree
<1>22. QED
  BY <1>1, <1>2, <1>3, <1>4, <1>5, <1>6, <1>7, <1>8, <1>9, <1>10, <1>11, <1>12,
     <1>13, <1>14, <1>16, <1>17, <1>18, <1>19, <1>20, <1>21
     DEF Next, AttemptStep, ScriptStep, CommandGiven

(* "Tell the father how to return" (agent.py:621): whatever fails or is    *)
(* killed, an exit code of 0 is that of a daemon that came to serve.       *)
THEOREM FatherTellsTruth == Spec => []FatherLearnsOutcome
<1>1. HandshakeInv => FatherLearnsOutcome
  BY DEF HandshakeInv, Handshake, FatherLearnsOutcome
<1>2. QED
  BY <1>1, InitHandshake, NextHandshake, PTL DEF Spec
-----------------------------------------------------------------------------
(* What the invariant of the handshake leaves of TypeOK.                   *)
FilesTyped ==
    /\ pidfile \in Attempts \cup {None}
    /\ port \in Attempts \cup {None}
    /\ foreign \subseteq Attempts
    /\ script \in [op : Stops \cup {"idle"},
                   step : {"idle", "signal", "remove", "start"},
                   pid : Attempts \cup {None}]
    /\ scripts \in 0..MaxScripts

LEMMA FilesStay ==
    ASSUME FilesTyped, pidfile' \in Attempts \cup {None}, port' \in Attempts \cup {None},
           UNCHANGED <<foreign, script, scripts>>
    PROVE  FilesTyped'
BY DEF FilesTyped

LEMMA RunningPidTyped ==
    ASSUME FilesTyped
    PROVE  /\ RunningPid \in Attempts \cup {None}
           /\ RunningPid # None
              => RunningPid = pidfile /\ (Alive(pidfile) \/ pidfile \in foreign)
BY DEF FilesTyped, RunningPid

LEMMA NextFiles == FilesTyped /\ [Next]_vars => FilesTyped'
<1> SUFFICES ASSUME FilesTyped, [Next]_vars PROVE FilesTyped'
  OBVIOUS
<1>1. ASSUME NEW i \in Attempts, RunCommand(i), UNCHANGED foreign PROVE FilesTyped'
  BY <1>1 DEF FilesTyped, RunCommand
<1>2. ASSUME NEW i \in Attempts, ScriptStart(i), UNCHANGED foreign PROVE FilesTyped'
  <2>1. pidfile' \in Attempts \cup {None} /\ UNCHANGED <<port, scripts>>
    BY <1>2, RunningPidTyped DEF ScriptStart, RemoveIfStale
  <2>2. script' = script \/ script' = NoScript
    BY <1>2 DEF ScriptStart
  <2>3. QED
    BY <1>2, <2>1, <2>2 DEF FilesTyped, NoScript
<1>3. ASSUME NEW i \in Attempts, AttemptStep(i) PROVE FilesTyped'
  <2>1. pidfile' \in {pidfile, i, None} /\ port' \in {port, i, None}
        /\ UNCHANGED <<foreign, script, scripts>>
    BY <1>3 DEF AttemptStep, TestPidFile, Fork, ForkAgain, WritePid, InitFails, InitRaises,
       InitListens, InitReports, ReactorRuns, FatherReturns, CleanUp, Exit
  <2>2. QED
    BY <2>1 DEF FilesTyped
<1>4. ASSUME NEW op \in Stops, ScriptStops(op), UNCHANGED foreign PROVE FilesTyped'
  <2>1. /\ RunningPid \in Attempts \cup {None} /\ pidfile' = RunningPid
        /\ scripts' = scripts + 1 /\ scripts < MaxScripts /\ UNCHANGED port
    BY <1>4, RunningPidTyped DEF ScriptStops, RemoveIfStale
  <2>2. script' \in [op : Stops \cup {"idle"}, step : {"idle", "signal", "remove", "start"},
                     pid : Attempts \cup {None}]
    BY <1>4, <2>1 DEF ScriptStops
  <2>3. QED
    BY <1>4, <2>1, <2>2, DaemonAssumption DEF FilesTyped
<1>5. ASSUME NEW p, Terminate(p) \/ Dies(p) PROVE port' \in Attempts \cup {None}
  BY <1>5 DEF FilesTyped, Terminate, Dies
<1>6. CASE ScriptSignals /\ UNCHANGED foreign
  <2>1. port' \in Attempts \cup {None} /\ UNCHANGED <<pidfile, scripts>>
    BY <1>5, <1>6 DEF ScriptSignals, FilesTyped
  <2>2. script' \in {NoScript, [script EXCEPT !.step = "start"], [script EXCEPT !.step = "remove"]}
    BY <1>6 DEF ScriptSignals
  <2>3. QED
    BY <1>6, <2>1, <2>2 DEF FilesTyped, NoScript
<1>7. CASE ScriptRemoves /\ UNCHANGED foreign
  <2>1. pidfile' = None /\ UNCHANGED <<port, scripts>>
    BY <1>7 DEF ScriptRemoves
  <2>2. script' \in {NoScript, [script EXCEPT !.step = "start"]}
    BY <1>7 DEF ScriptRemoves
  <2>3. QED
    BY <1>7, <2>1, <2>2 DEF FilesTyped, NoScript
<1>8. CASE ScriptEnds /\ UNCHANGED foreign
  BY <1>8 DEF ScriptEnds, FilesTyped, NoScript
<1>9. CASE KillCommand /\ UNCHANGED foreign
  <2>1. port' \in Attempts \cup {None} /\ UNCHANGED <<pidfile, script>>
        /\ scripts < MaxScripts /\ scripts' = scripts + 1
    BY <1>5, <1>9 DEF KillCommand, FilesTyped
  <2>2. QED
    BY <1>9, <2>1, DaemonAssumption DEF FilesTyped
<1>10. CASE UNCHANGED vars
  BY <1>10 DEF vars, FilesTyped
<1>11. ASSUME NEW i \in Attempts, PidIsReused(i) \/ PidIsFree(i) PROVE FilesTyped'
  BY <1>11 DEF PidIsReused, PidIsFree, FilesTyped
<1>12. QED
  BY <1>1, <1>2, <1>3, <1>4, <1>6, <1>7, <1>8, <1>9, <1>10, <1>11
     DEF Next, ScriptStep, CommandGiven

(* Every variable stays in its range, for any numbers of attempts and      *)
(* commands (agent.py:466-728 and the init script).                        *)
THEOREM TypeCorrect == Spec => []TypeOK
<1>1. Init => FilesTyped
  BY DaemonAssumption DEF Init, FilesTyped, NoScript
<1>2. HandshakeInv /\ FilesTyped => TypeOK
  BY DEF HandshakeInv, FilesTyped, TypeOK
<1>3. QED
  BY <1>1, <1>2, InitHandshake, NextHandshake, NextFiles, PTL DEF Spec
-----------------------------------------------------------------------------
OneByOne == Serial /\ "restart" \notin Commands

Starting(i) == father[i] \in {"launched", "forking", "waiting"}

OneStarts ==
    \A i \in Attempts : Starting(i) => /\ script = NoScript
                                       /\ \A j \in Attempts : j # i => ~Starting(j)

OthersSettled ==
    \A i, j \in Attempts :
        /\ father[i] = "launched" /\ Alive(j) => daemon[j] = "serving"
        /\ father[i] = "forking" => ~Alive(j) /\ pidfile = None
        /\ father[i] = "waiting" /\ Alive(j) => i = j

FileNamesDaemon ==
    \A i \in Attempts :
        daemon[i] \in {"init", "listening", "started", "serving"} => pidfile = i

ScriptAlone ==
    /\ script.op # "restart" /\ script.step # "start"
    /\ script.step = "signal" => /\ script.pid \in Attempts
                                 /\ \A i \in Attempts : Alive(i) => /\ i = script.pid
                                                                   /\ daemon[i] = "serving"
    /\ script.step = "remove"
       => \A i \in Attempts : Alive(i) => daemon[i] \in {"stopping", "cleaned"}

AloneInv == /\ OneStarts /\ OthersSettled /\ FileNamesDaemon /\ ScriptAlone
            /\ SingleInstance

LEMMA InitAlone == Init => AloneInv
BY DEF Init, AloneInv, OneStarts, Starting, OthersSettled, FileNamesDaemon, ScriptAlone,
   NoScript, SingleInstance, Alive

LEMMA NobodyIsNone == None \notin Attempts
BY DEF None, Attempts

(* A start is let in when all is quiet: what lives then serves, and the    *)
(* pid file names it.                                                      *)
LEMMA BeginsAlone ==
    ASSUME OneByOne, HandshakeInv, FilesTyped, AloneInv,
           NEW i \in Attempts, RunCommand(i) \/ ScriptStart(i)
    PROVE  AloneInv'
<1>1. Quiet /\ script = NoScript /\ UNCHANGED <<daemon, script>>
  BY DEF OneByOne, AloneInv, ScriptAlone, RunCommand, ScriptStart, MayBegin, Quiet
<1>2. /\ father[i] = "off" /\ father \in [Attempts -> FatherSteps]
      /\ father' = [father EXCEPT ![i] = "launched"] \/ father' = [father EXCEPT ![i] = "gone"]
  BY DEF RunCommand, ScriptStart, FatherGoes, HandshakeInv
<1>3. \A j \in Attempts : Alive(j) => daemon[j] = "serving" /\ pidfile = j
  BY <1>1 DEF Quiet, AloneInv, FileNamesDaemon
<1>4. \A j \in Attempts : Alive(j) => pidfile' = j
  BY <1>3, NobodyIsNone DEF RunCommand, ScriptStart, RemoveIfStale, RunningPid
<1>5. OneStarts' /\ OthersSettled'
  BY <1>1, <1>2, <1>3 DEF Quiet, OneStarts, Starting, OthersSettled, Alive
<1>6. FileNamesDaemon'
  BY <1>1, <1>4 DEF FileNamesDaemon, Alive
<1>7. ScriptAlone' /\ SingleInstance'
  BY <1>1 DEF AloneInv, ScriptAlone, SingleInstance, Alive
<1>8. QED
  BY <1>5, <1>6, <1>7 DEF AloneInv

(* The attempt that is under way goes on.                                  *)
LEMMA AttemptAlone ==
    ASSUME HandshakeInv, FilesTyped, AloneInv, NEW i \in Attempts, AttemptStep(i)
    PROVE  AloneInv'
<1> USE DEF HandshakeInv, Handshake, FatherGoes, DaemonGoes, AloneInv, OneStarts, Starting,
        OthersSettled, FileNamesDaemon, ScriptAlone, SingleInstance, Alive, Reported
<1>1. CASE TestPidFile(i)
  BY <1>1, NobodyIsNone DEF TestPidFile
<1>2. CASE Fork(i)
  <2>1. /\ \A j \in Attempts : ~Alive(j) /\ (j # i => ~Starting(j))
        /\ script = NoScript /\ script' = script /\ pidfile' = pidfile
    BY <1>2 DEF Fork
  <2>2. CASE father' = [father EXCEPT ![i] = "waiting"]
             /\ daemon' = [daemon EXCEPT ![i] = "child"]
    <3>1. OneStarts' /\ OthersSettled'
      BY <2>1, <2>2
    <3>2. FileNamesDaemon' /\ ScriptAlone' /\ SingleInstance'
      BY <2>1, <2>2 DEF NoScript
    <3>3. QED
      BY <3>1, <3>2
  <2>3. CASE father' = [father EXCEPT ![i] = "gone"] /\ daemon' = daemon
    BY <2>1, <2>3
  <2>4. QED
    BY <1>2, <2>2, <2>3 DEF Fork
<1>3. CASE ForkAgain(i)
  BY <1>3 DEF ForkAgain
<1>4. CASE WritePid(i)
  BY <1>4 DEF WritePid
<1>5. CASE InitFails(i) \/ InitRaises(i) \/ InitListens(i) \/ InitReports(i)
  BY <1>5 DEF InitFails, InitRaises, InitListens, InitReports
<1>6. CASE ReactorRuns(i)
  BY <1>6 DEF ReactorRuns
<1>7. CASE FatherReturns(i)
  BY <1>7 DEF FatherReturns
<1>8. CASE CleanUp(i)
  BY <1>8 DEF CleanUp
<1>9. CASE Exit(i)
  BY <1>9 DEF Exit
<1>10. QED
  BY <1>1, <1>2, <1>3, <1>4, <1>5, <1>6, <1>7, <1>8, <1>9 DEF AttemptStep

(* A signal ends the one agent, or lets it shut down.                      *)
LEMMA SignalAlone ==
    ASSUME HandshakeInv, FilesTyped, AloneInv, NEW p \in Attempts, daemon[p] = "serving",
           Terminate(p) \/ Dies(p), UNCHANGED <<father, pidfile>>,
           \A i \in Attempts : ~Starting(i),
           \/ script = NoScript /\ script' = script
           \/ script' = [script EXCEPT !.step = "remove"]
    PROVE  AloneInv'
<1>1. \A i \in Attempts : Alive(i) => i = p
  BY DEF AloneInv, SingleInstance, Alive
<1>2. daemon' = [daemon EXCEPT ![p] = "stopping"] \/ daemon' = [daemon EXCEPT ![p] = "ended"]
  BY DEF Terminate, Dies, Reported
<1>3. \A i \in Attempts : Alive(i)' => i = p /\ daemon'[i] = "stopping"
  BY <1>1, <1>2 DEF HandshakeInv, Alive
<1>4. OneStarts' /\ OthersSettled'
  BY DEF OneStarts, OthersSettled, Starting
<1>5. FileNamesDaemon' /\ SingleInstance'
  BY <1>3 DEF FileNamesDaemon, SingleInstance, Alive
<1>6. ScriptAlone'
  BY <1>3 DEF FilesTyped, AloneInv, ScriptAlone, NoScript
<1>7. QED
  BY <1>4, <1>5, <1>6 DEF AloneInv

(* A stop begins when all is quiet, and removes the pid file of an agent   *)
(* that no longer serves.                                                  *)
LEMMA StopAlone ==
    ASSUME OneByOne, HandshakeInv, FilesTyped, AloneInv,
           \/ \E op \in Stops : ScriptStops(op)
           \/ ScriptSignals \/ ScriptRemoves \/ ScriptEnds \/ KillCommand
    PROVE  AloneInv'
<1>1. ASSUME NEW op \in Stops, ScriptStops(op) PROVE AloneInv'
  <2>1. Quiet /\ op # "restart" /\ UNCHANGED attempt
    BY <1>1 DEF OneByOne, ScriptStops, MayBegin
  <2>2. \A j \in Attempts : Alive(j) => daemon[j] = "serving" /\ pidfile = j
    BY <2>1 DEF Quiet, AloneInv, FileNamesDaemon
  <2>3. \A j \in Attempts : Alive(j) => RunningPid = j
    BY <2>2, NobodyIsNone DEF RunningPid
  <2>4. RunningPid # None => RunningPid \in Attempts
    BY RunningPidTyped
  <2>5. OneStarts' /\ OthersSettled'
    BY <2>1 DEF Quiet, OneStarts, OthersSettled, Starting, attempt
  <2>6. FileNamesDaemon' /\ SingleInstance'
    BY <1>1, <2>1, <2>3 DEF ScriptStops, RemoveIfStale, FileNamesDaemon, AloneInv,
       SingleInstance, Alive, attempt
  <2>7. ScriptAlone'
    BY <1>1, <2>1, <2>2, <2>3, <2>4, NobodyIsNone DEF ScriptStops, ScriptAlone, Alive, attempt
  <2>8. QED
    BY <2>5, <2>6, <2>7 DEF AloneInv
<1>2. ASSUME script # NoScript PROVE \A i \in Attempts : ~Starting(i)
  BY <1>2 DEF AloneInv, OneStarts
<1>3. CASE ScriptSignals
  <2>1. /\ script # NoScript /\ script.pid \in Attempts
        /\ \A i \in Attempts : Alive(i) => i = script.pid /\ daemon[i] = "serving"
        /\ script.op # "restart" /\ UNCHANGED <<father, pidfile>>
    BY <1>3 DEF ScriptSignals, NoScript, AloneInv, ScriptAlone
  <2>2. CASE Alive(script.pid)
    <3>1. /\ Terminate(script.pid) \/ Dies(script.pid)
          /\ script' = [script EXCEPT !.step = "remove"]
      BY <1>3, <2>2 DEF ScriptSignals
    <3>2. QED
      BY <1>2, <2>1, <2>2, <3>1, SignalAlone
  <2>3. ASSUME daemon' = daemon,
               script' \in {NoScript, [script EXCEPT !.step = "remove"]}, ~Alive(script.pid)
        PROVE  AloneInv'
    <3>1. OneStarts' /\ OthersSettled' /\ FileNamesDaemon' /\ SingleInstance'
      BY <1>2, <2>1, <2>3 DEF AloneInv, OneStarts, OthersSettled, Starting, FileNamesDaemon,
                              SingleInstance, Alive
    <3>2. ScriptAlone'
      BY <2>1, <2>3 DEF FilesTyped, ScriptAlone, Alive, NoScript
    <3>3. QED
      BY <3>1, <3>2 DEF AloneInv
  <2>4. CASE ~Alive(script.pid)
    BY <1>3, <2>1, <2>3, <2>4 DEF ScriptSignals
  <2>5. QED
    BY <2>2, <2>4, <2>1
<1>4. CASE ScriptRemoves
  <2>1. /\ script # NoScript /\ script' = NoScript /\ pidfile' = None /\ UNCHANGED attempt
        /\ \A i \in Attempts : Alive(i) => daemon[i] \in {"stopping", "cleaned"}
    BY <1>4 DEF ScriptRemoves, NoScript, AloneInv, ScriptAlone
  <2>2. OneStarts' /\ OthersSettled'
    BY <1>2, <2>1 DEF OneStarts, OthersSettled, Starting, attempt
  <2>3. FileNamesDaemon' /\ ScriptAlone' /\ SingleInstance'
    BY <2>1 DEF FileNamesDaemon, ScriptAlone, AloneInv, SingleInstance, Alive, NoScript, attempt
  <2>4. QED
    BY <2>2, <2>3 DEF AloneInv
<1>5. CASE ScriptEnds
  BY <1>5 DEF ScriptEnds, AloneInv, ScriptAlone
<1>6. CASE KillCommand
  <2>1. Quiet /\ script = NoScript /\ pidfile \in Attempts /\ UNCHANGED <<father, pidfile, script>>
    BY <1>6 DEF KillCommand, OneByOne, MayBegin, Quiet, FilesTyped
  <2>2. \A i \in Attempts : ~Starting(i)
    BY <2>1 DEF Quiet, Starting
  <2>3. CASE Alive(pidfile)
    BY <1>6, <2>1, <2>2, <2>3, SignalAlone DEF KillCommand, Quiet
  <2>4. CASE ~Alive(pidfile)
    BY <1>6, <2>1, <2>4 DEF KillCommand, AloneInv, OneStarts, Starting, OthersSettled, Alive,
       FileNamesDaemon, ScriptAlone, SingleInstance
  <2>5. QED
    BY <2>3, <2>4
<1>7. QED
  BY <1>1, <1>3, <1>4, <1>5, <1>6

LEMMA NextAlone ==
    ASSUME OneByOne, HandshakeInv, FilesTyped, AloneInv, [Next]_vars  PROVE  AloneInv'
<1>1. CASE UNCHANGED vars
  BY <1>1 DEF vars, attempt, AloneInv, OneStarts, Starting, OthersSettled, Alive,
     FileNamesDaemon, ScriptAlone, SingleInstance
<1>2. ASSUME NEW i \in Attempts, PidIsReused(i) \/ PidIsFree(i) PROVE AloneInv'
  BY <1>2 DEF PidIsReused, PidIsFree, attempt, AloneInv, OneStarts, Starting, OthersSettled,
     Alive, FileNamesDaemon, ScriptAlone, SingleInstance
<1>3. QED
  BY <1>1, <1>2, BeginsAlone, AttemptAlone, StopAlone DEF Next, ScriptStep, CommandGiven

(* One agent lives at most, whatever fails, when each command waits until  *)
(* all is quiet and none is restart (agent.py:484).                        *)
THEOREM OneAgent == ASSUME OneByOne  PROVE  Spec => []SingleInstance
<1>1. Init => FilesTyped
  BY DaemonAssumption DEF Init, FilesTyped, NoScript
<1>2. HandshakeInv /\ FilesTyped /\ AloneInv /\ [Next]_vars => AloneInv'
  BY NextAlone
<1>3. AloneInv => SingleInstance
  BY DEF AloneInv
<1>4. QED
  BY <1>1, <1>2, <1>3, InitHandshake, NextHandshake, NextFiles, InitAlone, PTL DEF Spec

(* Under the same condition the pid file names the agent that serves, so   *)
(* that stop and the next start find it (agent.py:579).                    *)
THEOREM FileNames == ASSUME OneByOne  PROVE  Spec => []PidFileNamesServer
<1>1. Init => FilesTyped
  BY DaemonAssumption DEF Init, FilesTyped, NoScript
<1>2. HandshakeInv /\ FilesTyped /\ AloneInv /\ [Next]_vars => AloneInv'
  BY NextAlone
<1>3. AloneInv => PidFileNamesServer
  BY DEF AloneInv, FileNamesDaemon, PidFileNamesServer
<1>4. QED
  BY <1>1, <1>2, <1>3, InitHandshake, NextHandshake, NextFiles, InitAlone, PTL DEF Spec
-----------------------------------------------------------------------------
(***************************************************************************)
(* Success.  The script removes a stale file before it launches anything,  *)
(* so that the test of the file never stops a start; and nothing stops a   *)
(* daemon before its father has heard of it.                               *)
(***************************************************************************)
ThroughScript == OneByOne /\ "run" \notin Commands

StartsClean ==
    \A i \in Attempts :
        /\ father[i] = "launched" => pidfile = None
        /\ father[i] = "waiting" => daemon[i] \notin {"stopping", "cleaned", "ended"}

LEMMA AttemptStartsClean ==
    ASSUME HandshakeInv, AloneInv, StartsClean, NEW i \in Attempts, AttemptStep(i)
    PROVE  StartsClean'
<1> USE DEF HandshakeInv, Handshake, FatherGoes, DaemonGoes, AloneInv, OneStarts, Starting,
        StartsClean, Reported
<1>1. CASE TestPidFile(i)
  BY <1>1 DEF TestPidFile
<1>2. CASE Fork(i)
  BY <1>2 DEF Fork
<1>3. CASE ForkAgain(i)
  BY <1>3 DEF ForkAgain
<1>4. CASE WritePid(i)
  <2>1. father[i] = "waiting" /\ father' = father
    BY <1>4 DEF WritePid, FatherSteps
  <2>2. \A j \in Attempts : father'[j] # "launched"
    BY <2>1
  <2>3. \A j \in Attempts : daemon'[j] \in {"stopping", "cleaned", "ended"}
                           => daemon[j] = daemon'[j]
    BY <1>4 DEF WritePid, DaemonSteps
  <2>4. QED
    BY <2>1, <2>2, <2>3
<1>5. CASE InitFails(i) \/ InitRaises(i) \/ InitListens(i) \/ InitReports(i) \/ ReactorRuns(i)
  BY <1>5 DEF InitFails, InitRaises, InitListens, InitReports, ReactorRuns
<1>6. CASE FatherReturns(i)
  BY <1>6 DEF FatherReturns
<1>7. CASE CleanUp(i) \/ Exit(i)
  BY <1>7 DEF CleanUp, Exit
<1>8. QED
  BY <1>1, <1>2, <1>3, <1>4, <1>5, <1>6, <1>7 DEF AttemptStep

LEMMA NextStartsClean ==
    ASSUME ThroughScript, HandshakeInv, AloneInv, StartsClean, [Next]_vars
    PROVE  StartsClean'
<1>1. ASSUME NEW i \in Attempts, RunCommand(i) PROVE FALSE
  BY <1>1 DEF ThroughScript, RunCommand
<1>2. ASSUME NEW i \in Attempts, ScriptStart(i) PROVE StartsClean'
  <2>1. Quiet /\ UNCHANGED daemon /\ father \in [Attempts -> FatherSteps]
    BY <1>2 DEF ThroughScript, OneByOne, AloneInv, ScriptAlone, ScriptStart, MayBegin, HandshakeInv
  <2>2. \A j \in Attempts : father'[j] # "waiting" /\ (father'[j] = "launched" => RunningPid = None)
    BY <1>2, <2>1 DEF Quiet, ScriptStart
  <2>3. QED
    BY <1>2, <2>1, <2>2 DEF ScriptStart, RemoveIfStale, StartsClean
<1>3. ASSUME NEW i \in Attempts, AttemptStep(i) PROVE StartsClean'
  BY <1>3, AttemptStartsClean
<1>4. ASSUME \A i \in Attempts : ~Starting(i), UNCHANGED father PROVE StartsClean'
  BY <1>4 DEF StartsClean, Starting
<1>5. ASSUME NEW op \in Stops, ScriptStops(op) PROVE StartsClean'
  BY <1>4, <1>5 DEF ScriptStops, attempt, ThroughScript, OneByOne, MayBegin, Quiet, Starting
<1>6. CASE ScriptSignals \/ ScriptRemoves \/ ScriptEnds
  <2>1. script # NoScript /\ UNCHANGED father
    BY <1>6 DEF ScriptSignals, ScriptRemoves, ScriptEnds, attempt, NoScript
  <2>2. QED
    BY <1>4, <2>1 DEF AloneInv, OneStarts
<1>7. CASE KillCommand
  BY <1>4, <1>7 DEF KillCommand, ThroughScript, OneByOne, MayBegin, Quiet, Starting
<1>8. CASE UNCHANGED vars
  BY <1>8 DEF vars, attempt, StartsClean
<1>9. ASSUME NEW i \in Attempts, PidIsReused(i) \/ PidIsFree(i) PROVE StartsClean'
  BY <1>9 DEF PidIsReused, PidIsFree, attempt, StartsClean
<1>10. QED
  BY <1>1, <1>2, <1>3, <1>5, <1>6, <1>7, <1>8, <1>9 DEF Next, ScriptStep, CommandGiven

LEMMA SuccessStep ==
    ASSUME HandshakeInv, FilesTyped, StartsClean, [Next]_vars, NEW i \in Attempts,
           father[i] # "gone", father'[i] = "gone", code'[i] = 0
    PROVE  \/ \E j \in Attempts : Alive(j)
           \/ father[i] = "off" /\ pidfile \in foreign
<1>1. PICK k \in Attempts : ScriptStart(k) \/ TestPidFile(k) \/ Fork(k) \/ FatherReturns(k)
  <2>1. ~UNCHANGED father
    OBVIOUS
  <2>2. ASSUME NEW k \in Attempts, RunCommand(k) PROVE FALSE
    BY <2>2 DEF RunCommand, FatherGoes, HandshakeInv
  <2>3. QED
    BY <2>1, <2>2 DEF Next, AttemptStep, ForkAgain, WritePid, InitFails, InitRaises, InitListens,
       InitReports, ReactorRuns, CleanUp, Exit, ScriptStops, ScriptSignals, ScriptRemoves,
       ScriptEnds, KillCommand, PidIsReused, PidIsFree, ScriptStep, CommandGiven, vars, attempt
<1>2. /\ father \in [Attempts -> FatherSteps] /\ code \in [Attempts -> Codes \cup {NoCode}]
      /\ i # k => father'[i] = father[i]
  BY <1>1 DEF HandshakeInv, ScriptStart, TestPidFile, Fork, FatherReturns, FatherGoes
<1>3. k = i
  BY <1>2
<1>4. CASE ScriptStart(i)
  <2>1. RunningPid # None /\ father[i] = "off"
    BY <1>2, <1>4 DEF ScriptStart
  <2>2. QED
    BY <2>1, RunningPidTyped
<1>5. CASE TestPidFile(i)
  BY <1>2, <1>5 DEF TestPidFile, FatherGoes, StartsClean
<1>6. CASE Fork(i)
  BY <1>2, <1>6 DEF Fork, FatherGoes, Exits
<1>7. CASE FatherReturns(i)
  <2>1. father[i] = "waiting" /\ ~locked[i] /\ state[i] = 0
    BY <1>2, <1>7 DEF FatherReturns, FatherGoes, Exits
  <2>2. daemon[i] \in Reported \ {"stopping", "cleaned", "ended"}
    BY <2>1 DEF HandshakeInv, Handshake, StartsClean
  <2>3. QED
    BY <2>2 DEF Alive, Reported
<1>8. QED
  BY <1>1, <1>3, <1>4, <1>5, <1>6, <1>7

(* A start that answers with success leaves an agent behind, when commands *)
(* are given through the init script, one after the other, and none is     *)
(* restart, unless another program has the number in a stale pid file      *)
(* (agent.py:484-487, get_running_pid).                                    *)
THEOREM SuccessIsTrue == ASSUME ThroughScript  PROVE  Spec => SuccessMeansRunning
<1> DEFINE Inv == HandshakeInv /\ FilesTyped /\ AloneInv /\ StartsClean
<1>1. Init => Inv
  <2>1. Init => FilesTyped
    BY DaemonAssumption DEF Init, FilesTyped, NoScript
  <2>2. Init => StartsClean
    BY DEF Init, StartsClean
  <2>3. QED
    BY <2>1, <2>2, InitHandshake, InitAlone
<1>2. Inv /\ [Next]_vars => Inv'
  <2>1. OneByOne
    BY DEF ThroughScript
  <2>2. QED
    BY <2>1, NextHandshake, NextFiles, NextAlone, NextStartsClean
<1>3. Inv /\ [Next]_vars
      => [\A i \in Attempts :
             father[i] # "gone" /\ father'[i] = "gone" /\ code'[i] = 0
             => \/ \E j \in Attempts : Alive(j)
                \/ father[i] = "off" /\ pidfile \in foreign]_vars
  BY SuccessStep
<1>4. QED
  BY <1>1, <1>2, <1>3, PTL DEF Spec, SuccessMeansRunning
-----------------------------------------------------------------------------
(***************************************************************************)
(* Proofs about SchemaUpgrade, for any scripts and any number of starts    *)
(* and faults.                                                             *)
(*                                                                         *)
(* That the version is true is not inductive: what writes it is a command  *)
(* that may have outlived its agent.  UpgradeInv says of every command     *)
(* that the scripts before its own, and the statements before the one it   *)
(* is at, were executed; and of process() that the scripts before the next *)
(* one were.                                                               *)
(***************************************************************************)
\* Every statement of the scripts up to the n-th was executed, unless a command
\* of the script was killed without a word.
UpTo(n) == \A s \in Scripts : s <= n => Finished(s)

Grows == applied \subseteq applied' /\ silent \subseteq silent'

MysqlStates == [status : {"none", "running", "done", "failed", "killed"},
                script : Scripts, at : Nat \ {0}]

RunStates == [step : Steps, target : Scripts, next : Nat \ {0}, left : Nat,
              sameDb : BOOLEAN]

Types ==
    /\ versions \in Seq(Scripts)
    /\ started \in 0..MaxStarts
    /\ run \in RunStates
    /\ mysql \in [StartNumbers -> MysqlStates]

RowsAreTrue == \A j \in 1..Len(versions) : UpTo(versions[j])

CommandIsAt(c) ==
    /\ UpTo(c.script - 1)
    /\ \A k \in Statements(c.script) : k < c.at => <<c.script, k>> \in applied
    /\ c.status \in {"done", "killed"} => Finished(c.script)

CommandsAreAt == \A i \in StartNumbers : CommandIsAt(mysql[i])

RunIsAt ==
    /\ run.step \in {"reads", "launches", "waits"} => started \in StartNumbers
    /\ run.step \in {"launches", "waits"} => UpTo(run.next - 1)
    /\ run.step = "waits" => /\ run.next = mysql[started].script
                             /\ mysql[started].status # "none"
    /\ run.step = "true" => UpTo(run.target)

UpgradeInv == Types /\ RowsAreTrue /\ CommandsAreAt /\ RunIsAt
-----------------------------------------------------------------------------
LEMMA ScriptsAreNumbers ==
  /\ Len(Schema) \in Nat \ {0} /\ Scripts = 1..Len(Schema)
  /\ 1 \in Scripts /\ Scripts \subseteq Nat \ {0}
  /\ MaxStarts \in Nat \ {0} /\ StartNumbers = 1..MaxStarts
  BY SchemaAssumption DEF Scripts, StartNumbers

LEMMA StatementsAreNumbers ==
  ASSUME NEW s \in Scripts
  PROVE  /\ Len(Schema[s]) \in Nat \ {0} /\ Statements(s) = 1..Len(Schema[s])
         /\ \A k \in Statements(s) : Schema[s][k] = "number" <=> k = Len(Schema[s])
  BY SchemaAssumption DEF Scripts, Statements

LEMMA NothingYet == UpTo(0)
  BY ScriptsAreNumbers DEF UpTo

(* What has been executed stays executed.                                  *)
LEMMA UpToStays ==
  ASSUME NEW n, UpTo(n), Grows  PROVE  UpTo(n)'
  BY DEF UpTo, Finished, Applied, Grows

LEMMA OneMore ==
  ASSUME NEW s \in Scripts, UpTo(s - 1), Finished(s)  PROVE  UpTo(s)
  <1> SUFFICES ASSUME NEW t \in Scripts, t <= s  PROVE Finished(t)
    BY DEF UpTo
  <1>1. t = s \/ t <= s - 1
    BY ScriptsAreNumbers
  <1> QED BY <1>1 DEF UpTo

LEMMA VersionUpTo ==
  ASSUME Types, RowsAreTrue
  PROVE  Version \in Nat /\ UpTo(Version)
  <1>1. CASE Len(versions) = 1
    <2>1. Version = versions[1]
      BY <1>1 DEF Version
    <2>2. 1 \in 1..Len(versions)
      BY <1>1
    <2>3. versions[1] \in Scripts
      BY <2>2, ElementOfSeq DEF Types
    <2>4. UpTo(versions[1])
      BY <2>2 DEF RowsAreTrue
    <2> QED BY <2>1, <2>3, <2>4, ScriptsAreNumbers
  <1>2. CASE Len(versions) # 1
    BY <1>2, NothingYet DEF Version
  <1> QED BY <1>1, <1>2
-----------------------------------------------------------------------------
(* A command and a row of the version table stay where they are.           *)
LEMMA CommandStays ==
  ASSUME NEW c, CommandIsAt(c), Grows
  PROVE  CommandIsAt(c)'
  BY UpToStays DEF CommandIsAt, Finished, Applied, Grows

LEMMA RowsStay ==
  ASSUME RowsAreTrue, UNCHANGED versions, Grows
  PROVE  RowsAreTrue'
  BY UpToStays DEF RowsAreTrue

LEMMA NewCommand ==
  ASSUME NEW s \in Scripts, NEW st \in {"none", "running"}, UpTo(s - 1)
  PROVE  CommandIsAt([status |-> st, script |-> s, at |-> 1])
  <1>1. Statements(s) \subseteq Nat \ {0}
    BY StatementsAreNumbers
  <1> QED BY <1>1 DEF CommandIsAt

(* Until the database is written to, what is known of it stays.            *)
LEMMA DatabaseStays ==
  ASSUME UpgradeInv, UNCHANGED <<versions, applied, silent>>, UNCHANGED mysql
  PROVE  RowsAreTrue' /\ CommandsAreAt'
  <1>1. Grows
    BY DEF Grows
  <1> QED BY <1>1, RowsStay, CommandStays DEF UpgradeInv, CommandsAreAt
-----------------------------------------------------------------------------
(* The steps of process() that leave the database and the commands alone.  *)

LEMMA TypesStay ==
  ASSUME Types, run' \in RunStates, UNCHANGED <<versions, started, mysql>>
  PROVE  Types'
  BY DEF Types

LEMMA ReturnsTyped ==
  ASSUME NEW st \in {"true", "false", "raised"}, Types, Returns(st)
  PROVE  /\ run' \in RunStates
         /\ run'.target = run.target
         /\ run'.step \in {st, "reads"}
  <1>1. CASE st = "false" /\ run.left > 0
    <2>1. run' = [run EXCEPT !.step = "reads", !.left = @ - 1]
      BY <1>1 DEF Returns
    <2>2. run.left \in Nat /\ run.left - 1 \in Nat
      BY <1>1 DEF Types, RunStates
    <2> QED BY <2>1, <2>2 DEF Types, RunStates, Steps
  <1>2. CASE ~(st = "false" /\ run.left > 0)
    <2>1. run' = [run EXCEPT !.step = st]
      BY <1>2 DEF Returns
    <2> QED BY <2>1 DEF Types, RunStates, Steps
  <1> QED BY <1>1, <1>2

(* A run that returns leaves what is known, and True needs a reason.       *)
LEMMA ReturnsKeeps ==
  ASSUME NEW st \in {"true", "false", "raised"}, UpgradeInv, Returns(st),
         run.step \in {"reads", "launches", "waits"},
         st = "true" => UpTo(run.target),
         UNCHANGED <<versions, applied, silent, started, mysql>>
  PROVE  UpgradeInv'
  <1>1. Types /\ RunIsAt
    BY DEF UpgradeInv
  <1>2. Types'
    BY <1>1, ReturnsTyped, TypesStay
  <1>3. RowsAreTrue' /\ CommandsAreAt'
    BY DatabaseStays
  <1>4. run'.step = "true" => st = "true"
    BY <1>1, ReturnsTyped
  <1>5. (st = "true" => UpTo(run.target))'
    BY <1>1, ReturnsTyped, UpToStays DEF Grows
  <1>6. RunIsAt'
    BY <1>1, <1>4, <1>5, ReturnsTyped DEF RunIsAt
  <1> QED BY <1>2, <1>3, <1>6 DEF UpgradeInv
-----------------------------------------------------------------------------
LEMMA StartsKeeps ==
  ASSUME NEW target \in Scripts, NEW sameDb \in BOOLEAN, UpgradeInv, Starts(target, sameDb)
  PROVE  UpgradeInv'
  <1>1. started' \in StartNumbers /\ started' \in 0..MaxStarts
    BY ScriptsAreNumbers DEF Starts, UpgradeInv, Types
  <1>2. run'.step = "reads" /\ run' \in RunStates
    BY DEF Starts, RunStates, Steps
  <1>3. Types'
    BY <1>1, <1>2 DEF UpgradeInv, Types, Starts, database
  <1>4. RowsAreTrue' /\ CommandsAreAt'
    BY DatabaseStays DEF Starts, database
  <1> QED BY <1>1, <1>2, <1>3, <1>4 DEF UpgradeInv, RunIsAt

LEMMA CreatesKeeps ==
  ASSUME UpgradeInv, Creates  PROVE  UpgradeInv'
  <1>1. Types
    BY DEF UpgradeInv
  <1>2. run' \in RunStates
    <2>1. run' = [run EXCEPT !.step = "launches", !.next = 1] /\ run \in RunStates
      BY <1>1 DEF Creates, Types
    <2>2. 1 \in Nat \ {0} /\ "launches" \in Steps
      BY DEF Steps
    <2> QED BY <2>1, <2>2 DEF RunStates
  <1>3. Types'
    BY <1>1, <1>2, TypesStay DEF Creates
  <1>4. RowsAreTrue' /\ CommandsAreAt'
    BY DatabaseStays DEF Creates
  <1>5. run'.step = "launches" /\ run'.next = 1 /\ started' \in StartNumbers
    BY <1>1 DEF Creates, UpgradeInv, Types, RunStates, RunIsAt
  <1>6. UpTo(0)'
    BY NothingYet, UpToStays DEF Creates, Grows
  <1> QED BY <1>3, <1>4, <1>5, <1>6 DEF UpgradeInv, RunIsAt

(* The scripts that are executed follow the version (418-429).             *)
LEMMA ReadsVersionKeeps ==
  ASSUME UpgradeInv, ReadsVersion  PROVE  UpgradeInv'
  <1>1. Types /\ Version \in Nat /\ UpTo(Version)
    BY VersionUpTo DEF UpgradeInv
  <1>2. CASE Version = run.target
    BY <1>1, <1>2, ReturnsKeeps DEF ReadsVersion, database
  <1>3. CASE Version # run.target
    <2>1. PICK v \in Nat : v = Version
      BY <1>1
    <2>2. run' = [run EXCEPT !.step = "launches", !.next = v + 1]
      BY <1>3, <2>1 DEF ReadsVersion
    <2>3. run' \in RunStates
      <3>1. v + 1 \in Nat \ {0} /\ "launches" \in Steps
        BY DEF Steps
      <3> QED BY <1>1, <2>2, <3>1 DEF Types, RunStates
    <2>8. run'.step = "launches" /\ run'.next - 1 = v
      BY <1>1, <2>2 DEF Types, RunStates
    <2>4. Types'
      BY <1>1, <2>3, TypesStay DEF ReadsVersion, database
    <2>5. RowsAreTrue' /\ CommandsAreAt'
      BY DatabaseStays DEF ReadsVersion, database
    <2>6. started' \in StartNumbers
      BY DEF ReadsVersion, UpgradeInv, RunIsAt
    <2>7. UpTo(v)'
      BY <1>1, <2>1, UpToStays DEF ReadsVersion, database, Grows
    <2> QED BY <2>4, <2>5, <2>6, <2>7, <2>8 DEF UpgradeInv, RunIsAt
  <1> QED BY <1>2, <1>3

(* A script is launched when those before it have been executed (430-431). *)
LEMMA LaunchesKeeps ==
  ASSUME UpgradeInv, Launches  PROVE  UpgradeInv'
  <1>1. Types /\ started \in StartNumbers /\ run.step = "launches" /\ UpTo(run.next - 1)
    BY DEF UpgradeInv, RunIsAt, Launches
  <1>2. PICK n \in Scripts : n = run.next
    BY <1>1, ScriptsAreNumbers DEF Types, RunStates, Launches
  <1> DEFINE new == [status |-> "running", script |-> n, at |-> 1]
  <1>3. mysql' = [mysql EXCEPT ![started] = new] /\ new \in MysqlStates
    BY <1>2 DEF Launches, MysqlStates
  <1>4. new.script = n /\ new.status = "running"
    OBVIOUS
  <1>5. CommandIsAt(new)
    BY <1>1, <1>2, NewCommand
  <1> HIDE DEF new
  <1>6. run' \in RunStates /\ run'.step = "waits" /\ run'.next = n
    BY <1>1, <1>2 DEF Launches, Types, RunStates, Steps
  <1>7. Types'
    BY <1>1, <1>3, <1>6 DEF Types, Launches, database
  <1>8. Grows /\ UNCHANGED <<versions, started>>
    BY DEF Launches, database, Grows
  <1>9. RowsAreTrue'
    BY <1>8, RowsStay DEF UpgradeInv
  <1>10. CommandsAreAt'
    <2> SUFFICES ASSUME NEW i \in StartNumbers  PROVE CommandIsAt(mysql[i])'
      BY DEF CommandsAreAt
    <2>1. PICK c : c = mysql'[i] /\ CommandIsAt(c)
      BY <1>1, <1>3, <1>5 DEF Types, UpgradeInv, CommandsAreAt
    <2> QED BY <1>8, <2>1, CommandStays
  <1>11. UpTo(n - 1)'
    BY <1>1, <1>2, <1>8, UpToStays
  <1>12. mysql'[started'] = new
    BY <1>1, <1>3, <1>8 DEF Types
  <1> QED BY <1>1, <1>4, <1>6, <1>7, <1>8, <1>9, <1>10, <1>11, <1>12
          DEF UpgradeInv, RunIsAt

(* A run ends when every script up to the version to install was executed. *)
LEMMA AllExecutedKeeps ==
  ASSUME UpgradeInv, AllExecuted  PROVE  UpgradeInv'
  <1>1. UpTo(run.next - 1) /\ run.target <= run.next - 1 /\ run.target \in Nat
    BY ScriptsAreNumbers DEF UpgradeInv, RunIsAt, Types, RunStates, AllExecuted
  <1>2. UpTo(run.target)
    BY <1>1, ScriptsAreNumbers DEF UpTo, UpgradeInv, Types, RunStates
  <1> QED BY <1>2, ReturnsKeeps DEF AllExecuted, database

(* The next script follows when the command has executed the last one.     *)
LEMMA CommandEndsKeeps ==
  ASSUME UpgradeInv, CommandEnds  PROVE  UpgradeInv'
  <1> DEFINE went == mysql[started].status \in {"done", "killed"} /\ ~warns
  <1>1. CASE ~went
    BY <1>1, ReturnsKeeps DEF CommandEnds, database
  <1>2. CASE went
    <2>1. /\ Types /\ started \in StartNumbers /\ UpTo(run.next - 1)
          /\ run.next = mysql[started].script
      BY DEF UpgradeInv, RunIsAt, CommandEnds
    <2>2. run.next \in Scripts /\ Finished(run.next)
      BY <1>2, <2>1 DEF UpgradeInv, CommandsAreAt, CommandIsAt, Types, MysqlStates
    <2>3. PICK n \in Scripts : n = run.next
      BY <2>2
    <2>4. UpTo(n)
      BY <2>1, <2>2, <2>3, OneMore
    <2>5. run' = [run EXCEPT !.step = "launches", !.next = n + 1]
      BY <1>2, <2>1, <2>3 DEF CommandEnds, Types, RunStates
    <2>6. run' \in RunStates
      <3>1. n + 1 \in Nat \ {0} /\ "launches" \in Steps
        BY ScriptsAreNumbers DEF Steps
      <3> QED BY <2>1, <2>5, <3>1 DEF Types, RunStates
    <2>7. run'.step = "launches" /\ run'.next - 1 = n
      BY <2>1, <2>5, ScriptsAreNumbers DEF Types, RunStates
    <2>8. Types'
      BY <2>1, <2>6, TypesStay DEF CommandEnds, database
    <2>9. RowsAreTrue' /\ CommandsAreAt'
      BY DatabaseStays DEF CommandEnds, database
    <2>10. UpTo(n)'
      BY <2>4, UpToStays DEF CommandEnds, database, Grows
    <2> QED BY <2>1, <2>7, <2>8, <2>9, <2>10 DEF UpgradeInv, RunIsAt, CommandEnds
  <1> QED BY <1>1, <1>2

LEMMA RaisesKeeps ==
  ASSUME UpgradeInv, Raises  PROVE  UpgradeInv'
  BY ReturnsKeeps DEF Raises, database

LEMMA AgentDiesKeeps ==
  ASSUME UpgradeInv, AgentDies  PROVE  UpgradeInv'
  <1>1. Types /\ run' \in RunStates /\ run'.step = "off"
    BY DEF UpgradeInv, Types, RunStates, AgentDies, Steps
  <1>2. Types'
    BY <1>1, TypesStay DEF AgentDies, database
  <1>3. RowsAreTrue' /\ CommandsAreAt'
    BY DatabaseStays DEF AgentDies, database
  <1> QED BY <1>1, <1>2, <1>3 DEF UpgradeInv, RunIsAt

LEMMA MachineDiesKeeps ==
  ASSUME UpgradeInv, MachineDies  PROVE  UpgradeInv'
  <1>1. Types /\ run' \in RunStates /\ run'.step = "off"
    BY DEF UpgradeInv, Types, RunStates, MachineDies, Steps
  <1>2. NoMysql \in MysqlStates /\ CommandIsAt(NoMysql)
    <2>1. 1 \in Scripts /\ UpTo(1 - 1)
      BY ScriptsAreNumbers, NothingYet
    <2>2. CommandIsAt(NoMysql)
      BY <2>1, NewCommand DEF NoMysql
    <2>3. 1 \in Nat \ {0}
      OBVIOUS
    <2> QED BY <2>1, <2>2, <2>3 DEF NoMysql, MysqlStates
  <1>3. Grows /\ UNCHANGED <<versions, started>>
        /\ mysql' = [i \in StartNumbers |-> NoMysql]
    BY DEF MachineDies, database, Grows
  <1>4. Types'
    BY <1>1, <1>2, <1>3 DEF Types
  <1>5. CommandsAreAt'
    <2>1. PICK c : c = NoMysql /\ CommandIsAt(c)
      BY <1>2
    <2>2. CommandIsAt(c)'
      BY <1>3, <2>1, CommandStays
    <2>3. \A i \in StartNumbers : mysql'[i] = c
      BY <1>3, <2>1
    <2> QED BY <2>2, <2>3 DEF CommandsAreAt
  <1>6. RowsAreTrue'
    BY <1>3, RowsStay DEF UpgradeInv
  <1> QED BY <1>1, <1>4, <1>5, <1>6 DEF UpgradeInv, RunIsAt
-----------------------------------------------------------------------------
(* A command that goes on with its script leaves what is known of the      *)
(* others and of the run, whether the run waits for it or not.             *)
LEMMA CommandGoes ==
  ASSUME NEW i \in StartNumbers, NEW c \in MysqlStates, UpgradeInv,
         CommandIsAt(c)', c.script = mysql[i].script, c.status # "none",
         mysql' = [mysql EXCEPT ![i] = c],
         Grows, versions' \in Seq(Scripts), RowsAreTrue',
         UNCHANGED <<run, started>>
  PROVE  UpgradeInv'
  <1>1. Types'
    BY DEF UpgradeInv, Types
  <1>2. CommandsAreAt'
    <2> SUFFICES ASSUME NEW j \in StartNumbers  PROVE CommandIsAt(mysql[j])'
      BY DEF CommandsAreAt
    <2>1. CASE j = i
      BY <2>1 DEF UpgradeInv, Types
    <2>2. CASE j # i
      <3>1. PICK d : d = mysql[j] /\ d = mysql'[j] /\ CommandIsAt(d)
        BY <2>2 DEF UpgradeInv, Types, CommandsAreAt
      <3> QED BY <3>1, CommandStays
    <2> QED BY <2>1, <2>2
  <1>3. RunIsAt'
    <2>1. RunIsAt /\ Types
      BY DEF UpgradeInv
    <2>2. ASSUME NEW n, UpTo(n)  PROVE UpTo(n)'
      BY <2>2, UpToStays
    <2>3. run.step = "waits" => /\ mysql'[started].script = mysql[started].script
                                /\ mysql'[started].status # "none"
      BY <2>1 DEF RunIsAt, Types
    <2>4. run.step \in {"launches", "waits"} => UpTo(run.next - 1)'
      BY <2>1, <2>2 DEF RunIsAt
    <2>5. run.step = "true" => UpTo(run.target)'
      BY <2>1, <2>2 DEF RunIsAt
    <2> QED BY <2>1, <2>3, <2>4, <2>5 DEF RunIsAt
  <1> QED BY <1>1, <1>2, <1>3 DEF UpgradeInv

LEMMA StoppedKeeps ==
  ASSUME NEW i \in StartNumbers, UpgradeInv, Stopped(i),
         UNCHANGED <<versions, applied, silent, run, started>>
  PROVE  UpgradeInv'
  <1>1. PICK c \in MysqlStates : c = [mysql[i] EXCEPT !.status = "failed"]
    BY DEF UpgradeInv, Types, MysqlStates
  <1>2. CommandIsAt(mysql[i]) /\ mysql[i] \in MysqlStates
    BY DEF UpgradeInv, CommandsAreAt, Types
  <1>3. /\ c.script = mysql[i].script /\ c.at = mysql[i].at /\ c.status = "failed"
    BY <1>1, <1>2 DEF MysqlStates
  <1>4. CommandIsAt(c)
    BY <1>2, <1>3 DEF CommandIsAt
  <1>5. Grows
    BY DEF Grows
  <1>6. CommandIsAt(c)' /\ RowsAreTrue'
    BY <1>4, <1>5, CommandStays, RowsStay DEF UpgradeInv
  <1>7. versions' \in Seq(Scripts)
    BY DEF UpgradeInv, Types
  <1>8. mysql' = [mysql EXCEPT ![i] = c]
    BY <1>1 DEF Stopped, UpgradeInv, Types, MysqlStates
  <1> QED BY <1>3, <1>5, <1>6, <1>7, <1>8, CommandGoes

(* A command that is killed without a word, with what is not known then.   *)
LEMMA KilledKeeps ==
  ASSUME NEW i \in StartNumbers, UpgradeInv, Killed(i)
  PROVE  UpgradeInv'
  <1>1. PICK c \in MysqlStates : c = [mysql[i] EXCEPT !.status = "killed"]
    BY DEF UpgradeInv, Types, MysqlStates
  <1>2. CommandIsAt(mysql[i]) /\ mysql[i] \in MysqlStates
    BY DEF UpgradeInv, CommandsAreAt, Types
  <1>3. /\ c.script = mysql[i].script /\ c.at = mysql[i].at /\ c.status = "killed"
    BY <1>1, <1>2 DEF MysqlStates
  <1>4. Grows /\ c.script \in silent' /\ UNCHANGED <<versions, run, started>>
    BY <1>3 DEF Killed, Grows
  <1>5. PICK d : d = mysql[i] /\ CommandIsAt(d)'
    BY <1>2, <1>4, CommandStays
  <1>6. CommandIsAt(c)'
    BY <1>3, <1>4, <1>5 DEF CommandIsAt, Finished
  <1>7. versions' \in Seq(Scripts) /\ RowsAreTrue'
    BY <1>4, RowsStay DEF UpgradeInv, Types
  <1>8. mysql' = [mysql EXCEPT ![i] = c]
    BY <1>1 DEF Killed, UpgradeInv, Types, MysqlStates
  <1> QED BY <1>3, <1>4, <1>6, <1>7, <1>8, CommandGoes

(* A statement that is executed: the rows are written by the last one of a *)
(* script, when the others and the scripts before it have been executed.   *)
LEMMA ExecutesKeeps ==
  ASSUME NEW i \in StartNumbers, UpgradeInv, Executes(i)  PROVE  UpgradeInv'
  <1>1. Types /\ mysql[i] \in MysqlStates /\ CommandIsAt(mysql[i])
    BY DEF UpgradeInv, Types, CommandsAreAt
  <1>2. PICK s \in Scripts : s = mysql[i].script
    BY <1>1 DEF MysqlStates
  <1>3. PICK k \in Statements(s) : k = mysql[i].at
    BY <1>2 DEF Executes, Running
  <1>4. applied' = applied \cup {<<s, k>>} /\ Effect(Schema[s][k], s)
    BY <1>2, <1>3 DEF Executes
  <1>5. /\ UpTo(s - 1) /\ \A n \in Statements(s) : n < k => <<s, n>> \in applied
    BY <1>1, <1>2, <1>3 DEF CommandIsAt
  <1>6. Grows /\ UNCHANGED <<run, started>>
    BY <1>4 DEF Executes, Grows
  <1>7. k \in Nat \ {0} /\ Statements(s) = 1..Len(Schema[s]) /\ Len(Schema[s]) \in Nat
    BY StatementsAreNumbers
  <1>8. ASSUME k = Len(Schema[s])  PROVE Finished(s)' /\ UpTo(s)'
    <2>1. \A n \in Statements(s) : n < k \/ n = k
      BY <1>7, <1>8
    <2>2. Finished(s)'
      BY <1>4, <1>5, <2>1 DEF Finished, Applied
    <2>3. UpTo(s - 1)'
      BY <1>5, <1>6, UpToStays
    <2>4. ASSUME NEW t \in Scripts, t <= s  PROVE Finished(t)'
      <3>1. t = s \/ t <= s - 1
        BY <2>4, ScriptsAreNumbers
      <3> QED BY <2>2, <2>3, <3>1 DEF UpTo
    <2> QED BY <2>2, <2>4 DEF UpTo
  <1> DEFINE next == IF k = Len(Schema[s]) THEN [mysql[i] EXCEPT !.status = "done"]
                     ELSE [mysql[i] EXCEPT !.at = k + 1]
  <1>9. PICK c : c = next
    OBVIOUS
  <1>10. /\ c \in MysqlStates /\ c.script = s /\ c.status # "none"
         /\ c.status \in {"done", "killed"} => k = Len(Schema[s])
         /\ c.at \in Nat /\ c.at <= k + 1
    <2>1. mysql[i].status = "running"
      BY DEF Executes, Running
    <2>2. CASE k = Len(Schema[s])
      <3>1. c = [mysql[i] EXCEPT !.status = "done"]
        BY <1>9, <2>2
      <3>2. c \in MysqlStates
        BY <1>1, <3>1 DEF MysqlStates
      <3>3. c.script = s /\ c.status = "done" /\ c.at = k
        BY <1>1, <1>2, <1>3, <3>1 DEF MysqlStates
      <3> QED BY <1>7, <2>2, <3>2, <3>3
    <2>3. CASE k # Len(Schema[s])
      <3>1. k + 1 \in Nat \ {0}
        BY <1>7
      <3>2. c = [mysql[i] EXCEPT !.at = k + 1]
        BY <1>9, <2>3
      <3>3. c \in MysqlStates
        BY <1>1, <3>1, <3>2 DEF MysqlStates
      <3>4. c.script = s /\ c.status = "running" /\ c.at = k + 1
        BY <1>1, <1>2, <2>1, <3>2 DEF MysqlStates
      <3> QED BY <1>7, <3>3, <3>4
    <2> QED BY <2>2, <2>3
  <1>11. mysql' = [mysql EXCEPT ![i] = c]
    BY <1>1, <1>2, <1>3, <1>9 DEF Executes, Types
  <1> HIDE DEF next
  <1>12. CommandIsAt(c)'
    <2>1. UpTo(s - 1)'
      BY <1>5, <1>6, UpToStays
    <2>2. ASSUME NEW n \in Statements(s), n < c.at  PROVE <<s, n>> \in applied'
      <3>1. n < k \/ n = k
        BY <1>7, <1>10, <2>2
      <3> QED BY <1>4, <1>5, <3>1
    <2> QED BY <1>8, <1>10, <2>1, <2>2 DEF CommandIsAt
  <1>13. versions' \in Seq(Scripts) /\ RowsAreTrue'
    <2>1. CASE Schema[s][k] # "number"
      BY <1>1, <1>4, <1>6, <2>1, RowsStay DEF Effect, UpgradeInv, Types
    <2>2. CASE Schema[s][k] = "number"
      <3>1. UpTo(s)'
        BY <1>8, <2>2, StatementsAreNumbers
      <3>2. CASE s = 1
        <4>1. versions' = Append(versions, s) /\ versions \in Seq(Scripts)
          BY <1>1, <1>4, <2>2, <3>2 DEF Effect, Types
        <4>2. ASSUME NEW j \in 1..Len(versions')  PROVE UpTo(versions[j])'
          <5>1. CASE j \in 1..Len(versions)
            <6>1. PICK n : n = versions[j] /\ n = versions'[j] /\ UpTo(n)
              BY <4>1, <5>1 DEF UpgradeInv, RowsAreTrue
            <6> QED BY <1>6, <6>1, UpToStays
          <5>2. CASE j = Len(versions) + 1
            BY <3>1, <4>1, <5>2
          <5> QED BY <4>1, <4>2, <5>1, <5>2
        <4> QED BY <4>1, <4>2 DEF RowsAreTrue
      <3>3. CASE s # 1
        <4>1. versions' = [j \in 1..Len(versions) |-> s] /\ versions \in Seq(Scripts)
          BY <1>1, <1>4, <2>2, <3>3 DEF Effect, Types
        <4>2. versions' \in Seq(Scripts) /\ Len(versions') = Len(versions)
          BY <4>1
        <4> QED BY <3>1, <4>1, <4>2 DEF RowsAreTrue
      <3> QED BY <3>2, <3>3
    <2> QED BY <2>1, <2>2
  <1> QED BY <1>2, <1>6, <1>10, <1>11, <1>12, <1>13, CommandGoes
-----------------------------------------------------------------------------
LEMMA UpgradeInvInit == UpgradeInit => UpgradeInv
  <1> SUFFICES ASSUME UpgradeInit  PROVE UpgradeInv
    OBVIOUS
  <1>1. 1 \in Scripts /\ UpTo(1 - 1) /\ 1 \in Nat \ {0}
    BY ScriptsAreNumbers, NothingYet
  <1>2. CommandIsAt(NoMysql) /\ NoMysql \in MysqlStates
    BY <1>1, NewCommand DEF NoMysql, MysqlStates
  <1>3. run \in RunStates
    BY <1>1 DEF UpgradeInit, RunStates, Steps
  <1>4. Types
    BY <1>2, <1>3, ScriptsAreNumbers DEF UpgradeInit, Types
  <1>5. CommandsAreAt
    BY <1>2 DEF UpgradeInit, CommandsAreAt
  <1>6. RowsAreTrue /\ RunIsAt
    BY DEF UpgradeInit, RowsAreTrue, RunIsAt
  <1> QED BY <1>4, <1>5, <1>6 DEF UpgradeInv

LEMMA UpgradeInvStep ==
  ASSUME UpgradeInv, [UpgradeNext]_upgradeVars  PROVE  UpgradeInv'
  <1>1. ASSUME NEW target \in Scripts, NEW sameDb \in BOOLEAN, Starts(target, sameDb)
        PROVE UpgradeInv'
    BY <1>1, StartsKeeps
  <1>2. CASE Raises
    BY <1>2, RaisesKeeps
  <1>3. CASE Creates
    BY <1>3, CreatesKeeps
  <1>4. CASE ReadsVersion
    BY <1>4, ReadsVersionKeeps
  <1>5. CASE Launches
    BY <1>5, LaunchesKeeps
  <1>6. CASE AllExecuted
    BY <1>6, AllExecutedKeeps
  <1>7. CASE CommandEnds
    BY <1>7, CommandEndsKeeps
  <1>8. CASE AgentDies
    BY <1>8, AgentDiesKeeps
  <1>9. CASE MachineDies
    BY <1>9, MachineDiesKeeps
  <1>10. ASSUME NEW i \in StartNumbers, Executes(i)  PROVE UpgradeInv'
    BY <1>10, ExecutesKeeps
  <1>11. ASSUME NEW i \in StartNumbers, Refused(i) \/ StatementFails(i)  PROVE UpgradeInv'
    BY <1>11, StoppedKeeps DEF Refused, StatementFails, database
  <1>13. ASSUME NEW i \in StartNumbers, Killed(i)  PROVE UpgradeInv'
    BY <1>13, KilledKeeps
  <1>12. CASE UNCHANGED upgradeVars
    <2>1. Types' /\ RowsAreTrue' /\ CommandsAreAt'
      BY <1>12, DatabaseStays DEF UpgradeInv, Types, upgradeVars, database
    <2>2. RunIsAt'
      BY <1>12 DEF UpgradeInv, RunIsAt, UpTo, Finished, Applied, upgradeVars, database
    <2> QED BY <2>1, <2>2 DEF UpgradeInv
  <1> QED BY <1>1, <1>2, <1>3, <1>4, <1>5, <1>6, <1>7, <1>8, <1>9, <1>10, <1>11, <1>12,
        <1>13 DEF UpgradeNext

(* The version in the database is never ahead of the scripts that were     *)
(* executed, whatever fails or dies, and though commands of several starts *)
(* run side by side, but for the scripts of which a command was killed and *)
(* wrote no error (ddl.py:177-186, 405-436).                               *)
THEOREM VersionKept == UpgradeSpec => []VersionIsTrue
  <1>1. UpgradeInv => VersionIsTrue
    BY VersionUpTo DEF UpgradeInv, UpTo, VersionIsTrue
  <1> QED BY UpgradeInvInit, UpgradeInvStep, <1>1, PTL DEF UpgradeSpec

(* True from process() means that every script up to the version to        *)
(* install was executed, with the same exception (ddl.py:405-436).         *)
THEOREM SuccessKept == UpgradeSpec => []SuccessIsUpToDate
  <1>1. UpgradeInv => SuccessIsUpToDate
    BY DEF UpgradeInv, RunIsAt, UpTo, SuccessIsUpToDate
  <1> QED BY UpgradeInvInit, UpgradeInvStep, <1>1, PTL DEF UpgradeSpec
=============================================================================
