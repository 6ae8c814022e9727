---------------------------- MODULE SchemaUpgrade ----------------------------
(***************************************************************************)
(* The upgrade of the schema of a database (agent/mmc/database/ddl.py,     *)
(* class DBControl) when a plugin that uses it is activated                *)
(* (database_helper.py, plugins/report/database.py).                       *)
(*                                                                         *)
(* A run of process() reads the version stored in the database and gives   *)
(* the scripts that follow it, one after the other, to a mysql command.    *)
(* The agent may die at any moment: the mysql command it has launched goes *)
(* on, beside those of the next start.  When the machine dies, all end.    *)
(***************************************************************************)
EXTENDS Integers, Sequences

CONSTANTS
    Schema,    \* of each script, the kinds of its statements
    MaxStarts, \* starts of the agent or of the setup command    (bound)
    MaxFaults  \* statements that fail, commands killed, deaths  (bound)

Scripts == 1..Len(Schema)
Statements(s) == 1..Len(Schema[s])

\* again: may be executed any number of times; once: fails when it has been;
\* table: makes the version table if there is none; number: the first script
\* inserts its number into it, the others update it to theirs.
Kinds == {"again", "once", "table", "number"}

\* What the scripts rely on, and those of contrib/report/sql do: a script
\* writes its number in its last statement.
ASSUME SchemaAssumption ==
    /\ Schema \in Seq(Seq(Kinds)) /\ Schema # <<>>
    /\ \A s \in Scripts : /\ Schema[s] # <<>>
                          /\ \A k \in Statements(s) :
                                 Schema[s][k] = "number" <=> k = Len(Schema[s])
    /\ MaxStarts \in Nat \ {0} /\ MaxFaults \in Nat

VARIABLES
    exists,       \* the database exists
    versionTable, \* it has a version table
    versions,     \* the rows of that table
    applied,      \* the statements that have been executed, and by script
    silent,       \* the scripts of which a command was killed and wrote nothing
    warns,        \* mysql writes to its standard error though all went well
    started,      \* number of starts
    run,          \* the current start: what process() is doing, the version it
                  \* upgrades to, the next script, and the runs that are left
    mysql,        \* the command of each start, which may outlive it
    faults

database == <<exists, versionTable, versions, applied, silent>>
upgradeVars == <<database, warns, started, run, mysql, faults>>

StartNumbers == 1..MaxStarts
Steps == {"off", "reads", "launches", "waits", "true", "false", "raised"}
NoMysql == [status |-> "none", script |-> 1, at |-> 1]

UpgradeInit ==
    /\ exists \in BOOLEAN /\ versionTable = FALSE /\ versions = <<>> /\ applied = {}
    /\ silent = {}
    /\ warns \in BOOLEAN
    /\ started = 0 /\ faults = 0
    /\ run = [step |-> "off", target |-> 1, next |-> 1, left |-> 0, sameDb |-> TRUE]
    /\ mysql = [i \in StartNumbers |-> NoMysql]

Fault == faults < MaxFaults /\ faults' = faults + 1
-----------------------------------------------------------------------------
\* The version in the database: False, which is 0, unless there is one row.
Version == IF Len(versions) = 1 THEN versions[1] ELSE 0

Returns(step) ==
    run' = IF step = "false" /\ run.left > 0
           THEN [run EXCEPT !.step = "reads", !.left = @ - 1]
           ELSE [run EXCEPT !.step = step]

\* The plugin connects to its database, and calls process() once more when it
\* returns False.  A setup command, outside of this repository, does without a
\* database (use_same_db) and calls it once.  The scripts that are installed may
\* be older than those of the last start.
Starts(target, sameDb) ==
    /\ run.step \notin {"reads", "launches", "waits"} /\ started < MaxStarts
    /\ started' = started + 1
    /\ run' = [step |-> "reads", target |-> target, next |-> 1,
               left |-> IF sameDb THEN 1 ELSE 0, sameDb |-> sameDb]
    /\ UNCHANGED <<database, warns, mysql, faults>>

\* No connection without the database, no version without its table, and no
\* message about a version that is too high: the format of that one is wrong.
Raises ==
    /\ run.step = "reads"
    /\ \/ ~exists /\ run.sameDb
       \/ exists /\ ~versionTable
       \/ exists /\ Version > run.target
    /\ Returns("raised")
    /\ UNCHANGED <<database, warns, started, mysql, faults>>

Creates ==
    /\ run.step = "reads" /\ ~exists /\ ~run.sameDb
    /\ exists' = TRUE
    /\ run' = [run EXCEPT !.step = "launches", !.next = 1]
    /\ UNCHANGED <<versionTable, versions, applied, silent, warns, started, mysql, faults>>

ReadsVersion ==
    /\ run.step = "reads" /\ exists /\ versionTable /\ Version <= run.target
    /\ IF Version = run.target THEN Returns("true")
       ELSE run' = [run EXCEPT !.step = "launches", !.next = Version + 1]
    /\ UNCHANGED <<database, warns, started, mysql, faults>>

Launches ==
    /\ run.step = "launches" /\ run.next <= run.target
    /\ run' = [run EXCEPT !.step = "waits"]
    /\ mysql' = [mysql EXCEPT ![started] =
                    [status |-> "running", script |-> run.next, at |-> 1]]
    /\ UNCHANGED <<database, warns, started, faults>>

AllExecuted_ButTheLast ==
    /\ run.step = "launches" /\ run.next >= run.target
    /\ Returns("true")
    /\ UNCHANGED <<database, warns, started, mysql, faults>>

AllExecuted ==
    /\ run.step = "launches" /\ run.next > run.target
    /\ Returns("true")
    /\ UNCHANGED <<database, warns, started, mysql, faults>>

CommandEnds_ErrorsIgnored ==
    /\ run.step = "waits" /\ mysql[started].status \in {"done", "failed", "killed"}
    /\ run' = [run EXCEPT !.step = "launches", !.next = @ + 1]
    /\ UNCHANGED <<database, warns, started, mysql, faults>>

\* execute() returns None when anything was written to the standard error.  It
\* does not read the return code: a command that was killed and wrote nothing is
\* taken for one that has executed its script.
CommandEnds ==
    /\ run.step = "waits" /\ mysql[started].status \in {"done", "failed", "killed"}
    /\ IF mysql[started].status \in {"done", "killed"} /\ ~warns
       THEN run' = [run EXCEPT !.step = "launches", !.next = @ + 1]
       ELSE Returns("false")
    /\ UNCHANGED <<database, warns, started, mysql, faults>>
-----------------------------------------------------------------------------
Running(i) == mysql[i].status = "running" /\ mysql[i].at \in Statements(mysql[i].script)

\* What a statement does to the version table and its rows.
Effect(kind, s) ==
    /\ versionTable' = (versionTable \/ kind = "table")
    /\ versions' = IF kind # "number" THEN versions
                   ELSE IF s = 1 THEN Append(versions, 1)
                   ELSE [i \in DOMAIN versions |-> s]

\* The table that a number is written to may be missing, for the command that
\* was to make it was killed.
Accepted(kind, s, k) ==
    /\ kind = "once" => <<s, k>> \notin applied
    /\ kind = "number" => versionTable

Executes(i) ==
    LET s == mysql[i].script
        k == mysql[i].at
    IN  /\ Running(i)
        /\ Accepted(Schema[s][k], s, k)
        /\ Effect(Schema[s][k], s)
        /\ applied' = applied \cup {<<s, k>>}
        /\ mysql' = [mysql EXCEPT ![i] = IF k = Len(Schema[s])
                                          THEN [@ EXCEPT !.status = "done"]
                                          ELSE [@ EXCEPT !.at = k + 1]]
        /\ UNCHANGED <<exists, silent, warns, started, run, faults>>

\* mysql stops at the first statement that fails.
Stopped(i) == mysql' = [mysql EXCEPT ![i].status = "failed"]

Refused(i) ==
    /\ Running(i)
    /\ ~Accepted(Schema[mysql[i].script][mysql[i].at], mysql[i].script, mysql[i].at)
    /\ Stopped(i)
    /\ UNCHANGED <<database, warns, started, run, faults>>

StatementFails(i) ==
    /\ Running(i) /\ Fault /\ Stopped(i)
    /\ UNCHANGED <<database, warns, started, run>>

Killed(i) ==
    /\ Running(i) /\ Fault
    /\ mysql' = [mysql EXCEPT ![i].status = "killed"]
    /\ silent' = silent \cup {mysql[i].script}
    /\ UNCHANGED <<exists, versionTable, versions, applied, warns, started, run>>

AgentDies ==
    /\ run.step \in {"reads", "launches", "waits"} /\ Fault
    /\ run' = [run EXCEPT !.step = "off"]
    /\ UNCHANGED <<database, warns, started, mysql>>

MachineDies ==
    /\ Fault
    /\ run' = [run EXCEPT !.step = "off"]
    /\ mysql' = [i \in StartNumbers |-> NoMysql]
    /\ UNCHANGED <<database, warns, started>>

UpgradeNext ==
    \/ \E target \in Scripts, sameDb \in BOOLEAN : Starts(target, sameDb)
    \/ Raises \/ Creates \/ ReadsVersion \/ Launches \/ AllExecuted \/ CommandEnds
    \/ AgentDies \/ MachineDies
    \/ \E i \in StartNumbers : Executes(i) \/ Refused(i) \/ StatementFails(i)
                              \/ Killed(i)

UpgradeSpec == UpgradeInit /\ [][UpgradeNext]_upgradeVars
-----------------------------------------------------------------------------
Applied(s) == \A k \in Statements(s) : <<s, k>> \in applied

\* Nothing is known of a script of which a command was killed without a word.
Finished(s) == Applied(s) \/ s \in silent

(* The version in the database is true: every statement of the scripts up  *)
(* to it was executed, whatever failed or died before, and though the      *)
(* commands of several starts may run at the same time (ddl.py:405-436).   *)
(* The exception are the scripts of which a command was killed and wrote   *)
(* no error, which execute() does not notice (ddl.py:177-186): the scripts *)
(* after them are true all the same.                                       *)
VersionIsTrue == \A s \in Scripts : s <= Version => Finished(s)

(* When process() returns True, every statement of the scripts up to the   *)
(* version to install was executed, with the same exception: a script that *)
(* wrote an error is never passed over (ddl.py:405-436).                   *)
SuccessIsUpToDate ==
    run.step = "true" => \A s \in Scripts : s <= run.target => Finished(s)
=============================================================================
