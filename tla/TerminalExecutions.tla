-------------------------- MODULE TerminalExecutions --------------------------
(***************************************************************************)
(* The container terminals of an Agent (internal/agent/runtime): a shell   *)
(* is a Docker exec that outlives the Agent's process, so its ID is on     *)
(* disk before it starts, and the probe of a later process stops the       *)
(* shells that nobody is attached to.                                      *)
(*                                                                         *)
(* A shell starts beside a watchdog that makes a marker directory and      *)
(* kills the shell once somebody has removed it.                           *)
(***************************************************************************)
EXTENDS Naturals, FiniteSets

CONSTANTS
    Terminals,    \* terminals that the Server asks for
    Execs,        \* numbers 1 .. n of the Docker execs
    Containers,   \* numbers 1 .. n of the containers that follow each other
    MaximumTerminalExecutions,
    MaxCrashes,   \* bound on the ends of the Agent's process
    LostAttach    \* whether the answer of an attach may be lost

ASSUME ExecutionAssumption ==
    /\ IsFiniteSet(Execs) /\ Execs \subseteq Nat \ {0}
    /\ Containers \subseteq Nat /\ 1 \in Containers
    /\ MaximumTerminalExecutions \in Nat

VARIABLES
    exec,      \* the execs that the Engine knows
    container, \* the container that runs under the stable name
    records,   \* terminal-executions.json
    active,    \* activeTerminals of the process
    terminal,  \* the opening, the stream and the closing of each terminal
    recovery,  \* the probe: what is left to recover, and the step
    crashes, up

executionVars == <<exec, container, records, active, terminal, recovery, crashes, up>>

NoTerminal == [pc |-> "none", exec |-> 0, container |-> 0, shells |-> 0]
NoRecovery == [pc |-> "idle", todo |-> {}, exec |-> 0]
process == <<active, terminal, recovery>>
engine == <<exec, container>>

ExecutionInit ==
    /\ exec = [x \in Execs |-> [status |-> "none", marker |-> "none", container |-> 0]]
    /\ container = 1 /\ records = {} /\ active = {}
    /\ terminal = [t \in Terminals |-> NoTerminal] /\ recovery = NoRecovery
    /\ crashes = 0 /\ up = TRUE

Running(x) == exec[x].status = "running"
Goes(t, pc) == terminal' = [terminal EXCEPT ![t].pc = pc]
Alive == up /\ UNCHANGED <<crashes, up>>

-----------------------------------------------------------------------------
(* OpenContainerTerminal                                                   *)

Open(t) ==
    /\ Alive /\ terminal[t].pc = "none"
    /\ terminal' = [terminal EXCEPT ![t] = [pc |-> "create", exec |-> 0, container |-> container, shells |-> 1]]
    /\ UNCHANGED <<engine, records, active, recovery>>

\* The next shell of the three, or no terminal.
NextShell(t) ==
    terminal' = [terminal EXCEPT ![t] =
        IF @.shells < 3
        THEN [pc |-> "create", exec |-> 0, container |-> @.container, shells |-> @.shells + 1]
        ELSE [@ EXCEPT !.pc = "closed"]]

\* ExecCreate in the container that was inspected; the exec is active at once.
CreateExec(t) ==
    /\ Alive /\ terminal[t].pc = "create"
    /\ \/ \E x \in Execs :
             /\ exec[x].status = "none" /\ \A y \in 1 .. x - 1 : exec[y].status # "none"
             /\ container = terminal[t].container
             /\ exec' = [exec EXCEPT ![x] = [status |-> "created", marker |-> "none", container |-> container]]
             /\ active' = active \cup {x}
             /\ terminal' = [terminal EXCEPT ![t].pc = "record", ![t].exec = x]
       \/ container # terminal[t].container /\ NextShell(t) /\ UNCHANGED <<exec, active>>
    /\ UNCHANGED <<container, records, recovery>>

\* Add, before the shell starts; a full store refuses the terminal.
RecordExec(t) ==
    LET x == terminal[t].exec IN
    /\ Alive /\ terminal[t].pc = "record"
    /\ IF Cardinality(records) < MaximumTerminalExecutions
       THEN records' = records \cup {x} /\ Goes(t, "attach") /\ UNCHANGED active
       ELSE active' = active \ {x} /\ Goes(t, "closed") /\ UNCHANGED records
    /\ UNCHANGED <<engine, recovery>>

\* ExecAttach starts the shell.  On an error the record is removed and the next
\* shell is tried, whether or not the Engine has started this one.
Attach(t) ==
    LET x == terminal[t].exec
        started == [exec EXCEPT ![x].status = "running"] IN
    /\ Alive /\ terminal[t].pc = "attach"
    /\ \/ exec[x].status = "created" /\ exec' = started /\ Goes(t, "inspect") /\ UNCHANGED <<records, active>>
       \/ /\ exec' \in {exec} \cup (IF LostAttach /\ exec[x].status = "created" THEN {started} ELSE {})
          /\ records' = records \ {x} /\ active' = active \ {x} /\ NextShell(t)
    /\ UNCHANGED <<container, recovery>>

\* The container is inspected again: another one ends the terminal.
InspectAgain(t) ==
    /\ Alive /\ terminal[t].pc = "inspect"
    /\ Goes(t, IF container = terminal[t].container THEN "open" ELSE "abort")
    /\ UNCHANGED <<engine, records, active, recovery>>

-----------------------------------------------------------------------------
(* The end of a terminal, and the recovery of its record                   *)

\* Close: the client, the Server or watchContainer; the exec is not active
\* any more before its shell is stopped.
Close(t) ==
    /\ Alive /\ terminal[t].pc = "open" /\ Goes(t, "signal")
    /\ active' = active \ {terminal[t].exec}
    /\ UNCHANGED <<engine, records, recovery>>

\* signalTerminalExecutionStop removes the marker, if there is one already.
Signaled(x) ==
    IF exec[x].marker = "made" /\ exec[x].container = container THEN [exec EXCEPT ![x].marker = "removed"] ELSE exec

Signal(t) ==
    /\ Alive /\ terminal[t].pc \in {"signal", "abort"}
    /\ exec' = Signaled(terminal[t].exec) /\ Goes(t, IF terminal[t].pc = "abort" THEN "aborted" ELSE "wait")
    /\ UNCHANGED <<container, records, active, recovery>>

\* Mistake: the signal is taken for the end.
StoppedBySignal(x) == TRUE

Stopped(x) == ~Running(x)

\* waitForTerminalExecutionStop: the record goes once the shell has stopped, and
\* stays when the wait has timed out.
Await(t) ==
    LET x == terminal[t].exec IN
    /\ Alive /\ terminal[t].pc \in {"wait", "aborted"}
    /\ \/ Stopped(x) /\ records' = records \ {x}
       \/ UNCHANGED records
    /\ active' = active \ {x} /\ Goes(t, "closed")
    /\ UNCHANGED <<engine, recovery>>

\* Mistake: the recovery does not ask whether a stream holds the exec.
InactiveAlways(x) == TRUE

Inactive(x) == x \notin active

\* RecoverContainerTerminals: the records that no stream of this process holds.
StartRecovery ==
    /\ Alive /\ recovery.pc = "idle"
    /\ \E x \in records : Inactive(x)
    /\ recovery' = [pc |-> "inspect", todo |-> {x \in records : Inactive(x)}, exec |-> 0]
    /\ UNCHANGED <<engine, records, active, terminal>>

\* recoverTerminalExecution: a shell that runs is signaled and awaited; a
\* failure ends the recovery until the next probe.
InspectExec ==
    /\ Alive /\ recovery.pc = "inspect"
    /\ IF recovery.todo = {} THEN recovery' = NoRecovery
       ELSE \E x \in recovery.todo :
                /\ \A y \in recovery.todo : x <= y
                /\ recovery' = [pc |-> IF Running(x) THEN "signal" ELSE "remove", todo |-> recovery.todo \ {x}, exec |-> x]
    /\ UNCHANGED <<engine, records, active, terminal>>

SignalExec ==
    /\ Alive /\ recovery.pc = "signal"
    /\ exec' = Signaled(recovery.exec) /\ recovery' = [recovery EXCEPT !.pc = "wait"]
    /\ UNCHANGED <<container, records, active, terminal>>

AwaitExec ==
    /\ Alive /\ recovery.pc = "wait"
    /\ \/ Stopped(recovery.exec) /\ recovery' = [recovery EXCEPT !.pc = "remove"]
       \/ Running(recovery.exec) /\ recovery' = NoRecovery
    /\ UNCHANGED <<engine, records, active, terminal>>

RemoveRecord ==
    /\ Alive /\ recovery.pc = "remove"
    /\ records' = records \ {recovery.exec}
    /\ recovery' = [recovery EXCEPT !.pc = "inspect", !.exec = 0]
    /\ UNCHANGED <<engine, active, terminal>>

-----------------------------------------------------------------------------
(* The container and the process                                           *)

\* The wrapper of the shell makes the marker, and its watchdog looks for it.
MakeMarker(x) ==
    /\ Running(x) /\ exec[x].marker = "none" /\ exec' = [exec EXCEPT ![x].marker = "made"]
    /\ UNCHANGED <<container, records, process, crashes, up>>

Watchdog(x) ==
    /\ Running(x) /\ exec[x].marker = "removed" /\ exec' = [exec EXCEPT ![x].status = "stopped"]
    /\ UNCHANGED <<container, records, process, crashes, up>>

\* The user, or the "exit" that a close writes.
ShellExits(x) ==
    /\ Running(x) /\ exec' = [exec EXCEPT ![x].status = "stopped"]
    /\ UNCHANGED <<container, records, process, crashes, up>>

\* A Deployment replaces the container, with the shells in it.
ReplaceContainer ==
    /\ container + 1 \in Containers /\ container' = container + 1
    /\ exec' = [x \in Execs |-> IF exec[x].status \in {"created", "running"} THEN [exec[x] EXCEPT !.status = "stopped"] ELSE exec[x]]
    /\ UNCHANGED <<records, process, crashes, up>>

AgentStops ==
    /\ up /\ crashes < MaxCrashes /\ crashes' = crashes + 1 /\ up' = FALSE
    /\ active' = {} /\ recovery' = NoRecovery
    /\ terminal' = [t \in Terminals |-> IF terminal[t].pc = "none" THEN NoTerminal ELSE [terminal[t] EXCEPT !.pc = "closed"]]
    /\ UNCHANGED <<engine, records>>

AgentStarts ==
    /\ ~up /\ up' = TRUE
    /\ UNCHANGED <<engine, records, process, crashes>>

OfTerminal(t) ==
    Open(t) \/ CreateExec(t) \/ RecordExec(t) \/ Attach(t) \/ InspectAgain(t) \/ Close(t) \/ Signal(t) \/ Await(t)
OfRecovery == StartRecovery \/ InspectExec \/ SignalExec \/ AwaitExec \/ RemoveRecord
OfShell(x) == MakeMarker(x) \/ Watchdog(x)

ExecutionNext ==
    \/ \E t \in Terminals : OfTerminal(t)
    \/ OfRecovery \/ ReplaceContainer \/ AgentStops \/ AgentStarts
    \/ \E x \in Execs : OfShell(x) \/ ShellExits(x)

\* Probes follow each other, the process is started again by systemd, the
\* shell's own processes run; no user has to leave a terminal.
ExecutionSpec ==
    /\ ExecutionInit /\ [][ExecutionNext]_executionVars
    /\ WF_executionVars(OfRecovery) /\ WF_executionVars(AgentStarts)
    /\ \A x \in Execs : WF_executionVars(OfShell(x))
    /\ \A t \in Terminals : WF_executionVars(CreateExec(t) \/ RecordExec(t) \/ Attach(t) \/ InspectAgain(t) \/ Signal(t) \/ Await(t))

-----------------------------------------------------------------------------
(* Properties                                                              *)

\* The Engine, the file and the process hold what the code lets them hold.
ExecutionTypeOK ==
    /\ exec \in [Execs -> [status : {"none", "created", "running", "stopped"}, marker : {"none", "made", "removed"},
                           container : {0} \cup Containers]]
    /\ records \subseteq Execs /\ active \subseteq Execs /\ Cardinality(records) <= MaximumTerminalExecutions
    /\ \A t \in Terminals : terminal[t].pc = "open" => terminal[t].exec \in active
    /\ recovery.pc \in {"idle", "inspect", "signal", "wait", "remove"} /\ recovery.exec \in {0} \cup Execs

\* A shell that runs in a container is named in the file, at every moment at
\* which the Agent can crash: its next process finds it
\* (OpenContainerTerminal, Close, RecoverContainerTerminals).
ShellIsRecorded == \A x \in Execs : Running(x) => x \in records

\* The recovery that a probe runs beside the terminals never touches the exec
\* of a stream that is open (terminalIsActive, markTerminalInactive).
LiveShellIsLeft == recovery.exec \notin {terminal[t].exec : t \in {u \in Terminals : terminal[u].pc \in {"attach", "inspect", "open"}}} \/ recovery.exec = 0

\* A shell that nobody is attached to stops, also when the Agent crashed or
\* the wait of its close timed out before the marker was there (Close,
\* RecoverContainerTerminals).
AbandonedShellStops == \A x \in Execs : (Running(x) /\ Inactive(x)) ~> ~Running(x)
=============================================================================
