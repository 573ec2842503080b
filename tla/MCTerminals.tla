----------------------------- MODULE MCTerminals -----------------------------
(***************************************************************************)
(* One run for the end of terminals: the frames of a connection and the    *)
(* shells behind it, the sessions of the users, and the execs of the       *)
(* Agent.  "part" says which of them moves, and only its fairness is       *)
(* assumed; the others stay as they begin.                                 *)
(***************************************************************************)
EXTENDS AgentTerminals

CONSTANT t1

\* One terminal prints enough to overrun its user and go on.
MoreOfFirst(t) == IF t = t1 THEN 3 ELSE 1

VARIABLES
    part,
    session, creating, handler, terminator, retirement, parent, allowed, reachable, \* Sessions
    exec, container, records, active, terminal, recovery, crashes, process     \* TerminalExecutions

Streams == INSTANCE Sessions WITH
    Sessions <- {1}, Handlers <- {1}, Slots <- {1}, Kinds <- {"container", "host"}

Shells == INSTANCE TerminalExecutions WITH
    Terminals <- {"first"}, Execs <- 1..2, Containers <- {1, 2},
    MaximumTerminalExecutions <- 2, MaxCrashes <- 1, LostAttach <- FALSE, up <- process

terminalVars == vars
streamVars == <<session, creating, handler, terminator, retirement, parent, allowed, reachable>>
shellVars == <<exec, container, records, active, terminal, recovery, crashes, process>>
terminalsVars == <<part, terminalVars, streamVars, shellVars>>

TerminalsInit ==
    /\ part \in {"terminals", "streams", "shells"}
    /\ Init /\ Streams!SessionsInit /\ Shells!ExecutionInit

TerminalSteps == /\ part = "terminals" /\ Next
                 /\ UNCHANGED <<part, streamVars, shellVars>>
StreamSteps == /\ part = "streams" /\ Streams!SessionsNext
               /\ UNCHANGED <<part, terminalVars, shellVars>>
ShellSteps == /\ part = "shells" /\ Shells!ExecutionNext
              /\ UNCHANGED <<part, terminalVars, streamVars>>

TerminalsNext == TerminalSteps \/ StreamSteps \/ ShellSteps

-----------------------------------------------------------------------------
(* The fairness of each part, as its module states it.                     *)

TerminalFairness ==
    /\ WF_terminalVars(part = "terminals" /\ CompleteTerminalFrame)
    /\ WF_terminalVars(part = "terminals" /\ HandleOpen)
    /\ WF_terminalVars(part = "terminals" /\ HandleFrame)
    /\ WF_terminalVars(part = "terminals" /\ WriteFails)
    /\ WF_terminalVars(part = "terminals" /\ TerminateLocked)
    /\ WF_terminalVars(part = "terminals" /\ CloseContainerTerminals)
    /\ \A t \in Terminals : /\ WF_terminalVars(part = "terminals" /\ Start(t))
                            /\ WF_terminalVars(part = "terminals" /\ Canceled(t))

StreamFairness ==
    /\ WF_streamVars(part = "streams" /\ Streams!Serve(1))
    /\ WF_streamVars(part = "streams" /\ Streams!GracePeriodElapses(1))
    /\ WF_streamVars(part = "streams" /\ Streams!TicketExpires(1))
    /\ WF_streamVars(part = "streams" /\ Streams!TerminateSession)
    /\ WF_streamVars(part = "streams" /\ Streams!Converge)

ShellFairness ==
    /\ WF_shellVars(part = "shells" /\ Shells!OfRecovery)
    /\ WF_shellVars(part = "shells" /\ Shells!AgentStarts)
    /\ \A x \in 1..2 : WF_shellVars(part = "shells" /\ Shells!OfShell(x))
    /\ WF_shellVars(part = "shells" /\ (\/ Shells!CreateExec("first") \/ Shells!RecordExec("first")
                                        \/ Shells!Attach("first") \/ Shells!InspectAgain("first")
                                        \/ Shells!Signal("first") \/ Shells!Await("first")))

TerminalsSpec ==
    /\ TerminalsInit /\ [][TerminalsNext]_terminalsVars
    /\ TerminalFairness /\ StreamFairness /\ ShellFairness

-----------------------------------------------------------------------------
(* Properties of the parts.                                                *)

\* A user whose session was ended or whose permission was revoked while bytes
\* flow loses the stream (terminal/service/wss.go, ReviewConnectedSession).
StreamIsCut == Streams!StreamIsCut

\* A shell ends after its user's session, over the connection
\* (agent/control/client.go) and when the Agent has crashed or left its exec
\* behind (agent/runtime/docker_terminal.go).
ShellsEnd == ShellEndsWithSession /\ Shells!AbandonedShellStops
=============================================================================
