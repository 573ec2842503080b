--------------------------- MODULE AgentHostProofs ---------------------------
(***************************************************************************)
(* The Agent's host for any number of its members: the shells of container *)
(* terminals, the managed ingress, and with HostPartsProofs the union.     *)
(***************************************************************************)
EXTENDS HostPartsProofs

-----------------------------------------------------------------------------
(* The shells.  A terminal holds its exec from the create to the end of    *)
(* its stop; while it may still start or use the shell the exec is active, *)
(* so that the recovery, which takes inactive records only, works on other *)
(* execs: none of those can start any more.                                *)

Statuses == {"none", "created", "running", "stopped"}
Markers == {"none", "made", "removed"}
ExecStates == [status : Statuses, marker : Markers, container : {0} \cup Containers]
Holding == {"record", "attach", "inspect", "open", "signal", "abort", "wait", "aborted"}
Using == {"record", "attach", "inspect", "open", "abort", "aborted"}
TerminalStates == [pc : Holding \cup {"none", "create", "closed"}, exec : {0} \cup Execs,
                   container : {0} \cup Containers, shells : Nat]
RecoveryStates == [pc : {"idle", "inspect", "signal", "wait", "remove"}, todo : SUBSET Execs,
                   exec : {0} \cup Execs]

ExecutionTypes ==
    /\ exec \in [Execs -> ExecStates]
    /\ container \in Containers
    /\ records \subseteq Execs
    /\ active \subseteq Execs
    /\ terminal \in [Terminals -> TerminalStates]
    /\ recovery \in RecoveryStates

\* A terminal that has an exec, and what the exec may be before its shell was
\* attached to.
TerminalOK(t) ==
    LET x == terminal[t].exec IN
    /\ terminal[t].pc \in Holding => x \in Execs /\ exec[x].status # "none"
    /\ terminal[t].pc \in {"record", "attach"} => ~Running(x)
    /\ terminal[t].pc = "attach" => x \in records
    /\ terminal[t].pc \in Using => x \in active

\* An exec is held by one terminal.
OneHolder ==
    \A t, u \in Terminals :
        terminal[t].pc \in Holding /\ terminal[u].pc \in Holding /\ terminal[t].exec = terminal[u].exec
            => t = u

\* The recovery works on execs that no stream of this process can start.
RecoveryOK ==
    /\ \A x \in Execs : x \in recovery.todo \/ x = recovery.exec => x \notin active /\ exec[x].status # "none"
    /\ recovery.pc \in {"signal", "wait", "remove"} => recovery.exec \in Execs
    /\ recovery.pc = "remove" => ~Running(recovery.exec)

RecordedExists == \A x \in records : exec[x].status # "none"

ShellInv ==
    /\ ExecutionTypes
    /\ \A t \in Terminals : TerminalOK(t)
    /\ OneHolder
    /\ RecoveryOK
    /\ RecordedExists
    /\ Cardinality(records) <= MaximumTerminalExecutions
    /\ ShellIsRecorded

\* A new Agent has no shell.
LEMMA ShellsBegin == ExecutionInit => ShellInv
  <1> SUFFICES ASSUME ExecutionInit PROVE ShellInv
    OBVIOUS
  <1>1. ExecutionTypes
    BY ExecutionAssumption
    DEF ExecutionInit, ExecutionTypes, ExecStates, Statuses, Markers, TerminalStates, RecoveryStates, NoTerminal, NoRecovery
  <1>2. \A t \in Terminals : terminal[t].pc = "none"
    BY DEF ExecutionInit, NoTerminal
  <1>3. (\A t \in Terminals : TerminalOK(t)) /\ OneHolder
    BY <1>2 DEF TerminalOK, OneHolder, Holding, Using
  <1>4. RecoveryOK
    BY ExecutionAssumption DEF ExecutionInit, RecoveryOK, NoRecovery
  <1>5. RecordedExists /\ ShellIsRecorded /\ Cardinality(records) <= MaximumTerminalExecutions
    BY FS_EmptySet, ExecutionAssumption DEF ExecutionInit, RecordedExists, ShellIsRecorded, Running
  <1> QED BY <1>1, <1>3, <1>4, <1>5 DEF ShellInv

\* A smaller file is within the bound too.
LEMMA FewerRecords ==
    ASSUME ShellInv, NEW S, S \subseteq records
    PROVE  Cardinality(S) <= MaximumTerminalExecutions
  <1>1. IsFiniteSet(records)
    BY ExecutionAssumption, FS_Subset DEF ShellInv, ExecutionTypes
  <1>2. Cardinality(S) <= Cardinality(records) /\ Cardinality(S) \in Nat /\ Cardinality(records) \in Nat
    BY <1>1, FS_Subset, FS_CardinalityType
  <1> QED BY <1>2, ExecutionAssumption DEF ShellInv

\* The signal changes no status.
LEMMA SignalKeepsStatus ==
    ASSUME ExecutionTypes, NEW x \in Execs
    PROVE  /\ Signaled(x) \in [Execs -> ExecStates]
           /\ \A y \in Execs : Signaled(x)[y].status = exec[y].status
  BY DEF ExecutionTypes, Signaled, ExecStates, Markers

\* A step of one terminal.
LEMMA Goes1 ==
    ASSUME ExecutionTypes, NEW t \in Terminals, NEW pc \in Holding \cup {"none", "create", "closed"}, Goes(t, pc)
    PROVE  /\ terminal' \in [Terminals -> TerminalStates]
           /\ terminal'[t].pc = pc /\ terminal'[t].exec = terminal[t].exec
           /\ \A u \in Terminals \ {t} : terminal'[u] = terminal[u]
  BY DEF ExecutionTypes, Goes, TerminalStates

LEMMA NextShell1 ==
    ASSUME ExecutionTypes, NEW t \in Terminals, NextShell(t)
    PROVE  /\ terminal' \in [Terminals -> TerminalStates]
           /\ terminal'[t].pc \in {"create", "closed"}
           /\ \A u \in Terminals \ {t} : terminal'[u] = terminal[u]
  <1>1. terminal[t] \in TerminalStates
    BY DEF ExecutionTypes
  <1>2. PICK v : v = [pc |-> "create", exec |-> 0, container |-> terminal[t].container,
                      shells |-> terminal[t].shells + 1]
    OBVIOUS
  <1>3. PICK w : w = [terminal[t] EXCEPT !.pc = "closed"]
    OBVIOUS
  <1>4. v \in TerminalStates /\ v.pc = "create"
    BY <1>1, <1>2 DEF TerminalStates
  <1>5. w \in TerminalStates /\ w.pc = "closed"
    BY <1>1, <1>3 DEF TerminalStates
  <1>7. terminal' = [terminal EXCEPT ![t] = v] \/ terminal' = [terminal EXCEPT ![t] = w]
    <2>1. CASE terminal[t].shells < 3
      BY <2>1, <1>2 DEF NextShell
    <2>2. CASE ~(terminal[t].shells < 3)
      BY <2>2, <1>3 DEF NextShell
    <2> QED BY <2>1, <2>2
  <1> QED BY <1>4, <1>5, <1>7 DEF ExecutionTypes

\* What a step of terminal t has to keep: the others hold what they held, an
\* exec that was made stays made, and none starts that is not recorded.
Careful(t) ==
    /\ ExecutionTypes' /\ OneHolder' /\ TerminalOK(t)'
    /\ \A u \in Terminals \ {t} : terminal'[u] = terminal[u]
    /\ \A x \in Execs : exec[x].status # "none" => exec'[x].status # "none"
    /\ \A x \in Execs : exec'[x].status = "running" =>
           /\ x \in records'
           /\ \/ exec[x].status = "running"
              \/ terminal[t].pc \in Holding /\ x = terminal[t].exec /\ x \in active
    /\ \A x \in Execs : x \in active' => x \in active \/ exec[x].status = "none"
    /\ \A x \in active \ active' : terminal[t].pc \in Holding /\ x = terminal[t].exec
    /\ \A x \in records \ records' : terminal[t].pc \in Holding /\ x = terminal[t].exec
    /\ \A x \in records' : exec'[x].status # "none"
    /\ Cardinality(records') <= MaximumTerminalExecutions
    /\ UNCHANGED recovery

LEMMA TerminalStep ==
    ASSUME ShellInv, NEW t \in Terminals, Careful(t)
    PROVE  ShellInv'
  <1>1. \A u \in Terminals : TerminalOK(u)'
    <2> SUFFICES ASSUME NEW u \in Terminals \ {t} PROVE TerminalOK(u)'
      BY DEF Careful
    <2>1. terminal'[u] = terminal[u] /\ TerminalOK(u)
      BY DEF ShellInv, Careful
    <2>2. terminal[u].pc \in Holding =>
              /\ terminal[u].exec \in Execs /\ exec'[terminal[u].exec].status # "none"
              /\ (terminal[t].pc \in Holding => terminal[u].exec # terminal[t].exec)
      BY <2>1 DEF TerminalOK, OneHolder, ShellInv, Careful
    <2>3. terminal[u].pc \in {"record", "attach"} => ~Running(terminal[u].exec)'
      BY <2>1, <2>2 DEF TerminalOK, Running, Holding, Careful
    <2>4. terminal[u].pc = "attach" => terminal[u].exec \in records'
      BY <2>1, <2>2 DEF TerminalOK, Holding, Careful
    <2>5. terminal[u].pc \in Using => terminal[u].exec \in active'
      BY <2>1, <2>2 DEF TerminalOK, Holding, Using, Careful
    <2> QED BY <2>1, <2>2, <2>3, <2>4, <2>5 DEF TerminalOK, Running
  <1>2. RecoveryOK'
    <2>1. RecoveryOK
      BY DEF ShellInv
    <2>2. \A x \in Execs : x \in recovery.todo \/ x = recovery.exec => x \notin active' /\ exec'[x].status # "none"
      BY <2>1 DEF RecoveryOK, Careful
    <2>3. recovery.pc = "remove" => ~Running(recovery.exec)'
      BY <2>1 DEF RecoveryOK, Running, Careful
    <2> QED BY <2>1, <2>2, <2>3 DEF RecoveryOK, Running, Careful
  <1>3. RecordedExists' /\ ShellIsRecorded'
    BY DEF RecordedExists, ShellIsRecorded, Running, Careful
  <1> QED BY <1>1, <1>2, <1>3 DEF ShellInv, Careful

LEMMA OpenShell ==
    ASSUME ShellInv, NEW t \in Terminals, Open(t) PROVE ShellInv'
  <1>1. PICK v : v = [pc |-> "create", exec |-> 0, container |-> container, shells |-> 1]
    OBVIOUS
  <1>2. v \in TerminalStates /\ v.pc = "create"
    BY <1>1 DEF ShellInv, ExecutionTypes, TerminalStates
  <1>3. terminal' \in [Terminals -> TerminalStates] /\ terminal'[t] = v
        /\ \A u \in Terminals \ {t} : terminal'[u] = terminal[u]
    BY <1>1, <1>2 DEF ShellInv, ExecutionTypes, Open
  <1>4. UNCHANGED <<exec, container, records, active, recovery>>
    BY DEF Open, engine
  <1>5. ExecutionTypes'
    BY <1>3, <1>4 DEF ShellInv, ExecutionTypes
  <1>6. OneHolder' /\ TerminalOK(t)'
    BY <1>2, <1>3 DEF ShellInv, OneHolder, TerminalOK, Holding, Using
  <1>7. \A x \in Execs : Running(x)' <=> Running(x)
    BY <1>4 DEF Running
  <1>8. /\ \A x \in records : exec[x].status # "none"
        /\ \A x \in Execs : Running(x) => x \in records
        /\ Cardinality(records) <= MaximumTerminalExecutions
    BY DEF ShellInv, RecordedExists, ShellIsRecorded
  <1>9. Careful(t)
    BY <1>3, <1>4, <1>5, <1>6, <1>7, <1>8 DEF Careful, Running
  <1> QED BY <1>9, TerminalStep

LEMMA CreateShell ==
    ASSUME ShellInv, NEW t \in Terminals, CreateExec(t) PROVE ShellInv'
  <1>1. /\ terminal[t].pc = "create" /\ UNCHANGED <<container, records, recovery>>
        /\ ExecutionTypes
        /\ \A x \in records : x \in Execs /\ exec[x].status # "none"
        /\ \A x \in Execs : Running(x) => x \in records
        /\ Cardinality(records) <= MaximumTerminalExecutions
    BY DEF CreateExec, ShellInv, RecordedExists, ShellIsRecorded, ExecutionTypes
  <1>2. ASSUME NEW x \in Execs, exec[x].status = "none",
               exec' = [exec EXCEPT ![x] = [status |-> "created", marker |-> "none", container |-> container]],
               active' = active \cup {x},
               terminal' = [terminal EXCEPT ![t].pc = "record", ![t].exec = x]
        PROVE  ShellInv'
    <2>1. PICK e : e = [status |-> "created", marker |-> "none", container |-> container]
      OBVIOUS
    <2>2. e \in ExecStates /\ e.status = "created"
      BY <1>1, <2>1 DEF ExecutionTypes, ExecStates, Statuses, Markers
    <2>3. exec' \in [Execs -> ExecStates] /\ exec'[x] = e /\ \A y \in Execs \ {x} : exec'[y] = exec[y]
      BY <1>1, <1>2, <2>1, <2>2 DEF ExecutionTypes
    <2>4. terminal' \in [Terminals -> TerminalStates] /\ terminal'[t].pc = "record" /\ terminal'[t].exec = x
      BY <1>1, <1>2 DEF ExecutionTypes, TerminalStates, Holding
    <2>5. \A u \in Terminals \ {t} : terminal'[u] = terminal[u]
      BY <1>1, <1>2 DEF ExecutionTypes
    <2>6. ExecutionTypes'
      BY <1>1, <1>2, <2>3, <2>4 DEF ExecutionTypes
    <2>7. \A y \in Execs : Running(y)' => Running(y)
      BY <2>2, <2>3 DEF Running
    <2>8. TerminalOK(t)'
      BY <1>2, <2>2, <2>3, <2>4 DEF TerminalOK, Running
    <2>9. OneHolder'
      <3>1. \A u \in Terminals : terminal[u].pc \in Holding => terminal[u].exec # x
        BY <1>2 DEF ShellInv, TerminalOK
      <3> QED BY <3>1, <2>4, <2>5 DEF OneHolder, ShellInv
    <2>10. \A y \in Execs : exec[y].status # "none" => exec'[y].status # "none"
      BY <2>2, <2>3
    <2>11. \A y \in records : exec'[y].status # "none"
      BY <1>1, <2>10
    <2>12. Careful(t)
      BY <1>1, <1>2, <2>5, <2>6, <2>7, <2>8, <2>9, <2>10, <2>11 DEF Careful, Running
    <2> QED BY <2>12, TerminalStep
  <1>3. ASSUME NextShell(t), UNCHANGED <<exec, active>>
        PROVE  ShellInv'
    <2>1. /\ terminal' \in [Terminals -> TerminalStates]
          /\ terminal'[t].pc \in {"create", "closed"}
          /\ \A u \in Terminals \ {t} : terminal'[u] = terminal[u]
      BY <1>1, <1>3, NextShell1
    <2>2. ExecutionTypes'
      BY <1>1, <1>3, <2>1 DEF ExecutionTypes
    <2>3. OneHolder' /\ TerminalOK(t)'
      BY <2>1 DEF ShellInv, OneHolder, TerminalOK, Holding, Using
    <2>4. \A x \in Execs : Running(x)' <=> Running(x)
      BY <1>3 DEF Running
    <2>5. Careful(t)
      BY <1>1, <1>3, <2>1, <2>2, <2>3, <2>4 DEF Careful, Running
    <2> QED BY <2>5, TerminalStep
  <1> QED BY <1>2, <1>3 DEF CreateExec

\* What the invariant says of the exec that terminal t holds.
LEMMA Held ==
    ASSUME ShellInv, NEW t \in Terminals, terminal[t].pc \in Holding
    PROVE  /\ ExecutionTypes
           /\ terminal[t].exec \in Execs /\ exec[terminal[t].exec].status # "none"
           /\ \A x \in records : x \in Execs /\ exec[x].status # "none"
           /\ \A x \in Execs : exec[x].status = "running" => x \in records
           /\ Cardinality(records) <= MaximumTerminalExecutions
           /\ OneHolder
           /\ TerminalOK(t)
  BY DEF ShellInv, TerminalOK, RecordedExists, ShellIsRecorded, Running, ExecutionTypes

LEMMA RecordShell ==
    ASSUME ShellInv, NEW t \in Terminals, RecordExec(t) PROVE ShellInv'
  <1>1. PICK x : x = terminal[t].exec
    OBVIOUS
  <1>2. terminal[t].pc = "record" /\ UNCHANGED <<exec, container, recovery>>
    BY DEF RecordExec, engine
  <1>3. /\ ExecutionTypes /\ OneHolder /\ TerminalOK(t)
        /\ x \in Execs /\ exec[x].status # "none" /\ exec[x].status # "running" /\ x \in active
        /\ \A y \in records : y \in Execs /\ exec[y].status # "none"
        /\ \A y \in Execs : exec[y].status = "running" => y \in records
        /\ Cardinality(records) <= MaximumTerminalExecutions
    BY <1>1, <1>2, Held DEF Holding, TerminalOK, Running, Using
  <1>4. CASE Cardinality(records) < MaximumTerminalExecutions
    <2>1. records' = records \cup {x} /\ Goes(t, "attach") /\ UNCHANGED active
      BY <1>1, <1>4 DEF RecordExec
    <2>2. /\ terminal' \in [Terminals -> TerminalStates]
          /\ terminal'[t].pc = "attach" /\ terminal'[t].exec = x
          /\ \A u \in Terminals \ {t} : terminal'[u] = terminal[u]
      BY <1>1, <1>3, <2>1, Goes1 DEF Holding
    <2>3. Cardinality(records') <= MaximumTerminalExecutions
      <3>1. IsFiniteSet(records)
        BY <1>3, ExecutionAssumption, FS_Subset DEF ExecutionTypes
      <3>2. Cardinality(records) \in Nat
        BY <3>1, FS_CardinalityType
      <3>3. Cardinality(records') = Cardinality(records) \/ Cardinality(records') = Cardinality(records) + 1
        BY <3>1, <2>1, FS_AddElement
      <3> QED BY <1>4, <3>2, <3>3, ExecutionAssumption
    <2>4. ExecutionTypes'
      BY <1>2, <1>3, <2>1, <2>2 DEF ExecutionTypes
    <2>5. OneHolder' /\ TerminalOK(t)'
      BY <1>1, <1>2, <1>3, <2>1, <2>2 DEF OneHolder, TerminalOK, Running, Holding
    <2>6. Careful(t)
      BY <1>1, <1>2, <1>3, <2>1, <2>2, <2>3, <2>4, <2>5 DEF Careful
    <2> QED BY <2>6, TerminalStep
  <1>5. CASE ~(Cardinality(records) < MaximumTerminalExecutions)
    <2>1. active' = active \ {x} /\ Goes(t, "closed") /\ UNCHANGED records
      BY <1>1, <1>5 DEF RecordExec
    <2>2. /\ terminal' \in [Terminals -> TerminalStates]
          /\ terminal'[t].pc = "closed" /\ terminal'[t].exec = x
          /\ \A u \in Terminals \ {t} : terminal'[u] = terminal[u]
      BY <1>1, <1>3, <2>1, Goes1
    <2>3. ExecutionTypes'
      BY <1>2, <1>3, <2>1, <2>2 DEF ExecutionTypes
    <2>4. OneHolder' /\ TerminalOK(t)'
      BY <1>3, <2>2 DEF OneHolder, TerminalOK, Holding, Using
    <2>5. Careful(t)
      BY <1>1, <1>2, <1>3, <2>1, <2>2, <2>3, <2>4 DEF Careful, Holding
    <2> QED BY <2>5, TerminalStep
  <1> QED BY <1>4, <1>5

\* An attach that fails forgets the exec: no shell may have been started by it.
LEMMA AttachShell ==
    ASSUME ~LostAttach, ShellInv, NEW t \in Terminals, Attach(t) PROVE ShellInv'
  <1>1. PICK x : x = terminal[t].exec
    OBVIOUS
  <1>2. terminal[t].pc = "attach" /\ UNCHANGED <<container, recovery>>
    BY DEF Attach
  <1>3. /\ ExecutionTypes /\ OneHolder /\ TerminalOK(t)
        /\ x \in Execs /\ exec[x].status # "none" /\ exec[x].status # "running"
        /\ x \in active /\ x \in records
        /\ \A y \in records : y \in Execs /\ exec[y].status # "none"
        /\ \A y \in Execs : exec[y].status = "running" => y \in records
        /\ Cardinality(records) <= MaximumTerminalExecutions
    BY <1>1, <1>2, Held DEF Holding, TerminalOK, Running, Using
  <1>4. ASSUME exec' = [exec EXCEPT ![x].status = "running"], Goes(t, "inspect"), UNCHANGED <<records, active>>
        PROVE  ShellInv'
    <2>1. /\ exec' \in [Execs -> ExecStates] /\ exec'[x].status = "running"
          /\ \A y \in Execs \ {x} : exec'[y] = exec[y]
      BY <1>3, <1>4 DEF ExecutionTypes, ExecStates, Statuses
    <2>2. /\ terminal' \in [Terminals -> TerminalStates]
          /\ terminal'[t].pc = "inspect" /\ terminal'[t].exec = x
          /\ \A u \in Terminals \ {t} : terminal'[u] = terminal[u]
      BY <1>1, <1>3, <1>4, Goes1 DEF Holding
    <2>3. ExecutionTypes'
      BY <1>2, <1>3, <1>4, <2>1, <2>2 DEF ExecutionTypes
    <2>4. OneHolder' /\ TerminalOK(t)'
      BY <1>1, <1>2, <1>3, <1>4, <2>1, <2>2 DEF OneHolder, TerminalOK, Running, Holding
    <2>5. Careful(t)
      BY <1>1, <1>2, <1>3, <1>4, <2>1, <2>2, <2>3, <2>4 DEF Careful, Holding
    <2> QED BY <2>5, TerminalStep
  <1>5. ASSUME exec' = exec, records' = records \ {x}, active' = active \ {x}, NextShell(t)
        PROVE  ShellInv'
    <2>1. /\ terminal' \in [Terminals -> TerminalStates]
          /\ terminal'[t].pc \in {"create", "closed"}
          /\ \A u \in Terminals \ {t} : terminal'[u] = terminal[u]
      BY <1>3, <1>5, NextShell1
    <2>2. ExecutionTypes'
      BY <1>2, <1>3, <1>5, <2>1 DEF ExecutionTypes
    <2>3. OneHolder' /\ TerminalOK(t)'
      BY <1>3, <2>1 DEF OneHolder, TerminalOK, Holding, Using
    <2>4. Cardinality(records') <= MaximumTerminalExecutions
      BY <1>5, FewerRecords
    <2>5. Careful(t)
      BY <1>1, <1>2, <1>3, <1>5, <2>1, <2>2, <2>3, <2>4 DEF Careful, Holding
    <2> QED BY <2>5, TerminalStep
  <1> QED BY <1>1, <1>4, <1>5 DEF Attach

\* A terminal that goes on, leaves its stream, signals its shell or has waited
\* for it; only an exec that does not run loses its record.
LEMMA ShellEnds ==
    ASSUME ShellInv, NEW t \in Terminals,
           InspectAgain(t) \/ Close(t) \/ Signal(t) \/ Await(t)
    PROVE  ShellInv'
  <1>1. PICK x : x = terminal[t].exec
    OBVIOUS
  <1>2. /\ terminal[t].pc \in {"inspect", "open", "signal", "abort", "wait", "aborted"}
        /\ UNCHANGED <<container, recovery>>
    BY DEF InspectAgain, Close, Signal, Await, engine
  <1>3. /\ ExecutionTypes /\ OneHolder /\ TerminalOK(t)
        /\ x \in Execs /\ exec[x].status # "none"
        /\ \A y \in records : y \in Execs /\ exec[y].status # "none"
        /\ \A y \in Execs : exec[y].status = "running" => y \in records
        /\ Cardinality(records) <= MaximumTerminalExecutions
    BY <1>1, <1>2, Held DEF Holding
  <1>4. /\ exec' \in [Execs -> ExecStates]
        /\ \A y \in Execs : exec'[y].status = exec[y].status
    <2>1. CASE Signal(t)
      BY <2>1, <1>1, <1>3, SignalKeepsStatus DEF Signal
    <2>2. CASE ~Signal(t)
      BY <2>2, <1>3 DEF InspectAgain, Close, Await, engine, ExecutionTypes
    <2> QED BY <2>1, <2>2
  <1>5. PICK pc \in {"open", "abort", "signal", "aborted", "wait", "closed"} :
            /\ Goes(t, pc)
            /\ pc \in {"open", "abort"} => terminal[t].pc = "inspect" /\ active' = active
            /\ pc = "aborted" => terminal[t].pc = "abort" /\ active' = active
    BY <1>1 DEF InspectAgain, Close, Signal, Await
  <1>6. /\ terminal' \in [Terminals -> TerminalStates]
        /\ terminal'[t].pc = pc /\ terminal'[t].exec = x
        /\ \A u \in Terminals \ {t} : terminal'[u] = terminal[u]
    BY <1>1, <1>3, <1>5, Goes1 DEF Holding
  <1>7. /\ active' = active \/ active' = active \ {x}
        /\ \/ records' = records
           \/ exec[x].status # "running" /\ records' = records \ {x}
    BY <1>1 DEF InspectAgain, Close, Signal, Await, Stopped, Running
  <1>8. ExecutionTypes'
    BY <1>2, <1>3, <1>4, <1>6, <1>7 DEF ExecutionTypes
  <1>9. OneHolder'
    BY <1>1, <1>2, <1>3, <1>6 DEF OneHolder, Holding
  <1>10. TerminalOK(t)'
    BY <1>1, <1>2, <1>3, <1>4, <1>5, <1>6 DEF TerminalOK, Holding, Using
  <1>11. Cardinality(records') <= MaximumTerminalExecutions
    BY <1>7, FewerRecords
  <1>12. \A y \in Execs : exec'[y].status = "running" => y \in records'
    BY <1>3, <1>4, <1>7
  <1>13. Careful(t)
    BY <1>1, <1>2, <1>3, <1>4, <1>6, <1>7, <1>8, <1>9, <1>10, <1>11, <1>12 DEF Careful, Holding
  <1> QED BY <1>13, TerminalStep

\* The probe: it takes inactive records only, and forgets one that it has seen
\* stopped.
LEMMA RecoveryStep ==
    ASSUME ShellInv, OfRecovery PROVE ShellInv'
  <1>1. /\ ExecutionTypes /\ OneHolder /\ RecoveryOK /\ recovery \in RecoveryStates
        /\ \A t \in Terminals : TerminalOK(t)
        /\ \A y \in records : y \in Execs /\ exec[y].status # "none"
        /\ \A y \in Execs : exec[y].status = "running" => y \in records
        /\ Cardinality(records) <= MaximumTerminalExecutions
    BY DEF ShellInv, RecordedExists, ShellIsRecorded, Running, ExecutionTypes
  <1>2. UNCHANGED <<container, active, terminal>>
    BY DEF OfRecovery, StartRecovery, InspectExec, SignalExec, AwaitExec, RemoveRecord, engine
  <1>3. /\ exec' \in [Execs -> ExecStates]
        /\ \A y \in Execs : exec'[y].status = exec[y].status
    <2>1. CASE SignalExec
      <3>1. recovery.exec \in Execs
        BY <1>1, <2>1 DEF SignalExec, RecoveryOK
      <3> QED BY <3>1, <2>1, <1>1, SignalKeepsStatus DEF SignalExec
    <2>2. CASE ~SignalExec
      BY <2>2, <1>1 DEF OfRecovery, StartRecovery, InspectExec, AwaitExec, RemoveRecord, engine, ExecutionTypes
    <2> QED BY <2>1, <2>2
  <1>4. \/ records' = records
        \/ /\ recovery.pc = "remove" /\ recovery.exec \in Execs /\ exec[recovery.exec].status # "running"
           /\ recovery.exec \notin active /\ records' = records \ {recovery.exec}
    BY <1>1 DEF OfRecovery, StartRecovery, InspectExec, SignalExec, AwaitExec, RemoveRecord, RecoveryOK, Running
  <1>5. /\ recovery' \in RecoveryStates
        /\ \A x \in Execs : x \in recovery'.todo \/ x = recovery'.exec => x \notin active /\ exec[x].status # "none"
        /\ recovery'.pc \in {"signal", "wait", "remove"} => recovery'.exec \in Execs
        /\ recovery'.pc = "remove" => exec[recovery'.exec].status # "running"
    <2>1. CASE StartRecovery
      <3>1. PICK todo : todo = {x \in records : Inactive(x)}
        OBVIOUS
      <3>2. todo \subseteq Execs /\ \A x \in todo : x \notin active /\ exec[x].status # "none"
        BY <3>1, <1>1 DEF Inactive
      <3>3. recovery' = [pc |-> "inspect", todo |-> todo, exec |-> 0]
        BY <2>1, <3>1 DEF StartRecovery
      <3> QED BY <3>2, <3>3, ExecutionAssumption DEF RecoveryStates
    <2>2. CASE InspectExec
      <3>1. CASE recovery.todo = {}
        <4>1. recovery' = NoRecovery
          BY <2>2, <3>1 DEF InspectExec
        <4> QED BY <4>1, ExecutionAssumption DEF RecoveryStates, NoRecovery
      <3>2. CASE recovery.todo # {}
        <4>1. PICK x \in recovery.todo :
                  recovery' = [pc |-> IF Running(x) THEN "signal" ELSE "remove", todo |-> recovery.todo \ {x}, exec |-> x]
          BY <2>2, <3>2 DEF InspectExec
        <4>2. recovery.todo \subseteq Execs /\ x \in Execs
          BY <1>1 DEF RecoveryStates
        <4>3. /\ recovery'.todo = recovery.todo \ {x} /\ recovery'.exec = x
              /\ recovery'.pc \in {"signal", "remove"}
              /\ recovery'.pc = "remove" => ~Running(x)
          BY <4>1
        <4>4. recovery' \in RecoveryStates
          BY <4>1, <4>2 DEF RecoveryStates
        <4> QED BY <4>2, <4>3, <4>4, <1>1 DEF RecoveryOK, Running
      <3> QED BY <3>1, <3>2
    <2>3. CASE SignalExec
      <3>1. recovery.pc = "signal" /\ recovery' = [recovery EXCEPT !.pc = "wait"]
        BY <2>3 DEF SignalExec
      <3>2. recovery' \in RecoveryStates /\ recovery'.pc = "wait" /\ recovery'.todo = recovery.todo
            /\ recovery'.exec = recovery.exec
        BY <3>1, <1>1 DEF RecoveryStates
      <3> QED BY <3>1, <3>2, <1>1 DEF RecoveryOK
    <2>4. CASE AwaitExec
      <3>1. CASE recovery' = NoRecovery
        BY <3>1, ExecutionAssumption DEF RecoveryStates, NoRecovery
      <3>2. CASE recovery' # NoRecovery
        <4>1. /\ recovery.pc = "wait" /\ recovery' = [recovery EXCEPT !.pc = "remove"]
              /\ exec[recovery.exec].status # "running"
          BY <2>4, <3>2 DEF AwaitExec, Stopped, Running
        <4>2. recovery' \in RecoveryStates /\ recovery'.pc = "remove" /\ recovery'.todo = recovery.todo
              /\ recovery'.exec = recovery.exec
          BY <4>1, <1>1 DEF RecoveryStates
        <4> QED BY <4>1, <4>2, <1>1 DEF RecoveryOK
      <3> QED BY <3>1, <3>2
    <2>5. CASE RemoveRecord
      <3>1. recovery' = [recovery EXCEPT !.pc = "inspect", !.exec = 0]
        BY <2>5 DEF RemoveRecord
      <3>2. recovery' \in RecoveryStates
        BY <3>1, <1>1 DEF RecoveryStates
      <3>3. recovery'.pc = "inspect" /\ recovery'.todo = recovery.todo /\ recovery'.exec = 0
        BY <3>1, <1>1 DEF RecoveryStates
      <3> QED BY <3>2, <3>3, <1>1, ExecutionAssumption DEF RecoveryOK
    <2> QED BY <2>1, <2>2, <2>3, <2>4, <2>5 DEF OfRecovery
  <1>6. ExecutionTypes'
    BY <1>1, <1>2, <1>3, <1>4, <1>5 DEF ExecutionTypes
  <1>7. RecoveryOK'
    BY <1>2, <1>3, <1>5 DEF RecoveryOK, Running
  <1>8. \A t \in Terminals : TerminalOK(t)'
    <2> SUFFICES ASSUME NEW t \in Terminals PROVE TerminalOK(t)'
      OBVIOUS
    <2>1. TerminalOK(t)
      BY <1>1
    <2>2. terminal[t].pc = "attach" => terminal[t].exec \in active
      BY <2>1 DEF TerminalOK, Using
    <2> QED BY <2>1, <2>2, <1>2, <1>3, <1>4 DEF TerminalOK, Running, Holding
  <1>9. OneHolder'
    BY <1>1, <1>2 DEF OneHolder
  <1>10. RecordedExists' /\ ShellIsRecorded'
    BY <1>1, <1>3, <1>4 DEF RecordedExists, ShellIsRecorded, Running
  <1>11. Cardinality(records') <= MaximumTerminalExecutions
    BY <1>4, FewerRecords
  <1> QED BY <1>6, <1>7, <1>8, <1>9, <1>10, <1>11 DEF ShellInv

\* What stops a shell, or makes its marker, starts none.
LEMMA EngineStep ==
    ASSUME ShellInv,
           exec' \in [Execs -> ExecStates], container' \in Containers,
           \A x \in Execs : exec'[x].status = exec[x].status
                            \/ (exec[x].status # "none" /\ exec'[x].status = "stopped"),
           UNCHANGED <<records, active, terminal, recovery>>
    PROVE  ShellInv'
  <1>1. \A x \in Execs : /\ exec'[x].status = "none" <=> exec[x].status = "none"
                         /\ exec'[x].status = "running" => exec[x].status = "running"
    OBVIOUS
  <1>2. ExecutionTypes'
    BY DEF ShellInv, ExecutionTypes
  <1>3. \A t \in Terminals : TerminalOK(t)'
    <2> SUFFICES ASSUME NEW t \in Terminals PROVE TerminalOK(t)'
      OBVIOUS
    <2>1. TerminalOK(t)
      BY DEF ShellInv
    <2> QED BY <2>1, <1>1 DEF TerminalOK, Running, Holding
  <1>4. OneHolder'
    BY DEF ShellInv, OneHolder
  <1>5. RecoveryOK'
    <2>1. RecoveryOK
      BY DEF ShellInv
    <2> QED BY <2>1, <1>1 DEF RecoveryOK, Running
  <1>6. records \subseteq Execs /\ RecordedExists /\ ShellIsRecorded
    BY DEF ShellInv, ExecutionTypes
  <1>7. RecordedExists' /\ ShellIsRecorded'
    BY <1>1, <1>6 DEF RecordedExists, ShellIsRecorded, Running
  <1> QED BY <1>2, <1>3, <1>4, <1>5, <1>7 DEF ShellInv

LEMMA ShellStep ==
    ASSUME ShellInv, NEW x \in Execs, OfShell(x) \/ ShellExits(x) PROVE ShellInv'
  <1>1. exec \in [Execs -> ExecStates] /\ container \in Containers
    BY DEF ShellInv, ExecutionTypes
  <1>2. UNCHANGED <<container, records, active, terminal, recovery>>
    BY DEF OfShell, MakeMarker, Watchdog, ShellExits, process
  <1>3. CASE MakeMarker(x)
    <2>1. exec' = [exec EXCEPT ![x].marker = "made"]
      BY <1>3 DEF MakeMarker
    <2>2. exec' \in [Execs -> ExecStates] /\ \A y \in Execs : exec'[y].status = exec[y].status
      BY <1>1, <2>1 DEF ExecStates, Markers
    <2> QED BY <1>1, <1>2, <2>2, EngineStep
  <1>4. CASE Watchdog(x) \/ ShellExits(x)
    <2>1. exec' = [exec EXCEPT ![x].status = "stopped"] /\ exec[x].status = "running"
      BY <1>4 DEF Watchdog, ShellExits, Running
    <2>2. /\ exec' \in [Execs -> ExecStates] /\ exec'[x].status = "stopped"
          /\ \A y \in Execs \ {x} : exec'[y] = exec[y]
      BY <1>1, <2>1 DEF ExecStates, Statuses
    <2>3. \A y \in Execs : exec'[y].status = exec[y].status
                            \/ (exec[y].status # "none" /\ exec'[y].status = "stopped")
      BY <2>1, <2>2
    <2> QED BY <1>1, <1>2, <2>2, <2>3, EngineStep
  <1> QED BY <1>3, <1>4 DEF OfShell

LEMMA ReplaceStep ==
    ASSUME ShellInv, ReplaceContainer PROVE ShellInv'
  <1>1. exec \in [Execs -> ExecStates]
    BY DEF ShellInv, ExecutionTypes
  <1>2. container' \in Containers /\ UNCHANGED <<records, active, terminal, recovery>>
    BY DEF ReplaceContainer, process
  <1>3. ASSUME NEW x \in Execs
        PROVE  /\ exec'[x] \in ExecStates
               /\ \/ exec'[x].status = exec[x].status
                  \/ exec[x].status # "none" /\ exec'[x].status = "stopped"
    <2>1. PICK e : e = [exec[x] EXCEPT !.status = "stopped"]
      OBVIOUS
    <2>2. e \in ExecStates /\ e.status = "stopped"
      BY <1>1, <2>1 DEF ExecStates, Statuses
    <2>3. exec'[x] = IF exec[x].status \in {"created", "running"} THEN e ELSE exec[x]
      BY <2>1 DEF ReplaceContainer
    <2> QED BY <1>1, <2>2, <2>3
  <1>4. exec' \in [Execs -> ExecStates]
    BY <1>3 DEF ReplaceContainer
  <1> QED BY <1>2, <1>3, <1>4, EngineStep

\* The process ends, and with it the streams and the recovery; the shells stay
\* in the file.
LEMMA AgentStep ==
    ASSUME ShellInv, AgentStops \/ AgentStarts PROVE ShellInv'
  <1>1. UNCHANGED <<exec, container, records>>
    BY DEF AgentStops, AgentStarts, engine
  <1>2. CASE AgentStarts
    <2>1. UNCHANGED <<active, terminal, recovery>>
      BY <1>2 DEF AgentStarts, process
    <2>2. exec \in [Execs -> ExecStates] /\ container \in Containers
      BY DEF ShellInv, ExecutionTypes
    <2> QED BY <1>1, <2>1, <2>2, EngineStep
  <1>3. CASE AgentStops
    <2>1. ASSUME NEW t \in Terminals
          PROVE  terminal'[t] \in TerminalStates /\ terminal'[t].pc \in {"none", "closed"}
      <3>1. PICK w : w = [terminal[t] EXCEPT !.pc = "closed"]
        OBVIOUS
      <3>2. w \in TerminalStates /\ w.pc = "closed"
        BY <3>1 DEF ShellInv, ExecutionTypes, TerminalStates
      <3>3. NoTerminal \in TerminalStates /\ NoTerminal.pc = "none"
        BY DEF NoTerminal, TerminalStates
      <3>4. terminal'[t] \in {w, NoTerminal}
        BY <1>3, <3>1 DEF AgentStops
      <3> QED BY <3>2, <3>3, <3>4
    <2>2. terminal' \in [Terminals -> TerminalStates]
      BY <1>3, <2>1 DEF AgentStops
    <2>3. active' = {} /\ recovery' = NoRecovery
      BY <1>3 DEF AgentStops
    <2>4. ExecutionTypes'
      BY <1>1, <2>2, <2>3 DEF ShellInv, ExecutionTypes, RecoveryStates, NoRecovery
    <2>5. OneHolder' /\ \A t \in Terminals : TerminalOK(t)'
      BY <2>1 DEF OneHolder, TerminalOK, Holding, Using
    <2>6. RecoveryOK'
      BY <2>3, ExecutionAssumption DEF RecoveryOK, NoRecovery
    <2>7. RecordedExists' /\ ShellIsRecorded' /\ Cardinality(records') <= MaximumTerminalExecutions
      BY <1>1 DEF ShellInv, RecordedExists, ShellIsRecorded, Running
    <2> QED BY <2>4, <2>5, <2>6, <2>7 DEF ShellInv
  <1> QED BY <1>2, <1>3

\* Every step of terminals, recovery, shells, containers and process.
LEMMA ShellNext ==
    ASSUME ~LostAttach, ShellInv, ExecutionNext PROVE ShellInv'
  <1>1. ASSUME NEW t \in Terminals, OfTerminal(t) PROVE ShellInv'
    BY <1>1, OpenShell, CreateShell, RecordShell, AttachShell, ShellEnds DEF OfTerminal
  <1>2. ASSUME NEW x \in Execs, OfShell(x) \/ ShellExits(x) PROVE ShellInv'
    BY <1>2, ShellStep
  <1> QED BY <1>1, <1>2, RecoveryStep, ReplaceStep, AgentStep DEF ExecutionNext

\* The invariant implies what the run checks.
LEMMA ShellInvShows == ShellInv => ShellIsRecorded /\ LiveShellIsLeft /\ ExecutionTypeOK
  <1> SUFFICES ASSUME ShellInv PROVE LiveShellIsLeft /\ ExecutionTypeOK
    BY DEF ShellInv
  <1>1. ExecutionTypes /\ RecoveryOK /\ Cardinality(records) <= MaximumTerminalExecutions
    BY DEF ShellInv
  <1>2. \A t \in Terminals : terminal[t].pc \in {"attach", "inspect", "open"} =>
            terminal[t].exec \in active /\ terminal[t].exec \in Execs
    BY DEF ShellInv, TerminalOK, Using, Holding
  <1>3. LiveShellIsLeft
    BY <1>1, <1>2 DEF LiveShellIsLeft, RecoveryOK
  <1>4. exec \in [Execs -> [status : {"none", "created", "running", "stopped"}, marker : {"none", "made", "removed"},
                           container : {0} \cup Containers]]
    BY <1>1 DEF ExecutionTypes, ExecStates, Statuses, Markers
  <1>5. recovery.pc \in {"idle", "inspect", "signal", "wait", "remove"} /\ recovery.exec \in {0} \cup Execs
    BY <1>1 DEF ExecutionTypes, RecoveryStates
  <1> QED BY <1>1, <1>2, <1>3, <1>4, <1>5 DEF ExecutionTypes, ExecutionTypeOK

LEMMA ShellInvariance ==
    ASSUME ~LostAttach
    PROVE  AgentHostSpec => [](part = "shells" => ShellInv)
  <1> DEFINE Inv == part = "shells" => ShellInv
  <1>1. AgentHostInit => Inv
    BY ShellsBegin DEF AgentHostInit
  <1>2. Inv /\ [AgentHostNext]_agentHostVars => Inv'
    <2> SUFFICES ASSUME Inv, [AgentHostNext]_agentHostVars, part' = "shells" PROVE ShellInv'
      OBVIOUS
    <2>1. part' = part
      BY DEF AgentHostNext, Rest, StoreSteps, ShellSteps, RouteSteps, InventorySteps, HostSteps, agentHostVars
    <2>2. ShellInv
      BY <2>1
    <2>3. CASE ExecutionNext
      BY <2>2, <2>3, ShellNext
    <2>4. CASE ~ExecutionNext
      <3>1. UNCHANGED executionVars
        BY <2>1, <2>4
        DEF AgentHostNext, Rest, StoreSteps, ShellSteps, RouteSteps, InventorySteps, HostSteps, agentHostVars
      <3>2. UNCHANGED <<exec, container, records, active, terminal, recovery>>
        BY <3>1 DEF executionVars
      <3>3. exec \in [Execs -> ExecStates] /\ container \in Containers
        BY <2>2 DEF ShellInv, ExecutionTypes
      <3> QED BY <2>2, <3>2, <3>3, EngineStep
    <2> QED BY <2>3, <2>4
  <1> QED BY <1>1, <1>2, PTL DEF AgentHostSpec

\* Every shell that runs is named in the file, at whatever moment the Agent
\* crashes, and the recovery never touches the exec of a stream that is open;
\* if the Engine has started no shell whose attach failed.
THEOREM ShellsAreAccountedHolds ==
    ASSUME ~LostAttach
    PROVE  AgentHostSpec => []ShellsAreAccounted
  <1>1. (part = "shells" => ShellInv) => ShellsAreAccounted
    BY ShellInvShows DEF ShellsAreAccounted
  <1> QED BY <1>1, ShellInvariance, PTL

-----------------------------------------------------------------------------
(* The managed ingress.  One operation at a time owns the host's document; *)
(* what the Agent may hold follows from the state of the operation, what a *)
(* route may be from the operation that carries it, and what a Deployment  *)
(* may do from the operation it owns.                                      *)

Backends == [revision : Nat, deployment : Nat]
RouteMaps == UNION {[S -> Backends] : S \in SUBSET Routes}
Configs == [revision : Nat, routes : RouteMaps, probe : SUBSET Routes]
Opened == {"pending", "provisioning", "ready", "degraded"}
RouteStates == [status : Opened \cup {"none", "retiring", "retired"}, revision : Nat, observed : Backends]
OpKinds == {"none", "cutover", "reconciliation", "retirement"}
Uncommitted == {"allocated", "prepared"}
OpStates == Uncommitted \cup {"none", "control_plane_committed", "gateway_committed"}
Ops == [kind : OpKinds, by : SlotDeployments \cup Routes \cup {0}, state : OpStates, desired : Configs]
HostStates == [revision : Nat, committed : RouteMaps, op : Ops]
Entries == [revision : Nat, deployment : Nat, active : BOOLEAN]
AgentStates == [committed : Configs, pending : Configs, entries : [Routes -> Entries]]
ManagedPhase == {"begun", "staged", "unprepare", "prepared", "activated", "restore", "remove", "finalize"}
Committing == {"committing", "draining", "retired"}
Waiting == {"queued", "managed", "canceling"}
DepSteps == ManagedPhase \cup Committing \cup Waiting \cup {"none", "ordinary", "succeeded", "failed", "canceled"}
DepStates == [pc : DepSteps, canceled : BOOLEAN, reached : {"no", "managed", "ordinary"}]

IngressTypes ==
    /\ route \in [Routes -> RouteStates]
    /\ host \in HostStates
    /\ agent \in AgentStates
    /\ dep \in [SlotDeployments -> DepStates]
    /\ containers \subseteq SlotDeployments

\* What an observation of a route and the end of a Deployment imply.
HistoryOK ==
    /\ \A r \in Routes : route[r].observed.revision <= route[r].revision
    /\ \A d \in SlotDeployments : dep[d].reached = "ordinary" => dep[d].pc = "succeeded"

Desired == host.op.desired

\* The Agent holds what was committed and may have tried configuration c; it
\* is ready to commit c; it has committed c.
Tried(c) == \/ agent.pending = NoConfig /\ caddy = agent.committed.routes
            \/ agent.pending = c /\ caddy \in {agent.committed.routes, c.routes}
Tries(c) == agent.committed.revision < c.revision /\ Tried(c)
Ready(c) == agent.committed.revision < c.revision /\ agent.pending = c /\ caddy = c.routes
Holds(c) == agent.committed = c /\ agent.pending = NoConfig /\ caddy = c.routes

\* What the Agent may hold at each state of the operation.
AgentOK ==
    /\ agent.committed.revision <= host.revision
    /\ agent.committed.routes = host.committed \/ Holds(Desired)
    /\ Free => /\ agent.committed.routes = host.committed
               /\ agent.pending = NoConfig /\ caddy = host.committed
    /\ ~Free => /\ host.op.kind # "none" /\ host.op.state # "none"
                /\ Desired.revision = host.revision /\ Desired.revision > 0
    /\ host.op.state = "allocated" => Tries(Desired)
    /\ host.op.state = "prepared" /\ host.op.kind = "cutover" => Tries(Desired)
    /\ host.op.state = "prepared" /\ host.op.kind # "cutover" => Ready(Desired) \/ Holds(Desired)
    /\ host.op.state = "control_plane_committed" => Ready(Desired) \/ Holds(Desired)
    /\ host.op.state = "gateway_committed" => Holds(Desired) /\ host.committed = Desired.routes

\* What an operation asks for, given what is committed.
CutoverOK ==
    /\ host.op.by \in SlotDeployments /\ Desired.probe # {} /\ Desired.probe \subseteq DOMAIN Desired.routes
    /\ \A r \in Desired.probe : Desired.routes[r].deployment = host.op.by
    /\ \A r \in DOMAIN Desired.routes \ Desired.probe :
          /\ route[r].status = "retiring"
          /\ r \in DOMAIN host.committed /\ host.committed[r] = Desired.routes[r]
ReconciliationOK ==
    LET by == host.op.by IN
    /\ by \in Routes /\ Desired.probe = {by} /\ host.op.state \in Uncommitted
    /\ route[by].observed.revision # route[by].revision
    /\ DOMAIN Desired.routes = DOMAIN host.committed \cup {by}
    /\ \A r \in DOMAIN host.committed \ {by} : Desired.routes[r] = host.committed[r]
RetirementOK ==
    LET by == host.op.by IN
    /\ by \in Routes /\ Desired.probe = {} /\ host.op.state \in Uncommitted \cup {"gateway_committed"}
    /\ route[by].status = "retiring"
    /\ DOMAIN Desired.routes = DOMAIN host.committed \ {by}
    /\ \A r \in DOMAIN Desired.routes : Desired.routes[r] = host.committed[r]
OpOK ==
    /\ host.op.kind = "cutover" => CutoverOK
    /\ host.op.kind = "reconciliation" => ReconciliationOK
    /\ host.op.kind = "retirement" => RetirementOK
    /\ host.op.state \in Uncommitted => \A r \in Desired.probe :
          route[r].status = "provisioning" /\ route[r].revision = Desired.routes[r].revision

CommittedAs(r) == r \in DOMAIN host.committed /\ host.committed[r] = route[r].observed

\* A route that is observed at its revision is committed as observed, or about
\* to be; only an operation that is not committed provisions one.
RouteOK(r) ==
    /\ route[r].status = "provisioning" => r \in Desired.probe /\ host.op.state \in Uncommitted
    /\ route[r].status \in {"pending", "degraded"} => route[r].observed.revision # route[r].revision
    /\ route[r].status = "provisioning" /\ route[r].observed.revision = route[r].revision => CommittedAs(r)
    /\ route[r].status = "ready" =>
          /\ route[r].observed.revision = route[r].revision
          /\ ~Free => r \in DOMAIN Desired.routes /\ Desired.routes[r] = route[r].observed
          /\ host.op.state # "control_plane_committed" \/ r \notin Desired.probe => CommittedAs(r)
    /\ route[r].status \in {"none", "retired"} =>
          r \notin DOMAIN host.committed /\ r \notin DOMAIN Desired.routes
    /\ route[r].status = "none" => route[r].revision = 0

Owns(d) == Of("cutover", d)

\* The container of Deployment d is there, or an ordinary deploy removed it.
Kept(d) == d \in containers \/ \E n \in SlotDeployments : n > d /\ dep[n].reached = "ordinary"
KeptSteps == {"staged", "unprepare", "prepared", "activated"} \cup Committing

\* Where a Deployment can be, by the operation that it owns.
PcOK(d, pc) ==
    /\ pc \in ManagedPhase => Owns(d) /\ host.op.state \in Uncommitted
    /\ pc \in {"prepared", "activated"} => host.op.state = "prepared" /\ Ready(Desired)
    /\ pc \in {"remove", "finalize"} => agent.pending = NoConfig
    /\ pc = "committing" => Owns(d) /\ host.op.state \in {"control_plane_committed", "gateway_committed"}
    /\ pc \in {"draining", "retired"} => Owns(d) /\ host.op.state = "gateway_committed"
    /\ Owns(d) /\ host.op.state \in Uncommitted => pc \in ManagedPhase \cup Waiting
    /\ Owns(d) /\ host.op.state \notin Uncommitted => pc \in Committing
DepOK(d) == PcOK(d, dep[d].pc) /\ (dep[d].pc \in KeptSteps => Kept(d))

\* What the reconciler has read, and the operation it works on.
ResolvedOK ==
    LET r == resolved.route
        b == resolved.backend IN
    /\ resolved.pc \in {"idle", "read", "begun", "failed", "committed"}
    /\ resolved.pc = "idle" => resolved = NoReading
    /\ resolved.pc # "idle" =>
          /\ resolved = [pc |-> resolved.pc, route |-> r, backend |-> b]
          /\ r \in Routes /\ b \in Backends
          /\ b.deployment \in SlotDeployments /\ dep[b.deployment].pc = "succeeded"
    /\ resolved.pc \in {"begun", "failed", "committed"} =>
          Of("reconciliation", r) /\ Desired.routes[r] = b
    /\ resolved.pc = "failed" => host.op.state = "allocated"
    /\ resolved.pc = "committed" => host.op.state = "prepared" /\ Holds(Desired)

\* The containers of the backends: what is committed is there or its route is
\* being retired, and so is what an operation can commit.
Backed(r) ==
    LET d == host.committed[r].deployment IN
    /\ d \in SlotDeployments /\ dep[d].pc \in Committing \cup {"succeeded"}
    /\ Owns(d) => host.op.state = "gateway_committed"
    /\ Kept(d) \/ route[r].status = "retiring"
CutoverBacked == agent.pending = Desired => Kept(host.op.by) \/ Superseded(host.op.by)
ReconciliationBacked ==
    LET d == Desired.routes[host.op.by].deployment IN
    /\ d \in SlotDeployments /\ dep[d].pc = "succeeded"
    /\ host.op.state = "prepared" => Kept(d)
BackendsOK ==
    /\ \A r \in DOMAIN host.committed : Backed(r)
    /\ host.op.kind = "cutover" /\ host.op.state \in Uncommitted => CutoverBacked
    /\ host.op.kind = "reconciliation" => ReconciliationBacked

\* A configuration is pending only above everything that was committed.
PendingIsAbove == agent.pending # NoConfig => AboveWatermark(agent.pending)

IngressInv ==
    /\ IngressTypes /\ HistoryOK /\ AgentOK /\ OpOK
    /\ \A r \in Routes : RouteOK(r)
    /\ \A d \in SlotDeployments : DepOK(d)
    /\ ResolvedOK /\ BackendsOK /\ PendingIsAbove

\* What a map of routes and a configuration are.
LEMMA RouteMapIs ==
    ASSUME NEW f
    PROVE  f \in RouteMaps <=>
               /\ f = [r \in DOMAIN f |-> f[r]] /\ DOMAIN f \subseteq Routes
               /\ \A r \in DOMAIN f : f[r] \in Backends
  BY DEF RouteMaps

LEMMA EmptyMap == <<>> \in RouteMaps /\ DOMAIN <<>> = {}
  <1>1. DOMAIN <<>> = {}
    OBVIOUS
  <1>2. <<>> \in [{} -> Backends]
    OBVIOUS
  <1> QED BY <1>1, <1>2 DEF RouteMaps

LEMMA NoConfigIs == NoConfig \in Configs /\ NoConfig.revision = 0 /\ NoConfig.routes = <<>>
  BY EmptyMap DEF NoConfig, Configs

LEMMA NoOpIs == NoOp \in Ops /\ NoOp.kind = "none" /\ NoOp.state = "none" /\ NoOp.desired = NoConfig
  BY NoConfigIs DEF NoOp, Ops, OpKinds, OpStates

\* Maps that are put together hold the entries of both.
LEMMA OverIs ==
    ASSUME NEW f \in RouteMaps, NEW g \in RouteMaps
    PROVE  /\ Over(f, g) \in RouteMaps
           /\ DOMAIN Over(f, g) = DOMAIN f \cup DOMAIN g
           /\ \A r \in DOMAIN f : Over(f, g)[r] = f[r]
           /\ \A r \in DOMAIN g \ DOMAIN f : Over(f, g)[r] = g[r]
  <1>1. PICK h : h = Over(f, g)
    OBVIOUS
  <1>2. /\ DOMAIN h = DOMAIN f \cup DOMAIN g
        /\ \A r \in DOMAIN f : h[r] = f[r]
        /\ \A r \in DOMAIN g \ DOMAIN f : h[r] = g[r]
        /\ h = [r \in DOMAIN h |-> h[r]]
    BY <1>1 DEF Over
  <1>3. DOMAIN f \subseteq Routes /\ (\A r \in DOMAIN f : f[r] \in Backends)
    BY RouteMapIs
  <1>4. DOMAIN g \subseteq Routes /\ (\A r \in DOMAIN g : g[r] \in Backends)
    BY RouteMapIs
  <1>5. \A r \in DOMAIN h : h[r] \in Backends
    BY <1>2, <1>3, <1>4
  <1>6. h \in RouteMaps
    BY <1>2, <1>3, <1>4, <1>5, RouteMapIs
  <1> QED BY <1>1, <1>2, <1>6

\* The backend of a route at the revision that it has.
LEMMA BackendIs ==
    ASSUME IngressTypes, NEW r \in Routes, NEW d \in SlotDeployments
    PROVE  /\ Backend(r, d) \in Backends
           /\ Backend(r, d).revision = route[r].revision /\ Backend(r, d).deployment = d
  BY IngressAssumption DEF IngressTypes, RouteStates, Backend, Backends

LEMMA RoutedIs ==
    ASSUME IngressTypes, NEW f \in RouteMaps, NEW S \in SUBSET Routes
    PROVE  /\ [Routed(f) EXCEPT !.probe = S] \in Configs
           /\ [Routed(f) EXCEPT !.probe = S].revision = host.revision + 1
           /\ [Routed(f) EXCEPT !.probe = S].routes = f
           /\ [Routed(f) EXCEPT !.probe = S].probe = S
           /\ Routed(f) \in Configs /\ Routed(f).revision = host.revision + 1
           /\ Routed(f).routes = f /\ Routed(f).probe = {}
  <1>1. host.revision \in Nat
    BY DEF IngressTypes, HostStates
  <1>2. PICK v : v = [revision |-> host.revision + 1, routes |-> f, probe |-> S]
    OBVIOUS
  <1>3. PICK w : w = [revision |-> host.revision + 1, routes |-> f, probe |-> {}]
    OBVIOUS
  <1>4. v \in Configs /\ v.revision = host.revision + 1 /\ v.routes = f /\ v.probe = S
    BY <1>1, <1>2 DEF Configs
  <1>5. w \in Configs /\ w.revision = host.revision + 1 /\ w.routes = f /\ w.probe = {}
    BY <1>1, <1>3 DEF Configs
  <1>6. Routed(f) = w
    BY <1>3 DEF Routed
  <1>7. [w EXCEPT !.probe = S] = v
    BY <1>2, <1>3
  <1> QED BY <1>4, <1>5, <1>6, <1>7

\* The configurations that the three writers ask for.
LEMMA CutoverDesiredIs ==
    ASSUME IngressTypes, NEW d \in SlotDeployments, NEW S \in SUBSET Routes
    PROVE  LET c == CutoverDesired(d, S) IN
           /\ c \in Configs /\ c.revision = host.revision + 1 /\ c.probe = S
           /\ DOMAIN c.routes = S \cup DOMAIN host.committed
           /\ \A r \in S : c.routes[r] = Backend(r, d)
           /\ \A r \in DOMAIN host.committed \ S : c.routes[r] = host.committed[r]
  <1>1. PICK f : f = [r \in S |-> Backend(r, d)]
    OBVIOUS
  <1>2. DOMAIN f = S /\ (\A r \in S : f[r] = Backend(r, d)) /\ f \in RouteMaps
    BY <1>1, BackendIs, RouteMapIs
  <1>3. host.committed \in RouteMaps
    BY DEF IngressTypes, HostStates
  <1>4. PICK g : g = Over(f, host.committed)
    OBVIOUS
  <1>5. /\ g \in RouteMaps /\ DOMAIN g = S \cup DOMAIN host.committed
        /\ \A r \in S : g[r] = Backend(r, d)
        /\ \A r \in DOMAIN host.committed \ S : g[r] = host.committed[r]
    BY <1>2, <1>3, <1>4, OverIs
  <1>6. CutoverDesired(d, S) = [Routed(g) EXCEPT !.probe = S]
    BY <1>1, <1>4 DEF CutoverDesired
  <1>7. PICK c : c = [Routed(g) EXCEPT !.probe = S]
    OBVIOUS
  <1>8. c \in Configs /\ c.revision = host.revision + 1 /\ c.routes = g /\ c.probe = S
    BY <1>5, <1>7, RoutedIs
  <1> QED BY <1>5, <1>6, <1>7, <1>8

LEMMA ReconciliationDesiredIs ==
    ASSUME IngressTypes, NEW r \in Routes, NEW b \in Backends
    PROVE  LET c == ReconciliationDesired(r, b) IN
           /\ c \in Configs /\ c.revision = host.revision + 1 /\ c.probe = {r}
           /\ DOMAIN c.routes = DOMAIN host.committed \cup {r}
           /\ c.routes[r] = b
           /\ \A x \in DOMAIN host.committed \ {r} : c.routes[x] = host.committed[x]
  <1>1. PICK f : f = [x \in {r} |-> b]
    OBVIOUS
  <1>2. DOMAIN f = {r} /\ f[r] = b /\ f \in RouteMaps
    BY <1>1, RouteMapIs
  <1>3. host.committed \in RouteMaps
    BY DEF IngressTypes, HostStates
  <1>4. PICK g : g = Over(f, host.committed)
    OBVIOUS
  <1>5. /\ g \in RouteMaps /\ DOMAIN g = DOMAIN host.committed \cup {r} /\ g[r] = b
        /\ \A x \in DOMAIN host.committed \ {r} : g[x] = host.committed[x]
    BY <1>2, <1>3, <1>4, OverIs
  <1>6. ReconciliationDesired(r, b) = [Routed(g) EXCEPT !.probe = {r}]
    BY <1>1, <1>4 DEF ReconciliationDesired
  <1>7. PICK S \in SUBSET Routes : S = {r}
    OBVIOUS
  <1>8. PICK c : c = [Routed(g) EXCEPT !.probe = S]
    OBVIOUS
  <1>9. c \in Configs /\ c.revision = host.revision + 1 /\ c.routes = g /\ c.probe = S
    <2>1. g \in RouteMaps
      BY <1>5
    <2>2. [Routed(g) EXCEPT !.probe = S].routes = g /\ [Routed(g) EXCEPT !.probe = S].probe = S
      BY <2>1, RoutedIs
    <2>3. [Routed(g) EXCEPT !.probe = S] \in Configs /\ [Routed(g) EXCEPT !.probe = S].revision = host.revision + 1
      BY <2>1, RoutedIs
    <2> QED BY <2>2, <2>3, <1>8
  <1> QED BY <1>5, <1>6, <1>7, <1>8, <1>9

LEMMA RetirementDesiredIs ==
    ASSUME IngressTypes, NEW r \in Routes
    PROVE  LET c == RetirementDesired(r) IN
           /\ c \in Configs /\ c.revision = host.revision + 1 /\ c.probe = {}
           /\ DOMAIN c.routes = DOMAIN host.committed \ {r}
           /\ \A x \in DOMAIN c.routes : c.routes[x] = host.committed[x]
  <1>1. PICK g : g = [x \in DOMAIN host.committed \ {r} |-> host.committed[x]]
    OBVIOUS
  <1>2. DOMAIN g = DOMAIN host.committed \ {r} /\ \A x \in DOMAIN g : g[x] = host.committed[x]
    BY <1>1
  <1>3. host.committed \in RouteMaps
    BY DEF IngressTypes, HostStates
  <1>4. DOMAIN host.committed \subseteq Routes /\ \A x \in DOMAIN host.committed : host.committed[x] \in Backends
    BY <1>3, RouteMapIs
  <1>5. g \in RouteMaps
    BY <1>1, <1>2, <1>4, RouteMapIs
  <1>6. RetirementDesired(r) = Routed(g)
    BY <1>1 DEF RetirementDesired
  <1>7. Routed(g) \in Configs /\ Routed(g).revision = host.revision + 1 /\ Routed(g).routes = g /\ Routed(g).probe = {}
    BY <1>5, RoutedIs
  <1> QED BY <1>2, <1>6, <1>7

\* The writes of the host's document.
LEMMA HostIs ==
    ASSUME IngressTypes
    PROVE  /\ host.revision \in Nat /\ host.committed \in RouteMaps /\ host.op \in Ops
           /\ host.op.kind \in OpKinds /\ host.op.state \in OpStates /\ Desired \in Configs
           /\ host = [revision |-> host.revision, committed |-> host.committed, op |-> host.op]
           /\ host.op = [kind |-> host.op.kind, by |-> host.op.by, state |-> host.op.state, desired |-> Desired]
  BY DEF IngressTypes, HostStates, Ops, Desired

LEMMA StateIs ==
    ASSUME IngressTypes, NEW s \in OpStates, host' = [host EXCEPT !.op.state = s]
    PROVE  /\ host' \in HostStates
           /\ host'.revision = host.revision /\ host'.committed = host.committed
           /\ host'.op.kind = host.op.kind /\ host'.op.by = host.op.by
           /\ host'.op.desired = Desired /\ host'.op.state = s
  BY HostIs DEF HostStates, Ops, Desired

LEMMA CommittedIs ==
    ASSUME IngressTypes
    PROVE  /\ Committed \in HostStates
           /\ Committed.revision = host.revision /\ Committed.committed = Desired.routes
           /\ Committed.op.kind = host.op.kind /\ Committed.op.by = host.op.by
           /\ Committed.op.desired = Desired /\ Committed.op.state = "gateway_committed"
  <1>1. Desired.routes \in RouteMaps
    BY HostIs DEF Configs
  <1>2. PICK v : v = [kind |-> host.op.kind, by |-> host.op.by, state |-> "gateway_committed", desired |-> Desired]
    OBVIOUS
  <1>3. v \in Ops /\ v.kind = host.op.kind /\ v.by = host.op.by /\ v.desired = Desired /\ v.state = "gateway_committed"
    BY <1>2, HostIs DEF Ops, OpStates
  <1>4. PICK w : w = [host EXCEPT !.committed = Desired.routes]
    OBVIOUS
  <1>5. w = [revision |-> host.revision, committed |-> Desired.routes, op |-> host.op]
    BY <1>4, HostIs
  <1>6. v = [host.op EXCEPT !.state = "gateway_committed"]
    BY <1>2, HostIs
  <1>7. Committed = [w EXCEPT !.op = v]
    BY <1>4, <1>5, <1>6, HostIs DEF Committed, Desired
  <1>8. Committed = [revision |-> host.revision, committed |-> Desired.routes, op |-> v]
    BY <1>5, <1>7
  <1> QED BY <1>1, <1>3, <1>8, HostIs DEF HostStates

LEMMA UnsetIs ==
    ASSUME IngressTypes
    PROVE  /\ Unset \in HostStates
           /\ Unset.revision = host.revision /\ Unset.committed = host.committed /\ Unset.op = NoOp
  BY HostIs, NoOpIs DEF Unset, HostStates

LEMMA AllocateIs ==
    ASSUME IngressTypes, NEW kind \in OpKinds, NEW by \in SlotDeployments \cup Routes, NEW c \in Configs,
           Allocate(kind, by, c)
    PROVE  /\ host' \in HostStates
           /\ host'.revision = c.revision /\ host'.committed = host.committed
           /\ host'.op.kind = kind /\ host'.op.by = by /\ host'.op.state = "allocated" /\ host'.op.desired = c
  <1>1. PICK v : v = [kind |-> kind, by |-> by, state |-> "allocated", desired |-> c]
    OBVIOUS
  <1>2. v \in Ops /\ v.kind = kind /\ v.by = by /\ v.state = "allocated" /\ v.desired = c
    BY <1>1 DEF Ops, OpStates, Uncommitted
  <1>3. c.revision \in Nat
    BY DEF Configs
  <1>4. host' = [revision |-> c.revision, committed |-> host.committed, op |-> v]
    BY <1>1, HostIs DEF Allocate
  <1> QED BY <1>2, <1>3, <1>4, HostIs DEF HostStates

-----------------------------------------------------------------------------
(* The calls of the Agent.                                                 *)

\* What a change of "pending" alone does.
LEMMA PendingIs ==
    ASSUME IngressTypes, NEW c \in Configs, agent' = [agent EXCEPT !.pending = c]
    PROVE  /\ agent' \in AgentStates
           /\ agent'.committed = agent.committed /\ agent'.entries = agent.entries /\ agent'.pending = c
  BY DEF IngressTypes, AgentStates

\* Above what was committed stays above while the same is committed.
LEMMA AboveStays ==
    ASSUME NEW c, AboveWatermark(c),
           agent'.committed = agent.committed, agent'.entries = agent.entries
    PROVE  AboveWatermark(c)'
  BY DEF AboveWatermark

LEMMA PrepareIs ==
    ASSUME IngressTypes, PendingIsAbove, NEW c \in Configs, c.revision > 0, Tries(c),
           NEW result, Prepare(c, result)
    PROVE  /\ agent' \in AgentStates
           /\ agent'.committed = agent.committed /\ agent'.entries = agent.entries
           /\ Tries(c)' /\ PendingIsAbove'
           /\ result = "ok" => Ready(c)' /\ Answering(c)
  <1>1. agent \in AgentStates /\ agent.committed \in Configs /\ agent.committed.revision \in Nat /\ c.revision \in Nat
    BY DEF IngressTypes, AgentStates, Configs
  <1>2. agent.committed # c /\ c # NoConfig /\ agent.committed.revision < c.revision
    BY <1>1, NoConfigIs DEF Tries
  <1>3. PICK p1 : p1 = [agent EXCEPT !.pending = c]
    OBVIOUS
  <1>4. PICK p0 : p0 = [agent EXCEPT !.pending = NoConfig]
    OBVIOUS
  <1>5. Pending(c) = p1
    BY <1>2, <1>3 DEF Pending
  <1>6. \/ UNCHANGED <<agent, caddy>> /\ result # "ok"
        \/ agent' = p0 /\ caddy' = agent.committed.routes /\ result # "ok"
        \/ Begins(c) /\ agent' = p1 /\ caddy' \in {caddy, c.routes} /\ result # "ok"
        \/ Begins(c) /\ agent' = p1 /\ caddy' = c.routes /\ Answering(c)
    BY <1>2, <1>4, <1>5 DEF Prepare, Apply, RestoreCommitted, BuildCaddyConfig
  <1>7. Begins(c) => AboveWatermark(c)
    BY <1>2 DEF Begins, PendingIsAbove
  <1>8. CASE UNCHANGED <<agent, caddy>> /\ result # "ok"
    BY <1>8, <1>1 DEF Tries, Tried, PendingIsAbove, AboveWatermark
  <1>9. CASE agent' = p0 /\ caddy' = agent.committed.routes /\ result # "ok"
    <2>1. agent' \in AgentStates /\ agent'.committed = agent.committed /\ agent'.entries = agent.entries
          /\ agent'.pending = NoConfig
      BY <1>4, <1>9, NoConfigIs, PendingIs
    <2> QED BY <2>1, <1>2, <1>9 DEF Tries, Tried, PendingIsAbove
  <1>10. CASE Begins(c) /\ agent' = p1 /\ caddy' \in {caddy, c.routes}
    <2>1. agent' \in AgentStates /\ agent'.committed = agent.committed /\ agent'.entries = agent.entries
          /\ agent'.pending = c
      BY <1>3, <1>10, PendingIs
    <2>2. PendingIsAbove'
      BY <2>1, <1>7, <1>10, AboveStays DEF PendingIsAbove
    <2>3. caddy \in {agent.committed.routes, c.routes}
      BY DEF Tries, Tried
    <2>4. Tries(c)'
      BY <2>1, <2>3, <1>2, <1>10 DEF Tries, Tried
    <2>5. caddy' = c.routes => Ready(c)'
      BY <2>1, <1>2 DEF Ready
    <2> QED BY <2>1, <2>2, <2>4, <2>5, <1>6, <1>2, <1>3, <1>4
  <1> QED BY <1>6, <1>8, <1>9, <1>10

LEMMA AbortIs ==
    ASSUME IngressTypes, PendingIsAbove, NEW c \in Configs, c.revision > 0, Tries(c),
           NEW result, Abort(c, result)
    PROVE  /\ agent' \in AgentStates
           /\ agent'.committed = agent.committed /\ agent'.entries = agent.entries
           /\ agent'.pending \in {agent.pending, NoConfig}
           /\ Tries(c)' /\ PendingIsAbove'
           /\ result = "ok" => agent'.pending = NoConfig /\ caddy' = agent.committed.routes
  <1>1. agent \in AgentStates /\ agent.committed \in Configs /\ agent.committed.revision \in Nat /\ c.revision \in Nat
    BY DEF IngressTypes, AgentStates, Configs
  <1>2. agent.committed # c /\ c # NoConfig /\ agent.committed.revision < c.revision
    BY <1>1, NoConfigIs DEF Tries
  <1>3. \/ UNCHANGED <<agent, caddy>> /\ (result = "ok" => agent.pending # c)
        \/ agent' = [agent EXCEPT !.pending = NoConfig] /\ caddy' = agent.committed.routes
    BY DEF Abort, RestoreCommitted, BuildCaddyConfig
  <1>4. CASE UNCHANGED <<agent, caddy>> /\ (result = "ok" => agent.pending # c)
    BY <1>1, <1>4 DEF Tries, Tried, PendingIsAbove, AboveWatermark
  <1>5. CASE agent' = [agent EXCEPT !.pending = NoConfig] /\ caddy' = agent.committed.routes
    <2>1. agent' \in AgentStates /\ agent'.committed = agent.committed /\ agent'.entries = agent.entries
          /\ agent'.pending = NoConfig
      BY <1>5, NoConfigIs, PendingIs
    <2> QED BY <2>1, <1>2, <1>5 DEF Tries, Tried, PendingIsAbove
  <1> QED BY <1>3, <1>4, <1>5

\* What the Agent accepted of the routes in a commit is not below what it had.
LEMMA CommitIs ==
    ASSUME IngressTypes, PendingIsAbove, NEW c \in Configs, c.revision > 0, Ready(c) \/ Holds(c),
           NEW result, Commit(c, result)
    PROVE  /\ agent' \in AgentStates
           /\ Ready(c)' \/ Holds(c)'
           /\ agent'.committed \in {agent.committed, c}
           /\ PendingIsAbove' /\ WatermarksDoNotFall
           /\ result # "error" /\ (result = "ok" => Holds(c)')
  <1>1. agent \in AgentStates /\ agent.committed \in Configs /\ agent.committed.revision \in Nat /\ c.revision \in Nat
        /\ agent.entries \in [Routes -> Entries] /\ c.routes \in RouteMaps
    BY DEF IngressTypes, AgentStates, Configs
  <1>2. CanCommit(c) /\ caddy = c.routes /\ c # NoConfig
    BY <1>1, NoConfigIs DEF CanCommit, Ready, Holds
  <1>3. /\ result # "error"
        /\ \/ UNCHANGED <<agent, caddy>> /\ result # "ok"
           \/ /\ caddy' = c.routes
              /\ agent' = IF agent.committed = c THEN agent
                          ELSE [committed |-> c, pending |-> NoConfig, entries |-> CommittedEntries(c)]
    BY <1>2 DEF Commit, Apply, BuildCaddyConfig
  <1>4. \A r \in Routes : agent.entries[r].revision \in Nat /\ agent.entries[r].deployment \in Nat
    BY <1>1 DEF Entries
  <1>5. CASE UNCHANGED <<agent, caddy>>
    <2>1. WatermarksDoNotFall
      BY <1>4, <1>5 DEF WatermarksDoNotFall
    <2> QED BY <2>1, <1>1, <1>2, <1>3, <1>5 DEF Ready, Holds, PendingIsAbove, AboveWatermark
  <1>6. CASE agent.committed = c /\ ~UNCHANGED <<agent, caddy>>
    <2>1. agent' = agent /\ caddy' = caddy
      BY <1>2, <1>3, <1>6
    <2> QED BY <2>1, <1>6
  <1>7. CASE agent.committed # c /\ ~UNCHANGED <<agent, caddy>>
    <2>1. /\ caddy' = c.routes
          /\ agent' = [committed |-> c, pending |-> NoConfig, entries |-> CommittedEntries(c)]
      BY <1>3, <1>7
    <2>2. agent.pending = c /\ AboveWatermark(c)
      BY <1>2, <1>7 DEF Ready, Holds, PendingIsAbove
    <2>3. ASSUME NEW r \in Routes
          PROVE  /\ CommittedEntries(c)[r] \in Entries
                 /\ CommittedEntries(c)[r].revision >= agent.entries[r].revision
                 /\ CommittedEntries(c)[r].deployment >= agent.entries[r].deployment
      <3>1. agent.entries[r] \in Entries
        BY <1>1
      <3>2. CASE r \in DOMAIN c.routes
        <4>1. c.routes[r] \in Backends
          BY <1>1, <3>2, RouteMapIs
        <4>2. PICK n : n = c.routes[r]
          OBVIOUS
        <4>3. n.revision \in Nat /\ n.deployment \in Nat
          BY <4>1, <4>2 DEF Backends
        <4>4. CommittedEntries(c)[r] = [revision |-> n.revision, deployment |-> n.deployment, active |-> TRUE]
          BY <3>2, <4>2 DEF CommittedEntries
        <4>5. agent.entries[r] # NoWatermark =>
                  n.revision >= agent.entries[r].revision /\ n.deployment >= agent.entries[r].deployment
          BY <2>2, <3>2, <4>2 DEF AboveWatermark
        <4>6. agent.entries[r] = NoWatermark => agent.entries[r].revision = 0 /\ agent.entries[r].deployment = 0
          BY DEF NoWatermark
        <4> QED BY <4>3, <4>4, <4>5, <4>6 DEF Entries
      <3>3. CASE r \notin DOMAIN c.routes
        <4>1. PICK w : w = [agent.entries[r] EXCEPT !.active = FALSE]
          OBVIOUS
        <4>2. w \in Entries /\ w.revision = agent.entries[r].revision /\ w.deployment = agent.entries[r].deployment
          BY <3>1, <4>1 DEF Entries
        <4>3. CommittedEntries(c)[r] = w
          BY <3>3, <4>1 DEF CommittedEntries
        <4> QED BY <4>2, <4>3, <1>4
      <3> QED BY <3>2, <3>3
    <2>4. CommittedEntries(c) \in [Routes -> Entries]
      BY <2>3 DEF CommittedEntries
    <2>5. agent' \in AgentStates /\ agent'.committed = c /\ agent'.pending = NoConfig
          /\ agent'.entries = CommittedEntries(c)
      BY <2>1, <2>4, NoConfigIs DEF AgentStates
    <2>6. WatermarksDoNotFall
      BY <2>3, <2>5 DEF WatermarksDoNotFall
    <2> QED BY <2>1, <2>5, <2>6, <1>3 DEF Holds, PendingIsAbove
  <1> QED BY <1>5, <1>6, <1>7

-----------------------------------------------------------------------------
(* Steps of one route, and of one Deployment.                              *)

\* What no step of others disturbs.
LEMMA AgentStays ==
    ASSUME IngressInv, UNCHANGED <<host, agent, caddy>>
    PROVE  AgentOK' /\ PendingIsAbove'
  BY DEF IngressInv, AgentOK, PendingIsAbove, AboveWatermark, Free, Tries, Tried, Ready, Holds, Desired

LEMMA RoutesStay ==
    ASSUME IngressInv, UNCHANGED <<route, host>>
    PROVE  OpOK' /\ \A r \in Routes : RouteOK(r)'
  <1>1. OpOK'
    BY DEF IngressInv, OpOK, CutoverOK, ReconciliationOK, RetirementOK, Desired
  <1>2. ASSUME NEW r \in Routes PROVE RouteOK(r)'
    <2>1. RouteOK(r)
      BY DEF IngressInv
    <2> QED BY <2>1 DEF RouteOK, CommittedAs, Desired, Free
  <1> QED BY <1>1, <1>2

LEMMA DepsStay ==
    ASSUME IngressInv, UNCHANGED <<host, agent, caddy, dep, containers>>
    PROVE  \A d \in SlotDeployments : DepOK(d)'
  <1> SUFFICES ASSUME NEW d \in SlotDeployments PROVE DepOK(d)'
    OBVIOUS
  <1>1. DepOK(d)
    BY DEF IngressInv
  <1>2. (Owns(d)' <=> Owns(d)) /\ (Kept(d)' <=> Kept(d)) /\ (Ready(Desired)' <=> Ready(Desired))
    BY DEF Owns, Of, Kept, Ready, Desired
  <1> QED BY <1>1, <1>2 DEF DepOK, PcOK

LEMMA ResolvedStays ==
    ASSUME IngressInv, UNCHANGED <<host, agent, caddy, resolved>>,
           \A d \in SlotDeployments : dep[d].pc = "succeeded" => dep'[d].pc = "succeeded"
    PROVE  ResolvedOK'
  <1>1. ResolvedOK /\ (Holds(Desired)' <=> Holds(Desired)) /\ Desired' = Desired
    BY DEF IngressInv, Holds, Desired
  <1> QED BY <1>1 DEF ResolvedOK, Of

LEMMA RouteStep ==
    ASSUME IngressInv, NEW r \in Routes, NEW v \in RouteStates, route' = [route EXCEPT ![r] = v],
           UNCHANGED <<host, agent, caddy, dep, containers, resolved>>,
           v.observed = route[r].observed, v.revision >= route[r].revision,
           v.status \in {"pending", "degraded", "retiring", "retired"},
           v.status \in {"pending", "degraded"} => v.observed.revision # v.revision,
           route[r].status # "provisioning",
           route[r].status = "retiring" => v.status = "retired" /\ ~Of("retirement", r),
           v.status = "retired" => r \notin DOMAIN host.committed /\ r \notin DOMAIN Desired.routes
    PROVE  IngressInv'
  <1>1. /\ route \in [Routes -> RouteStates] /\ route'[r] = v
        /\ \A x \in Routes \ {r} : route'[x] = route[x]
        /\ Desired' = Desired
    BY DEF IngressInv, IngressTypes, Desired
  <1>2. IngressTypes'
    BY DEF IngressInv, IngressTypes
  <1>3. HistoryOK'
    <2>1. route[r].observed.revision <= route[r].revision /\ route[r].observed.revision \in Nat
          /\ route[r].revision \in Nat /\ v.revision \in Nat
      BY <1>1 DEF IngressInv, HistoryOK, RouteStates, Backends
    <2> QED BY <1>1, <2>1 DEF IngressInv, HistoryOK
  <1>4. OpOK'
    <2>1. OpOK /\ host.op.kind \in OpKinds
      BY HostIs DEF IngressInv
    <2>2. host.op.kind = "cutover" => CutoverOK'
      <3> SUFFICES ASSUME host.op.kind = "cutover" PROVE CutoverOK'
        OBVIOUS
      <3>1. CutoverOK /\ DOMAIN Desired.routes \subseteq Routes
        BY <2>1, HostIs, RouteMapIs DEF OpOK, IngressInv, Configs
      <3>2. \A x \in DOMAIN Desired.routes \ Desired.probe : route'[x].status = "retiring"
        BY <1>1, <3>1 DEF CutoverOK
      <3> QED BY <1>1, <3>1, <3>2 DEF CutoverOK
    <2>3. host.op.kind = "reconciliation" => ReconciliationOK'
      <3> SUFFICES ASSUME host.op.kind = "reconciliation" PROVE ReconciliationOK'
        OBVIOUS
      <3>1. ReconciliationOK /\ (host.op.state \in Uncommitted => \A x \in Desired.probe : route[x].status = "provisioning")
        BY <2>1 DEF OpOK
      <3>2. host.op.by # r
        BY <3>1 DEF ReconciliationOK
      <3> QED BY <1>1, <3>1, <3>2 DEF ReconciliationOK
    <2>4. host.op.kind = "retirement" => RetirementOK'
      <3> SUFFICES ASSUME host.op.kind = "retirement" PROVE RetirementOK'
        OBVIOUS
      <3>1. RetirementOK
        BY <2>1 DEF OpOK
      <3>2. host.op.by # r
        BY <3>1 DEF RetirementOK, Of
      <3> QED BY <1>1, <3>1, <3>2 DEF RetirementOK
    <2>5. host.op.state \in Uncommitted => \A x \in Desired.probe :
              route'[x].status = "provisioning" /\ route'[x].revision = Desired.routes[x].revision
      <3>1. Desired.probe \subseteq Routes
        BY HostIs DEF IngressInv, Configs
      <3> QED BY <1>1, <2>1, <3>1 DEF OpOK
    <2> QED BY <1>1, <2>2, <2>3, <2>4, <2>5 DEF OpOK
  <1>5. ASSUME NEW x \in Routes PROVE RouteOK(x)'
    <2>1. RouteOK(x) /\ (CommittedAs(x)' <=> CommittedAs(x)) /\ (Free' <=> Free)
      BY <1>1 DEF IngressInv, CommittedAs, Free
    <2>2. CASE x = r
      BY <1>1, <2>1, <2>2 DEF RouteOK
    <2>3. CASE x # r
      BY <1>1, <2>1, <2>3 DEF RouteOK
    <2> QED BY <2>2, <2>3
  <1>6. BackendsOK'
    <2>1. BackendsOK /\ DOMAIN host.committed \subseteq Routes
      BY HostIs, RouteMapIs DEF IngressInv
    <2>2. ASSUME NEW x \in DOMAIN host.committed PROVE Backed(x)'
      <3>1. Backed(x) /\ x \in Routes
        BY <2>1 DEF BackendsOK
      <3>2. route[x].status = "retiring" => route'[x].status = "retiring"
        BY <1>1, <3>1
      <3> QED BY <3>1, <3>2 DEF Backed, Kept, Owns, Of
    <2>3. CutoverBacked' <=> CutoverBacked
      BY DEF CutoverBacked, Kept, Superseded, Desired
    <2>4. ReconciliationBacked' <=> ReconciliationBacked
      BY DEF ReconciliationBacked, Kept, Desired
    <2> QED BY <2>1, <2>2, <2>3, <2>4 DEF BackendsOK
  <1>7. AgentOK' /\ PendingIsAbove' /\ ResolvedOK' /\ \A d \in SlotDeployments : DepOK(d)'
    BY AgentStays, DepsStay, ResolvedStays
  <1> QED BY <1>2, <1>3, <1>4, <1>5, <1>6, <1>7 DEF IngressInv

\* What a step of Deployment d alone, and of the containers, has to keep.
DepCareful(d) ==
    /\ UNCHANGED <<route, host, agent, caddy, resolved>>
    /\ dep' \in [SlotDeployments -> DepStates] /\ containers' \subseteq SlotDeployments
    /\ \A n \in SlotDeployments \ {d} : dep'[n] = dep[n]
    /\ dep[d].pc # "succeeded" /\ dep'[d].pc # "none"
    /\ dep'[d].reached = "ordinary" => dep'[d].pc = "succeeded"
    /\ dep[d].pc \in Committing => dep'[d].pc \in Committing \cup {"succeeded"}
    /\ DepOK(d)'
    /\ \A n \in SlotDeployments \ {d} : dep[n].pc \in KeptSteps /\ Kept(n) => Kept(n)'
    /\ \A r \in DOMAIN host.committed :
          route[r].status # "retiring" /\ Kept(host.committed[r].deployment) => Kept(host.committed[r].deployment)'
    /\ host.op.kind = "cutover" /\ host.op.state \in Uncommitted /\ CutoverBacked => CutoverBacked'
    /\ host.op.kind = "reconciliation" /\ host.op.state = "prepared" =>
          (Kept(Desired.routes[host.op.by].deployment) => Kept(Desired.routes[host.op.by].deployment)')

LEMMA DepStep ==
    ASSUME IngressInv, NEW d \in SlotDeployments, DepCareful(d)
    PROVE  IngressInv'
  <1>1. /\ UNCHANGED <<route, host, agent, caddy, resolved>>
        /\ dep' \in [SlotDeployments -> DepStates] /\ containers' \subseteq SlotDeployments
        /\ \A n \in SlotDeployments \ {d} : dep'[n] = dep[n]
        /\ \A n \in SlotDeployments : dep[n].pc = "succeeded" => dep'[n].pc = "succeeded"
        /\ \A n \in SlotDeployments :
               dep[n].pc \in Committing \cup {"succeeded"} => dep'[n].pc \in Committing \cup {"succeeded"}
    BY DEF DepCareful, Committing
  <1>2. IngressTypes' /\ HistoryOK'
    BY <1>1 DEF IngressInv, IngressTypes, HistoryOK, DepCareful
  <1>3. OpOK' /\ (\A r \in Routes : RouteOK(r)') /\ AgentOK' /\ PendingIsAbove'
    BY <1>1, RoutesStay, AgentStays
  <1>4. ResolvedOK'
    BY <1>1, ResolvedStays
  <1>5. ASSUME NEW n \in SlotDeployments PROVE DepOK(n)'
    <2>1. CASE n = d
      BY <2>1 DEF DepCareful
    <2>2. CASE n # d
      <3>1. DepOK(n) /\ dep'[n] = dep[n]
        BY <1>1, <2>2 DEF IngressInv
      <3>2. (Owns(n)' <=> Owns(n)) /\ (Ready(Desired)' <=> Ready(Desired))
        BY <1>1 DEF Owns, Of, Ready, Desired
      <3>3. dep[n].pc \in KeptSteps => Kept(n)'
        BY <2>2, <3>1 DEF DepOK, DepCareful
      <3> QED BY <1>1, <3>1, <3>2, <3>3 DEF DepOK, PcOK
    <2> QED BY <2>1, <2>2
  <1>6. BackendsOK'
    <2>1. BackendsOK
      BY DEF IngressInv
    <2>2. ASSUME NEW r \in DOMAIN host.committed PROVE Backed(r)'
      <3>1. Backed(r)
        BY <2>1 DEF BackendsOK
      <3>2. Kept(host.committed[r].deployment)' \/ route[r].status = "retiring"
        BY <3>1 DEF Backed, DepCareful
      <3>3. Owns(host.committed[r].deployment)' <=> Owns(host.committed[r].deployment)
        BY <1>1 DEF Owns, Of
      <3> QED BY <1>1, <3>1, <3>2, <3>3 DEF Backed, Kept, Owns, Of
    <2>3. host.op.kind = "cutover" /\ host.op.state \in Uncommitted => CutoverBacked'
      BY <2>1 DEF BackendsOK, DepCareful
    <2>4. host.op.kind = "reconciliation" => ReconciliationBacked'
      <3> SUFFICES ASSUME host.op.kind = "reconciliation" PROVE ReconciliationBacked'
        OBVIOUS
      <3>1. ReconciliationBacked /\ Desired' = Desired
        BY <1>1, <2>1 DEF BackendsOK, Desired
      <3>2. host.op.state = "prepared" => Kept(Desired.routes[host.op.by].deployment)'
        BY <3>1 DEF ReconciliationBacked, DepCareful
      <3> QED BY <1>1, <3>1, <3>2 DEF ReconciliationBacked, Kept
    <2> QED BY <1>1, <2>2, <2>3, <2>4 DEF BackendsOK
  <1> QED BY <1>2, <1>3, <1>4, <1>5, <1>6 DEF IngressInv

-----------------------------------------------------------------------------
(* The users of the routes.                                                *)

LEMMA RouteIs ==
    ASSUME IngressInv, NEW r \in Routes
    PROVE  /\ route[r] \in RouteStates /\ route[r].revision \in Nat /\ route[r].observed \in Backends
           /\ route[r].observed.revision \in Nat /\ route[r].observed.revision <= route[r].revision
           /\ route[r].revision >= route[r].revision
           /\ RouteOK(r)
  BY DEF IngressInv, IngressTypes, HistoryOK, RouteStates, Backends

LEMMA TransitionIs ==
    ASSUME IngressInv, NEW r \in Routes, NEW to \in Opened \cup {"retiring", "retired"}
    PROVE  /\ Transition(r, to) \in RouteStates /\ Transition(r, to).status = to
           /\ Transition(r, to).revision = route[r].revision /\ Transition(r, to).observed = route[r].observed
  BY RouteIs DEF Transition, RouteStates

LEMMA CanRetire ==
    ASSUME NEW r, CanTransition(r, "retiring"),
           route[r].status \in Opened \cup {"none", "retiring", "retired"}
    PROVE  route[r].status \in Opened
  BY DEF CanTransition, validTransition, Opened

LEMMA CreateRouteStep == ASSUME IngressInv, NEW r \in Routes, CreateRoute(r) PROVE IngressInv'
  <1>1. PICK v : v = [status |-> "pending", revision |-> 1, observed |-> route[r].observed]
    OBVIOUS
  <1>2. v \in RouteStates /\ v.observed = route[r].observed /\ v.revision = 1 /\ v.status = "pending"
    BY <1>1, RouteIs DEF RouteStates, Opened
  <1>3. route[r].status = "none" /\ route[r].revision = 0 /\ route[r].observed.revision = 0
    <2>1. /\ RouteOK(r) /\ route[r].observed.revision \in Nat
          /\ route[r].observed.revision <= route[r].revision
      BY RouteIs
    <2>2. route[r].status = "none"
      BY DEF CreateRoute
    <2>3. route[r].revision = 0
      BY <2>1, <2>2 DEF RouteOK
    <2> QED BY <2>1, <2>2, <2>3
  <1>4. route' = [route EXCEPT ![r] = v]
    BY <1>1 DEF CreateRoute, Asked
  <1>5. UNCHANGED <<host, agent, caddy, dep, containers, resolved>>
    BY DEF CreateRoute
  <1>6. v.revision >= route[r].revision /\ v.observed.revision # v.revision
    BY <1>2, <1>3
  <1> QED BY <1>2, <1>3, <1>4, <1>5, <1>6, RouteStep

LEMMA UpdateRouteStep == ASSUME IngressInv, NEW r \in Routes, UpdateRoute(r) PROVE IngressInv'
  <1>1. PICK v : v = [status |-> "pending", revision |-> route[r].revision + 1, observed |-> route[r].observed]
    OBVIOUS
  <1>2. /\ route[r].revision \in Nat /\ route[r].observed \in Backends /\ route[r].observed.revision \in Nat
        /\ route[r].observed.revision <= route[r].revision
    BY RouteIs
  <1>3. v \in RouteStates /\ v.observed = route[r].observed /\ v.revision = route[r].revision + 1 /\ v.status = "pending"
    BY <1>1, <1>2 DEF RouteStates, Opened
  <1>4. v.revision >= route[r].revision /\ v.observed.revision # v.revision
    BY <1>2, <1>3
  <1>6. route' = [route EXCEPT ![r] = v]
    BY <1>1 DEF UpdateRoute, Asked
  <1>5. UNCHANGED <<host, agent, caddy, dep, containers, resolved>>
        /\ route[r].status \in {"pending", "ready", "degraded"}
    BY DEF UpdateRoute
  <1> QED BY <1>3, <1>4, <1>5, <1>6, RouteStep

LEMMA BeginRetirementStep == ASSUME IngressInv, NEW r \in Routes, BeginRetirement(r) PROVE IngressInv'
  <1>1. PICK v : v = Transition(r, "retiring")
    OBVIOUS
  <1>2. v \in RouteStates /\ v.observed = route[r].observed /\ v.revision = route[r].revision /\ v.status = "retiring"
    BY <1>1, TransitionIs
  <1>3. route[r].status \in Opened \ {"provisioning"}
    BY RouteIs, CanRetire DEF BeginRetirement, RouteStates
  <1>4. route' = [route EXCEPT ![r] = v] /\ UNCHANGED <<host, agent, caddy, dep, containers, resolved>>
    BY <1>1 DEF BeginRetirement
  <1>5. v.revision >= route[r].revision
    <2>1. route[r].revision \in Nat
      BY RouteIs
    <2> QED BY <1>2, <2>1
  <1> QED BY <1>2, <1>3, <1>4, <1>5, RouteStep DEF Opened

\* The reconciler finds that the Release has no such port.
LEMMA DegradeStep ==
    ASSUME IngressInv, NEW r \in Routes, route' = [route EXCEPT ![r] = Degrade(r)],
           UNCHANGED <<host, agent, caddy, dep, containers, resolved>>
    PROVE  IngressInv'
  <1>1. CASE route[r].status = "pending" /\ CanTransition(r, "degraded")
    <2>1. PICK v : v = Transition(r, "degraded")
      OBVIOUS
    <2>2. v \in RouteStates /\ v.observed = route[r].observed /\ v.revision = route[r].revision /\ v.status = "degraded"
      BY <2>1, TransitionIs DEF Opened
    <2>3. route' = [route EXCEPT ![r] = v]
      BY <1>1, <2>1 DEF Degrade
    <2>4. v.observed.revision # v.revision /\ v.revision >= route[r].revision
      <3>1. RouteOK(r) /\ route[r].revision \in Nat
        BY RouteIs
      <3> QED BY <1>1, <2>2, <3>1 DEF RouteOK
    <2> QED BY <1>1, <2>2, <2>3, <2>4, RouteStep
  <1>2. CASE ~(route[r].status = "pending" /\ CanTransition(r, "degraded"))
    <2>1. Degrade(r) = route[r]
      BY <1>2 DEF Degrade
    <2>2. route' = route
      BY <2>1 DEF IngressInv, IngressTypes
    <2>3. AgentOK' /\ PendingIsAbove' /\ ResolvedOK' /\ (\A d \in SlotDeployments : DepOK(d)')
          /\ OpOK' /\ \A x \in Routes : RouteOK(x)'
      BY <2>2, AgentStays, DepsStay, ResolvedStays, RoutesStay
    <2>4. BackendsOK'
      BY <2>2 DEF IngressInv, BackendsOK, Backed, CutoverBacked, ReconciliationBacked, Kept, Owns, Of, Desired, Superseded
    <2>5. IngressTypes' /\ HistoryOK'
      BY <2>2 DEF IngressInv, IngressTypes, HistoryOK
    <2> QED BY <2>3, <2>4, <2>5 DEF IngressInv
  <1> QED BY <1>1, <1>2

\* A route that no host knows is retired at once.
LEMMA UnknownRetires ==
    ASSUME IngressInv, NEW r \in Routes, route[r].status = "retiring", ~Of("retirement", r), ~Known(r),
           route' = [route EXCEPT ![r] = Transition(r, "retired")],
           UNCHANGED <<host, agent, caddy, dep, containers, resolved>>
    PROVE  IngressInv'
  <1>1. PICK v : v = Transition(r, "retired")
    OBVIOUS
  <1>2. v \in RouteStates /\ v.observed = route[r].observed /\ v.revision = route[r].revision /\ v.status = "retired"
    BY <1>1, TransitionIs
  <1>3. r \notin DOMAIN host.committed
    BY DEF Known
  <1>4. r \notin DOMAIN Desired.routes
    <2>1. OpOK /\ AgentOK /\ host.op.kind \in OpKinds
      BY HostIs DEF IngressInv
    <2>2. CASE host.op.kind = "none"
      <3>1. host.op = NoOp
        BY <2>1, <2>2 DEF AgentOK, Free
      <3>2. Desired.routes = <<>>
        BY <3>1, NoOpIs, NoConfigIs DEF Desired
      <3> QED BY <3>2, EmptyMap
    <2>3. CASE host.op.kind = "cutover"
      BY <2>3 DEF Known, Desired
    <2>4. CASE host.op.kind = "reconciliation"
      <3>1. ReconciliationOK /\ route[host.op.by].status = "provisioning"
        BY <2>1, <2>4 DEF OpOK, ReconciliationOK
      <3> QED BY <3>1, <1>3 DEF ReconciliationOK
    <2>5. CASE host.op.kind = "retirement"
      <3>1. RetirementOK
        BY <2>1, <2>5 DEF OpOK
      <3> QED BY <3>1, <1>3 DEF RetirementOK
    <2> QED BY <2>1, <2>2, <2>3, <2>4, <2>5 DEF OpKinds
  <1>5. v.revision >= route[r].revision
    <2>1. route[r].revision \in Nat
      BY RouteIs
    <2> QED BY <1>2, <2>1
  <1> QED BY <1>1, <1>2, <1>3, <1>4, <1>5, RouteStep

-----------------------------------------------------------------------------
(* Steps of one Deployment that change nothing else.                       *)

LEMMA DepIs ==
    ASSUME IngressInv, NEW d \in SlotDeployments
    PROVE  /\ dep[d].pc \in DepSteps /\ DepOK(d) /\ PcOK(d, dep[d].pc)
           /\ dep[d].reached = "ordinary" => dep[d].pc = "succeeded"
           /\ dep[d].pc \in KeptSteps => Kept(d)
  BY DEF IngressInv, IngressTypes, HistoryOK, DepStates, DepOK

LEMMA GoIs ==
    ASSUME IngressTypes, NEW d \in SlotDeployments, NEW pc \in DepSteps, Go(d, pc)
    PROVE  /\ dep' \in [SlotDeployments -> DepStates] /\ dep'[d].pc = pc
           /\ dep'[d].reached = dep[d].reached
           /\ \A n \in SlotDeployments \ {d} : dep'[n] = dep[n]
  <1>1. PICK v : v = [dep[d] EXCEPT !.pc = pc]
    OBVIOUS
  <1>2. v \in DepStates /\ v.pc = pc /\ v.reached = dep[d].reached
    BY <1>1 DEF IngressTypes, DepStates
  <1>3. dep' = [dep EXCEPT ![d] = v]
    BY <1>1 DEF Go
  <1> QED BY <1>2, <1>3 DEF IngressTypes

LEMMA ReachIs ==
    ASSUME IngressTypes, NEW d \in SlotDeployments, NEW pc \in DepSteps,
           NEW how \in {"managed", "ordinary"}, Reach(d, pc, how)
    PROVE  /\ dep' \in [SlotDeployments -> DepStates] /\ dep'[d].pc = pc /\ dep'[d].reached = how
           /\ \A n \in SlotDeployments \ {d} : dep'[n] = dep[n]
  <1>1. PICK v : v = [pc |-> pc, canceled |-> dep[d].canceled, reached |-> how]
    OBVIOUS
  <1>2. v \in DepStates /\ v.pc = pc /\ v.reached = how
    BY <1>1 DEF IngressTypes, DepStates
  <1>3. dep' = [dep EXCEPT ![d] = v]
    BY <1>1 DEF Reach
  <1> QED BY <1>2, <1>3 DEF IngressTypes

\* Deployment d goes to pc and, at most, is reached.
Goes2(d, pc) ==
    /\ dep' \in [SlotDeployments -> DepStates] /\ dep'[d].pc = pc
    /\ \A n \in SlotDeployments \ {d} : dep'[n] = dep[n]
    /\ dep'[d].reached = "ordinary" => pc = "succeeded"
    /\ dep[d].pc # "succeeded" /\ pc # "none"
    /\ dep[d].pc \in Committing => pc \in Committing \cup {"succeeded"}

LEMMA GoesByGo ==
    ASSUME IngressInv, NEW d \in SlotDeployments, NEW pc \in DepSteps \ {"none"}, Go(d, pc),
           dep[d].pc # "succeeded", dep[d].pc \in Committing => pc \in Committing \cup {"succeeded"}
    PROVE  Goes2(d, pc)
  <1>1. IngressTypes /\ dep[d].reached # "ordinary"
    BY DepIs DEF IngressInv
  <1> QED BY <1>1, GoIs DEF Goes2

\* A container stays unless it is removed.
LEMMA KeptStays ==
    ASSUME IngressInv, NEW d \in SlotDeployments, NEW pc, Goes2(d, pc), NEW n \in SlotDeployments, Kept(n),
           n \in containers => n \in containers'
    PROVE  Kept(n)'
  <1>1. \A m \in SlotDeployments : dep[m].reached = "ordinary" => m # d
    BY DepIs DEF Goes2
  <1>2. \A m \in SlotDeployments : dep[m].reached = "ordinary" => dep'[m].reached = "ordinary"
    BY <1>1 DEF Goes2
  <1> QED BY <1>2 DEF Kept

LEMMA SupersededStays ==
    ASSUME NEW d \in SlotDeployments, NEW pc, Goes2(d, pc), NEW n, Superseded(n)
    PROVE  Superseded(n)'
  <1>1. \A m \in SlotDeployments : dep[m].pc # "none" => dep'[m].pc # "none"
    BY DEF Goes2
  <1> QED BY <1>1 DEF Superseded

LEMMA QuietStep ==
    ASSUME IngressInv, NEW d \in SlotDeployments, NEW pc \in DepSteps, Goes2(d, pc),
           UNCHANGED <<route, host, agent, caddy, resolved>>, containers' \subseteq SlotDeployments,
           \A n \in SlotDeployments : Kept(n) => Kept(n)',
           PcOK(d, pc), pc \in KeptSteps => Kept(d)'
    PROVE  IngressInv'
  <1>1. DepOK(d)'
    <2>1. (Owns(d)' <=> Owns(d)) /\ (Ready(Desired)' <=> Ready(Desired)) /\ dep'[d].pc = pc
      BY DEF Owns, Of, Ready, Desired, Goes2
    <2>2. PcOK(d, dep[d].pc)'
      BY <2>1 DEF PcOK
    <2> QED BY <2>1, <2>2 DEF DepOK
  <1>2. BackendsOK /\ OpOK
    BY DEF IngressInv
  <1>3. \A r \in DOMAIN host.committed :
            Kept(host.committed[r].deployment) => Kept(host.committed[r].deployment)'
    BY <1>2 DEF BackendsOK, Backed
  <1>4. host.op.kind = "cutover" /\ CutoverBacked => CutoverBacked'
    <2> SUFFICES ASSUME host.op.kind = "cutover", CutoverBacked PROVE CutoverBacked'
      OBVIOUS
    <2>1. PICK by : by = host.op.by
      OBVIOUS
    <2>2. by \in SlotDeployments /\ Desired' = Desired /\ host'.op.by = by
      BY <1>2, <2>1 DEF OpOK, CutoverOK, Desired
    <2>3. Superseded(by) => Superseded(by)'
      BY SupersededStays
    <2>4. agent.pending = Desired => Kept(by)' \/ Superseded(by)'
      BY <2>1, <2>2, <2>3 DEF CutoverBacked
    <2> QED BY <2>1, <2>2, <2>4 DEF CutoverBacked, Kept, Superseded
  <1>5. host.op.kind = "reconciliation" =>
            (Kept(Desired.routes[host.op.by].deployment) => Kept(Desired.routes[host.op.by].deployment)')
    BY <1>2 DEF BackendsOK, ReconciliationBacked, Desired
  <1>6. DepCareful(d)
    BY <1>1, <1>3, <1>4, <1>5 DEF DepCareful, Goes2
  <1> QED BY <1>6, DepStep

\* A step that leaves the containers as well.
LEMMA PlainStep ==
    ASSUME IngressInv, NEW d \in SlotDeployments, NEW pc \in DepSteps \ {"none"},
           Go(d, pc), dep[d].pc # "succeeded", dep[d].pc \in Committing => pc \in Committing \cup {"succeeded"},
           UNCHANGED <<route, host, agent, caddy, containers, resolved>>,
           PcOK(d, pc), pc \in KeptSteps => Kept(d)
    PROVE  IngressInv'
  <1>1. Goes2(d, pc)
    BY GoesByGo
  <1>2. \A n \in SlotDeployments : Kept(n) => Kept(n)'
    BY <1>1, KeptStays
  <1>3. containers' \subseteq SlotDeployments
    BY DEF IngressInv, IngressTypes
  <1> QED BY <1>1, <1>2, <1>3, QuietStep

LEMMA CreateDeploymentStep ==
    ASSUME IngressInv, NEW d \in SlotDeployments, CreateDeployment(d) PROVE IngressInv'
  <1>1. PcOK(d, "none") /\ dep[d].pc = "none"
    BY DepIs DEF CreateDeployment
  <1>2. PcOK(d, "queued")
    BY <1>1 DEF PcOK, ManagedPhase, Committing, Waiting
  <1> QED BY <1>1, <1>2, PlainStep DEF CreateDeployment, DepSteps, Waiting, KeptSteps, Committing

LEMMA CancelDeploymentStep ==
    ASSUME IngressInv, NEW d \in SlotDeployments, CancelDeployment(d) PROVE IngressInv'
  <1>1. /\ dep[d].pc \notin Committing \cup {"none", "succeeded"} /\ PcOK(d, dep[d].pc)
        /\ dep[d].reached # "ordinary"
    BY DepIs DEF CancelDeployment, Committing
  <1>2. PcOK(d, "canceling")
    BY <1>1 DEF PcOK, ManagedPhase, Committing, Waiting
  <1>3. PICK v : v = [pc |-> "canceling", canceled |-> TRUE, reached |-> dep[d].reached]
    OBVIOUS
  <1>4. v \in DepStates /\ v.pc = "canceling" /\ v.reached # "ordinary"
    BY <1>1, <1>3 DEF IngressInv, IngressTypes, DepStates, DepSteps, Waiting
  <1>5. dep' = [dep EXCEPT ![d] = v] /\ UNCHANGED <<route, host, agent, caddy, containers, resolved>>
    BY <1>3 DEF CancelDeployment
  <1>6. Goes2(d, "canceling")
    BY <1>1, <1>4, <1>5 DEF Goes2, IngressInv, IngressTypes
  <1>7. \A n \in SlotDeployments : Kept(n) => Kept(n)'
    BY <1>5, <1>6, KeptStays
  <1>8. containers' \subseteq SlotDeployments
    BY <1>5 DEF IngressInv, IngressTypes
  <1> QED BY <1>2, <1>5, <1>6, <1>7, <1>8, QuietStep DEF DepSteps, Waiting, KeptSteps, Committing

LEMMA CancelExecutionStep ==
    ASSUME IngressInv, NEW d \in SlotDeployments, CancelExecution(d) PROVE IngressInv'
  <1>1. PcOK(d, "canceling") /\ dep[d].pc = "canceling"
        /\ UNCHANGED <<route, host, agent, caddy, containers, resolved>>
    BY DepIs DEF CancelExecution
  <1>2. CASE Owns(d)
    <2>1. PcOK(d, "restore") /\ Go(d, "restore")
      BY <1>1, <1>2 DEF PcOK, ManagedPhase, Committing, Waiting, CancelExecution, Owns
    <2> QED BY <1>1, <2>1, PlainStep DEF DepSteps, ManagedPhase, KeptSteps, Committing
  <1>3. CASE ~Owns(d)
    <2>1. PcOK(d, "canceled") /\ Go(d, "canceled")
      BY <1>1, <1>3 DEF PcOK, ManagedPhase, Committing, Waiting, CancelExecution, Owns
    <2> QED BY <1>1, <2>1, PlainStep DEF DepSteps, KeptSteps, Committing
  <1> QED BY <1>2, <1>3

LEMMA TakeoverStep ==
    ASSUME IngressInv, NEW d \in SlotDeployments, Takeover(d) PROVE IngressInv'
  <1>1. PcOK(d, dep[d].pc) /\ UNCHANGED <<route, host, agent, caddy, containers, resolved>>
        /\ dep[d].pc \in ManagedPhase \cup {"managed", "draining", "retired"}
        /\ (dep[d].pc \in KeptSteps => Kept(d))
    BY DepIs DEF Takeover, ManagedPhase
  <1>2. CASE dep[d].pc \in {"draining", "retired"}
    <2>1. PcOK(d, "committing") /\ Go(d, "committing") /\ dep[d].pc \in KeptSteps
      BY <1>1, <1>2 DEF PcOK, ManagedPhase, Committing, Waiting, Takeover, KeptSteps
    <2> QED BY <1>1, <1>2, <2>1, PlainStep DEF DepSteps, Committing
  <1>3. CASE dep[d].pc \notin {"draining", "retired"}
    <2>1. PICK pc : pc = Again(d)
      OBVIOUS
    <2>2. pc \in {"canceling", "queued"}
      BY <2>1 DEF Again
    <2>3. PcOK(d, pc) /\ dep[d].pc # "succeeded" /\ dep[d].pc \notin Committing
      BY <1>1, <1>3, <2>2 DEF PcOK, ManagedPhase, Committing, Waiting
    <2>4. Go(d, pc)
      BY <1>3, <2>1 DEF Takeover
    <2> QED BY <1>1, <2>2, <2>3, <2>4, PlainStep DEF DepSteps, KeptSteps, Committing, Waiting
  <1> QED BY <1>2, <1>3

\* A Deployment that owns a cutover finds the routes that it is provisioning.
LEMMA OwnerHasRoutes ==
    ASSUME IngressInv, NEW d \in SlotDeployments, Owns(d), host.op.state \in Uncommitted
    PROVE  Eligible # {}
  <1>1. Desired.probe # {} /\ Desired.probe \subseteq Routes
    BY HostIs DEF IngressInv, OpOK, CutoverOK, Owns, Of, Configs
  <1>2. \A r \in Desired.probe : route[r].status = "provisioning"
    BY DEF IngressInv, OpOK
  <1> QED BY <1>1, <1>2 DEF Eligible

LEMMA RequiredStep ==
    ASSUME IngressInv, NEW d \in SlotDeployments, Required(d) PROVE IngressInv'
  <1>1. PcOK(d, "queued") /\ dep[d].pc = "queued"
        /\ UNCHANGED <<route, host, agent, caddy, containers, resolved>>
    BY DepIs DEF Required
  <1>2. CASE Eligible # {}
    <2>1. PcOK(d, "managed") /\ Go(d, "managed")
      BY <1>1, <1>2 DEF PcOK, ManagedPhase, Committing, Waiting, Required
    <2> QED BY <1>1, <2>1, PlainStep DEF DepSteps, Waiting, KeptSteps, Committing
  <1>3. CASE Eligible = {}
    <2>1. ~Owns(d)
      BY <1>1, <1>3, OwnerHasRoutes DEF PcOK, Committing
    <2>2. PcOK(d, "ordinary") /\ Go(d, "ordinary")
      BY <1>3, <2>1 DEF PcOK, ManagedPhase, Committing, Required
    <2> QED BY <1>1, <2>2, PlainStep DEF DepSteps, KeptSteps, Committing
  <1> QED BY <1>2, <1>3

LEMMA DeployOrdinaryStep ==
    ASSUME IngressInv, NEW d \in SlotDeployments, DeployOrdinary(d) PROVE IngressInv'
  <1>1. PcOK(d, "ordinary") /\ dep[d].pc = "ordinary" /\ UNCHANGED <<route, host, agent, caddy, resolved>>
    BY DepIs DEF DeployOrdinary
  <1>2. ~Owns(d)
    BY <1>1 DEF PcOK, ManagedPhase, Committing, Waiting
  <1>3. CASE Go(d, "failed") /\ UNCHANGED containers
    <2>1. PcOK(d, "failed")
      BY <1>2 DEF PcOK, ManagedPhase, Committing
    <2> QED BY <1>1, <1>3, <2>1, PlainStep DEF DepSteps, KeptSteps, Committing
  <1>4. CASE Reach(d, "succeeded", "ordinary") /\ containers' = (containers \ Older(d)) \cup {d}
    <2>1. PcOK(d, "succeeded") /\ "succeeded" \in DepSteps /\ "succeeded" \notin KeptSteps
      BY <1>2 DEF PcOK, ManagedPhase, Committing, DepSteps, KeptSteps
    <2>2. /\ dep' \in [SlotDeployments -> DepStates] /\ dep'[d].pc = "succeeded" /\ dep'[d].reached = "ordinary"
          /\ \A n \in SlotDeployments \ {d} : dep'[n] = dep[n]
      BY <1>4, <2>1, ReachIs DEF IngressInv
    <2>3. Goes2(d, "succeeded")
      BY <1>1, <2>2 DEF Goes2
    <2>4. ASSUME NEW n \in SlotDeployments, Kept(n) PROVE Kept(n)'
      <3>1. CASE n < d
        BY <2>2, <3>1 DEF Kept
      <3>2. CASE ~(n < d)
        <4>1. n \in containers => n \in containers'
          BY <1>4, <3>2 DEF Older
        <4> QED BY <2>3, <2>4, <4>1, KeptStays
      <3> QED BY <3>1, <3>2
    <2>5. containers' \subseteq SlotDeployments
      BY <1>4 DEF IngressInv, IngressTypes
    <2> QED BY <1>1, <2>1, <2>3, <2>4, <2>5, QuietStep
  <1> QED BY <1>3, <1>4 DEF DeployOrdinary

LEMMA StageStep ==
    ASSUME IngressInv, NEW d \in SlotDeployments, Stage(d) PROVE IngressInv'
  <1>1. PcOK(d, "begun") /\ dep[d].pc = "begun" /\ UNCHANGED <<route, host, agent, caddy, resolved>>
    BY DepIs DEF Stage
  <1>2. Owns(d) /\ host.op.state \in Uncommitted
    BY <1>1 DEF PcOK, ManagedPhase
  <1>3. PcOK(d, "staged") /\ PcOK(d, "restore")
    BY <1>2 DEF PcOK, ManagedPhase, Committing
  <1>4. CASE Go(d, "restore") /\ UNCHANGED containers
    BY <1>1, <1>3, <1>4, PlainStep DEF DepSteps, ManagedPhase, KeptSteps, Committing
  <1>5. CASE Reach(d, "staged", "managed") /\ containers' = containers \cup {d}
    <2>1. /\ dep' \in [SlotDeployments -> DepStates] /\ dep'[d].pc = "staged" /\ dep'[d].reached = "managed"
          /\ \A n \in SlotDeployments \ {d} : dep'[n] = dep[n]
      BY <1>5, ReachIs DEF IngressInv, DepSteps, ManagedPhase
    <2>2. Goes2(d, "staged") /\ "staged" \in DepSteps
      BY <1>1, <2>1 DEF Goes2, DepSteps, ManagedPhase, Committing
    <2>3. \A n \in SlotDeployments : Kept(n) => Kept(n)'
      BY <1>5, <2>2, KeptStays
    <2>4. containers' \subseteq SlotDeployments /\ Kept(d)'
      BY <1>5 DEF IngressInv, IngressTypes, Kept
    <2> QED BY <1>1, <1>3, <2>2, <2>3, <2>4, QuietStep
  <1>6. CASE Reach(d, "restore", "managed") /\ UNCHANGED containers
    <2>1. /\ dep' \in [SlotDeployments -> DepStates] /\ dep'[d].pc = "restore" /\ dep'[d].reached = "managed"
          /\ \A n \in SlotDeployments \ {d} : dep'[n] = dep[n]
      BY <1>6, ReachIs DEF IngressInv, DepSteps, ManagedPhase
    <2>2. Goes2(d, "restore") /\ "restore" \in DepSteps /\ "restore" \notin KeptSteps
      BY <1>1, <2>1 DEF Goes2, DepSteps, ManagedPhase, Committing, KeptSteps
    <2>3. \A n \in SlotDeployments : Kept(n) => Kept(n)'
      BY <1>6, <2>2, KeptStays
    <2>4. containers' \subseteq SlotDeployments
      BY <1>6 DEF IngressInv, IngressTypes
    <2> QED BY <1>1, <1>3, <2>2, <2>3, <2>4, QuietStep
  <1> QED BY <1>4, <1>5, <1>6 DEF Stage

\* The owner of a cutover is alone with the host's document.
LEMMA OneOwner ==
    ASSUME IngressInv, NEW d \in SlotDeployments, NEW n \in SlotDeployments \ {d}, Owns(d)
    PROVE  dep[n].pc \notin ManagedPhase \cup Committing
  BY DepIs DEF PcOK, Owns, Of, Committing

\* The owner of an uncommitted cutover removes its candidate.
LEMMA CandidateGoes ==
    ASSUME IngressInv, NEW d \in SlotDeployments, NEW pc \in {"restore", "finalize"},
           Owns(d), host.op.state \in Uncommitted, dep[d].pc \in ManagedPhase, Go(d, pc),
           containers' = containers \ {d}, UNCHANGED <<route, host, agent, caddy, resolved>>,
           pc = "finalize" => agent.pending = NoConfig,
           agent.pending = NoConfig \/ Superseded(d)
    PROVE  IngressInv'
  <1>1. Goes2(d, pc)
    BY GoesByGo DEF ManagedPhase, Committing, DepSteps
  <1>2. \A n \in SlotDeployments \ {d} : Kept(n) => Kept(n)'
    BY <1>1, KeptStays
  <1>3. DepOK(d)'
    <2>1. Owns(d)' /\ host'.op.state \in Uncommitted /\ dep'[d].pc = pc
      BY <1>1 DEF Owns, Of, Goes2
    <2> QED BY <2>1 DEF DepOK, PcOK, KeptSteps, ManagedPhase, Committing
  <1>4. ASSUME NEW r \in DOMAIN host.committed, Kept(host.committed[r].deployment)
        PROVE  Kept(host.committed[r].deployment)'
    <2>1. Backed(r)
      BY DEF IngressInv, BackendsOK
    <2>2. host.committed[r].deployment \in SlotDeployments \ {d}
      BY <2>1 DEF Backed, Uncommitted
    <2> QED BY <1>2, <1>4, <2>2
  <1>5. CutoverBacked'
    <2>1. Desired # NoConfig /\ Desired' = Desired /\ host'.op.by = d
      BY NoConfigIs, NoOpIs DEF IngressInv, AgentOK, Free, Owns, Of, Desired
    <2>2. Superseded(d) => Superseded(d)'
      BY <1>1, SupersededStays
    <2>3. agent.pending = Desired => Superseded(d)'
      BY <2>1, <2>2
    <2> QED BY <2>1, <2>3 DEF CutoverBacked, Superseded
  <1>6. containers' \subseteq SlotDeployments
    BY DEF IngressInv, IngressTypes
  <1>7. DepCareful(d)
    BY <1>1, <1>2, <1>3, <1>4, <1>5, <1>6 DEF DepCareful, Goes2, Owns, Of
  <1> QED BY <1>7, DepStep

LEMMA ActivateStep ==
    ASSUME IngressInv, NEW d \in SlotDeployments, Activate(d) PROVE IngressInv'
  <1>1. PcOK(d, "prepared") /\ dep[d].pc = "prepared" /\ Kept(d) /\ UNCHANGED <<route, host, agent, caddy, resolved>>
    BY DepIs DEF Activate, KeptSteps
  <1>2. Owns(d) /\ host.op.state \in Uncommitted
    BY <1>1 DEF PcOK, ManagedPhase
  <1>3. PcOK(d, "activated") /\ PcOK(d, "restore")
    BY <1>1, <1>2 DEF PcOK, ManagedPhase, Committing
  <1>4. CASE Go(d, "activated") /\ UNCHANGED containers
    BY <1>1, <1>3, <1>4, PlainStep DEF DepSteps, ManagedPhase, Committing
  <1>5. CASE Go(d, "restore") /\ UNCHANGED containers
    BY <1>1, <1>3, <1>5, PlainStep DEF DepSteps, ManagedPhase, KeptSteps, Committing
  <1>6. CASE Superseded(d) /\ Go(d, "restore") /\ containers' = containers \ {d}
    BY <1>1, <1>2, <1>6, CandidateGoes DEF ManagedPhase
  <1> QED BY <1>4, <1>5, <1>6 DEF Activate

LEMMA CancelPreparedStep ==
    ASSUME IngressInv, NEW d \in SlotDeployments, CancelPrepared(d) PROVE IngressInv'
  <1>1. PcOK(d, "remove") /\ dep[d].pc = "remove" /\ UNCHANGED <<route, host, agent, caddy, resolved>>
    BY DepIs DEF CancelPrepared
  <1>2. Owns(d) /\ host.op.state \in Uncommitted /\ agent.pending = NoConfig
    BY <1>1 DEF PcOK, ManagedPhase
  <1>3. CASE Superseded(d)
    <2>1. PICK pc : pc = Again(d)
      OBVIOUS
    <2>2. pc \in {"canceling", "queued"} /\ Go(d, pc) /\ UNCHANGED containers
      BY <1>3, <2>1 DEF Again, CancelPrepared
    <2>3. PcOK(d, pc)
      BY <1>2, <2>2 DEF PcOK, ManagedPhase, Committing, Waiting
    <2> QED BY <1>1, <2>2, <2>3, PlainStep DEF DepSteps, KeptSteps, Committing, Waiting
  <1>4. CASE ~Superseded(d)
    BY <1>1, <1>2, <1>4, CandidateGoes DEF ManagedPhase, CancelPrepared
  <1> QED BY <1>3, <1>4

\* The owner of a committed cutover removes the older containers: nothing that
\* is committed is served by them, unless its route is being retired.
LEMMA RetirePreviousStep ==
    ASSUME IngressInv, NEW d \in SlotDeployments, RetirePrevious(d) PROVE IngressInv'
  <1>1. PcOK(d, "draining") /\ dep[d].pc = "draining" /\ Kept(d) /\ UNCHANGED <<route, host, agent, caddy, resolved>>
        /\ Go(d, "retired") /\ containers' = containers \ Older(d)
    BY DepIs DEF RetirePrevious, KeptSteps, Committing
  <1>2. Owns(d) /\ host.op.state = "gateway_committed" /\ host.op.kind = "cutover" /\ host.op.by = d
    BY <1>1 DEF PcOK, Owns, Of
  <1>3. Goes2(d, "retired")
    BY <1>1, GoesByGo DEF DepSteps, Committing
  <1>4. Kept(d)'
    <2>1. d \in containers => d \in containers'
      <3>1. d \in Nat
        BY IngressAssumption
      <3> QED BY <1>1, <3>1 DEF Older
    <2> QED BY <1>1, <1>3, <2>1, KeptStays
  <1>5. DepOK(d)'
    <2>1. Owns(d)' /\ host'.op.state = "gateway_committed" /\ dep'[d].pc = "retired"
      BY <1>1, <1>2, <1>3 DEF Owns, Of, Goes2
    <2> QED BY <2>1, <1>4 DEF DepOK, PcOK, KeptSteps, ManagedPhase, Committing, Uncommitted
  <1>6. ASSUME NEW r \in DOMAIN host.committed, route[r].status # "retiring"
        PROVE  host.committed[r].deployment = d
    <2>1. host.committed = Desired.routes /\ CutoverOK
      BY <1>2 DEF IngressInv, AgentOK, OpOK
    <2>2. r \in Desired.probe
      BY <1>6, <2>1 DEF CutoverOK
    <2> QED BY <1>2, <2>1, <2>2 DEF CutoverOK
  <1>7. ASSUME NEW r \in DOMAIN host.committed, route[r].status # "retiring"
        PROVE  Kept(host.committed[r].deployment)'
    BY <1>1, <1>4, <1>6, <1>7 DEF Kept
  <1>8. \A n \in SlotDeployments \ {d} : dep[n].pc \notin KeptSteps
    BY <1>2, OneOwner DEF KeptSteps, ManagedPhase
  <1>9. containers' \subseteq SlotDeployments
    BY <1>1 DEF IngressInv, IngressTypes
  <1>10. DepCareful(d)
    BY <1>1, <1>2, <1>3, <1>5, <1>7, <1>8, <1>9 DEF DepCareful, Goes2, Uncommitted
  <1> QED BY <1>10, DepStep

\* A cutover that is not begun now: the Deployment has it, fails or waits.
LEMMA NotBegunStep ==
    ASSUME IngressInv, NEW d \in SlotDeployments, dep[d].pc = "managed",
           UNCHANGED <<route, host, agent, caddy, containers, resolved>>,
           (Owns(d) /\ Go(d, "begun")) \/ (~Owns(d) /\ (Go(d, "failed") \/ Go(d, "queued")))
    PROVE  IngressInv'
  <1>1. PcOK(d, "managed")
    BY DepIs
  <1>2. CASE Owns(d) /\ Go(d, "begun")
    <2>1. PcOK(d, "begun")
      BY <1>1, <1>2 DEF PcOK, ManagedPhase, Committing, Waiting
    <2> QED BY <1>2, <2>1, PlainStep DEF DepSteps, ManagedPhase, KeptSteps, Committing
  <1>3. CASE ~Owns(d) /\ Go(d, "failed")
    <2>1. PcOK(d, "failed")
      BY <1>1, <1>3 DEF PcOK, ManagedPhase, Committing, Waiting
    <2> QED BY <1>3, <2>1, PlainStep DEF DepSteps, KeptSteps, Committing
  <1>4. CASE ~Owns(d) /\ Go(d, "queued")
    <2>1. PcOK(d, "queued")
      BY <1>1, <1>4 DEF PcOK, ManagedPhase, Committing, Waiting
    <2> QED BY <1>4, <2>1, PlainStep DEF DepSteps, Waiting, KeptSteps, Committing
  <1> QED BY <1>2, <1>3, <1>4

-----------------------------------------------------------------------------
(* Steps of the host's document.                                           *)

\* A Deployment without the host's operation is not in a cutover.
LEMMA NotOwner ==
    ASSUME IngressInv, NEW n \in SlotDeployments, ~Owns(n)
    PROVE  dep[n].pc \notin ManagedPhase \cup Committing
  BY DepIs DEF PcOK, Committing

LEMMA OtherDepStep ==
    ASSUME IngressInv, NEW n \in SlotDeployments, ~Owns(n), ~Owns(n)', dep'[n] = dep[n]
    PROVE  DepOK(n)'
  BY NotOwner DEF DepOK, PcOK, KeptSteps, ManagedPhase, Committing

\* The reconciler that has no operation keeps what it read.
LEMMA ReadingStays ==
    ASSUME IngressInv, host.op.kind # "reconciliation", UNCHANGED resolved,
           \A d \in SlotDeployments : dep[d].pc = "succeeded" => dep'[d].pc = "succeeded"
    PROVE  ResolvedOK'
  <1>1. ResolvedOK /\ resolved.pc \notin {"begun", "failed", "committed"}
    BY DEF IngressInv, ResolvedOK, Of
  <1> QED BY <1>1 DEF ResolvedOK

\* What is free provisions nothing and carries no route.
LEMMA FreeIs ==
    ASSUME IngressInv, Free
    PROVE  /\ host.op.kind = "none" /\ host.op.state = "none" /\ Desired = NoConfig
           /\ \A n \in SlotDeployments : ~Owns(n)
           /\ \A r \in Routes : route[r].status # "provisioning"
           /\ \A r \in Routes : route[r].status = "ready" => CommittedAs(r)
           /\ \A r \in Routes : route[r].status \in {"none", "retired"} => r \notin DOMAIN host.committed
           /\ agent.committed.routes = host.committed /\ agent.pending = NoConfig /\ caddy = host.committed
           /\ agent.committed.revision <= host.revision
  <1>1. host.op.kind = "none" /\ host.op.state = "none" /\ Desired = NoConfig
    BY NoOpIs DEF Free, Desired
  <1>2. \A n \in SlotDeployments : ~Owns(n)
    BY <1>1 DEF Owns, Of
  <1>3. \A r \in Routes : RouteOK(r)
    BY DEF IngressInv
  <1>4. \A r \in Routes : /\ route[r].status # "provisioning"
                          /\ route[r].status = "ready" => CommittedAs(r)
                          /\ route[r].status \in {"none", "retired"} => r \notin DOMAIN host.committed
    BY <1>1, <1>3 DEF RouteOK, Uncommitted
  <1>5. AgentOK
    BY DEF IngressInv
  <1> QED BY <1>1, <1>2, <1>4, <1>5 DEF AgentOK

\* What a new operation finds at the Agent.
LEMMA AllocatedIs ==
    ASSUME IngressInv, Free, NEW kind \in OpKinds \ {"none"}, NEW by \in SlotDeployments \cup Routes,
           NEW c \in Configs, Allocate(kind, by, c), c.revision = host.revision + 1,
           UNCHANGED <<agent, caddy>>
    PROVE  /\ host' \in HostStates /\ host'.committed = host.committed
           /\ host'.op.kind = kind /\ host'.op.by = by /\ host'.op.state = "allocated"
           /\ Desired' = c /\ ~Free' /\ c # NoConfig
           /\ AgentOK' /\ PendingIsAbove'
  <1>1. IngressTypes /\ host.revision \in Nat /\ c # NoConfig
    BY HostIs, NoConfigIs DEF IngressInv
  <1>2. /\ host' \in HostStates /\ host'.revision = c.revision /\ host'.committed = host.committed
        /\ host'.op.kind = kind /\ host'.op.by = by /\ host'.op.state = "allocated" /\ host'.op.desired = c
    BY <1>1, AllocateIs
  <1>3. ~Free'
    BY <1>2, NoOpIs DEF Free
  <1>4. agent.committed.revision \in Nat
    BY <1>1 DEF IngressTypes, AgentStates, Configs
  <1>5. /\ agent.committed.routes = host.committed /\ agent.pending = NoConfig /\ caddy = host.committed
        /\ agent.committed.revision <= host.revision
    BY FreeIs
  <1>6. Desired' = c /\ Tries(c)'
    BY <1>1, <1>2, <1>4, <1>5 DEF Desired, Tries, Tried
  <1>7. AgentOK'
    BY <1>1, <1>2, <1>3, <1>4, <1>5, <1>6 DEF AgentOK, Tries, Tried, Desired
  <1>8. PendingIsAbove'
    BY <1>5 DEF PendingIsAbove
  <1> QED BY <1>1, <1>2, <1>3, <1>6, <1>7, <1>8

\* A route under a new operation: it is provisioned by it, or stays as it was.
LEMMA AllocatedRoute ==
    ASSUME IngressInv, Free, NEW c \in Configs, Desired' = c, ~Free', host'.committed = host.committed,
           host'.op.state = "allocated",
           NEW x \in Routes,
           \/ /\ route[x].status \in {"pending", "ready", "degraded"} /\ x \in c.probe
              /\ route'[x].status = "provisioning"
              /\ route'[x].observed = route[x].observed /\ route'[x].revision = route[x].revision
           \/ /\ route'[x] = route[x]
              /\ route[x].status = "ready" => x \in DOMAIN c.routes /\ c.routes[x] = host.committed[x]
              /\ route[x].status \in {"none", "retired"} => x \notin DOMAIN c.routes
    PROVE  RouteOK(x)'
  <1>1. /\ route[x].status # "provisioning" /\ RouteOK(x)
        /\ route[x].status = "ready" => CommittedAs(x)
        /\ route[x].status \in {"none", "retired"} => x \notin DOMAIN host.committed
    BY FreeIs DEF IngressInv
  <1>2. CASE route'[x] = route[x]
    <2>1. /\ route[x].status = "ready" => x \in DOMAIN c.routes /\ c.routes[x] = host.committed[x]
          /\ route[x].status \in {"none", "retired"} => x \notin DOMAIN c.routes
      BY <1>1, <1>2
    <2>2. CommittedAs(x)' <=> CommittedAs(x)
      BY <1>2 DEF CommittedAs
    <2> QED BY <1>1, <1>2, <2>1, <2>2 DEF RouteOK, CommittedAs
  <1>3. CASE route'[x] # route[x]
    <2>1. /\ route[x].status \in {"pending", "ready", "degraded"} /\ x \in c.probe
          /\ route'[x].status = "provisioning"
          /\ route'[x].observed = route[x].observed /\ route'[x].revision = route[x].revision
      BY <1>3
    <2>2. CommittedAs(x)' <=> CommittedAs(x)
      BY <2>1 DEF CommittedAs
    <2> QED BY <1>1, <2>1, <2>2 DEF RouteOK, Uncommitted
  <1> QED BY <1>2, <1>3

\* The backends of what is committed under a new operation.
LEMMA AllocatedBacked ==
    ASSUME IngressInv, Free, host'.committed = host.committed, UNCHANGED containers,
           \A n \in SlotDeployments : dep[n].pc \in {"succeeded"} => dep'[n] = dep[n] /\ ~Owns(n)',
           \A n \in SlotDeployments : dep[n].reached = "ordinary" => dep'[n].reached = "ordinary",
           NEW x \in DOMAIN host.committed, route[x].status = "retiring" => route'[x].status = "retiring"
    PROVE  Backed(x)'
  <1>1. Backed(x)
    BY DEF IngressInv, BackendsOK
  <1>2. PICK d \in SlotDeployments : d = host.committed[x].deployment
    BY <1>1 DEF Backed
  <1>3. dep[d].pc = "succeeded"
    BY <1>1, <1>2, FreeIs, NotOwner DEF Backed
  <1>4. Kept(d) => Kept(d)'
    BY DEF Kept
  <1>5. dep'[d].pc = "succeeded" /\ ~Owns(d)' /\ (Kept(d)' \/ route'[x].status = "retiring")
    BY <1>1, <1>2, <1>3, <1>4 DEF Backed
  <1> QED BY <1>2, <1>5 DEF Backed, Kept, Owns, Of

LEMMA AllocateCutoverStep ==
    ASSUME IngressInv, NEW d \in SlotDeployments, dep[d].pc = "managed", Free, Eligible # {}, AllocateCutover(d),
           UNCHANGED <<agent, caddy, containers, resolved>>
    PROVE  IngressInv'
  <1>1. PICK S \in SUBSET Routes : S = Eligible
    BY DEF Eligible
  <1>2. PICK c : c = CutoverDesired(d, S)
    OBVIOUS
  <1>3. IngressTypes
    BY DEF IngressInv
  <1>4. /\ c \in Configs /\ c.revision = host.revision + 1 /\ c.probe = S
        /\ DOMAIN c.routes = S \cup DOMAIN host.committed
        /\ \A r \in S : c.routes[r] = Backend(r, d)
        /\ \A r \in DOMAIN host.committed \ S : c.routes[r] = host.committed[r]
    BY <1>2, <1>3, CutoverDesiredIs
  <1>5. Allocate("cutover", d, c) /\ Go(d, "begun")
    BY <1>1, <1>2 DEF AllocateCutover
  <1>6. /\ host' \in HostStates /\ host'.committed = host.committed
        /\ host'.op.kind = "cutover" /\ host'.op.by = d /\ host'.op.state = "allocated"
        /\ Desired' = c /\ ~Free' /\ c # NoConfig
        /\ AgentOK' /\ PendingIsAbove'
    BY <1>4, <1>5, AllocatedIs DEF OpKinds
  <1>7. Goes2(d, "begun") /\ dep' \in [SlotDeployments -> DepStates]
    BY <1>5, GoesByGo DEF DepSteps, ManagedPhase, Committing, Goes2
  <1>8. \A r \in Routes :
            /\ route'[r] \in RouteStates
            /\ r \notin S => route'[r] = route[r]
            /\ r \in S => /\ route'[r].status = "provisioning" /\ route'[r].revision = route[r].revision
                          /\ route'[r].observed = route[r].observed
    BY <1>1, TransitionIs, RouteIs DEF AllocateCutover, Opened
  <1>9. IngressTypes' /\ HistoryOK'
    <2>1. route' \in [Routes -> RouteStates]
      BY <1>8 DEF AllocateCutover
    <2>2. \A r \in Routes : route'[r].observed.revision <= route'[r].revision
      BY <1>8, RouteIs
    <2>3. \A n \in SlotDeployments : dep'[n].reached = "ordinary" => dep'[n].pc = "succeeded"
      BY <1>7, DepIs DEF Goes2
    <2> QED BY <1>3, <1>6, <1>7, <2>1, <2>2, <2>3 DEF IngressTypes, HistoryOK
  <1>10. DOMAIN host.committed \subseteq Routes
    BY <1>3, HostIs, RouteMapIs
  <1>11. \A r \in DOMAIN host.committed \ S : route[r].status = "retiring"
    BY <1>1, <1>10, FreeIs, RouteIs DEF Eligible, RouteStates, Opened
  <1>12. OpOK'
    <2>1. \A r \in S : /\ c.routes[r].deployment = d
                       /\ route'[r].status = "provisioning" /\ route'[r].revision = c.routes[r].revision
      BY <1>3, <1>4, <1>8, BackendIs
    <2>2. \A r \in DOMAIN c.routes \ S : /\ route'[r].status = "retiring"
                                         /\ r \in DOMAIN host.committed /\ host.committed[r] = c.routes[r]
      BY <1>4, <1>8, <1>10, <1>11
    <2>3. CutoverOK'
      BY <1>1, <1>4, <1>6, <2>1, <2>2 DEF CutoverOK
    <2> QED BY <1>4, <1>6, <2>1, <2>3 DEF OpOK
  <1>13. ASSUME NEW r \in Routes PROVE RouteOK(r)'
    <2>1. CASE r \in S
      <3>1. route[r].status \in {"pending", "ready", "degraded"}
        BY <1>1, <2>1, FreeIs DEF Eligible
      <3> QED BY <1>4, <1>6, <1>8, <2>1, <3>1, AllocatedRoute
    <2>2. CASE r \notin S
      <3>1. route[r].status # "ready"
        BY <1>1, <2>2 DEF Eligible
      <3>2. route[r].status \in {"none", "retired"} => r \notin DOMAIN c.routes
        BY <1>4, <2>2, FreeIs
      <3> QED BY <1>4, <1>6, <1>8, <2>2, <3>1, <3>2, AllocatedRoute
    <2> QED BY <2>1, <2>2
  <1>14. ASSUME NEW n \in SlotDeployments PROVE DepOK(n)'
    <2>1. CASE n = d
      <3>1. Owns(d)' /\ dep'[d].pc = "begun"
        BY <1>6, <1>7 DEF Owns, Of, Goes2
      <3> QED BY <2>1, <3>1, <1>6 DEF DepOK, PcOK, KeptSteps, ManagedPhase, Committing, Uncommitted
    <2>2. CASE n # d
      <3>1. ~Owns(n) /\ ~Owns(n)' /\ dep'[n] = dep[n]
        BY <1>6, <1>7, <2>2, FreeIs DEF Owns, Of, Goes2
      <3> QED BY <3>1, OtherDepStep
    <2> QED BY <2>1, <2>2
  <1>15. ResolvedOK'
    <2>1. \A n \in SlotDeployments : dep[n].pc = "succeeded" => dep'[n].pc = "succeeded"
      BY <1>7 DEF Goes2
    <2> QED BY <2>1, FreeIs, ReadingStays
  <1>16. BackendsOK'
    <2>1. \A n \in SlotDeployments : dep[n].pc \in {"succeeded"} => dep'[n] = dep[n] /\ ~Owns(n)'
      BY <1>6, <1>7 DEF Goes2, Owns, Of
    <2>2. \A n \in SlotDeployments : dep[n].reached = "ordinary" => dep'[n].reached = "ordinary"
      BY <2>1, DepIs
    <2>3. \A x \in DOMAIN host.committed : Backed(x)'
      <3> SUFFICES ASSUME NEW x \in DOMAIN host.committed PROVE Backed(x)'
        OBVIOUS
      <3>1. x \in Routes /\ (route[x].status = "retiring" => route'[x].status = "retiring")
        BY <1>1, <1>8, <1>10 DEF Eligible
      <3> QED BY <1>6, <2>1, <2>2, <3>1, AllocatedBacked
    <2>4. agent'.pending # Desired'
      BY <1>6, FreeIs
    <2> QED BY <1>6, <2>3, <2>4 DEF BackendsOK, CutoverBacked
  <1> QED BY <1>6, <1>9, <1>12, <1>13, <1>14, <1>15, <1>16 DEF IngressInv

LEMMA BeginCutoverStep ==
    ASSUME IngressInv, NEW d \in SlotDeployments, BeginCutover(d) PROVE IngressInv'
  <1>1. dep[d].pc = "managed" /\ UNCHANGED <<agent, caddy, containers, resolved>>
    BY DEF BeginCutover
  <1>2. CASE Free /\ Eligible # {} /\ AllocateCutover(d)
    BY <1>1, <1>2, AllocateCutoverStep
  <1>3. CASE ~(Free /\ Eligible # {} /\ AllocateCutover(d))
    <2>1. Free => ~Owns(d)
      BY FreeIs
    <2>2. /\ UNCHANGED <<route, host>>
          /\ (Owns(d) /\ Go(d, "begun")) \/ (~Owns(d) /\ (Go(d, "failed") \/ Go(d, "queued")))
      BY <1>3, <2>1 DEF BeginCutover, Owns, Of
    <2> QED BY <1>1, <2>2, NotBegunStep
  <1> QED BY <1>2, <1>3

\* Only the reconciler's reading changes.
LEMMA ReadingStep ==
    ASSUME IngressInv, UNCHANGED <<route, host, agent, caddy, dep, containers>>, ResolvedOK'
    PROVE  IngressInv'
  <1>1. AgentOK' /\ PendingIsAbove' /\ OpOK' /\ (\A r \in Routes : RouteOK(r)') /\ \A d \in SlotDeployments : DepOK(d)'
    BY AgentStays, RoutesStay, DepsStay
  <1>2. IngressTypes' /\ HistoryOK'
    BY DEF IngressInv, IngressTypes, HistoryOK
  <1>3. BackendsOK'
    BY DEF IngressInv, BackendsOK, Backed, CutoverBacked, ReconciliationBacked, Kept, Owns, Of, Desired, Superseded
  <1> QED BY <1>1, <1>2, <1>3 DEF IngressInv

\* The reconciler stops.
LEMMA IdleIs == Idle => ResolvedOK'
  BY DEF Idle, ResolvedOK, NoReading

LEMMA ResolveBackendStep ==
    ASSUME IngressInv, NEW r \in Routes, ResolveBackend(r) PROVE IngressInv'
  <1>1. UNCHANGED <<host, agent, caddy, dep, containers>>
    BY DEF ResolveBackend
  <1>2. CASE r \in Misnamed
    <2>1. route' = [route EXCEPT ![r] = Degrade(r)] /\ UNCHANGED resolved
      BY <1>2 DEF ResolveBackend
    <2> QED BY <1>1, <2>1, DegradeStep
  <1>3. CASE r \notin Misnamed
    <2>1. PICK d \in SlotDeployments :
              dep[d].pc = "succeeded" /\ resolved' = [pc |-> "read", route |-> r, backend |-> Backend(r, d)]
      BY <1>3 DEF ResolveBackend, Succeeded
    <2>2. PICK b : b = Backend(r, d)
      OBVIOUS
    <2>3. b \in Backends /\ b.deployment = d
      BY <2>2, BackendIs DEF IngressInv
    <2>4. resolved' = [pc |-> "read", route |-> r, backend |-> b]
      BY <2>1, <2>2
    <2>5. ResolvedOK'
      BY <1>1, <2>1, <2>3, <2>4 DEF ResolvedOK
    <2>6. UNCHANGED route
      BY <1>3 DEF ResolveBackend
    <2> QED BY <1>1, <2>5, <2>6, ReadingStep
  <1> QED BY <1>2, <1>3

\* What the reconciler has read.
LEMMA ReadingIs ==
    ASSUME IngressInv, resolved.pc # "idle"
    PROVE  /\ resolved = [pc |-> resolved.pc, route |-> resolved.route, backend |-> resolved.backend]
           /\ resolved.route \in Routes /\ resolved.backend \in Backends
           /\ resolved.backend.deployment \in SlotDeployments /\ dep[resolved.backend.deployment].pc = "succeeded"
           /\ resolved.pc \in {"begun", "failed", "committed"} =>
                 host.op.kind = "reconciliation" /\ host.op.by = resolved.route
                 /\ Desired.routes[resolved.route] = resolved.backend
           /\ resolved.pc = "failed" => host.op.state = "allocated"
           /\ resolved.pc = "committed" => host.op.state = "prepared" /\ Holds(Desired)
  BY DEF IngressInv, ResolvedOK, Of

\* The reconciler goes on with the operation that it has.
LEMMA ReadingGoes ==
    ASSUME IngressInv, resolved.pc # "idle", NEW pc \in {"begun", "failed", "committed"},
           resolved' = [resolved EXCEPT !.pc = pc],
           host'.op.kind = "reconciliation", host'.op.by = resolved.route,
           Desired'.routes[resolved.route] = resolved.backend,
           pc = "failed" => host'.op.state = "allocated",
           pc = "committed" => host'.op.state = "prepared" /\ Holds(Desired)',
           UNCHANGED dep
    PROVE  ResolvedOK'
  <1>1. PICK v : v = [pc |-> pc, route |-> resolved.route, backend |-> resolved.backend]
    OBVIOUS
  <1>2. v.pc = pc /\ v.route = resolved.route /\ v.backend = resolved.backend
        /\ v = [pc |-> v.pc, route |-> v.route, backend |-> v.backend]
    BY <1>1
  <1>3. resolved' = v
    <2>1. resolved = [pc |-> resolved.pc, route |-> resolved.route, backend |-> resolved.backend]
      BY ReadingIs
    <2> QED BY <1>1, <2>1
  <1>4. /\ v.route \in Routes /\ v.backend \in Backends
        /\ v.backend.deployment \in SlotDeployments /\ dep'[v.backend.deployment].pc = "succeeded"
    BY <1>2, ReadingIs
  <1>5. resolved'.pc = pc /\ resolved'.route = v.route /\ resolved'.backend = v.backend
        /\ resolved' = [pc |-> resolved'.pc, route |-> resolved'.route, backend |-> resolved'.backend]
    BY <1>2, <1>3
  <1> QED BY <1>2, <1>4, <1>5 DEF ResolvedOK, Of

LEMMA AllocateReconciliationStep ==
    ASSUME IngressInv, resolved.pc = "read", Free,
           NEW r \in Routes, r = resolved.route, NEW b \in Backends, b = resolved.backend,
           route[r].revision = b.revision, route[r].status \in {"pending", "provisioning"},
           Allocate("reconciliation", r, ReconciliationDesired(r, b)),
           route' = [route EXCEPT ![r] = Transition(r, "provisioning")],
           resolved' = [resolved EXCEPT !.pc = "begun"],
           UNCHANGED <<agent, caddy, dep, containers>>
    PROVE  IngressInv'
  <1>1. PICK c : c = ReconciliationDesired(r, b)
    OBVIOUS
  <1>2. IngressTypes
    BY DEF IngressInv
  <1>3. /\ c \in Configs /\ c.revision = host.revision + 1 /\ c.probe = {r}
        /\ DOMAIN c.routes = DOMAIN host.committed \cup {r}
        /\ c.routes[r] = b
        /\ \A x \in DOMAIN host.committed \ {r} : c.routes[x] = host.committed[x]
    BY <1>1, <1>2, ReconciliationDesiredIs
  <1>4. /\ host' \in HostStates /\ host'.committed = host.committed
        /\ host'.op.kind = "reconciliation" /\ host'.op.by = r /\ host'.op.state = "allocated"
        /\ Desired' = c /\ ~Free' /\ c # NoConfig
        /\ AgentOK' /\ PendingIsAbove'
    <2>1. Allocate("reconciliation", r, c)
      BY <1>1
    <2> QED BY <1>3, <2>1, AllocatedIs DEF OpKinds
  <1>5. PICK v : v = Transition(r, "provisioning")
    OBVIOUS
  <1>6. v \in RouteStates /\ v.status = "provisioning" /\ v.revision = route[r].revision /\ v.observed = route[r].observed
    BY <1>5, TransitionIs DEF Opened
  <1>7. route'[r] = v /\ (\A x \in Routes \ {r} : route'[x] = route[x]) /\ route' \in [Routes -> RouteStates]
    BY <1>2, <1>5, <1>6 DEF IngressTypes
  <1>8. IngressTypes' /\ HistoryOK'
    <2>1. \A x \in Routes : route'[x].observed.revision <= route'[x].revision
      BY <1>6, <1>7, RouteIs
    <2> QED BY <1>2, <1>4, <1>7, <2>1 DEF IngressTypes, HistoryOK, IngressInv
  <1>9. route[r].status = "pending" /\ route[r].observed.revision # route[r].revision
    BY FreeIs, RouteIs DEF RouteOK
  <1>10. OpOK'
    <2>1. ReconciliationOK'
      BY <1>3, <1>4, <1>6, <1>7, <1>9 DEF ReconciliationOK, Uncommitted
    <2> QED BY <1>3, <1>4, <1>6, <1>7, <2>1 DEF OpOK
  <1>11. ASSUME NEW x \in Routes PROVE RouteOK(x)'
    <2>1. CASE x = r
      BY <1>3, <1>4, <1>6, <1>7, <1>9, <2>1, AllocatedRoute
    <2>2. CASE x # r
      <3>1. /\ route[x].status = "ready" => x \in DOMAIN c.routes /\ c.routes[x] = host.committed[x]
            /\ route[x].status \in {"none", "retired"} => x \notin DOMAIN c.routes
        BY <1>3, <2>2, FreeIs DEF CommittedAs
      <3> QED BY <1>3, <1>4, <1>7, <2>2, <3>1, AllocatedRoute
    <2> QED BY <2>1, <2>2
  <1>12. \A n \in SlotDeployments : DepOK(n)' /\ ~Owns(n)'
    <2> SUFFICES ASSUME NEW n \in SlotDeployments PROVE DepOK(n)' /\ ~Owns(n)'
      OBVIOUS
    <2>1. ~Owns(n) /\ ~Owns(n)'
      BY <1>4, FreeIs DEF Owns, Of
    <2> QED BY <2>1, OtherDepStep
  <1>13. ResolvedOK'
    BY <1>3, <1>4, ReadingGoes
  <1>14. BackendsOK'
    <2>1. \A x \in DOMAIN host.committed : Backed(x)'
      <3> SUFFICES ASSUME NEW x \in DOMAIN host.committed PROVE Backed(x)'
        OBVIOUS
      <3>1. x \in Routes
        BY <1>2, HostIs, RouteMapIs
      <3>2. route[x].status = "retiring" => route'[x].status = "retiring"
        BY <1>7, <1>9, <3>1
      <3> QED BY <1>4, <1>12, <3>2, AllocatedBacked
    <2>2. ReconciliationBacked'
      BY <1>3, <1>4, ReadingIs DEF ReconciliationBacked
    <2> QED BY <1>4, <2>1, <2>2 DEF BackendsOK
  <1> QED BY <1>4, <1>8, <1>10, <1>11, <1>12, <1>13, <1>14 DEF IngressInv

LEMMA BeginReconciliationStep ==
    ASSUME IngressInv, BeginReconciliation PROVE IngressInv'
  <1>1. resolved.pc = "read" /\ UNCHANGED <<agent, caddy, dep, containers>>
    BY DEF BeginReconciliation
  <1>2. PICK r \in Routes : r = resolved.route
    BY <1>1, ReadingIs
  <1>3. PICK b \in Backends : b = resolved.backend
    BY <1>1, ReadingIs
  <1>4. CASE /\ Of("reconciliation", r) /\ Desired.routes[r] = b
             /\ resolved' = [resolved EXCEPT !.pc = "begun"] /\ UNCHANGED <<route, host>>
    <2>1. ResolvedOK'
      BY <1>1, <1>2, <1>3, <1>4, ReadingGoes DEF Of, Desired
    <2> QED BY <1>1, <1>4, <2>1, ReadingStep
  <1>5. CASE Idle /\ UNCHANGED <<route, host>>
    BY <1>1, <1>5, IdleIs, ReadingStep
  <1>6. CASE /\ route[r].revision = b.revision /\ route[r].status \in {"pending", "provisioning"} /\ Free
             /\ Allocate("reconciliation", r, ReconciliationDesired(r, b))
             /\ route' = [route EXCEPT ![r] = Transition(r, "provisioning")]
             /\ resolved' = [resolved EXCEPT !.pc = "begun"]
    BY <1>1, <1>2, <1>3, <1>6, AllocateReconciliationStep
  <1> QED BY <1>2, <1>3, <1>4, <1>5, <1>6 DEF BeginReconciliation, Desired

LEMMA AllocateRetirementStep ==
    ASSUME IngressInv, NEW r \in Routes, route[r].status = "retiring", Free,
           Allocate("retirement", r, RetirementDesired(r)),
           UNCHANGED <<route, agent, caddy, dep, containers, resolved>>
    PROVE  IngressInv'
  <1>1. PICK c : c = RetirementDesired(r)
    OBVIOUS
  <1>2. IngressTypes
    BY DEF IngressInv
  <1>3. /\ c \in Configs /\ c.revision = host.revision + 1 /\ c.probe = {}
        /\ DOMAIN c.routes = DOMAIN host.committed \ {r}
        /\ \A x \in DOMAIN c.routes : c.routes[x] = host.committed[x]
    BY <1>1, <1>2, RetirementDesiredIs
  <1>4. /\ host' \in HostStates /\ host'.committed = host.committed
        /\ host'.op.kind = "retirement" /\ host'.op.by = r /\ host'.op.state = "allocated"
        /\ Desired' = c /\ ~Free' /\ c # NoConfig
        /\ AgentOK' /\ PendingIsAbove'
    <2>1. Allocate("retirement", r, c)
      BY <1>1
    <2> QED BY <1>3, <2>1, AllocatedIs DEF OpKinds
  <1>5. IngressTypes' /\ HistoryOK'
    BY <1>2, <1>4 DEF IngressTypes, HistoryOK, IngressInv
  <1>6. OpOK'
    <2>1. RetirementOK'
      BY <1>3, <1>4 DEF RetirementOK, Uncommitted
    <2> QED BY <1>3, <1>4, <2>1 DEF OpOK
  <1>7. ASSUME NEW x \in Routes PROVE RouteOK(x)'
    <2>1. /\ route[x].status = "ready" => x \in DOMAIN c.routes /\ c.routes[x] = host.committed[x]
          /\ route[x].status \in {"none", "retired"} => x \notin DOMAIN c.routes
      BY <1>3, FreeIs DEF CommittedAs
    <2> QED BY <1>3, <1>4, <2>1, AllocatedRoute
  <1>8. \A n \in SlotDeployments : DepOK(n)' /\ ~Owns(n)'
    <2> SUFFICES ASSUME NEW n \in SlotDeployments PROVE DepOK(n)' /\ ~Owns(n)'
      OBVIOUS
    <2>1. ~Owns(n) /\ ~Owns(n)'
      BY <1>4, FreeIs DEF Owns, Of
    <2> QED BY <2>1, OtherDepStep
  <1>9. ResolvedOK'
    BY FreeIs, ReadingStays
  <1>10. BackendsOK'
    <2>1. \A x \in DOMAIN host.committed : Backed(x)'
      BY <1>4, <1>8, AllocatedBacked
    <2> QED BY <1>4, <2>1 DEF BackendsOK
  <1> QED BY <1>4, <1>5, <1>6, <1>7, <1>8, <1>9, <1>10 DEF IngressInv

LEMMA BeginRouteRetirementStep ==
    ASSUME IngressInv, NEW r \in Routes, BeginRouteRetirement(r) PROVE IngressInv'
  <1>1. route[r].status = "retiring" /\ ~Of("retirement", r) /\ UNCHANGED <<agent, caddy, dep, containers, resolved>>
    BY DEF BeginRouteRetirement
  <1>2. CASE Known(r)
    BY <1>1, <1>2, AllocateRetirementStep DEF BeginRouteRetirement
  <1>3. CASE ~Known(r)
    BY <1>1, <1>3, UnknownRetires DEF BeginRouteRetirement
  <1> QED BY <1>2, <1>3

-----------------------------------------------------------------------------
(* The operation under way goes to state s; what it asks for stays.        *)

Moves(s) ==
    /\ host' \in HostStates /\ host'.revision = host.revision /\ host'.committed = host.committed
    /\ host'.op.kind = host.op.kind /\ host'.op.by = host.op.by
    /\ host'.op.desired = Desired /\ host'.op.state = s

LEMMA StillMoves == ASSUME IngressInv, UNCHANGED host PROVE Moves(host.op.state)
  BY DEF IngressInv, IngressTypes, Moves, Desired

LEMMA StateMoves ==
    ASSUME IngressInv, NEW s \in OpStates, host' = [host EXCEPT !.op.state = s] PROVE Moves(s)
  BY StateIs DEF IngressInv, Moves

\* What is not free.
LEMMA UnderWay ==
    ASSUME IngressInv, host.op.kind # "none"
    PROVE  /\ ~Free /\ host.op.kind \in {"cutover", "reconciliation", "retirement"}
           /\ Desired \in Configs /\ Desired.revision = host.revision /\ Desired.revision > 0
           /\ Desired # NoConfig /\ Desired.revision \in Nat /\ Desired.routes \in RouteMaps
           /\ host.op.state \in OpStates \ {"none"}
           /\ \A s : Moves(s) => ~Free' /\ Desired' = Desired
  <1>1. ~Free
    BY NoOpIs DEF Free
  <1>2. /\ host.op.state # "none" /\ Desired.revision = host.revision /\ Desired.revision > 0
    BY <1>1 DEF IngressInv, AgentOK
  <1>3. Desired \in Configs /\ host.op.state \in OpStates /\ host.op.kind \in OpKinds
    BY HostIs DEF IngressInv
  <1>4. ASSUME NEW s, Moves(s) PROVE ~Free' /\ Desired' = Desired
    BY <1>4, NoOpIs DEF Free, Moves, Desired
  <1>5. Desired # NoConfig
    BY <1>2, NoConfigIs
  <1> QED BY <1>1, <1>2, <1>3, <1>4, <1>5 DEF OpKinds, Configs

LEMMA OpMoves ==
    ASSUME IngressInv, host.op.kind # "none", NEW s, Moves(s), UNCHANGED route,
           s \in Uncommitted => host.op.state \in Uncommitted,
           host.op.kind = "reconciliation" => s \in Uncommitted,
           host.op.kind = "retirement" => s \in Uncommitted \cup {"gateway_committed"}
    PROVE  OpOK'
  <1>1. OpOK /\ Desired' = Desired
    BY UnderWay DEF IngressInv
  <1>2. host.op.kind = "cutover" => CutoverOK'
    BY <1>1 DEF OpOK, CutoverOK, Moves
  <1>3. host.op.kind = "reconciliation" => ReconciliationOK'
    BY <1>1 DEF OpOK, ReconciliationOK, Moves
  <1>4. host.op.kind = "retirement" => RetirementOK'
    BY <1>1 DEF OpOK, RetirementOK, Moves
  <1> QED BY <1>1, <1>2, <1>3, <1>4 DEF OpOK, Moves

LEMMA RouteMoves ==
    ASSUME IngressInv, host.op.kind # "none", NEW s \in Uncommitted, Moves(s), UNCHANGED route,
           host.op.state \in Uncommitted
    PROVE  \A r \in Routes : RouteOK(r)'
  <1> SUFFICES ASSUME NEW r \in Routes PROVE RouteOK(r)'
    OBVIOUS
  <1>1. RouteOK(r) /\ ~Free /\ ~Free' /\ Desired' = Desired
    BY UnderWay DEF IngressInv
  <1>2. CommittedAs(r)' <=> CommittedAs(r)
    BY DEF CommittedAs, Moves
  <1>3. host'.op.state = s /\ s # "control_plane_committed" /\ host.op.state # "control_plane_committed"
        /\ host'.committed = host.committed
    BY DEF Moves, Uncommitted
  <1> QED BY <1>1, <1>2, <1>3 DEF RouteOK

\* The Agent is called by an operation that is not committed.
LEMMA AgentMoves ==
    ASSUME IngressInv, host.op.kind # "none", NEW s \in Uncommitted, Moves(s), host.op.state \in Uncommitted,
           agent'.committed = agent.committed \/ Holds(Desired)',
           s = "allocated" \/ host.op.kind = "cutover" => Tries(Desired)',
           s = "prepared" /\ host.op.kind # "cutover" => Ready(Desired)' \/ Holds(Desired)'
    PROVE  AgentOK'
  <1>1. AgentOK /\ ~Free' /\ Desired' = Desired /\ Desired.revision = host.revision /\ Desired.revision > 0
        /\ Desired.revision \in Nat
    BY UnderWay DEF IngressInv
  <1>2. agent'.committed.revision <= host'.revision
    <2>1. CASE agent'.committed = agent.committed
      BY <1>1, <2>1 DEF AgentOK, Moves
    <2>2. CASE Holds(Desired)'
      BY <1>1, <2>2 DEF Holds, Moves
    <2> QED BY <2>1, <2>2
  <1>3. agent'.committed.routes = host'.committed \/ Holds(Desired)'
    <2>1. CASE agent'.committed = agent.committed /\ agent.committed.routes = host.committed
      BY <2>1 DEF Moves
    <2>2. CASE agent'.committed = agent.committed /\ Holds(Desired)
      <3>1. ~Tries(Desired)' /\ ~Ready(Desired)'
        BY <1>1, <2>2 DEF Tries, Ready, Holds
      <3> QED BY <3>1 DEF Uncommitted
    <2> QED BY <1>1, <2>1, <2>2 DEF AgentOK
  <1> QED BY <1>1, <1>2, <1>3 DEF AgentOK, Moves, Uncommitted

\* The owner of a cutover calls the Agent and goes to pc.
LEMMA CutoverCall ==
    ASSUME IngressInv, NEW d \in SlotDeployments, Owns(d), dep[d].pc \in ManagedPhase,
           NEW s \in Uncommitted, Moves(s), host.op.state \in Uncommitted,
           NEW pc \in ManagedPhase \cup Waiting, Go(d, pc),
           UNCHANGED <<route, containers, resolved>>,
           agent' \in AgentStates, agent'.committed = agent.committed, Tries(Desired)', PendingIsAbove',
           pc \in {"prepared", "activated"} => s = "prepared" /\ Ready(Desired)',
           pc \in {"remove", "finalize"} => agent'.pending = NoConfig,
           pc \in KeptSteps => Kept(d),
           agent'.pending = Desired => Kept(d) \/ Superseded(d)
    PROVE  IngressInv'
  <1>1. host.op.kind = "cutover" /\ host.op.by = d /\ host'.op.kind = "cutover" /\ host'.op.by = d
        /\ host'.op.state = s /\ host'.committed = host.committed /\ host' \in HostStates
    BY DEF Owns, Of, Moves
  <1>2. Desired' = Desired
    BY <1>1, UnderWay
  <1>3. Goes2(d, pc)
    BY GoesByGo DEF ManagedPhase, Waiting, Committing, DepSteps
  <1>4. IngressTypes' /\ HistoryOK'
    <2>1. \A n \in SlotDeployments : dep'[n].reached = "ordinary" => dep'[n].pc = "succeeded"
      BY <1>3, DepIs DEF Goes2
    <2> QED BY <1>1, <1>3, <2>1 DEF IngressTypes, HistoryOK, IngressInv, Goes2
  <1>5. AgentOK' /\ OpOK' /\ \A r \in Routes : RouteOK(r)'
    BY <1>1, AgentMoves, OpMoves, RouteMoves
  <1>6. \A n \in SlotDeployments : Kept(n) => Kept(n)'
    BY <1>3, KeptStays
  <1>7. ASSUME NEW n \in SlotDeployments PROVE DepOK(n)'
    <2>1. CASE n = d
      <3>1. Owns(d)' /\ dep'[d].pc = pc
        BY <1>1, <1>3 DEF Owns, Of, Goes2
      <3> QED BY <1>1, <1>6, <2>1, <3>1 DEF DepOK, PcOK, ManagedPhase, Committing, Waiting
    <2>2. CASE n # d
      <3>1. ~Owns(n) /\ ~Owns(n)' /\ dep'[n] = dep[n]
        BY <1>1, <1>3, <2>2 DEF Owns, Of, Goes2
      <3> QED BY <3>1, OtherDepStep
    <2> QED BY <2>1, <2>2
  <1>8. ResolvedOK'
    <2>1. \A n \in SlotDeployments : dep[n].pc = "succeeded" => dep'[n].pc = "succeeded"
      BY <1>3 DEF Goes2
    <2> QED BY <1>1, <2>1, ReadingStays
  <1>9. BackendsOK'
    <2>1. ASSUME NEW x \in DOMAIN host.committed PROVE Backed(x)'
      <3>1. Backed(x)
        BY DEF IngressInv, BackendsOK
      <3>2. PICK m \in SlotDeployments : m = host.committed[x].deployment
        BY <3>1 DEF Backed
      <3>3. m # d
        BY <1>1, <3>1, <3>2 DEF Backed, Uncommitted
      <3>4. dep'[m].pc \in Committing \cup {"succeeded"} /\ ~Owns(m)' /\ (Kept(m)' \/ route'[x].status = "retiring")
        BY <1>1, <1>3, <1>6, <3>1, <3>2, <3>3 DEF Backed, Goes2, Owns, Of
      <3> QED BY <1>1, <3>2, <3>4 DEF Backed, Kept, Owns, Of
    <2>2. CutoverBacked'
      <3>1. Superseded(d) => Superseded(d)'
        BY <1>3, SupersededStays
      <3>2. agent'.pending = Desired => Kept(d)' \/ Superseded(d)'
        BY <1>6, <3>1
      <3> QED BY <1>1, <1>2, <3>2 DEF CutoverBacked, Kept, Superseded
    <2> QED BY <1>1, <2>1, <2>2 DEF BackendsOK
  <1> QED BY <1>4, <1>5, <1>7, <1>8, <1>9 DEF IngressInv

\* What the owner of an uncommitted cutover finds.
LEMMA OwnerIs ==
    ASSUME IngressInv, NEW d \in SlotDeployments, dep[d].pc \in ManagedPhase
    PROVE  /\ Owns(d) /\ host.op.kind = "cutover" /\ host.op.by = d /\ host.op.state \in Uncommitted
           /\ IngressTypes /\ PendingIsAbove /\ Desired \in Configs /\ Desired.revision > 0 /\ Tries(Desired)
           /\ agent.pending = Desired => Kept(d) \/ Superseded(d)
           /\ dep[d].pc \in KeptSteps => Kept(d)
           /\ dep[d].pc # "succeeded" /\ dep[d].pc \notin Committing
  <1>1. Owns(d) /\ host.op.state \in Uncommitted /\ (dep[d].pc \in KeptSteps => Kept(d))
    BY DepIs DEF PcOK
  <1>2. host.op.kind = "cutover" /\ host.op.by = d
    BY <1>1 DEF Owns, Of
  <1>3. Tries(Desired) /\ IngressTypes /\ PendingIsAbove
    BY <1>1, <1>2 DEF IngressInv, AgentOK, Uncommitted
  <1>4. Desired \in Configs /\ Desired.revision > 0
    BY <1>2, UnderWay
  <1>5. agent.pending = Desired => Kept(d) \/ Superseded(d)
    BY <1>1, <1>2 DEF IngressInv, BackendsOK, CutoverBacked
  <1> QED BY <1>1, <1>2, <1>3, <1>4, <1>5 DEF ManagedPhase, Committing

LEMMA PrepareCutoverStep ==
    ASSUME IngressInv, NEW d \in SlotDeployments, PrepareCutover(d) PROVE IngressInv'
  <1>1. dep[d].pc = "staged" /\ UNCHANGED <<route, containers, resolved>>
    BY DEF PrepareCutover
  <1>2. /\ Owns(d) /\ host.op.kind = "cutover" /\ host.op.state \in Uncommitted /\ Kept(d) /\ dep[d].pc \in ManagedPhase
        /\ IngressTypes /\ PendingIsAbove
    BY <1>1, OwnerIs DEF ManagedPhase, KeptSteps
  <1>3. PICK c \in Configs : c = Desired /\ c.revision > 0 /\ Tries(c)
    BY <1>1, OwnerIs DEF ManagedPhase
  <1>4. PICK result : /\ Prepare(c, result)
                      /\ IF result = "ok" THEN Prepared /\ Go(d, "prepared") ELSE Go(d, "unprepare") /\ UNCHANGED host
    BY <1>3 DEF PrepareCutover, Desired
  <1>5. /\ agent' \in AgentStates /\ agent'.committed = agent.committed
        /\ Tries(c)' /\ PendingIsAbove' /\ (result = "ok" => Ready(c)')
    BY <1>2, <1>3, <1>4, PrepareIs
  <1>6. CASE result = "ok"
    <2>1. Moves("prepared")
      BY <1>4, <1>6, StateMoves DEF Prepared, OpStates, Uncommitted
    <2>2. Desired' = c
      BY <1>3, <2>1 DEF Moves, Desired
    <2>3. Tries(Desired)' /\ Ready(Desired)'
      BY <1>5, <1>6, <2>2 DEF Tries, Tried, Ready
    <2> QED BY <1>1, <1>2, <1>4, <1>5, <1>6, <2>1, <2>3, CutoverCall DEF ManagedPhase, Uncommitted
  <1>7. CASE result # "ok"
    <2>1. Moves(host.op.state) /\ Go(d, "unprepare") /\ UNCHANGED host
      BY <1>4, <1>7, StillMoves
    <2>2. Desired' = c
      BY <1>3, <2>1 DEF Desired
    <2>3. Tries(Desired)'
      BY <1>5, <2>2 DEF Tries, Tried
    <2>4. PICK s \in Uncommitted : s = host.op.state
      BY <1>2
    <2> QED BY <1>1, <1>2, <1>5, <2>1, <2>3, <2>4, CutoverCall DEF ManagedPhase
  <1> QED BY <1>6, <1>7

\* The owner aborts at the Agent, and goes on or gives up.
LEMMA AbortCutoverStep ==
    ASSUME IngressInv, NEW d \in SlotDeployments, dep[d].pc \in ManagedPhase,
           NEW result, Abort(host.op.desired, result),
           NEW pc \in {"restore", "remove", "queued", "canceling"}, Go(d, pc), pc = "remove" => result = "ok",
           UNCHANGED <<route, host, containers, resolved>>
    PROVE  IngressInv'
  <1>1. /\ Owns(d) /\ host.op.kind = "cutover" /\ IngressTypes /\ PendingIsAbove
        /\ agent.pending = Desired => Kept(d) \/ Superseded(d)
    BY OwnerIs
  <1>2. PICK c \in Configs : c = Desired /\ c.revision > 0 /\ Tries(c)
    BY OwnerIs
  <1>3. /\ agent' \in AgentStates /\ agent'.committed = agent.committed
        /\ agent'.pending \in {agent.pending, NoConfig}
        /\ Tries(c)' /\ PendingIsAbove'
        /\ result = "ok" => agent'.pending = NoConfig
    BY <1>1, <1>2, AbortIs DEF Desired
  <1>4. PICK s \in Uncommitted : s = host.op.state
    BY OwnerIs
  <1>5. Moves(s)
    BY <1>4, StillMoves
  <1>6. Desired' = c /\ Tries(Desired)'
    BY <1>2, <1>3 DEF Desired, Tries, Tried
  <1>7. agent'.pending = Desired => Kept(d) \/ Superseded(d)
    <2>1. Desired # NoConfig
      BY <1>1, UnderWay
    <2> QED BY <1>1, <1>3, <2>1
  <1> QED BY <1>1, <1>3, <1>4, <1>5, <1>6, <1>7, CutoverCall DEF ManagedPhase, Waiting, KeptSteps, Committing

LEMMA AgainIs == ASSUME NEW d PROVE Again(d) \in {"queued", "canceling"}
  BY DEF Again

LEMMA AbortPrepareStep ==
    ASSUME IngressInv, NEW d \in SlotDeployments, AbortPrepare(d) PROVE IngressInv'
  <1>1. dep[d].pc \in ManagedPhase /\ UNCHANGED <<route, host, containers, resolved>>
    BY DEF AbortPrepare, ManagedPhase
  <1>2. PICK result : Abort(host.op.desired, result) /\ Go(d, IF result = "ok" THEN "restore" ELSE Again(d))
    BY DEF AbortPrepare
  <1>3. PICK pc : pc = IF result = "ok" THEN "restore" ELSE Again(d)
    OBVIOUS
  <1>4. pc \in {"restore", "remove", "queued", "canceling"} /\ pc # "remove" /\ Go(d, pc)
    BY <1>2, <1>3, AgainIs
  <1> QED BY <1>1, <1>2, <1>4, AbortCutoverStep

LEMMA RestoreStep ==
    ASSUME IngressInv, NEW d \in SlotDeployments, Restore(d) PROVE IngressInv'
  <1>1. dep[d].pc \in ManagedPhase /\ UNCHANGED <<route, host, containers, resolved>>
    BY DEF Restore, ManagedPhase
  <1>2. PICK result : Abort(host.op.desired, result) /\ Go(d, IF result = "ok" THEN "remove" ELSE Again(d))
    BY DEF Restore
  <1>3. PICK pc : pc = IF result = "ok" THEN "remove" ELSE Again(d)
    OBVIOUS
  <1>4. pc \in {"restore", "remove", "queued", "canceling"} /\ (pc = "remove" => result = "ok") /\ Go(d, pc)
    BY <1>2, <1>3, AgainIs
  <1> QED BY <1>1, <1>2, <1>4, AbortCutoverStep

\* The reconciler or the retirement calls the Agent; no route changes.
LEMMA OtherCall ==
    ASSUME IngressInv, host.op.kind \in {"reconciliation", "retirement"}, host.op.state \in Uncommitted,
           NEW s \in Uncommitted, Moves(s), UNCHANGED <<route, dep, containers>>,
           agent' \in AgentStates, agent'.committed = agent.committed \/ Holds(Desired)',
           s = "allocated" => Tries(Desired)', s = "prepared" => Ready(Desired)' \/ Holds(Desired)',
           PendingIsAbove', ResolvedOK',
           host.op.kind = "reconciliation" /\ s = "prepared" => Kept(Desired.routes[host.op.by].deployment)
    PROVE  IngressInv'
  <1>1. /\ host'.op.kind = host.op.kind /\ host'.op.by = host.op.by /\ host'.op.state = s
        /\ host'.committed = host.committed /\ host' \in HostStates
    BY DEF Moves
  <1>2. Desired' = Desired
    BY UnderWay
  <1>3. IngressTypes' /\ HistoryOK'
    BY <1>1 DEF IngressTypes, HistoryOK, IngressInv
  <1>4. AgentOK' /\ OpOK' /\ \A r \in Routes : RouteOK(r)'
    BY AgentMoves, OpMoves, RouteMoves
  <1>5. ASSUME NEW n \in SlotDeployments PROVE DepOK(n)' /\ ~Owns(n)'
    <2>1. ~Owns(n) /\ ~Owns(n)'
      BY <1>1 DEF Owns, Of
    <2> QED BY <2>1, OtherDepStep
  <1>6. BackendsOK'
    <2>1. BackendsOK
      BY DEF IngressInv
    <2>2. ASSUME NEW x \in DOMAIN host.committed PROVE Backed(x)'
      <3>1. Backed(x)
        BY <2>1 DEF BackendsOK
      <3>2. PICK m \in SlotDeployments : m = host.committed[x].deployment
        BY <3>1 DEF Backed
      <3> QED BY <1>1, <1>5, <3>1, <3>2 DEF Backed, Kept, Owns, Of
    <2>3. host.op.kind = "reconciliation" => ReconciliationBacked'
      BY <1>1, <1>2, <2>1 DEF BackendsOK, ReconciliationBacked, Kept
    <2> QED BY <1>1, <2>2, <2>3 DEF BackendsOK
  <1> QED BY <1>3, <1>4, <1>5, <1>6 DEF IngressInv

\* What the reconciler or the retirement finds before it commits.
LEMMA AllocatedFinds ==
    ASSUME IngressInv, host.op.kind # "none", host.op.state = "allocated"
    PROVE  /\ IngressTypes /\ PendingIsAbove /\ Desired \in Configs /\ Desired.revision > 0 /\ Tries(Desired)
           /\ host.op.state \in Uncommitted
  BY UnderWay DEF IngressInv, AgentOK, Uncommitted

LEMMA PreparedFinds ==
    ASSUME IngressInv, host.op.kind \in {"reconciliation", "retirement"}, host.op.state = "prepared"
    PROVE  /\ IngressTypes /\ PendingIsAbove /\ Desired \in Configs /\ Desired.revision > 0
           /\ Ready(Desired) \/ Holds(Desired)
           /\ host.op.state \in Uncommitted
  BY UnderWay DEF IngressInv, AgentOK, Uncommitted

LEMMA PrepareReconciliationStep ==
    ASSUME IngressInv, PrepareReconciliation PROVE IngressInv'
  <1>1. /\ resolved.pc = "begun" /\ host.op.state = "allocated" /\ UNCHANGED <<route, dep, containers>>
        /\ host.op.kind = "reconciliation"
        /\ host.op.by = resolved.route /\ Desired.routes[resolved.route] = resolved.backend
    BY ReadingIs DEF PrepareReconciliation
  <1>2. PICK c \in Configs : c = Desired /\ c.revision > 0 /\ Tries(c)
    BY <1>1, AllocatedFinds
  <1>3. PICK result : /\ Prepare(c, result)
                      /\ \/ result = "ok" /\ Prepared /\ UNCHANGED resolved
                         \/ result = "error" /\ resolved' = [resolved EXCEPT !.pc = "failed"] /\ UNCHANGED host
                         \/ result = "unavailable" /\ Idle /\ UNCHANGED host
    BY <1>2 DEF PrepareReconciliation, Desired
  <1>4. /\ agent' \in AgentStates /\ agent'.committed = agent.committed
        /\ Tries(c)' /\ PendingIsAbove' /\ (result = "ok" => Ready(c)' /\ Answering(c))
    BY <1>1, <1>2, <1>3, AllocatedFinds, PrepareIs
  <1>5. CASE result = "ok"
    <2>1. Prepared /\ UNCHANGED resolved
      BY <1>3, <1>5
    <2>2. Moves("prepared")
      BY <2>1, StateMoves DEF Prepared, OpStates, Uncommitted
    <2>3. Desired' = c /\ Ready(Desired)'
      BY <1>2, <1>4, <1>5, <2>2 DEF Moves, Desired, Ready
    <2>4. ResolvedOK'
      <3>1. ResolvedOK /\ resolved'.pc = "begun"
        BY <1>1, <2>1 DEF IngressInv
      <3> QED BY <1>1, <1>2, <2>1, <2>2, <2>3, <3>1 DEF ResolvedOK, Of, Moves
    <2>5. Kept(Desired.routes[host.op.by].deployment)
      <3>1. c.probe = {host.op.by}
        BY <1>1, <1>2 DEF IngressInv, OpOK, ReconciliationOK
      <3> QED BY <1>2, <1>4, <1>5, <3>1 DEF Answering, Kept
    <2>6. "prepared" \in Uncommitted /\ host.op.state \in Uncommitted
      BY <1>1 DEF Uncommitted
    <2> QED BY <1>1, <1>4, <2>2, <2>3, <2>4, <2>5, <2>6, OtherCall
  <1>6. CASE result # "ok"
    <2>1. UNCHANGED host /\ Moves("allocated") /\ Desired' = c /\ Tries(Desired)'
      BY <1>1, <1>2, <1>3, <1>4, <1>6, StillMoves DEF Desired, Tries, Tried
    <2>2. ResolvedOK'
      <3>1. CASE Idle
        BY <3>1, IdleIs
      <3>2. CASE resolved' = [resolved EXCEPT !.pc = "failed"]
        BY <1>1, <1>2, <2>1, <3>2, ReadingGoes
      <3> QED BY <1>3, <1>6, <3>1, <3>2
    <2>3. "allocated" \in Uncommitted /\ host.op.state \in Uncommitted
      BY <1>1 DEF Uncommitted
    <2> QED BY <1>1, <1>4, <2>1, <2>2, <2>3, OtherCall
  <1> QED BY <1>5, <1>6

LEMMA CommitReconciliationStep ==
    ASSUME IngressInv, CommitReconciliation PROVE IngressInv' /\ WatermarksDoNotFall
  <1>1. /\ resolved.pc = "begun" /\ host.op.state = "prepared" /\ UNCHANGED <<route, host, dep, containers>>
        /\ host.op.kind = "reconciliation"
        /\ host.op.by = resolved.route /\ Desired.routes[resolved.route] = resolved.backend
    BY ReadingIs DEF CommitReconciliation
  <1>2. PICK c \in Configs : c = Desired /\ c.revision > 0 /\ (Ready(c) \/ Holds(c))
    BY <1>1, PreparedFinds
  <1>3. PICK result : /\ Commit(c, result)
                      /\ IF result = "ok" THEN resolved' = [resolved EXCEPT !.pc = "committed"] ELSE Idle
    BY <1>2 DEF CommitReconciliation, Desired
  <1>4. /\ agent' \in AgentStates /\ (Ready(c)' \/ Holds(c)') /\ agent'.committed \in {agent.committed, c}
        /\ PendingIsAbove' /\ WatermarksDoNotFall /\ (result = "ok" => Holds(c)')
    BY <1>1, <1>2, <1>3, PreparedFinds, CommitIs
  <1>5. Moves("prepared") /\ Desired' = c
    BY <1>1, <1>2, StillMoves DEF Desired
  <1>6. Ready(Desired)' \/ Holds(Desired)'
    BY <1>4, <1>5 DEF Ready, Holds
  <1>7. agent'.committed = agent.committed \/ Holds(Desired)'
    <2>1. CASE agent'.committed = c
      <3>1. ~Ready(c)'
        BY <2>1, <1>2, UnderWay DEF Ready, Configs
      <3> QED BY <1>4, <1>5, <3>1 DEF Holds
    <2> QED BY <1>4, <2>1
  <1>8. ResolvedOK'
    <2>1. CASE result = "ok"
      <3>1. Holds(Desired)'
        BY <1>4, <1>5, <2>1 DEF Holds
      <3> QED BY <1>1, <1>2, <1>3, <1>5, <2>1, <3>1, ReadingGoes
    <2>2. CASE result # "ok"
      BY <1>3, <2>2, IdleIs
    <2> QED BY <2>1, <2>2
  <1>9. Kept(Desired.routes[host.op.by].deployment)
    BY <1>1 DEF IngressInv, BackendsOK, ReconciliationBacked
  <1>10. "prepared" \in Uncommitted /\ host.op.state \in Uncommitted
    BY <1>1 DEF Uncommitted
  <1> QED BY <1>1, <1>4, <1>5, <1>6, <1>7, <1>8, <1>9, <1>10, OtherCall

LEMMA PrepareRetirementStep ==
    ASSUME IngressInv, NEW r \in Routes, PrepareRetirement(r) PROVE IngressInv'
  <1>1. /\ host.op.state = "allocated" /\ host.op.kind = "retirement"
        /\ UNCHANGED <<route, dep, containers, resolved>>
    BY DEF PrepareRetirement, Of
  <1>2. PICK c \in Configs : c = Desired /\ c.revision > 0 /\ Tries(c)
    BY <1>1, AllocatedFinds
  <1>3. PICK result : Prepare(c, result) /\ IF result = "ok" THEN Prepared ELSE UNCHANGED host
    BY <1>2 DEF PrepareRetirement, Desired
  <1>4. /\ agent' \in AgentStates /\ agent'.committed = agent.committed
        /\ Tries(c)' /\ PendingIsAbove' /\ (result = "ok" => Ready(c)')
    BY <1>1, <1>2, <1>3, AllocatedFinds, PrepareIs
  <1>5. ResolvedOK'
    BY <1>1, ReadingStays
  <1>6. "allocated" \in Uncommitted /\ "prepared" \in Uncommitted /\ host.op.state \in Uncommitted
    BY <1>1 DEF Uncommitted
  <1>7. CASE result = "ok"
    <2>1. Moves("prepared")
      BY <1>3, <1>7, StateMoves DEF Prepared, OpStates, Uncommitted
    <2>2. Desired' = c /\ Ready(Desired)'
      BY <1>2, <1>4, <1>7, <2>1 DEF Moves, Desired, Ready
    <2> QED BY <1>1, <1>4, <1>5, <1>6, <2>1, <2>2, OtherCall
  <1>8. CASE result # "ok"
    <2>1. Moves("allocated") /\ Desired' = c /\ Tries(Desired)'
      BY <1>1, <1>2, <1>3, <1>4, <1>8, StillMoves DEF Desired, Tries, Tried
    <2> QED BY <1>1, <1>4, <1>5, <1>6, <2>1, OtherCall
  <1> QED BY <1>7, <1>8

-----------------------------------------------------------------------------
(* An operation ends and leaves the host's document free.                  *)

\* A route that no operation carries any more.
Settled(r) ==
    /\ route[r].observed.revision <= route[r].revision
    /\ route[r].status # "provisioning"
    /\ route[r].status \in {"pending", "degraded"} => route[r].observed.revision # route[r].revision
    /\ route[r].status = "ready" => route[r].observed.revision = route[r].revision /\ CommittedAs(r)
    /\ route[r].status \in {"none", "retired"} => r \notin DOMAIN host.committed
    /\ route[r].status = "none" => route[r].revision = 0

\* A backend of a Deployment that has ended.
Served(r) ==
    LET d == host.committed[r].deployment IN
    d \in SlotDeployments /\ dep[d].pc = "succeeded" /\ (Kept(d) \/ route[r].status = "retiring")

LEMMA Freed ==
    ASSUME IngressInv, host' \in HostStates, host'.op = NoOp,
           route' \in [Routes -> RouteStates], dep' \in [SlotDeployments -> DepStates], UNCHANGED containers,
           agent' \in AgentStates, agent'.committed.revision <= host'.revision,
           agent'.committed.routes = host'.committed, agent'.pending = NoConfig, caddy' = host'.committed,
           \A r \in Routes : Settled(r)',
           \A n \in SlotDeployments : /\ dep'[n].pc \notin ManagedPhase \cup Committing
                                      /\ dep'[n].reached = "ordinary" => dep'[n].pc = "succeeded",
           \A r \in DOMAIN host'.committed : Served(r)',
           ResolvedOK'
    PROVE  IngressInv'
  <1>1. /\ host'.op.kind = "none" /\ host'.op.state = "none" /\ Desired' = NoConfig /\ Free'
        /\ DOMAIN NoConfig.routes = {}
    BY NoOpIs, NoConfigIs, EmptyMap DEF Desired, Free
  <1>2. IngressTypes' /\ HistoryOK'
    BY DEF IngressInv, IngressTypes, HistoryOK, Settled
  <1>3. AgentOK' /\ PendingIsAbove'
    BY <1>1 DEF AgentOK, PendingIsAbove
  <1>4. OpOK'
    BY <1>1 DEF OpOK, Uncommitted
  <1>5. ASSUME NEW r \in Routes PROVE RouteOK(r)'
    <2>1. Settled(r)'
      OBVIOUS
    <2> QED BY <1>1, <2>1 DEF Settled, RouteOK, CommittedAs
  <1>6. ASSUME NEW n \in SlotDeployments PROVE DepOK(n)' /\ ~Owns(n)'
    <2>1. ~Owns(n)'
      BY <1>1 DEF Owns, Of
    <2>2. dep'[n].pc \notin ManagedPhase \cup Committing
      OBVIOUS
    <2> QED BY <2>1, <2>2 DEF DepOK, PcOK, KeptSteps, ManagedPhase, Committing
  <1>7. BackendsOK'
    <2>1. ASSUME NEW r \in DOMAIN host'.committed PROVE Backed(r)'
      <3>1. Served(r)'
        OBVIOUS
      <3> QED BY <1>6, <3>1 DEF Served, Backed, Kept, Owns, Of
    <2> QED BY <1>1, <2>1 DEF BackendsOK
  <1> QED BY <1>2, <1>3, <1>4, <1>5, <1>6, <1>7 DEF IngressInv

\* A route that is not provisioned, when the operation ends with the same
\* routes committed.
LEMMA Settles ==
    ASSUME IngressInv, NEW r \in Routes, route'[r] = route[r], host'.committed = host.committed,
           route[r].status # "provisioning", host.op.state # "control_plane_committed"
    PROVE  Settled(r)'
  <1>1. RouteOK(r) /\ route[r].observed.revision <= route[r].revision
    BY DEF IngressInv, HistoryOK
  <1>2. CommittedAs(r)' <=> CommittedAs(r)
    BY DEF CommittedAs
  <1> QED BY <1>1, <1>2 DEF Settled, RouteOK

\* The backends, when the owner of the operation was not committed or has
\* ended.
LEMMA StillServed ==
    ASSUME IngressInv, NEW r \in Routes, r \in DOMAIN host.committed,
           r \in DOMAIN host'.committed, host'.committed[r] = host.committed[r],
           UNCHANGED containers,
           \A n \in SlotDeployments : dep[n].reached = "ordinary" => dep'[n].reached = "ordinary",
           \A n \in SlotDeployments : dep[n].pc \in Committing \cup {"succeeded"} /\ (Owns(n) => host.op.state = "gateway_committed")
               => dep'[n].pc = "succeeded",
           route[r].status = "retiring" => route'[r].status = "retiring"
    PROVE  Served(r)'
  <1>1. Backed(r)
    BY DEF IngressInv, BackendsOK
  <1>2. PICK d \in SlotDeployments : d = host.committed[r].deployment
    BY <1>1 DEF Backed
  <1>3. dep'[d].pc = "succeeded" /\ (Kept(d)' \/ route'[r].status = "retiring")
    BY <1>1, <1>2 DEF Backed, Kept
  <1> QED BY <1>2, <1>3 DEF Served, Kept

\* No Deployment owns the operation of the reconciler or of a retirement.
LEMMA NoOwner ==
    ASSUME IngressInv, host.op.kind # "cutover"
    PROVE  \A n \in SlotDeployments : /\ ~Owns(n) /\ dep[n].pc \notin ManagedPhase \cup Committing
                                      /\ dep[n].reached = "ordinary" => dep[n].pc = "succeeded"
  BY NotOwner, DepIs DEF Owns, Of

LEMMA FinishRetirementStep ==
    ASSUME IngressInv, NEW r \in Routes, FinishRetirement(r) PROVE IngressInv'
  <1>1. /\ host.op.kind = "retirement" /\ host.op.by = r /\ host.op.state = "gateway_committed"
        /\ UNCHANGED <<agent, caddy, dep, containers, resolved>> /\ IngressTypes
    BY DEF FinishRetirement, Of, IngressInv
  <1>2. host' \in HostStates /\ host'.revision = host.revision /\ host'.committed = host.committed /\ host'.op = NoOp
    BY <1>1, UnsetIs DEF FinishRetirement
  <1>3. PICK v : v = Transition(r, "retired")
    OBVIOUS
  <1>4. v \in RouteStates /\ v.status = "retired" /\ v.revision = route[r].revision /\ v.observed = route[r].observed
    BY <1>3, TransitionIs
  <1>5. route'[r] = v /\ (\A x \in Routes \ {r} : route'[x] = route[x]) /\ route' \in [Routes -> RouteStates]
    BY <1>1, <1>3, <1>4 DEF IngressTypes, FinishRetirement
  <1>6. /\ Holds(Desired) /\ host.committed = Desired.routes /\ agent.committed.revision <= host.revision
        /\ RetirementOK
    BY <1>1 DEF IngressInv, AgentOK, OpOK
  <1>7. r \notin DOMAIN host.committed /\ DOMAIN host.committed \subseteq Routes
    BY <1>1, <1>6, HostIs, RouteMapIs DEF RetirementOK
  <1>8. ASSUME NEW x \in Routes PROVE Settled(x)'
    <2>1. CASE x = r
      BY <1>2, <1>4, <1>5, <1>7, <2>1, RouteIs DEF Settled
    <2>2. CASE x # r
      <3>1. route[x].status # "provisioning"
        BY <1>1, RouteIs DEF RouteOK, Uncommitted
      <3> QED BY <1>1, <1>2, <1>5, <2>2, <3>1, Settles
    <2> QED BY <2>1, <2>2
  <1>9. ASSUME NEW x \in DOMAIN host'.committed PROVE Served(x)'
    <2>1. x \in Routes \ {r} /\ x \in DOMAIN host.committed /\ host'.committed[x] = host.committed[x]
          /\ route'[x] = route[x]
      BY <1>2, <1>5, <1>7
    <2>2. \A n \in SlotDeployments : dep[n].pc \in Committing \cup {"succeeded"} => dep'[n].pc = "succeeded"
      BY <1>1, NoOwner
    <2> QED BY <1>1, <2>1, <2>2, StillServed
  <1>10. ResolvedOK'
    BY <1>1, ReadingStays
  <1>11. agent'.committed.routes = host'.committed /\ agent'.pending = NoConfig /\ caddy' = host'.committed
         /\ agent'.committed.revision <= host'.revision
    BY <1>1, <1>2, <1>6 DEF Holds
  <1>12. agent' \in AgentStates /\ dep' \in [SlotDeployments -> DepStates]
    BY <1>1 DEF IngressTypes
  <1>13. \A n \in SlotDeployments : /\ dep'[n].pc \notin ManagedPhase \cup Committing
                                    /\ dep'[n].reached = "ordinary" => dep'[n].pc = "succeeded"
    BY <1>1, NoOwner
  <1> QED BY <1>1, <1>2, <1>5, <1>8, <1>9, <1>10, <1>11, <1>12, <1>13, Freed

\* A route is observed at the backend that serves it.
LEMMA ObserveReadyIs ==
    ASSUME IngressInv, NEW r \in Routes, NEW d \in SlotDeployments
    PROVE  /\ ObserveReady(r, d) \in RouteStates /\ ObserveReady(r, d).status = "ready"
           /\ ObserveReady(r, d).revision = route[r].revision
           /\ ObserveReady(r, d).observed \in Backends
           /\ ObserveReady(r, d).observed.revision = route[r].revision
           /\ ObserveReady(r, d).observed.deployment = d
  <1>1. PICK b : b = Backend(r, d)
    OBVIOUS
  <1>2. b \in Backends /\ b.revision = route[r].revision /\ b.deployment = d
    BY <1>1, BackendIs DEF IngressInv
  <1>3. PICK v : v = [status |-> "ready", revision |-> route[r].revision, observed |-> b]
    OBVIOUS
  <1>4. v \in RouteStates /\ v.status = "ready" /\ v.revision = route[r].revision /\ v.observed = b
    BY <1>2, <1>3, RouteIs DEF RouteStates, Opened
  <1>5. ObserveReady(r, d) = v
    BY <1>1, <1>3 DEF ObserveReady
  <1> QED BY <1>2, <1>4, <1>5

LEMMA SameBackend ==
    ASSUME NEW a \in Backends, NEW b \in Backends, a.revision = b.revision, a.deployment = b.deployment
    PROVE  a = b
  BY DEF Backends

LEMMA CompletedIs ==
    ASSUME IngressTypes, host' = [Committed EXCEPT !.op = NoOp]
    PROVE  /\ host' \in HostStates /\ host'.revision = host.revision
           /\ host'.committed = Desired.routes /\ host'.op = NoOp
  <1>1. PICK w : w = Committed
    OBVIOUS
  <1>2. w \in HostStates /\ w.revision = host.revision /\ w.committed = Desired.routes
    BY <1>1, CommittedIs
  <1>3. host' = [w EXCEPT !.op = NoOp]
    BY <1>1
  <1> QED BY <1>2, <1>3, NoOpIs DEF HostStates

LEMMA CompleteReconciliationStep ==
    ASSUME IngressInv, CompleteReconciliation PROVE IngressInv'
  <1>1. /\ resolved.pc = "committed" /\ UNCHANGED <<agent, caddy, dep, containers>> /\ Idle
        /\ host.op.kind = "reconciliation" /\ host.op.state = "prepared" /\ Holds(Desired)
        /\ IngressTypes
    BY ReadingIs DEF CompleteReconciliation, IngressInv
  <1>2. PICK r \in Routes : r = resolved.route
    BY <1>1, ReadingIs
  <1>3. PICK b \in Backends : b = resolved.backend
    BY <1>1, ReadingIs
  <1>4. PICK d \in SlotDeployments : d = b.deployment
    BY <1>1, <1>3, ReadingIs
  <1>5. /\ host.op.by = r /\ Desired.routes[r] = b /\ dep[d].pc = "succeeded"
        /\ host' = [Committed EXCEPT !.op = NoOp]
        /\ route' = [route EXCEPT ![r] = ObserveReady(r, d)]
    BY <1>1, <1>2, <1>3, <1>4, ReadingIs DEF CompleteReconciliation
  <1>6. host' \in HostStates /\ host'.revision = host.revision /\ host'.committed = Desired.routes /\ host'.op = NoOp
    BY <1>1, <1>5, CompletedIs
  <1>7. PICK v : v = ObserveReady(r, d)
    OBVIOUS
  <1>8. /\ ReconciliationOK /\ Desired.probe = {r}
        /\ DOMAIN Desired.routes = DOMAIN host.committed \cup {r}
        /\ \A x \in DOMAIN host.committed \ {r} : Desired.routes[x] = host.committed[x]
        /\ route[r].revision = b.revision
    BY <1>1, <1>5 DEF IngressInv, OpOK, ReconciliationOK, Uncommitted
  <1>9. v \in RouteStates /\ v.status = "ready" /\ v.revision = b.revision /\ v.observed = b
    <2>1. /\ v \in RouteStates /\ v.status = "ready" /\ v.revision = b.revision
          /\ v.observed \in Backends /\ v.observed.revision = b.revision /\ v.observed.deployment = d
      BY <1>7, <1>8, ObserveReadyIs
    <2> QED BY <2>1, <1>4, SameBackend
  <1>10. route'[r] = v /\ (\A x \in Routes \ {r} : route'[x] = route[x]) /\ route' \in [Routes -> RouteStates]
    BY <1>1, <1>5, <1>7, <1>9 DEF IngressTypes
  <1>11. ASSUME NEW x \in Routes PROVE Settled(x)'
    <2>1. CASE x = r
      <3>1. CommittedAs(r)'
        BY <1>5, <1>6, <1>8, <1>9, <1>10 DEF CommittedAs
      <3>2. b.revision \in Nat
        BY DEF Backends
      <3> QED BY <1>9, <1>10, <2>1, <3>1, <3>2 DEF Settled
    <2>2. CASE x # r
      <3>1. RouteOK(x) /\ route[x].observed.revision <= route[x].revision /\ ~Free
        BY <1>1, UnderWay, RouteIs
      <3>2. route'[x] = route[x] /\ x \notin Desired.probe
        BY <1>8, <1>10, <2>2
      <3>3. route[x].status = "ready" => CommittedAs(x)'
        BY <1>6, <3>1, <3>2 DEF RouteOK, CommittedAs
      <3> QED BY <1>6, <3>1, <3>2, <3>3 DEF Settled, RouteOK
    <2> QED BY <2>1, <2>2
  <1>12. DOMAIN host.committed \subseteq Routes
    BY <1>1, HostIs, RouteMapIs
  <1>13. ASSUME NEW x \in DOMAIN host'.committed PROVE Served(x)'
    <2>1. CASE x = r
      <3>1. Kept(d)
        BY <1>1, <1>4, <1>5 DEF IngressInv, BackendsOK, ReconciliationBacked
      <3>2. host'.committed[r] = b
        BY <1>5, <1>6
      <3> QED BY <1>1, <1>4, <1>5, <2>1, <3>1, <3>2 DEF Served, Kept
    <2>2. CASE x # r
      <3>1. x \in Routes /\ x \in DOMAIN host.committed /\ host'.committed[x] = host.committed[x] /\ route'[x] = route[x]
        BY <1>6, <1>8, <1>10, <1>12, <2>2
      <3>2. \A n \in SlotDeployments : dep[n].pc \in Committing \cup {"succeeded"} => dep'[n].pc = "succeeded"
        BY <1>1, NoOwner
      <3> QED BY <1>1, <3>1, <3>2, StillServed
    <2> QED BY <2>1, <2>2
  <1>14. ResolvedOK'
    BY <1>1, IdleIs
  <1>15. agent'.committed.routes = host'.committed /\ agent'.pending = NoConfig /\ caddy' = host'.committed
    BY <1>1, <1>6 DEF Holds
  <1>16. agent'.committed.revision <= host'.revision
    BY <1>1, <1>6 DEF IngressInv, AgentOK
  <1>17. agent' \in AgentStates /\ dep' \in [SlotDeployments -> DepStates]
    BY <1>1 DEF IngressTypes
  <1>18. \A n \in SlotDeployments : /\ dep'[n].pc \notin ManagedPhase \cup Committing
                                    /\ dep'[n].reached = "ordinary" => dep'[n].pc = "succeeded"
    BY <1>1, NoOwner
  <1> QED BY <1>1, <1>6, <1>10, <1>11, <1>13, <1>14, <1>15, <1>16, <1>17, <1>18, Freed

\* What an aborted operation leaves: what was committed.
LEMMA AbortedIs ==
    ASSUME IngressInv, host.op.kind # "none", Tries(Desired)
    PROVE  /\ agent.committed.routes = host.committed
           /\ agent.pending = NoConfig => caddy = host.committed
           /\ agent.committed.revision <= host.revision
  <1>1. AgentOK /\ Desired # NoConfig /\ Desired.revision \in Nat
    BY UnderWay DEF IngressInv
  <1>2. ~Holds(Desired)
    BY <1>1 DEF Holds, Tries
  <1> QED BY <1>1, <1>2 DEF AgentOK, Tries, Tried

LEMMA AbortReconciliationStep ==
    ASSUME IngressInv, AbortReconciliation PROVE IngressInv'
  <1>1. /\ resolved.pc = "failed" /\ Idle /\ UNCHANGED <<dep, containers>>
        /\ host.op.kind = "reconciliation" /\ host.op.state = "allocated" /\ host.op.by = resolved.route
    BY ReadingIs DEF AbortReconciliation
  <1>2. PICK r \in Routes : r = resolved.route
    BY <1>1, ReadingIs
  <1>3. PICK c \in Configs : c = Desired /\ c.revision > 0 /\ Tries(c)
    BY <1>1, AllocatedFinds
  <1>4. PICK result : /\ Abort(c, result)
                      /\ IF result = "ok"
                         THEN host' = Unset /\ route' = [route EXCEPT ![r] = Transition(r, "degraded")]
                         ELSE UNCHANGED <<host, route>>
    BY <1>2, <1>3 DEF AbortReconciliation, Desired
  <1>5. /\ agent' \in AgentStates /\ agent'.committed = agent.committed
        /\ Tries(c)' /\ PendingIsAbove'
        /\ result = "ok" => agent'.pending = NoConfig /\ caddy' = agent.committed.routes
    BY <1>1, <1>3, <1>4, AllocatedFinds, AbortIs
  <1>6. ResolvedOK' /\ IngressTypes
    BY <1>1, IdleIs DEF IngressInv
  <1>7. CASE result # "ok"
    <2>1. Moves("allocated") /\ Desired' = c /\ Tries(Desired)' /\ UNCHANGED route
      BY <1>1, <1>3, <1>4, <1>5, <1>7, StillMoves DEF Desired, Tries, Tried
    <2>2. "allocated" \in Uncommitted /\ host.op.state \in Uncommitted
      BY <1>1 DEF Uncommitted
    <2> QED BY <1>1, <1>5, <1>6, <2>1, <2>2, OtherCall
  <1>8. CASE result = "ok"
    <2>1. host' \in HostStates /\ host'.revision = host.revision /\ host'.committed = host.committed /\ host'.op = NoOp
      BY <1>4, <1>6, <1>8, UnsetIs
    <2>2. PICK v : v = Transition(r, "degraded")
      OBVIOUS
    <2>3. v \in RouteStates /\ v.status = "degraded" /\ v.revision = route[r].revision /\ v.observed = route[r].observed
      BY <2>2, TransitionIs DEF Opened
    <2>4. route'[r] = v /\ (\A x \in Routes \ {r} : route'[x] = route[x]) /\ route' \in [Routes -> RouteStates]
      BY <1>4, <1>6, <1>8, <2>2, <2>3 DEF IngressTypes
    <2>5. /\ Desired.probe = {r} /\ route[r].observed.revision # route[r].revision /\ route[r].status = "provisioning"
      BY <1>1, <1>2 DEF IngressInv, OpOK, ReconciliationOK, Uncommitted
    <2>6. ASSUME NEW x \in Routes PROVE Settled(x)'
      <3>1. CASE x = r
        BY <2>3, <2>4, <2>5, <3>1, RouteIs DEF Settled
      <3>2. CASE x # r
        <4>1. route[x].status # "provisioning"
          BY <2>5, <3>2, RouteIs DEF RouteOK
        <4> QED BY <1>1, <2>1, <2>4, <3>2, <4>1, Settles
      <3> QED BY <3>1, <3>2
    <2>7. ASSUME NEW x \in DOMAIN host'.committed PROVE Served(x)'
      <3>1. x \in Routes /\ x \in DOMAIN host.committed /\ host'.committed[x] = host.committed[x]
        BY <1>6, <2>1, HostIs, RouteMapIs
      <3>2. \A n \in SlotDeployments : dep[n].pc \in Committing \cup {"succeeded"} => dep'[n].pc = "succeeded"
        BY <1>1, NoOwner
      <3>3. route[x].status = "retiring" => route'[x].status = "retiring"
        BY <2>4, <2>5, <3>1
      <3> QED BY <1>1, <3>1, <3>2, <3>3, StillServed
    <2>8. /\ agent'.committed.routes = host'.committed /\ agent'.pending = NoConfig /\ caddy' = host'.committed
          /\ agent'.committed.revision <= host'.revision
      BY <1>1, <1>3, <1>5, <1>8, <2>1, AbortedIs
    <2>9. dep' \in [SlotDeployments -> DepStates]
      BY <1>1, <1>6 DEF IngressTypes
    <2>10. \A n \in SlotDeployments : /\ dep'[n].pc \notin ManagedPhase \cup Committing
                                      /\ dep'[n].reached = "ordinary" => dep'[n].pc = "succeeded"
      BY <1>1, NoOwner
    <2> QED BY <1>1, <1>5, <1>6, <2>1, <2>4, <2>6, <2>7, <2>8, <2>9, <2>10, Freed
  <1> QED BY <1>7, <1>8

\* What the owner of a committed cutover finds.
LEMMA CommittingIs ==
    ASSUME IngressInv, NEW d \in SlotDeployments, dep[d].pc \in Committing
    PROVE  /\ Owns(d) /\ host.op.kind = "cutover" /\ host.op.by = d /\ Kept(d)
           /\ host.op.state \in {"control_plane_committed", "gateway_committed"}
           /\ dep[d].pc \in {"draining", "retired"} => host.op.state = "gateway_committed"
           /\ IngressTypes /\ PendingIsAbove /\ Desired \in Configs /\ Desired.revision > 0
           /\ Ready(Desired) \/ Holds(Desired)
           /\ host.op.state = "gateway_committed" => Holds(Desired) /\ host.committed = Desired.routes
           /\ CutoverOK
  <1>1. /\ Owns(d) /\ Kept(d) /\ host.op.state \in {"control_plane_committed", "gateway_committed"}
        /\ dep[d].pc \in {"draining", "retired"} => host.op.state = "gateway_committed"
    BY DepIs DEF PcOK, Committing, KeptSteps
  <1>2. host.op.kind = "cutover" /\ host.op.by = d
    BY <1>1 DEF Owns, Of
  <1>3. /\ host.op.state = "gateway_committed" => Holds(Desired) /\ host.committed = Desired.routes
        /\ Ready(Desired) \/ Holds(Desired)
    BY <1>1, <1>2 DEF IngressInv, AgentOK
  <1>4. Desired \in Configs /\ Desired.revision > 0 /\ IngressTypes /\ PendingIsAbove /\ CutoverOK
    BY <1>2, UnderWay DEF IngressInv, OpOK
  <1> QED BY <1>1, <1>2, <1>3, <1>4

LEMMA FinishCutoverStep ==
    ASSUME IngressInv, NEW d \in SlotDeployments, FinishCutover(d) PROVE IngressInv'
  <1>1. dep[d].pc = "retired" /\ host' = Unset /\ Go(d, "succeeded")
        /\ UNCHANGED <<route, agent, caddy, containers, resolved>>
    BY DEF FinishCutover
  <1>2. /\ Owns(d) /\ host.op.kind = "cutover" /\ host.op.by = d /\ host.op.state = "gateway_committed"
        /\ IngressTypes /\ Holds(Desired) /\ host.committed = Desired.routes
    BY <1>1, CommittingIs DEF Committing
  <1>3. host' \in HostStates /\ host'.revision = host.revision /\ host'.committed = host.committed /\ host'.op = NoOp
    BY <1>1, <1>2, UnsetIs
  <1>4. Goes2(d, "succeeded")
    BY <1>1, GoesByGo DEF DepSteps, Committing
  <1>5. dep'[d].pc = "succeeded" /\ dep' \in [SlotDeployments -> DepStates]
        /\ \A n \in SlotDeployments \ {d} : dep'[n] = dep[n] /\ dep[n].pc \notin ManagedPhase \cup Committing
    BY <1>2, <1>4, OneOwner DEF Goes2
  <1>6. ASSUME NEW r \in Routes PROVE Settled(r)'
    <2>1. route[r].status # "provisioning"
      BY <1>2, RouteIs DEF RouteOK, Uncommitted
    <2> QED BY <1>1, <1>2, <1>3, <2>1, Settles
  <1>7. ASSUME NEW r \in DOMAIN host'.committed PROVE Served(r)'
    <2>1. r \in Routes /\ r \in DOMAIN host.committed /\ host'.committed[r] = host.committed[r]
      BY <1>2, <1>3, HostIs, RouteMapIs
    <2>2. \A n \in SlotDeployments : dep[n].pc \in Committing \cup {"succeeded"} => dep'[n].pc = "succeeded"
      BY <1>5
    <2>3. \A n \in SlotDeployments : dep[n].reached = "ordinary" => dep'[n].reached = "ordinary"
      BY <1>1, <1>5, DepIs
    <2> QED BY <1>1, <2>1, <2>2, <2>3, StillServed
  <1>8. ResolvedOK'
    BY <1>1, <1>2, <1>5, ReadingStays
  <1>9. /\ agent'.committed.routes = host'.committed /\ agent'.pending = NoConfig /\ caddy' = host'.committed
        /\ agent'.committed.revision <= host'.revision
    BY <1>1, <1>2, <1>3 DEF Holds, IngressInv, AgentOK
  <1>10. agent' \in AgentStates /\ route' \in [Routes -> RouteStates]
    BY <1>1, <1>2 DEF IngressTypes
  <1>11. \A n \in SlotDeployments : /\ dep'[n].pc \notin ManagedPhase \cup Committing
                                    /\ dep'[n].reached = "ordinary" => dep'[n].pc = "succeeded"
    BY <1>5, DepIs DEF ManagedPhase, Committing
  <1> QED BY <1>1, <1>3, <1>5, <1>6, <1>7, <1>8, <1>9, <1>10, <1>11, Freed

LEMMA AbortRouteIs ==
    ASSUME IngressInv, NEW r \in Routes, route[r].status = "provisioning"
    PROVE  /\ AbortRoute(r) \in RouteStates /\ AbortRoute(r).revision = route[r].revision
           /\ AbortRoute(r).observed = route[r].observed
           /\ AbortRoute(r).status =
                 IF route[r].observed.revision = route[r].revision THEN "ready" ELSE "degraded"
  BY TransitionIs DEF AbortRoute, Opened

LEMMA FinalizeAbortStep ==
    ASSUME IngressInv, NEW d \in SlotDeployments, FinalizeAbort(d) PROVE IngressInv'
  <1>1. /\ dep[d].pc = "finalize" /\ host' = Unset /\ UNCHANGED <<agent, caddy, containers, resolved>>
        /\ route' = [r \in Routes |-> IF r \in Desired.probe THEN AbortRoute(r) ELSE route[r]]
    BY DEF FinalizeAbort, Desired
  <1>2. PICK pc : pc \in {"canceled", "failed"} /\ Go(d, pc)
    BY DEF FinalizeAbort
  <1>3. /\ Owns(d) /\ host.op.kind = "cutover" /\ host.op.by = d /\ host.op.state \in Uncommitted
        /\ IngressTypes /\ Tries(Desired) /\ agent.pending = NoConfig
    BY <1>1, OwnerIs, DepIs DEF ManagedPhase, PcOK
  <1>4. host' \in HostStates /\ host'.revision = host.revision /\ host'.committed = host.committed /\ host'.op = NoOp
    BY <1>1, <1>3, UnsetIs
  <1>5. Goes2(d, pc)
    BY <1>1, <1>2, GoesByGo DEF DepSteps, Committing
  <1>6. dep'[d].pc \in {"canceled", "failed"} /\ dep' \in [SlotDeployments -> DepStates]
        /\ \A n \in SlotDeployments \ {d} : dep'[n] = dep[n] /\ dep[n].pc \notin ManagedPhase \cup Committing
    BY <1>2, <1>3, <1>5, OneOwner DEF Goes2
  <1>7. \A r \in Desired.probe : r \in Routes /\ route[r].status = "provisioning"
    BY <1>3, HostIs DEF IngressInv, OpOK, Configs
  <1>8. ASSUME NEW r \in Routes
        PROVE  route'[r] \in RouteStates /\ Settled(r)' /\ (route[r].status = "retiring" => route'[r].status = "retiring")
    <2>1. CASE r \in Desired.probe
      <3>1. /\ route'[r] \in RouteStates /\ route'[r].revision = route[r].revision
            /\ route'[r].observed = route[r].observed
            /\ route'[r].status = IF route[r].observed.revision = route[r].revision THEN "ready" ELSE "degraded"
        BY <1>1, <1>7, <2>1, AbortRouteIs
      <3>2. route[r].observed.revision = route[r].revision => CommittedAs(r)'
        BY <1>4, <1>7, <2>1, <3>1, RouteIs DEF RouteOK, CommittedAs
      <3> QED BY <1>7, <2>1, <3>1, <3>2, RouteIs DEF Settled
    <2>2. CASE r \notin Desired.probe
      <3>1. route'[r] = route[r] /\ route[r].status # "provisioning" /\ route[r] \in RouteStates
        BY <1>1, <2>2, RouteIs DEF RouteOK
      <3>2. host.op.state # "control_plane_committed"
        BY <1>3 DEF Uncommitted
      <3> QED BY <1>4, <3>1, <3>2, Settles
    <2> QED BY <2>1, <2>2
  <1>9. route' \in [Routes -> RouteStates]
    BY <1>1, <1>8
  <1>10. ASSUME NEW r \in DOMAIN host'.committed PROVE Served(r)'
    <2>1. r \in Routes /\ r \in DOMAIN host.committed /\ host'.committed[r] = host.committed[r]
      BY <1>3, <1>4, HostIs, RouteMapIs
    <2>2. \A n \in SlotDeployments :
              dep[n].pc \in Committing \cup {"succeeded"} /\ (Owns(n) => host.op.state = "gateway_committed")
                  => dep'[n].pc = "succeeded"
      BY <1>3, <1>6 DEF Uncommitted
    <2>3. \A n \in SlotDeployments : dep[n].reached = "ordinary" => dep'[n].reached = "ordinary"
      BY <1>1, <1>6, DepIs
    <2> QED BY <1>1, <1>8, <2>1, <2>2, <2>3, StillServed
  <1>11. ResolvedOK'
    <2>1. \A n \in SlotDeployments : dep[n].pc = "succeeded" => dep'[n].pc = "succeeded"
      BY <1>1, <1>6
    <2> QED BY <1>1, <1>3, <2>1, ReadingStays
  <1>12. /\ agent'.committed.routes = host'.committed /\ agent'.pending = NoConfig /\ caddy' = host'.committed
         /\ agent'.committed.revision <= host'.revision
    BY <1>1, <1>3, <1>4, AbortedIs
  <1>13. agent' \in AgentStates
    BY <1>1, <1>3 DEF IngressTypes
  <1>14. \A n \in SlotDeployments : /\ dep'[n].pc \notin ManagedPhase \cup Committing
                                    /\ dep'[n].reached = "ordinary" => dep'[n].pc = "succeeded"
    <2>1. dep'[d].reached # "ordinary"
      BY <1>2, <1>5 DEF Goes2
    <2> QED BY <1>6, <2>1, DepIs DEF ManagedPhase, Committing
  <1> QED BY <1>1, <1>4, <1>6, <1>8, <1>9, <1>10, <1>11, <1>12, <1>13, <1>14, Freed

-----------------------------------------------------------------------------
(* An operation is committed.                                              *)

LEMMA CommitControlPlaneStep ==
    ASSUME IngressInv, NEW d \in SlotDeployments, CommitControlPlane(d) PROVE IngressInv'
  <1>1. /\ dep[d].pc = "activated" /\ host.op.state = "prepared"
        /\ host' = [host EXCEPT !.op.state = "control_plane_committed"] /\ Go(d, "committing")
        /\ route' = [r \in Routes |-> IF r \in Desired.probe THEN ObserveReady(r, d) ELSE route[r]]
        /\ UNCHANGED <<agent, caddy, containers, resolved>>
    BY DEF CommitControlPlane, Desired
  <1>2. /\ Owns(d) /\ host.op.kind = "cutover" /\ host.op.by = d /\ Kept(d) /\ IngressTypes /\ Ready(Desired)
    BY <1>1, OwnerIs, DepIs DEF ManagedPhase, KeptSteps, PcOK
  <1>3. Moves("control_plane_committed")
    BY <1>1, StateMoves DEF OpStates
  <1>4. /\ ~Free /\ ~Free' /\ Desired' = Desired /\ Desired \in Configs /\ Desired.revision = host.revision
        /\ Desired.revision > 0
    BY <1>2, <1>3, UnderWay
  <1>5. /\ host' \in HostStates /\ host'.committed = host.committed /\ host'.revision = host.revision
        /\ host'.op.kind = "cutover" /\ host'.op.by = d /\ host'.op.state = "control_plane_committed"
    BY <1>2, <1>3 DEF Moves
  <1>6. Goes2(d, "committing") /\ dep' \in [SlotDeployments -> DepStates]
    BY <1>1, GoesByGo DEF DepSteps, Committing, Goes2
  <1>7. AgentOK' /\ PendingIsAbove'
    <2>1. Ready(Desired)'
      BY <1>1, <1>2, <1>4 DEF Ready
    <2>2. AgentOK /\ PendingIsAbove /\ (Holds(Desired)' <=> Holds(Desired))
      BY <1>1, <1>4 DEF IngressInv, Holds
    <2> QED BY <1>1, <1>4, <1>5, <2>1, <2>2 DEF AgentOK, PendingIsAbove, AboveWatermark
  <1>8. /\ CutoverOK /\ Desired.probe \subseteq Routes /\ Desired.routes \in RouteMaps
        /\ Desired.probe \subseteq DOMAIN Desired.routes
        /\ \A r \in Desired.probe : /\ route[r].status = "provisioning"
                                    /\ route[r].revision = Desired.routes[r].revision
                                    /\ Desired.routes[r].deployment = d
    BY <1>1, <1>2, <1>4 DEF IngressInv, OpOK, CutoverOK, Configs, Uncommitted
  <1>9. ASSUME NEW r \in Routes, r \in Desired.probe
        PROVE  /\ route'[r] \in RouteStates /\ route'[r].status = "ready"
               /\ route'[r].revision = route[r].revision /\ route'[r].observed = Desired.routes[r]
               /\ Desired.routes[r].revision = route[r].revision
    <2>1. PICK v : v = ObserveReady(r, d)
      OBVIOUS
    <2>2. /\ v \in RouteStates /\ v.status = "ready" /\ v.revision = route[r].revision
          /\ v.observed \in Backends /\ v.observed.revision = route[r].revision /\ v.observed.deployment = d
      BY <2>1, ObserveReadyIs
    <2>3. Desired.routes[r] \in Backends
      BY <1>8, <1>9, RouteMapIs
    <2>4. v.observed = Desired.routes[r]
      BY <1>8, <1>9, <2>2, <2>3, SameBackend
    <2>5. route'[r] = v
      BY <1>1, <1>9, <2>1
    <2> QED BY <1>8, <1>9, <2>2, <2>4, <2>5
  <1>10. ASSUME NEW r \in Routes, r \notin Desired.probe PROVE route'[r] = route[r]
    BY <1>1, <1>10
  <1>11. IngressTypes' /\ HistoryOK'
    <2>1. \A r \in Routes : route'[r] \in RouteStates /\ route'[r].observed.revision <= route'[r].revision
      <3> SUFFICES ASSUME NEW r \in Routes
                   PROVE route'[r] \in RouteStates /\ route'[r].observed.revision <= route'[r].revision
        OBVIOUS
      <3>1. /\ route[r].revision \in Nat /\ route[r] \in RouteStates /\ route[r].observed.revision <= route[r].revision
            /\ route[r].revision <= route[r].revision
        BY RouteIs
      <3>2. CASE r \in Desired.probe
        BY <1>9, <3>1, <3>2
      <3>3. CASE r \notin Desired.probe
        BY <1>10, <3>1, <3>3
      <3> QED BY <3>2, <3>3
    <2>2. route' \in [Routes -> RouteStates]
      BY <1>1, <2>1
    <2>3. \A n \in SlotDeployments : dep'[n].reached = "ordinary" => dep'[n].pc = "succeeded"
      BY <1>6, DepIs DEF Goes2
    <2> QED BY <1>1, <1>2, <1>5, <1>6, <2>1, <2>2, <2>3 DEF IngressTypes, HistoryOK
  <1>12. OpOK'
    <2>1. \A r \in DOMAIN Desired.routes \ Desired.probe : route'[r].status = "retiring"
      BY <1>8, <1>10, RouteMapIs DEF CutoverOK
    <2>2. CutoverOK'
      BY <1>2, <1>4, <1>5, <1>8, <2>1 DEF CutoverOK
    <2> QED BY <1>5, <2>2 DEF OpOK, Uncommitted
  <1>13. ASSUME NEW r \in Routes PROVE RouteOK(r)'
    <2>1. RouteOK(r)
      BY RouteIs
    <2>2. CASE r \in Desired.probe
      BY <1>4, <1>5, <1>8, <1>9, <2>2 DEF RouteOK
    <2>3. CASE r \notin Desired.probe
      <3>1. route'[r] = route[r] /\ (CommittedAs(r)' <=> CommittedAs(r))
        BY <1>5, <1>10, <2>3 DEF CommittedAs
      <3> QED BY <1>1, <1>4, <1>5, <2>1, <2>3, <3>1 DEF RouteOK
    <2> QED BY <2>2, <2>3
  <1>14. \A n \in SlotDeployments : Kept(n) => Kept(n)'
    BY <1>1, <1>6, KeptStays
  <1>15. ASSUME NEW n \in SlotDeployments PROVE DepOK(n)'
    <2>1. CASE n = d
      <3>1. Owns(d)' /\ dep'[d].pc = "committing" /\ Kept(d)'
        BY <1>2, <1>5, <1>6, <1>14 DEF Owns, Of, Goes2
      <3> QED BY <1>5, <2>1, <3>1 DEF DepOK, PcOK, ManagedPhase, Committing, Uncommitted
    <2>2. CASE n # d
      <3>1. ~Owns(n) /\ ~Owns(n)' /\ dep'[n] = dep[n]
        BY <1>2, <1>5, <1>6, <2>2 DEF Owns, Of, Goes2
      <3> QED BY <3>1, OtherDepStep
    <2> QED BY <2>1, <2>2
  <1>16. ResolvedOK'
    <2>1. \A n \in SlotDeployments : dep[n].pc = "succeeded" => dep'[n].pc = "succeeded"
      BY <1>6 DEF Goes2
    <2> QED BY <1>1, <1>2, <2>1, ReadingStays
  <1>17. BackendsOK'
    <2>1. ASSUME NEW x \in DOMAIN host.committed PROVE Backed(x)'
      <3>1. Backed(x)
        BY DEF IngressInv, BackendsOK
      <3>2. PICK m \in SlotDeployments : m = host.committed[x].deployment
        BY <3>1 DEF Backed
      <3>3. m # d
        BY <1>1, <1>2, <3>1, <3>2 DEF Backed
      <3>4. x \in Routes
        BY <1>2, HostIs, RouteMapIs
      <3>5. route[x].status = "retiring" => route'[x].status = "retiring"
        BY <1>8, <1>10, <3>4
      <3>6. dep'[m].pc \in Committing \cup {"succeeded"} /\ ~Owns(m)' /\ (Kept(m)' \/ route'[x].status = "retiring")
        BY <1>5, <1>6, <1>14, <3>1, <3>2, <3>3, <3>5 DEF Backed, Goes2, Owns, Of
      <3> QED BY <1>5, <3>2, <3>6 DEF Backed, Kept, Owns, Of
    <2> QED BY <1>5, <2>1 DEF BackendsOK, Uncommitted
  <1> QED BY <1>7, <1>11, <1>12, <1>13, <1>15, <1>16, <1>17 DEF IngressInv

\* The routes, when what the operation asks for is what is committed.
LEMMA CommittedRoute ==
    ASSUME IngressInv, host.op.kind # "none", NEW r \in Routes, route'[r] = route[r],
           host'.committed = Desired.routes, Desired' = Desired, host'.op.state = "gateway_committed",
           host.op.kind = "retirement" \/ host.op.state \notin Uncommitted
    PROVE  RouteOK(r)'
  <1>1. RouteOK(r) /\ ~Free
    BY RouteIs, UnderWay
  <1>2. route[r].status # "provisioning"
    BY <1>1 DEF RouteOK, IngressInv, OpOK, RetirementOK
  <1>3. route[r].status = "ready" => CommittedAs(r)'
    BY <1>1 DEF RouteOK, CommittedAs
  <1> QED BY <1>1, <1>2, <1>3 DEF RouteOK

LEMMA CommitCutoverStep ==
    ASSUME IngressInv, NEW d \in SlotDeployments, CommitCutover(d) PROVE IngressInv' /\ WatermarksDoNotFall
  <1>1. dep[d].pc = "committing" /\ dep[d].pc \in Committing /\ UNCHANGED <<route, containers, resolved>>
    BY DEF CommitCutover, Committing
  <1>2. /\ Owns(d) /\ host.op.kind = "cutover" /\ host.op.by = d /\ Kept(d) /\ IngressTypes /\ PendingIsAbove
        /\ host.op.state \in {"control_plane_committed", "gateway_committed"}
        /\ host.op.state = "gateway_committed" => Holds(Desired) /\ host.committed = Desired.routes
        /\ CutoverOK
    BY <1>1, CommittingIs
  <1>3. PICK c \in Configs : c = Desired /\ c.revision > 0 /\ (Ready(c) \/ Holds(c))
    BY <1>1, CommittingIs
  <1>4. PICK result : /\ Commit(c, result)
                      /\ IF result = "ok" THEN host' = Committed /\ Go(d, "draining") ELSE UNCHANGED <<host, dep>>
    BY <1>3 DEF CommitCutover, Desired
  <1>5. /\ agent' \in AgentStates /\ (Ready(c)' \/ Holds(c)') /\ agent'.committed \in {agent.committed, c}
        /\ PendingIsAbove' /\ WatermarksDoNotFall /\ (result = "ok" => Holds(c)')
    BY <1>2, <1>3, <1>4, CommitIs
  <1>6. c.revision \in Nat /\ c.revision = host.revision /\ ~Free
    BY <1>2, <1>3, UnderWay
  <1>7. agent'.committed = c => Holds(c)'
    BY <1>5, <1>6 DEF Ready
  <1>8. CASE result # "ok"
    <2>1. UNCHANGED <<host, dep>> /\ Desired' = c
      BY <1>3, <1>4, <1>8 DEF Desired
    <2>2. Holds(Desired) => Holds(Desired)'
      BY <1>3, <1>5, <1>7, <2>1 DEF Holds
    <2>3. AgentOK'
      <3>1. AgentOK
        BY DEF IngressInv
      <3>2. agent'.committed.revision <= host'.revision
        <4>1. CASE agent'.committed = agent.committed
          BY <2>1, <3>1, <4>1 DEF AgentOK
        <4>2. CASE agent'.committed = c
          BY <1>6, <2>1, <4>2
        <4> QED BY <1>5, <4>1, <4>2
      <3>3. agent'.committed.routes = host'.committed \/ Holds(Desired)'
        BY <1>5, <1>7, <2>1, <2>2, <3>1 DEF AgentOK, Holds
      <3>4. Ready(Desired)' \/ Holds(Desired)'
        BY <1>5, <2>1 DEF Ready, Holds
      <3>5. Free' <=> Free
        BY <2>1 DEF Free
      <3> QED BY <1>2, <1>3, <1>6, <2>1, <2>2, <3>1, <3>2, <3>3, <3>4, <3>5 DEF AgentOK
    <2>4. OpOK' /\ \A r \in Routes : RouteOK(r)'
      BY <1>1, <2>1, RoutesStay
    <2>5. IngressTypes' /\ HistoryOK'
      BY <1>1, <1>2, <1>5, <2>1 DEF IngressInv, IngressTypes, HistoryOK
    <2>6. ASSUME NEW n \in SlotDeployments PROVE DepOK(n)'
      <3>1. DepOK(n) /\ (Owns(n)' <=> Owns(n)) /\ (Kept(n)' <=> Kept(n)) /\ (dep[n].pc \notin ManagedPhase)
        BY <1>1, <1>2, <2>1, OneOwner, DepIs DEF Owns, Of, Kept, ManagedPhase, Committing
      <3> QED BY <2>1, <3>1 DEF DepOK, PcOK, ManagedPhase
    <2>7. ResolvedOK'
      BY <1>1, <1>2, <2>1, ReadingStays
    <2>8. BackendsOK'
      BY <1>1, <1>2, <2>1 DEF IngressInv, BackendsOK, Backed, Kept, Owns, Of, Uncommitted
    <2> QED BY <1>5, <2>3, <2>4, <2>5, <2>6, <2>7, <2>8 DEF IngressInv
  <1>9. CASE result = "ok"
    <2>1. /\ host' \in HostStates /\ host'.revision = host.revision /\ host'.committed = c.routes
          /\ host'.op.kind = "cutover" /\ host'.op.by = d /\ host'.op.state = "gateway_committed" /\ Desired' = c
          /\ ~Free'
      BY <1>2, <1>3, <1>4, <1>9, CommittedIs, NoOpIs DEF Desired, Free
    <2>2. Goes2(d, "draining") /\ dep' \in [SlotDeployments -> DepStates]
      BY <1>1, <1>4, <1>9, GoesByGo DEF DepSteps, Committing, Goes2
    <2>3. Holds(Desired)' /\ agent'.committed = c
      BY <1>5, <1>9, <2>1 DEF Holds
    <2>4. AgentOK'
      BY <1>3, <1>6, <2>1, <2>3 DEF AgentOK, Holds
    <2>5. IngressTypes' /\ HistoryOK'
      <3>1. \A n \in SlotDeployments : dep'[n].reached = "ordinary" => dep'[n].pc = "succeeded"
        BY <2>2, DepIs DEF Goes2
      <3> QED BY <1>1, <1>2, <1>5, <2>1, <2>2, <3>1 DEF IngressInv, IngressTypes, HistoryOK
    <2>6. OpOK'
      <3>1. CutoverOK'
        BY <1>1, <1>2, <1>3, <2>1 DEF CutoverOK
      <3> QED BY <2>1, <3>1 DEF OpOK, Uncommitted
    <2>7. ASSUME NEW r \in Routes PROVE RouteOK(r)'
      <3>1. host.op.state \notin Uncommitted /\ host.op.kind # "none" /\ host'.committed = Desired.routes
            /\ Desired' = Desired /\ route'[r] = route[r]
        BY <1>1, <1>2, <1>3, <2>1 DEF Uncommitted
      <3> QED BY <2>1, <3>1, CommittedRoute
    <2>8. \A n \in SlotDeployments : Kept(n) => Kept(n)'
      BY <1>1, <2>2, KeptStays
    <2>9. ASSUME NEW n \in SlotDeployments PROVE DepOK(n)'
      <3>1. CASE n = d
        <4>1. Owns(d)' /\ dep'[d].pc = "draining" /\ Kept(d)'
          BY <1>2, <2>1, <2>2, <2>8 DEF Owns, Of, Goes2
        <4> QED BY <2>1, <3>1, <4>1 DEF DepOK, PcOK, ManagedPhase, Committing, Uncommitted
      <3>2. CASE n # d
        <4>1. ~Owns(n) /\ ~Owns(n)' /\ dep'[n] = dep[n]
          BY <1>2, <2>1, <2>2, <3>2 DEF Owns, Of, Goes2
        <4> QED BY <4>1, OtherDepStep
      <3> QED BY <3>1, <3>2
    <2>10. ResolvedOK'
      <3>1. \A n \in SlotDeployments : dep[n].pc = "succeeded" => dep'[n].pc = "succeeded"
        BY <2>2 DEF Goes2
      <3> QED BY <1>1, <1>2, <3>1, ReadingStays
    <2>11. ASSUME NEW x \in DOMAIN host'.committed PROVE Backed(x)'
      <3>1. x \in DOMAIN Desired.routes /\ host'.committed[x] = Desired.routes[x]
        BY <1>3, <2>1, <2>11
      <3>2. CASE x \in Desired.probe
        <4>1. host'.committed[x].deployment = d
          BY <1>2, <3>1, <3>2 DEF CutoverOK
        <4>2. dep'[d].pc = "draining" /\ Kept(d)'
          BY <1>2, <2>2, <2>8 DEF Goes2
        <4> QED BY <2>1, <4>1, <4>2 DEF Backed, Kept, Committing
      <3>3. CASE x \notin Desired.probe
        <4>1. route[x].status = "retiring" /\ x \in DOMAIN host.committed /\ host.committed[x] = Desired.routes[x]
          BY <1>2, <3>1, <3>3 DEF CutoverOK
        <4>2. Backed(x)
          BY <4>1 DEF IngressInv, BackendsOK
        <4>3. PICK m \in SlotDeployments : m = host'.committed[x].deployment /\ m = host.committed[x].deployment
          BY <3>1, <4>1, <4>2 DEF Backed
        <4>4. dep'[m].pc \in Committing \cup {"succeeded"}
          BY <2>2, <4>2, <4>3 DEF Backed, Goes2, Committing
        <4> QED BY <1>1, <2>1, <4>1, <4>3, <4>4 DEF Backed
      <3> QED BY <3>2, <3>3
    <2>12. BackendsOK'
      BY <2>1, <2>11 DEF BackendsOK, Uncommitted
    <2> QED BY <1>5, <2>4, <2>5, <2>6, <2>7, <2>9, <2>10, <2>12 DEF IngressInv
  <1> QED BY <1>5, <1>8, <1>9

LEMMA CommitRetirementStep ==
    ASSUME IngressInv, NEW r \in Routes, CommitRetirement(r) PROVE IngressInv' /\ WatermarksDoNotFall
  <1>1. /\ host.op.state = "prepared" /\ host.op.kind = "retirement" /\ host.op.by = r
        /\ UNCHANGED <<route, dep, containers, resolved>> /\ IngressTypes
    BY DEF CommitRetirement, Of, IngressInv
  <1>2. PICK c \in Configs : c = Desired /\ c.revision > 0 /\ (Ready(c) \/ Holds(c))
    BY <1>1, PreparedFinds
  <1>3. PICK result : Commit(c, result) /\ IF result = "ok" THEN host' = Committed ELSE UNCHANGED host
    BY <1>2 DEF CommitRetirement, Desired
  <1>4. /\ agent' \in AgentStates /\ (Ready(c)' \/ Holds(c)') /\ agent'.committed \in {agent.committed, c}
        /\ PendingIsAbove' /\ WatermarksDoNotFall /\ (result = "ok" => Holds(c)')
    BY <1>1, <1>2, <1>3, PreparedFinds, CommitIs
  <1>5. ResolvedOK'
    BY <1>1, ReadingStays
  <1>6. c.revision \in Nat /\ c.revision = host.revision
    BY <1>1, <1>2, UnderWay
  <1>7. CASE result # "ok"
    <2>1. Moves("prepared") /\ Desired' = c
      BY <1>1, <1>2, <1>3, <1>7, StillMoves DEF Desired
    <2>2. Ready(Desired)' \/ Holds(Desired)'
      BY <1>4, <2>1 DEF Ready, Holds
    <2>3. agent'.committed = agent.committed \/ Holds(Desired)'
      BY <1>4, <1>6, <2>1 DEF Ready, Holds
    <2>4. "prepared" \in Uncommitted /\ host.op.state \in Uncommitted
      BY <1>1 DEF Uncommitted
    <2> QED BY <1>1, <1>4, <1>5, <2>1, <2>2, <2>3, <2>4, OtherCall
  <1>8. CASE result = "ok"
    <2>1. /\ host' \in HostStates /\ host'.revision = host.revision /\ host'.committed = c.routes
          /\ host'.op.kind = "retirement" /\ host'.op.by = r /\ host'.op.state = "gateway_committed" /\ Desired' = c
          /\ ~Free'
      BY <1>1, <1>2, <1>3, <1>8, CommittedIs, NoOpIs DEF Desired, Free
    <2>2. Holds(Desired)' /\ agent'.committed = c
      BY <1>4, <1>8, <2>1 DEF Holds
    <2>3. AgentOK'
      BY <1>2, <1>6, <2>1, <2>2 DEF AgentOK, Holds
    <2>4. IngressTypes' /\ HistoryOK'
      BY <1>1, <1>4, <2>1 DEF IngressInv, IngressTypes, HistoryOK
    <2>5. RetirementOK
      BY <1>1 DEF IngressInv, OpOK
    <2>6. OpOK'
      <3>1. RetirementOK'
        BY <1>1, <1>2, <2>1, <2>5 DEF RetirementOK
      <3> QED BY <2>1, <3>1 DEF OpOK, Uncommitted
    <2>7. ASSUME NEW x \in Routes PROVE RouteOK(x)'
      <3>1. host.op.kind # "none" /\ host'.committed = Desired.routes /\ Desired' = Desired /\ route'[x] = route[x]
        BY <1>1, <1>2, <2>1
      <3> QED BY <1>1, <2>1, <3>1, CommittedRoute
    <2>8. ASSUME NEW n \in SlotDeployments PROVE DepOK(n)' /\ ~Owns(n)'
      <3>1. ~Owns(n) /\ ~Owns(n)'
        BY <1>1, <2>1 DEF Owns, Of
      <3> QED BY <1>1, <3>1, OtherDepStep
    <2>9. ASSUME NEW x \in DOMAIN host'.committed PROVE Backed(x)'
      <3>1. x \in DOMAIN host.committed /\ host'.committed[x] = host.committed[x]
        BY <1>2, <2>1, <2>5, <2>9 DEF RetirementOK
      <3>2. Backed(x)
        BY <3>1 DEF IngressInv, BackendsOK
      <3>3. PICK m \in SlotDeployments : m = host'.committed[x].deployment /\ m = host.committed[x].deployment
        BY <3>1, <3>2 DEF Backed
      <3> QED BY <1>1, <2>8, <3>2, <3>3 DEF Backed, Kept, Owns, Of
    <2>10. BackendsOK'
      BY <2>1, <2>9 DEF BackendsOK
    <2> QED BY <1>4, <1>5, <2>3, <2>4, <2>6, <2>7, <2>8, <2>10 DEF IngressInv
  <1> QED BY <1>4, <1>7, <1>8

-----------------------------------------------------------------------------
(* The invariant, the watermarks and what is served.                       *)

LEMMA IngressBegins == IngressInit => IngressInv
  <1> SUFFICES ASSUME IngressInit PROVE IngressInv
    OBVIOUS
  <1>1. /\ \A r \in Routes : /\ route[r] = NoRoute /\ route[r].status = "none" /\ route[r].revision = 0
                             /\ route[r].observed.revision = 0
        /\ host = [revision |-> 0, committed |-> <<>>, op |-> NoOp]
        /\ agent.committed = NoConfig /\ agent.pending = NoConfig
        /\ caddy = <<>> /\ containers = {} /\ resolved = NoReading
        /\ \A d \in SlotDeployments : dep[d].pc = "none" /\ dep[d].reached = "no"
    BY DEF IngressInit, NoRoute
  <1>2. host.revision = 0 /\ host.committed = <<>> /\ host.op = NoOp /\ Free /\ Desired = NoConfig
        /\ host.op.kind = "none" /\ host.op.state = "none"
    BY <1>1, NoOpIs DEF Free, Desired
  <1>3. IngressTypes
    <2>1. route \in [Routes -> RouteStates]
      BY DEF IngressInit, NoRoute, RouteStates, Backends
    <2>2. host \in HostStates
      BY <1>1, NoOpIs, EmptyMap DEF HostStates
    <2>3. agent \in AgentStates
      <3>1. [r \in Routes |-> NoWatermark] \in [Routes -> Entries]
        BY DEF NoWatermark, Entries
      <3> QED BY <3>1, NoConfigIs DEF IngressInit, AgentStates
    <2>4. dep \in [SlotDeployments -> DepStates]
      BY DEF IngressInit, DepStates, DepSteps
    <2> QED BY <1>1, <2>1, <2>2, <2>3, <2>4 DEF IngressTypes
  <1>4. HistoryOK
    BY <1>1 DEF HistoryOK
  <1>5. AgentOK /\ PendingIsAbove
    BY <1>1, <1>2, NoConfigIs DEF AgentOK, PendingIsAbove
  <1>6. OpOK
    BY <1>2 DEF OpOK, Uncommitted
  <1>7. \A r \in Routes : RouteOK(r)
    BY <1>1, <1>2, NoConfigIs, EmptyMap DEF RouteOK
  <1>8. \A d \in SlotDeployments : DepOK(d)
    BY <1>1, <1>2 DEF DepOK, PcOK, ManagedPhase, Committing, KeptSteps, Owns, Of
  <1>9. ResolvedOK
    BY <1>1 DEF ResolvedOK, NoReading
  <1>10. BackendsOK
    BY <1>2, EmptyMap DEF BackendsOK
  <1> QED BY <1>3, <1>4, <1>5, <1>6, <1>7, <1>8, <1>9, <1>10 DEF IngressInv

\* No change keeps the invariant.
LEMMA IngressRests == ASSUME IngressInv, UNCHANGED ingressVars PROVE IngressInv'
  <1>1. UNCHANGED <<route, host, agent, caddy, dep, containers, resolved>>
    BY DEF ingressVars
  <1>2. ResolvedOK'
    BY <1>1, ResolvedStays
  <1> QED BY <1>1, <1>2, ReadingStep

\* A call that does not commit leaves the watermarks alone.
LEMMA EntriesStay ==
    ASSUME IngressTypes, agent'.entries = agent.entries PROVE WatermarksDoNotFall
  <1>1. \A r \in Routes : agent.entries[r].revision \in Nat /\ agent.entries[r].deployment \in Nat
    BY DEF IngressTypes, AgentStates, Entries
  <1> QED BY <1>1 DEF WatermarksDoNotFall

LEMMA CallsKeepEntries ==
    ASSUME IngressTypes, NEW c, NEW result, Prepare(c, result) \/ Abort(c, result)
    PROVE  WatermarksDoNotFall
  <1>1. agent.entries = [agent EXCEPT !.pending = NoConfig].entries
    BY DEF IngressTypes, AgentStates
  <1>2. agent.entries = Pending(c).entries
    BY DEF IngressTypes, AgentStates, Pending
  <1>3. agent' = agent \/ agent' = [agent EXCEPT !.pending = NoConfig] \/ agent' = Pending(c)
    BY DEF Prepare, Abort
  <1> QED BY <1>1, <1>2, <1>3, EntriesStay

LEMMA RouteSteps1 ==
    ASSUME IngressInv, NEW r \in Routes, CreateRoute(r) \/ UpdateRoute(r) \/ BeginRetirement(r) \/ RetireRoute(r)
    PROVE  IngressInv' /\ WatermarksDoNotFall
  <1>1. IngressTypes
    BY DEF IngressInv
  <1>2. CASE CreateRoute(r) \/ UpdateRoute(r) \/ BeginRetirement(r)
    <2>1. UNCHANGED agent
      BY <1>2 DEF CreateRoute, UpdateRoute, BeginRetirement
    <2> QED BY <1>1, <1>2, <2>1, EntriesStay, CreateRouteStep, UpdateRouteStep, BeginRetirementStep
  <1>3. CASE BeginRouteRetirement(r) \/ FinishRetirement(r)
    <2>1. UNCHANGED agent
      BY <1>3 DEF BeginRouteRetirement, FinishRetirement
    <2> QED BY <1>1, <1>3, <2>1, EntriesStay, BeginRouteRetirementStep, FinishRetirementStep
  <1>4. CASE PrepareRetirement(r)
    <2>1. WatermarksDoNotFall
      BY <1>1, <1>4, CallsKeepEntries DEF PrepareRetirement
    <2> QED BY <1>4, <2>1, PrepareRetirementStep
  <1>5. CASE CommitRetirement(r)
    BY <1>5, CommitRetirementStep
  <1> QED BY <1>2, <1>3, <1>4, <1>5 DEF RetireRoute

LEMMA DeploymentSteps ==
    ASSUME IngressInv, NEW d \in SlotDeployments,
           CreateDeployment(d) \/ CancelDeployment(d) \/ Takeover(d) \/ Work(d)
    PROVE  IngressInv' /\ WatermarksDoNotFall
  <1>1. IngressTypes
    BY DEF IngressInv
  <1>2. CASE CreateDeployment(d) \/ CancelDeployment(d) \/ Takeover(d) \/ CancelExecution(d) \/ Required(d)
             \/ DeployOrdinary(d) \/ BeginCutover(d) \/ Stage(d) \/ Activate(d)
    <2>1. UNCHANGED agent
      BY <1>2 DEF CreateDeployment, CancelDeployment, Takeover, CancelExecution, Required,
                  DeployOrdinary, BeginCutover, Stage, Activate
    <2>2. WatermarksDoNotFall
      BY <1>1, <2>1, EntriesStay
    <2> QED BY <1>2, <2>2, CreateDeploymentStep, CancelDeploymentStep, TakeoverStep, CancelExecutionStep,
               RequiredStep, DeployOrdinaryStep, BeginCutoverStep, StageStep, ActivateStep
  <1>3. CASE CommitControlPlane(d) \/ RetirePrevious(d) \/ FinishCutover(d) \/ CancelPrepared(d) \/ FinalizeAbort(d)
    <2>1. UNCHANGED agent
      BY <1>3 DEF CommitControlPlane, RetirePrevious, FinishCutover, CancelPrepared, FinalizeAbort
    <2>2. WatermarksDoNotFall
      BY <1>1, <2>1, EntriesStay
    <2> QED BY <1>3, <2>2, CommitControlPlaneStep, RetirePreviousStep, FinishCutoverStep, CancelPreparedStep,
               FinalizeAbortStep
  <1>4. CASE PrepareCutover(d) \/ AbortPrepare(d) \/ Restore(d)
    <2>1. WatermarksDoNotFall
      BY <1>1, <1>4, CallsKeepEntries DEF PrepareCutover, AbortPrepare, Restore
    <2> QED BY <1>4, <2>1, PrepareCutoverStep, AbortPrepareStep, RestoreStep
  <1>5. CASE CommitCutover(d)
    BY <1>5, CommitCutoverStep
  <1> QED BY <1>2, <1>3, <1>4, <1>5 DEF Work

LEMMA ReconcilerSteps == ASSUME IngressInv, Reconcile PROVE IngressInv' /\ WatermarksDoNotFall
  <1>1. IngressTypes
    BY DEF IngressInv
  <1>2. ASSUME NEW r \in Routes, ResolveBackend(r) PROVE IngressInv' /\ WatermarksDoNotFall
    <2>1. UNCHANGED agent
      BY <1>2 DEF ResolveBackend
    <2> QED BY <1>1, <1>2, <2>1, EntriesStay, ResolveBackendStep
  <1>3. CASE BeginReconciliation \/ CompleteReconciliation
    <2>1. UNCHANGED agent
      BY <1>3 DEF BeginReconciliation, CompleteReconciliation
    <2> QED BY <1>1, <1>3, <2>1, EntriesStay, BeginReconciliationStep, CompleteReconciliationStep
  <1>4. CASE PrepareReconciliation \/ AbortReconciliation
    <2>1. WatermarksDoNotFall
      BY <1>1, <1>4, CallsKeepEntries DEF PrepareReconciliation, AbortReconciliation
    <2> QED BY <1>4, <2>1, PrepareReconciliationStep, AbortReconciliationStep
  <1>5. CASE CommitReconciliation
    BY <1>5, CommitReconciliationStep
  <1> QED BY <1>2, <1>3, <1>4, <1>5 DEF Reconcile

LEMMA IngressSteps == ASSUME IngressInv, IngressNext PROVE IngressInv' /\ WatermarksDoNotFall
  BY RouteSteps1, DeploymentSteps, ReconcilerSteps DEF IngressNext

\* The gateway serves what is committed or what the operation asks for.
LEMMA CaddyIs ==
    ASSUME IngressInv
    PROVE  /\ caddy = host.committed \/ (~Free /\ caddy = Desired.routes)
           /\ agent.committed.routes = host.committed \/ (~Free /\ agent.committed.routes = Desired.routes)
           /\ host.op.state = "control_plane_committed" => ~Free /\ caddy = Desired.routes
           /\ (host.op.state \in Uncommitted /\ host.op.kind = "cutover") \/ host.op.state = "allocated" =>
                 caddy = host.committed \/ agent.pending = Desired
  <1>1. AgentOK /\ host.op.state \in OpStates /\ host.op.kind \in OpKinds
    BY HostIs DEF IngressInv
  <1>2. CASE Free
    BY <1>1, <1>2, FreeIs DEF AgentOK, Uncommitted
  <1>3. CASE ~Free
    <2>1. Desired.revision \in Nat /\ host.op.state # "none" /\ host.op.kind # "none"
      BY <1>1, <1>3, UnderWay DEF AgentOK
    <2>2. agent.committed.routes = host.committed \/ agent.committed.routes = Desired.routes
      BY <1>1 DEF AgentOK, Holds
    <2>3. CASE Tries(Desired)
      <3>1. /\ agent.committed.routes = host.committed
            /\ agent.pending = NoConfig => caddy = host.committed
        BY <2>1, <2>3, AbortedIs
      <3>2. (agent.pending = Desired /\ caddy \in {host.committed, Desired.routes}) \/ agent.pending = NoConfig
        BY <2>3, <3>1 DEF Tries, Tried
      <3>3. host.op.state = "control_plane_committed" => caddy = Desired.routes
        BY <1>1 DEF AgentOK, Ready, Holds
      <3> QED BY <1>3, <2>2, <3>1, <3>2, <3>3
    <2>4. CASE ~Tries(Desired)
      <3>1. Ready(Desired) \/ Holds(Desired)
        BY <1>1, <2>1, <2>4 DEF AgentOK, OpStates, Uncommitted
      <3>2. caddy = Desired.routes
        BY <3>1 DEF Ready, Holds
      <3>3. ~((host.op.state \in Uncommitted /\ host.op.kind = "cutover") \/ host.op.state = "allocated")
        BY <1>1, <2>4 DEF AgentOK, Uncommitted
      <3> QED BY <1>3, <2>2, <3>2, <3>3
    <2> QED BY <2>3, <2>4
  <1> QED BY <1>2, <1>3

\* The invariant implies that the documents and files of the ingress have their
\* shapes.
LEMMA IngressTypesShow == IngressInv => IngressTypeOK
  <1> SUFFICES ASSUME IngressInv PROVE IngressTypeOK
    OBVIOUS
  <1>1. IngressTypes /\ AgentOK /\ ResolvedOK /\ host \in HostStates /\ agent \in AgentStates
    BY DEF IngressInv, IngressTypes
  <1>2. host.revision \in Nat /\ host.op.state \in OpStates
    BY <1>1 DEF HostStates, Ops
  <1>3. agent.pending = NoConfig \/ (agent.pending = Desired /\ Desired.revision = host.revision)
    <2>1. CASE Free
      BY <1>1, <2>1 DEF AgentOK
    <2>2. CASE ~Free
      <3>1. Desired.revision = host.revision /\ host.op.state # "none"
        BY <1>1, <2>2 DEF AgentOK
      <3>2. Tries(Desired) \/ Ready(Desired) \/ Holds(Desired)
        BY <1>1, <1>2, <3>1 DEF AgentOK, OpStates, Uncommitted
      <3> QED BY <3>1, <3>2 DEF Tries, Tried, Ready, Holds
    <2> QED BY <2>1, <2>2
  <1>4. agent.pending.revision <= host.revision
    BY <1>2, <1>3, NoConfigIs
  <1>5. DOMAIN caddy \subseteq Routes
    <2>1. caddy \in {host.committed, Desired.routes, agent.committed.routes}
      BY CaddyIs
    <2>2. host.committed \in RouteMaps /\ Desired.routes \in RouteMaps /\ agent.committed.routes \in RouteMaps
      BY <1>1 DEF HostStates, Ops, Configs, AgentStates, Desired
    <2> QED BY <2>1, <2>2, RouteMapIs
  <1>6. \A r \in Routes : route[r].status \in {"none", "pending", "provisioning", "ready",
                                              "degraded", "retiring", "retired"}
    BY <1>1 DEF IngressTypes, RouteStates, Opened
  <1>7. host.op.kind \in {"none", "cutover", "reconciliation", "retirement"}
    BY <1>1 DEF HostStates, Ops, OpKinds
  <1>8. agent.committed.revision <= host.revision
    BY <1>1 DEF AgentOK
  <1>9. containers \subseteq SlotDeployments /\ resolved.pc \in {"idle", "read", "begun", "failed", "committed"}
    BY <1>1 DEF IngressTypes, ResolvedOK
  <1> QED BY <1>4, <1>5, <1>6, <1>7, <1>8, <1>9 DEF IngressTypeOK

\* A route that is ready is served at the backend that was observed.
LEMMA ReadyShows == IngressInv => ReadyIsServed /\ RetiredIsGone
  <1> SUFFICES ASSUME IngressInv PROVE ReadyIsServed /\ RetiredIsGone
    OBVIOUS
  <1>1. ASSUME NEW r \in Routes, route[r].status = "ready"
        PROVE  r \in DOMAIN caddy /\ caddy[r] = route[r].observed /\ caddy[r].revision = route[r].revision
    <2>1. /\ route[r].observed.revision = route[r].revision
          /\ ~Free => r \in DOMAIN Desired.routes /\ Desired.routes[r] = route[r].observed
          /\ host.op.state # "control_plane_committed" => CommittedAs(r)
      BY <1>1, RouteIs DEF RouteOK
    <2>2. CASE host.op.state = "control_plane_committed"
      BY <2>1, <2>2, CaddyIs
    <2>3. CASE host.op.state # "control_plane_committed"
      BY <2>1, <2>3, CaddyIs DEF CommittedAs
    <2> QED BY <2>2, <2>3
  <1>2. ASSUME NEW r \in Routes, route[r].status = "retired"
        PROVE  r \notin DOMAIN caddy /\ r \notin DOMAIN agent.committed.routes
    <2>1. r \notin DOMAIN host.committed /\ r \notin DOMAIN Desired.routes
      BY <1>2, RouteIs DEF RouteOK
    <2> QED BY <2>1, CaddyIs
  <1> QED BY <1>1, <1>2 DEF ReadyIsServed, RetiredIsGone

LEMMA BackendShows == IngressInv => ServedBackendExists
  <1> SUFFICES ASSUME IngressInv PROVE ServedBackendExists
    OBVIOUS
  <1> SUFFICES ASSUME NEW r \in DOMAIN caddy
               PROVE  LET d == caddy[r].deployment IN
                      \/ d \in containers
                      \/ \E n \in SlotDeployments : n > d /\ dep[n].reached = "ordinary"
                      \/ Superseded(d) /\ Of("cutover", d)
                      \/ host.op.state = "allocated" /\ r \in agent.pending.probe
                      \/ route[r].status = "retiring"
    BY DEF ServedBackendExists
  <1>1. ASSUME r \in DOMAIN host.committed
        PROVE  Kept(host.committed[r].deployment) \/ route[r].status = "retiring"
    BY <1>1 DEF IngressInv, BackendsOK, Backed
  <1>2. CASE caddy = host.committed
    BY <1>1, <1>2 DEF Kept
  <1>3. CASE caddy # host.committed
    <2>1. ~Free /\ caddy = Desired.routes /\ host.op.kind # "none"
      BY <1>3, CaddyIs DEF IngressInv, AgentOK
    <2>2. host.op.kind \in {"cutover", "reconciliation", "retirement"} /\ host.op.state \in OpStates \ {"none"}
      BY <2>1, UnderWay
    <2>3. CASE host.op.kind = "cutover"
      <3>1. CutoverOK
        BY <2>3 DEF IngressInv, OpOK
      <3>2. CASE r \notin Desired.probe
        BY <2>1, <3>1, <3>2 DEF CutoverOK
      <3>3. CASE r \in Desired.probe
        <4>1. PICK d \in SlotDeployments : d = host.op.by /\ caddy[r].deployment = d
          BY <2>1, <3>1, <3>3 DEF CutoverOK
        <4>2. Owns(d) /\ Of("cutover", d)
          BY <2>3, <4>1 DEF Owns, Of
        <4>3. Kept(d) \/ Superseded(d)
          <5>1. CASE host.op.state \in Uncommitted
            <6>1. agent.pending = Desired
              BY <1>3, <2>3, <5>1, CaddyIs
            <6> QED BY <2>3, <4>1, <5>1, <6>1 DEF IngressInv, BackendsOK, CutoverBacked
          <5>2. CASE host.op.state \notin Uncommitted
            <6>1. dep[d].pc \in Committing
              BY <4>2, <5>2, DepIs DEF PcOK
            <6> QED BY <6>1, CommittingIs
          <5> QED BY <5>1, <5>2
        <4> QED BY <4>1, <4>2, <4>3 DEF Kept
      <3> QED BY <3>2, <3>3
    <2>4. CASE host.op.kind = "reconciliation"
      <3>1. ReconciliationOK /\ ReconciliationBacked
        BY <2>4 DEF IngressInv, OpOK, BackendsOK
      <3>2. CASE r # host.op.by
        BY <1>1, <2>1, <3>1, <3>2 DEF ReconciliationOK, Kept
      <3>3. CASE r = host.op.by
        <4>1. CASE host.op.state = "allocated"
          BY <1>3, <3>1, <3>3, <4>1, CaddyIs DEF ReconciliationOK
        <4>2. CASE host.op.state = "prepared"
          BY <2>1, <3>1, <3>3, <4>2 DEF ReconciliationBacked, Kept
        <4> QED BY <3>1, <4>1, <4>2 DEF ReconciliationOK, Uncommitted
      <3> QED BY <3>2, <3>3
    <2>5. CASE host.op.kind = "retirement"
      <3>1. RetirementOK
        BY <2>5 DEF IngressInv, OpOK
      <3> QED BY <1>1, <2>1, <3>1 DEF RetirementOK, Kept
    <2> QED BY <2>2, <2>3, <2>4, <2>5
  <1> QED BY <1>2, <1>3

\* One step of the run, of whatever part.
LEMMA AgentHostSteps ==
    ASSUME part = "routes" => IngressInv, [AgentHostNext]_agentHostVars
    PROVE  /\ (part = "routes" => IngressInv)'
           /\ part = "routes" => WatermarksDoNotFall
  <1>1. part' = part
    BY DEF AgentHostNext, Rest, StoreSteps, ShellSteps, RouteSteps, InventorySteps, HostSteps, agentHostVars
  <1> SUFFICES ASSUME part = "routes" PROVE IngressInv' /\ WatermarksDoNotFall
    BY <1>1
  <1>2. IngressInv
    OBVIOUS
  <1>3. CASE IngressNext
    BY <1>2, <1>3, IngressSteps
  <1>4. CASE ~IngressNext
    <2>1. UNCHANGED ingressVars
      BY <1>1, <1>4
      DEF AgentHostNext, Rest, StoreSteps, ShellSteps, RouteSteps, InventorySteps, HostSteps, agentHostVars
    <2>2. UNCHANGED agent /\ IngressTypes
      BY <1>2, <2>1 DEF ingressVars, IngressInv
    <2> QED BY <1>2, <2>1, <2>2, IngressRests, EntriesStay
  <1> QED BY <1>3, <1>4

LEMMA IngressInvariance == AgentHostSpec => [](part = "routes" => IngressInv)
  <1>1. AgentHostInit => (part = "routes" => IngressInv)
    BY IngressBegins DEF AgentHostInit
  <1>2. (part = "routes" => IngressInv) /\ [AgentHostNext]_agentHostVars => (part = "routes" => IngressInv)'
    BY AgentHostSteps
  <1> QED BY <1>1, <1>2, PTL DEF AgentHostSpec

\* A route that is ready is served at the backend and the revision that it
\* observed, a backend that is served has its container, and a retired route is
\* gone from the host, whatever Deployments, reconciler and retirements do and
\* whatever answers are lost.
THEOREM RoutesAreServedHolds == AgentHostSpec => []RoutesAreServed
  <1>1. (part = "routes" => IngressInv) => RoutesAreServed
    BY ReadyShows, BackendShows DEF RoutesAreServed
  <1> QED BY <1>1, IngressInvariance, PTL

\* What the Agent accepted of a route is never taken back by a later commit.
THEOREM WatermarksGrowHolds == AgentHostSpec => WatermarksGrow
  <1>1. (part = "routes" => IngressInv) /\ [AgentHostNext]_agentHostVars
            => [part = "routes" => WatermarksDoNotFall]_agentHostVars
    BY AgentHostSteps
  <1> QED BY <1>1, IngressInvariance, PTL DEF AgentHostSpec, WatermarksGrow

-----------------------------------------------------------------------------
(* The store, and the parts whose way is chosen: how an inventory is       *)
(* collected, and how a host is managed.  The choice stays.                *)

PlaceInv ==
    /\ part \in {"store", "shells", "routes", "inventory", "agent"}
    /\ \A one, other \in place : one = other
    /\ part = "store" => IInv
    /\ part = "inventory" => \A chosen \in place : InventoryInv(chosen)
    /\ part = "agent" => \A chosen \in place : HostInv(chosen)

\* Every part begins.
LEMMA PlaceBegins == AgentHostInit => PlaceInv
  <1> SUFFICES ASSUME AgentHostInit PROVE PlaceInv
    OBVIOUS
  <1>1. IInv
    BY InitIInv DEF AgentHostInit
  <1>2. part \in {"store", "shells", "routes", "inventory", "agent"} /\ \A one, other \in place : one = other
    BY DEF AgentHostInit
  <1>3. ASSUME part = "inventory" PROVE \A chosen \in place : InventoryInv(chosen)
    <2>1. PICK chosen \in Targets : place = {chosen} /\ Collected(chosen)!InventoryInit
      BY <1>3 DEF AgentHostInit
    <2> QED BY <2>1, InventoryBegins
  <1>4. ASSUME part = "agent" PROVE \A chosen \in place : HostInv(chosen)
    <2>1. PICK chosen \in Agents : place = {chosen} /\ Managed(chosen)!HostsInit
      BY <1>4 DEF AgentHostInit
    <2> QED BY <2>1, HostBegins
  <1> QED BY <1>1, <1>2, <1>3, <1>4 DEF PlaceInv

\* One step of the run, for the store and the parts that are chosen.
LEMMA PlaceSteps == PlaceInv /\ [AgentHostNext]_agentHostVars => PlaceInv'
  <1> SUFFICES ASSUME PlaceInv, [AgentHostNext]_agentHostVars PROVE PlaceInv'
    OBVIOUS
  <1>1. UNCHANGED <<part, place>>
    BY DEF AgentHostNext, Rest, StoreSteps, ShellSteps, RouteSteps, InventorySteps, HostSteps, agentHostVars
  <1>2. ASSUME part = "store" PROVE IInv'
    <2>1. IInv
      BY <1>2 DEF PlaceInv
    <2>2. Next \/ UNCHANGED vars
      BY <1>2
      DEF AgentHostNext, Rest, StoreSteps, ShellSteps, RouteSteps, InventorySteps, HostSteps, agentHostVars,
          storeVars
    <2> QED BY <2>1, <2>2, NextIInv
  <1>3. ASSUME part = "inventory", NEW chosen \in place PROVE InventoryInv(chosen)'
    <2>1. InventoryInv(chosen) /\ \A other \in place : other = chosen
      BY <1>3 DEF PlaceInv
    <2>2. UNCHANGED inventoryVars \/ \E other \in place : Collected(other)!InventoryNext
      BY <1>3
      DEF AgentHostNext, Rest, StoreSteps, ShellSteps, RouteSteps, InventorySteps, HostSteps, agentHostVars
    <2>3. Collected(chosen)!InventoryNext \/ UNCHANGED inventoryVars
      BY <2>1, <2>2
    <2> QED BY <2>1, <2>3, InventoryStep
  <1>4. ASSUME part = "agent", NEW chosen \in place PROVE HostInv(chosen)'
    <2>1. HostInv(chosen) /\ \A other \in place : other = chosen
      BY <1>4 DEF PlaceInv
    <2>2. UNCHANGED hostVars \/ \E other \in place : Managed(other)!HostsNext
      BY <1>4
      DEF AgentHostNext, Rest, StoreSteps, ShellSteps, RouteSteps, InventorySteps, HostSteps, agentHostVars
    <2>3. Managed(chosen)!HostsNext \/ UNCHANGED hostVars
      BY <2>1, <2>2
    <2> QED BY <2>1, <2>3, HostStep
  <1> QED BY <1>1, <1>2, <1>3, <1>4 DEF PlaceInv

LEMMA PlaceInvariance == AgentHostSpec => []PlaceInv
  BY PlaceBegins, PlaceSteps, PTL DEF AgentHostSpec

\* However many workers and pollers collect, and wherever they are when a lease
\* runs out, the Server restarts, a snapshot is lost or the target retires: what
\* is shown is the newest observation in whole and nothing of a retired target;
\* no change that an event told of is left to the interval by the collection
\* that began before it, and the cursor of the events passes none that was not
\* recorded.
THEOREM InventoryFollowsTheHostHolds == AgentHostSpec => []InventoryFollowsTheHost
  <1>1. PlaceInv => InventoryFollowsTheHost
    BY InventoryShows DEF PlaceInv, InventoryFollowsTheHost
  <1> QED BY <1>1, PlaceInvariance, PTL

\* However many enrollments compete, requests are lost or repeated, and wherever
\* the Agent or its installer crashes between two files: a host has one identity,
\* the Server accepts the certificate on the Agent's disk or lets the key on the
\* disk fetch its successor, and an enrollment whose answer was lost is answered
\* again.
THEOREM AgentKeepsItsIdentityHolds == AgentHostSpec => []AgentKeepsItsIdentity
  <1>1. PlaceInv => AgentKeepsItsIdentity
    BY HostShows DEF PlaceInv, AgentKeepsItsIdentity
  <1> QED BY <1>1, PlaceInvariance, PTL

\* Documents, files and processes of every part have their shapes, if the Engine
\* has started no shell whose attach failed.
THEOREM AgentHostTypeOKHolds ==
    ASSUME ~LostAttach
    PROVE  AgentHostSpec => []AgentHostTypeOK
  <1> DEFINE Inv == PlaceInv /\ (part = "shells" => ShellInv) /\ (part = "routes" => IngressInv)
  <1>1. Inv => AgentHostTypeOK
    <2> SUFFICES ASSUME Inv PROVE AgentHostTypeOK
      OBVIOUS
    <2>1. CASE part = "store"
      BY <2>1 DEF PlaceInv, IInv, AgentHostTypeOK
    <2>2. CASE part = "shells"
      BY <2>2, ShellInvShows DEF AgentHostTypeOK
    <2>3. CASE part = "routes"
      BY <2>3, IngressTypesShow DEF AgentHostTypeOK
    <2>4. CASE part = "inventory"
      BY <2>4, InventoryShows DEF PlaceInv, AgentHostTypeOK
    <2>5. CASE part = "agent"
      BY <2>5, HostShows DEF PlaceInv, AgentHostTypeOK
    <2> QED BY <2>1, <2>2, <2>3, <2>4, <2>5 DEF PlaceInv
  <1> QED BY <1>1, PlaceInvariance, ShellInvariance, IngressInvariance, PTL
=============================================================================
