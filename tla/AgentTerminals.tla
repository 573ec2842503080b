---------------------------- MODULE AgentTerminals ----------------------------
(***************************************************************************)
(* Terminal sessions multiplexed over one control connection: the Server's *)
(* half in managedhost/data/connection_registry.go, the Agent's half in    *)
(* agent/control/client.go.                                                *)
(*                                                                         *)
(* "down" is the registry's terminalFrames channel with the stream behind  *)
(* it, "up" the Agent's outbound queue with the stream behind it.  Each    *)
(* terminal numbers its frames in both directions from 1.  A stdin or      *)
(* stdout frame stands for its payload: payloads are told apart by their   *)
(* numbers.  Resize frames travel like stdin.                              *)
(***************************************************************************)
EXTENDS Naturals, Sequences, FiniteSets

CONSTANTS
    Terminals,    \* terminal session ids
    None,
    DownBuffer,   \* outbound_buffer of the registry
    UpBuffer,     \* room in the Agent's outbound queue
    InboundSize,  \* inbound frames queued per terminal of the Agent
    OutputSize,   \* output chunks queued per terminal of the Server
    MaxOpen,      \* maximumConcurrentTerminals
    MaxWrites,    \* bound on the stdin frames of a terminal
    MaxOutputs(_) \* bound on the stdout frames of a terminal

ASSUME TerminalAssumption ==
    /\ None \notin Terminals
    /\ DownBuffer \in Nat \ {0} /\ UpBuffer \in Nat \ {0}
    /\ InboundSize \in Nat \ {0} /\ OutputSize \in Nat \ {0}
    /\ MaxOpen \in Nat \ {0} /\ MaxWrites \in Nat
    /\ \A t \in Terminals : MaxOutputs(t) \in Nat

VARIABLES
    link,    \* the connection: "up", or what ended it
    lock,    \* the terminal whose write holds the registry's lock, or None
    state,   \* the Server's side of a terminal
    server,  \* its frame numbers: the last sent and the last received
    output,  \* its output channel
    read,    \* the output that the user has read
    shell,   \* the Agent's side of a terminal
    canceled,\* the terminals whose context the Agent has canceled
    client,  \* its frame numbers
    inbound, \* its inbound channel
    typed,   \* the input that the shell has received
    down, up

user == <<output, read>>
agent == <<shell, canceled, client, inbound, typed>>
vars == <<link, lock, state, server, user, agent, down, up>>

Frame(t, type, n) == [terminal |-> t, type |-> type, number |-> n]

Init ==
    /\ link = "up"
    /\ lock = None
    /\ state = [t \in Terminals |-> "new"]
    /\ server = [t \in Terminals |-> [sent |-> 0, received |-> 0]]
    /\ output = [t \in Terminals |-> <<>>]
    /\ read = [t \in Terminals |-> <<>>]
    /\ shell = [t \in Terminals |-> "none"]
    /\ canceled = {}
    /\ client = [t \in Terminals |-> [sent |-> 0, received |-> 0]]
    /\ inbound = [t \in Terminals |-> <<>>]
    /\ typed = [t \in Terminals |-> <<>>]
    /\ down = <<>> /\ up = <<>>

-----------------------------------------------------------------------------
(* The Server.  All of it runs under the registry's lock; only the stream  *)
(* empties the channel without it.                                         *)

Active(t) == state[t] \in {"opening", "ready"}

Unlocked == link = "up" /\ lock = None

HasRoom == Len(down) < DownBuffer

\* Mistake: the Agent is not told.
FinishSilently(t, notify, numbers) ==
    state' = [state EXCEPT ![t] = "done"] /\ server' = numbers /\ UNCHANGED down

\* Mistake: the close frame is written without a look at the buffer.
FinishUnbounded(t, notify, numbers) ==
    /\ state' = [state EXCEPT ![t] = "done"]
    /\ server' = [numbers EXCEPT ![t].sent = @ + 1]
    /\ down' = IF notify THEN Append(down, Frame(t, "close", numbers[t].sent + 1)) ELSE down

\* finishTerminalLocked, with the frame numbers of its caller.  The close
\* frame takes a number, and is dropped if the channel is full.
Finish(t, notify, numbers) ==
    /\ state' = [state EXCEPT ![t] = "done"]
    /\ server' = IF notify THEN [numbers EXCEPT ![t].sent = @ + 1] ELSE numbers
    /\ down' = IF notify /\ HasRoom THEN Append(down, Frame(t, "close", numbers[t].sent + 1))
               ELSE down

\* OpenTerminal up to the wait for the ready frame.
OpenTerminal(t) ==
    /\ Unlocked
    /\ state[t] = "new"
    /\ IF HasRoom
       THEN /\ state' = [state EXCEPT ![t] = "opening"]
            /\ server' = [server EXCEPT ![t].sent = 1]
            /\ down' = Append(down, Frame(t, "open", 1))
       ELSE /\ state' = [state EXCEPT ![t] = "done"]
            /\ UNCHANGED <<server, down>>
    /\ UNCHANGED <<link, lock, user, agent, up>>

\* sendTerminal: the number is taken before the channel is tried.
Write(t) ==
    /\ Unlocked
    /\ state[t] = "ready"
    /\ server[t].sent <= MaxWrites
    /\ server' = [server EXCEPT ![t].sent = @ + 1]
    /\ IF HasRoom
       THEN /\ down' = Append(down, Frame(t, "stdin", server[t].sent + 1))
            /\ UNCHANGED lock
       ELSE lock' = t /\ UNCHANGED down
    /\ UNCHANGED <<link, state, user, agent, up>>

\* The channel was full: the terminal is finished.
WriteFails ==
    /\ lock # None
    /\ Finish(lock, TRUE, server)
    /\ lock' = None
    /\ UNCHANGED <<link, user, agent, up>>

\* The user's side closes the stream, or gives up while it is opening.
CloseTerminal(t) ==
    /\ Unlocked
    /\ Active(t)
    /\ Finish(t, TRUE, server)
    /\ UNCHANGED <<link, lock, user, agent, up>>

\* registryTerminalStream.Read: what is queued is read even after the end.
Read(t) ==
    /\ output[t] # <<>>
    /\ read' = [read EXCEPT ![t] = Append(@, Head(output[t]))]
    /\ output' = [output EXCEPT ![t] = Tail(@)]
    /\ UNCHANGED <<link, lock, state, server, agent, down, up>>

\* Mistake: a chunk for which there is no room is dropped and the session
\* goes on.
OverrunDropped(t, numbers) == server' = numbers /\ UNCHANGED <<state, down>>

\* The user does not read fast enough: the session ends.
Overrun(t, numbers) == Finish(t, TRUE, numbers)

\* The checks of CompleteTerminalFrame that are not about the frame's type.
Acceptable(f) == Active(f.terminal) /\ f.number = server[f.terminal].received + 1

\* CompleteTerminalFrame, called by the stream; an error other than
\* backpressure ends the stream with an error frame.
CompleteTerminalFrame ==
    LET f == Head(up)
        t == f.terminal
        full == Len(output[t]) >= OutputSize
        legal == CASE f.type = "ready" -> state[t] = "opening"
                   [] f.type = "stdout" -> state[t] = "ready"
                   [] OTHER -> TRUE
        counted == [server EXCEPT ![t].received = f.number] IN
    /\ Unlocked /\ up # <<>>
    /\ up' = Tail(up)
    /\ \/ /\ ~(Acceptable(f) /\ legal)
          /\ link' = "refused"
          /\ UNCHANGED <<state, server, output, down>>
       \/ /\ Acceptable(f) /\ legal /\ f.type = "ready"
          /\ state' = [state EXCEPT ![t] = "ready"]
          /\ server' = counted
          /\ UNCHANGED <<link, output, down>>
       \/ /\ Acceptable(f) /\ legal /\ f.type = "stdout" /\ ~full
          /\ output' = [output EXCEPT ![t] = Append(@, f.number)]
          /\ server' = counted
          /\ UNCHANGED <<link, state, down>>
       \/ /\ Acceptable(f) /\ legal /\ f.type = "stdout" /\ full
          /\ Overrun(t, counted)
          /\ UNCHANGED <<link, output>>
       \/ /\ Acceptable(f) /\ f.type \in {"close", "error"}
          /\ Finish(t, FALSE, counted)
          /\ UNCHANGED <<link, output>>
    /\ UNCHANGED <<lock, read, agent>>

-----------------------------------------------------------------------------
(* The Agent.                                                              *)

Open == {t \in Terminals : shell[t] \in {"opening", "running"}}

\* enqueueTerminalFrame; a full queue is an error of the caller.
Enqueue(f) == IF Len(up) < UpBuffer THEN up' = Append(up, f) ELSE UNCHANGED up

\* handleTerminalFrame for the first frame of a terminal.
HandleOpen ==
    LET t == Head(down).terminal IN
    /\ link = "up" /\ down # <<>> /\ Head(down).type = "open"
    /\ down' = Tail(down)
    /\ IF Cardinality(Open) >= MaxOpen
       THEN /\ Enqueue(Frame(t, "error", 1))
            /\ link' = IF Len(up) < UpBuffer THEN link ELSE "lost"
            /\ UNCHANGED <<shell, client>>
       ELSE /\ shell' = [shell EXCEPT ![t] = "opening"]
            /\ client' = [client EXCEPT ![t].received = 1]
            /\ UNCHANGED <<link, up>>
    /\ UNCHANGED <<lock, state, server, user, canceled, inbound, typed>>

\* The frame belongs to a terminal of the Agent and is its next one.
Known(f) == f.terminal \in Open /\ f.number = client[f.terminal].received + 1

\* handleTerminalFrame for the frames after it; an unknown one is a
\* PermanentError, a full inbound channel ends the connection.
HandleFrame ==
    LET f == Head(down)
        t == f.terminal IN
    /\ link = "up" /\ down # <<>> /\ f.type # "open"
    /\ down' = Tail(down)
    /\ \/ /\ ~Known(f)
          /\ link' = "stopped"
          /\ UNCHANGED <<canceled, client, inbound>>
       \/ /\ Known(f) /\ Len(inbound[t]) >= InboundSize
          /\ link' = "lost"
          /\ canceled' = canceled \cup {t}
          /\ UNCHANGED <<client, inbound>>
       \/ /\ Known(f) /\ Len(inbound[t]) < InboundSize
          /\ inbound' = [inbound EXCEPT ![t] = Append(@, f)]
          /\ client' = [client EXCEPT ![t].received = f.number]
          /\ canceled' = IF f.type = "close" THEN canceled \cup {t} ELSE canceled
          /\ UNCHANGED link
    /\ UNCHANGED <<lock, state, server, user, shell, typed, up>>

\* runTerminal: the shell is started and reported, or it fails to.
Start(t) ==
    /\ link = "up" /\ shell[t] = "opening"
    /\ client' = [client EXCEPT ![t].sent = 1]
    /\ \/ /\ Enqueue(Frame(t, "ready", 1))
          /\ shell' = [shell EXCEPT ![t] = IF Len(up) < UpBuffer THEN "running" ELSE "ended"]
       \/ /\ t \notin canceled
          /\ Enqueue(Frame(t, "error", 1))
          /\ shell' = [shell EXCEPT ![t] = "ended"]
    /\ UNCHANGED <<link, lock, state, server, user, canceled, inbound, typed, down>>

\* A frame from the inbound channel.
Input(t) ==
    /\ link = "up" /\ shell[t] = "running" /\ inbound[t] # <<>>
    /\ inbound' = [inbound EXCEPT ![t] = Tail(@)]
    /\ IF Head(inbound[t]).type = "close"
       THEN shell' = [shell EXCEPT ![t] = "ended"] /\ UNCHANGED typed
       ELSE /\ typed' = [typed EXCEPT ![t] = Append(@, Head(inbound[t]).number)]
            /\ UNCHANGED shell
    /\ UNCHANGED <<link, lock, state, server, user, canceled, client, down, up>>

\* The shell prints.
PrintOut(t) ==
    /\ link = "up" /\ shell[t] = "running"
    /\ client[t].sent <= MaxOutputs(t)
    /\ client' = [client EXCEPT ![t].sent = @ + 1]
    /\ Enqueue(Frame(t, "stdout", client[t].sent + 1))
    /\ shell' = [shell EXCEPT ![t] = IF Len(up) < UpBuffer THEN @ ELSE "ended"]
    /\ UNCHANGED <<link, lock, state, server, user, canceled, inbound, typed, down>>

\* The shell ends, or reading from or writing to it fails.
Exit(t) ==
    /\ link = "up" /\ shell[t] = "running"
    /\ client' = [client EXCEPT ![t].sent = @ + 1]
    /\ \E type \in {"close", "error"} : Enqueue(Frame(t, type, client[t].sent + 1))
    /\ shell' = [shell EXCEPT ![t] = "ended"]
    /\ UNCHANGED <<link, lock, state, server, user, canceled, inbound, typed, down>>

\* A canceled terminal may return without a frame at any point.
Canceled(t) ==
    /\ t \in canceled \cap Open
    /\ shell' = [shell EXCEPT ![t] = "ended"]
    /\ UNCHANGED <<link, lock, state, server, user, canceled, client, inbound, typed, down, up>>

-----------------------------------------------------------------------------
(* The end of the connection.                                              *)

Break ==
    /\ link = "up"
    /\ link' = "lost"
    /\ UNCHANGED <<lock, state, server, user, agent, down, up>>

\* terminateLocked, when the stream ends.
TerminateLocked ==
    /\ link # "up" /\ lock = None /\ \E t \in Terminals : Active(t)
    /\ state' = [t \in Terminals |-> IF Active(t) THEN "done" ELSE state[t]]
    /\ UNCHANGED <<link, lock, server, user, agent, down, up>>

\* closeContainerTerminals, when client.Run returns.
CloseContainerTerminals ==
    /\ link # "up" /\ ~(Open \subseteq canceled)
    /\ canceled' = canceled \cup Open
    /\ UNCHANGED <<link, lock, state, server, user, shell, client, inbound, typed, down, up>>

Stream == CompleteTerminalFrame \/ HandleOpen \/ HandleFrame

Next ==
    \/ \E t \in Terminals : \/ OpenTerminal(t) \/ Write(t) \/ CloseTerminal(t) \/ Read(t)
                            \/ Start(t) \/ Input(t) \/ PrintOut(t) \/ Exit(t) \/ Canceled(t)
    \/ WriteFails \/ Stream \/ Break \/ TerminateLocked \/ CloseContainerTerminals

\* Frames are delivered while the connection lasts and goroutines go on; the
\* user and the shell may be silent for ever.
Fairness ==
    /\ WF_vars(CompleteTerminalFrame) /\ WF_vars(HandleOpen) /\ WF_vars(HandleFrame)
    /\ WF_vars(WriteFails) /\ WF_vars(TerminateLocked) /\ WF_vars(CloseContainerTerminals)
    /\ \A t \in Terminals : WF_vars(Start(t)) /\ WF_vars(Canceled(t))

Spec == Init /\ [][Next]_vars

FairSpec == Spec /\ Fairness

-----------------------------------------------------------------------------
(* Properties.                                                             *)

Frames == [terminal : Terminals, number : Nat,
           type : {"open", "ready", "stdin", "stdout", "close", "error"}]
Numbers == [sent : Nat, received : Nat]
States == {"new", "opening", "ready", "done"}
ShellStates == {"none", "opening", "running", "ended"}

TypeOK ==
    /\ link \in {"up", "lost", "refused", "stopped"}
    /\ lock \in Terminals \cup {None}
    /\ state \in [Terminals -> States]
    /\ shell \in [Terminals -> ShellStates]
    /\ canceled \in SUBSET Terminals
    /\ server \in [Terminals -> Numbers] /\ client \in [Terminals -> Numbers]
    /\ output \in [Terminals -> Seq(Nat)] /\ read \in [Terminals -> Seq(Nat)]
    /\ inbound \in [Terminals -> Seq(Frames)] /\ typed \in [Terminals -> Seq(Nat)]
    /\ down \in Seq(Frames) /\ Len(down) <= DownBuffer
    /\ up \in Seq(Frames) /\ Len(up) <= UpBuffer
    /\ \A t \in Terminals : Len(output[t]) <= OutputSize /\ Len(inbound[t]) <= InboundSize

Consecutive(seq) == \A i \in 1 .. Len(seq) : seq[i] = i + 1

\* The shell receives what the user wrote, and the user reads what the shell
\* printed, in order and without a gap, up to where the terminal was cut off.
NothingIsSkipped ==
    \A t \in Terminals : Consecutive(typed[t]) /\ Consecutive(read[t] \o output[t])

\* A shell never outlives the user's session: once the Server has finished a
\* terminal, the Agent's shell ends for good, or is never started, unless the
\* channel to the Agent was full.  (With a full channel the close frame is
\* lost.)
ShellEndsWithSession ==
    []HasRoom => \A t \in Terminals : state[t] = "done" ~> [](t \notin Open)

\* docs/terminal-sessions.md: backpressure, too, ends the whole session.
ShellAlwaysEnds == \A t \in Terminals : state[t] = "done" ~> [](t \notin Open)

\* Ends of a terminal, on either side, leave the connection to the Agent and
\* its other terminals alone.
ConnectionSurvives == link \notin {"refused", "stopped"}
=============================================================================
