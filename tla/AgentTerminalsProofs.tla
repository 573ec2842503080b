------------------------- MODULE AgentTerminalsProofs -------------------------
(***************************************************************************)
(* TypeOK and NothingIsSkipped of AgentTerminals for any number of         *)
(* terminals and any sizes of the buffers.                                 *)
(*                                                                         *)
(* NothingIsSkipped compares what was typed and read with the numbers      *)
(* 2, 3, ...; inductive is that both sides count what they hold: the next  *)
(* number that the Server accepts follows what the user has read and what  *)
(* waits in the output channel (OutputIsCounted), and the frames in the    *)
(* inbound channel of a shell follow what was typed (InputIsCounted).      *)
(* Both start from zero only once, as one open frame is sent for a         *)
(* terminal (OpenedOnce).                                                  *)
(***************************************************************************)
EXTENDS AgentTerminals, SequenceTheorems, TLAPS

OpenedOnce ==
    /\ \A t \in Terminals : state[t] = "new" => shell[t] = "none"
    /\ \A i \in 1 .. Len(down) : down[i].type = "open" =>
          /\ state[down[i].terminal] # "new" /\ shell[down[i].terminal] = "none"
          /\ \A j \in 1 .. Len(down) :
                down[j].type = "open" /\ down[j].terminal = down[i].terminal => i = j

OutputIsCounted ==
    \A t \in Terminals :
        /\ state[t] \in {"new", "opening"} => /\ read[t] = <<>> /\ output[t] = <<>>
                                              /\ server[t].received = 0
        /\ state[t] = "ready" => server[t].received = Len(read[t]) + Len(output[t]) + 1

Counts(t) ==
    /\ client[t].received = Len(typed[t]) + Len(inbound[t]) + 1
    /\ \A i \in 1 .. Len(inbound[t]) : inbound[t][i].number = Len(typed[t]) + i + 1

InputIsCounted ==
    \A t \in Terminals :
        /\ shell[t] = "none" => typed[t] = <<>> /\ inbound[t] = <<>>
        /\ shell[t] \in {"opening", "running"} => Counts(t)

IInv == TypeOK /\ OpenedOnce /\ OutputIsCounted /\ InputIsCounted /\ NothingIsSkipped
-----------------------------------------------------------------------------
(* Sequences                                                               *)

LEMMA Appending ==
    ASSUME NEW S, NEW q \in Seq(S), NEW x \in S
    PROVE  /\ Append(q, x) \in Seq(S) /\ Len(Append(q, x)) = Len(q) + 1
           /\ Append(q, x)[Len(q) + 1] = x /\ \A i \in 1 .. Len(q) : Append(q, x)[i] = q[i]
           /\ Append(q, x) # <<>>
  OBVIOUS

LEMMA TakingFirst ==
    ASSUME NEW S, NEW q \in Seq(S), q # <<>>
    PROVE  /\ Head(q) \in S /\ Head(q) = q[1] /\ Len(q) \in Nat \ {0}
           /\ Tail(q) \in Seq(S) /\ Len(Tail(q)) = Len(q) - 1
           /\ \A i \in 1 .. Len(Tail(q)) : Tail(q)[i] = q[i + 1] /\ i + 1 \in 1 .. Len(q)
  OBVIOUS

LEMMA ConsecutiveGrows ==
    ASSUME NEW q \in Seq(Nat), Consecutive(q)
    PROVE  Consecutive(Append(q, Len(q) + 2))
  BY Appending, Len(q) + 2 \in Nat DEF Consecutive

\* The first of the waiting elements is read.
LEMMA Moving ==
    ASSUME NEW q \in Seq(Nat), NEW r \in Seq(Nat), r # <<>>
    PROVE  Append(q, Head(r)) \o Tail(r) = q \o r
  <1>1. /\ Append(q, Head(r)) \o Tail(r) \in Seq(Nat) /\ q \o r \in Seq(Nat)
        /\ Len(Append(q, Head(r)) \o Tail(r)) = Len(q \o r) /\ Len(q \o r) = Len(q) + Len(r)
    BY TakingFirst, Appending
  <1>2. ASSUME NEW i \in 1 .. Len(q \o r)
        PROVE  (Append(q, Head(r)) \o Tail(r))[i] = (q \o r)[i]
    <2>1. CASE i <= Len(q)
      BY <1>1, <2>1, TakingFirst, Appending
    <2>2. CASE i = Len(q) + 1
      BY <1>1, <2>2, TakingFirst, Appending
    <2>3. CASE i > Len(q) + 1
      BY <1>1, <2>3, TakingFirst, Appending
    <2> QED BY <2>1, <2>2, <2>3, <1>1
  <1> QED BY <1>1, <1>2, SeqEqual

LEMMA AppendingLast ==
    ASSUME NEW q \in Seq(Nat), NEW r \in Seq(Nat), NEW x \in Nat
    PROVE  q \o Append(r, x) = Append(q \o r, x)
  <1>1. /\ q \o r \in Seq(Nat) /\ Append(r, x) \in Seq(Nat)
        /\ Len(q \o r) = Len(q) + Len(r) /\ Len(q) \in Nat /\ Len(r) \in Nat
    BY ConcatProperties, Appending
  <1>2. /\ q \o Append(r, x) \in Seq(Nat) /\ Append(q \o r, x) \in Seq(Nat)
        /\ Len(q \o Append(r, x)) = Len(q) + Len(r) + 1
        /\ Len(Append(q \o r, x)) = Len(q) + Len(r) + 1
    BY <1>1, ConcatProperties, Appending
  <1>3. ASSUME NEW i \in 1 .. Len(q) + Len(r) + 1
        PROVE  (q \o Append(r, x))[i] = Append(q \o r, x)[i]
    <2>1. CASE i <= Len(q)
      BY <1>1, <2>1, ConcatProperties, Appending
    <2>2. CASE i > Len(q) /\ i <= Len(q) + Len(r)
      BY <1>1, <2>2, ConcatProperties, Appending
    <2>3. CASE i = Len(q) + Len(r) + 1
      BY <1>1, <2>3, ConcatProperties, Appending
    <2> QED BY <1>1, <2>1, <2>2, <2>3
  <1> QED BY <1>2, <1>3, SeqEqual

-----------------------------------------------------------------------------
(* Types                                                                   *)

LEMMA NumbersChange ==
    ASSUME NEW x \in Numbers, NEW n \in Nat
    PROVE  /\ [x EXCEPT !.sent = n] \in Numbers /\ [x EXCEPT !.received = n] \in Numbers
           /\ [x EXCEPT !.sent = n].received = x.received
           /\ [x EXCEPT !.sent = n].sent = n /\ [x EXCEPT !.received = n].received = n
           /\ x.sent \in Nat /\ x.received \in Nat
  BY DEF Numbers

\* What the end of a terminal leaves alone.
LEMMA FinishEnds ==
    ASSUME TypeOK, NEW t \in Terminals, NEW notify \in BOOLEAN,
           NEW numbers \in [Terminals -> Numbers], Finish(t, notify, numbers)
    PROVE  /\ state' = [state EXCEPT ![t] = "done"]
           /\ server' \in [Terminals -> Numbers]
           /\ \A u \in Terminals : server'[u].received = numbers[u].received
           /\ \/ down' = down
              \/ \E f \in Frames : f.type # "open" /\ down' = Append(down, f)
           /\ down' \in Seq(Frames) /\ Len(down') <= DownBuffer
  <1>0. down \in Seq(Frames) /\ Len(down) <= DownBuffer /\ DownBuffer \in Nat
    BY TerminalAssumption DEF TypeOK
  <1>1. state' = [state EXCEPT ![t] = "done"]
    BY DEF Finish
  <1>2. \A u \in Terminals : /\ [numbers[u] EXCEPT !.sent = numbers[u].sent + 1] \in Numbers
                             /\ [numbers[u] EXCEPT !.sent = numbers[u].sent + 1].received = numbers[u].received
    BY DEF Numbers
  <1>3. /\ server' \in [Terminals -> Numbers]
        /\ \A u \in Terminals : server'[u].received = numbers[u].received
    <2>1. CASE notify
      <3>1. server' = [numbers EXCEPT ![t].sent = @ + 1]
        BY <2>1 DEF Finish
      <3> QED BY <1>2, <3>1
    <2>2. CASE ~notify
      BY <2>2 DEF Finish
    <2> QED BY <2>1, <2>2
  <1>4. Frame(t, "close", numbers[t].sent + 1) \in Frames
    BY DEF Frame, Frames, Numbers
  <1>5. \/ down' = down
        \/ Len(down) < DownBuffer /\ down' = Append(down, Frame(t, "close", numbers[t].sent + 1))
    BY DEF Finish, HasRoom
  <1>6. Frame(t, "close", numbers[t].sent + 1).type # "open"
    BY DEF Frame
  <1> QED BY <1>0, <1>1, <1>3, <1>4, <1>5, <1>6, Appending

\* What CompleteTerminalFrame does with a frame.
LEMMA FrameCompletes ==
    ASSUME TypeOK, CompleteTerminalFrame
    PROVE  \E f \in Frames : LET t == f.terminal
                                 counted == [server EXCEPT ![t].received = f.number] IN
             \/ UNCHANGED <<state, server, output, down>>
             \/ /\ state[t] = "opening" /\ f.number = server[t].received + 1
                /\ state' = [state EXCEPT ![t] = "ready"] /\ server' = counted
                /\ UNCHANGED <<output, down>>
             \/ /\ state[t] = "ready" /\ f.number = server[t].received + 1
                /\ Len(output[t]) < OutputSize
                /\ output' = [output EXCEPT ![t] = Append(@, f.number)] /\ server' = counted
                /\ UNCHANGED <<state, down>>
             \/ \E notify \in BOOLEAN : Finish(t, notify, counted) /\ UNCHANGED output
  <1> DEFINE f == Head(up)
  <1>1. f \in Frames
    BY TakingFirst DEF CompleteTerminalFrame, TypeOK
  <1>2. Len(output[f.terminal]) \in Nat /\ OutputSize \in Nat
    <2>1. f.terminal \in Terminals
      BY <1>1 DEF Frames
    <2>2. output[f.terminal] \in Seq(Nat)
      BY <2>1 DEF TypeOK
    <2> QED BY <2>2, TerminalAssumption
  <1> DEFINE t == f.terminal
             counted == [server EXCEPT ![t].received = f.number]
             legal == CASE f.type = "ready" -> state[t] = "opening"
                        [] f.type = "stdout" -> state[t] = "ready"
                        [] OTHER -> TRUE
  <1>3. \/ UNCHANGED <<state, server, output, down>>
        \/ /\ Acceptable(f) /\ legal /\ f.type = "ready"
           /\ state' = [state EXCEPT ![t] = "ready"] /\ server' = counted
           /\ UNCHANGED <<output, down>>
        \/ /\ Acceptable(f) /\ legal /\ f.type = "stdout" /\ ~(Len(output[t]) >= OutputSize)
           /\ output' = [output EXCEPT ![t] = Append(@, f.number)] /\ server' = counted
           /\ UNCHANGED <<state, down>>
        \/ Finish(t, TRUE, counted) /\ UNCHANGED output
        \/ Finish(t, FALSE, counted) /\ UNCHANGED output
    BY DEF CompleteTerminalFrame, Overrun
  <1>4. CASE /\ Acceptable(f) /\ legal /\ f.type = "ready"
             /\ state' = [state EXCEPT ![t] = "ready"] /\ server' = counted
             /\ UNCHANGED <<output, down>>
    <2>1. state[t] = "opening" /\ f.number = server[t].received + 1
      BY <1>4 DEF Acceptable
    <2> QED BY <1>1, <1>4, <2>1
  <1>5. CASE /\ Acceptable(f) /\ legal /\ f.type = "stdout" /\ ~(Len(output[t]) >= OutputSize)
             /\ output' = [output EXCEPT ![t] = Append(@, f.number)] /\ server' = counted
             /\ UNCHANGED <<state, down>>
    <2>1. state[t] = "ready" /\ f.number = server[t].received + 1 /\ Len(output[t]) < OutputSize
      BY <1>2, <1>5 DEF Acceptable
    <2> QED BY <1>1, <1>5, <2>1
  <1> QED BY <1>1, <1>3, <1>4, <1>5

LEMMA Enqueued ==
    ASSUME TypeOK, NEW f \in Frames, Enqueue(f)
    PROVE  up' \in Seq(Frames) /\ Len(up') <= UpBuffer
  <1>1. up \in Seq(Frames) /\ Len(up) <= UpBuffer /\ Len(up) \in Nat /\ UpBuffer \in Nat
    BY TerminalAssumption DEF TypeOK
  <1>2. CASE Len(up) < UpBuffer
    BY <1>1, <1>2, Appending DEF Enqueue
  <1>3. CASE ~(Len(up) < UpBuffer)
    BY <1>1, <1>3 DEF Enqueue
  <1> QED BY <1>2, <1>3

\* What HandleFrame does with a frame: all but the third drop it.
LEMMA FrameHandled ==
    ASSUME TypeOK, HandleFrame
    PROVE  \E f \in Frames : LET t == f.terminal IN
             /\ down # <<>> /\ down' = Tail(down)
             /\ \/ UNCHANGED <<client, inbound>>
                \/ /\ t \in Open /\ f.number = client[t].received + 1
                   /\ Len(inbound[t]) < InboundSize
                   /\ inbound' = [inbound EXCEPT ![t] = Append(@, f)]
                   /\ client' = [client EXCEPT ![t].received = f.number]
             /\ canceled' \in SUBSET Terminals /\ link' \in {link, "stopped", "lost"}
             /\ UNCHANGED <<lock, state, server, user, shell, typed, up>>
  <1> DEFINE f == Head(down)
             t == f.terminal
  <1>1. f \in Frames /\ t \in Terminals /\ canceled \in SUBSET Terminals
    <2>1. down \in Seq(Frames) /\ down # <<>> /\ canceled \in SUBSET Terminals
      BY DEF HandleFrame, TypeOK
    <2>2. f \in Frames
      BY <2>1, TakingFirst
    <2> QED BY <2>1, <2>2 DEF Frames
  <1>2. /\ down # <<>> /\ down' = Tail(down)
        /\ UNCHANGED <<lock, state, server, user, shell, typed, up>>
    BY DEF HandleFrame
  <1>3. \/ UNCHANGED <<client, inbound>>
        \/ /\ t \in Open /\ f.number = client[t].received + 1
           /\ Len(inbound[t]) < InboundSize
           /\ inbound' = [inbound EXCEPT ![t] = Append(@, f)]
           /\ client' = [client EXCEPT ![t].received = f.number]
    BY DEF HandleFrame, Known
  <1>4. /\ canceled' = canceled \/ canceled' = canceled \cup {t}
        /\ link' \in {link, "stopped", "lost"}
    BY DEF HandleFrame
  <1> QED BY <1>1, <1>2, <1>3, <1>4

LEMMA NextType ==
    ASSUME TypeOK, [Next]_vars
    PROVE  TypeOK'
  <1>0. /\ state \in [Terminals -> States] /\ shell \in [Terminals -> ShellStates]
        /\ server \in [Terminals -> Numbers] /\ client \in [Terminals -> Numbers]
        /\ output \in [Terminals -> Seq(Nat)] /\ read \in [Terminals -> Seq(Nat)]
        /\ inbound \in [Terminals -> Seq(Frames)] /\ typed \in [Terminals -> Seq(Nat)]
        /\ down \in Seq(Frames) /\ up \in Seq(Frames) /\ Len(down) \in Nat /\ Len(down) <= DownBuffer
        /\ \A t \in Terminals : Len(output[t]) <= OutputSize /\ Len(inbound[t]) <= InboundSize
        /\ canceled \in SUBSET Terminals
    BY DEF TypeOK
  \* The number of a frame that either side sends next.
  <1>s. ASSUME NEW t \in Terminals, NEW type \in {"open", "ready", "stdin", "stdout", "close", "error"}
        PROVE  /\ server[t].sent + 1 \in Nat /\ client[t].sent + 1 \in Nat
               /\ Frame(t, type, 1) \in Frames
               /\ Frame(t, type, server[t].sent + 1) \in Frames
               /\ Frame(t, type, client[t].sent + 1) \in Frames
    BY <1>0 DEF Frame, Frames, Numbers
  <1>t. ASSUME NEW f \in Frames, HasRoom, down' = Append(down, f)
        PROVE  down' \in Seq(Frames) /\ Len(down') <= DownBuffer
    BY <1>0, <1>t, Appending, TerminalAssumption DEF HasRoom
  <1>1. ASSUME NEW t \in Terminals, OpenTerminal(t) PROVE TypeOK'
    <2>1. CASE HasRoom
      <3>1. /\ state' = [state EXCEPT ![t] = "opening"]
            /\ server' = [server EXCEPT ![t].sent = 1] /\ down' = Append(down, Frame(t, "open", 1))
        BY <1>1, <2>1 DEF OpenTerminal
      <3>2. state' \in [Terminals -> States] /\ server' \in [Terminals -> Numbers]
        BY <1>0, <3>1, NumbersChange DEF States
      <3>3. down' \in Seq(Frames) /\ Len(down') <= DownBuffer
        BY <1>s, <1>t, <2>1, <3>1
      <3> QED BY <1>1, <3>2, <3>3 DEF OpenTerminal, TypeOK, user, agent
    <2>2. CASE ~HasRoom
      <3>1. state' = [state EXCEPT ![t] = "done"] /\ UNCHANGED <<server, down>>
        BY <1>1, <2>2 DEF OpenTerminal
      <3>2. state' \in [Terminals -> States]
        BY <1>0, <3>1 DEF States
      <3> QED BY <1>1, <3>1, <3>2 DEF OpenTerminal, TypeOK, user, agent
    <2> QED BY <2>1, <2>2
  <1>2. ASSUME NEW t \in Terminals, Write(t) PROVE TypeOK'
    <2>1. server' \in [Terminals -> Numbers]
      BY <1>2, <1>0, <1>s, NumbersChange DEF Write
    <2>2. \/ HasRoom /\ down' = Append(down, Frame(t, "stdin", server[t].sent + 1)) /\ lock' = lock
          \/ down' = down /\ lock' = t
      BY <1>2 DEF Write
    <2>3. down' \in Seq(Frames) /\ Len(down') <= DownBuffer
      BY <1>0, <1>s, <1>t, <2>2
    <2>4. lock' \in Terminals \cup {None}
      BY <2>2 DEF TypeOK
    <2> QED BY <1>2, <2>1, <2>3, <2>4 DEF Write, TypeOK, user, agent
  <1>3. CASE WriteFails
    <2>1. lock \in Terminals /\ Finish(lock, TRUE, server)
      BY <1>3 DEF WriteFails, TypeOK
    <2>2. /\ state' \in [Terminals -> States] /\ server' \in [Terminals -> Numbers]
          /\ down' \in Seq(Frames) /\ Len(down') <= DownBuffer
      BY <1>0, <2>1, FinishEnds DEF States
    <2> QED BY <1>3, <2>2 DEF WriteFails, TypeOK, user, agent
  <1>4. ASSUME NEW t \in Terminals, CloseTerminal(t) PROVE TypeOK'
    <2>1. Finish(t, TRUE, server)
      BY <1>4 DEF CloseTerminal
    <2>2. /\ state' \in [Terminals -> States] /\ server' \in [Terminals -> Numbers]
          /\ down' \in Seq(Frames) /\ Len(down') <= DownBuffer
      BY <1>0, <2>1, FinishEnds DEF States
    <2> QED BY <1>4, <2>2 DEF CloseTerminal, TypeOK, user, agent
  <1>5. ASSUME NEW t \in Terminals, Read(t) PROVE TypeOK'
    <2>1. /\ output[t] # <<>> /\ output[t] \in Seq(Nat)
          /\ read' = [read EXCEPT ![t] = Append(@, Head(output[t]))]
          /\ output' = [output EXCEPT ![t] = Tail(@)]
      BY <1>5, <1>0 DEF Read
    <2>2. /\ Head(output[t]) \in Nat /\ Tail(output[t]) \in Seq(Nat)
          /\ Len(Tail(output[t])) = Len(output[t]) - 1 /\ Len(output[t]) \in Nat
      BY <2>1, TakingFirst
    <2>3. read' \in [Terminals -> Seq(Nat)]
      BY <1>0, <2>1, <2>2, Appending
    <2>4. /\ output' \in [Terminals -> Seq(Nat)]
          /\ \A u \in Terminals : output'[u] = IF u = t THEN Tail(output[t]) ELSE output[u]
      BY <1>0, <2>1, <2>2
    <2>5. ASSUME NEW u \in Terminals PROVE Len(output'[u]) <= OutputSize
      <3>1. Len(output[t]) <= OutputSize /\ Len(output[u]) <= OutputSize /\ OutputSize \in Nat
        BY <1>0, TerminalAssumption
      <3>2. Len(Tail(output[t])) <= OutputSize
        BY <2>2, <3>1
      <3> QED BY <2>4, <3>1, <3>2
    <2> QED BY <1>5, <2>3, <2>4, <2>5 DEF Read, TypeOK, agent
  <1>6. CASE CompleteTerminalFrame
    <2> PICK f \in Frames : LET t == f.terminal
                                counted == [server EXCEPT ![t].received = f.number] IN
             \/ UNCHANGED <<state, server, output, down>>
             \/ /\ state[t] = "opening" /\ f.number = server[t].received + 1
                /\ state' = [state EXCEPT ![t] = "ready"] /\ server' = counted
                /\ UNCHANGED <<output, down>>
             \/ /\ state[t] = "ready" /\ f.number = server[t].received + 1
                /\ Len(output[t]) < OutputSize
                /\ output' = [output EXCEPT ![t] = Append(@, f.number)] /\ server' = counted
                /\ UNCHANGED <<state, down>>
             \/ \E notify \in BOOLEAN : Finish(t, notify, counted) /\ UNCHANGED output
      BY <1>6, FrameCompletes
    <2> DEFINE t == f.terminal
               counted == [server EXCEPT ![t].received = f.number]
    <2>1. t \in Terminals /\ f.number \in Nat
      BY DEF Frames
    <2>2. counted \in [Terminals -> Numbers]
      BY <1>0, <2>1, NumbersChange
    <2>3. /\ state' \in [Terminals -> States] /\ server' \in [Terminals -> Numbers]
          /\ down' \in Seq(Frames) /\ Len(down') <= DownBuffer
          /\ output' \in [Terminals -> Seq(Nat)]
          /\ \A u \in Terminals : Len(output'[u]) <= OutputSize
      <3>1. CASE UNCHANGED <<state, server, output, down>>
        BY <1>0, <3>1
      <3>2. CASE /\ state' = [state EXCEPT ![t] = "ready"] /\ server' = counted
                 /\ UNCHANGED <<output, down>>
        BY <1>0, <2>2, <3>2 DEF States
      <3>3. CASE /\ Len(output[t]) < OutputSize
                 /\ output' = [output EXCEPT ![t] = Append(@, f.number)] /\ server' = counted
                 /\ UNCHANGED <<state, down>>
        <4>1. Append(output[t], f.number) \in Seq(Nat) /\ Len(Append(output[t], f.number)) <= OutputSize
          BY <1>0, <2>1, <3>3, Appending, TerminalAssumption
        <4> QED BY <1>0, <2>1, <2>2, <3>3, <4>1
      <3>4. CASE \E notify \in BOOLEAN : Finish(t, notify, counted) /\ UNCHANGED output
        <4>1. PICK notify \in BOOLEAN : Finish(t, notify, counted) /\ UNCHANGED output
          BY <3>4
        <4> HIDE DEF counted
        <4>2. /\ state' = [state EXCEPT ![t] = "done"] /\ server' \in [Terminals -> Numbers]
              /\ down' \in Seq(Frames) /\ Len(down') <= DownBuffer
          BY <2>1, <2>2, <4>1, FinishEnds
        <4> QED BY <1>0, <4>1, <4>2 DEF States
      <3> QED BY <3>1, <3>2, <3>3, <3>4
    <2>4. up' \in Seq(Frames) /\ Len(up') <= UpBuffer /\ link' \in {"up", "lost", "refused", "stopped"}
      <3>1. up # <<>> /\ up' = Tail(up) /\ link' \in {link, "refused"}
        BY <1>6 DEF CompleteTerminalFrame
      <3>2. up' \in Seq(Frames) /\ Len(up') = Len(up) - 1 /\ Len(up) \in Nat
        BY <1>0, <3>1, TakingFirst
      <3> QED BY <3>1, <3>2, TerminalAssumption DEF TypeOK
    <2> QED BY <1>6, <2>3, <2>4 DEF CompleteTerminalFrame, TypeOK, agent
  <1>7. CASE HandleOpen
    <2> DEFINE t == Head(down).terminal
    <2>1. t \in Terminals /\ down' \in Seq(Frames) /\ Len(down') <= DownBuffer
      <3>1. down # <<>> /\ down' = Tail(down)
        BY <1>7 DEF HandleOpen
      <3>2. Head(down) \in Frames /\ down' \in Seq(Frames) /\ Len(down') = Len(down) - 1
        BY <1>0, <3>1, TakingFirst
      <3>3. t \in Terminals
        BY <3>2 DEF Frames
      <3> QED BY <1>0, <3>2, <3>3, TerminalAssumption
    <2>2. \/ /\ Enqueue(Frame(t, "error", 1)) /\ UNCHANGED <<shell, client>>
             /\ link' \in {link, "lost"}
          \/ /\ shell' = [shell EXCEPT ![t] = "opening"]
             /\ client' = [client EXCEPT ![t].received = 1]
             /\ UNCHANGED <<link, up>>
      BY <1>7 DEF HandleOpen
    <2>3. shell' \in [Terminals -> ShellStates] /\ client' \in [Terminals -> Numbers]
      <3>1. CASE UNCHANGED <<shell, client>>
        BY <1>0, <3>1
      <3>2. CASE shell' = [shell EXCEPT ![t] = "opening"] /\ client' = [client EXCEPT ![t].received = 1]
        BY <1>0, <2>1, <3>2, NumbersChange DEF ShellStates
      <3> QED BY <2>2, <3>1, <3>2
    <2>4. up' \in Seq(Frames) /\ Len(up') <= UpBuffer
      BY <1>s, <2>1, <2>2, Enqueued DEF TypeOK
    <2>5. link' \in {"up", "lost", "refused", "stopped"}
      BY <2>2 DEF TypeOK
    <2> QED BY <1>7, <2>1, <2>3, <2>4, <2>5 DEF HandleOpen, TypeOK, user
  <1>8. CASE HandleFrame
    <2> PICK f \in Frames : LET t == f.terminal IN
             /\ down # <<>> /\ down' = Tail(down)
             /\ \/ UNCHANGED <<client, inbound>>
                \/ /\ t \in Open /\ f.number = client[t].received + 1
                   /\ Len(inbound[t]) < InboundSize
                   /\ inbound' = [inbound EXCEPT ![t] = Append(@, f)]
                   /\ client' = [client EXCEPT ![t].received = f.number]
             /\ canceled' \in SUBSET Terminals /\ link' \in {link, "stopped", "lost"}
             /\ UNCHANGED <<lock, state, server, user, shell, typed, up>>
      BY <1>8, FrameHandled
    <2> DEFINE t == f.terminal
    <2>1. t \in Terminals /\ f.number \in Nat
      BY DEF Frames
    <2>2. down' \in Seq(Frames) /\ Len(down') <= DownBuffer
      <3>1. down' \in Seq(Frames) /\ Len(down') = Len(down) - 1
        BY <1>0, TakingFirst
      <3> QED BY <1>0, <3>1, TerminalAssumption
    <2>3. /\ inbound' \in [Terminals -> Seq(Frames)] /\ client' \in [Terminals -> Numbers]
          /\ \A u \in Terminals : Len(inbound'[u]) <= InboundSize
      <3>1. CASE UNCHANGED <<client, inbound>>
        BY <1>0, <3>1
      <3>2. CASE /\ Len(inbound[t]) < InboundSize
                 /\ inbound' = [inbound EXCEPT ![t] = Append(@, f)]
                 /\ client' = [client EXCEPT ![t].received = f.number]
        <4>1. Append(inbound[t], f) \in Seq(Frames) /\ Len(Append(inbound[t], f)) <= InboundSize
          BY <1>0, <2>1, <3>2, Appending, TerminalAssumption
        <4>2. client' \in [Terminals -> Numbers]
          BY <1>0, <2>1, <3>2, NumbersChange
        <4> QED BY <1>0, <2>1, <3>2, <4>1, <4>2
      <3> QED BY <3>1, <3>2
    <2> QED BY <2>2, <2>3 DEF TypeOK, user
  <1>9. ASSUME NEW t \in Terminals, Start(t) \/ PrintOut(t) \/ Exit(t) PROVE TypeOK'
    <2>1. \E f \in Frames : Enqueue(f)
      BY <1>9, <1>s DEF Start, PrintOut, Exit
    <2>2. up' \in Seq(Frames) /\ Len(up') <= UpBuffer
      BY <2>1, Enqueued
    <2>3. shell' \in [Terminals -> ShellStates]
      BY <1>9, <1>0 DEF Start, PrintOut, Exit, ShellStates
    <2>4. client' = [client EXCEPT ![t].sent = 1] \/ client' = [client EXCEPT ![t].sent = @ + 1]
      BY <1>9 DEF Start, PrintOut, Exit
    <2>5. client' \in [Terminals -> Numbers]
      <3>1. /\ [client[t] EXCEPT !.sent = 1] \in Numbers
            /\ [client[t] EXCEPT !.sent = client[t].sent + 1] \in Numbers
        BY <1>0, <1>s, NumbersChange
      <3>2. CASE client' = [client EXCEPT ![t].sent = 1]
        BY <1>0, <3>1, <3>2
      <3>3. CASE client' = [client EXCEPT ![t].sent = @ + 1]
        BY <1>0, <3>1, <3>3
      <3> QED BY <2>4, <3>2, <3>3
    <2> QED BY <1>9, <2>2, <2>3, <2>5 DEF Start, PrintOut, Exit, TypeOK, user
  <1>10. ASSUME NEW t \in Terminals, Input(t) PROVE TypeOK'
    <2>1. inbound[t] # <<>> /\ inbound[t] \in Seq(Frames) /\ inbound' = [inbound EXCEPT ![t] = Tail(@)]
      BY <1>10, <1>0 DEF Input
    <2>2. /\ Head(inbound[t]) \in Frames /\ Tail(inbound[t]) \in Seq(Frames)
          /\ Len(Tail(inbound[t])) = Len(inbound[t]) - 1 /\ Len(inbound[t]) \in Nat
      BY <2>1, TakingFirst
    <2>3. \/ shell' = [shell EXCEPT ![t] = "ended"] /\ UNCHANGED typed
          \/ typed' = [typed EXCEPT ![t] = Append(@, Head(inbound[t]).number)] /\ UNCHANGED shell
      BY <1>10 DEF Input
    <2>4. Append(typed[t], Head(inbound[t]).number) \in Seq(Nat)
      BY <1>0, <2>2, Appending DEF Frames
    <2>5. shell' \in [Terminals -> ShellStates] /\ typed' \in [Terminals -> Seq(Nat)]
      BY <1>0, <2>3, <2>4 DEF ShellStates
    <2>6. /\ inbound' \in [Terminals -> Seq(Frames)]
          /\ \A u \in Terminals : inbound'[u] = IF u = t THEN Tail(inbound[t]) ELSE inbound[u]
      BY <1>0, <2>1, <2>2
    <2>7. \A u \in Terminals : Len(inbound'[u]) <= InboundSize
      BY <1>0, <2>2, <2>6, TerminalAssumption
    <2> QED BY <1>10, <2>5, <2>6, <2>7 DEF Input, TypeOK, user
  <1>11. ASSUME NEW t \in Terminals, Canceled(t) PROVE TypeOK'
    <2>1. shell' \in [Terminals -> ShellStates]
      BY <1>11, <1>0 DEF Canceled, ShellStates
    <2> QED BY <1>11, <2>1 DEF Canceled, TypeOK, user
  <1>12. CASE Break
    <2>1. link' \in {"up", "lost", "refused", "stopped"}
      BY <1>12 DEF Break
    <2> QED BY <1>12, <2>1 DEF Break, TypeOK, user, agent
  <1>13. CASE TerminateLocked
    <2>1. state' \in [Terminals -> States]
      BY <1>13, <1>0 DEF TerminateLocked, States
    <2> QED BY <1>13, <2>1 DEF TerminateLocked, TypeOK, user, agent
  <1>14. CASE CloseContainerTerminals
    <2>1. canceled' \in SUBSET Terminals
      BY <1>14, <1>0 DEF CloseContainerTerminals, Open
    <2> QED BY <1>14, <2>1 DEF CloseContainerTerminals, TypeOK, user
  <1>15. CASE UNCHANGED vars
    BY <1>15 DEF vars, user, agent, TypeOK
  <1> QED
    BY <1>1, <1>2, <1>3, <1>4, <1>5, <1>6, <1>7, <1>8, <1>9, <1>10, <1>11, <1>12, <1>13, <1>14,
       <1>15 DEF Next, Stream
-----------------------------------------------------------------------------
(* OpenedOnce                                                              *)

\* Steps that open no terminal, on either side.
LEMMA NothingOpened ==
    ASSUME TypeOK, OpenedOnce,
           \/ down' = down
           \/ \E f \in Frames : f.type # "open" /\ down' = Append(down, f)
           \/ down # <<>> /\ down' = Tail(down),
           \A t \in Terminals : state'[t] = "new" => state[t] = "new",
           \A t \in Terminals : state[t] # "new" => state'[t] # "new",
           \A t \in Terminals : shell[t] = "none" => shell'[t] = "none"
    PROVE  OpenedOnce'
  <1>0. down \in Seq(Frames) /\ \A i \in 1 .. Len(down) : down[i].terminal \in Terminals
    <2>1. down \in Seq(Frames)
      BY DEF TypeOK
    <2>2. \A i \in 1 .. Len(down) : down[i] \in Frames
      BY <2>1
    <2> QED BY <2>1, <2>2 DEF Frames
  <1>1. \A t \in Terminals : state'[t] = "new" => shell'[t] = "none"
    BY DEF OpenedOnce
  \* Where an open frame of the new queue stood in the old one.
  <1>2. \E shift \in {0, 1} : \A i \in 1 .. Len(down') :
           down'[i].type = "open" => i + shift \in 1 .. Len(down) /\ down'[i] = down[i + shift]
    <2>1. CASE down' = down
      <3>1. \A i \in 1 .. Len(down') : i + 0 \in 1 .. Len(down) /\ down'[i] = down[i + 0]
        BY <2>1
      <3> QED BY <3>1
    <2>2. CASE \E f \in Frames : f.type # "open" /\ down' = Append(down, f)
      <3>1. PICK f \in Frames : f.type # "open" /\ down' = Append(down, f)
        BY <2>2
      <3>2. /\ Len(down') = Len(down) + 1 /\ Len(down) \in Nat /\ down'[Len(down) + 1] = f
            /\ \A i \in 1 .. Len(down) : down'[i] = down[i]
        BY <1>0, <3>1, Appending
      <3>3. \A i \in 1 .. Len(down') :
               down'[i].type = "open" => i + 0 \in 1 .. Len(down) /\ down'[i] = down[i + 0]
        BY <3>1, <3>2
      <3> QED BY <3>3
    <2>3. CASE down # <<>> /\ down' = Tail(down)
      <3>1. \A i \in 1 .. Len(down') : i + 1 \in 1 .. Len(down) /\ down'[i] = down[i + 1]
        BY <1>0, <2>3, TakingFirst
      <3> QED BY <3>1
    <2> QED BY <2>1, <2>2, <2>3
  <1>3. ASSUME NEW i \in 1 .. Len(down'), down'[i].type = "open"
        PROVE  /\ state'[down'[i].terminal] # "new" /\ shell'[down'[i].terminal] = "none"
               /\ \A j \in 1 .. Len(down') :
                     down'[j].type = "open" /\ down'[j].terminal = down'[i].terminal => i = j
    <2>1. PICK shift \in {0, 1} : \A k \in 1 .. Len(down') :
             down'[k].type = "open" => k + shift \in 1 .. Len(down) /\ down'[k] = down[k + shift]
      BY <1>2
    <2>2. i + shift \in 1 .. Len(down) /\ down'[i] = down[i + shift]
      BY <1>3, <2>1
    <2>3. state'[down'[i].terminal] # "new" /\ shell'[down'[i].terminal] = "none"
      BY <1>0, <1>3, <2>2 DEF OpenedOnce
    <2>4. ASSUME NEW j \in 1 .. Len(down'), down'[j].type = "open", down'[j].terminal = down'[i].terminal
          PROVE  i = j
      <3>1. j + shift \in 1 .. Len(down) /\ down'[j] = down[j + shift]
        BY <2>1, <2>4
      <3>2. i + shift = j + shift
        BY <1>3, <2>2, <2>4, <3>1 DEF OpenedOnce
      <3> QED BY <3>2
    <2> QED BY <2>3, <2>4
  <1> QED BY <1>1, <1>3 DEF OpenedOnce

LEMMA NextOpened ==
    ASSUME TypeOK, OpenedOnce, [Next]_vars
    PROVE  OpenedOnce'
  <1>0. /\ state \in [Terminals -> States] /\ shell \in [Terminals -> ShellStates]
        /\ down \in Seq(Frames) /\ server \in [Terminals -> Numbers] /\ lock \in Terminals \cup {None}
        /\ \A i \in 1 .. Len(down) : down[i].terminal \in Terminals
    <2>1. /\ state \in [Terminals -> States] /\ shell \in [Terminals -> ShellStates]
          /\ down \in Seq(Frames) /\ server \in [Terminals -> Numbers] /\ lock \in Terminals \cup {None}
      BY DEF TypeOK
    <2>2. \A i \in 1 .. Len(down) : down[i] \in Frames
      BY <2>1
    <2> QED BY <2>1, <2>2 DEF Frames
  \* The end of a terminal opens none.
  <1>f. ASSUME NEW t \in Terminals, NEW notify \in BOOLEAN, NEW numbers \in [Terminals -> Numbers],
               Finish(t, notify, numbers), UNCHANGED shell
        PROVE  OpenedOnce'
    <2>1. /\ state' = [state EXCEPT ![t] = "done"]
          /\ \/ down' = down
             \/ \E f \in Frames : f.type # "open" /\ down' = Append(down, f)
      BY <1>f, FinishEnds
    <2> QED BY <1>0, <1>f, <2>1, NothingOpened
  <1>1. ASSUME NEW t \in Terminals, OpenTerminal(t) PROVE OpenedOnce'
    <2>0. state[t] = "new" /\ shell' = shell
      BY <1>1 DEF OpenTerminal, agent
    <2>1. CASE HasRoom
      <3>1. state' = [state EXCEPT ![t] = "opening"] /\ down' = Append(down, Frame(t, "open", 1))
        BY <1>1, <2>1 DEF OpenTerminal
      <3>2. Frame(t, "open", 1) \in Frames /\ Frame(t, "open", 1).terminal = t
        BY DEF Frame, Frames
      <3> DEFINE f == Frame(t, "open", 1)
      <3> HIDE DEF f
      <3>3. /\ Len(down') = Len(down) + 1 /\ Len(down) \in Nat /\ down'[Len(down) + 1] = f
            /\ \A i \in 1 .. Len(down) : down'[i] = down[i]
        BY <1>0, <3>1, <3>2, Appending DEF f
      <3>4. \A i \in 1 .. Len(down) : down[i].type = "open" => down[i].terminal # t
        BY <2>0 DEF OpenedOnce
      <3>5. state'[t] # "new" /\ shell'[t] = "none" /\ \A u \in Terminals \ {t} : state'[u] = state[u]
        BY <1>0, <2>0, <3>1 DEF OpenedOnce
      <3>6. ASSUME NEW i \in 1 .. Len(down'), down'[i].type = "open"
            PROVE  /\ state'[down'[i].terminal] # "new" /\ shell'[down'[i].terminal] = "none"
                   /\ \A j \in 1 .. Len(down') :
                         down'[j].type = "open" /\ down'[j].terminal = down'[i].terminal => i = j
        <4>1. CASE i = Len(down) + 1
          <5>1. down'[i].terminal = t
            BY <3>2, <3>3, <4>1 DEF f
          <5> QED BY <3>3, <3>4, <3>5, <4>1, <5>1
        <4>2. CASE i \in 1 .. Len(down)
          <5>1. down'[i] = down[i] /\ down[i].terminal # t /\ down[i].terminal \in Terminals
            BY <1>0, <3>3, <3>4, <3>6, <4>2
          <5>2. state'[down'[i].terminal] # "new" /\ shell'[down'[i].terminal] = "none"
            BY <2>0, <3>5, <3>6, <4>2, <5>1 DEF OpenedOnce
          <5>3. ASSUME NEW j \in 1 .. Len(down'), down'[j].type = "open",
                       down'[j].terminal = down'[i].terminal
                PROVE  i = j
            <6>1. j # Len(down) + 1
              BY <3>2, <3>3, <5>1, <5>3 DEF f
            <6>2. j \in 1 .. Len(down) /\ down'[j] = down[j]
              BY <3>3, <6>1
            <6> QED BY <3>6, <4>2, <5>1, <5>3, <6>2 DEF OpenedOnce
          <5> QED BY <5>2, <5>3
        <4> QED BY <3>3, <4>1, <4>2
      <3>7. \A u \in Terminals : state'[u] = "new" => shell'[u] = "none"
        BY <2>0, <3>5 DEF OpenedOnce
      <3> QED BY <3>6, <3>7 DEF OpenedOnce
    <2>2. CASE ~HasRoom
      <3>1. state' = [state EXCEPT ![t] = "done"] /\ down' = down
        BY <1>1, <2>2 DEF OpenTerminal
      <3> QED BY <1>0, <2>0, <3>1, NothingOpened
    <2> QED BY <2>1, <2>2
  <1>2. ASSUME NEW t \in Terminals, Write(t) PROVE OpenedOnce'
    <2>1. /\ down' = down \/ down' = Append(down, Frame(t, "stdin", server[t].sent + 1))
          /\ UNCHANGED <<state, shell>>
      BY <1>2 DEF Write, agent
    <2>2. /\ Frame(t, "stdin", server[t].sent + 1) \in Frames
          /\ Frame(t, "stdin", server[t].sent + 1).type # "open"
      BY <1>0 DEF Frame, Frames, Numbers
    <2> QED BY <2>1, <2>2, NothingOpened
  <1>3. CASE WriteFails
    <2>1. lock \in Terminals /\ Finish(lock, TRUE, server) /\ UNCHANGED shell
      BY <1>0, <1>3 DEF WriteFails, agent
    <2> QED BY <1>0, <1>f, <2>1
  <1>4. ASSUME NEW t \in Terminals, CloseTerminal(t) PROVE OpenedOnce'
    <2>1. Finish(t, TRUE, server) /\ UNCHANGED shell
      BY <1>4 DEF CloseTerminal, agent
    <2> QED BY <1>0, <1>f, <2>1
  <1>5. CASE CompleteTerminalFrame
    <2>0. UNCHANGED shell
      BY <1>5 DEF CompleteTerminalFrame, agent
    <2> PICK f \in Frames : LET t == f.terminal
                                counted == [server EXCEPT ![t].received = f.number] IN
             \/ UNCHANGED <<state, server, output, down>>
             \/ /\ state[t] = "opening" /\ f.number = server[t].received + 1
                /\ state' = [state EXCEPT ![t] = "ready"] /\ server' = counted
                /\ UNCHANGED <<output, down>>
             \/ /\ state[t] = "ready" /\ f.number = server[t].received + 1
                /\ Len(output[t]) < OutputSize
                /\ output' = [output EXCEPT ![t] = Append(@, f.number)] /\ server' = counted
                /\ UNCHANGED <<state, down>>
             \/ \E notify \in BOOLEAN : Finish(t, notify, counted) /\ UNCHANGED output
      BY <1>5, FrameCompletes
    <2> DEFINE t == f.terminal
               counted == [server EXCEPT ![t].received = f.number]
    <2>1. t \in Terminals /\ counted \in [Terminals -> Numbers]
      BY <1>0, NumbersChange DEF Frames
    <2>2. CASE UNCHANGED <<state, down>>
      BY <2>0, <2>2, NothingOpened
    <2>3. CASE /\ state[t] = "opening" /\ state' = [state EXCEPT ![t] = "ready"]
               /\ UNCHANGED <<output, down>>
      BY <1>0, <2>0, <2>1, <2>3, NothingOpened
    <2>4. CASE \E notify \in BOOLEAN : Finish(t, notify, counted)
      <3> HIDE DEF counted
      <3> QED BY <1>f, <2>0, <2>1, <2>4
    <2> QED BY <2>2, <2>3, <2>4
  <1>6. CASE HandleOpen
    <2> DEFINE t == Head(down).terminal
    <2>1. /\ down # <<>> /\ Head(down).type = "open" /\ down' = Tail(down) /\ state' = state
          /\ shell' = shell \/ shell' = [shell EXCEPT ![t] = "opening"]
      BY <1>6 DEF HandleOpen
    <2>2. CASE shell' = shell
      BY <2>1, <2>2, NothingOpened
    <2>3. CASE shell' = [shell EXCEPT ![t] = "opening"]
      <3>1. /\ Head(down) = down[1] /\ Len(down) \in Nat \ {0} /\ Len(Tail(down)) = Len(down) - 1
            /\ \A i \in 1 .. Len(Tail(down)) : Tail(down)[i] = down[i + 1] /\ i + 1 \in 1 .. Len(down)
        BY <1>0, <2>1, TakingFirst
      <3>2. state[t] # "new"
        BY <2>1, <3>1 DEF OpenedOnce
      <3>3. ASSUME NEW i \in 1 .. Len(down'), down'[i].type = "open"
            PROVE  /\ state'[down'[i].terminal] # "new" /\ shell'[down'[i].terminal] = "none"
                   /\ \A j \in 1 .. Len(down') :
                         down'[j].type = "open" /\ down'[j].terminal = down'[i].terminal => i = j
        <4>1. down'[i] = down[i + 1] /\ i + 1 \in 1 .. Len(down) /\ i + 1 # 1
          BY <2>1, <3>1
        <4>2. down[i + 1].terminal # t
          BY <2>1, <3>1, <3>3, <4>1 DEF OpenedOnce
        <4>3. state'[down'[i].terminal] # "new" /\ shell'[down'[i].terminal] = "none"
          BY <1>0, <2>1, <2>3, <3>3, <4>1, <4>2 DEF OpenedOnce
        <4>4. ASSUME NEW j \in 1 .. Len(down'), down'[j].type = "open",
                     down'[j].terminal = down'[i].terminal
              PROVE  i = j
          <5>1. down'[j] = down[j + 1] /\ j + 1 \in 1 .. Len(down)
            BY <2>1, <3>1
          <5>2. i + 1 = j + 1
            BY <3>3, <4>1, <4>4, <5>1 DEF OpenedOnce
          <5> QED BY <5>2
        <4> QED BY <4>3, <4>4
      <3>4. \A u \in Terminals : state'[u] = "new" => shell'[u] = "none"
        BY <1>0, <2>1, <2>3, <3>2 DEF OpenedOnce
      <3> QED BY <3>3, <3>4 DEF OpenedOnce
    <2> QED BY <2>1, <2>2, <2>3
  <1>7. CASE HandleFrame
    <2>1. down # <<>> /\ down' = Tail(down) /\ UNCHANGED <<state, shell>>
      BY <1>7 DEF HandleFrame
    <2> QED BY <2>1, NothingOpened
  <1>8. ASSUME NEW t \in Terminals, Start(t) \/ Input(t) \/ PrintOut(t) \/ Exit(t) \/ Canceled(t)
        PROVE  OpenedOnce'
    <2>1. shell[t] # "none" /\ UNCHANGED <<state, down>>
      BY <1>8 DEF Start, Input, PrintOut, Exit, Canceled, Open
    <2>2. shell' = shell \/ \E st \in {"running", "ended", shell[t]} : shell' = [shell EXCEPT ![t] = st]
      BY <1>8 DEF Start, Input, PrintOut, Exit, Canceled
    <2> QED BY <1>0, <2>1, <2>2, NothingOpened
  <1>9. CASE TerminateLocked
    <2>1. /\ state' = [t \in Terminals |-> IF Active(t) THEN "done" ELSE state[t]]
          /\ UNCHANGED <<down, shell>>
      BY <1>9 DEF TerminateLocked, agent
    <2> QED BY <2>1, NothingOpened DEF Active
  <1>10. ASSUME \/ \E t \in Terminals : Read(t)
                \/ Break \/ CloseContainerTerminals \/ UNCHANGED vars
         PROVE  OpenedOnce'
    <2>1. UNCHANGED <<state, shell, down>>
      BY <1>10 DEF Read, Break, CloseContainerTerminals, vars, agent
    <2> QED BY <2>1, NothingOpened
  <1> QED
    BY <1>1, <1>2, <1>3, <1>4, <1>5, <1>6, <1>7, <1>8, <1>9, <1>10 DEF Next, Stream
-----------------------------------------------------------------------------
(* What the user reads: OutputIsCounted and the second half of              *)
(* NothingIsSkipped.                                                       *)

LEMMA NextOutput ==
    ASSUME TypeOK, OutputIsCounted, \A t \in Terminals : Consecutive(read[t] \o output[t]),
           [Next]_vars
    PROVE  OutputIsCounted' /\ \A t \in Terminals : Consecutive(read'[t] \o output'[t])
  <1>0. /\ state \in [Terminals -> States] /\ server \in [Terminals -> Numbers]
        /\ output \in [Terminals -> Seq(Nat)] /\ read \in [Terminals -> Seq(Nat)]
        /\ lock \in Terminals \cup {None}
    BY DEF TypeOK
  \* A terminal that ends, or sends, counts what it received as before.
  <1>1. ASSUME UNCHANGED user,
               \A t \in Terminals : server'[t].received = server[t].received,
               \A t \in Terminals : state'[t] = state[t] \/ state'[t] = "done"
        PROVE  OutputIsCounted' /\ \A t \in Terminals : Consecutive(read'[t] \o output'[t])
    BY <1>1 DEF OutputIsCounted, user
  <1>f. ASSUME UNCHANGED user, NEW t \in Terminals, NEW numbers \in [Terminals -> Numbers],
               NEW notify \in BOOLEAN, Finish(t, notify, numbers),
               \A u \in Terminals \ {t} : numbers[u].received = server[u].received
        PROVE  OutputIsCounted' /\ \A u \in Terminals : Consecutive(read'[u] \o output'[u])
    <2>1. /\ state' = [state EXCEPT ![t] = "done"]
          /\ \A u \in Terminals : server'[u].received = numbers[u].received
      BY <1>f, FinishEnds
    <2> QED BY <1>0, <1>f, <2>1 DEF OutputIsCounted, user
  <1>2. ASSUME NEW t \in Terminals, OpenTerminal(t)
        PROVE  OutputIsCounted' /\ \A u \in Terminals : Consecutive(read'[u] \o output'[u])
    <2>1. /\ state[t] = "new" /\ UNCHANGED user
          /\ \/ /\ state' = [state EXCEPT ![t] = "opening"]
                /\ server' = [server EXCEPT ![t].sent = 1]
             \/ /\ state' = [state EXCEPT ![t] = "done"] /\ server' = server
      BY <1>2 DEF OpenTerminal
    <2>2. \A u \in Terminals : server'[u].received = server[u].received
      <3>1. [server[t] EXCEPT !.sent = 1].received = server[t].received
        BY <1>0, NumbersChange
      <3>2. CASE server' = [server EXCEPT ![t].sent = 1]
        BY <1>0, <3>1, <3>2
      <3> QED BY <2>1, <3>2
    <2>3. \A u \in Terminals : \/ state'[u] = state[u] \/ state'[u] = "done"
                               \/ state[u] = "new" /\ state'[u] = "opening"
      BY <1>0, <2>1
    <2> QED BY <2>1, <2>2, <2>3 DEF OutputIsCounted, user
  <1>3. ASSUME NEW t \in Terminals, Write(t)
        PROVE  OutputIsCounted' /\ \A u \in Terminals : Consecutive(read'[u] \o output'[u])
    <2>1. server' = [server EXCEPT ![t].sent = @ + 1] /\ UNCHANGED <<state, user>>
      BY <1>3 DEF Write
    <2>2. \A u \in Terminals : server'[u].received = server[u].received
      BY <1>0, <2>1 DEF Numbers
    <2> QED BY <1>1, <2>1, <2>2
  <1>4. ASSUME WriteFails \/ \E t \in Terminals : CloseTerminal(t)
        PROVE  OutputIsCounted' /\ \A u \in Terminals : Consecutive(read'[u] \o output'[u])
    <2>1. PICK t \in Terminals : Finish(t, TRUE, server) /\ UNCHANGED user
      BY <1>0, <1>4 DEF WriteFails, CloseTerminal
    <2> QED BY <1>0, <1>f, <2>1
  <1>5. ASSUME NEW t \in Terminals, Read(t)
        PROVE  OutputIsCounted' /\ \A u \in Terminals : Consecutive(read'[u] \o output'[u])
    <2>1. /\ output[t] # <<>> /\ output[t] \in Seq(Nat) /\ read[t] \in Seq(Nat)
          /\ read' = [read EXCEPT ![t] = Append(@, Head(output[t]))]
          /\ output' = [output EXCEPT ![t] = Tail(@)] /\ UNCHANGED <<state, server>>
      BY <1>5, <1>0 DEF Read
    <2>2. /\ Len(Tail(output[t])) = Len(output[t]) - 1 /\ Head(output[t]) \in Nat
          /\ Len(output[t]) \in Nat /\ Len(read[t]) \in Nat
      BY <2>1, TakingFirst
    <2>3. Len(Append(read[t], Head(output[t]))) = Len(read[t]) + 1
      BY <2>1, <2>2, Appending
    <2>4. /\ read'[t] = Append(read[t], Head(output[t])) /\ output'[t] = Tail(output[t])
          /\ \A u \in Terminals \ {t} : read'[u] = read[u] /\ output'[u] = output[u]
      BY <1>0, <2>1
    <2>5. read'[t] \o output'[t] = read[t] \o output[t]
      BY <2>1, <2>4, Moving
    <2>6. Len(read'[t]) + Len(output'[t]) = Len(read[t]) + Len(output[t])
      <3>1. Len(read'[t]) = Len(read[t]) + 1
        BY <2>3, <2>4
      <3>2. Len(output'[t]) = Len(output[t]) - 1
        BY <2>2, <2>4
      <3>3. Len(read[t]) \in Nat /\ Len(output[t]) \in Nat
        BY <2>2
      <3> DEFINE r == Len(read[t])
                 o == Len(output[t])
      <3> HIDE DEF r, o
      <3>4. r \in Nat /\ o \in Nat /\ Len(read'[t]) = r + 1 /\ Len(output'[t]) = o - 1
        BY <3>1, <3>2, <3>3 DEF r, o
      <3>5. Len(read'[t]) + Len(output'[t]) = r + o
        BY <3>4
      <3> QED BY <3>5 DEF r, o
    <2>7. state[t] \notin {"new", "opening"}
      BY <2>1 DEF OutputIsCounted
    <2>8. ASSUME NEW u \in Terminals PROVE Consecutive(read'[u] \o output'[u])
      BY <2>4, <2>5
    <2>9. OutputIsCounted'
      BY <2>1, <2>4, <2>6, <2>7 DEF OutputIsCounted
    <2> QED BY <2>8, <2>9
  <1>6. ASSUME CompleteTerminalFrame
        PROVE  OutputIsCounted' /\ \A u \in Terminals : Consecutive(read'[u] \o output'[u])
    <2> PICK f \in Frames : LET t == f.terminal
                                counted == [server EXCEPT ![t].received = f.number] IN
             \/ UNCHANGED <<state, server, output, down>>
             \/ /\ state[t] = "opening" /\ f.number = server[t].received + 1
                /\ state' = [state EXCEPT ![t] = "ready"] /\ server' = counted
                /\ UNCHANGED <<output, down>>
             \/ /\ state[t] = "ready" /\ f.number = server[t].received + 1
                /\ Len(output[t]) < OutputSize
                /\ output' = [output EXCEPT ![t] = Append(@, f.number)] /\ server' = counted
                /\ UNCHANGED <<state, down>>
             \/ \E notify \in BOOLEAN : Finish(t, notify, counted) /\ UNCHANGED output
      BY <1>6, FrameCompletes
    <2> DEFINE t == f.terminal
               counted == [server EXCEPT ![t].received = f.number]
    <2>0. read' = read
      BY <1>6 DEF CompleteTerminalFrame
    <2>1. t \in Terminals /\ f.number \in Nat
      BY DEF Frames
    <2>2. /\ counted \in [Terminals -> Numbers] /\ counted[t].received = f.number
          /\ \A u \in Terminals \ {t} : counted[u].received = server[u].received
      BY <1>0, <2>1, NumbersChange
    <2>3. CASE UNCHANGED <<state, server, output>>
      BY <1>1, <2>0, <2>3 DEF user
    <2>4. CASE /\ state[t] = "opening" /\ f.number = server[t].received + 1
               /\ state' = [state EXCEPT ![t] = "ready"] /\ server' = counted
               /\ UNCHANGED <<output, down>>
      <3>1. /\ read[t] = <<>> /\ output[t] = <<>> /\ f.number = 1
        <4>1. state[t] = "opening" /\ f.number = server[t].received + 1
          BY <2>4
        <4>2. read[t] = <<>> /\ output[t] = <<>> /\ server[t].received = 0
          BY <2>1, <4>1 DEF OutputIsCounted
        <4> QED BY <4>1, <4>2
      <3>2. /\ state'[t] = "ready" /\ server'[t].received = 1
            /\ \A u \in Terminals \ {t} :
                  state'[u] = state[u] /\ server'[u].received = server[u].received
        BY <1>0, <2>1, <2>2, <2>4, <3>1
      <3>3. Len(read[t]) + Len(output[t]) + 1 = 1
        BY <3>1
      <3> QED BY <2>0, <2>4, <3>2, <3>3 DEF OutputIsCounted
    <2>5. CASE /\ state[t] = "ready" /\ f.number = server[t].received + 1
               /\ output' = [output EXCEPT ![t] = Append(@, f.number)] /\ server' = counted
               /\ UNCHANGED <<state, down>>
      <3>1. /\ read[t] \in Seq(Nat) /\ output[t] \in Seq(Nat)
            /\ Len(read[t]) \in Nat /\ Len(output[t]) \in Nat
            /\ f.number = Len(read[t]) + Len(output[t]) + 2
        <4>1. state[t] = "ready" /\ f.number = server[t].received + 1
          BY <2>5
        <4>2. server[t].received = Len(read[t]) + Len(output[t]) + 1
          BY <2>1, <4>1 DEF OutputIsCounted
        <4> QED BY <1>0, <2>1, <4>1, <4>2
      <3>2. /\ output'[t] = Append(output[t], f.number) /\ Len(output'[t]) = Len(output[t]) + 1
            /\ \A u \in Terminals \ {t} : output'[u] = output[u]
        BY <1>0, <2>1, <2>5, <3>1, Appending
      <3>3. OutputIsCounted'
        <4>1. /\ state' = state /\ server'[t].received = f.number /\ state[t] = "ready"
              /\ \A u \in Terminals \ {t} : server'[u].received = server[u].received
          BY <2>2, <2>5
        <4>2. server'[t].received = Len(read'[t]) + Len(output'[t]) + 1
          <5>1. Len(read[t]) \in Nat /\ Len(output[t]) \in Nat
            BY <3>1
          <5>2. f.number = Len(read[t]) + Len(output[t]) + 2
            BY <3>1
          <5>3. Len(output'[t]) = Len(output[t]) + 1 /\ Len(read'[t]) = Len(read[t])
            BY <2>0, <3>2
          <5> DEFINE r == Len(read[t])
                     o == Len(output[t])
          <5> HIDE DEF r, o
          <5>4. /\ r \in Nat /\ o \in Nat /\ Len(output'[t]) = o + 1 /\ Len(read'[t]) = r
                /\ server'[t].received = r + o + 2
            BY <4>1, <5>1, <5>2, <5>3 DEF r, o
          <5> QED BY <5>4
        <4> QED BY <2>0, <3>2, <4>1, <4>2 DEF OutputIsCounted
      <3>4. Consecutive(read'[t] \o output'[t])
        <4>1. read[t] \o output[t] \in Seq(Nat) /\ Len(read[t] \o output[t]) + 2 = f.number
          BY <3>1
        <4>2. read[t] \o Append(output[t], f.number) = Append(read[t] \o output[t], f.number)
          BY <2>1, <3>1, AppendingLast
        <4> QED BY <2>0, <2>1, <3>2, <4>1, <4>2, ConsecutiveGrows
      <3>5. \A u \in Terminals : Consecutive(read'[u] \o output'[u])
        BY <2>0, <3>2, <3>4
      <3> QED BY <3>3, <3>5
    <2>6. CASE \E notify \in BOOLEAN : Finish(t, notify, counted) /\ UNCHANGED output
      <3> HIDE DEF counted
      <3> QED BY <1>f, <2>0, <2>1, <2>2, <2>6 DEF user
    <2> QED BY <2>3, <2>4, <2>5, <2>6
  <1>7. CASE TerminateLocked
    <2>1. /\ state' = [t \in Terminals |-> IF Active(t) THEN "done" ELSE state[t]]
          /\ UNCHANGED <<server, user>>
      BY <1>7 DEF TerminateLocked
    <2> QED BY <1>1, <2>1
  <1>8. ASSUME NEW t \in Terminals, Start(t) \/ Input(t) \/ PrintOut(t) \/ Exit(t) \/ Canceled(t)
        PROVE  UNCHANGED <<state, server, user>>
    BY <1>8 DEF Start, Input, PrintOut, Exit, Canceled
  <1>9. ASSUME HandleOpen \/ HandleFrame \/ Break \/ CloseContainerTerminals \/ UNCHANGED vars
        PROVE  UNCHANGED <<state, server, user>>
    BY <1>9 DEF HandleOpen, HandleFrame, Break, CloseContainerTerminals, vars
  <1>10. CASE UNCHANGED <<state, server, user>>
    BY <1>1, <1>10
  <1> QED
    BY <1>2, <1>3, <1>4, <1>5, <1>6, <1>7, <1>8, <1>9, <1>10 DEF Next, Stream

-----------------------------------------------------------------------------
(* What the shell receives: InputIsCounted and the first half of           *)
(* NothingIsSkipped.                                                       *)

LEMMA NextInput ==
    ASSUME TypeOK, OpenedOnce, InputIsCounted, \A t \in Terminals : Consecutive(typed[t]),
           [Next]_vars
    PROVE  InputIsCounted' /\ \A t \in Terminals : Consecutive(typed'[t])
  <1>0. /\ shell \in [Terminals -> ShellStates] /\ client \in [Terminals -> Numbers]
        /\ inbound \in [Terminals -> Seq(Frames)] /\ typed \in [Terminals -> Seq(Nat)]
        /\ down \in Seq(Frames)
    BY DEF TypeOK
  \* A shell that starts or ends, or prints, counts its input as before.
  <1>u. ASSUME NEW u \in Terminals, client'[u].received = client[u].received,
               inbound'[u] = inbound[u], typed'[u] = typed[u], Counts(u)
        PROVE  Counts(u)'
    BY <1>u DEF Counts
  <1>1. ASSUME UNCHANGED <<inbound, typed>>,
               \A t \in Terminals : client'[t].received = client[t].received,
               \A t \in Terminals : /\ shell'[t] = "none" => shell[t] = "none"
                                    /\ shell'[t] \in {"opening", "running"} =>
                                          shell[t] \in {"opening", "running"}
        PROVE  InputIsCounted' /\ \A t \in Terminals : Consecutive(typed'[t])
    BY <1>1, <1>u DEF InputIsCounted
  <1>2. CASE HandleOpen
    <2> PICK t : t = Head(down).terminal
      OBVIOUS
    <2>1. /\ down # <<>> /\ Head(down).type = "open" /\ UNCHANGED <<inbound, typed>>
          /\ \/ UNCHANGED <<shell, client>>
             \/ /\ shell' = [shell EXCEPT ![t] = "opening"]
                /\ client' = [client EXCEPT ![t].received = 1]
      BY <1>2 DEF HandleOpen
    <2>2. CASE UNCHANGED <<shell, client>>
      BY <1>1, <2>1, <2>2
    <2>3. CASE /\ shell' = [shell EXCEPT ![t] = "opening"]
               /\ client' = [client EXCEPT ![t].received = 1]
      <3>1. Head(down) = down[1] /\ 1 \in 1 .. Len(down) /\ Head(down) \in Frames
        BY <1>0, <2>1, TakingFirst
      <3>2. shell[t] = "none" /\ t \in Terminals
        BY <2>1, <3>1 DEF OpenedOnce, Frames
      <3>3. typed[t] = <<>> /\ inbound[t] = <<>>
        BY <3>2 DEF InputIsCounted
      <3>4. /\ client'[t].received = 1 /\ shell'[t] = "opening"
            /\ \A u \in Terminals \ {t} : client'[u] = client[u] /\ shell'[u] = shell[u]
        BY <1>0, <2>3, <3>2, NumbersChange
      <3>5. /\ client'[t].received = Len(typed[t]) + Len(inbound[t]) + 1
            /\ Len(inbound[t]) = 0
        BY <3>3, <3>4
      <3>6. \A i \in 1 .. Len(inbound[t]) : inbound[t][i].number = Len(typed[t]) + i + 1
        BY <3>5
      <3>7. Counts(t)'
        BY <2>1, <3>5, <3>6 DEF Counts
      <3>8. InputIsCounted'
        BY <1>u, <2>1, <3>4, <3>7 DEF InputIsCounted
      <3> QED BY <2>1, <3>8
    <2> QED BY <2>1, <2>2, <2>3
  <1>3. CASE HandleFrame
    <2> PICK f \in Frames : LET t == f.terminal IN
             /\ down # <<>> /\ down' = Tail(down)
             /\ \/ UNCHANGED <<client, inbound>>
                \/ /\ t \in Open /\ f.number = client[t].received + 1
                   /\ Len(inbound[t]) < InboundSize
                   /\ inbound' = [inbound EXCEPT ![t] = Append(@, f)]
                   /\ client' = [client EXCEPT ![t].received = f.number]
             /\ canceled' \in SUBSET Terminals /\ link' \in {link, "stopped", "lost"}
             /\ UNCHANGED <<lock, state, server, user, shell, typed, up>>
      BY <1>3, FrameHandled
    <2> DEFINE t == f.terminal
    <2>1. t \in Terminals /\ f.number \in Nat /\ UNCHANGED <<shell, typed>>
      BY DEF Frames
    <2>2. CASE UNCHANGED <<client, inbound>>
      BY <1>1, <2>1, <2>2
    <2>3. CASE /\ t \in Open /\ f.number = client[t].received + 1
               /\ inbound' = [inbound EXCEPT ![t] = Append(@, f)]
               /\ client' = [client EXCEPT ![t].received = f.number]
      <3>1. shell[t] \in {"opening", "running"} /\ inbound[t] \in Seq(Frames)
        BY <1>0, <2>1, <2>3 DEF Open
      <3> DEFINE n == Len(inbound[t])
                 k == Len(typed[t])
      <3>2. n \in Nat /\ k \in Nat
        BY <1>0, <2>1
      <3>3. /\ f.number = k + n + 2
            /\ \A i \in 1 .. n : inbound[t][i].number = k + i + 1
        <4>1. Counts(t)
          BY <2>1, <3>1 DEF InputIsCounted
        <4>2. /\ client[t].received = k + n + 1
              /\ \A i \in 1 .. n : inbound[t][i].number = k + i + 1
          BY <4>1 DEF Counts
        <4>3. f.number = client[t].received + 1
          BY <2>3
        <4> QED BY <3>2, <4>2, <4>3
      <3>4. /\ inbound'[t] = Append(inbound[t], f) /\ client'[t].received = f.number
            /\ \A u \in Terminals \ {t} : inbound'[u] = inbound[u] /\ client'[u] = client[u]
        BY <1>0, <2>1, <2>3, NumbersChange
      <3>5. /\ Len(inbound'[t]) = n + 1 /\ inbound'[t][n + 1] = f
            /\ \A i \in 1 .. n : inbound'[t][i] = inbound[t][i]
        BY <3>1, <3>4, Appending
      <3>6. Len(typed'[t]) = k /\ shell'[t] # "none"
        BY <2>1, <3>1
      <3> HIDE DEF n, k
      <3>7. client'[t].received = Len(typed'[t]) + Len(inbound'[t]) + 1
        BY <3>2, <3>3, <3>4, <3>5, <3>6
      <3>8. \A i \in 1 .. Len(inbound'[t]) : inbound'[t][i].number = Len(typed'[t]) + i + 1
        <4> SUFFICES ASSUME NEW i \in 1 .. n + 1 PROVE inbound'[t][i].number = k + i + 1
          BY <3>5, <3>6
        <4>1. CASE i = n + 1
          BY <3>2, <3>3, <3>5, <4>1
        <4>2. CASE i \in 1 .. n
          BY <3>3, <3>5, <4>2
        <4> QED BY <3>2, <4>1, <4>2
      <3>9. InputIsCounted'
        <4>1. Counts(t)'
          BY <3>7, <3>8 DEF Counts
        <4>2. \A u \in Terminals : shell'[u] = shell[u] /\ typed'[u] = typed[u]
          BY <2>1
        <4> QED BY <1>u, <3>4, <3>6, <4>1, <4>2 DEF InputIsCounted
      <3> QED BY <2>1, <3>9
    <2> QED BY <2>2, <2>3
  <1>4. ASSUME NEW t \in Terminals, Input(t)
        PROVE  InputIsCounted' /\ \A u \in Terminals : Consecutive(typed'[u])
    <2>1. /\ shell[t] = "running" /\ inbound[t] # <<>> /\ inbound[t] \in Seq(Frames)
          /\ typed[t] \in Seq(Nat) /\ inbound' = [inbound EXCEPT ![t] = Tail(@)] /\ client' = client
          /\ \/ shell' = [shell EXCEPT ![t] = "ended"] /\ UNCHANGED typed
             \/ typed' = [typed EXCEPT ![t] = Append(@, Head(inbound[t]).number)] /\ UNCHANGED shell
      BY <1>4, <1>0 DEF Input
    <2>2. inbound'[t] = Tail(inbound[t]) /\ \A u \in Terminals \ {t} : inbound'[u] = inbound[u]
      BY <1>0, <2>1
    <2>3. CASE shell' = [shell EXCEPT ![t] = "ended"] /\ UNCHANGED typed
      <3>1. shell'[t] = "ended" /\ \A u \in Terminals \ {t} : shell'[u] = shell[u]
        BY <1>0, <2>3
      <3>2. \A u \in Terminals : client'[u] = client[u] /\ typed'[u] = typed[u]
        BY <2>1, <2>3
      <3>3. InputIsCounted'
        BY <1>u, <2>2, <3>1, <3>2 DEF InputIsCounted
      <3> QED BY <3>2, <3>3
    <2>4. CASE typed' = [typed EXCEPT ![t] = Append(@, Head(inbound[t]).number)] /\ UNCHANGED shell
      <3> DEFINE n == Len(inbound[t])
                 k == Len(typed[t])
      <3>1. /\ n \in Nat \ {0} /\ k \in Nat /\ client[t].received = k + n + 1
            /\ \A i \in 1 .. n : inbound[t][i].number = k + i + 1
        <4>1. Counts(t)
          BY <2>1 DEF InputIsCounted
        <4> QED BY <2>1, <4>1, TakingFirst DEF Counts
      <3>2. /\ Head(inbound[t]) = inbound[t][1] /\ Len(inbound'[t]) = n - 1
            /\ \A i \in 1 .. n - 1 : inbound'[t][i] = inbound[t][i + 1]
        <4>1. /\ Head(inbound[t]) = inbound[t][1] /\ Len(Tail(inbound[t])) = n - 1
              /\ \A i \in 1 .. Len(Tail(inbound[t])) : Tail(inbound[t])[i] = inbound[t][i + 1]
          BY <2>1, TakingFirst
        <4> QED BY <2>2, <4>1
      <3> HIDE DEF n
      <3>3. Head(inbound[t]).number = k + 2
        BY <3>1, <3>2
      <3>4. typed'[t] = Append(typed[t], k + 2) /\ \A u \in Terminals \ {t} : typed'[u] = typed[u]
        BY <1>0, <2>4, <3>3
      <3>5. Len(typed'[t]) = k + 1
        BY <2>1, <3>1, <3>4, Appending
      <3>6. Consecutive(typed'[t])
        BY <2>1, <3>4, ConsecutiveGrows
      <3> HIDE DEF k
      <3>7. client'[t].received = Len(typed'[t]) + Len(inbound'[t]) + 1
        <4>1. client'[t].received = k + n + 1 /\ n \in Nat \ {0} /\ k \in Nat
          BY <2>1, <3>1
        <4> QED BY <3>2, <3>5, <4>1
      <3>8. ASSUME NEW i \in 1 .. Len(inbound'[t])
            PROVE  inbound'[t][i].number = Len(typed'[t]) + i + 1
        <4>1. i \in 1 .. n - 1 /\ i + 1 \in 1 .. n
          BY <3>1, <3>2
        <4>2. inbound'[t][i].number = k + (i + 1) + 1
          BY <3>1, <3>2, <4>1
        <4> QED BY <3>1, <3>5, <4>1, <4>2
      <3>9. InputIsCounted'
        <4>1. Counts(t)'
          BY <3>7, <3>8 DEF Counts
        <4>2. /\ \A u \in Terminals : shell'[u] = shell[u] /\ client'[u] = client[u]
              /\ shell[t] # "none"
          BY <2>1, <2>4
        <4> QED BY <1>u, <2>2, <3>4, <4>1, <4>2 DEF InputIsCounted
      <3> QED BY <3>4, <3>6, <3>9
    <2> QED BY <2>1, <2>3, <2>4
  <1>5. ASSUME NEW t \in Terminals, Start(t) \/ PrintOut(t) \/ Exit(t)
        PROVE  InputIsCounted' /\ \A u \in Terminals : Consecutive(typed'[u])
    <2>1. /\ shell[t] \in {"opening", "running"} /\ UNCHANGED <<inbound, typed>>
          /\ \E st \in {"running", "ended"} : shell' = [shell EXCEPT ![t] = st]
      BY <1>5, <1>0 DEF Start, PrintOut, Exit
    <2>2. client' = [client EXCEPT ![t].sent = 1] \/ client' = [client EXCEPT ![t].sent = @ + 1]
      BY <1>5 DEF Start, PrintOut, Exit
    <2>3. \A u \in Terminals : client'[u].received = client[u].received
      <3>1. CASE client' = [client EXCEPT ![t].sent = 1]
        BY <1>0, <3>1 DEF Numbers
      <3>2. CASE client' = [client EXCEPT ![t].sent = @ + 1]
        BY <1>0, <3>2 DEF Numbers
      <3> QED BY <2>2, <3>1, <3>2
    <2> QED BY <1>0, <1>1, <2>1, <2>3
  <1>6. ASSUME NEW t \in Terminals, Canceled(t)
        PROVE  InputIsCounted' /\ \A u \in Terminals : Consecutive(typed'[u])
    <2>1. /\ shell[t] # "none" /\ shell' = [shell EXCEPT ![t] = "ended"]
          /\ UNCHANGED <<client, inbound, typed>>
      BY <1>6 DEF Canceled, Open
    <2> QED BY <1>0, <1>1, <2>1
  <1>7. ASSUME NEW t \in Terminals, OpenTerminal(t) \/ Write(t) \/ CloseTerminal(t) \/ Read(t)
        PROVE  UNCHANGED <<shell, client, inbound, typed>>
    BY <1>7 DEF OpenTerminal, Write, CloseTerminal, Read, agent
  <1>8. ASSUME \/ WriteFails \/ CompleteTerminalFrame \/ Break \/ TerminateLocked
               \/ CloseContainerTerminals \/ UNCHANGED vars
        PROVE  UNCHANGED <<shell, client, inbound, typed>>
    BY <1>8 DEF WriteFails, CompleteTerminalFrame, Break, TerminateLocked,
                CloseContainerTerminals, vars, agent
  <1>9. CASE UNCHANGED <<shell, client, inbound, typed>>
    BY <1>1, <1>9
  <1> QED
    BY <1>2, <1>3, <1>4, <1>5, <1>6, <1>7, <1>8, <1>9 DEF Next, Stream
-----------------------------------------------------------------------------
(* The invariants                                                          *)

LEMMA InitIInv == ASSUME Init PROVE IInv
  <1>1. \A t \in Terminals : /\ state[t] = "new" /\ shell[t] = "none" /\ server[t].received = 0
                             /\ output[t] = <<>> /\ read[t] = <<>> /\ inbound[t] = <<>>
                             /\ typed[t] = <<>>
    BY DEF Init
  <1>2. TypeOK
    <2>1. /\ <<>> \in Seq(Nat) /\ <<>> \in Seq(Frames) /\ Len(<<>>) = 0
          /\ [sent |-> 0, received |-> 0] \in Numbers
      BY DEF Numbers
    <2> QED BY <1>1, <2>1, TerminalAssumption DEF Init, TypeOK, States, ShellStates
  <1>3. OpenedOnce
    <2>1. Len(down) = 0
      BY DEF Init
    <2> QED BY <1>1, <2>1 DEF OpenedOnce
  <1>4. OutputIsCounted /\ InputIsCounted
    BY <1>1 DEF OutputIsCounted, InputIsCounted
  <1>5. NothingIsSkipped
    <2>1. ASSUME NEW t \in Terminals PROVE typed[t] = <<>> /\ read[t] \o output[t] = <<>>
      BY <1>1
    <2>2. Consecutive(<<>>)
      BY DEF Consecutive
    <2> QED BY <2>1, <2>2 DEF NothingIsSkipped
  <1> QED BY <1>2, <1>3, <1>4, <1>5 DEF IInv

THEOREM Invariance == Spec => []IInv
  <1>1. IInv /\ [Next]_vars => IInv'
    BY NextType, NextOpened, NextOutput, NextInput DEF IInv, NothingIsSkipped
  <1> QED BY <1>1, InitIInv, PTL DEF Spec

\* No buffer of the Server's registry or of the Agent's client holds more than
\* its size, and every frame in them is one of a known terminal.
THEOREM TypeCorrect == Spec => []TypeOK
  BY Invariance, PTL DEF IInv

\* Backpressure, cut connections and terminals that end at any point never
\* leave a gap in what the shell receives or the user reads.
THEOREM NothingIsSkippedHolds == Spec => []NothingIsSkipped
  BY Invariance, PTL DEF IInv
=============================================================================
