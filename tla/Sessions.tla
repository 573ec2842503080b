------------------------------- MODULE Sessions -------------------------------
(***************************************************************************)
(* Terminal sessions (internal/modules/terminal): the record that is       *)
(* created with a one-time ticket and a concurrency slot, the WSS handlers *)
(* that consume the ticket, open a stream on the host, review the          *)
(* permission while bytes flow and record the end, users who terminate     *)
(* sessions, and the convergence that closes the sessions of a retiring    *)
(* resource.  What carries the bytes is module AgentTerminals.             *)
(*                                                                         *)
(* Every write of a record compares its version; the handlers run in       *)
(* several Servers, which share nothing but the records.                   *)
(***************************************************************************)
EXTENDS Integers, FiniteSets

CONSTANTS
    Sessions,    \* terminal sessions, in the order of their creation
    Handlers,    \* WSS connections, on any Server
    Slots,       \* MaximumPerUser, MaximumPerTarget: concurrency slots
    Kinds        \* "container", "host"

VARIABLES
    session,     \* terminal_sessions
    creating,    \* the request that creates each session
    handler,     \* the WSS handlers
    terminator,  \* a request that terminates a session
    retirement,  \* the pass that closes the sessions of a retiring resource
    parent,      \* application and environment of the container sessions
    allowed,     \* login session, role and policy allow the terminal
    reachable    \* the Deployment is current, its target ready, its host online

sessionsVars ==
    <<session, creating, handler, terminator, retirement, parent, allowed, reachable>>
environment == <<parent, allowed, reachable>>

NoSession == [status |-> "none", kind |-> "host", version |-> 0, slot |-> 0, ticket |-> "none"]
NoHandler == [pc |-> "none", session |-> 0, version |-> 0, armed |-> FALSE, outcome |-> "none"]
NoRequest == [pc |-> "idle", session |-> 0, version |-> 0]
NoPass == [pc |-> "idle", todo |-> {}, seen |-> {}, pending |-> FALSE]

\* SessionStatus.Active, which the partial unique indexes follow.
ActiveStatus == {"pending", "open", "closing"}
Active(s) == session[s].status \in ActiveStatus
FreeSlots == Slots \ {session[s].slot : s \in {t \in Sessions : Active(t)}}

SessionsInit ==
    /\ session = [s \in Sessions |-> NoSession]
    /\ creating = [s \in Sessions |-> "none"]
    /\ handler = [h \in Handlers |-> NoHandler]
    /\ terminator = NoRequest /\ retirement = NoPass
    /\ parent = "active" /\ allowed = TRUE /\ reachable = TRUE

-----------------------------------------------------------------------------
(* The record: TerminalSession                                             *)

\* SaveSession: a replacement under the version that was read.
CanSave(s, version) == session[s].version = version
Saved(s, status) ==
    [session EXCEPT ![s].status = status, ![s].version = @ + 1, ![s].ticket = "none"]

\* RequestTermination: a pending session ends at once, an open one is closing
\* until its handler has ended.
RequestTermination(s) == IF session[s].status = "pending" THEN "closed" ELSE "closing"

\* Close, with or without a safe error code.
Close(failed) == IF failed THEN "failed" ELSE "closed"

-----------------------------------------------------------------------------
(* Creating a session                                                      *)

\* CreateContainerSession, CreateHostSession: target, policy and role.
ResolveContainer == reachable /\ parent = "active"
AuthorizeCreation(s) ==
    /\ creating[s] = "none" /\ \A t \in Sessions : t < s => creating[t] # "none"
    /\ allowed /\ reachable
    /\ \E kind \in Kinds :
           /\ kind = "container" => ResolveContainer
           /\ creating' = [creating EXCEPT ![s] = kind]
    /\ UNCHANGED <<session, handler, terminator, retirement, environment>>

\* Mistake: the transaction does not look at the parents.
FenceNothing(kind) == TRUE

\* CreateContainerSession of the repository: both parents are written in the
\* transaction, so that it cannot commit after a retirement that it did not see.
FenceParents(kind) == kind = "container" => parent = "active"

\* createSession: the first free slot, or the limit is reached.
CreateSession(s) ==
    /\ creating[s] \in Kinds
    /\ \/ \E slot \in FreeSlots :
              /\ FenceParents(creating[s]) /\ \A other \in FreeSlots : slot <= other
              /\ session' = [session EXCEPT ![s] =
                     [status |-> "pending", kind |-> creating[s], version |-> 1,
                      slot |-> slot, ticket |-> "valid"]]
       \/ (FreeSlots = {} \/ ~FenceParents(creating[s])) /\ UNCHANGED session
    /\ creating' = [creating EXCEPT ![s] = "done"]
    /\ UNCHANGED <<handler, terminator, retirement, environment>>

TicketExpires(s) ==
    /\ session[s].ticket = "valid" /\ session' = [session EXCEPT ![s].ticket = "expired"]
    /\ UNCHANGED <<creating, handler, terminator, retirement, environment>>

-----------------------------------------------------------------------------
(* The WSS handler                                                         *)

Handles(h, record) == handler' = [handler EXCEPT ![h] = record]
HandlerTo(h, pc) == Handles(h, [handler[h] EXCEPT !.pc = pc])
Streams(h) == handler[h].pc = "streaming"

\* authorizeConnect: everything that was checked at the creation once more.
AuthorizeConnect(s) ==
    allowed /\ reachable /\ (session[s].kind = "container" => parent = "active")

\* ServeHTTP and ConnectWithTicket, up to the consumption.
ConnectWithTicket(h, s) ==
    /\ handler[h].pc = "none" /\ session[s].status = "pending"
    /\ AuthorizeConnect(s)
    /\ Handles(h, [NoHandler EXCEPT !.pc = "authorized", !.session = s])
    /\ UNCHANGED <<session, creating, terminator, retirement, environment>>

\* Mistake: the hash of the ticket is not deleted by its use.
ConsumableByHash(s) == session[s].status \in {"pending", "open"}

\* ConsumeTicket: status, hash and deadlines in the filter of one update.
Consumable(s) == session[s].status = "pending" /\ session[s].ticket = "valid"

ConsumeTicket(h) ==
    LET s == handler[h].session IN
    /\ handler[h].pc = "authorized"
    /\ \/ /\ Consumable(s)
          /\ session' = Saved(s, "open")
          /\ Handles(h, [handler[h] EXCEPT !.pc = "consumed", !.version = session[s].version + 1])
       \/ ~Consumable(s) /\ HandlerTo(h, "done") /\ UNCHANGED session
    /\ UNCHANGED <<creating, terminator, retirement, environment>>

\* Connect: the target is resolved once more and the gateway opens the stream.
OpenStream(h) ==
    /\ handler[h].pc = "consumed" /\ AuthorizeConnect(handler[h].session)
    /\ HandlerTo(h, "streaming")
    /\ UNCHANGED <<session, creating, terminator, retirement, environment>>

\* failConnectedSession: under the version of the consumption; a conflict is
\* returned to a caller that only reports it.
FailConnectedSession(h) ==
    LET s == handler[h].session IN
    /\ handler[h].pc = "consumed"
    /\ session' = IF CanSave(s, handler[h].version) THEN Saved(s, Close(TRUE)) ELSE session
    /\ HandlerTo(h, "done")
    /\ UNCHANGED <<creating, terminator, retirement, environment>>

\* The end of bridge: the stream is closed first, then the record.
Ends(h, outcome) ==
    Handles(h, [handler[h] EXCEPT !.pc = "ended", !.armed = FALSE, !.outcome = outcome])

\* Mistake: the record is not reviewed.
ReviewPermission(h) == IF allowed THEN "none" ELSE "revoked"

\* ReviewConnectedSession: what a review finds.
ReviewConnectedSession(h) ==
    LET s == handler[h].session IN
    IF session[s].status # "open" THEN "terminate"
    ELSE IF ~allowed THEN "revoked"
    ELSE IF AuthorizeConnect(s) THEN "none" ELSE "terminate"

\* bridge, its review ticker: a revocation arms one timer for the grace
\* period, or ends the stream where there is none; a review without objection
\* stops the timer.
Review(h) ==
    /\ Streams(h)
    /\ \/ /\ ReviewConnectedSession(h) = "terminate" /\ Ends(h, "closed")
       \/ /\ ReviewConnectedSession(h) = "revoked" /\ ~handler[h].armed
          /\ Handles(h, [handler[h] EXCEPT !.armed = TRUE])
       \/ /\ ReviewConnectedSession(h) = "none" /\ handler[h].armed
          /\ Handles(h, [handler[h] EXCEPT !.armed = FALSE])
    /\ UNCHANGED <<session, creating, terminator, retirement, environment>>

GracePeriodElapses(h) ==
    /\ Streams(h) /\ handler[h].armed /\ Ends(h, "closed")
    /\ UNCHANGED <<session, creating, terminator, retirement, environment>>

\* bridge, the rest: the user closes, the idle or the maximum time is over,
\* or client, stream or review fails (readClient, writeOutput).
BridgeEnds(h) ==
    /\ Streams(h) /\ \E outcome \in {"closed", "failed"} : Ends(h, outcome)
    /\ UNCHANGED <<session, creating, terminator, retirement, environment>>

\* CloseConnectedSession: the record is read ...
CloseRead(h) ==
    LET s == handler[h].session IN
    /\ handler[h].pc = "ended"
    /\ Handles(h, [handler[h] EXCEPT !.pc = IF Active(s) THEN "closing" ELSE "done",
                                     !.version = session[s].version])
    /\ UNCHANGED <<session, creating, terminator, retirement, environment>>

\* ... and saved; closeSession drops the error of a conflict.
CloseSave(h) ==
    LET s == handler[h].session IN
    /\ handler[h].pc = "closing"
    /\ session' = IF CanSave(s, handler[h].version)
                  THEN Saved(s, Close(handler[h].outcome = "failed")) ELSE session
    /\ HandlerTo(h, "done")
    /\ UNCHANGED <<creating, terminator, retirement, environment>>

\* A Server stops: its streams end and nothing more is recorded.
ServerStops(h) ==
    /\ handler[h].pc \notin {"none", "done"} /\ HandlerTo(h, "done")
    /\ UNCHANGED <<session, creating, terminator, retirement, environment>>

-----------------------------------------------------------------------------
(* Termination and retirement                                              *)

TerminateRead(s) ==
    /\ terminator.pc = "idle" /\ Active(s) /\ session[s].status # "closing"
    /\ terminator' = [pc |-> "read", session |-> s, version |-> session[s].version]
    /\ UNCHANGED <<session, creating, handler, retirement, environment>>
TerminateSession ==
    LET s == terminator.session IN
    /\ terminator.pc = "read" /\ terminator' = NoRequest
    /\ session' = IF ~CanSave(s, terminator.version) THEN session
                  ELSE IF session[s].status = "pending" THEN Saved(s, RequestTermination(s))
                  ELSE [session EXCEPT ![s].status = "closing", ![s].version = @ + 1]
    /\ UNCHANGED <<creating, handler, retirement, environment>>

BeginRetirement ==
    /\ parent = "active" /\ parent' = "retiring"
    /\ UNCHANGED <<session, creating, handler, terminator, retirement, allowed, reachable>>

\* ListActiveSessionsForProductResource.
ListActiveSessions ==
    /\ parent = "retiring" /\ retirement.pc = "idle"
    /\ LET todo == {s \in Sessions : Active(s) /\ session[s].kind = "container"}
       IN  retirement' = [pc |-> "pass", todo |-> todo, pending |-> FALSE,
                          seen |-> {<<s, session[s].version>> : s \in todo}]
    /\ UNCHANGED <<session, creating, handler, terminator, environment>>

\* closeRetirementSessions: a conflict leaves the session to the next pass.
CloseRetirementSession(s) ==
    LET current == CanSave(s, CHOOSE v \in {p[2] : p \in {q \in retirement.seen : q[1] = s}} : TRUE) IN
    /\ s \in retirement.todo
    /\ session' = IF current THEN Saved(s, Close(FALSE)) ELSE session
    /\ retirement' = [retirement EXCEPT !.todo = @ \ {s}, !.pending = @ \/ ~current]
    /\ UNCHANGED <<creating, handler, terminator, environment>>
FinishPass ==
    /\ retirement.pc = "pass" /\ retirement.todo = {} /\ retirement' = NoPass
    /\ parent' = IF retirement.pending THEN parent ELSE "retired"
    /\ UNCHANGED <<session, creating, handler, terminator, allowed, reachable>>

-----------------------------------------------------------------------------
(* The environment                                                         *)

PermissionChanges ==
    /\ allowed' = ~allowed
    /\ UNCHANGED <<session, creating, handler, terminator, retirement, parent, reachable>>
TargetChanges ==
    /\ reachable' = ~reachable
    /\ UNCHANGED <<session, creating, handler, terminator, retirement, parent, allowed>>

Serve(h) ==
    \/ ConsumeTicket(h) \/ OpenStream(h) \/ FailConnectedSession(h)
    \/ Review(h) \/ CloseRead(h) \/ CloseSave(h)
Converge ==
    \/ ListActiveSessions \/ FinishPass \/ \E s \in Sessions : CloseRetirementSession(s)
SessionsNext ==
    \/ \E s \in Sessions : AuthorizeCreation(s) \/ CreateSession(s) \/ TicketExpires(s)
    \/ \E h \in Handlers, s \in Sessions : ConnectWithTicket(h, s)
    \/ \E h \in Handlers : Serve(h) \/ GracePeriodElapses(h) \/ BridgeEnds(h) \/ ServerStops(h)
    \/ (\E s \in Sessions : TerminateRead(s)) \/ TerminateSession
    \/ BeginRetirement \/ Converge \/ PermissionChanges \/ TargetChanges
SessionsSafety == SessionsInit /\ [][SessionsNext]_sessionsVars

\* A handler goes on, reviews are periodic, the timer of the grace period
\* elapses, a ticket has a deadline and the retirement is retried.  Nothing is
\* assumed of the user, who may keep a stream open.
SessionsFairness ==
    /\ \A h \in Handlers : WF_sessionsVars(Serve(h)) /\ WF_sessionsVars(GracePeriodElapses(h))
    /\ \A s \in Sessions : WF_sessionsVars(TicketExpires(s))
    /\ WF_sessionsVars(TerminateSession) /\ WF_sessionsVars(Converge)
SessionsSpec == SessionsSafety /\ SessionsFairness

-----------------------------------------------------------------------------
(* Properties                                                              *)

SessionsTypeOK ==
    /\ \A s \in Sessions :
           /\ session[s].status \in {"none"} \cup ActiveStatus \cup {"closed", "failed"}
           /\ session[s].ticket # "none" => session[s].status = "pending"
           /\ Active(s) => session[s].slot \in Slots
    /\ parent \in {"active", "retiring", "retired"}

\* A ticket opens one stream, on whichever Server it is presented
\* (ConsumeTicket).
OneStreamPerTicket ==
    \A h, g \in Handlers : h # g /\ handler[h].session = handler[g].session =>
        ~(handler[h].pc \in {"consumed", "streaming"} /\ handler[g].pc \in {"consumed", "streaming"})

\* An Application or Environment that has retired leaves no container session,
\* also not one that was being created meanwhile (CreateContainerSession,
\* closeRetirementSessions).
RetiredHasNoSession ==
    parent = "retired" => \A s \in Sessions : session[s].kind = "container" => ~Active(s)

\* A stream whose session was ended elsewhere, or whose target is gone, is cut
\* (bridge, ReviewConnectedSession); one whose permission is revoked as well,
\* unless it is granted again.
StreamIsCut ==
    \A h \in Handlers :
        Streams(h) /\ (session[handler[h].session].status # "open" \/ ~allowed)
            ~> ~Streams(h) \/ (session[handler[h].session].status = "open" /\ allowed)

\* docs/terminal-sessions.md:198: a pending session whose ticket has expired
\* is expired, so that it does not keep its concurrency slot (createSession).
SlotIsReleased == \A s \in Sessions : session[s].ticket = "expired" ~> ~Active(s)
=============================================================================
