--------------------------------- MODULE Hosts ---------------------------------
(***************************************************************************)
(* The identity of one Agent host: enrollments, the certificate that the   *)
(* Server issues for one and its rotation (internal/modules/managedhost),  *)
(* with what the Agent keeps on disk (internal/agent/enrollment and        *)
(* internal/agent/control).                                                *)
(*                                                                         *)
(* The requests of the Agent are numbered.  A request's number also names  *)
(* what is made for it: the private key, the identity and the certificate. *)
(* The Agent may give up waiting for an answer at any time: the Server     *)
(* serves the request nevertheless.                                        *)
(***************************************************************************)
EXTENDS Integers, FiniteSets

CONSTANTS
    Calls,          \* numbers 1 .. n of the requests that the Agent sends
    Enrollments,    \* enrollments, each with its token
    TokenTTL,       \* how long a token is valid
    RecoveryWindow, \* how long the answer to an exchange is kept
    Life,           \* how long a certificate is valid
    Grace,          \* how long the certificate before it connects
    RenewBefore,    \* how long before its end a certificate is replaced
    LateRotations,  \* whether a rotation request may be served after a later one was sent
    MaxTime         \* bound of the clock

VARIABLES
    host,       \* managed_hosts: the status and the Agent identity of the host
    enrollment, \* agent_enrollments
    identity,   \* agent_identities
    call,       \* the requests, as the Server sees them
    hello,      \* the hello of the control connection
    disk,       \* the Agent's files
    installer,  \* owndock-agentctl enroll: its step, and the request it waits for
    agent,      \* the Agent's process: its step, and the request it waits for
    clock

hostsVars == <<host, enrollment, identity, call, hello, disk, installer, agent, clock>>

NoCertificate == [serial |-> 0, key |-> 0, identity |-> 0, expires |-> 0]
NoEnrollment == [status |-> "none", expires |-> 0, key |-> 0, certificate |-> NoCertificate, until |-> 0]
NoIdentity == [current |-> NoCertificate, previous |-> NoCertificate, until |-> 0,
               pending |-> 0, revoked |-> FALSE]
NoCall == [pc |-> "new", kind |-> "none", token |-> "none", key |-> 0, presented |-> NoCertificate,
           now |-> 0, answer |-> NoCertificate]
NoHello == [pc |-> "none", presented |-> NoCertificate]
Idle == [pc |-> "off", call |-> 0]

HostsInit ==
    /\ host = [status |-> "pending", identity |-> 0]
    /\ enrollment = [t \in Enrollments |-> NoEnrollment]
    /\ identity = [i \in Calls |-> NoIdentity]
    /\ call = [c \in Calls |-> NoCall] /\ hello = NoHello
    /\ disk = [phase |-> "none", key |-> 0, received |-> NoCertificate,
               bundle |-> NoCertificate, config |-> FALSE, rotation |-> 0]
    /\ installer = Idle /\ agent = Idle /\ clock = 1

files == <<disk, installer, agent>>
database == <<host, enrollment, identity>>

Issued(c, i) == [serial |-> c, key |-> call[c].key, identity |-> i, expires |-> clock + Life]
Min2(a, b) == IF a < b THEN a ELSE b
Answer(c, pc, certificate) ==
    call' = [call EXCEPT ![c].pc = pc, ![c].answer = certificate, ![c].now = clock]

-----------------------------------------------------------------------------
(* The owner                                                               *)

\* CreateEnrollment reads the host before its transaction ...
BeginEnrollment(t) ==
    /\ enrollment[t].status = "none" /\ host.status # "disabled" /\ host.identity = 0
    /\ enrollment' = [enrollment EXCEPT ![t].status = "creating"]
    /\ UNCHANGED <<host, identity, call, hello, files, clock>>

Expired(e) == IF e.status = "open" /\ e.expires > clock THEN [e EXCEPT !.expires = clock] ELSE e

\* ... which ends the earlier enrollments of the host and inserts this one.
CreateEnrollment(t) ==
    /\ enrollment[t].status = "creating"
    /\ enrollment' = [u \in Enrollments |->
           IF u = t THEN [NoEnrollment EXCEPT !.status = "open", !.expires = clock + TokenTTL]
           ELSE Expired(enrollment[u])]
    /\ UNCHANGED <<host, identity, call, hello, files, clock>>

Revoked(i) == IF i = 0 THEN identity ELSE [identity EXCEPT ![i].revoked = TRUE]

\* Disable: the host, its identity and its open enrollments, in one transaction.
Disable ==
    /\ host.status # "disabled"
    /\ host' = [host EXCEPT !.status = "disabled"]
    /\ identity' = Revoked(host.identity)
    /\ enrollment' = [t \in Enrollments |-> Expired(enrollment[t])]
    /\ UNCHANGED <<call, hello, files, clock>>

-----------------------------------------------------------------------------
(* The Server serves an exchange                                           *)

\* RecoverAgentEnrollment: the answer that was given to the same request.
Recoverable(t, key) ==
    LET e == enrollment[t] IN
    /\ e.status = "consumed" /\ e.key = key /\ e.until > clock
    /\ identity[e.certificate.identity].current = e.certificate
    /\ e.certificate.expires > clock /\ ~identity[e.certificate.identity].revoked

\* ExchangeEnrollment: an answer to repeat, or an enrollment that is available.
Exchange(c) ==
    LET t == call[c].token IN
    /\ call[c].pc = "sent" /\ call[c].kind = "exchange"
    /\ \/ Recoverable(t, call[c].key) /\ Answer(c, "answered", enrollment[t].certificate)
       \/ /\ ~Recoverable(t, call[c].key)
          /\ IF enrollment[t].status = "open" /\ enrollment[t].expires > clock
             THEN Answer(c, "found", Issued(c, c)) ELSE Answer(c, "refused", NoCertificate)
    /\ UNCHANGED <<database, hello, files, clock>>

\* Mistake: a host that is disabled, or has an identity, is activated.
HostCanActivateAgain == TRUE

HostCanActivate == host.status # "disabled" /\ host.identity = 0

\* ActivateAgentRecoverable: consume the enrollment, insert the identity, set
\* it in the host; one transaction, or else an answer to repeat once more.
ActivateAgent(c) ==
    LET t == call[c].token
        issued == call[c].answer IN
    /\ call[c].pc = "found" /\ call[c].kind = "exchange"
    /\ IF enrollment[t].status = "open" /\ enrollment[t].expires > call[c].now /\ HostCanActivate
       THEN /\ enrollment' = [enrollment EXCEPT ![t] =
                   [status |-> "consumed", expires |-> call[c].now + RecoveryWindow,
                    key |-> call[c].key, certificate |-> issued,
                    until |-> call[c].now + RecoveryWindow]]
            /\ identity' = [identity EXCEPT ![c].current = issued]
            /\ host' = [status |-> "offline", identity |-> c]
            /\ call' = [call EXCEPT ![c].pc = "answered"]
       ELSE /\ IF Recoverable(t, call[c].key) THEN Answer(c, "answered", enrollment[t].certificate)
               ELSE Answer(c, "refused", NoCertificate)
            /\ UNCHANGED database
    /\ UNCHANGED <<hello, files, clock>>

-----------------------------------------------------------------------------
(* The Server serves a rotation and a hello                                *)

IsCurrent(p) == identity[p.identity].current = p /\ p.expires > clock
IsPrevious(p) == identity[p.identity].previous = p /\ p.expires > clock
InGrace(p) == IsPrevious(p) /\ identity[p.identity].until > clock
IsActive(p) == p.identity # 0 /\ ~identity[p.identity].revoked

\* AuthenticateAgentCertificateRotation: past its grace the certificate before
\* the current one may only repeat the rotation that replaced it.
MayRotate(p, key) ==
    /\ IsActive(p)
    /\ IsCurrent(p) \/ InGrace(p) \/ (IsPrevious(p) /\ identity[p.identity].pending = key)

InTime(c) == LateRotations \/ \A d \in Calls : d > c => call[d].pc = "new"

AuthenticateRotation(c) ==
    LET p == call[c].presented IN
    /\ InTime(c) /\ call[c].pc = "sent" /\ call[c].kind = "rotate"
    /\ IF MayRotate(p, call[c].key) THEN Answer(c, "found", Issued(c, p.identity))
       ELSE Answer(c, "refused", NoCertificate)
    /\ UNCHANGED <<database, hello, files, clock>>

\* RotateAgentCertificate: a pending rotation answers the same request and
\* refuses another one; only the current certificate can be replaced.
RotateAgentCertificate(c) ==
    LET p == call[c].presented
        i == identity[p.identity] IN
    /\ InTime(c) /\ call[c].pc = "found" /\ call[c].kind = "rotate"
    /\ IF ~MayRotate(p, call[c].key) \/ (i.pending \notin {0, call[c].key})
       THEN Answer(c, "refused", NoCertificate) /\ UNCHANGED identity
       ELSE IF i.pending = call[c].key THEN Answer(c, "answered", i.current) /\ UNCHANGED identity
       ELSE IF ~IsCurrent(p) \/ host.status = "disabled"
            THEN Answer(c, "refused", NoCertificate) /\ UNCHANGED identity
       ELSE /\ identity' = [identity EXCEPT ![p.identity] =
                   [@ EXCEPT !.previous = p, !.until = Min2(call[c].now + Grace, p.expires),
                             !.current = call[c].answer, !.pending = call[c].key]]
            /\ call' = [call EXCEPT ![c].pc = "answered"]
    /\ UNCHANGED <<host, enrollment, hello, files, clock>>

\* OpenAgentSession authenticates the certificate ...
AuthenticateAgent ==
    LET p == hello.presented IN
    /\ hello.pc = "sent"
    /\ hello' = IF IsActive(p) /\ (IsCurrent(p) \/ InGrace(p)) THEN [hello EXCEPT !.pc = "accepted"]
                ELSE [hello EXCEPT !.pc = "refused"]
    /\ UNCHANGED <<database, call, files, clock>>

\* Mistake: a hello with any active certificate ends the one before.
ConfirmedByAny(p) ==
    IF IsActive(p) /\ identity[p.identity].pending # 0
    THEN [identity EXCEPT ![p.identity] =
             [@ EXCEPT !.previous = NoCertificate, !.until = 0, !.pending = 0]]
    ELSE identity

Confirmed(p) ==
    IF IsActive(p) /\ IsCurrent(p) /\ identity[p.identity].pending # 0
    THEN [identity EXCEPT ![p.identity] =
             [@ EXCEPT !.previous = NoCertificate, !.until = 0, !.pending = 0]]
    ELSE identity

HostCanConnect(p) == host.identity = p.identity /\ host.status # "disabled"

\* ... and in one transaction confirms it and connects the host: a hello with
\* the new certificate ends the one before it.
ConfirmAndConnect ==
    /\ hello.pc = "accepted"
    /\ IF HostCanConnect(hello.presented)
       THEN /\ host' = [host EXCEPT !.status = "online"] /\ identity' = Confirmed(hello.presented)
            /\ hello' = [hello EXCEPT !.pc = "open"]
       ELSE UNCHANGED <<host, identity>> /\ hello' = [hello EXCEPT !.pc = "refused"]
    /\ UNCHANGED <<enrollment, call, files, clock>>

-----------------------------------------------------------------------------
(* The Agent enrolls                                                       *)

\* Requests are numbered in the order in which they are sent.
Unsent(c) == call[c].pc = "new" /\ \A d \in 1 .. c - 1 : call[d].pc # "new"
Send(c, request) == call' = [call EXCEPT ![c] = request]
\* Mistake: every attempt makes a key of its own.
FreshKey(c) == c

PendingKey(c) == IF disk.phase = "request" THEN disk.key ELSE c

\* Provision: the private key and the request are on disk before it is sent,
\* and the same request is sent again when its answer did not arrive.
Provision(c, t) ==
    /\ installer.pc = "off" /\ disk.phase # "response" /\ ~disk.config
    /\ Unsent(c) /\ enrollment[t].status \notin {"none", "creating"}
    /\ disk' = [disk EXCEPT !.phase = "request", !.key = PendingKey(c)]
    /\ Send(c, [NoCall EXCEPT !.pc = "sent", !.kind = "exchange", !.token = t, !.key = PendingKey(c)])
    /\ installer' = [pc |-> "waiting", call |-> c]
    /\ UNCHANGED <<database, hello, agent, clock>>

\* The answer is validated against the key and written before it is installed.
SaveCredentials ==
    LET c == installer.call IN
    /\ installer.pc = "waiting" /\ call[c].pc \in {"answered", "refused"}
    /\ IF call[c].pc = "answered" /\ call[c].answer.key = disk.key /\ call[c].answer.expires > clock
       THEN /\ disk' = [disk EXCEPT !.phase = "response", !.received = call[c].answer]
            /\ installer' = [pc |-> "identity", call |-> 0]
       ELSE installer' = Idle /\ UNCHANGED disk
    /\ UNCHANGED <<database, call, hello, agent, clock>>

\* Recover: what was received is installed by a later run of the installer,
\* which the operator starts before the Agent has rotated that certificate.
Recover ==
    /\ installer.pc = "off" /\ disk.phase = "response"
    /\ agent.pc = "off" /\ disk.bundle \in {NoCertificate, disk.received}
    /\ installer' = [pc |-> "identity", call |-> 0]
    /\ UNCHANGED <<database, call, hello, disk, agent, clock>>

\* installPending: the identity, then the configuration, which lets the Agent
\* start, and then the pending file.
InstallPending ==
    /\ \/ /\ installer.pc = "identity" /\ disk.received.expires > clock
          /\ disk' = [disk EXCEPT !.bundle = disk.received]
          /\ installer' = [installer EXCEPT !.pc = "config"]
       \/ /\ installer.pc = "identity" /\ disk.received.expires <= clock
          /\ installer' = Idle /\ UNCHANGED disk
       \/ /\ installer.pc = "config" /\ disk' = [disk EXCEPT !.config = TRUE]
          /\ installer' = [installer EXCEPT !.pc = "remove"]
       \/ /\ installer.pc = "remove" /\ disk' = [disk EXCEPT !.phase = "none"]
          /\ installer' = Idle
    /\ UNCHANGED <<database, call, hello, agent, clock>>

InstallerStops ==
    /\ installer.pc # "off" /\ installer' = Idle
    /\ UNCHANGED <<database, call, hello, disk, agent, clock>>

-----------------------------------------------------------------------------
(* The Agent rotates its certificate                                       *)

\* The process starts once it is configured; it repeats a pending rotation
\* before it connects (RecoverPending).
StartAgent ==
    /\ agent.pc = "off" /\ installer.pc = "off" /\ disk.config /\ disk.bundle.expires > clock
    /\ agent' = [pc |-> IF disk.rotation # 0 THEN "recovering" ELSE "running", call |-> 0]
    /\ hello' = NoHello
    /\ UNCHANGED <<database, call, disk, installer, clock>>

RotationKey(c) == IF disk.rotation # 0 THEN disk.rotation ELSE c

\* RotateNow: a pending rotation is repeated, else a new one is on disk before
\* it is sent.
RotateNow(c) ==
    /\ \/ agent.pc = "recovering"
       \/ agent.pc = "running" /\ clock >= disk.bundle.expires - RenewBefore
    /\ agent.call = 0 /\ Unsent(c) /\ disk.bundle.expires > clock
    /\ disk' = [disk EXCEPT !.rotation = RotationKey(c)]
    /\ Send(c, [NoCall EXCEPT !.pc = "sent", !.kind = "rotate", !.key = RotationKey(c),
                              !.presented = disk.bundle])
    /\ agent' = [agent EXCEPT !.call = c]
    /\ UNCHANGED <<database, hello, installer, clock>>

\* No answer: the process tries again, unless it is still starting.
RotationTimesOut ==
    /\ agent.call # 0 /\ agent.pc \in {"running", "recovering"}
    /\ agent' = IF agent.pc = "recovering" THEN Idle ELSE [agent EXCEPT !.call = 0]
    /\ UNCHANGED <<database, call, hello, disk, installer, clock>>

\* The answer is validated and replaces the bundle at once; a refusal ends the process.
InstallBundle ==
    LET c == agent.call IN
    /\ c # 0 /\ agent.pc \in {"running", "recovering"} /\ call[c].pc \in {"answered", "refused"}
    /\ IF call[c].pc = "answered" /\ call[c].answer.key = disk.rotation /\ call[c].answer.expires > clock
       THEN /\ disk' = [disk EXCEPT !.bundle = call[c].answer]
            /\ agent' = [agent EXCEPT !.pc = "installed"]
       ELSE agent' = Idle /\ UNCHANGED disk
    /\ UNCHANGED <<database, call, hello, installer, clock>>

\* removePending, and the control connection is opened again.
RemovePending ==
    /\ agent.pc = "installed" /\ disk' = [disk EXCEPT !.rotation = 0]
    /\ agent' = [pc |-> "running", call |-> 0] /\ hello' = NoHello
    /\ UNCHANGED <<database, call, installer, clock>>

\* Runner.Run: the session opens with the bundle of the moment, again and again;
\* a refusal ends the process.
Connect ==
    /\ agent.pc \in {"running", "installed"} /\ hello.pc \in {"none", "open"}
    /\ disk.bundle.expires > clock
    /\ hello' = [pc |-> "sent", presented |-> disk.bundle]
    /\ UNCHANGED <<database, call, files, clock>>

ConnectionRefused ==
    /\ hello.pc = "refused" /\ hello' = NoHello /\ agent' = Idle
    /\ UNCHANGED <<database, call, disk, installer, clock>>

AgentStops ==
    /\ agent.pc # "off" /\ agent' = Idle
    /\ UNCHANGED <<database, call, hello, disk, installer, clock>>

TimePasses ==
    /\ clock < MaxTime /\ clock' = clock + 1
    /\ UNCHANGED <<database, call, hello, files>>

-----------------------------------------------------------------------------
HostsNext ==
    \/ Disable \/ SaveCredentials \/ Recover \/ InstallPending \/ InstallerStops
    \/ StartAgent \/ RotationTimesOut \/ InstallBundle \/ RemovePending \/ Connect
    \/ AuthenticateAgent \/ ConfirmAndConnect \/ ConnectionRefused \/ AgentStops \/ TimePasses
    \/ \E t \in Enrollments : BeginEnrollment(t) \/ CreateEnrollment(t)
    \/ \E c \in Calls :
          \/ Exchange(c) \/ ActivateAgent(c) \/ AuthenticateRotation(c)
          \/ RotateAgentCertificate(c) \/ RotateNow(c)
          \/ \E t \in Enrollments : Provision(c, t)

HostsSpec == HostsInit /\ [][HostsNext]_hostsVars

-----------------------------------------------------------------------------
(* Properties                                                              *)

Certificate ==
    [serial : {0} \cup Calls, key : {0} \cup Calls, identity : {0} \cup Calls,
     expires : 0 .. MaxTime + Life]

\* The documents and the files have the shapes of the code.
HostsTypeOK ==
    /\ host.status \in {"pending", "offline", "online", "disabled"}
    /\ host.identity \in {0} \cup Calls
    /\ \A t \in Enrollments :
          /\ enrollment[t].status \in {"none", "creating", "open", "consumed"}
          /\ enrollment[t].certificate \in Certificate
    /\ \A i \in Calls : identity[i].current \in Certificate /\ identity[i].previous \in Certificate
    /\ disk.phase \in {"none", "request", "response"} /\ disk.bundle \in Certificate
    /\ disk.config => disk.bundle # NoCertificate
    /\ \A c \in Calls : call[c].pc \in {"new", "sent", "found", "answered", "refused"}
    /\ hello.pc \in {"none", "sent", "accepted", "open", "refused"}

\* A host has one identity in its life, whatever tokens are exchanged at the
\* same time, and the identity is revoked exactly when the host is disabled
\* (activateAgent, Disable, ConnectAgent).
IdentityIsTheHosts ==
    \A i \in Calls : identity[i] # NoIdentity =>
        host.identity = i /\ (identity[i].revoked <=> host.status = "disabled")

\* The Server accepts the bundle on the Agent's disk until the host is disabled
\* or the certificate ends: to connect with, or, past its grace, to fetch the
\* certificate whose key the disk holds. Neither a lost answer nor a crash
\* between two files takes the identity away
\* (RotateNow, RotateAgentCertificate, ConfirmAgentCertificate).
AgentCanReturn ==
    LET b == disk.bundle IN
    b.identity # 0 /\ IsActive(b) /\ b.expires > clock =>
        IsCurrent(b) \/ (IsPrevious(b) /\ disk.rotation = identity[b.identity].pending)

\* An enrollment that was consumed for a request the Agent has no answer to is
\* still answered within the recovery window, to the request on its disk
\* (Provision, RecoverAgentEnrollment).
LostAnswerIsRecovered ==
    \A t \in Enrollments :
        enrollment[t].status = "consumed" /\ enrollment[t].until > clock
        /\ host.status # "disabled" /\ disk.phase = "request"
        /\ enrollment[t].certificate.expires > clock
            => Recoverable(t, disk.key)
=============================================================================
