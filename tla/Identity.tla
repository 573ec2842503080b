------------------------------- MODULE Identity -------------------------------
(***************************************************************************)
(* Accounts (internal/modules/identity): the bootstrap of the first owner, *)
(* invitations, logins under a guard that the Servers share, the change of *)
(* a password and the sessions of a user.                                  *)
(*                                                                         *)
(* A request reads before its transaction and writes in it.  A transaction *)
(* sees one snapshot; of two that write the same document the second       *)
(* conflicts and is tried again.                                           *)
(***************************************************************************)
EXTENDS Integers, FiniteSets

CONSTANTS
    Requests,     \* requests, each of which is served once
    Emails,       \* the addresses that can become users
    Invitations,  \* the invitations, all of them for the same address
    Passwords,    \* passwords
    Limit,        \* attempts within one window of the login guard
    MaxSessions,  \* sessions a user may have at the same time
    MaxTime,      \* bound of the clock
    Owner,        \* the address of the bootstrap
    Guest         \* the address of the invitations

ASSUME IdentityAssumption ==
    /\ Owner \in Emails /\ Guest \in Emails
    /\ Requests \subseteq Nat \ {0} /\ "none" \notin Passwords
    /\ Limit \in Nat /\ MaxSessions \in Nat \ {0} /\ MaxTime \in Nat \ {0}

VARIABLES
    user,        \* users: the password of each one, and the revision of its sessions
    sessions,    \* sessions: the tokens that authenticate
    invitation,  \* user_invitations
    attempts,    \* login_attempts: the guard of each address
    request,     \* what each request has read
    clock        \* the clock of the Servers

identityVars == <<user, sessions, invitation, attempts, request, clock>>

NoUser == [password |-> "none", revision |-> 0]
NoInvitation == [status |-> "none", version |-> 0]
NoAttempts == [count |-> 0, started |-> 0, blocked |-> 0, revision |-> 0]
NoRequest == [pc |-> "new", op |-> "none", user |-> "none", password |-> "none", next |-> "none",
              current |-> 0, now |-> 0, guard |-> NoAttempts,
              snapshot |-> {}, revision |-> 0, version |-> 0]

Exists(e) == user[e].password # "none"
SessionsOf(e) == {s \in sessions : s.user = e}

IdentityInit ==
    /\ user = [e \in Emails |-> NoUser] /\ sessions = {}
    /\ invitation = [i \in Invitations |-> NoInvitation]
    /\ attempts = [e \in Emails |-> NoAttempts]
    /\ request = [r \in Requests |-> NoRequest] /\ clock = 1

Goes(r, pc) == request' = [request EXCEPT ![r].pc = pc]
NewSession(r) ==
    [id |-> r, user |-> request[r].user, created |-> request[r].now, password |-> request[r].password]
TimePasses ==
    /\ clock < MaxTime /\ clock' = clock + 1
    /\ UNCHANGED <<user, sessions, invitation, attempts, request>>

-----------------------------------------------------------------------------
(* The first owner                                                         *)

\* Bootstrap: the password is hashed before the transaction ...
StartBootstrap(r, p) ==
    /\ request[r].pc = "new"
    /\ request' = [request EXCEPT ![r] =
           [NoRequest EXCEPT !.pc = "bootstrap", !.op = "bootstrap", !.user = Owner,
                             !.password = p, !.now = clock]]
    /\ UNCHANGED <<user, sessions, invitation, attempts, clock>>

\* ... HasUsers looks at its snapshot, and the insertion at the singleton key.
Bootstrap(r) ==
    /\ request[r].pc = "bootstrap" /\ Goes(r, "done")
    /\ IF \E e \in Emails : Exists(e) THEN UNCHANGED <<user, sessions>>
       ELSE /\ user' = [user EXCEPT ![Owner] = [password |-> request[r].password, revision |-> 0]]
            /\ sessions' = sessions \cup {NewSession(r)}
    /\ UNCHANGED <<invitation, attempts, clock>>

-----------------------------------------------------------------------------
(* Invitations                                                             *)

\* CreateInvitation: an address that has a user is not invited.
CreateInvitation(i) ==
    /\ Exists(Owner) /\ invitation[i].status = "none" /\ ~Exists(Guest)
    /\ invitation' = [invitation EXCEPT ![i] = [status |-> "active", version |-> 1]]
    /\ UNCHANGED <<user, sessions, attempts, request, clock>>

\* Revoke and RevokeInvitation: an active invitation, under its version.
CanReplace(i, version) == invitation[i].status = "active" /\ invitation[i].version = version
RevokeInvitation(i) ==
    /\ CanReplace(i, invitation[i].version)
    /\ invitation' = [invitation EXCEPT ![i] = [status |-> "revoked", version |-> @.version + 1]]
    /\ UNCHANGED <<user, sessions, attempts, request, clock>>

\* AcceptInvitation: FindInvitationByTokenHash, then the hash of the password.
FindInvitation(r, i, p) ==
    /\ request[r].pc = "new" /\ invitation[i].status = "active"
    /\ request' = [request EXCEPT ![r] =
           [NoRequest EXCEPT !.pc = "accept", !.op = i, !.user = Guest, !.password = p,
                             !.now = clock, !.version = invitation[i].version]]
    /\ UNCHANGED <<user, sessions, invitation, attempts, clock>>

\* Mistake: the filter has no status and no version.
CanReplaceAnyVersion(i, version) == TRUE

\* AcceptInvitation of the repository: the invitation, the user under its
\* unique address, its session; all of them or none.
Acceptable(i, version) == CanReplace(i, version)

AcceptInvitation(r) ==
    LET i == request[r].op IN
    /\ request[r].pc = "accept" /\ Goes(r, "done")
    /\ IF Acceptable(i, request[r].version) /\ ~Exists(Guest)
       THEN /\ invitation' = [invitation EXCEPT ![i] = [status |-> "accepted", version |-> @.version + 1]]
            /\ user' = [user EXCEPT ![Guest] = [password |-> request[r].password, revision |-> 0]]
            /\ sessions' = sessions \cup {NewSession(r)}
       ELSE UNCHANGED <<user, sessions, invitation>>
    /\ UNCHANGED <<attempts, clock>>

-----------------------------------------------------------------------------
(* The login guard                                                         *)

\* One window lasts one unit of the clock.
InWindow(a) == a.started > clock - 1
Counted(a) ==
    LET count == IF a.revision > 0 /\ InWindow(a) THEN a.count + 1 ELSE 1 IN
    [count |-> count, revision |-> a.revision + 1,
     started |-> IF count = 1 THEN clock ELSE a.started,
     blocked |-> IF count >= Limit THEN clock + 1 ELSE 0]

\* ReserveLoginAttempt: the document is read; a blocked address is refused ...
ReadAttempts(r, e, p) ==
    /\ request[r].pc = "new"
    /\ request' = [request EXCEPT ![r] =
           [NoRequest EXCEPT !.pc = IF attempts[e].blocked > clock THEN "done" ELSE "reserve",
                             !.op = "login", !.user = e, !.password = p, !.now = clock,
                             !.guard = attempts[e]]]
    /\ UNCHANGED <<user, sessions, invitation, attempts, clock>>

\* ... and replaced under the revision that was read, or read again.
ReserveLoginAttempt(r) ==
    LET e == request[r].user IN
    /\ request[r].pc = "reserve"
    /\ IF attempts[e].revision = request[r].guard.revision
       THEN /\ attempts' = [attempts EXCEPT ![e] = Counted(request[r].guard)]
            /\ Goes(r, "verify")
       ELSE /\ UNCHANGED attempts
            /\ request' = [request EXCEPT ![r].guard = attempts[e],
                   ![r].pc = IF attempts[e].blocked > clock THEN "done" ELSE "reserve"]
    /\ UNCHANGED <<user, sessions, invitation, clock>>

\* Login: Verify, and ResetLoginAttempts when the password is right.
Verify(r) ==
    LET e == request[r].user IN
    /\ request[r].pc = "verify"
    /\ IF user[e].password = request[r].password
       THEN /\ attempts' = [attempts EXCEPT ![e] = NoAttempts] /\ Goes(r, "begin")
       ELSE UNCHANGED attempts /\ Goes(r, "done")
    /\ UNCHANGED <<user, sessions, invitation, clock>>

-----------------------------------------------------------------------------
(* Transactions that write a user                                          *)

\* The snapshot of a transaction.
BeginTransaction(r) ==
    /\ request[r].pc = "begin"
    /\ request' = [request EXCEPT ![r].pc = "write",
           ![r].snapshot = SessionsOf(request[r].user), ![r].revision = user[request[r].user].revision]
    /\ UNCHANGED <<user, sessions, invitation, attempts, clock>>

\* Mistake: the transaction does not write the user.
NoConflict(r) == TRUE

\* The write of the user is what makes two transactions conflict.
Unchanged(r) == user[request[r].user].revision = request[r].revision

\* Mistake: the filter has no hash.
AnyPassword(r) == TRUE

\* The filter on the hash that was verified.
SamePassword(r) == user[request[r].user].password = request[r].password

\* CreateSession: the newest MaxSessions remain.
Newer(s, t) == s.created > t.created \/ (s.created = t.created /\ s.id > t.id)
Newest(set) == {s \in set : Cardinality({t \in set : Newer(t, s)}) < MaxSessions}

CreateSession(r) ==
    LET seen == request[r].snapshot \cup {NewSession(r)} IN
    /\ request[r].pc = "write" /\ request[r].op = "login"
    /\ IF ~Unchanged(r) THEN Goes(r, "begin") /\ UNCHANGED <<user, sessions>>
       ELSE IF ~SamePassword(r) THEN Goes(r, "done") /\ UNCHANGED <<user, sessions>>
       ELSE /\ user' = [user EXCEPT ![request[r].user].revision = @ + 1]
            /\ sessions' = (sessions \cup {NewSession(r)}) \ (seen \ Newest(seen))
            /\ Goes(r, "done")
    /\ UNCHANGED <<invitation, attempts, clock>>

\* ChangePassword: authenticated by a session, the current password verified ...
VerifyCurrent(r, s, p) ==
    /\ request[r].pc = "new" /\ s \in sessions /\ p # user[s.user].password
    /\ request' = [request EXCEPT ![r] =
           [NoRequest EXCEPT !.pc = "begin", !.op = "change", !.user = s.user, !.next = p,
                             !.password = user[s.user].password, !.current = s.id, !.now = clock]]
    /\ UNCHANGED <<user, sessions, invitation, attempts, clock>>

\* ... and in the transaction the hash is compared, replaced, and every other
\* session deleted.
ChangePassword(r) ==
    LET e == request[r].user IN
    /\ request[r].pc = "write" /\ request[r].op = "change"
    /\ IF ~Unchanged(r) THEN Goes(r, "begin") /\ UNCHANGED <<user, sessions>>
       ELSE IF ~SamePassword(r) THEN Goes(r, "done") /\ UNCHANGED <<user, sessions>>
       ELSE /\ user' = [user EXCEPT ![e] = [password |-> request[r].next, revision |-> @.revision + 1]]
            /\ sessions' = {IF s.id = request[r].current THEN [s EXCEPT !.password = request[r].next] ELSE s :
                               s \in sessions \ {s \in request[r].snapshot : s.id # request[r].current}}
            /\ Goes(r, "done")
    /\ UNCHANGED <<invitation, attempts, clock>>

-----------------------------------------------------------------------------
(* The end of sessions                                                     *)

Revoke(set) ==
    /\ set # {} /\ sessions' = sessions \ set
    /\ UNCHANGED <<user, invitation, attempts, request, clock>>

\* RevokeSession and Logout: a session of one's own.
RevokeSession(s) == s \in sessions /\ Revoke({s})

\* RevokeUserSession and RevokeAllUserSessions: an owner, those of another user.
RevokeUserSession(s) == s \in SessionsOf(Guest) /\ SessionsOf(Owner) # {} /\ Revoke({s})
RevokeAllUserSessions == SessionsOf(Owner) # {} /\ Revoke(SessionsOf(Guest))

Proceed(r) ==
    \/ Bootstrap(r) \/ AcceptInvitation(r) \/ ReserveLoginAttempt(r) \/ Verify(r)
    \/ BeginTransaction(r) \/ CreateSession(r) \/ ChangePassword(r)
IdentityNext ==
    \/ \E r \in Requests, p \in Passwords :
           \/ StartBootstrap(r, p)
           \/ \E i \in Invitations : FindInvitation(r, i, p)
           \/ \E e \in Emails : ReadAttempts(r, e, p)
           \/ \E s \in sessions : VerifyCurrent(r, s, p)
    \/ \E r \in Requests : Proceed(r)
    \/ \E i \in Invitations : CreateInvitation(i) \/ RevokeInvitation(i)
    \/ \E s \in sessions : RevokeSession(s) \/ RevokeUserSession(s)
    \/ RevokeAllUserSessions \/ TimePasses
IdentitySpec == IdentityInit /\ [][IdentityNext]_identityVars

-----------------------------------------------------------------------------
(* Properties                                                              *)

SessionDocuments == [id : Requests, user : Emails, created : 1..MaxTime, password : Passwords]
Guards == [count : Nat, started : 0..MaxTime, blocked : Nat, revision : Nat]
RequestStates ==
    [pc : {"new", "bootstrap", "accept", "reserve", "verify", "begin", "write", "done"},
     op : {"none", "bootstrap", "login", "change"} \cup Invitations,
     user : Emails \cup {"none"}, password : Passwords \cup {"none"},
     next : Passwords \cup {"none"}, current : Requests \cup {0}, now : 0..MaxTime,
     guard : Guards, snapshot : SUBSET SessionDocuments, revision : Nat, version : Nat]

IdentityTypeOK ==
    /\ user \in [Emails -> [password : Passwords \cup {"none"}, revision : Nat]]
    /\ sessions \subseteq SessionDocuments
    /\ invitation \in [Invitations -> [status : {"none", "active", "accepted", "revoked"},
                                       version : Nat]]
    /\ attempts \in [Emails -> Guards]
    /\ request \in [Requests -> RequestStates]
    /\ clock \in 1..MaxTime

\* After a change of the password nobody is logged in by the old one, however
\* a login was under way meanwhile (CreateSession, ChangePassword).
OldPasswordOpensNothing == \A s \in sessions : s.password = user[s.user].password

\* Concurrent logins do not exceed the limit (CreateSession).
SessionsAreLimited == \A e \in Emails : Cardinality(SessionsOf(e)) <= MaxSessions

\* An invitation ends once: neither is a revoked one accepted by a request
\* that had found it active, nor is it accepted twice (AcceptInvitation,
\* RevokeInvitation).
InvitationStaysEnded ==
    \A i \in Invitations :
        invitation[i].status \in {"accepted", "revoked"} => invitation'[i] = invitation[i]

InvitationEndsOnce == [][InvitationStaysEnded]_identityVars
=============================================================================
