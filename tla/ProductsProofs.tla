----------------------------- MODULE ProductsProofs -----------------------------
(***************************************************************************)
(* Proofs about the accounts, the Builds, the terminal sessions, how Builds *)
(* are asked for and the life of the product resources: sessions follow    *)
(* the password, a Build, its Artifact and its Release agree, limits hold, *)
(* what was decided stays, what is retired is quiet.                       *)
(***************************************************************************)
EXTENDS MCProducts, TLAPS, WellFoundedInduction, FiniteSetTheorems

-----------------------------------------------------------------------------
(* Accounts.  A login and a change of the password both read before they    *)
(* write.  What a request has read is still true when it writes, or the     *)
(* revision of the user has moved since: that is the invariant.             *)

\* A session belongs to the user of the request that opened it.
SessionIsOfItsRequest ==
    \A s \in sessions : request[s.id].pc = "done" /\ request[s.id].user = s.user

\* What holds of a request that has begun.
BegunOK(r) ==
    LET q == request[r] IN
    /\ q.pc # "new" => q.user \in Emails /\ q.password \in Passwords /\ q.now \in 1 .. MaxTime
    /\ q.pc = "bootstrap" => q.user = Owner
    /\ q.pc = "accept" => q.user = Guest /\ q.op \in Invitations
    /\ q.pc \in {"reserve", "verify"} => q.op = "login"

\* A request that writes a user writes one that exists; one that changes a
\* password is authenticated by a session of that user.
WriterOK(r) ==
    LET q == request[r] IN
    q.pc \in {"begin", "write"} =>
        /\ Exists(q.user)
        /\ q.op = "change" =>
              /\ q.next \in Passwords /\ q.current \in Requests
              /\ request[q.current].pc = "done" /\ request[q.current].user = q.user

\* The snapshot of a transaction: as long as the revision has not moved, no
\* session was added to it.
SnapshotOK(r) ==
    LET q == request[r] IN
    q.pc = "write" =>
        /\ q.revision <= user[q.user].revision
        /\ Unchanged(r) => SessionsOf(q.user) \subseteq q.snapshot

AccountInv ==
    /\ IdentityTypeOK /\ OldPasswordOpensNothing /\ SessionIsOfItsRequest
    /\ \A r \in Requests : BegunOK(r) /\ WriterOK(r) /\ SnapshotOK(r)

\* The documents begin empty.
LEMMA AccountInit == IdentityInit => AccountInv
<1>1. SUFFICES ASSUME IdentityInit PROVE AccountInv
  OBVIOUS
<1>2. NoAttempts \in Guards
  BY IdentityAssumption DEF NoAttempts, Guards
<1>3. NoRequest \in RequestStates
  BY <1>2, IdentityAssumption DEF NoRequest, RequestStates
<1>4. IdentityTypeOK
  BY <1>1, <1>2, <1>3, IdentityAssumption DEF IdentityInit, IdentityTypeOK, NoUser, NoInvitation
<1>5. \A r \in Requests : request[r].pc = "new"
  BY <1>1 DEF IdentityInit, NoRequest
<1>6. sessions = {}
  BY <1>1 DEF IdentityInit
<1> QED
  BY <1>4, <1>5, <1>6 DEF AccountInv, OldPasswordOpensNothing, SessionIsOfItsRequest,
     BegunOK, WriterOK, SnapshotOK

\* A step of one request that touches neither a user nor a session.
LEMMA RequestMoves ==
    ASSUME AccountInv, NEW r \in Requests, request[r].pc # "done",
           UNCHANGED <<user, sessions>>, IdentityTypeOK',
           \A q \in Requests \ {r} : request'[q] = request[q],
           BegunOK(r)', WriterOK(r)', SnapshotOK(r)'
    PROVE  AccountInv'
<1>1. \A s \in sessions : s.id \in Requests \ {r}
  BY DEF AccountInv, SessionIsOfItsRequest, IdentityTypeOK, SessionDocuments
<1>2. SessionIsOfItsRequest'
  BY <1>1 DEF AccountInv, SessionIsOfItsRequest
<1>3. OldPasswordOpensNothing'
  BY DEF AccountInv, OldPasswordOpensNothing
<1>4. ASSUME NEW q \in Requests \ {r} PROVE BegunOK(q)' /\ WriterOK(q)' /\ SnapshotOK(q)'
  <2>1. request'[q] = request[q] /\ BegunOK(q) /\ WriterOK(q) /\ SnapshotOK(q)
    BY <1>4 DEF AccountInv
  <2>2. BegunOK(q)'
    BY <2>1 DEF BegunOK
  <2>3. WriterOK(q)'
    BY <2>1 DEF WriterOK, Exists
  <2>4. SnapshotOK(q)'
    BY <2>1 DEF SnapshotOK, Unchanged, SessionsOf
  <2> QED
    BY <2>2, <2>3, <2>4
<1> QED
  BY <1>2, <1>3, <1>4 DEF AccountInv

\* What Goes does to the request.
LEMMA GoesOn ==
    ASSUME IdentityTypeOK, NEW r \in Requests, Goes(r, "done") \/ Goes(r, "verify") \/ Goes(r, "begin")
    PROVE  /\ request' \in [Requests -> RequestStates]
           /\ \A q \in Requests \ {r} : request'[q] = request[q]
           /\ \A f \in {"op", "user", "password", "next", "current", "now", "guard", "snapshot",
                        "revision", "version"} : request'[r][f] = request[r][f]
           /\ Goes(r, "done") => request'[r].pc = "done"
           /\ Goes(r, "verify") => request'[r].pc = "verify"
           /\ Goes(r, "begin") => request'[r].pc = "begin"
  BY DEF Goes, IdentityTypeOK, RequestStates

\* The requests that only read: they begin, or go on with what they read.
LEMMA ReadersKeepIt ==
    ASSUME AccountInv, NEW r \in Requests,
           \/ \E p \in Passwords : StartBootstrap(r, p)
           \/ \E p \in Passwords, i \in Invitations : FindInvitation(r, i, p)
           \/ \E p \in Passwords, e \in Emails : ReadAttempts(r, e, p)
    PROVE  AccountInv'
<1> USE IdentityAssumption
<1>t. IdentityTypeOK /\ NoRequest \in RequestStates
  BY DEF AccountInv, NoRequest, RequestStates, NoAttempts, Guards
<1>c. /\ clock \in 1 .. MaxTime /\ clock \in 0 .. MaxTime
      /\ \A i \in Invitations : invitation[i].version \in Nat
      /\ \A e \in Emails : attempts[e] \in Guards
  BY <1>t DEF IdentityTypeOK
<1>1. ASSUME NEW q, q \in RequestStates, q.pc \in {"bootstrap", "accept", "reserve", "done"},
             q.pc = "bootstrap" => q.user = Owner, q.pc = "accept" => q.user = Guest /\ q.op \in Invitations,
             q.pc = "reserve" => q.op = "login", q.user \in Emails, q.password \in Passwords, q.now \in 1 .. MaxTime,
             request' = [request EXCEPT ![r] = q], request[r].pc = "new",
             UNCHANGED <<user, sessions, invitation, attempts, clock>>
      PROVE  AccountInv'
  <2>1. request'[r] = q /\ \A x \in Requests \ {r} : request'[x] = request[x]
    BY <1>1, <1>t DEF IdentityTypeOK
  <2>2. IdentityTypeOK'
    BY <1>1, <1>t DEF IdentityTypeOK
  <2>3. BegunOK(r)' /\ WriterOK(r)' /\ SnapshotOK(r)'
    BY <1>1, <2>1 DEF BegunOK, WriterOK, SnapshotOK
  <2> QED BY <1>1, <2>1, <2>2, <2>3, RequestMoves
<1>2. CASE \E p \in Passwords : StartBootstrap(r, p)
  <2>1. PICK p \in Passwords : StartBootstrap(r, p)
    BY <1>2
  <2>2. PICK q : q = [NoRequest EXCEPT !.pc = "bootstrap", !.op = "bootstrap", !.user = Owner,
                             !.password = p, !.now = clock]
    OBVIOUS
  <2>3. q \in RequestStates
    BY <1>t, <1>c, <2>2 DEF RequestStates
  <2>4. q.pc = "bootstrap" /\ q.user = Owner /\ q.password = p /\ q.now = clock
    BY <2>2 DEF NoRequest
  <2> QED BY <1>1, <1>c, <2>1, <2>2, <2>3, <2>4 DEF StartBootstrap
<1>3. CASE \E p \in Passwords, i \in Invitations : FindInvitation(r, i, p)
  <2>1. PICK p \in Passwords, i \in Invitations : FindInvitation(r, i, p)
    BY <1>3
  <2>2. PICK q : q = [NoRequest EXCEPT !.pc = "accept", !.op = i, !.user = Guest, !.password = p,
                             !.now = clock, !.version = invitation[i].version]
    OBVIOUS
  <2>3. q \in RequestStates
    BY <1>t, <1>c, <2>2 DEF RequestStates
  <2>4. q.pc = "accept" /\ q.op = i /\ q.user = Guest /\ q.password = p /\ q.now = clock
    BY <2>2 DEF NoRequest
  <2> QED BY <1>1, <1>c, <2>1, <2>2, <2>3, <2>4 DEF FindInvitation
<1>4. CASE \E p \in Passwords, e \in Emails : ReadAttempts(r, e, p)
  <2>1. PICK p \in Passwords, e \in Emails : ReadAttempts(r, e, p)
    BY <1>4
  <2>p. PICK pc : pc = IF attempts[e].blocked > clock THEN "done" ELSE "reserve"
    OBVIOUS
  <2>c. pc \in {"done", "reserve"}
    BY <2>p
  <2>g. PICK g \in Guards : g = attempts[e]
    BY <1>c
  <2>2. PICK q : q = [NoRequest EXCEPT !.pc = pc, !.op = "login", !.user = e, !.password = p, !.now = clock,
                                       !.guard = g]
    OBVIOUS
  <2>3. q \in RequestStates
    BY <1>t, <1>c, <2>c, <2>2 DEF RequestStates
  <2>4. q.pc = pc /\ q.op = "login" /\ q.user = e /\ q.password = p /\ q.now = clock
    BY <2>2 DEF NoRequest
  <2>5. /\ request' = [request EXCEPT ![r] = q] /\ request[r].pc = "new"
        /\ UNCHANGED <<user, sessions, invitation, attempts, clock>>
    BY <2>1, <2>2, <2>p, <2>g DEF ReadAttempts
  <2> QED BY <1>1, <1>c, <2>3, <2>4, <2>5, <2>c
<1> QED BY <1>2, <1>3, <1>4

\* A change of the password begins with a session of the user, so the user
\* exists and the request that opened the session is over.
LEMMA VerifyCurrentKeepsIt ==
    ASSUME AccountInv, NEW r \in Requests, NEW s \in sessions, NEW p \in Passwords,
           VerifyCurrent(r, s, p)
    PROVE  AccountInv'
<1> USE IdentityAssumption
<1>t. IdentityTypeOK /\ NoRequest \in RequestStates
  BY DEF AccountInv, NoRequest, RequestStates, NoAttempts, Guards
<1>c. /\ clock \in 1 .. MaxTime /\ clock \in 0 .. MaxTime
      /\ \A i \in Invitations : invitation[i].version \in Nat
      /\ \A e \in Emails : attempts[e] \in Guards
  BY <1>t DEF IdentityTypeOK
<1>1. PICK q : q = [NoRequest EXCEPT !.pc = "begin", !.op = "change", !.user = s.user, !.next = p,
                             !.password = user[s.user].password, !.current = s.id, !.now = clock]
  OBVIOUS
<1>2. /\ s.id \in Requests /\ s.user \in Emails /\ s.password \in Passwords
      /\ user[s.user].password = s.password /\ Exists(s.user)
      /\ request[s.id].pc = "done" /\ request[s.id].user = s.user
  BY <1>t DEF AccountInv, IdentityTypeOK, SessionDocuments, OldPasswordOpensNothing,
     SessionIsOfItsRequest, Exists
<1>r. q \in RequestStates
  BY <1>t, <1>c, <1>1, <1>2 DEF RequestStates
<1>3. /\ q.pc = "begin" /\ q.user = s.user /\ q.password = s.password
      /\ q.now = clock /\ q.op = "change" /\ q.next = p /\ q.current = s.id
  BY <1>1, <1>2 DEF NoRequest
<1>4. /\ request' = [request EXCEPT ![r] = q] /\ request[r].pc = "new"
      /\ UNCHANGED <<user, sessions, invitation, attempts, clock>>
  BY <1>1 DEF VerifyCurrent
<1>5. request'[r] = q /\ \A x \in Requests \ {r} : request'[x] = request[x]
  BY <1>4, <1>t DEF IdentityTypeOK
<1>6. IdentityTypeOK'
  BY <1>r, <1>4, <1>t DEF IdentityTypeOK
<1>7. BegunOK(r)'
  BY <1>2, <1>3, <1>4, <1>5, <1>t DEF BegunOK, IdentityTypeOK
<1>8. WriterOK(r)'
  <2>1. s.id # r /\ request'[s.id] = request[s.id]
    BY <1>2, <1>4, <1>5
  <2>2. Exists(s.user)'
    BY <1>2, <1>4 DEF Exists
  <2> QED BY <1>2, <1>3, <1>5, <2>1, <2>2 DEF WriterOK
<1>9. SnapshotOK(r)'
  BY <1>3, <1>5 DEF SnapshotOK
<1> QED BY <1>4, <1>5, <1>6, <1>7, <1>8, <1>9, RequestMoves

\* The login guard and the verification: the request goes on for the same user.
LEMMA GuardKeepsIt ==
    ASSUME AccountInv, NEW r \in Requests, ReserveLoginAttempt(r) \/ Verify(r)
    PROVE  AccountInv'
<1> USE IdentityAssumption
<1>t. IdentityTypeOK /\ BegunOK(r) /\ user[request[r].user] = user[request[r].user]
  BY DEF AccountInv
<1>c. /\ clock \in 1 .. MaxTime /\ clock \in 0 .. MaxTime
      /\ \A e \in Emails : attempts[e] \in Guards
      /\ NoAttempts \in Guards
  BY <1>t DEF IdentityTypeOK, NoAttempts, Guards
<1>1. ASSUME NEW e \in Emails, NEW g \in Guards, NEW pc \in {"reserve", "verify", "begin", "done"},
             attempts' = attempts \/ attempts' = [attempts EXCEPT ![e] = g],
             NEW h \in Guards, request' = [request EXCEPT ![r].guard = h, ![r].pc = pc],
             request[r].pc \in {"reserve", "verify"},
             pc = "begin" => user[request[r].user].password = request[r].password /\ request[r].op = "login",
             UNCHANGED <<user, sessions, invitation, clock>>
      PROVE  AccountInv'
  <2>1. /\ request' \in [Requests -> RequestStates]
        /\ request'[r].user = request[r].user /\ request'[r].password = request[r].password
        /\ request'[r].now = request[r].now /\ request'[r].op = request[r].op /\ request'[r].pc = pc
        /\ \A x \in Requests \ {r} : request'[x] = request[x]
    <3>1. request \in [Requests -> RequestStates] /\ request[r] \in RequestStates
      BY <1>t DEF IdentityTypeOK
    <3>2. PICK q : q = [request[r] EXCEPT !.guard = h, !.pc = pc]
      OBVIOUS
    <3>3. request' = [request EXCEPT ![r] = q]
      BY <1>1, <3>1, <3>2
    <3>4. q \in RequestStates
      BY <1>1, <3>1, <3>2 DEF RequestStates
    <3>5. /\ q.user = request[r].user /\ q.password = request[r].password
          /\ q.now = request[r].now /\ q.op = request[r].op /\ q.pc = pc
      BY <3>1, <3>2 DEF RequestStates
    <3> QED BY <3>1, <3>3, <3>4, <3>5
  <2>2. IdentityTypeOK'
    BY <1>1, <1>t, <2>1 DEF IdentityTypeOK
  <2>3. BegunOK(r)'
    BY <1>1, <1>t, <2>1 DEF BegunOK
  <2>4. WriterOK(r)'
    <3>1. CASE pc = "begin"
      <4>1. request[r].password # "none" /\ request[r].op = "login"
        BY <1>1, <1>t, <3>1 DEF BegunOK
      <4> QED BY <1>1, <2>1, <3>1, <4>1 DEF WriterOK, Exists
    <3>2. CASE pc # "begin"
      BY <1>1, <2>1, <3>2 DEF WriterOK
    <3> QED BY <3>1, <3>2
  <2>5. SnapshotOK(r)'
    BY <1>1, <2>1 DEF SnapshotOK
  <2> QED BY <1>1, <2>1, <2>2, <2>3, <2>4, <2>5, RequestMoves
<1>2. CASE ReserveLoginAttempt(r)
  <2>1. PICK e : e = request[r].user
    OBVIOUS
  <2>2. request[r].pc = "reserve" /\ e \in Emails
    BY <1>2, <1>t, <2>1 DEF ReserveLoginAttempt, BegunOK
  <2>3. request[r] \in RequestStates /\ request[r].guard \in Guards
    BY <1>t DEF IdentityTypeOK, RequestStates
  <2>4. CASE attempts[e].revision = request[r].guard.revision
    <3>1. PICK g : g = Counted(request[r].guard)
      OBVIOUS
    <3>2. g \in Guards
      <4>1. \A n \in Nat : n + 1 \in Nat /\ (IF n >= Limit THEN clock + 1 ELSE 0) \in Nat
        BY <1>c
      <4>2. \A n \in Nat : (IF n = 1 THEN clock ELSE request[r].guard.started) \in 0 .. MaxTime
        BY <1>c, <2>3 DEF Guards
      <4>3. request[r].guard.count \in Nat /\ request[r].guard.revision \in Nat
        BY <2>3 DEF Guards
      <4> QED BY <3>1, <4>1, <4>2, <4>3 DEF Counted, Guards
    <3>3. attempts' = [attempts EXCEPT ![e] = g]
      BY <1>2, <2>1, <2>4, <3>1 DEF ReserveLoginAttempt
    <3>4. request' = [request EXCEPT ![r].guard = request[r].guard, ![r].pc = "verify"]
      <4>1. request' = [request EXCEPT ![r].pc = "verify"]
        BY <1>2, <2>1, <2>4 DEF ReserveLoginAttempt, Goes
      <4>2. [request[r] EXCEPT !.pc = "verify"] = [request[r] EXCEPT !.guard = request[r].guard, !.pc = "verify"]
        BY <2>3 DEF RequestStates
      <4> QED BY <4>1, <4>2, <1>t DEF IdentityTypeOK
    <3> QED BY <1>1, <1>2, <2>2, <2>3, <3>2, <3>3, <3>4 DEF ReserveLoginAttempt
  <2>5. CASE attempts[e].revision # request[r].guard.revision
    <3>1. PICK pc \in {"done", "reserve"} : pc = IF attempts[e].blocked > clock THEN "done" ELSE "reserve"
      OBVIOUS
    <3>2. request' = [request EXCEPT ![r].guard = attempts[e], ![r].pc = pc] /\ attempts' = attempts
      BY <1>2, <2>1, <2>5, <3>1 DEF ReserveLoginAttempt
    <3> QED BY <1>1, <1>2, <1>c, <2>2, <3>1, <3>2 DEF ReserveLoginAttempt
  <2> QED BY <2>4, <2>5
<1>3. CASE Verify(r)
  <2>1. PICK e : e = request[r].user
    OBVIOUS
  <2>2. request[r].pc = "verify" /\ e \in Emails /\ request[r].op = "login"
    BY <1>3, <1>t, <2>1 DEF Verify, BegunOK
  <2>3. request[r] \in RequestStates /\ request[r].guard \in Guards
    BY <1>t DEF IdentityTypeOK, RequestStates
  <2>4. ASSUME NEW pc \in {"begin", "done"}, Goes(r, pc)
        PROVE  request' = [request EXCEPT ![r].guard = request[r].guard, ![r].pc = pc]
    <3>1. [request[r] EXCEPT !.pc = pc] = [request[r] EXCEPT !.guard = request[r].guard, !.pc = pc]
      BY <2>3 DEF RequestStates
    <3> QED BY <2>4, <3>1, <1>t DEF IdentityTypeOK, Goes
  <2>5. CASE user[e].password = request[r].password
    <3>1. attempts' = [attempts EXCEPT ![e] = NoAttempts] /\ Goes(r, "begin")
      BY <1>3, <2>1, <2>5 DEF Verify
    <3> QED BY <1>1, <1>3, <1>c, <2>1, <2>2, <2>3, <2>4, <2>5, <3>1 DEF Verify
  <2>6. CASE user[e].password # request[r].password
    <3>1. attempts' = attempts /\ Goes(r, "done")
      BY <1>3, <2>1, <2>6 DEF Verify
    <3> QED BY <1>1, <1>3, <1>c, <2>2, <2>3, <2>4, <3>1 DEF Verify
  <2> QED BY <2>5, <2>6
<1> QED BY <1>2, <1>3

\* BeginTransaction takes the snapshot: nothing has moved since.
LEMMA BeginKeepsIt ==
    ASSUME AccountInv, NEW r \in Requests, BeginTransaction(r)
    PROVE  AccountInv'
<1>1. IdentityTypeOK /\ BegunOK(r) /\ WriterOK(r) /\ request[r].pc = "begin" /\ request[r] \in RequestStates
  BY DEF AccountInv, BeginTransaction, IdentityTypeOK
<1>2. PICK e \in Emails : e = request[r].user
  BY <1>1 DEF BegunOK
<1>3. SessionsOf(e) \subseteq SessionDocuments /\ user[e].revision \in Nat
  BY <1>1 DEF IdentityTypeOK, SessionsOf
<1>4. PICK q : q = [request[r] EXCEPT !.pc = "write", !.snapshot = SessionsOf(e), !.revision = user[e].revision]
  OBVIOUS
<1>5. q \in RequestStates
  BY <1>1, <1>3, <1>4 DEF RequestStates
<1>6. /\ q.pc = "write" /\ q.snapshot = SessionsOf(e) /\ q.revision = user[e].revision
      /\ q.user = request[r].user /\ q.password = request[r].password /\ q.now = request[r].now
      /\ q.op = request[r].op /\ q.next = request[r].next /\ q.current = request[r].current
  BY <1>1, <1>4 DEF RequestStates
<1>7. request' = [request EXCEPT ![r] = q] /\ UNCHANGED <<user, sessions, invitation, attempts, clock>>
  BY <1>2, <1>4 DEF BeginTransaction
<1>8. request'[r] = q /\ \A x \in Requests \ {r} : request'[x] = request[x]
  BY <1>1, <1>7 DEF IdentityTypeOK
<1>9. IdentityTypeOK'
  BY <1>1, <1>5, <1>7 DEF IdentityTypeOK
<1>10. BegunOK(r)'
  BY <1>1, <1>6, <1>8 DEF BegunOK
<1>11. WriterOK(r)'
  BY <1>1, <1>6, <1>7, <1>8 DEF WriterOK, Exists
<1>12. SnapshotOK(r)'
  <2>1. SessionsOf(e)' = SessionsOf(e)
    BY <1>7 DEF SessionsOf
  <2> QED BY <1>2, <1>3, <1>6, <1>7, <1>8, <2>1 DEF SnapshotOK
<1> QED BY <1>1, <1>7, <1>8, <1>9, <1>10, <1>11, <1>12, RequestMoves

\* A user is created when it had no session: before the first user there is
\* none at all, and a session has a password, which is that of its user.
LEMMA CreationKeepsIt ==
    ASSUME AccountInv, NEW r \in Requests, NEW e \in Emails, ~Exists(e),
           e = request[r].user, request[r].pc \in {"bootstrap", "accept"}, Goes(r, "done"),
           user' = [user EXCEPT ![e] = [password |-> request[r].password, revision |-> 0]],
           sessions' = sessions \cup {NewSession(r)},
           IdentityTypeOK'
    PROVE  AccountInv'
<1>t. /\ IdentityTypeOK /\ request[r] \in RequestStates /\ BegunOK(r)
      /\ user \in [Emails -> [password : Passwords \cup {"none"}, revision : Nat]]
  BY DEF AccountInv, IdentityTypeOK
<1>1. /\ \A x \in Requests \ {r} : request'[x] = request[x]
      /\ request'[r].pc = "done" /\ request'[r].user = e
      /\ request'[r].password = request[r].password /\ request'[r].now = request[r].now
  BY <1>t, GoesOn
<1>2. PICK new : new = NewSession(r)
  OBVIOUS
<1>3. new.id = r /\ new.user = e /\ new.password = request[r].password /\ new.password \in Passwords
  BY <1>2, <1>t DEF NewSession, BegunOK
<1>4. \A s \in sessions :
         /\ s.id \in Requests \ {r} /\ s.user \in Emails \ {e}
         /\ s.password = user[s.user].password /\ request[s.id].pc = "done" /\ request[s.id].user = s.user
  BY <1>t, IdentityAssumption
     DEF AccountInv, IdentityTypeOK, SessionDocuments, OldPasswordOpensNothing, SessionIsOfItsRequest, Exists
<1>5. /\ \A x \in Emails \ {e} : user'[x] = user[x]
      /\ user'[e].password = request[r].password
  BY <1>t
<1>6. OldPasswordOpensNothing'
  BY <1>2, <1>3, <1>4, <1>5 DEF OldPasswordOpensNothing
<1>7. SessionIsOfItsRequest'
  BY <1>1, <1>2, <1>3, <1>4 DEF SessionIsOfItsRequest
<1>8. ASSUME NEW q \in Requests PROVE BegunOK(q)' /\ WriterOK(q)' /\ SnapshotOK(q)'
  <2>1. CASE q = r
    BY <1>1, <1>t, <2>1 DEF BegunOK, WriterOK, SnapshotOK
  <2>2. CASE q # r
    <3>1. request'[q] = request[q] /\ BegunOK(q) /\ WriterOK(q) /\ SnapshotOK(q)
      BY <1>1, <2>2 DEF AccountInv
    <3>2. BegunOK(q)'
      BY <3>1 DEF BegunOK
    <3>3. CASE request[q].pc \notin {"begin", "write"}
      BY <3>1, <3>2, <3>3 DEF WriterOK, SnapshotOK
    <3>4. CASE request[q].pc \in {"begin", "write"}
      <4>1. request[q].user \in Emails \ {e}
        BY <3>1, <3>4 DEF WriterOK, BegunOK
      <4>2. user'[request[q].user] = user[request[q].user]
        BY <1>5, <4>1
      <4>3. WriterOK(q)'
        <5>1. Exists(request[q].user)'
          BY <3>1, <3>4, <4>2 DEF WriterOK, Exists
        <5>2. request[q].op = "change" =>
                 /\ request[q].next \in Passwords /\ request[q].current \in Requests
                 /\ request'[request[q].current].pc = "done"
                 /\ request'[request[q].current].user = request[q].user
          BY <1>1, <3>1, <3>4 DEF WriterOK
        <5> QED BY <3>1, <5>1, <5>2 DEF WriterOK
      <4>4. SessionsOf(request[q].user)' = SessionsOf(request[q].user)
        BY <1>2, <1>3, <4>1, <3>1 DEF SessionsOf
      <4>5. SnapshotOK(q)'
        BY <3>1, <4>2, <4>4 DEF SnapshotOK, Unchanged
      <4> QED BY <3>2, <4>3, <4>5
    <3> QED BY <3>3, <3>4
  <2> QED BY <2>1, <2>2
<1> QED BY <1>6, <1>7, <1>8 DEF AccountInv

\* Bootstrap and AcceptInvitation.
LEMMA CreatorsKeepIt ==
    ASSUME AccountInv, NEW r \in Requests, Bootstrap(r) \/ AcceptInvitation(r)
    PROVE  AccountInv'
<1> USE IdentityAssumption
<1>t. IdentityTypeOK /\ BegunOK(r) /\ request[r] \in RequestStates
  BY DEF AccountInv, IdentityTypeOK
<1>g. /\ request[r].pc \in {"bootstrap", "accept"} /\ Goes(r, "done")
      /\ request' \in [Requests -> RequestStates] /\ request'[r].pc = "done"
      /\ \A x \in Requests \ {r} : request'[x] = request[x]
      /\ request'[r].user = request[r].user /\ request'[r].password = request[r].password
      /\ request'[r].now = request[r].now
  <2>1. request[r].pc \in {"bootstrap", "accept"} /\ Goes(r, "done")
    BY DEF Bootstrap, AcceptInvitation
  <2> QED BY <1>t, <2>1, GoesOn
<1>n. /\ request[r].user \in Emails /\ request[r].password \in Passwords /\ request[r].now \in 1 .. MaxTime
      /\ NewSession(r) \in SessionDocuments
  BY <1>t, <1>g DEF BegunOK, NewSession, SessionDocuments
<1>q. ASSUME UNCHANGED <<user, sessions, invitation, attempts, clock>> PROVE AccountInv'
  <2>1. IdentityTypeOK'
    BY <1>q, <1>t, <1>g DEF IdentityTypeOK
  <2>2. BegunOK(r)' /\ WriterOK(r)' /\ SnapshotOK(r)'
    BY <1>g, <1>n DEF BegunOK, WriterOK, SnapshotOK
  <2> QED BY <1>q, <1>g, <2>1, <2>2, RequestMoves
<1>u. ASSUME NEW e \in Emails, user' = [user EXCEPT ![e] = [password |-> request[r].password, revision |-> 0]]
      PROVE  user' \in [Emails -> [password : Passwords \cup {"none"}, revision : Nat]]
  BY <1>u, <1>n, <1>t DEF IdentityTypeOK
<1>1. CASE Bootstrap(r)
  <2>1. CASE \E e \in Emails : Exists(e)
    BY <1>1, <1>q, <2>1 DEF Bootstrap
  <2>2. CASE ~\E e \in Emails : Exists(e)
    <3>1. /\ user' = [user EXCEPT ![Owner] = [password |-> request[r].password, revision |-> 0]]
          /\ sessions' = sessions \cup {NewSession(r)}
          /\ UNCHANGED <<invitation, attempts, clock>>
      BY <1>1, <2>2 DEF Bootstrap
    <3>2. request[r].user = Owner
      BY <1>1, <1>t DEF Bootstrap, BegunOK
    <3>3. IdentityTypeOK'
      BY <1>u, <1>g, <1>n, <1>t, <3>1 DEF IdentityTypeOK
    <3> QED BY <1>g, <2>2, <3>1, <3>2, <3>3, CreationKeepsIt
  <2> QED BY <2>1, <2>2
<1>2. CASE AcceptInvitation(r)
  <2>i. PICK i : i = request[r].op
    OBVIOUS
  <2>1. CASE ~(Acceptable(i, request[r].version) /\ ~Exists(Guest))
    BY <1>2, <1>q, <2>1, <2>i DEF AcceptInvitation
  <2>2. CASE Acceptable(i, request[r].version) /\ ~Exists(Guest)
    <3>1. /\ user' = [user EXCEPT ![Guest] = [password |-> request[r].password, revision |-> 0]]
          /\ sessions' = sessions \cup {NewSession(r)}
          /\ invitation' = [invitation EXCEPT ![i] = [status |-> "accepted", version |-> @.version + 1]]
          /\ UNCHANGED <<attempts, clock>>
      BY <1>2, <2>2, <2>i DEF AcceptInvitation
    <3>2. request[r].user = Guest /\ i \in Invitations
      BY <1>2, <1>t, <2>i DEF AcceptInvitation, BegunOK
    <3>3. invitation' \in [Invitations -> [status : {"none", "active", "accepted", "revoked"}, version : Nat]]
      BY <3>1, <3>2, <1>t DEF IdentityTypeOK
    <3>4. IdentityTypeOK'
      BY <1>u, <1>g, <1>n, <1>t, <3>1, <3>3 DEF IdentityTypeOK
    <3> QED BY <1>g, <2>2, <3>1, <3>2, <3>4, CreationKeepsIt
  <2> QED BY <2>1, <2>2
<1> QED BY <1>1, <1>2

\* A transaction that commits moves the revision of its user, so what the
\* other transactions on that user have read is known to be old.
LEMMA CommitKeepsIt ==
    ASSUME AccountInv, NEW r \in Requests, NEW e \in Emails, e = request[r].user,
           request[r].pc = "write", Goes(r, "done"), IdentityTypeOK',
           user'[e].revision = user[e].revision + 1, Exists(e)',
           \A f \in Emails \ {e} : user'[f] = user[f],
           \A f \in Emails \ {e} : SessionsOf(f)' \subseteq SessionsOf(f),
           SessionIsOfItsRequest', OldPasswordOpensNothing'
    PROVE  AccountInv'
<1>t. /\ IdentityTypeOK /\ \A f \in Emails : user[f].revision \in Nat
  BY DEF AccountInv, IdentityTypeOK
<1>1. /\ \A x \in Requests \ {r} : request'[x] = request[x]
      /\ request'[r].pc = "done" /\ request'[r].user = e
      /\ request'[r].password = request[r].password /\ request'[r].now = request[r].now
  BY <1>t, GoesOn
<1>2. ASSUME NEW q \in Requests PROVE BegunOK(q)' /\ WriterOK(q)' /\ SnapshotOK(q)'
  <2>1. CASE q = r
    <3>1. BegunOK(r)
      BY DEF AccountInv
    <3> QED BY <1>1, <2>1, <3>1 DEF BegunOK, WriterOK, SnapshotOK
  <2>2. CASE q # r
    <3>1. request'[q] = request[q] /\ BegunOK(q) /\ WriterOK(q) /\ SnapshotOK(q)
      BY <1>1, <2>2 DEF AccountInv
    <3>2. BegunOK(q)'
      BY <3>1 DEF BegunOK
    <3>3. CASE request[q].pc \notin {"begin", "write"}
      BY <3>1, <3>2, <3>3 DEF WriterOK, SnapshotOK
    <3>4. CASE request[q].pc \in {"begin", "write"}
      <4>1. request[q].user \in Emails
        BY <3>1, <3>4 DEF BegunOK
      <4>2. Exists(request[q].user)'
        BY <3>1, <3>4, <4>1 DEF WriterOK, Exists
      <4>3. WriterOK(q)'
        <5>1. request[q].op = "change" =>
                 /\ request[q].next \in Passwords /\ request[q].current \in Requests
                 /\ request'[request[q].current].pc = "done"
                 /\ request'[request[q].current].user = request[q].user
          BY <1>1, <3>1, <3>4 DEF WriterOK
        <5> QED BY <3>1, <4>2, <5>1 DEF WriterOK
      <4>4. SnapshotOK(q)'
        <5>1. CASE request[q].pc = "begin"
          BY <3>1, <5>1 DEF SnapshotOK
        <5>2. CASE request[q].pc = "write" /\ request[q].user = e
          <6>1. request[q].revision <= user[e].revision /\ request[q].revision \in Int
            BY <3>1, <5>2, <1>t DEF SnapshotOK, IdentityTypeOK, RequestStates
          <6>2. request[q].revision <= user'[e].revision /\ user'[e].revision # request[q].revision
            BY <6>1, <1>t
          <6> QED BY <3>1, <5>2, <6>2 DEF SnapshotOK, Unchanged
        <5>3. CASE request[q].pc = "write" /\ request[q].user # e
          <6>1. PICK f \in Emails \ {e} : f = request[q].user
            BY <4>1, <5>3
          <6>2. user'[f] = user[f] /\ SessionsOf(f)' \subseteq SessionsOf(f)
            BY <6>1
          <6> QED BY <3>1, <5>3, <6>1, <6>2 DEF SnapshotOK, Unchanged
        <5> QED BY <3>4, <5>1, <5>2, <5>3
      <4> QED BY <3>2, <4>3, <4>4
    <3> QED BY <3>3, <3>4
  <2> QED BY <2>1, <2>2
<1> QED BY <1>2 DEF AccountInv

\* What a request that writes may rely on, and what becomes of it when its
\* filter or its transaction fails.
LEMMA WriterFacts ==
    ASSUME AccountInv, NEW r \in Requests, request[r].pc = "write"
    PROVE  /\ IdentityTypeOK /\ request[r] \in RequestStates
           /\ request[r].user \in Emails /\ request[r].password \in Passwords
           /\ request[r].now \in 1 .. MaxTime /\ Exists(request[r].user)
           /\ user[request[r].user] \in [password : Passwords \cup {"none"}, revision : Nat]
           /\ request[r].snapshot \subseteq SessionDocuments
           /\ Unchanged(r) => SessionsOf(request[r].user) \subseteq request[r].snapshot
           /\ \A s \in sessions :
                 /\ s \in SessionDocuments /\ s.id \in Requests \ {r}
                 /\ request[s.id].pc = "done" /\ request[s.id].user = s.user
                 /\ s.password = user[s.user].password
  BY DEF AccountInv, IdentityTypeOK, BegunOK, WriterOK, SnapshotOK, RequestStates, SessionDocuments,
     SessionIsOfItsRequest, OldPasswordOpensNothing

\* A refused request ends, or begins its transaction again.
LEMMA RefusalKeepsIt ==
    ASSUME AccountInv, NEW r \in Requests, request[r].pc = "write",
           Goes(r, "done") \/ Goes(r, "begin"),
           UNCHANGED <<user, sessions, invitation, attempts, clock>>
    PROVE  AccountInv'
<1>t. IdentityTypeOK /\ BegunOK(r) /\ WriterOK(r)
  BY DEF AccountInv
<1>1. /\ request' \in [Requests -> RequestStates] /\ request'[r].pc \in {"done", "begin"}
      /\ \A x \in Requests \ {r} : request'[x] = request[x]
      /\ request'[r].user = request[r].user /\ request'[r].password = request[r].password
      /\ request'[r].now = request[r].now /\ request'[r].op = request[r].op
      /\ request'[r].next = request[r].next /\ request'[r].current = request[r].current
  BY <1>t, GoesOn
<1>2. IdentityTypeOK'
  BY <1>1, <1>t DEF IdentityTypeOK
<1>3. BegunOK(r)' /\ SnapshotOK(r)'
  BY <1>1, <1>t DEF BegunOK, SnapshotOK
<1>4. WriterOK(r)'
  BY <1>1, <1>t DEF WriterOK, Exists
<1> QED BY <1>1, <1>2, <1>3, <1>4, RequestMoves

\* The new session has the password that the filter found in the user.
LEMMA CreateSessionKeepsIt ==
    ASSUME AccountInv, NEW r \in Requests, CreateSession(r)
    PROVE  AccountInv'
<1>1. request[r].pc = "write" /\ UNCHANGED <<invitation, attempts, clock>>
  BY DEF CreateSession
<1>2. CASE ~Unchanged(r) \/ ~SamePassword(r)
  <2>1. (Goes(r, "done") \/ Goes(r, "begin")) /\ UNCHANGED <<user, sessions>>
    BY <1>2 DEF CreateSession
  <2> QED BY <1>1, <2>1, RefusalKeepsIt
<1>3. CASE Unchanged(r) /\ SamePassword(r)
  <2>f. PICK e : e = request[r].user
    OBVIOUS
  <2>1. PICK new, seen : new = NewSession(r) /\ seen = request[r].snapshot \cup {new}
    OBVIOUS
  <2>2. /\ user' = [user EXCEPT ![e].revision = @ + 1]
        /\ sessions' = (sessions \cup {new}) \ (seen \ Newest(seen))
        /\ Goes(r, "done")
    BY <1>3, <2>f, <2>1 DEF CreateSession
  <2>3. /\ IdentityTypeOK /\ e \in Emails /\ request[r].password \in Passwords /\ Exists(e)
        /\ user \in [Emails -> [password : Passwords \cup {"none"}, revision : Nat]]
        /\ \A s \in sessions :
                 /\ s \in SessionDocuments /\ s.id \in Requests \ {r}
                 /\ request[s.id].pc = "done" /\ request[s.id].user = s.user
                 /\ s.password = user[s.user].password
    BY <1>1, <2>f, WriterFacts DEF IdentityTypeOK
  <2>4. /\ new \in SessionDocuments /\ new.id = r /\ new.user = e
        /\ new.password = user[e].password
    BY <1>1, <1>3, <2>1, <2>f, WriterFacts DEF NewSession, SessionDocuments, SamePassword
  <2>5. /\ user' \in [Emails -> [password : Passwords \cup {"none"}, revision : Nat]]
        /\ \A f \in Emails \ {e} : user'[f] = user[f]
        /\ user'[e].revision = user[e].revision + 1 /\ user'[e].password = user[e].password
    BY <2>2, <2>3
  <2>6. /\ request' \in [Requests -> RequestStates] /\ request'[r].pc = "done" /\ request'[r].user = e
        /\ \A x \in Requests \ {r} : request'[x] = request[x]
    BY <2>2, <2>3, <2>f, GoesOn
  <2>7. sessions' \subseteq sessions \cup {new}
    BY <2>2
  <2>8. IdentityTypeOK'
    BY <1>1, <2>3, <2>4, <2>5, <2>6, <2>7 DEF IdentityTypeOK
  <2>9. OldPasswordOpensNothing'
    <3> SUFFICES ASSUME NEW s \in sessions' PROVE s.password = user'[s.user].password
      BY DEF OldPasswordOpensNothing
    <3>1. CASE s = new
      BY <2>4, <2>5, <3>1
    <3>2. CASE s \in sessions
      <4>1. s.user \in Emails /\ s.password = user[s.user].password
        BY <2>3, <3>2 DEF SessionDocuments
      <4> QED BY <2>5, <4>1
    <3> QED BY <2>7, <3>1, <3>2
  <2>10. SessionIsOfItsRequest'
    BY <2>3, <2>4, <2>6, <2>7 DEF SessionIsOfItsRequest
  <2>11. \A f \in Emails \ {e} : SessionsOf(f)' \subseteq SessionsOf(f)
    BY <2>4, <2>7 DEF SessionsOf
  <2>12. Exists(e)'
    BY <2>3, <2>5 DEF Exists
  <2> QED BY <1>1, <2>2, <2>3, <2>f, <2>5, <2>8, <2>9, <2>10, <2>11, <2>12, CommitKeepsIt
<1> QED BY <1>2, <1>3

\* The change deletes what its snapshot has of the user and keeps the session
\* of the request, which takes the new password; no session was added since.
LEMMA ChangePasswordKeepsIt ==
    ASSUME AccountInv, NEW r \in Requests, ChangePassword(r)
    PROVE  AccountInv'
<1>1. /\ request[r].pc = "write" /\ request[r].op = "change" /\ UNCHANGED <<invitation, attempts, clock>>
  BY DEF ChangePassword
<1>2. CASE ~Unchanged(r) \/ ~SamePassword(r)
  <2>1. (Goes(r, "done") \/ Goes(r, "begin")) /\ UNCHANGED <<user, sessions>>
    BY <1>2 DEF ChangePassword
  <2> QED BY <1>1, <2>1, RefusalKeepsIt
<1>3. CASE Unchanged(r) /\ SamePassword(r)
  <2>f. PICK e, c, p : e = request[r].user /\ c = request[r].current /\ p = request[r].next
    OBVIOUS
  <2>2. /\ user' = [user EXCEPT ![e] = [password |-> p, revision |-> @.revision + 1]]
        /\ sessions' = {IF s.id = c THEN [s EXCEPT !.password = p] ELSE s :
                           s \in sessions \ {s \in request[r].snapshot : s.id # c}}
        /\ Goes(r, "done")
    BY <1>3, <2>f DEF ChangePassword
  <2>3. /\ IdentityTypeOK /\ e \in Emails
        /\ user \in [Emails -> [password : Passwords \cup {"none"}, revision : Nat]]
        /\ SessionsOf(e) \subseteq request[r].snapshot
        /\ \A s \in sessions :
                 /\ s \in SessionDocuments /\ s.id \in Requests \ {r}
                 /\ request[s.id].pc = "done" /\ request[s.id].user = s.user
                 /\ s.password = user[s.user].password
    BY <1>1, <1>3, <2>f, WriterFacts DEF IdentityTypeOK
  <2>4. p \in Passwords /\ request[c].user = e
    BY <1>1, <2>f DEF AccountInv, WriterOK
  <2>5. /\ user' \in [Emails -> [password : Passwords \cup {"none"}, revision : Nat]]
        /\ \A f \in Emails \ {e} : user'[f] = user[f]
        /\ user'[e].revision = user[e].revision + 1 /\ user'[e].password = p
    BY <2>2, <2>3, <2>4
  <2>6. /\ request' \in [Requests -> RequestStates] /\ request'[r].pc = "done" /\ request'[r].user = e
        /\ \A x \in Requests \ {r} : request'[x] = request[x]
    BY <2>2, <2>3, <2>f, GoesOn
  <2>7. ASSUME NEW t \in sessions'
        PROVE  \E s \in sessions : /\ t.id = s.id /\ t.user = s.user /\ t \in SessionDocuments
                                   /\ s.user = e => t.password = p
                                   /\ s.user # e => t = s
    <3>1. PICK s \in sessions \ {s \in request[r].snapshot : s.id # c} :
             t = IF s.id = c THEN [s EXCEPT !.password = p] ELSE s
      BY <2>2
    <3>2. s.user = e <=> s.id = c
      BY <2>3, <2>4, <3>1 DEF SessionsOf
    <3>3. s \in SessionDocuments
      BY <2>3, <3>1
    <3>4. CASE s.id = c
      <4>1. t = [s EXCEPT !.password = p]
        BY <3>1, <3>4
      <4>2. t.id = s.id /\ t.user = s.user /\ t.password = p /\ t \in SessionDocuments
        BY <2>4, <3>3, <4>1 DEF SessionDocuments
      <4> QED BY <3>1, <3>2, <3>4, <4>2
    <3>5. CASE s.id # c
      BY <3>1, <3>2, <3>3, <3>5
    <3> QED BY <3>4, <3>5
  <2>8. IdentityTypeOK'
    <3>1. sessions' \subseteq SessionDocuments
      BY <2>7
    <3> QED BY <1>1, <2>3, <2>5, <2>6, <3>1 DEF IdentityTypeOK
  <2>9. OldPasswordOpensNothing'
    <3> SUFFICES ASSUME NEW t \in sessions' PROVE t.password = user'[t.user].password
      BY DEF OldPasswordOpensNothing
    <3>1. PICK s \in sessions : /\ t.id = s.id /\ t.user = s.user
                                /\ s.user = e => t.password = p
                                /\ s.user # e => t = s
      BY <2>7
    <3>2. s.user \in Emails /\ s.password = user[s.user].password
      BY <2>3 DEF SessionDocuments
    <3> QED BY <2>5, <3>1, <3>2
  <2>10. SessionIsOfItsRequest'
    <3> SUFFICES ASSUME NEW t \in sessions' PROVE request'[t.id].pc = "done" /\ request'[t.id].user = t.user
      BY DEF SessionIsOfItsRequest
    <3>1. PICK s \in sessions : t.id = s.id /\ t.user = s.user
      BY <2>7
    <3> QED BY <2>3, <2>6, <3>1
  <2>11. \A f \in Emails \ {e} : SessionsOf(f)' \subseteq SessionsOf(f)
    BY <2>7 DEF SessionsOf
  <2>12. Exists(e)'
    BY <2>4, <2>5, IdentityAssumption DEF Exists
  <2> QED BY <1>1, <2>2, <2>3, <2>f, <2>5, <2>8, <2>9, <2>10, <2>11, <2>12, CommitKeepsIt
<1> QED BY <1>2, <1>3

\* Sessions end, invitations come and go, time passes: what the requests have
\* read remains true.
LEMMA OthersKeepIt ==
    ASSUME AccountInv, UNCHANGED <<user, request>>, sessions' \subseteq sessions, IdentityTypeOK'
    PROVE  AccountInv'
<1>1. OldPasswordOpensNothing' /\ SessionIsOfItsRequest'
  BY DEF AccountInv, OldPasswordOpensNothing, SessionIsOfItsRequest
<1>2. ASSUME NEW r \in Requests PROVE BegunOK(r)' /\ WriterOK(r)' /\ SnapshotOK(r)'
  <2>1. BegunOK(r) /\ WriterOK(r) /\ SnapshotOK(r)
    BY DEF AccountInv
  <2> QED BY <2>1 DEF BegunOK, WriterOK, SnapshotOK, Exists, Unchanged, SessionsOf
<1> QED BY <1>1, <1>2 DEF AccountInv

\* Revoking removes sessions and nothing else.
LEMMA RevocationKeepsIt ==
    ASSUME AccountInv, NEW set, Revoke(set)
    PROVE  AccountInv'
<1>1. IdentityTypeOK
  BY DEF AccountInv
<1>2. IdentityTypeOK'
  BY <1>1 DEF Revoke, IdentityTypeOK
<1> QED BY <1>2, OthersKeepIt DEF Revoke

\* Invitations are created and revoked beside the sessions.
LEMMA InvitationsKeepIt ==
    ASSUME AccountInv, NEW i \in Invitations, CreateInvitation(i) \/ RevokeInvitation(i)
    PROVE  AccountInv'
<1>1. IdentityTypeOK
  BY DEF AccountInv
<1>v. invitation[i].version + 1 \in Nat
  BY <1>1 DEF IdentityTypeOK
<1>i. invitation' \in [Invitations -> [status : {"none", "active", "accepted", "revoked"}, version : Nat]]
  <2>1. CASE CreateInvitation(i)
    BY <1>1, <2>1 DEF CreateInvitation, IdentityTypeOK
  <2>2. CASE RevokeInvitation(i)
    <3>1. PICK v : v = [status |-> "revoked", version |-> invitation[i].version + 1]
      OBVIOUS
    <3>2. invitation' = [invitation EXCEPT ![i] = v]
      BY <2>2, <3>1 DEF RevokeInvitation
    <3> QED BY <1>1, <1>v, <3>1, <3>2 DEF IdentityTypeOK
  <2> QED BY <2>1, <2>2
<1>2. IdentityTypeOK'
  BY <1>1, <1>i DEF CreateInvitation, RevokeInvitation, IdentityTypeOK
<1> QED BY <1>2, OthersKeepIt DEF CreateInvitation, RevokeInvitation

\* Time passes; what a request has read of the clock stays behind it.
LEMMA TimeKeepsIt ==
    ASSUME AccountInv, TimePasses
    PROVE  AccountInv'
<1>1. IdentityTypeOK
  BY DEF AccountInv
<1>2. IdentityTypeOK'
  BY <1>1, IdentityAssumption DEF TimePasses, IdentityTypeOK
<1> QED BY <1>2, OthersKeepIt DEF TimePasses

\* The inductive step of the accounts.
LEMMA AccountStep == AccountInv /\ [IdentityNext]_identityVars => AccountInv'
<1> SUFFICES ASSUME AccountInv, [IdentityNext]_identityVars PROVE AccountInv'
  OBVIOUS
<1>1. CASE \E r \in Requests, p \in Passwords :
              \/ StartBootstrap(r, p)
              \/ \E i \in Invitations : FindInvitation(r, i, p)
              \/ \E e \in Emails : ReadAttempts(r, e, p)
              \/ \E s \in sessions : VerifyCurrent(r, s, p)
  BY <1>1, ReadersKeepIt, VerifyCurrentKeepsIt
<1>2. CASE \E r \in Requests : Proceed(r)
  BY <1>2, CreatorsKeepIt, GuardKeepsIt, BeginKeepsIt, CreateSessionKeepsIt, ChangePasswordKeepsIt
     DEF Proceed
<1>3. CASE \E i \in Invitations : CreateInvitation(i) \/ RevokeInvitation(i)
  BY <1>3, InvitationsKeepIt
<1>4. CASE \E s \in sessions : RevokeSession(s) \/ RevokeUserSession(s)
  BY <1>4, RevocationKeepsIt DEF RevokeSession, RevokeUserSession
<1>5. CASE RevokeAllUserSessions
  BY <1>5, RevocationKeepsIt DEF RevokeAllUserSessions
<1>6. CASE TimePasses
  BY <1>6, TimeKeepsIt
<1>7. CASE UNCHANGED identityVars
  <2>1. IdentityTypeOK
    BY DEF AccountInv
  <2>2. IdentityTypeOK'
    BY <1>7, <2>1 DEF identityVars, IdentityTypeOK
  <2> QED BY <1>7, <2>2, OthersKeepIt DEF identityVars
<1> QED BY <1>1, <1>2, <1>3, <1>4, <1>5, <1>6, <1>7 DEF IdentityNext

\* The accounts alone, under every interleaving of requests and Servers
\* (identity/biz/usecase.go over identity/data/mongo.go).
THEOREM AccountInvariance == IdentitySpec => []AccountInv
<1>1. IdentityInit => AccountInv
  BY AccountInit
<1>2. AccountInv /\ [IdentityNext]_identityVars => AccountInv'
  BY AccountStep
<1> QED BY <1>1, <1>2, PTL DEF IdentitySpec

\* No request and no lapse of time changes an invitation that has ended: the
\* version a request read is compared when it writes (CanReplaceInvitation).
LEMMA InvitationStep ==
    ASSUME AccountInv, [IdentityNext]_identityVars
    PROVE  InvitationStaysEnded
<1> SUFFICES ASSUME NEW j \in Invitations, invitation[j].status \in {"accepted", "revoked"}
             PROVE  invitation'[j] = invitation[j]
  BY DEF InvitationStaysEnded
<1>t. j \in DOMAIN invitation
  BY DEF AccountInv, IdentityTypeOK
<1>1. ASSUME NEW i, invitation[i].status \notin {"accepted", "revoked"}, NEW v,
             invitation' = [invitation EXCEPT ![i] = v]
      PROVE  invitation'[j] = invitation[j]
  BY <1>1, <1>t
<1>2. CASE \E r \in Requests : AcceptInvitation(r)
  BY <1>1, <1>2 DEF AcceptInvitation, Acceptable, CanReplace
<1>3. CASE \E i \in Invitations : CreateInvitation(i) \/ RevokeInvitation(i)
  BY <1>1, <1>3 DEF CreateInvitation, RevokeInvitation, CanReplace
<1>4. CASE UNCHANGED invitation
  BY <1>4
<1>5. \/ \E r \in Requests : AcceptInvitation(r)
      \/ \E i \in Invitations : CreateInvitation(i) \/ RevokeInvitation(i)
      \/ UNCHANGED invitation
  BY DEF IdentityNext, identityVars, Proceed, StartBootstrap, FindInvitation, ReadAttempts,
     VerifyCurrent, Bootstrap, ReserveLoginAttempt, Verify, BeginTransaction, CreateSession,
     ChangePassword, RevokeSession, RevokeUserSession, RevokeAllUserSessions, Revoke, TimePasses
<1> QED BY <1>2, <1>3, <1>4, <1>5

\* An invitation that was revoked or accepted stays as it is
\* (identity/data/mongo.go, AcceptInvitation).
THEOREM InvitationEndsOnceHolds == IdentitySpec => InvitationEndsOnce
<1>1. AccountInv /\ [IdentityNext]_identityVars => [InvitationStaysEnded]_identityVars
  BY InvitationStep
<1> QED BY <1>1, AccountInvariance, PTL DEF IdentitySpec, InvitationEndsOnce

-----------------------------------------------------------------------------
(* The limit of sessions.  A login keeps the newest of what its snapshot has *)
(* and its own session, and the snapshot has every session of the user or    *)
(* the transaction fails.                                                    *)

\* One session of each request.
OnePerRequest(set) == \A s, t \in set : s.id = t.id => s = t

TakenOK(r) ==
    request[r].pc = "write" =>
        /\ IsFiniteSet(request[r].snapshot) /\ OnePerRequest(request[r].snapshot)
        /\ \A s \in request[r].snapshot : request[s.id].pc = "done"

SessionInv ==
    /\ IsFiniteSet(sessions) /\ OnePerRequest(sessions) /\ SessionsAreLimited
    /\ \A r \in Requests : TakenOK(r)

\* Every set of numbers that is not empty has a least one.
LEMMA LeastNatural ==
    ASSUME NEW T, T \subseteq Nat, T # {}
    PROVE  \E x \in T : \A y \in T : x <= y
<1>1. PICK x \in T : \A y \in T : ~(<<y, x>> \in OpToRel(<, Nat))
  BY NatLessThanWellFounded, WFMin
<1>2. ASSUME NEW y \in T PROVE x <= y
  <2>1. ~(<<y, x>> \in OpToRel(<, Nat))
    BY <1>1
  <2>2. ~(y < x)
    BY <2>1 DEF OpToRel
  <2> QED BY <2>2
<1> QED BY <1>2

\* Newest keeps no more than the limit: all others it keeps are newer than the
\* oldest it keeps.
LEMMA NewestIsLimited ==
    ASSUME NEW set, IsFiniteSet(set), set \subseteq SessionDocuments, OnePerRequest(set)
    PROVE  IsFiniteSet(Newest(set)) /\ Cardinality(Newest(set)) <= MaxSessions
<1> USE IdentityAssumption
<1>1. PICK kept : kept = Newest(set)
  OBVIOUS
<1>2. /\ kept \subseteq set /\ IsFiniteSet(kept)
      /\ \A s \in kept : Cardinality({t \in set : Newer(t, s)}) < MaxSessions
  <2>1. kept \in SUBSET set
    BY <1>1 DEF Newest
  <2> QED BY <1>1, <2>1, FS_Subset DEF Newest
<1>3. CASE kept = {}
  BY <1>1, <1>3, FS_EmptySet
<1>4. CASE kept # {}
  <2>1. \A s \in kept : s.created \in Nat /\ s.id \in Nat
    <3>1. \A s \in kept : s.created \in 1 .. MaxTime /\ s.id \in Requests
      BY <1>2 DEF SessionDocuments
    <3>2. Requests \subseteq Nat /\ 1 .. MaxTime \subseteq Nat
      OBVIOUS
    <3> QED BY <3>1, <3>2
  <2>2. PICK c \in {s.created : s \in kept} : \A d \in {s.created : s \in kept} : c <= d
    <3>1. {s.created : s \in kept} \subseteq Nat /\ {s.created : s \in kept} # {}
      BY <1>4, <2>1
    <3> QED BY <3>1, LeastNatural
  <2>3. PICK i \in {s.id : s \in {t \in kept : t.created = c}} :
            \A j \in {s.id : s \in {t \in kept : t.created = c}} : i <= j
    <3>1. {s.id : s \in {t \in kept : t.created = c}} \subseteq Nat
      BY <2>1
    <3>2. {s.id : s \in {t \in kept : t.created = c}} # {}
      BY <2>2
    <3> QED BY <3>1, <3>2, LeastNatural
  <2>4. PICK s \in kept : s.created = c /\ s.id = i
    BY <2>3
  <2>5. ASSUME NEW t \in kept \ {s} PROVE Newer(t, s)
    <3>1. c <= t.created /\ t.created \in Nat /\ c \in Nat /\ t.id \in Nat /\ i \in Nat
      BY <2>1, <2>2, <2>4
    <3>2. t.id # s.id
      BY <1>2, <2>5 DEF OnePerRequest
    <3>3. t.created = c => i <= t.id
      BY <2>3
    <3> QED BY <2>4, <3>1, <3>2, <3>3 DEF Newer
  <2>6. PICK newer : newer = {t \in set : Newer(t, s)}
    OBVIOUS
  <2>7. IsFiniteSet(newer) /\ Cardinality(newer) < MaxSessions /\ Cardinality(newer) \in Nat
    <3>1. newer \in SUBSET set
      BY <2>6
    <3> QED BY <1>2, <2>6, <3>1, FS_Subset, FS_CardinalityType
  <2>8. /\ Cardinality(kept \ {s}) <= Cardinality(newer)
        /\ Cardinality(kept) \in Nat /\ Cardinality(kept \ {s}) = Cardinality(kept) - 1
    <3>1. kept \ {s} \in SUBSET newer
      BY <1>2, <2>5, <2>6
    <3> QED BY <1>2, <2>7, <3>1, FS_Subset, FS_RemoveElement, FS_CardinalityType
  <2> QED BY <1>1, <1>2, <2>7, <2>8
<1> QED BY <1>3, <1>4

\* What a step leaves as it is: it may end sessions, and it moves requests that
\* are not over.
LEMMA LimitStays ==
    ASSUME AccountInv, SessionInv, IdentityTypeOK', sessions' \subseteq sessions,
           \A q \in Requests : \/ request'[q] = request[q]
                               \/ request[q].pc # "done" /\ request'[q].pc # "write"
                               \/ request[q].pc # "done" /\ TakenOK(q)'
    PROVE  SessionInv'
<1>1. IsFiniteSet(sessions') /\ OnePerRequest(sessions')
  BY FS_Subset DEF SessionInv, OnePerRequest
<1>2. ASSUME NEW e \in Emails PROVE Cardinality(SessionsOf(e)') <= MaxSessions
  <2>1. SessionsOf(e)' \in SUBSET SessionsOf(e) /\ IsFiniteSet(SessionsOf(e))
    <3>1. SessionsOf(e) \in SUBSET sessions
      BY DEF SessionsOf
    <3> QED BY <3>1, FS_Subset DEF SessionsOf, SessionInv
  <2>2. Cardinality(SessionsOf(e)') <= Cardinality(SessionsOf(e)) /\ Cardinality(SessionsOf(e)') \in Nat
    BY <2>1, FS_Subset, FS_CardinalityType
  <2>3. Cardinality(SessionsOf(e)) <= MaxSessions /\ Cardinality(SessionsOf(e)) \in Nat
    BY <2>1, FS_CardinalityType DEF SessionInv, SessionsAreLimited
  <2> QED BY <2>2, <2>3, IdentityAssumption
<1>3. ASSUME NEW q \in Requests PROVE TakenOK(q)'
  <2>1. CASE request'[q] = request[q]
    <3>1. TakenOK(q) /\ \A s \in request[q].snapshot : request[q].pc = "write" => s.id \in Requests
      BY DEF SessionInv, AccountInv, IdentityTypeOK, RequestStates, SessionDocuments
    <3>2. \A x \in Requests : request[x].pc = "done" => request'[x].pc = "done"
      BY DEF TakenOK
    <3> QED BY <2>1, <3>1, <3>2 DEF TakenOK
  <2>2. CASE request'[q].pc # "write"
    BY <2>2 DEF TakenOK
  <2> QED BY <2>1, <2>2
<1> QED BY <1>1, <1>2, <1>3 DEF SessionInv, SessionsAreLimited

\* The sessions of each user after a step that may add one to user e.
LEMMA LimitMoves ==
    ASSUME AccountInv, SessionInv, IdentityTypeOK', NEW r \in Requests, NEW e \in Emails,
           request[r].pc # "done", request'[r].pc # "write",
           \A q \in Requests \ {r} : request'[q] = request[q],
           IsFiniteSet(sessions'), OnePerRequest(sessions'),
           Cardinality(SessionsOf(e)') <= MaxSessions,
           \A f \in Emails \ {e} : SessionsOf(f)' \subseteq SessionsOf(f)
    PROVE  SessionInv'
<1>1. ASSUME NEW f \in Emails \ {e} PROVE Cardinality(SessionsOf(f)') <= MaxSessions
  <2>1. SessionsOf(f)' \in SUBSET SessionsOf(f) /\ IsFiniteSet(SessionsOf(f))
    <3>1. SessionsOf(f) \in SUBSET sessions
      BY DEF SessionsOf
    <3> QED BY <3>1, FS_Subset DEF SessionInv
  <2>2. Cardinality(SessionsOf(f)') <= Cardinality(SessionsOf(f)) /\ Cardinality(SessionsOf(f)') \in Nat
    BY <2>1, FS_Subset, FS_CardinalityType
  <2>3. Cardinality(SessionsOf(f)) <= MaxSessions /\ Cardinality(SessionsOf(f)) \in Nat
    BY <2>1, FS_CardinalityType DEF SessionInv, SessionsAreLimited
  <2> QED BY <2>2, <2>3, IdentityAssumption
<1>2. ASSUME NEW q \in Requests PROVE TakenOK(q)'
  <2>1. CASE q # r
    <3>1. TakenOK(q) /\ \A s \in request[q].snapshot : s.id \in Requests
      BY DEF SessionInv, AccountInv, IdentityTypeOK, RequestStates, SessionDocuments
    <3> QED BY <2>1, <3>1 DEF TakenOK
  <2>2. CASE q = r
    BY <2>2 DEF TakenOK
  <2> QED BY <2>1, <2>2
<1> QED BY <1>1, <1>2 DEF SessionInv, SessionsAreLimited

\* One session in place of none.
LEMMA FirstSession ==
    ASSUME AccountInv, SessionInv, IdentityTypeOK', NEW r \in Requests, NEW e \in Emails, ~Exists(e),
           e = request[r].user, request[r].pc \in {"bootstrap", "accept"}, Goes(r, "done"),
           sessions' = sessions \cup {NewSession(r)}
    PROVE  SessionInv'
<1> USE IdentityAssumption
<1>1. PICK new : new = NewSession(r)
  OBVIOUS
<1>2. new.id = r /\ new.user = e /\ sessions' = sessions \cup {new}
  BY <1>1 DEF NewSession
<1>3. \A s \in sessions : s.id \in Requests \ {r} /\ s.user # e
  BY DEF AccountInv, IdentityTypeOK, SessionDocuments, OldPasswordOpensNothing, SessionIsOfItsRequest, Exists
<1>4. IsFiniteSet(sessions') /\ OnePerRequest(sessions')
  BY <1>2, <1>3, FS_AddElement DEF SessionInv, OnePerRequest
<1>5. SessionsOf(e)' = {new} /\ \A f \in Emails \ {e} : SessionsOf(f)' \subseteq SessionsOf(f)
  BY <1>2, <1>3 DEF SessionsOf
<1>6. Cardinality({new}) = 1 /\ 1 <= MaxSessions
  <2>1. Cardinality({new}) = 1
    BY FS_Singleton
  <2>2. 1 <= MaxSessions
    OBVIOUS
  <2> QED BY <2>1, <2>2
<1>7. Cardinality(SessionsOf(e)') <= MaxSessions
  BY <1>5, <1>6
<1>8. request'[r].pc = "done" /\ \A q \in Requests \ {r} : request'[q] = request[q]
  BY GoesOn DEF AccountInv
<1> QED BY <1>4, <1>5, <1>7, <1>8, LimitMoves

\* The login that commits.
LEMMA LoginIsLimited ==
    ASSUME AccountInv, SessionInv, IdentityTypeOK', NEW r \in Requests, CreateSession(r)
    PROVE  SessionInv'
<1> USE IdentityAssumption
<1>1. request[r].pc = "write" /\ (Goes(r, "done") \/ Goes(r, "begin"))
  BY DEF CreateSession
<1>2. request'[r].pc # "write" /\ \A q \in Requests \ {r} : request'[q] = request[q]
  BY <1>1, GoesOn DEF AccountInv
<1>3. CASE ~Unchanged(r) \/ ~SamePassword(r)
  <2>1. sessions' = sessions
    BY <1>3 DEF CreateSession
  <2> QED BY <1>1, <1>2, <2>1, LimitStays
<1>4. CASE Unchanged(r) /\ SamePassword(r)
  <2>1. PICK new, seen, e : /\ new = NewSession(r) /\ seen = request[r].snapshot \cup {new}
                            /\ e = request[r].user
    OBVIOUS
  <2>2. sessions' = (sessions \cup {new}) \ (seen \ Newest(seen))
    BY <1>4, <2>1 DEF CreateSession
  <2>3. /\ new \in SessionDocuments /\ new.id = r /\ new.user = e /\ e \in Emails
        /\ seen \subseteq SessionDocuments /\ SessionsOf(e) \subseteq request[r].snapshot
        /\ \A s \in sessions : s.id # r
    BY <1>1, <1>4, <2>1, WriterFacts DEF NewSession, SessionDocuments
  <2>4. /\ IsFiniteSet(request[r].snapshot) /\ OnePerRequest(request[r].snapshot)
        /\ \A s \in request[r].snapshot : s.id # r
    BY <1>1 DEF SessionInv, TakenOK
  <2>5. IsFiniteSet(seen) /\ OnePerRequest(seen)
    BY <2>1, <2>3, <2>4, FS_AddElement DEF OnePerRequest
  <2>6. IsFiniteSet(Newest(seen)) /\ Cardinality(Newest(seen)) <= MaxSessions
    BY <2>3, <2>5, NewestIsLimited
  <2>7. SessionsOf(e)' \in SUBSET Newest(seen)
    BY <2>1, <2>2, <2>3 DEF SessionsOf
  <2>8. Cardinality(SessionsOf(e)') <= MaxSessions
    <3>1. /\ Cardinality(SessionsOf(e)') <= Cardinality(Newest(seen))
          /\ Cardinality(SessionsOf(e)') \in Nat /\ Cardinality(Newest(seen)) \in Nat
      BY <2>6, <2>7, FS_Subset, FS_CardinalityType
    <3> QED BY <2>6, <3>1
  <2>9. IsFiniteSet(sessions') /\ OnePerRequest(sessions')
    <3>1. IsFiniteSet(sessions \cup {new})
      BY FS_AddElement DEF SessionInv
    <3>2. sessions' \in SUBSET (sessions \cup {new})
      BY <2>2
    <3> QED BY <2>3, <3>1, <3>2, FS_Subset DEF OnePerRequest, SessionInv
  <2>10. \A f \in Emails \ {e} : SessionsOf(f)' \subseteq SessionsOf(f)
    BY <2>2, <2>3 DEF SessionsOf
  <2> QED BY <1>1, <1>2, <2>3, <2>8, <2>9, <2>10, LimitMoves
<1> QED BY <1>3, <1>4

\* The change that commits leaves the one session of the request.
LEMMA ChangeIsLimited ==
    ASSUME AccountInv, SessionInv, IdentityTypeOK', NEW r \in Requests, ChangePassword(r)
    PROVE  SessionInv'
<1> USE IdentityAssumption
<1>1. request[r].pc = "write" /\ request[r].op = "change" /\ (Goes(r, "done") \/ Goes(r, "begin"))
  BY DEF ChangePassword
<1>2. request'[r].pc # "write" /\ \A q \in Requests \ {r} : request'[q] = request[q]
  BY <1>1, GoesOn DEF AccountInv
<1>3. CASE ~Unchanged(r) \/ ~SamePassword(r)
  <2>1. sessions' = sessions
    BY <1>3 DEF ChangePassword
  <2> QED BY <1>1, <1>2, <2>1, LimitStays
<1>4. CASE Unchanged(r) /\ SamePassword(r)
  <2>1. PICK e, c, p : e = request[r].user /\ c = request[r].current /\ p = request[r].next
    OBVIOUS
  <2>2. sessions' = {IF s.id = c THEN [s EXCEPT !.password = p] ELSE s :
                        s \in sessions \ {s \in request[r].snapshot : s.id # c}}
    BY <1>4, <2>1 DEF ChangePassword
  <2>3. /\ e \in Emails /\ SessionsOf(e) \subseteq request[r].snapshot
        /\ \A s \in sessions : s \in SessionDocuments /\ request[s.id].user = s.user
        /\ request[c].user = e
    BY <1>1, <1>4, <2>1, WriterFacts DEF AccountInv, WriterOK
  <2>4. \A s \in sessions : [s EXCEPT !.password = p].id = s.id /\ [s EXCEPT !.password = p].user = s.user
    BY <2>3 DEF SessionDocuments
  <2>5. ASSUME NEW t \in sessions'
        PROVE  \E s \in sessions : /\ t = IF s.id = c THEN [s EXCEPT !.password = p] ELSE s
                                   /\ t.id = s.id /\ t.user = s.user /\ (s.user = e <=> s.id = c)
    <3>1. PICK s \in sessions \ {s \in request[r].snapshot : s.id # c} :
             t = IF s.id = c THEN [s EXCEPT !.password = p] ELSE s
      BY <2>2
    <3>2. s.user = e <=> s.id = c
      BY <2>3, <3>1 DEF SessionsOf
    <3>3. t.id = s.id /\ t.user = s.user
      BY <2>4, <3>1
    <3> QED BY <3>1, <3>2, <3>3
  <2>6. OnePerRequest(sessions')
    BY <2>5 DEF OnePerRequest, SessionInv
  <2>7. PICK one : \A t \in SessionsOf(e)' : t = one
    <3>1. \A t, u \in SessionsOf(e)' : t.id = u.id
      BY <2>5 DEF SessionsOf
    <3> QED BY <2>6, <3>1 DEF OnePerRequest, SessionsOf
  <2>8. IsFiniteSet(sessions')
    <3>1. PICK x : \A s \in sessions : s.id = c => x = [s EXCEPT !.password = p]
      BY DEF SessionInv, OnePerRequest
    <3>2. sessions' \in SUBSET (sessions \cup {x})
      BY <2>5, <3>1
    <3> QED BY <3>2, FS_AddElement, FS_Subset DEF SessionInv
  <2>9. Cardinality(SessionsOf(e)') <= MaxSessions
    <3>1. SessionsOf(e)' \in SUBSET {one}
      BY <2>7
    <3>2. IsFiniteSet({one}) /\ Cardinality({one}) = 1
      BY FS_Singleton
    <3>3. IsFiniteSet(SessionsOf(e)') /\ Cardinality(SessionsOf(e)') <= 1
      BY <3>1, <3>2, FS_Subset
    <3> QED BY <3>3, FS_CardinalityType
  <2>10. \A f \in Emails \ {e} : SessionsOf(f)' \subseteq SessionsOf(f)
    BY <2>5 DEF SessionsOf
  <2> QED BY <1>1, <1>2, <2>3, <2>6, <2>8, <2>9, <2>10, LimitMoves
<1> QED BY <1>3, <1>4

\* The inductive step of the limit on sessions.
LEMMA SessionStep == AccountInv /\ AccountInv' /\ SessionInv /\ [IdentityNext]_identityVars => SessionInv'
<1> SUFFICES ASSUME AccountInv, AccountInv', SessionInv, [IdentityNext]_identityVars PROVE SessionInv'
  OBVIOUS
<1>t. IdentityTypeOK /\ IdentityTypeOK'
  BY DEF AccountInv
<1>1. ASSUME NEW r \in Requests, NEW q, request' = [request EXCEPT ![r] = q], request[r].pc # "done",
             q.pc # "write", sessions' = sessions
      PROVE  SessionInv'
  <2>1. request'[r] = q /\ \A x \in Requests \ {r} : request'[x] = request[x]
    BY <1>1, <1>t DEF IdentityTypeOK
  <2> QED BY <1>1, <1>t, <2>1, LimitStays
<1>2. CASE \E r \in Requests, p \in Passwords :
              \/ StartBootstrap(r, p)
              \/ \E i \in Invitations : FindInvitation(r, i, p)
              \/ \E e \in Emails : ReadAttempts(r, e, p)
              \/ \E s \in sessions : VerifyCurrent(r, s, p)
  <2>1. PICK r \in Requests, p \in Passwords :
              \/ StartBootstrap(r, p)
              \/ \E i \in Invitations : FindInvitation(r, i, p)
              \/ \E e \in Emails : ReadAttempts(r, e, p)
              \/ \E s \in sessions : VerifyCurrent(r, s, p)
    BY <1>2
  <2>2. CASE StartBootstrap(r, p)
    <3>1. PICK q : q = [NoRequest EXCEPT !.pc = "bootstrap", !.op = "bootstrap", !.user = Owner,
                             !.password = p, !.now = clock]
      OBVIOUS
    <3>2. q.pc = "bootstrap"
      BY <3>1 DEF NoRequest
    <3>3. request' = [request EXCEPT ![r] = q] /\ request[r].pc = "new" /\ sessions' = sessions
      BY <2>2, <3>1 DEF StartBootstrap
    <3> QED BY <1>1, <3>2, <3>3
  <2>3. ASSUME NEW i \in Invitations, FindInvitation(r, i, p) PROVE SessionInv'
    <3>1. PICK q : q = [NoRequest EXCEPT !.pc = "accept", !.op = i, !.user = Guest, !.password = p,
                             !.now = clock, !.version = invitation[i].version]
      OBVIOUS
    <3>2. q.pc = "accept"
      BY <3>1 DEF NoRequest
    <3>3. request' = [request EXCEPT ![r] = q] /\ request[r].pc = "new" /\ sessions' = sessions
      BY <2>3, <3>1 DEF FindInvitation
    <3> QED BY <1>1, <3>2, <3>3
  <2>4. ASSUME NEW e \in Emails, ReadAttempts(r, e, p) PROVE SessionInv'
    <3>1. PICK pc \in {"done", "reserve"} : pc = IF attempts[e].blocked > clock THEN "done" ELSE "reserve"
      OBVIOUS
    <3>2. PICK q : q = [NoRequest EXCEPT !.pc = pc, !.op = "login", !.user = e, !.password = p, !.now = clock,
                             !.guard = attempts[e]]
      OBVIOUS
    <3>3. q.pc = pc
      BY <3>2 DEF NoRequest
    <3>4. request' = [request EXCEPT ![r] = q] /\ request[r].pc = "new" /\ sessions' = sessions
      BY <2>4, <3>1, <3>2 DEF ReadAttempts
    <3> QED BY <1>1, <3>1, <3>3, <3>4
  <2>5. ASSUME NEW s \in sessions, VerifyCurrent(r, s, p) PROVE SessionInv'
    <3>1. PICK q : q = [NoRequest EXCEPT !.pc = "begin", !.op = "change", !.user = s.user, !.next = p,
                             !.password = user[s.user].password, !.current = s.id, !.now = clock]
      OBVIOUS
    <3>2. q.pc = "begin"
      BY <3>1 DEF NoRequest
    <3>3. request' = [request EXCEPT ![r] = q] /\ request[r].pc = "new" /\ sessions' = sessions
      BY <2>5, <3>1 DEF VerifyCurrent
    <3> QED BY <1>1, <3>2, <3>3
  <2> QED BY <2>1, <2>2, <2>3, <2>4, <2>5
<1>3. ASSUME NEW r \in Requests, Bootstrap(r) \/ AcceptInvitation(r) PROVE SessionInv'
  <2>1. request[r].pc \in {"bootstrap", "accept"} /\ Goes(r, "done") /\ BegunOK(r)
    BY <1>3 DEF Bootstrap, AcceptInvitation, AccountInv
  <2>2. CASE sessions' = sessions
    BY <1>t, <2>1, <2>2, GoesOn, LimitStays
  <2>3. CASE sessions' # sessions
    <3>1. sessions' = sessions \cup {NewSession(r)}
      BY <1>3, <2>3 DEF Bootstrap, AcceptInvitation
    <3>2. ~Exists(request[r].user) /\ request[r].user \in Emails
      BY <1>3, <2>1, <2>3, IdentityAssumption DEF Bootstrap, AcceptInvitation, BegunOK
    <3> QED BY <1>t, <2>1, <3>1, <3>2, FirstSession
  <2> QED BY <2>2, <2>3
<1>4. ASSUME NEW r \in Requests, ReserveLoginAttempt(r) \/ Verify(r) PROVE SessionInv'
  <2>1. request[r].pc \in {"reserve", "verify"} /\ sessions' = sessions /\ request[r] \in RequestStates
    BY <1>4, <1>t DEF ReserveLoginAttempt, Verify, IdentityTypeOK
  <2>2. CASE Goes(r, "done") \/ Goes(r, "verify") \/ Goes(r, "begin")
    BY <1>t, <2>1, <2>2, GoesOn, LimitStays
  <2>3. PICK e : e = request[r].user
    OBVIOUS
  <2>4. PICK pc \in {"done", "reserve"} : pc = IF attempts[e].blocked > clock THEN "done" ELSE "reserve"
    OBVIOUS
  <2>5. CASE request' = [request EXCEPT ![r].guard = attempts[e], ![r].pc = pc]
    <3>1. PICK q : q = [request[r] EXCEPT !.guard = attempts[e], !.pc = pc]
      OBVIOUS
    <3>2. request' = [request EXCEPT ![r] = q]
      BY <1>t, <2>5, <3>1 DEF IdentityTypeOK
    <3>3. q.pc = pc
      BY <2>1, <3>1 DEF RequestStates
    <3> QED BY <1>1, <2>1, <2>4, <3>2, <3>3
  <2>6. \/ Goes(r, "done") \/ Goes(r, "verify") \/ Goes(r, "begin")
        \/ request' = [request EXCEPT ![r].guard = attempts[e], ![r].pc = pc]
    BY <1>4, <2>3, <2>4 DEF ReserveLoginAttempt, Verify
  <2> QED BY <2>2, <2>5, <2>6
<1>5. ASSUME NEW r \in Requests, BeginTransaction(r) PROVE SessionInv'
  <2>1. PICK e : e = request[r].user
    OBVIOUS
  <2>2. PICK q : q = [request[r] EXCEPT !.pc = "write", !.snapshot = SessionsOf(e), !.revision = user[e].revision]
    OBVIOUS
  <2>3. q.snapshot = SessionsOf(e) /\ request[r].pc = "begin"
    BY <1>5, <1>t, <2>2 DEF IdentityTypeOK, RequestStates, BeginTransaction
  <2>4. request' = [request EXCEPT ![r] = q] /\ sessions' = sessions
    BY <1>5, <2>1, <2>2 DEF BeginTransaction
  <2>5. request'[r] = q /\ \A x \in Requests \ {r} : request'[x] = request[x]
    BY <1>t, <2>4 DEF IdentityTypeOK
  <2>6. SessionsOf(e) \in SUBSET sessions
    BY DEF SessionsOf
  <2>7. IsFiniteSet(SessionsOf(e)) /\ OnePerRequest(SessionsOf(e))
    BY <2>6, FS_Subset DEF SessionInv, OnePerRequest
  <2>8. \A s \in SessionsOf(e) : request'[s.id].pc = "done"
    BY <2>3, <2>5, <2>6, <1>t DEF AccountInv, SessionIsOfItsRequest, IdentityTypeOK, SessionDocuments
  <2>9. TakenOK(r)'
    BY <2>3, <2>5, <2>7, <2>8 DEF TakenOK
  <2> QED BY <1>t, <2>3, <2>4, <2>5, <2>9, LimitStays
<1>6. ASSUME NEW r \in Requests, CreateSession(r) \/ ChangePassword(r) PROVE SessionInv'
  BY <1>6, <1>t, LoginIsLimited, ChangeIsLimited
<1>7. CASE request' = request /\ sessions' \subseteq sessions
  BY <1>7, <1>t, LimitStays
<1>8. \/ \E r \in Requests : Proceed(r)
      \/ request' = request /\ sessions' \subseteq sessions
      \/ \E r \in Requests, p \in Passwords :
              \/ StartBootstrap(r, p)
              \/ \E i \in Invitations : FindInvitation(r, i, p)
              \/ \E e \in Emails : ReadAttempts(r, e, p)
              \/ \E s \in sessions : VerifyCurrent(r, s, p)
  BY DEF IdentityNext, CreateInvitation, RevokeInvitation, RevokeSession, RevokeUserSession,
     RevokeAllUserSessions, Revoke, TimePasses, identityVars
<1> QED BY <1>2, <1>3, <1>4, <1>5, <1>6, <1>7, <1>8 DEF Proceed

\* However many logins run at the same time, no user has more sessions than
\* the limit (identity/data/mongo.go, CreateSession).
THEOREM SessionsAreLimitedHolds == IdentitySpec => []SessionsAreLimited
<1>1. IdentityInit => SessionInv
  BY FS_EmptySet, IdentityAssumption
     DEF IdentityInit, SessionInv, OnePerRequest, SessionsAreLimited, SessionsOf, TakenOK, NoRequest
<1>2. AccountInv /\ AccountInv' /\ SessionInv /\ [IdentityNext]_identityVars => SessionInv'
  BY SessionStep
<1>3. SessionInv => SessionsAreLimited
  BY DEF SessionInv
<1> QED BY <1>1, <1>2, <1>3, AccountInvariance, PTL DEF IdentitySpec

-----------------------------------------------------------------------------
(* Builds.  Workers, users and the retirement pass write from copies, under  *)
(* the version of the copy.  A copy is the stored document, or older than    *)
(* it: what holds of a copy of the stored version holds of the document.     *)

Processes == Workers \cup {User}
Working == {"run", "checkout", "checking", "build", "running", "record", "publish"}
ProcState == [pc : Working \cup {"idle", "release", "mark"}, id : Builds \cup {None},
              item : Item, art : ArtifactItem]

CopyOK(b, item) ==
    /\ item \in Item /\ item.version <= db[b].version
    /\ item.version = db[b].version => item = db[b]

\* An execution: where it stands tells the status of its copy, and the
\* digest it will record or publish is in the registry.
ExecutionOK(x) ==
    LET p == proc[x] IN
    p.pc \in Working =>
        /\ x \in Workers /\ p.id \in Builds /\ CopyOK(p.id, p.item)
        /\ p.item.status \in Active
        /\ p.item.digest # 0 => p.item.digest \in pushed[p.id]
        /\ p.pc \in {"checkout", "checking"} => p.item.status \in {"checking_out", "building", "pushing"}
        /\ p.pc \in {"build", "running", "record", "publish"} => p.item.status = "pushing"
        /\ p.pc = "record" => p.item.gen \in pushed[p.id]
        /\ p.pc = "publish" => p.item.digest \in pushed[p.id]

\* A Release is made of an Artifact, and marked once it is made.
ReleasingOK(x) ==
    LET p == proc[x] IN
    p.pc \in {"release", "mark"} =>
        /\ p.id \in Builds /\ artifact[p.id] # NoArtifact
        /\ p.pc = "mark" => p.id \in release

\* The documents of one Build agree.
BuildOK(b) ==
    /\ db[b].status = "absent" => db[b] = NoBuild
    /\ (artifact[b] # NoArtifact) <=> (db[b].status = "succeeded")
    /\ artifact[b] # NoArtifact => artifact[b].digest = db[b].digest /\ db[b].digest \in pushed[b]
    /\ db[b].digest # 0 => db[b].digest \in pushed[b]
    /\ artifact[b].release = "created" => b \in release
    /\ artifact[b].release = "skipped" => b \notin release /\ app # "active"

\* The pass runs in a retiring Application; what it found nothing of is not
\* there any more.
BuildPasses == [pc : {"idle", "builds", "artifacts"},
           todo : SUBSET [id : Builds, copy : Item \cup ArtifactItem], listed : BOOLEAN]
PassOK ==
    /\ retire \in BuildPasses
    /\ retire.pc = "builds" => \A t \in retire.todo : t.id \in Builds /\ CopyOK(t.id, t.copy)
    /\ retire.pc = "artifacts" =>
          \A t \in retire.todo : t.id \in Builds /\ t.copy \in ArtifactItem /\ artifact[t.id] # NoArtifact
    /\ retire.pc # "idle" => app = "retiring"
    /\ (retire.pc # "idle" /\ ~retire.listed) =>
          /\ \A b \in Builds : db[b].status \notin Active
          /\ retire.pc = "artifacts" => \A b \in Builds : artifact[b].release # "pending"

BuildInv ==
    /\ TypeOK /\ PassOK /\ RetiredIsQuiet
    /\ \A b \in Builds : BuildOK(b)
    /\ \A x \in Processes : ExecutionOK(x) /\ ReleasingOK(x)

\* What any step but a retirement's does to the documents of one Build.
Moves(b) ==
    /\ db'[b] = db[b] \/ (db'[b].version > db[b].version /\ db'[b].status # "absent")
    /\ pushed[b] \subseteq pushed'[b]
    /\ artifact[b] # NoArtifact => artifact'[b] # NoArtifact
    /\ db'[b].status \in Active => db[b].status \in Active \/ app = "active"
    /\ artifact'[b].release = "pending" => artifact[b].release = "pending" \/ db[b].status \in Active
    /\ db[b].status = "canceling" => db'[b].status \in {"canceling", "canceled"}
    /\ BuildOK(b)'

\* Nothing is stored, nobody works.
LEMMA BuildInit == Init => BuildInv
  BY BuildsAssumption
     DEF Init, BuildInv, TypeOK, PassOK, RetiredIsQuiet, BuildOK, ExecutionOK, ReleasingOK,
         NoBuild, NoArtifact, NoPass, Idle, Item, ArtifactItem, Active, Terminal, Processes, Working, BuildPasses

\* What the proofs use of the types.
LEMMA BuildTypes ==
    ASSUME BuildInv
    PROVE  /\ \A b \in Builds : /\ db[b] \in Item /\ db[b].version \in Nat /\ artifact[b] \in ArtifactItem
                                /\ db[b].status \in Active \cup Terminal \cup {"absent"}
           /\ \A x \in Processes : proc[x] \in ProcState
           /\ proc \in [Processes -> ProcState] /\ db \in [Builds -> Item]
           /\ artifact \in [Builds -> ArtifactItem]
  BY DEF BuildInv, TypeOK, Item, Processes, ProcState, Working

\* A copy stays one when the documents move on.
LEMMA CopyStays ==
    ASSUME BuildInv, NEW b \in Builds, Moves(b), TypeOK', NEW item, CopyOK(b, item)
    PROVE  CopyOK(b, item)'
<1>1. db[b].version \in Nat /\ db'[b].version \in Nat /\ item.version \in Nat
  BY DEF BuildInv, TypeOK, Item, CopyOK
<1>2. CASE db'[b] = db[b]
  BY <1>2 DEF CopyOK
<1>3. CASE db'[b].version > db[b].version
  <2>1. item.version < db'[b].version
    BY <1>1, <1>3 DEF CopyOK
  <2> QED BY <1>1, <2>1 DEF CopyOK
<1> QED BY <1>2, <1>3 DEF Moves

\* The processes that do not move.
LEMMA ProcessStays ==
    ASSUME BuildInv, \A b \in Builds : Moves(b), TypeOK', release \subseteq release',
           NEW x \in Processes, proc'[x] = proc[x]
    PROVE  ExecutionOK(x)' /\ ReleasingOK(x)'
<1>1. ExecutionOK(x) /\ ReleasingOK(x)
  BY DEF BuildInv
<1>2. ExecutionOK(x)'
  <2> SUFFICES ASSUME proc[x].pc \in Working PROVE ExecutionOK(x)'
    BY DEF ExecutionOK
  <2>1. proc[x].id \in Builds /\ CopyOK(proc[x].id, proc[x].item)
    BY <1>1 DEF ExecutionOK
  <2>2. CopyOK(proc[x].id, proc[x].item)'
    BY <2>1, CopyStays
  <2>3. pushed[proc[x].id] \subseteq pushed'[proc[x].id]
    BY <2>1 DEF Moves
  <2> QED BY <1>1, <2>1, <2>2, <2>3 DEF ExecutionOK
<1>3. ReleasingOK(x)'
  BY <1>1 DEF ReleasingOK, Moves
<1> QED BY <1>2, <1>3

\* The pass that does not move.
LEMMA PassStays ==
    ASSUME BuildInv, \A b \in Builds : Moves(b), TypeOK', UNCHANGED <<app, retire>>
    PROVE  PassOK' /\ RetiredIsQuiet'
<1>1. PassOK /\ RetiredIsQuiet
  BY DEF BuildInv
<1>2. ASSUME retire.pc = "builds", NEW t \in retire.todo PROVE t.id \in Builds /\ CopyOK(t.id, t.copy)'
  <2>1. t.id \in Builds /\ CopyOK(t.id, t.copy)
    BY <1>1, <1>2 DEF PassOK
  <2> QED BY <2>1, CopyStays
<1>3. RetiredIsQuiet'
  BY <1>1 DEF RetiredIsQuiet, Moves
<1>4. retire.pc = "artifacts" =>
          \A t \in retire.todo : t.id \in Builds /\ t.copy \in ArtifactItem /\ artifact'[t.id] # NoArtifact
  BY <1>1 DEF PassOK, Moves
<1>5. ASSUME retire.pc # "idle", ~retire.listed
      PROVE  /\ \A b \in Builds : db'[b].status \notin Active
             /\ retire.pc = "artifacts" => \A b \in Builds : artifact'[b].release # "pending"
  BY <1>1, <1>5 DEF PassOK, Moves
<1>6. PassOK'
  BY <1>1, <1>2, <1>4, <1>5 DEF PassOK
<1> QED BY <1>3, <1>6

\* What each step is shown to do: the invariant holds after it, and a Build
\* that is being canceled stays so or is canceled.
BuildStepOK == BuildInv' /\ CancelStays

\* One process moves.
LEMMA ProcessMoves ==
    ASSUME BuildInv, \A b \in Builds : Moves(b), TypeOK', UNCHANGED <<app, retire>>,
           release \subseteq release',
           NEW x \in Processes, \A y \in Processes \ {x} : proc'[y] = proc[y],
           ExecutionOK(x)', ReleasingOK(x)'
    PROVE  BuildStepOK
  BY ProcessStays, PassStays DEF BuildInv, Moves, BuildStepOK, CancelStays

\* No process moves.
LEMMA ApiMoves ==
    ASSUME BuildInv, \A b \in Builds : Moves(b), TypeOK', UNCHANGED <<app, retire, proc>>,
           release \subseteq release'
    PROVE  BuildStepOK
  BY ProcessStays, PassStays DEF BuildInv, Moves, BuildStepOK, CancelStays

\* A Build that nobody touches.
LEMMA SameMoves ==
    ASSUME BuildInv, NEW b \in Builds, db'[b] = db[b], artifact'[b] = artifact[b],
           pushed[b] \subseteq pushed'[b], app' = app,
           release' = release \/ (app = "active" /\ release \subseteq release')
    PROVE  Moves(b)
  BY BuildTypes DEF BuildInv, BuildOK, Moves, Active, Terminal

\* A save under the version of the copy: the copy is the stored document.
LEMMA SaveMoves ==
    ASSUME BuildInv, NEW w \in Workers, proc[w].pc \in Working, NEW item \in Item, NEW pc,
           SaveClaimed(w, item, pc), UNCHANGED <<pushed, artifact, release, app, retire, faults>>,
           item.version = proc[w].item.version, item.status \notin {"absent", "succeeded"},
           item.digest # 0 => item.digest \in pushed[proc[w].id],
           proc[w].item.status = "canceling" => item.status = "canceled",
           pc \in Working \cup {"idle"}
    PROVE  /\ \A b \in Builds : Moves(b)
           /\ TypeOK'
           /\ \A y \in Processes \ {w} : proc'[y] = proc[y]
           /\ pc = "idle" => proc'[w] = Idle
           /\ pc # "idle" => /\ proc'[w].pc = pc /\ proc'[w].id = proc[w].id
                             /\ proc'[w].item.status = item.status /\ proc'[w].item.digest = item.digest
                             /\ proc'[w].item.gen = item.gen /\ CopyOK(proc[w].id, proc[w].item)'
<1> USE BuildsAssumption
<1>t. w \in Processes /\ proc \in [Processes -> ProcState] /\ db \in [Builds -> Item] /\ proc[w] \in ProcState
  BY BuildTypes DEF Processes
<1>1. PICK b \in Builds : b = proc[w].id
  BY DEF BuildInv, ExecutionOK, Processes
<1>2. db[b] = proc[w].item /\ db[b].status \in Active /\ db[b].version \in Nat
  BY <1>1, <1>t DEF BuildInv, ExecutionOK, Processes, CopyOK, SaveClaimed, Matches, Item
<1>3. PICK saved : saved = [item EXCEPT !.version = @ + 1]
  OBVIOUS
<1>4. /\ saved \in Item /\ saved.version = db[b].version + 1 /\ saved.status = item.status
      /\ saved.digest = item.digest /\ saved.gen = item.gen
  BY <1>2, <1>3 DEF Item
<1>5. /\ db' = [db EXCEPT ![b] = saved] /\ live' = Leased(b, saved)
      /\ proc' = [proc EXCEPT ![w] = IF pc = "idle" THEN Idle ELSE [@ EXCEPT !.pc = pc, !.item = saved]]
  BY <1>1, <1>3 DEF SaveClaimed
<1>6. db'[b] = saved /\ \A c \in Builds \ {b} : db'[c] = db[c]
  BY <1>5, <1>t
<1>7. Moves(b)
  <2>1. BuildOK(b)
    BY DEF BuildInv
  <2>2. BuildOK(b)'
    BY <1>1, <1>2, <1>4, <1>6, <2>1 DEF BuildOK, Active
  <2> QED BY <1>2, <1>4, <1>6, <2>2 DEF Moves
<1>8. \A c \in Builds : Moves(c)
  BY <1>6, <1>7, SameMoves
<1>9. \A y \in Processes \ {w} : proc'[y] = proc[y]
  BY <1>5, <1>t
<1>10. CASE pc = "idle"
  <2>1. proc' = [proc EXCEPT ![w] = Idle]
    BY <1>5, <1>10
  <2>2. Idle \in ProcState
    BY DEF Idle, ProcState, NoBuild, NoArtifact, Item, ArtifactItem
  <2>3. TypeOK'
    <3>1. live' \in [Builds -> BOOLEAN] /\ db' \in [Builds -> Item] /\ proc' \in [Processes -> ProcState]
      BY <1>4, <1>5, <1>t, <2>1, <2>2 DEF Leased, BuildInv, TypeOK
    <3> QED BY <3>1 DEF BuildInv, TypeOK, Processes, ProcState, Working
  <2> QED BY <1>8, <1>9, <1>10, <2>1, <2>3, <1>t
<1>11. CASE pc # "idle"
  <2>0. PICK q : q = [proc[w] EXCEPT !.pc = pc, !.item = saved]
    OBVIOUS
  <2>1. proc' = [proc EXCEPT ![w] = q]
    BY <1>5, <1>11, <2>0
  <2>2. q \in ProcState /\ q.pc = pc /\ q.id = b /\ q.item = saved
    BY <1>1, <1>4, <1>t, <2>0 DEF ProcState
  <2>3. TypeOK'
    <3>1. live' \in [Builds -> BOOLEAN] /\ db' \in [Builds -> Item] /\ proc' \in [Processes -> ProcState]
      BY <1>4, <1>5, <1>t, <2>1, <2>2 DEF Leased, BuildInv, TypeOK
    <3> QED BY <3>1 DEF BuildInv, TypeOK, Processes, ProcState, Working
  <2>4. proc'[w] = q
    BY <2>1, <1>t
  <2>5. CopyOK(b, saved)'
    BY <1>2, <1>4, <1>6 DEF CopyOK
  <2>6. CopyOK(proc[w].id, proc[w].item)'
    BY <1>1, <1>6, <2>2, <2>4, <2>5 DEF CopyOK
  <2> QED BY <1>1, <1>4, <1>8, <1>9, <1>11, <2>2, <2>3, <2>4, <2>6
<1> QED BY <1>10, <1>11

\* A process that gives up, or goes on without a write.
LEMMA IdleMoves ==
    ASSUME BuildInv, NEW x \in Processes, proc' = [proc EXCEPT ![x] = Idle],
           UNCHANGED <<db, live, pushed, artifact, release, app, retire>>, faults' \in Nat
    PROVE  BuildStepOK
<1>1. proc'[x] = Idle /\ \A y \in Processes \ {x} : proc'[y] = proc[y]
  BY BuildTypes
<1>2. ExecutionOK(x)' /\ ReleasingOK(x)'
  BY <1>1 DEF ExecutionOK, ReleasingOK, Idle, Working
<1>3. Idle \in ProcState
  BY DEF Idle, ProcState, NoBuild, NoArtifact, Item, ArtifactItem
<1>4. TypeOK'
  <2>1. proc' \in [Processes -> ProcState]
    BY BuildTypes, <1>3
  <2> QED BY <2>1 DEF BuildInv, TypeOK, Processes, ProcState, Working
<1>5. \A b \in Builds : Moves(b)
  BY SameMoves
<1> QED BY <1>1, <1>2, <1>4, <1>5, ProcessMoves

\* A worker goes on; what it pushes is added.
LEMMA PcMoves ==
    ASSUME BuildInv, NEW w \in Workers, NEW pc \in Working, proc' = [proc EXCEPT ![w].pc = pc],
           UNCHANGED <<db, live, artifact, release, app, retire, faults>>,
           pushed' \in [Builds -> SUBSET Nat], \A b \in Builds : pushed[b] \subseteq pushed'[b],
           proc[w].pc \in Working,
           pc \in {"checkout", "checking"} => proc[w].item.status \in {"checking_out", "building", "pushing"},
           pc \in {"build", "running", "record", "publish"} => proc[w].item.status = "pushing",
           pc = "record" => proc[w].item.gen \in pushed'[proc[w].id],
           pc = "publish" => proc[w].item.digest \in pushed[proc[w].id]
    PROVE  BuildStepOK
<1> w \in Processes
  BY DEF Processes
<1>1. /\ \A y \in Processes \ {w} : proc'[y] = proc[y]
      /\ proc'[w].pc = pc /\ proc'[w].id = proc[w].id /\ proc'[w].item = proc[w].item
      /\ proc' \in [Processes -> ProcState]
  BY BuildTypes DEF ProcState
<1>2. TypeOK'
  BY <1>1 DEF BuildInv, TypeOK, Processes, ProcState, Working
<1>3. \A b \in Builds : Moves(b)
  BY SameMoves
<1>4. ExecutionOK(w) /\ proc[w].id \in Builds
  BY DEF BuildInv, ExecutionOK
<1>5. CopyOK(proc[w].id, proc[w].item)'
  BY <1>2, <1>3, <1>4, CopyStays DEF ExecutionOK
<1>6. ExecutionOK(w)'
  BY <1>1, <1>3, <1>4, <1>5 DEF ExecutionOK, Moves
<1>7. ReleasingOK(w)'
  BY <1>1 DEF ReleasingOK, Working
<1> QED BY <1>1, <1>2, <1>3, <1>6, <1>7, ProcessMoves

\* A claimed save and what the Runner does after it, or the end of RunOnce.
LEMMA SavesKeepIt ==
    ASSUME BuildInv, NEW w \in Workers, proc[w].pc \in Working, NEW item \in Item,
           NEW pc \in Working \cup {"idle"},
           Saves(w, item, pc), UNCHANGED <<pushed, artifact, release, app, retire, faults>>,
           item.version = proc[w].item.version, item.status \notin {"absent", "succeeded"},
           item.digest # 0 => item.digest \in pushed[proc[w].id],
           proc[w].item.status = "canceling" => item.status = "canceled",
           pc # "idle" => item.status \in Active,
           pc \in {"checkout", "checking"} => item.status \in {"checking_out", "building", "pushing"},
           pc \in {"build", "running", "record", "publish"} => item.status = "pushing",
           pc = "record" => item.gen \in pushed[proc[w].id],
           pc = "publish" => item.digest \in pushed[proc[w].id]
    PROVE  BuildStepOK
<1> w \in Processes /\ proc[w].id \in Builds
  BY DEF BuildInv, ExecutionOK, Processes
<1>1. CASE Lost(w)
  <2>1. faults' \in Nat
    BY DEF BuildInv, TypeOK
  <2>2. proc' = [proc EXCEPT ![w] = Idle] /\ UNCHANGED <<db, live>>
    BY <1>1 DEF Lost
  <2> QED BY <2>1, <2>2, IdleMoves
<1>2. CASE SaveClaimed(w, item, pc)
  <2>1. /\ \A b \in Builds : Moves(b)
        /\ TypeOK' /\ \A y \in Processes \ {w} : proc'[y] = proc[y]
        /\ pc = "idle" => proc'[w] = Idle
        /\ pc # "idle" => /\ proc'[w].pc = pc /\ proc'[w].id = proc[w].id
                          /\ proc'[w].item.status = item.status /\ proc'[w].item.digest = item.digest
                          /\ proc'[w].item.gen = item.gen /\ CopyOK(proc[w].id, proc[w].item)'
    BY <1>2, SaveMoves
  <2>2. ExecutionOK(w)'
    <3>1. CASE pc = "idle"
      BY <2>1, <3>1 DEF ExecutionOK, Idle, Working
    <3>2. CASE pc # "idle"
      BY <2>1, <3>2 DEF ExecutionOK
    <3> QED BY <3>1, <3>2
  <2>3. ReleasingOK(w)'
    BY <2>1 DEF ReleasingOK, Idle, Working
  <2> QED BY <2>1, <2>2, <2>3, ProcessMoves
<1> QED BY <1>1, <1>2 DEF Saves

\* The copy of an execution, moved to a next status.
LEMMA TransitionOK ==
    ASSUME NEW item \in Item, NEW next \in (Active \cup Terminal)
    PROVE  /\ Transition(item, next) \in Item /\ Transition(item, next).status = next
           /\ Transition(item, next).version = item.version
           /\ Transition(item, next).digest = item.digest
           /\ next \notin Terminal => Transition(item, next).gen = item.gen
  BY DEF Transition, Item

\* What is known of an execution that is under way.
LEMMA ExecutionFacts ==
    ASSUME BuildInv, NEW w \in Workers, proc[w].pc \in Working
    PROVE  /\ proc[w].item \in Item /\ proc[w].id \in Builds
           /\ proc[w].item.status \in Active /\ db[proc[w].id] \in Item
           /\ proc[w].item.digest # 0 => proc[w].item.digest \in pushed[proc[w].id]
           /\ proc[w].pc \in {"checkout", "checking"} =>
                 proc[w].item.status \in {"checking_out", "building", "pushing"}
           /\ proc[w].pc \in {"build", "running", "record", "publish"} => proc[w].item.status = "pushing"
           /\ proc[w].pc = "record" => proc[w].item.gen \in pushed[proc[w].id]
           /\ proc[w].pc = "publish" => proc[w].item.digest \in pushed[proc[w].id]
           /\ Matches(w) => db[proc[w].id] = proc[w].item
  BY BuildTypes DEF BuildInv, ExecutionOK, Processes, CopyOK, Matches

\* RunOnce, before the first step.
LEMMA RunOnceKeepsIt ==
    ASSUME BuildInv, NEW w \in Workers, RunOnce(w)
    PROVE  BuildStepOK
<1>1. proc[w].pc = "run" /\ UNCHANGED <<pushed, artifact, release, app, retire, faults>>
  BY DEF RunOnce
<1>2. PICK item : item = proc[w].item
  OBVIOUS
<1>3. /\ proc[w].pc \in Working /\ item \in Item
      /\ item.digest # 0 => item.digest \in pushed[proc[w].id]
  BY <1>1, <1>2, ExecutionFacts DEF Working
<1>p. pushed' \in [Builds -> SUBSET Nat] /\ \A b \in Builds : pushed[b] \subseteq pushed'[b]
  BY <1>1 DEF BuildInv, TypeOK
<1>4. CASE item.status = "canceling" /\ Saves(w, Transition(item, "canceled"), "idle")
  <2>1. "canceled" \in Active \cup Terminal
    BY DEF Terminal
  <2> QED BY <1>1, <1>2, <1>3, <1>4, <2>1, TransitionOK, SavesKeepIt
<1>5. CASE item.status = "queued" /\ Saves(w, Transition(item, "checking_out"), "checkout")
  <2>1. "checking_out" \in Active \cup Terminal /\ "checking_out" \in Active /\ "checkout" \in Working
    BY DEF Active, Working
  <2> QED BY <1>1, <1>2, <1>3, <1>5, <2>1, TransitionOK, SavesKeepIt
<1>6. CASE /\ item.status = "pushing" /\ item.digest # 0
           /\ proc' = [proc EXCEPT ![w].pc = "publish"] /\ UNCHANGED <<db, live>>
  <2>1. "publish" \in Working
    BY DEF Working
  <2> QED BY <1>1, <1>2, <1>3, <1>6, <1>p, <2>1, PcMoves
<1>7. CASE /\ item.status \in {"checking_out", "building", "pushing"}
           /\ proc' = [proc EXCEPT ![w].pc = "checkout"] /\ UNCHANGED <<db, live>>
  <2>1. "checkout" \in Working
    BY DEF Working
  <2> QED BY <1>1, <1>2, <1>3, <1>7, <1>p, <2>1, PcMoves
<1> QED BY <1>2, <1>4, <1>5, <1>6, <1>7 DEF RunOnce

\* runStep: the renewals write what is stored, which a match says is the copy.
LEMMA RenewalKeepsIt ==
    ASSUME BuildInv, NEW w \in Workers, BeginStep(w) \/ Heartbeat(w)
    PROVE  BuildStepOK
<1>1. PICK pc : /\ Saves(w, db[proc[w].id], pc)
                /\ \/ proc[w].pc = "checkout" /\ pc = "checking"
                   \/ proc[w].pc = "build" /\ pc = "running"
                   \/ proc[w].pc \in {"checking", "running"} /\ pc = proc[w].pc
  BY DEF BeginStep, Heartbeat
<1>2. UNCHANGED <<pushed, artifact, release, app, retire, faults>>
  BY DEF BeginStep, Heartbeat
<1>3. PICK item : item = proc[w].item
  OBVIOUS
<1>4. proc[w].pc \in Working /\ pc \in Working /\ pc \notin {"record", "publish", "idle"}
  BY <1>1 DEF Working
<1>5. Saves(w, item, pc)
  <2>1. CASE Lost(w)
    BY <2>1 DEF Saves
  <2>2. CASE SaveClaimed(w, db[proc[w].id], pc)
    <3>1. db[proc[w].id] = item
      BY <1>3, <1>4, <2>2, ExecutionFacts DEF SaveClaimed
    <3> QED BY <2>2, <3>1 DEF Saves
  <2> QED BY <1>1, <2>1, <2>2 DEF Saves
<1>6. item.status \in {"checking_out", "building", "pushing"}
  BY <1>1, <1>3, <1>4, ExecutionFacts
<1>7. /\ item \in Item /\ item.status \in Active
      /\ item.digest # 0 => item.digest \in pushed[proc[w].id]
  BY <1>3, <1>4, ExecutionFacts
<1>8. pc = "running" => item.status = "pushing"
  BY <1>1, <1>3, <1>4, ExecutionFacts
<1> QED BY <1>1, <1>2, <1>3, <1>4, <1>5, <1>6, <1>7, <1>8, SavesKeepIt

\* The steps after the checkout, up to the recorded digest.
LEMMA StepsKeepIt ==
    ASSUME BuildInv, NEW w \in Workers, CheckedOut(w) \/ Push(w) \/ RecordPushedImage(w) \/ StepFailed(w)
    PROVE  BuildStepOK
<1>1. PICK item : item = proc[w].item
  OBVIOUS
<1>2. proc[w].pc \in {"checking", "running", "record"} /\ proc[w].pc \in Working
  BY DEF CheckedOut, Push, RecordPushedImage, StepFailed, Working
<1>3. /\ item \in Item /\ item.status \in {"checking_out", "building", "pushing"}
      /\ item.digest # 0 => item.digest \in pushed[proc[w].id]
      /\ proc[w].pc \in {"running", "record"} => item.status = "pushing"
      /\ proc[w].pc = "record" => item.gen \in pushed[proc[w].id]
      /\ item.gen \in Nat /\ proc[w].id \in Builds
  BY <1>1, <1>2, ExecutionFacts DEF Item
<1>p. /\ pushed \in [Builds -> SUBSET Nat]
      /\ {"building", "pushing", "failed"} \subseteq Active \cup Terminal
      /\ {"building", "pushing"} \subseteq Active
      /\ {"checking", "build", "record", "publish"} \subseteq Working
  BY DEF BuildInv, TypeOK, Active, Terminal, Working
<1>4. CASE CheckedOut(w)
  <2>1. UNCHANGED <<pushed, artifact, release, app, retire, faults>>
    BY <1>4 DEF CheckedOut
  <2>2. CASE item.status = "checking_out" /\ Saves(w, Transition(item, "building"), "checking")
    BY <1>1, <1>2, <1>3, <1>p, <2>1, <2>2, TransitionOK, SavesKeepIt
  <2>3. CASE item.status = "building" /\ Saves(w, Transition(item, "pushing"), "build")
    BY <1>1, <1>2, <1>3, <1>p, <2>1, <2>3, TransitionOK, SavesKeepIt
  <2>4. CASE item.status = "pushing" /\ proc' = [proc EXCEPT ![w].pc = "build"] /\ UNCHANGED <<db, live>>
    BY <1>1, <1>2, <1>3, <1>p, <2>1, <2>4, PcMoves
  <2> QED BY <1>1, <1>4, <2>2, <2>3, <2>4 DEF CheckedOut
<1>5. CASE Push(w)
  <2>1. /\ pushed' \in [Builds -> SUBSET Nat] /\ \A b \in Builds : pushed[b] \subseteq pushed'[b]
        /\ item.gen \in pushed'[proc[w].id] /\ proc' = [proc EXCEPT ![w].pc = "record"]
        /\ UNCHANGED <<db, live, artifact, release, app, retire, faults>> /\ item.status = "pushing"
    BY <1>1, <1>3, <1>5, <1>p DEF Push
  <2> QED BY <1>1, <1>2, <1>p, <2>1, PcMoves
<1>6. CASE RecordPushedImage(w)
  <2>1. PICK recorded : recorded = [item EXCEPT !.digest = item.gen]
    OBVIOUS
  <2>2. /\ recorded \in Item /\ recorded.status = "pushing" /\ recorded.version = item.version
        /\ recorded.digest = item.gen /\ recorded.gen = item.gen
    BY <1>3, <1>6, <2>1 DEF Item, RecordPushedImage
  <2>3. /\ Saves(w, recorded, "publish") /\ UNCHANGED <<pushed, artifact, release, app, retire, faults>>
        /\ proc[w].pc = "record"
    BY <1>1, <1>6, <2>1 DEF RecordPushedImage
  <2>4. recorded.status \in Active
    BY <2>2 DEF Active
  <2> QED BY <1>1, <1>2, <1>3, <1>p, <2>2, <2>3, <2>4, SavesKeepIt
<1>7. CASE StepFailed(w)
  <2>1. /\ Saves(w, Transition(item, "failed"), "idle")
        /\ UNCHANGED <<pushed, artifact, release, app, retire, faults>>
    BY <1>1, <1>7 DEF StepFailed
  <2> QED BY <1>1, <1>2, <1>3, <1>p, <2>1, TransitionOK, SavesKeepIt
<1> QED BY <1>4, <1>5, <1>6, <1>7

\* PublishArtifact: the Artifact and the success are one transaction.
LEMMA PublishKeepsIt ==
    ASSUME BuildInv, NEW w \in Workers, PublishArtifact(w)
    PROVE  BuildStepOK
<1>1. proc[w].pc = "publish" /\ proc[w].pc \in Working /\ UNCHANGED <<pushed, release, app, retire, faults>>
  BY DEF PublishArtifact, Working
<1>2. PICK item, b : item = proc[w].item /\ b = proc[w].id
  OBVIOUS
<1>3. /\ item \in Item /\ b \in Builds /\ item.status = "pushing" /\ item.digest \in pushed[b]
      /\ Matches(w) => db[b] = item
      /\ db \in [Builds -> Item] /\ artifact \in [Builds -> ArtifactItem] /\ w \in Processes
      /\ proc \in [Processes -> ProcState] /\ live \in [Builds -> BOOLEAN] /\ faults \in Nat
  BY <1>1, <1>2, ExecutionFacts, BuildTypes DEF Processes, BuildInv, TypeOK
<1>4. CASE Lost(w) /\ UNCHANGED artifact
  BY <1>1, <1>3, <1>4, IdleMoves DEF Lost
<1>5. CASE /\ Matches(w)
           /\ artifact' = [artifact EXCEPT ![b] = NewArtifact(item)]
           /\ db' = [db EXCEPT ![b] = [Transition(item, "succeeded") EXCEPT !.version = @ + 1]]
           /\ live' = [live EXCEPT ![b] = FALSE]
           /\ proc' = [proc EXCEPT ![w] =
                IF item.auto
                THEN [pc |-> "release", id |-> b, item |-> NoBuild, art |-> NewArtifact(item)]
                ELSE Idle]
  <2>1. PICK new : new = NewArtifact(item)
    OBVIOUS
  <2>2. new \in ArtifactItem /\ new # NoArtifact /\ new.digest = item.digest /\ new.release \in {"pending", "available"}
    BY <1>3, <2>1 DEF NewArtifact, NoArtifact, ArtifactItem, Item
  <2>3. PICK done : done = [Transition(item, "succeeded") EXCEPT !.version = @ + 1]
    OBVIOUS
  <2>4. /\ done \in Item /\ done.status = "succeeded" /\ done.version = item.version + 1
        /\ done.digest = item.digest /\ item.version \in Nat
    <3>1. "succeeded" \in Active \cup Terminal
      BY DEF Terminal
    <3>2. PICK moved \in Item : moved = Transition(item, "succeeded")
      BY <1>3, <3>1, TransitionOK
    <3>3. moved.status = "succeeded" /\ moved.version = item.version /\ moved.digest = item.digest
      BY <1>3, <3>1, <3>2, TransitionOK
    <3> QED BY <1>3, <2>3, <3>2, <3>3 DEF Item
  <2>5. /\ db'[b] = done /\ artifact'[b] = new
        /\ \A c \in Builds \ {b} : db'[c] = db[c] /\ artifact'[c] = artifact[c]
        /\ db' \in [Builds -> Item] /\ artifact' \in [Builds -> ArtifactItem] /\ live' \in [Builds -> BOOLEAN]
    BY <1>3, <1>5, <2>1, <2>2, <2>3, <2>4
  <2>6. db[b] = item /\ item.status \in Active
    BY <1>3, <1>5 DEF Active
  <2>7. Moves(b)
    <3>1. BuildOK(b)'
      BY <1>1, <1>3, <2>2, <2>4, <2>5 DEF BuildOK
    <3> QED BY <1>1, <1>3, <2>2, <2>4, <2>5, <2>6, <3>1 DEF Moves
  <2>8. \A c \in Builds : Moves(c)
    BY <1>1, <2>5, <2>7, SameMoves
  <2>9. PICK q : q = IF item.auto THEN [pc |-> "release", id |-> b, item |-> NoBuild, art |-> new] ELSE Idle
    OBVIOUS
  <2>10. q \in ProcState /\ q.pc \in {"release", "idle"} /\ (q.pc = "release" => q.id = b)
    BY <1>3, <2>2, <2>9 DEF ProcState, Idle, NoBuild, NoArtifact, Item, ArtifactItem
  <2>11. /\ proc'[w] = q /\ \A y \in Processes \ {w} : proc'[y] = proc[y]
         /\ proc' \in [Processes -> ProcState]
    BY <1>3, <1>5, <2>1, <2>9, <2>10
  <2>12. TypeOK'
    BY <1>1, <2>5, <2>11 DEF BuildInv, TypeOK, Processes, ProcState, Working
  <2>13. ExecutionOK(w)' /\ ReleasingOK(w)'
    BY <1>3, <2>2, <2>5, <2>10, <2>11 DEF ExecutionOK, ReleasingOK, Working
  <2> QED BY <1>1, <1>3, <2>8, <2>11, <2>12, <2>13, ProcessMoves
<1> QED BY <1>2, <1>4, <1>5 DEF PublishArtifact

\* The claim: the copy is what was just stored.
LEMMA ClaimKeepsIt ==
    ASSUME BuildInv, NEW w \in Workers, ClaimNextBuild(w)
    PROVE  BuildStepOK
<1>1. PICK b \in Claimable :
        LET item == [db[b] EXCEPT !.owner = w, !.gen = @ + 1, !.version = @ + 1] IN
           /\ db' = [db EXCEPT ![b] = item]
           /\ live' = [live EXCEPT ![b] = TRUE]
           /\ proc' = [proc EXCEPT ![w] = [pc |-> "run", id |-> b, item |-> item, art |-> NoArtifact]]
  BY DEF ClaimNextBuild
<1>2. UNCHANGED <<pushed, artifact, release, app, retire, faults>>
  BY DEF ClaimNextBuild
<1>3. /\ b \in Builds /\ db[b].status \in Active /\ db[b] \in Item
      /\ db \in [Builds -> Item] /\ w \in Processes
      /\ proc \in [Processes -> ProcState] /\ live \in [Builds -> BOOLEAN] /\ BuildOK(b)
  BY BuildTypes DEF Processes, BuildInv, TypeOK, Claimable
<1>4. PICK item : item = [db[b] EXCEPT !.owner = w, !.gen = @ + 1, !.version = @ + 1]
  OBVIOUS
<1>5. /\ item \in Item /\ item.status = db[b].status /\ item.digest = db[b].digest
      /\ item.version = db[b].version + 1 /\ db[b].version \in Nat
  <2>1. PICK old : old = db[b]
    OBVIOUS
  <2>2. PICK g, v \in Nat : g = old.gen + 1 /\ v = old.version + 1
    BY <1>3, <2>1 DEF Item
  <2>3. item = [old EXCEPT !.owner = w, !.gen = g, !.version = v] /\ old \in Item
    BY <1>3, <1>4, <2>1, <2>2
  <2>4. item \in Item
    BY <2>2, <2>3 DEF Item
  <2>5. item.status = old.status /\ item.digest = old.digest /\ item.version = v /\ old.version \in Nat
    BY <2>3 DEF Item
  <2> QED BY <2>1, <2>2, <2>4, <2>5
<1>6. PICK q : q = [pc |-> "run", id |-> b, item |-> item, art |-> NoArtifact]
  OBVIOUS
<1>7. q \in ProcState /\ q.pc = "run" /\ q.id = b /\ q.item = item
  BY <1>3, <1>5, <1>6 DEF ProcState, Working, NoArtifact, ArtifactItem
<1>8. /\ db' = [db EXCEPT ![b] = item] /\ live' = [live EXCEPT ![b] = TRUE]
      /\ proc' = [proc EXCEPT ![w] = q]
  BY <1>1, <1>4, <1>6
<1>9. /\ db'[b] = item /\ \A c \in Builds \ {b} : db'[c] = db[c]
      /\ proc'[w] = q /\ \A y \in Processes \ {w} : proc'[y] = proc[y]
      /\ db' \in [Builds -> Item] /\ live' \in [Builds -> BOOLEAN] /\ proc' \in [Processes -> ProcState]
  BY <1>3, <1>5, <1>7, <1>8
<1>10. Moves(b)
  <2>1. BuildOK(b)'
    BY <1>2, <1>3, <1>5, <1>9 DEF BuildOK, Active
  <2> QED BY <1>2, <1>3, <1>5, <1>9, <2>1 DEF Moves, Active
<1>11. \A c \in Builds : Moves(c)
  BY <1>2, <1>9, <1>10, SameMoves
<1>12. TypeOK'
  BY <1>2, <1>9 DEF BuildInv, TypeOK, Processes, ProcState, Working
<1>13. ExecutionOK(w)'
  <2>1. CopyOK(b, item)'
    BY <1>5, <1>9 DEF CopyOK
  <2> QED BY <1>2, <1>3, <1>5, <1>7, <1>9, <2>1 DEF ExecutionOK, BuildOK, CopyOK
<1>14. ReleasingOK(w)'
  BY <1>7, <1>9 DEF ReleasingOK
<1> QED BY <1>2, <1>3, <1>9, <1>11, <1>12, <1>13, <1>14, ProcessMoves

\* An Artifact is taken, by a worker that coordinates its Release or by a user.
LEMMA TakeKeepsIt ==
    ASSUME BuildInv,
           \/ \E w \in Workers : CoordinatePendingRelease(w)
           \/ \E b \in Builds : ReleaseRead(b)
    PROVE  BuildStepOK
<1>1. PICK x \in Processes, b \in Builds :
          /\ artifact[b].release \in {"pending", "available", "skipped"}
          /\ proc' = [proc EXCEPT ![x] = [pc |-> "release", id |-> b, item |-> NoBuild, art |-> artifact[b]]]
          /\ UNCHANGED <<db, live, pushed, artifact, release, app, retire, faults>>
  BY DEF CoordinatePendingRelease, ReleaseRead, Processes
<1>2. PICK q : q = [pc |-> "release", id |-> b, item |-> NoBuild, art |-> artifact[b]]
  OBVIOUS
<1>3. q \in ProcState /\ q.pc = "release" /\ q.id = b
  BY <1>2, BuildTypes DEF ProcState, NoBuild, Item
<1>4. /\ proc'[x] = q /\ \A y \in Processes \ {x} : proc'[y] = proc[y]
      /\ proc' \in [Processes -> ProcState]
  BY <1>1, <1>2, <1>3, BuildTypes
<1>5. TypeOK'
  BY <1>1, <1>4 DEF BuildInv, TypeOK, Processes, ProcState, Working
<1>6. artifact[b] # NoArtifact
  BY <1>1 DEF NoArtifact
<1>7. ExecutionOK(x)' /\ ReleasingOK(x)'
  BY <1>1, <1>3, <1>4, <1>6 DEF ExecutionOK, ReleasingOK, Working
<1>8. \A c \in Builds : Moves(c)
  BY <1>1, SameMoves
<1> QED BY <1>1, <1>4, <1>5, <1>7, <1>8, ProcessMoves

\* The Release itself needs an active Application, so its Artifact is not one
\* that the retirement has skipped.
LEMMA ReleaseKeepsIt ==
    ASSUME BuildInv, NEW x \in Processes, CreateArtifactRelease(x)
    PROVE  BuildStepOK
<1>1. PICK b \in Builds : b = proc[x].id
  BY DEF CreateArtifactRelease, BuildInv, ReleasingOK
<1>2. artifact[b] # NoArtifact /\ proc[x] \in ProcState /\ proc[x].pc = "release" /\ release \subseteq Builds
  BY <1>1, BuildTypes DEF CreateArtifactRelease, BuildInv, ReleasingOK, TypeOK
<1>3. CASE /\ b \in release \/ Fence
           /\ release' = release \cup {b}
           /\ proc' = [proc EXCEPT ![x].pc = "mark"]
           /\ UNCHANGED <<db, live, pushed, artifact, app, retire, faults>>
  <2>1. /\ proc'[x].pc = "mark" /\ proc'[x].id = b
        /\ \A y \in Processes \ {x} : proc'[y] = proc[y] /\ proc' \in [Processes -> ProcState]
    BY <1>1, <1>2, <1>3, BuildTypes DEF ProcState
  <2>2. TypeOK'
    BY <1>2, <1>3, <2>1 DEF BuildInv, TypeOK, Processes, ProcState, Working
  <2>3. ExecutionOK(x)' /\ ReleasingOK(x)'
    BY <1>2, <1>3, <2>1 DEF ExecutionOK, ReleasingOK, Working
  <2>4. b \in release \/ app = "active"
    BY <1>3 DEF Fence
  <2>5. release' = release \/ (app = "active" /\ release \subseteq release')
    BY <1>3, <2>4
  <2>6. \A c \in Builds : Moves(c)
    BY <1>3, <2>5, SameMoves
  <2>7. \A y \in Processes \ {x} : proc'[y] = proc[y]
    BY <2>1
  <2> QED BY <1>3, <2>2, <2>3, <2>6, <2>7, ProcessMoves
<1>4. CASE proc' = [proc EXCEPT ![x] = Idle] /\ UNCHANGED <<db, live, pushed, artifact, release, app, retire, faults>>
  <2>1. faults \in Nat
    BY DEF BuildInv, TypeOK
  <2> QED BY <1>4, <2>1, IdleMoves
<1> QED BY <1>1, <1>3, <1>4 DEF CreateArtifactRelease

\* A write of the release status, under the version of the copy.
LEMMA StatusMoves ==
    ASSUME BuildInv, NEW b \in Builds, artifact[b] # NoArtifact, NEW copy, NEW status,
           artifact' = SaveArtifactRelease(b, copy, status),
           UNCHANGED <<db, live, pushed, release, app>>,
           \/ status = "created" /\ b \in release
           \/ status = "skipped" /\ b \notin release /\ app # "active"
    PROVE  /\ \A c \in Builds : Moves(c) 
           /\ artifact' \in [Builds -> ArtifactItem]
<1>1. artifact \in [Builds -> ArtifactItem] /\ BuildOK(b) /\ artifact[b] \in ArtifactItem
  BY BuildTypes DEF BuildInv
<1>2. CASE artifact[b].version = copy.version
  <2>1. PICK old \in ArtifactItem : old = artifact[b]
    BY <1>1
  <2>2. PICK v \in Nat : v = old.version + 1
    BY <2>1 DEF ArtifactItem
  <2>3. PICK new : new = [old EXCEPT !.release = status, !.version = v]
    OBVIOUS
  <2>4. new \in ArtifactItem /\ new.release = status /\ new.digest = old.digest
    BY <2>1, <2>2, <2>3 DEF ArtifactItem
  <2>5. artifact' = [artifact EXCEPT ![b] = new]
    BY <1>1, <1>2, <2>1, <2>2, <2>3 DEF SaveArtifactRelease
  <2>6. artifact'[b] = new /\ \A c \in Builds \ {b} : artifact'[c] = artifact[c]
    BY <1>1, <2>5
  <2>7. Moves(b)
    <3>1. new # NoArtifact
      BY <2>4 DEF NoArtifact
    <3>2. BuildOK(b)'
      BY <1>1, <2>1, <2>4, <2>6, <3>1 DEF BuildOK
    <3> QED BY <1>1, <2>1, <2>4, <2>6, <3>1, <3>2 DEF Moves, BuildOK, Active
  <2> QED BY <1>1, <2>4, <2>5, <2>6, <2>7, SameMoves
<1>3. CASE artifact[b].version # copy.version
  <2>1. artifact' = artifact
    BY <1>3 DEF SaveArtifactRelease
  <2> QED BY <1>1, <2>1, SameMoves
<1> QED BY <1>2, <1>3

\* MarkReleaseCreated, only of an Artifact whose Release exists.
LEMMA RecordKeepsIt ==
    ASSUME BuildInv, NEW x \in Processes, RecordArtifactRelease(x)
    PROVE  BuildStepOK
<1>1. PICK b \in Builds : b = proc[x].id /\ b \in release /\ artifact[b] # NoArtifact
  BY DEF RecordArtifactRelease, BuildInv, ReleasingOK
<1>2. proc' = [proc EXCEPT ![x] = Idle] /\ UNCHANGED <<db, live, pushed, release, app, retire, faults>>
  BY DEF RecordArtifactRelease
<1>3. artifact' = artifact \/ artifact' = SaveArtifactRelease(b, proc[x].art, "created")
  BY <1>1 DEF RecordArtifactRelease
<1>4. /\ \A c \in Builds : Moves(c)
      /\ artifact' \in [Builds -> ArtifactItem]
  <2>1. CASE artifact' = artifact
    BY <1>2, <2>1, SameMoves, BuildTypes
  <2>2. CASE artifact' = SaveArtifactRelease(b, proc[x].art, "created")
    BY <1>1, <1>2, <2>2, StatusMoves
  <2> QED BY <1>3, <2>1, <2>2
<1>5. proc'[x] = Idle /\ \A y \in Processes \ {x} : proc'[y] = proc[y]
  BY <1>2, BuildTypes
<1>6. TypeOK'
  <2>1. Idle \in ProcState
    BY DEF Idle, ProcState, NoBuild, NoArtifact, Item, ArtifactItem
  <2>2. proc' \in [Processes -> ProcState]
    BY <1>2, <2>1, BuildTypes
  <2> QED BY <1>2, <1>4, <2>2 DEF BuildInv, TypeOK, Processes, ProcState, Working
<1>7. ExecutionOK(x)' /\ ReleasingOK(x)'
  BY <1>5 DEF ExecutionOK, ReleasingOK, Idle, Working
<1> QED BY <1>2, <1>4, <1>5, <1>6, <1>7, ProcessMoves

\* Work comes in while the Application is active.
LEMMA CreationOfWork ==
    ASSUME BuildInv, NEW b \in Builds, NEW auto \in BOOLEAN, db[b].status = "absent", Fence,
           db' = [db EXCEPT ![b] = NewBuild(auto)],
           UNCHANGED <<live, pushed, artifact, release, app, proc, retire, faults>>
    PROVE  BuildStepOK
<1> USE BuildsAssumption
<1>1. PICK new : new = NewBuild(auto)
  OBVIOUS
<1>2. new \in Item /\ new.status = "queued" /\ new.version = 1 /\ new.digest = 0
  BY <1>1 DEF NewBuild, NoBuild, Item, Active
<1>3. /\ db'[b] = new /\ \A c \in Builds \ {b} : db'[c] = db[c]
      /\ db' \in [Builds -> Item]
  BY <1>1, <1>2, BuildTypes
<1>4. BuildOK(b) /\ db[b].version = 0 /\ app = "active"
  <2>1. BuildOK(b) /\ app = "active"
    BY DEF BuildInv, Fence
  <2>2. db[b] = NoBuild
    BY <2>1 DEF BuildOK
  <2> QED BY <2>1, <2>2 DEF NoBuild
<1>5. Moves(b)
  <2>1. BuildOK(b)'
    BY <1>2, <1>3, <1>4 DEF BuildOK
  <2> QED BY <1>2, <1>3, <1>4, <2>1 DEF Moves
<1>6. \A c \in Builds : Moves(c)
  BY <1>3, <1>5, SameMoves
<1>7. TypeOK'
  BY <1>3 DEF BuildInv, TypeOK
<1> QED BY <1>6, <1>7, ApiMoves

\* SaveBuild of a copy that says the Build can be canceled.
LEMMA CancelMoves ==
    ASSUME BuildInv, NEW b \in Builds, NEW copy, CopyOK(b, copy), Cancelable(copy),
           db' = SaveBuild(b, Transition(copy, "canceling")),
           UNCHANGED <<live, pushed, artifact, release, app, proc, faults>>,
           retire'.pc \in {"idle", "builds", "artifacts"}
    PROVE  (\A c \in Builds : Moves(c)) /\ TypeOK'
<1>1. BuildOK(b) /\ copy \in Item /\ copy.status \in Active \ {"canceling"}
  BY DEF BuildInv, CopyOK, Cancelable, Transitions, Active
<1>2. PICK item \in Item : item = Transition(copy, "canceling")
  <2>1. "canceling" \in Active \cup Terminal
    BY DEF Active
  <2> QED BY <1>1, <2>1, TransitionOK
<1>3. item.status = "canceling" /\ item.version = copy.version /\ item.digest = copy.digest
  BY <1>1, <1>2, TransitionOK DEF Active
<1>4. CASE db[b].version = copy.version
  <2>1. db[b] = copy /\ db[b].version \in Nat
    BY <1>4, BuildTypes DEF CopyOK
  <2>2. PICK saved : saved = [item EXCEPT !.version = @ + 1]
    OBVIOUS
  <2>3. /\ saved \in Item /\ saved.status = "canceling" /\ saved.version = db[b].version + 1
        /\ saved.digest = db[b].digest
    BY <1>3, <2>1, <2>2 DEF Item
  <2>4. db' = [db EXCEPT ![b] = saved]
    BY <1>2, <1>3, <1>4, <2>2 DEF SaveBuild
  <2>5. /\ db'[b] = saved /\ db' \in [Builds -> Item]
        /\ \A c \in Builds \ {b} : db'[c] = db[c]
    BY <2>3, <2>4, BuildTypes
  <2>6. Moves(b)
    <3>1. BuildOK(b)'
      BY <1>1, <2>1, <2>3, <2>5 DEF BuildOK, Active
    <3> QED BY <1>1, <2>1, <2>3, <2>5, <3>1 DEF Moves
  <2>7. \A c \in Builds : Moves(c)
    BY <2>5, <2>6, SameMoves
  <2>8. TypeOK'
    BY <2>5 DEF BuildInv, TypeOK
  <2> QED BY <2>7, <2>8
<1>5. CASE db[b].version # copy.version
  <2>1. db' = db
    BY <1>2, <1>3, <1>5 DEF SaveBuild
  <2>2. \A c \in Builds : Moves(c)
    BY <2>1, SameMoves
  <2>3. TypeOK'
    BY <2>1 DEF BuildInv, TypeOK
  <2> QED BY <2>2, <2>3
<1> QED BY <1>4, <1>5

\* The users' requests that write Builds.
LEMMA ApiKeepsIt ==
    ASSUME BuildInv,
           \E b \in Builds : \/ \E auto \in BOOLEAN : Trigger(b, auto)
                             \/ \E source \in Builds : RetryBuild(source, b)
                             \/ CancelBuild(b)
    PROVE  BuildStepOK
<1>1. CASE \E b \in Builds, auto \in BOOLEAN : Trigger(b, auto)
  BY <1>1, CreationOfWork DEF Trigger
<1>2. CASE \E b \in Builds, source \in Builds : RetryBuild(source, b)
  <2>1. PICK b \in Builds, source \in Builds : RetryBuild(source, b)
    BY <1>2
  <2>2. db[source].auto \in BOOLEAN
    BY BuildTypes DEF Item
  <2> QED BY <2>1, <2>2, CreationOfWork DEF RetryBuild
<1>3. CASE \E b \in Builds : CancelBuild(b)
  <2>1. PICK b \in Builds : CancelBuild(b)
    BY <1>3
  <2>2. CopyOK(b, db[b])
    BY BuildTypes DEF CopyOK
  <2>3. retire' = retire /\ retire.pc \in {"idle", "builds", "artifacts"}
    BY <2>1 DEF CancelBuild, BuildInv, TypeOK
  <2>4. (\A c \in Builds : Moves(c)) /\ TypeOK'
    BY <2>1, <2>2, <2>3, CancelMoves DEF CancelBuild
  <2> QED BY <2>1, <2>4, ApiMoves DEF CancelBuild
<1> QED BY <1>1, <1>2, <1>3

\* Leases run out, retirement begins: no document changes.
LEMMA ExpireKeepsIt ==
    ASSUME BuildInv, NEW b \in Builds, Expire(b)
    PROVE  BuildStepOK
<1>1. UNCHANGED <<db, pushed, artifact, release, app, proc, retire>>
  BY DEF Expire
<1>2. live' \in [Builds -> BOOLEAN] /\ faults' \in Nat
  BY DEF Expire, BuildInv, TypeOK
<1>3. TypeOK'
  BY <1>1, <1>2 DEF BuildInv, TypeOK
<1>4. \A c \in Builds : Moves(c)
  BY <1>1, SameMoves
<1> QED BY <1>1, <1>3, <1>4, ApiMoves

\* A worker gives its Build up.
LEMMA AbandonKeepsIt ==
    ASSUME BuildInv, NEW x \in Processes, Abandon(x)
    PROVE  BuildStepOK
<1>1. faults' \in Nat
  BY DEF Abandon, BuildInv, TypeOK
<1> QED BY <1>1, IdleMoves DEF Abandon

\* The Application's status moves on, and no document changes.
LEMMA AppMoves ==
    ASSUME BuildInv, UNCHANGED <<db, live, pushed, artifact, release, proc, faults>>,
           app' \in {"retiring", "retired"}, PassOK', RetiredIsQuiet',
           retire'.pc \in {"idle", "builds", "artifacts"}
    PROVE  BuildStepOK
<1>1. TypeOK'
  BY DEF BuildInv, TypeOK
<1>2. \A b \in Builds : BuildOK(b)'
  BY DEF BuildInv, BuildOK
<1>3. \A x \in Processes : ExecutionOK(x)' /\ ReleasingOK(x)'
  BY DEF BuildInv, ExecutionOK, ReleasingOK, CopyOK
<1> QED BY <1>1, <1>2, <1>3 DEF BuildInv, BuildStepOK, CancelStays

\* BeginProductResourceRetirement closes admission.
LEMMA BeginRetirementKeepsIt ==
    ASSUME BuildInv, BeginRetirement
    PROVE  BuildStepOK
<1>1. PassOK'
  BY DEF BuildInv, BeginRetirement, PassOK
<1>2. RetiredIsQuiet'
  BY DEF BeginRetirement, RetiredIsQuiet
<1>3. retire'.pc \in {"idle", "builds", "artifacts"}
  BY DEF BuildInv, BeginRetirement, PassOK
<1> QED BY <1>1, <1>2, <1>3, AppMoves DEF BeginRetirement

\* The listings: a pass that listed nothing so far saw that there was nothing.
LEMMA ListingKeepsIt ==
    ASSUME BuildInv, ListActiveBuilds \/ ListPendingArtifacts
    PROVE  BuildStepOK
<1>1. CASE ListActiveBuilds
  <2>1. PICK B \in Batches({b \in Builds : db[b].status \in Active}) :
          retire' = [pc |-> "builds", todo |-> {[id |-> b, copy |-> db[b]] : b \in B}, listed |-> B # {}]
    BY <1>1 DEF ListActiveBuilds
  <2>2. B \subseteq Builds /\ (B = {} => \A b \in Builds : db[b].status \notin Active)
    BY DEF Batches
  <2>3. ASSUME NEW t \in retire'.todo PROVE t.id \in Builds /\ CopyOK(t.id, t.copy)'
    <3>1. PICK b \in B : t = [id |-> b, copy |-> db[b]]
      BY <2>1
    <3>2. db'[b] = db[b] /\ db[b] \in Item /\ db[b].version \in Nat /\ b \in Builds
      BY <1>1, <2>2, BuildTypes DEF ListActiveBuilds
    <3>3. t.id = b /\ t.copy = db[b]
      BY <3>1
    <3> QED BY <3>2, <3>3 DEF CopyOK
  <2>4. app' = "retiring" /\ UNCHANGED <<db, live, pushed, artifact, release, proc, faults, app>>
    BY <1>1 DEF ListActiveBuilds
  <2>5. retire'.pc = "builds" /\ retire'.listed = (B # {})
    BY <2>1
  <2>6. PassOK'
    <3>1. retire' \in BuildPasses
      <4>1. \A b \in B : [id |-> b, copy |-> db[b]] \in [id : Builds, copy : Item \cup ArtifactItem]
        BY <2>2, BuildTypes
      <4> QED BY <2>1, <4>1 DEF BuildPasses
    <3> QED BY <2>2, <2>3, <2>4, <2>5, <3>1 DEF PassOK
  <2>7. RetiredIsQuiet'
    BY <2>4 DEF RetiredIsQuiet
  <2> QED BY <2>4, <2>5, <2>6, <2>7, AppMoves
<1>2. CASE ListPendingArtifacts
  <2>1. PICK B \in Batches({b \in Builds : artifact[b].release = "pending"}) :
          retire' = [pc |-> "artifacts", todo |-> {[id |-> b, copy |-> artifact[b]] : b \in B},
                     listed |-> retire.listed \/ B # {}]
    BY <1>2 DEF ListPendingArtifacts
  <2>2. /\ B \subseteq Builds /\ \A b \in B : artifact[b].release = "pending"
        /\ B = {} => \A b \in Builds : artifact[b].release # "pending"
    BY DEF Batches
  <2>3. ASSUME NEW t \in retire'.todo
        PROVE  t.id \in Builds /\ t.copy \in ArtifactItem /\ artifact'[t.id] # NoArtifact
    <3>1. PICK b \in B : t = [id |-> b, copy |-> artifact[b]]
      BY <2>1
    <3>2. artifact'[b] = artifact[b] /\ artifact[b] \in ArtifactItem /\ b \in Builds /\ artifact[b].release = "pending"
      BY <1>2, <2>2, BuildTypes DEF ListPendingArtifacts
    <3>3. t.id = b /\ t.copy = artifact[b]
      BY <3>1
    <3> QED BY <3>2, <3>3 DEF NoArtifact
  <2>4. /\ app' = "retiring" /\ UNCHANGED <<db, live, pushed, artifact, release, proc, faults, app>>
        /\ retire.pc = "builds" /\ PassOK
    BY <1>2 DEF ListPendingArtifacts, BuildInv, PassOK
  <2>5. retire'.pc = "artifacts" /\ retire'.listed = (retire.listed \/ B # {}) /\ retire.listed \in BOOLEAN
    BY <2>1, <2>4 DEF PassOK, BuildPasses
  <2>6. PassOK'
    <3>1. ~retire'.listed => /\ \A b \in Builds : db'[b].status \notin Active
                             /\ \A b \in Builds : artifact'[b].release # "pending"
      BY <2>2, <2>4, <2>5 DEF PassOK
    <3>2. retire'.listed \in BOOLEAN
      BY <2>5
    <3>3. retire' \in BuildPasses
      <4>1. \A b \in B : [id |-> b, copy |-> artifact[b]] \in [id : Builds, copy : Item \cup ArtifactItem]
        BY <2>2, BuildTypes
      <4> QED BY <2>1, <3>2, <2>5, <4>1 DEF BuildPasses
    <3> QED BY <2>3, <2>4, <2>5, <3>1, <3>2, <3>3 DEF PassOK
  <2>7. RetiredIsQuiet'
    BY <2>4 DEF RetiredIsQuiet
  <2> QED BY <2>4, <2>5, <2>6, <2>7, AppMoves
<1> QED BY <1>1, <1>2

\* The end of a pass: retired only when it listed nothing.
LEMMA FinishKeepsIt ==
    ASSUME BuildInv, FinishPass
    PROVE  BuildStepOK
<1>1. /\ UNCHANGED <<db, live, pushed, artifact, release, proc, faults>>
      /\ retire.pc = "artifacts" /\ retire' = NoPass /\ app = "retiring" /\ PassOK
      /\ app' = IF retire.listed THEN app ELSE "retired"
  BY DEF FinishPass, BuildInv, PassOK
<1>2. PassOK' /\ retire'.pc = "idle" /\ app' \in {"retiring", "retired"}
  BY <1>1 DEF PassOK, NoPass, BuildPasses
<1>3. RetiredIsQuiet'
  BY <1>1 DEF PassOK, RetiredIsQuiet
<1> QED BY <1>1, <1>2, <1>3, AppMoves

\* What is left of the pass after one document was dealt with.
LEMMA PassShrinks ==
    ASSUME BuildInv, \A b \in Builds : Moves(b), TypeOK', UNCHANGED <<app, release, proc>>,
           retire' = NoPass \/ \E t \in retire.todo : retire' = [retire EXCEPT !.todo = @ \ {t}],
           retire.pc # "idle"
    PROVE  BuildStepOK
<1>1. PassOK /\ RetiredIsQuiet
  BY DEF BuildInv
<1>2. /\ retire' \in BuildPasses
      /\ retire'.pc \in {retire.pc, "idle"} /\ retire'.todo \subseteq retire.todo
      /\ (retire'.pc # "idle" => retire'.listed = retire.listed)
  <2>1. CASE retire' = NoPass
    BY <2>1 DEF BuildPasses, NoPass
  <2>2. ASSUME NEW t \in retire.todo, retire' = [retire EXCEPT !.todo = @ \ {t}]
        PROVE  /\ retire' \in BuildPasses
               /\ retire'.pc \in {retire.pc, "idle"} /\ retire'.todo \subseteq retire.todo
               /\ (retire'.pc # "idle" => retire'.listed = retire.listed)
    <3>1. retire \in BuildPasses
      BY <1>1 DEF PassOK
    <3> QED BY <2>2, <3>1 DEF BuildPasses
  <2> QED BY <2>1, <2>2
<1>3. RetiredIsQuiet'
  BY <1>1 DEF RetiredIsQuiet, Moves
<1>4. ASSUME retire'.pc = "builds", NEW t \in retire'.todo PROVE t.id \in Builds /\ CopyOK(t.id, t.copy)'
  <2>1. t.id \in Builds /\ CopyOK(t.id, t.copy)
    BY <1>1, <1>2, <1>4 DEF PassOK
  <2> QED BY <2>1, CopyStays
<1>5. retire'.pc = "artifacts" =>
          \A t \in retire'.todo : t.id \in Builds /\ t.copy \in ArtifactItem /\ artifact'[t.id] # NoArtifact
  BY <1>1, <1>2 DEF PassOK, Moves
<1>6. ASSUME retire'.pc # "idle", ~retire'.listed
      PROVE  /\ \A b \in Builds : db'[b].status \notin Active
             /\ retire'.pc = "artifacts" => \A b \in Builds : artifact'[b].release # "pending"
  BY <1>1, <1>2, <1>6 DEF PassOK, Moves
<1>7. PassOK'
  BY <1>1, <1>2, <1>4, <1>5, <1>6 DEF PassOK
<1> QED BY <1>3, <1>7, ProcessStays DEF BuildInv, Moves, BuildStepOK, CancelStays

\* A Build that the pass cancels, or finds ended.
LEMMA RetireBuildKeepsIt ==
    ASSUME BuildInv, RetireBuild
    PROVE  BuildStepOK
<1>1. PICK t \in retire.todo :
        /\ db' = IF Cancelable(t.copy) THEN SaveBuild(t.id, Transition(t.copy, "canceling")) ELSE db
        /\ retire' = IF db'[t.id].status \in Terminal \cup {"canceling"}
                     THEN [retire EXCEPT !.todo = @ \ {t}]
                     ELSE NoPass
  BY DEF RetireBuild
<1>2. /\ UNCHANGED <<live, pushed, artifact, release, app, proc, faults>> /\ retire.pc = "builds"
      /\ t.id \in Builds /\ CopyOK(t.id, t.copy) /\ retire \in BuildPasses
  BY DEF RetireBuild, BuildInv, PassOK
<1>3. retire' = NoPass \/ retire' = [retire EXCEPT !.todo = @ \ {t}]
  BY <1>1
<1>4. retire'.pc \in {"idle", "builds", "artifacts"}
  BY <1>2, <1>3 DEF NoPass, BuildPasses
<1>5. (\A b \in Builds : Moves(b)) /\ TypeOK'
  <2>1. CASE Cancelable(t.copy)
    BY <1>1, <1>2, <1>4, <2>1, CancelMoves
  <2>2. CASE ~Cancelable(t.copy)
    <3>1. db' = db
      BY <1>1, <2>2
    <3>2. \A b \in Builds : Moves(b)
      BY <1>2, <3>1, SameMoves
    <3>3. TypeOK'
      BY <1>2, <1>4, <3>1 DEF BuildInv, TypeOK
    <3> QED BY <3>2, <3>3
  <2> QED BY <2>1, <2>2
<1> QED BY <1>2, <1>3, <1>5, PassShrinks

\* An Artifact whose Release is created, or is not to come any more.
LEMMA ReconcileKeepsIt ==
    ASSUME BuildInv, ReconcileArtifactRelease
    PROVE  BuildStepOK
<1>1. PICK t \in retire.todo :
        LET status == IF t.id \in release THEN "created" ELSE "skipped" IN
        /\ artifact' = SaveArtifactRelease(t.id, t.copy, status)
        /\ retire' = IF artifact'[t.id].release = status
                     THEN [retire EXCEPT !.todo = @ \ {t}]
                     ELSE NoPass
  BY DEF ReconcileArtifactRelease
<1>2. /\ UNCHANGED <<db, live, pushed, release, app, proc, faults>> /\ retire.pc = "artifacts"
      /\ t.id \in Builds /\ artifact[t.id] # NoArtifact /\ retire \in BuildPasses /\ app = "retiring"
  BY DEF ReconcileArtifactRelease, BuildInv, PassOK
<1>3. retire' = NoPass \/ retire' = [retire EXCEPT !.todo = @ \ {t}]
  BY <1>1
<1>4. retire'.pc \in {"idle", "builds", "artifacts"}
  BY <1>2, <1>3 DEF NoPass, BuildPasses
<1>5. PICK status : status = IF t.id \in release THEN "created" ELSE "skipped"
  OBVIOUS
<1>6. /\ \A b \in Builds : Moves(b)
      /\ artifact' \in [Builds -> ArtifactItem]
  <2>1. artifact' = SaveArtifactRelease(t.id, t.copy, status)
    BY <1>1, <1>5
  <2> QED BY <1>2, <1>5, <2>1, StatusMoves
<1>7. TypeOK'
  BY <1>2, <1>4, <1>6 DEF BuildInv, TypeOK
<1> QED BY <1>2, <1>3, <1>6, <1>7, PassShrinks

\* The inductive step of the Builds, with the cancel that stays.
LEMMA BuildStep == BuildInv /\ [Next]_vars => BuildStepOK
<1> SUFFICES ASSUME BuildInv, [Next]_vars PROVE BuildStepOK
  OBVIOUS
<1>1. CASE Api
  BY <1>1, ApiKeepsIt, TakeKeepsIt, ReleaseKeepsIt, RecordKeepsIt DEF Api, Processes
<1>2. CASE \E w \in Workers : Runner(w)
  BY <1>2, ClaimKeepsIt, TakeKeepsIt, RunOnceKeepsIt, RenewalKeepsIt, StepsKeepIt, PublishKeepsIt,
     ReleaseKeepsIt, RecordKeepsIt DEF Runner, Processes
<1>3. CASE \E x \in Processes : Abandon(x)
  BY <1>3, AbandonKeepsIt
<1>4. CASE \E b \in Builds : Expire(b)
  BY <1>4, ExpireKeepsIt
<1>5. CASE BeginRetirement
  BY <1>5, BeginRetirementKeepsIt
<1>6. CASE Retirement
  BY <1>6, ListingKeepsIt, RetireBuildKeepsIt, ReconcileKeepsIt, FinishKeepsIt DEF Retirement
<1>7. CASE UNCHANGED vars
  <2>1. UNCHANGED <<db, live, pushed, artifact, release, app, proc, retire, faults>>
    BY <1>7 DEF vars
  <2>2. \A b \in Builds : Moves(b)
    BY <2>1, SameMoves
  <2>3. TypeOK'
    BY <2>1 DEF BuildInv, TypeOK
  <2> QED BY <2>1, <2>2, <2>3, ApiMoves
<1> QED BY <1>1, <1>2, <1>3, <1>4, <1>5, <1>6, <1>7 DEF Next, Processes

\* The Builds alone, under every interleaving of workers, users and the
\* retirement (build/worker/runner.go, build/data/mongo.go).
THEOREM BuildInvariance == Spec => []BuildInv
<1>1. BuildInv /\ [Next]_vars => BuildInv'
  BY BuildStep DEF BuildStepOK
<1> QED BY <1>1, BuildInit, PTL DEF Spec

\* An accepted cancel is never undone by a late save (SaveClaimedBuild,
\* SaveBuild, PublishArtifact).
THEOREM CancelSticksHolds == Spec => CancelSticks
<1>1. BuildInv /\ [Next]_vars => [CancelStays]_vars
  BY BuildStep DEF BuildStepOK
<1> QED BY <1>1, BuildInvariance, PTL DEF Spec, CancelSticks

-----------------------------------------------------------------------------
(* Terminal sessions.  Every save of a record raises its version, so what a  *)
(* request read is still so as long as the version is the same.              *)

SessionRecords ==
    [status : {"none", "pending", "open", "closing", "closed", "failed"},
     kind : {"container", "host"}, version : Nat, slot : Slots \cup {0},
     ticket : {"none", "valid", "expired"}]

HandlerRecords ==
    [pc : {"none", "authorized", "consumed", "streaming", "ended", "closing", "done"},
     session : TerminalSessions \cup {0}, version : Nat, armed : BOOLEAN,
     outcome : {"none", "closed", "failed"}]

RecordOK(s) ==
    /\ session[s].ticket # "none" => session[s].status = "pending"
    /\ Streams!Active(s) => session[s].slot \in Slots
    /\ creating[s] # "done" => session[s].status = "none"

\* A handler has authorized a session that exists, and consumed its ticket.
HandlerOK(h) ==
    LET q == handler[h] IN
    /\ q.pc # "none" => q.session \in TerminalSessions /\ session[q.session].status # "none"
    /\ q.pc \in {"consumed", "streaming"} => session[q.session].status # "pending"

\* A session is active as long as nobody has saved it after the terminating
\* request read it.
TerminatorOK ==
    terminator.pc # "idle" =>
        /\ terminator.session \in TerminalSessions /\ terminator.version \in Nat
        /\ terminator.version <= session[terminator.session].version
        /\ session[terminator.session].status # "none"
        /\ terminator.version = session[terminator.session].version =>
               Streams!Active(terminator.session)

\* What a pass has not listed is not active, or the pass knows that it is not
\* the last one.
RetirementOK ==
    /\ retirement.pc \in {"idle", "pass"}
    /\ DOMAIN retirement = {"pc", "todo", "seen", "pending"}
    /\ retirement.pc = "idle" => retirement.todo = {}
    /\ \A s \in retirement.todo : s \in TerminalSessions /\ session[s].status # "none"
    /\ retirement.pc = "pass" =>
          /\ owner = "retiring"
          /\ \A s \in TerminalSessions :
                session[s].kind = "container" /\ Streams!Active(s) =>
                    s \in retirement.todo \/ retirement.pending

StreamsInv ==
    /\ session \in [TerminalSessions -> SessionRecords]
    /\ handler \in [Handlers -> HandlerRecords]
    /\ creating \in [TerminalSessions -> {"none", "container", "host", "done"}]
    /\ owner \in {"active", "retiring", "retired"}
    /\ \A s \in TerminalSessions : RecordOK(s)
    /\ \A h \in Handlers : HandlerOK(h)
    /\ TerminatorOK /\ RetirementOK
    /\ Streams!OneStreamPerTicket /\ Streams!RetiredHasNoSession

\* No sessions, no handlers.
LEMMA InitStreams == Streams!SessionsInit => StreamsInv
  BY DEF Streams!SessionsInit, Streams!NoSession, Streams!NoHandler, Streams!NoRequest, Streams!NoPass,
         StreamsInv, SessionRecords, HandlerRecords, RecordOK, HandlerOK, TerminatorOK, RetirementOK,
         Streams!Active, Streams!ActiveStatus, Streams!OneStreamPerTicket, Streams!RetiredHasNoSession

\* A session was saved, or its ticket has run out: it has a higher version, or
\* the status it had; it is not pending again.
Follows(s, status, version) ==
    /\ session' \in [TerminalSessions -> SessionRecords]
    /\ \A o \in TerminalSessions \ {s} : session'[o] = session[o]
    /\ session'[s].kind = session[s].kind /\ session'[s].slot = session[s].slot
    /\ session'[s].status = status /\ session'[s].version = version
    /\ session'[s].ticket # "none" => status = "pending"
    /\ status # "none" /\ session[s].status # "none"
    /\ status \in Streams!ActiveStatus => Streams!Active(s)
    /\ version \in {session[s].version, session[s].version + 1}
    /\ version = session[s].version => status = session[s].status
    /\ version # session[s].version => status # "pending"

Follow == UNCHANGED session \/ \E s \in TerminalSessions : \E status, version : Follows(s, status, version)

\* What the records that follow leave true.
LEMMA FollowKeeps ==
    ASSUME StreamsInv, Follow
    PROVE  /\ session' \in [TerminalSessions -> SessionRecords]
           /\ UNCHANGED creating => \A s \in TerminalSessions : RecordOK(s)'
           /\ \A h \in Handlers : UNCHANGED handler[h] => HandlerOK(h)'
           /\ UNCHANGED terminator => TerminatorOK'
           /\ UNCHANGED <<retirement, owner>> => RetirementOK'
           /\ UNCHANGED owner => Streams!RetiredHasNoSession'
  <1> USE DEF Streams!Active, Streams!ActiveStatus
  <1>1. CASE UNCHANGED session
    BY <1>1 DEF StreamsInv, RecordOK, HandlerOK, TerminatorOK, RetirementOK, Streams!RetiredHasNoSession
  <1>2. ASSUME NEW s \in TerminalSessions, NEW status, NEW version, Follows(s, status, version)
        PROVE  /\ session' \in [TerminalSessions -> SessionRecords]
               /\ UNCHANGED creating => \A o \in TerminalSessions : RecordOK(o)'
               /\ \A h \in Handlers : UNCHANGED handler[h] => HandlerOK(h)'
               /\ UNCHANGED terminator => TerminatorOK'
               /\ UNCHANGED <<retirement, owner>> => RetirementOK'
               /\ UNCHANGED owner => Streams!RetiredHasNoSession'
    <2> USE <1>2 DEF Follows, SessionRecords, StreamsInv
    <2>1. UNCHANGED creating => \A o \in TerminalSessions : RecordOK(o)'
      BY DEF RecordOK
    <2>2. \A h \in Handlers : UNCHANGED handler[h] => HandlerOK(h)'
      BY DEF HandlerOK
    <2>3. UNCHANGED terminator => TerminatorOK'
      BY DEF TerminatorOK
    <2>4. UNCHANGED <<retirement, owner>> => RetirementOK'
      BY DEF RetirementOK
    <2>5. UNCHANGED owner => Streams!RetiredHasNoSession'
      BY DEF Streams!RetiredHasNoSession
    <2> QED BY <2>1, <2>2, <2>3, <2>4, <2>5
  <1> QED BY <1>1, <1>2 DEF Follow

\* SaveSession under the version that was read, or nothing.
LEMMA SaveFollows ==
    ASSUME StreamsInv, NEW s \in TerminalSessions, NEW status \in {"open", "closing", "closed", "failed"},
           session[s].status # "none", status \in Streams!ActiveStatus => Streams!Active(s),
           session' \in {session, Streams!Saved(s, status)}
    PROVE  Follow
  <1>1. CASE session' = session
    BY <1>1 DEF Follow
  <1>2. CASE session' = Streams!Saved(s, status)
    <2>1. Follows(s, status, session[s].version + 1)
      BY <1>2 DEF Follows, Streams!Saved, StreamsInv, SessionRecords
    <2> QED BY <2>1 DEF Follow
  <1> QED BY <1>1, <1>2

\* A handler moves and saves its session, or does not; no second handler has a
\* stream on the same session after it.
LEMMA HandlerKeeps ==
    ASSUME StreamsInv, Follow, NEW h \in Handlers, NEW record \in HandlerRecords,
           Streams!Handles(h, record), UNCHANGED <<creating, terminator, retirement, owner>>,
           record.pc # "none" => record.session \in TerminalSessions /\ session'[record.session].status # "none",
           record.pc \in {"consumed", "streaming"} =>
               /\ session'[record.session].status # "pending"
               /\ \A g \in Handlers \ {h} : handler[g].session = record.session =>
                     handler[g].pc \notin {"consumed", "streaming"}
    PROVE  StreamsInv'
  <1>1. handler' = [handler EXCEPT ![h] = record]
    BY DEF Streams!Handles
  <1>2. \A g \in Handlers : HandlerOK(g)'
    BY <1>1, FollowKeeps DEF StreamsInv, HandlerOK
  <1>3. Streams!OneStreamPerTicket'
    BY <1>1 DEF StreamsInv, Streams!OneStreamPerTicket
  <1> QED BY <1>1, <1>2, <1>3, FollowKeeps DEF StreamsInv

\* Each step of a WSS handler.
LEMMA ServeKeeps ==
    ASSUME StreamsInv, NEW h \in Handlers, NEW s \in TerminalSessions,
           \/ Streams!ConnectWithTicket(h, s) \/ Streams!Serve(h) \/ Streams!GracePeriodElapses(h)
           \/ Streams!BridgeEnds(h) \/ Streams!ServerStops(h)
    PROVE  StreamsInv'
  <1> DEFINE t == handler[h].session
  <1> USE DEF Streams!environment
  <1>0. handler[h] \in HandlerRecords /\ HandlerOK(h)
    BY DEF StreamsInv
  <1>a. UNCHANGED session => Follow
    BY DEF Follow
  <1>1. CASE Streams!ConnectWithTicket(h, s)
    <2>1. [Streams!NoHandler EXCEPT !.pc = "authorized", !.session = s] \in HandlerRecords
      BY DEF HandlerRecords, Streams!NoHandler
    <2> QED BY <1>1, <1>a, <2>1, HandlerKeeps DEF Streams!ConnectWithTicket, Streams!NoHandler
  <1>2. CASE Streams!ConsumeTicket(h)
    <2>1. /\ handler[h].pc = "authorized" /\ t \in TerminalSessions /\ session[t].status # "none"
          /\ UNCHANGED <<creating, terminator, retirement, owner>>
      BY <1>0, <1>2 DEF Streams!ConsumeTicket, HandlerOK
    <2>2. CASE Streams!Consumable(t)
      <3> DEFINE record == [handler[h] EXCEPT !.pc = "consumed", !.version = session[t].version + 1]
      <3>1. session[t].status = "pending"
        BY <2>2 DEF Streams!Consumable
      <3>2. session' = Streams!Saved(t, "open") /\ Streams!Handles(h, record)
        BY <1>2, <2>2 DEF Streams!ConsumeTicket
      <3>v. session[t].version + 1 \in Nat
        BY <2>1 DEF StreamsInv, SessionRecords
      <3>3. record \in HandlerRecords /\ record.session = t /\ record.pc = "consumed"
        BY <1>0, <3>v DEF HandlerRecords
      <3>4. Follow
        BY <2>1, <3>1, <3>2, SaveFollows DEF Streams!Active, Streams!ActiveStatus
      <3>5. session'[t].status = "open"
        BY <2>1, <3>2 DEF Streams!Saved, StreamsInv, SessionRecords
      <3>6. \A g \in Handlers \ {h} : handler[g].session = t => handler[g].pc \notin {"consumed", "streaming"}
        BY <3>1 DEF StreamsInv, HandlerOK
      <3> HIDE DEF record
      <3> QED BY <2>1, <3>2, <3>3, <3>4, <3>5, <3>6, HandlerKeeps
    <2>3. CASE ~Streams!Consumable(t)
      <3>1. [handler[h] EXCEPT !.pc = "done"] \in HandlerRecords
        BY <1>0 DEF HandlerRecords
      <3> QED BY <1>2, <2>1, <2>3, <3>1, <1>a, <1>0, HandlerKeeps
              DEF Streams!ConsumeTicket, Streams!HandlerTo, HandlerRecords
    <2> QED BY <2>2, <2>3
  <1>3. CASE Streams!OpenStream(h)
    <2> DEFINE record == [handler[h] EXCEPT !.pc = "streaming"]
    <2>1. record \in HandlerRecords /\ record.session = t /\ record.pc = "streaming"
      BY <1>0 DEF HandlerRecords
    <2>2. /\ handler[h].pc = "consumed" /\ Streams!Handles(h, record) /\ UNCHANGED session
          /\ UNCHANGED <<creating, terminator, retirement, owner>>
      BY <1>3 DEF Streams!OpenStream, Streams!HandlerTo
    <2>3. \A g \in Handlers \ {h} : handler[g].session = t => handler[g].pc \notin {"consumed", "streaming"}
      BY <2>2 DEF StreamsInv, Streams!OneStreamPerTicket
    <2> HIDE DEF record
    <2> QED BY <1>0, <1>a, <2>1, <2>2, <2>3, HandlerKeeps DEF HandlerOK
  <1>4. CASE Streams!FailConnectedSession(h) \/ Streams!CloseSave(h)
    <2> DEFINE record == [handler[h] EXCEPT !.pc = "done"]
    <2>1. record \in HandlerRecords /\ record.session = t /\ record.pc = "done"
      BY <1>0 DEF HandlerRecords
    <2>2. /\ handler[h].pc # "none" /\ Streams!Handles(h, record)
          /\ UNCHANGED <<creating, terminator, retirement, owner>>
          /\ \E status \in {"closed", "failed"} : session' \in {session, Streams!Saved(t, status)}
      BY <1>4 DEF Streams!FailConnectedSession, Streams!CloseSave, Streams!HandlerTo, Streams!Close
    <2>3. t \in TerminalSessions /\ session[t].status # "none"
      BY <1>0, <2>2 DEF HandlerOK
    <2>4. Follow
      BY <2>2, <2>3, SaveFollows DEF Streams!ActiveStatus
    <2>5. session'[t].status # "none"
      BY <2>2, <2>3 DEF Streams!Saved, StreamsInv, SessionRecords
    <2> HIDE DEF record
    <2> QED BY <2>1, <2>2, <2>3, <2>4, <2>5, HandlerKeeps
  <1>5. CASE Streams!Review(h) \/ Streams!GracePeriodElapses(h) \/ Streams!BridgeEnds(h)
    <2>1. /\ handler[h].pc = "streaming" /\ UNCHANGED <<session, creating, terminator, retirement, owner>>
          /\ \/ \E outcome \in {"closed", "failed"} : Streams!Ends(h, outcome)
             \/ \E armed \in BOOLEAN : Streams!Handles(h, [handler[h] EXCEPT !.armed = armed])
      BY <1>5 DEF Streams!Review, Streams!GracePeriodElapses, Streams!BridgeEnds, Streams!Streams
    <2>2. \A g \in Handlers \ {h} : handler[g].session = t => handler[g].pc \notin {"consumed", "streaming"}
      BY <2>1 DEF StreamsInv, Streams!OneStreamPerTicket
    <2>3. ASSUME NEW outcome \in {"closed", "failed"}, Streams!Ends(h, outcome) PROVE StreamsInv'
      <3> DEFINE record == [handler[h] EXCEPT !.pc = "ended", !.armed = FALSE, !.outcome = outcome]
      <3>1. record \in HandlerRecords /\ record.session = t /\ record.pc = "ended"
        BY <1>0 DEF HandlerRecords
      <3>2. Streams!Handles(h, record)
        BY <2>3 DEF Streams!Ends
      <3> HIDE DEF record
      <3> QED BY <1>0, <1>a, <2>1, <3>1, <3>2, HandlerKeeps DEF HandlerOK
    <2>4. ASSUME NEW armed \in BOOLEAN, Streams!Handles(h, [handler[h] EXCEPT !.armed = armed])
          PROVE  StreamsInv'
      <3> DEFINE record == [handler[h] EXCEPT !.armed = armed]
      <3>1. record \in HandlerRecords /\ record.session = t /\ record.pc = "streaming"
        BY <1>0, <2>1 DEF HandlerRecords
      <3>2. Streams!Handles(h, record)
        BY <2>4
      <3> HIDE DEF record
      <3> QED BY <1>0, <1>a, <2>1, <2>2, <3>1, <3>2, HandlerKeeps DEF HandlerOK
    <2> QED BY <2>1, <2>3, <2>4
  <1>6. CASE Streams!CloseRead(h)
    <2> DEFINE record == [handler[h] EXCEPT !.pc = IF Streams!Active(t) THEN "closing" ELSE "done",
                                            !.version = session[t].version]
    <2>1. /\ handler[h].pc = "ended" /\ Streams!Handles(h, record)
          /\ UNCHANGED <<session, creating, terminator, retirement, owner>>
      BY <1>6 DEF Streams!CloseRead
    <2>2. t \in TerminalSessions /\ session[t].status # "none"
      BY <1>0, <2>1 DEF HandlerOK
    <2>3. record \in HandlerRecords /\ record.session = t /\ record.pc \in {"closing", "done"}
      BY <1>0, <2>2 DEF HandlerRecords, StreamsInv, SessionRecords
    <2> HIDE DEF record
    <2> QED BY <1>a, <2>1, <2>2, <2>3, HandlerKeeps
  <1>7. CASE Streams!ServerStops(h)
    <2> DEFINE record == [handler[h] EXCEPT !.pc = "done"]
    <2>1. record \in HandlerRecords /\ record.session = t /\ record.pc = "done"
      BY <1>0 DEF HandlerRecords
    <2>2. /\ handler[h].pc # "none" /\ Streams!Handles(h, record)
          /\ UNCHANGED <<session, creating, terminator, retirement, owner>>
      BY <1>7 DEF Streams!ServerStops, Streams!HandlerTo
    <2> HIDE DEF record
    <2> QED BY <1>0, <1>a, <2>1, <2>2, HandlerKeeps DEF HandlerOK
  <1> QED BY <1>1, <1>2, <1>3, <1>4, <1>5, <1>6, <1>7 DEF Streams!Serve

\* A session comes into being: its parents are active, or it is one of a host.
LEMMA CreationKeeps ==
    ASSUME StreamsInv, NEW s \in TerminalSessions,
           Streams!AuthorizeCreation(s) \/ Streams!CreateSession(s)
    PROVE  StreamsInv'
  <1> USE DEF Streams!environment
  <1>1. CASE Streams!AuthorizeCreation(s)
    <2>1. PICK kind \in SessionKinds : creating' = [creating EXCEPT ![s] = kind]
      BY <1>1 DEF Streams!AuthorizeCreation
    <2>2. creating[s] = "none" /\ UNCHANGED <<session, handler, terminator, retirement, owner>>
      BY <1>1 DEF Streams!AuthorizeCreation
    <2>3. \A o \in TerminalSessions : RecordOK(o)'
      BY <2>1, <2>2 DEF StreamsInv, RecordOK, Streams!Active
    <2> QED BY <2>1, <2>2, <2>3, FollowKeeps, KindsAssumption
            DEF Follow, StreamsInv, Streams!OneStreamPerTicket
  <1>2. CASE Streams!CreateSession(s)
    <2>1. /\ creating[s] \in SessionKinds /\ creating[s] # "done" /\ creating' = [creating EXCEPT ![s] = "done"]
          /\ session[s].status = "none" /\ UNCHANGED <<handler, terminator, retirement, owner>>
      BY <1>2, KindsAssumption DEF Streams!CreateSession, StreamsInv, RecordOK
    <2>2. CASE UNCHANGED session
      <3>1. \A o \in TerminalSessions : RecordOK(o)'
        BY <2>1, <2>2 DEF StreamsInv, RecordOK, Streams!Active
      <3> QED BY <2>1, <2>2, <3>1, FollowKeeps DEF Follow, StreamsInv, Streams!OneStreamPerTicket
    <2>3. ASSUME NEW slot \in Slots, Streams!FenceParents(creating[s]),
                 session' = [session EXCEPT ![s] =
                     [status |-> "pending", kind |-> creating[s], version |-> 1,
                      slot |-> slot, ticket |-> "valid"]]
          PROVE  StreamsInv'
      <3> DEFINE new == [status |-> "pending", kind |-> creating[s], version |-> 1,
                         slot |-> slot, ticket |-> "valid"]
      <3>1. new \in SessionRecords /\ new.kind = creating[s] /\ new.status = "pending" /\ new.slot \in Slots
        BY <2>1, KindsAssumption DEF SessionRecords
      <3>2. session' = [session EXCEPT ![s] = new]
        BY <2>3
      <3>3. new.kind = "container" => owner = "active"
        BY <2>3, <3>1 DEF Streams!FenceParents
      <3> HIDE DEF new
      <3> USE <2>1, <3>1, <3>2 DEF StreamsInv, Streams!Active, Streams!ActiveStatus
      <3>4. \A o \in TerminalSessions : RecordOK(o)'
        BY DEF RecordOK
      <3>5. \A h \in Handlers : HandlerOK(h)'
        BY DEF HandlerOK
      <3>6. TerminatorOK'
        BY DEF TerminatorOK
      <3>7. RetirementOK'
        BY <3>3 DEF RetirementOK
      <3>8. Streams!RetiredHasNoSession' /\ Streams!OneStreamPerTicket'
        BY <3>3 DEF Streams!RetiredHasNoSession, Streams!OneStreamPerTicket
      <3> QED BY <3>4, <3>5, <3>6, <3>7, <3>8
    <2> QED BY <1>2, <2>2, <2>3 DEF Streams!CreateSession, Streams!FreeSlots
  <1> QED BY <1>1, <1>2

\* A ticket has run out, a user terminates a session.
LEMMA UserKeeps ==
    ASSUME StreamsInv, NEW s \in TerminalSessions,
           Streams!TicketExpires(s) \/ Streams!TerminateRead(s) \/ Streams!TerminateSession
    PROVE  StreamsInv'
  <1> USE DEF Streams!environment
  <1>1. CASE Streams!TicketExpires(s)
    <2>1. /\ session[s].ticket = "valid" /\ session' = [session EXCEPT ![s].ticket = "expired"]
          /\ UNCHANGED <<creating, handler, terminator, retirement, owner>>
      BY <1>1 DEF Streams!TicketExpires
    <2>2. Follows(s, "pending", session[s].version)
      BY <2>1 DEF StreamsInv, RecordOK, Follows, SessionRecords, Streams!Active, Streams!ActiveStatus
    <2>3. Follow
      BY <2>2 DEF Follow
    <2> QED BY <2>1, <2>3, FollowKeeps DEF StreamsInv, Streams!OneStreamPerTicket
  <1>2. CASE Streams!TerminateRead(s)
    <2>1. /\ Streams!Active(s)
          /\ terminator' = [pc |-> "read", session |-> s, version |-> session[s].version]
          /\ UNCHANGED <<session, creating, handler, retirement, owner>>
      BY <1>2 DEF Streams!TerminateRead
    <2>2. TerminatorOK'
      BY <2>1 DEF StreamsInv, TerminatorOK, SessionRecords, Streams!Active, Streams!ActiveStatus
    <2> QED BY <2>1, <2>2, FollowKeeps DEF Follow, StreamsInv, Streams!OneStreamPerTicket
  <1>3. CASE Streams!TerminateSession
    <2> DEFINE t == terminator.session
    <2>1. /\ terminator.pc = "read" /\ terminator' = Streams!NoRequest
          /\ UNCHANGED <<creating, handler, retirement, owner>>
      BY <1>3 DEF Streams!TerminateSession
    <2>2. t \in TerminalSessions
      BY <2>1 DEF StreamsInv, TerminatorOK
    <2>3. TerminatorOK'
      BY <2>1 DEF TerminatorOK, Streams!NoRequest
    <2>4. Follow
      <3>1. CASE ~Streams!CanSave(t, terminator.version)
        BY <1>3, <3>1 DEF Streams!TerminateSession, Follow
      <3>2. CASE Streams!CanSave(t, terminator.version)
        <4>1. Streams!Active(t) /\ session[t].status # "none"
          BY <2>1, <3>2 DEF StreamsInv, TerminatorOK, Streams!CanSave, Streams!Active, Streams!ActiveStatus
        <4>2. CASE session[t].status = "pending"
          <5>1. session' = Streams!Saved(t, "closed")
            BY <1>3, <3>2, <4>2 DEF Streams!TerminateSession, Streams!RequestTermination
          <5> QED BY <2>2, <4>1, <5>1, SaveFollows DEF Streams!ActiveStatus
        <4>3. CASE session[t].status # "pending"
          <5>1. session' = [session EXCEPT ![t].status = "closing", ![t].version = @ + 1]
            BY <1>3, <3>2, <4>3 DEF Streams!TerminateSession
          <5>2. /\ session[t] \in SessionRecords /\ session[t].ticket = "none"
                /\ session[t].version + 1 \in Nat
            BY <2>2, <4>3 DEF StreamsInv, RecordOK, SessionRecords
          <5> DEFINE new == [session[t] EXCEPT !.status = "closing", !.version = @ + 1]
          <5>3. /\ new \in SessionRecords /\ new.status = "closing" /\ new.version = session[t].version + 1
                /\ new.kind = session[t].kind /\ new.slot = session[t].slot /\ new.ticket = "none"
            BY <5>2 DEF SessionRecords
          <5>4. session' = [session EXCEPT ![t] = new]
            BY <5>1, <2>2 DEF StreamsInv
          <5> HIDE DEF new
          <5>5. /\ session' \in [TerminalSessions -> SessionRecords] /\ session'[t] = new
                /\ \A o \in TerminalSessions \ {t} : session'[o] = session[o]
            BY <2>2, <5>3, <5>4 DEF StreamsInv
          <5>6. session[t].version \in Nat
            BY <5>2 DEF SessionRecords
          <5>7. Follows(t, "closing", session[t].version + 1)
            BY <4>1, <5>3, <5>5, <5>6 DEF Follows
          <5> QED BY <2>2, <5>7 DEF Follow
        <4> QED BY <4>2, <4>3
      <3> QED BY <3>1, <3>2
    <2> QED BY <2>1, <2>3, <2>4, FollowKeeps DEF StreamsInv, Streams!OneStreamPerTicket
  <1> QED BY <1>1, <1>2, <1>3

\* The retirement: what a pass lists it closes, or it is not the last pass.
LEMMA RetirementKeeps ==
    ASSUME StreamsInv, Streams!BeginRetirement \/ Streams!Converge
    PROVE  StreamsInv'
  <1> USE DEF Streams!environment
  <1>1. CASE Streams!BeginRetirement
    <2>1. owner = "active" /\ owner' = "retiring" /\ UNCHANGED <<session, creating, handler, terminator, retirement>>
      BY <1>1 DEF Streams!BeginRetirement
    <2>2. RetirementOK'
      BY <2>1 DEF StreamsInv, RetirementOK
    <2> QED BY <2>1, <2>2, FollowKeeps DEF Follow, StreamsInv, Streams!OneStreamPerTicket, Streams!RetiredHasNoSession
  <1>2. CASE Streams!ListActiveSessions
    <2> DEFINE todo == {s \in TerminalSessions : Streams!Active(s) /\ session[s].kind = "container"}
    <2>1. /\ owner = "retiring" /\ UNCHANGED <<session, creating, handler, terminator, owner>>
          /\ retirement' = [pc |-> "pass", todo |-> todo, pending |-> FALSE,
                            seen |-> {<<s, session[s].version>> : s \in todo}]
      BY <1>2 DEF Streams!ListActiveSessions
    <2>2. RetirementOK'
      BY <2>1 DEF RetirementOK, Streams!Active, Streams!ActiveStatus
    <2> QED BY <2>1, <2>2, FollowKeeps DEF Follow, StreamsInv, Streams!OneStreamPerTicket
  <1>3. ASSUME NEW s \in TerminalSessions, Streams!CloseRetirementSession(s) PROVE StreamsInv'
    <2>1. PICK current \in BOOLEAN :
             /\ s \in retirement.todo
             /\ session' = IF current THEN Streams!Saved(s, "closed") ELSE session
             /\ retirement' = [retirement EXCEPT !.todo = @ \ {s}, !.pending = @ \/ ~current]
             /\ UNCHANGED <<creating, handler, terminator, owner>>
      <3> DEFINE v == CHOOSE v \in {p[2] : p \in {q \in retirement.seen : q[1] = s}} : TRUE
      <3>1. Streams!CanSave(s, v) \in BOOLEAN
        BY DEF Streams!CanSave
      <3> QED BY <1>3, <3>1 DEF Streams!CloseRetirementSession, Streams!Close
    <2>2. session[s].status # "none"
      BY <2>1 DEF StreamsInv, RetirementOK
    <2>3. Follow
      BY <2>1, <2>2, SaveFollows DEF Streams!ActiveStatus
    <2>4. current => session'[s].status = "closed"
      BY <2>1 DEF StreamsInv, Streams!Saved, SessionRecords
    <2>5. \A o \in TerminalSessions \ {s} : session'[o] = session[o]
      BY <2>1 DEF StreamsInv, Streams!Saved
    <2>6. /\ retirement'.pc = retirement.pc /\ retirement'.todo = retirement.todo \ {s}
          /\ retirement'.pending <=> retirement.pending \/ ~current
          /\ DOMAIN retirement' = {"pc", "todo", "seen", "pending"}
      BY <2>1 DEF StreamsInv, RetirementOK
    <2>7. RetirementOK'
      BY <2>1, <2>4, <2>5, <2>6 DEF StreamsInv, RetirementOK, Streams!Active, Streams!ActiveStatus
    <2> QED BY <2>1, <2>3, <2>7, FollowKeeps DEF StreamsInv, Streams!OneStreamPerTicket
  <1>4. CASE Streams!FinishPass
    <2>1. /\ retirement.pc = "pass" /\ retirement.todo = {} /\ retirement' = Streams!NoPass
          /\ owner' = IF retirement.pending THEN owner ELSE "retired"
          /\ UNCHANGED <<session, creating, handler, terminator>>
      BY <1>4 DEF Streams!FinishPass
    <2>2. RetirementOK'
      BY <2>1 DEF RetirementOK, Streams!NoPass
    <2>3. Streams!RetiredHasNoSession'
      BY <2>1 DEF StreamsInv, RetirementOK, Streams!RetiredHasNoSession, Streams!Active
    <2> QED BY <2>1, <2>2, <2>3, FollowKeeps DEF Follow, StreamsInv, Streams!OneStreamPerTicket
  <1> QED BY <1>1, <1>2, <1>3, <1>4 DEF Streams!Converge

\* The inductive step of the terminal sessions.
LEMMA StreamsStep ==
    ASSUME StreamsInv, Streams!SessionsNext \/ UNCHANGED streamVars
    PROVE  StreamsInv'
  <1>1. CASE Streams!PermissionChanges \/ Streams!TargetChanges \/ UNCHANGED streamVars
    <2>1. UNCHANGED <<session, creating, handler, terminator, retirement, owner>>
      BY <1>1 DEF Streams!PermissionChanges, Streams!TargetChanges, streamVars
    <2> QED BY <2>1, FollowKeeps DEF Follow, StreamsInv, Streams!OneStreamPerTicket
  <1>2. CASE Streams!TerminateSession
    <2>1. CASE TerminalSessions # {}
      BY <1>2, <2>1, UserKeeps
    <2>2. CASE TerminalSessions = {}
      BY <1>2, <2>2 DEF Streams!TerminateSession, StreamsInv, TerminatorOK
    <2> QED BY <2>1, <2>2
  <1>3. ASSUME NEW h \in Handlers,
               Streams!Serve(h) \/ Streams!GracePeriodElapses(h) \/ Streams!BridgeEnds(h) \/ Streams!ServerStops(h)
        PROVE  StreamsInv'
    <2>1. TerminalSessions # {}
      BY <1>3 DEF StreamsInv, HandlerOK, Streams!Serve, Streams!ConsumeTicket, Streams!OpenStream,
                  Streams!FailConnectedSession, Streams!Review, Streams!CloseRead, Streams!CloseSave,
                  Streams!GracePeriodElapses, Streams!BridgeEnds, Streams!ServerStops, Streams!Streams
    <2> QED BY <1>3, <2>1, ServeKeeps
  <1> QED BY <1>1, <1>2, <1>3, ServeKeeps, CreationKeeps, UserKeeps, RetirementKeeps DEF Streams!SessionsNext

\* What the run checks of their types follows.
LEMMA StreamsAreTyped == ASSUME StreamsInv PROVE Streams!SessionsTypeOK
  BY DEF StreamsInv, SessionRecords, RecordOK, Streams!SessionsTypeOK, Streams!ActiveStatus

-----------------------------------------------------------------------------
(* Requests for Builds.  What was read of a counter is what is stored as     *)
(* long as the revision is the same; a delivery and its Build are one fact.  *)

Configurations == [version : Nat, allows : BOOLEAN]
Rates == [window : Nat, attempts : Nat, revision : Nat]
Sources == {"manual", "trigger_api", "webhook"}
Entrances == {"trigger_api", "webhook"}

AskerRecords(chosen) ==
    [pc : {"idle", "replay", "rate", "reserve", "find", "config", "resolve", "ignore", "insert"},
     kind : Sources, key : chosen.keys \cup chosen.deliveries \cup {"none"},
     commit : Nat, since : Nat, rate : Rates, config : Configurations]

\* A counter holds what its window has admitted, and later windows nothing.
RateOK(chosen, e) ==
    /\ rate[e].window <= window /\ rate[e].attempts <= chosen.limit
    /\ \A w \in 1 .. chosen.windows :
          /\ admitted[e][w] \in Nat /\ admitted[e][w] <= chosen.limit
          /\ w = rate[e].window => admitted[e][w] = rate[e].attempts
          /\ w > rate[e].window => admitted[e][w] = 0

\* A copy of a counter is the stored one, or begins a new window.
CopyIsRead(chosen, r) ==
    LET copy == req[r].rate
        stored == rate[req[r].kind] IN
    /\ copy.attempts < chosen.limit /\ copy.window \in 1 .. window
    /\ copy.revision <= stored.revision
    /\ copy.revision = stored.revision =>
          \/ copy.window = stored.window /\ copy.attempts = stored.attempts
          \/ copy.window > stored.window /\ copy.attempts = 0

AskerOK(chosen, r) ==
    /\ req[r].since <= head
    /\ req[r].pc \in {"rate", "reserve"} => req[r].kind \in Entrances
    /\ req[r].pc = "reserve" => CopyIsRead(chosen, r)
    /\ req[r].pc \in {"resolve", "insert"} => req[r].config.allows
    /\ req[r].pc = "insert" => req[r].commit >= req[r].since

DeliveryOK(d) == receipts[d] = "accepted" <=> builds[d].source # "none"

Stored(chosen) == chosen.keys \cup chosen.deliveries

\* A Build that is stored says what asked for it.
BuildRecords == [source : Sources \cup {"none"}, commit : Nat, config : Configurations]

IntakeInv(chosen) ==
    /\ chosen.limit \in Nat /\ chosen.windows \in Nat
    /\ head \in 1 .. MaxCommit /\ window \in 1 .. chosen.windows
    /\ config \in Configurations
    /\ entry \in [Entrances -> {"absent", "active", "revoked"}]
    /\ rate \in [Entrances -> Rates]
    /\ admitted \in [Entrances -> [1 .. chosen.windows -> Nat]]
    /\ builds \in [Stored(chosen) -> BuildRecords]
    /\ \A k \in Stored(chosen) : builds[k].source = "none" => builds[k] = Intake(chosen)!NoBuild
    /\ receipts \in [chosen.deliveries -> {"none", "accepted", "ignored"}]
    /\ req \in [Askers -> AskerRecords(chosen)]
    /\ \A e \in Entrances : RateOK(chosen, e)
    /\ \A r \in Askers : AskerOK(chosen, r)
    /\ \A d \in chosen.deliveries : DeliveryOK(d)

\* Nothing is stored, nobody asks.
LEMMA InitIntake ==
    ASSUME NEW chosen \in Intakes, Intake(chosen)!IntakeInit
    PROVE  IntakeInv(chosen)
  <1> USE BoundsAssumption
          DEF Intake!IntakeInit, Intake!NoConfig, Intake!NoBuild, Intake!NoRate, Intake!Idle, Intake!Entries
  <1>1. /\ head \in 1 .. MaxCommit /\ window \in 1 .. chosen.windows /\ config \in Configurations
        /\ chosen.limit \in Nat /\ chosen.windows \in Nat
    BY DEF Configurations
  <1>2. /\ entry \in [Entrances -> {"absent", "active", "revoked"}]
        /\ rate \in [Entrances -> Rates]
        /\ admitted \in [Entrances -> [1 .. chosen.windows -> Nat]]
    BY DEF Entrances, Rates
  <1>3. /\ builds \in [Stored(chosen) -> BuildRecords]
        /\ receipts \in [chosen.deliveries -> {"none", "accepted", "ignored"}]
        /\ \A k \in Stored(chosen) : builds[k].source = "none" => builds[k] = Intake(chosen)!NoBuild
        /\ \A d \in chosen.deliveries : DeliveryOK(d)
    BY DEF Stored, BuildRecords, Configurations, DeliveryOK
  <1>4. req \in [Askers -> AskerRecords(chosen)]
    BY DEF AskerRecords, Sources, Rates, Configurations
  <1>5. \A e \in Entrances : RateOK(chosen, e)
    BY DEF Entrances, RateOK
  <1>6. \A r \in Askers : AskerOK(chosen, r)
    BY DEF AskerOK
  <1> QED BY <1>1, <1>2, <1>3, <1>4, <1>5, <1>6 DEF IntakeInv

\* One request goes on; the counters and what is stored stay.
LEMMA AskerKeeps ==
    ASSUME NEW chosen, IntakeInv(chosen), NEW r \in Askers, NEW next \in AskerRecords(chosen),
           req' = [req EXCEPT ![r] = next],
           UNCHANGED <<head, config, entry, rate, window, admitted, builds, receipts>>,
           next.since <= head,
           next.pc \in {"rate", "reserve"} => next.kind \in Entrances,
           next.pc = "reserve" =>
               /\ next.rate.attempts < chosen.limit /\ next.rate.window \in 1 .. window
               /\ next.rate.revision <= rate[next.kind].revision
               /\ next.rate.revision = rate[next.kind].revision =>
                     \/ /\ next.rate.window = rate[next.kind].window
                        /\ next.rate.attempts = rate[next.kind].attempts
                     \/ next.rate.window > rate[next.kind].window /\ next.rate.attempts = 0,
           next.pc \in {"resolve", "insert"} => next.config.allows,
           next.pc = "insert" => next.commit >= next.since
    PROVE  IntakeInv(chosen)'
  <1>1. req' \in [Askers -> AskerRecords(chosen)] /\ req'[r] = next
        /\ \A o \in Askers \ {r} : req'[o] = req[o]
    BY DEF IntakeInv
  <1>2. AskerOK(chosen, r)'
    BY <1>1 DEF AskerOK, CopyIsRead
  <1>3. \A o \in Askers \ {r} : AskerOK(chosen, o)'
    BY <1>1 DEF IntakeInv, AskerOK, CopyIsRead
  <1>4. \A e \in Entrances : RateOK(chosen, e)'
    BY DEF IntakeInv, RateOK
  <1> QED BY <1>1, <1>2, <1>3, <1>4 DEF IntakeInv, DeliveryOK

\* What an answer leaves of a request.
LEMMA AnswerIsIdle ==
    ASSUME NEW chosen, IntakeInv(chosen)
    PROVE  /\ Intake(chosen)!Idle \in AskerRecords(chosen)
           /\ Intake(chosen)!Idle.pc = "idle" /\ Intake(chosen)!Idle.since = 0
  BY DEF Intake!Idle, Intake!NoRate, Intake!NoConfig, AskerRecords, Sources, Rates, Configurations

\* A step of a request that reads: what it reads it notes, and goes on.
LEMMA GotoKeeps ==
    ASSUME NEW chosen, IntakeInv(chosen), NEW r \in Askers,
           NEW pc \in {"config", "find", "rate", "ignore"}, Intake(chosen)!Goto(r, pc),
           pc = "rate" => req[r].kind \in Entrances,
           UNCHANGED <<head, config, entry, rate, window, admitted, builds, receipts>>
    PROVE  IntakeInv(chosen)'
  <1> DEFINE next == [req[r] EXCEPT !.pc = pc]
  <1>1. req[r] \in AskerRecords(chosen) /\ AskerOK(chosen, r)
    BY DEF IntakeInv
  <1>2. /\ next \in AskerRecords(chosen) /\ next.pc = pc /\ next.kind = req[r].kind
        /\ next.since = req[r].since
    BY <1>1 DEF AskerRecords
  <1>3. req' = [req EXCEPT ![r] = next]
    BY DEF Intake!Goto
  <1> HIDE DEF next
  <1> QED BY <1>1, <1>2, <1>3, AskerKeeps DEF AskerOK

\* A request is answered, and nothing was written.
LEMMA AnswerKeeps ==
    ASSUME NEW chosen, IntakeInv(chosen), NEW r \in Askers, Intake(chosen)!Answer(r),
           UNCHANGED <<head, config, entry, rate, window, admitted, builds, receipts>>
    PROVE  IntakeInv(chosen)'
  <1> DEFINE next == Intake(chosen)!Idle
  <1>1. next \in AskerRecords(chosen) /\ next.pc = "idle" /\ next.since = 0
    BY AnswerIsIdle
  <1>2. req' = [req EXCEPT ![r] = next]
    BY DEF Intake!Answer
  <1> HIDE DEF next
  <1>3. 0 <= head
    BY DEF IntakeInv
  <1> QED BY <1>1, <1>2, <1>3, AskerKeeps

\* A request arrives.
LEMMA ArrivalKeeps ==
    ASSUME NEW chosen, IntakeInv(chosen), NEW r \in Askers, Intake(chosen)!Arrives(r)
    PROVE  IntakeInv(chosen)' /\ UNCHANGED <<builds, receipts>>
  <1>1. PICK pc \in {"replay", "rate"}, kind \in Sources, k \in Stored(chosen), commit \in 0 .. head :
           /\ req' = [req EXCEPT ![r] = [Intake(chosen)!Idle EXCEPT !.pc = pc, !.kind = kind, !.key = k,
                                                                    !.commit = commit, !.since = head]]
           /\ pc = "rate" => kind \in Entrances
           /\ UNCHANGED <<head, config, entry, rate, window, admitted, builds, receipts>>
    <2> DEFINE Asks(pc, kind, k, commit) ==
          /\ req' = [req EXCEPT ![r] = [Intake(chosen)!Idle EXCEPT !.pc = pc, !.kind = kind, !.key = k,
                                                                   !.commit = commit, !.since = head]]
          /\ UNCHANGED <<head, config, entry, rate, window, admitted, builds, receipts>>
    <2>1. ASSUME NEW k \in chosen.keys, NEW commit \in 0 .. head, Intake(chosen)!ManualArrives(r, k, commit)
          PROVE  Asks("replay", "manual", k, commit)
      <3>1. [Intake(chosen)!Idle EXCEPT !.pc = "replay", !.key = k, !.commit = commit, !.since = head]
          = [Intake(chosen)!Idle EXCEPT !.pc = "replay", !.kind = "manual", !.key = k,
                                        !.commit = commit, !.since = head]
        <4>1. Intake(chosen)!Idle \in AskerRecords(chosen) /\ Intake(chosen)!Idle.kind = "manual"
          BY AnswerIsIdle DEF Intake!Idle
        <4> QED BY <4>1 DEF AskerRecords
      <3> QED BY <2>1, <3>1 DEF Intake!ManualArrives
    <2>2. ASSUME NEW k \in chosen.keys, NEW commit \in 1 .. head, Intake(chosen)!ExternalArrives(r, k, commit)
          PROVE  Asks("rate", "trigger_api", k, commit)
      BY <2>2 DEF Intake!ExternalArrives
    <2>3. ASSUME NEW k \in chosen.deliveries, NEW commit \in 1 .. head, Intake(chosen)!WebhookArrives(r, k, commit)
          PROVE  Asks("replay", "webhook", k, commit)
      BY <2>3 DEF Intake!WebhookArrives
    <2>4. 1 .. head \subseteq 0 .. head
      OBVIOUS
    <2> HIDE DEF Asks
    <2>5. \E pc \in {"replay", "rate"}, kind \in Sources, k \in Stored(chosen), commit \in 0 .. head :
            Asks(pc, kind, k, commit) /\ (pc = "rate" => kind \in Entrances)
      <3>1. CASE \E k \in chosen.keys, commit \in 0 .. head : Intake(chosen)!ManualArrives(r, k, commit)
        BY <2>1, <3>1 DEF Stored, Sources
      <3>2. CASE \E k \in chosen.keys, commit \in 1 .. head : Intake(chosen)!ExternalArrives(r, k, commit)
        BY <2>2, <2>4, <3>2 DEF Stored, Sources, Entrances
      <3>3. CASE \E k \in chosen.deliveries, commit \in 1 .. head : Intake(chosen)!WebhookArrives(r, k, commit)
        BY <2>3, <2>4, <3>3 DEF Stored, Sources
      <3> QED BY <3>1, <3>2, <3>3 DEF Intake!Arrives
    <2> QED BY <2>5 DEF Asks
  <1> DEFINE next == [Intake(chosen)!Idle EXCEPT !.pc = pc, !.kind = kind, !.key = k,
                                                 !.commit = commit, !.since = head]
  <1>2. head \in Nat /\ commit \in Nat
    BY DEF IntakeInv
  <1>3. next \in AskerRecords(chosen) /\ next.pc = pc /\ next.kind = kind /\ next.since = head
    BY <1>2, AnswerIsIdle DEF AskerRecords, Stored
  <1>4. req' = [req EXCEPT ![r] = next]
    BY <1>1
  <1> HIDE DEF next
  <1>5. next.pc \in {"replay", "rate"} /\ (next.pc = "rate" => next.kind \in Entrances) /\ next.since <= head
    BY <1>1, <1>2, <1>3
  <1>6. UNCHANGED <<head, config, entry, rate, window, admitted, builds, receipts>>
    BY <1>1
  <1> QED BY <1>3, <1>4, <1>5, <1>6, AskerKeeps

\* A request reads what is configured, what is stored, and asks Git.
LEMMA ReadingKeeps ==
    ASSUME NEW chosen, IntakeInv(chosen), NEW r \in Askers,
           \/ Intake(chosen)!Replay(r) \/ Intake(chosen)!FindBuildReplay(r)
           \/ Intake(chosen)!ReadConfiguration(r) \/ Intake(chosen)!ResolveSourceRevision(r)
           \/ Intake(chosen)!RequestLost(r)
    PROVE  IntakeInv(chosen)' /\ UNCHANGED <<builds, receipts>>
  <1>0. req[r] \in AskerRecords(chosen) /\ AskerOK(chosen, r) /\ head \in Nat
    BY DEF IntakeInv
  <1>1. CASE Intake(chosen)!Replay(r)
    <2>1. req[r].kind = "webhook" => req[r].kind \in Entrances
      BY DEF Entrances
    <2> QED BY <1>1, <2>1, GotoKeeps, AnswerKeeps DEF Intake!Replay
  <1>2. CASE Intake(chosen)!FindBuildReplay(r)
    BY <1>2, GotoKeeps, AnswerKeeps DEF Intake!FindBuildReplay
  <1>3. CASE Intake(chosen)!ReadConfiguration(r)
    <2>1. CASE config.allows
      <3> DEFINE next == [req[r] EXCEPT !.pc = "resolve", !.config = config]
      <3>1. /\ next \in AskerRecords(chosen) /\ next.pc = "resolve" /\ next.since = req[r].since
            /\ next.config = config
        BY <1>0 DEF AskerRecords, IntakeInv
      <3>2. /\ req' = [req EXCEPT ![r] = next]
            /\ UNCHANGED <<head, config, entry, rate, window, admitted, builds, receipts>>
        BY <1>3, <2>1 DEF Intake!ReadConfiguration
      <3> HIDE DEF next
      <3> QED BY <1>0, <2>1, <3>1, <3>2, AskerKeeps DEF AskerOK
    <2>2. CASE ~config.allows
      BY <1>3, <2>2, GotoKeeps, AnswerKeeps DEF Intake!ReadConfiguration
    <2> QED BY <2>1, <2>2
  <1>4. CASE Intake(chosen)!ResolveSourceRevision(r)
    <2>1. CASE req' = [req EXCEPT ![r].pc = "insert", ![r].commit = head]
      <3> DEFINE next == [req[r] EXCEPT !.pc = "insert", !.commit = head]
      <3>1. /\ next \in AskerRecords(chosen) /\ next.pc = "insert" /\ next.since = req[r].since
            /\ next.config = req[r].config /\ next.commit = head
        BY <1>0 DEF AskerRecords
      <3>2. /\ req' = [req EXCEPT ![r] = next] /\ req[r].pc = "resolve"
            /\ UNCHANGED <<head, config, entry, rate, window, admitted, builds, receipts>>
        BY <1>4, <2>1 DEF Intake!ResolveSourceRevision, IntakeInv
      <3> HIDE DEF next
      <3> QED BY <1>0, <3>1, <3>2, AskerKeeps DEF AskerOK
    <2> QED BY <1>4, <2>1, GotoKeeps, AnswerKeeps DEF Intake!ResolveSourceRevision
  <1>5. CASE Intake(chosen)!RequestLost(r)
    BY <1>5, AnswerKeeps DEF Intake!RequestLost
  <1> QED BY <1>1, <1>2, <1>3, <1>4, <1>5

\* reserveBuildAdmission: the counter is read, and replaced under its revision.
LEMMA ReservationKeeps ==
    ASSUME NEW chosen, IntakeInv(chosen), NEW r \in Askers,
           Intake(chosen)!ReserveRead(r) \/ Intake(chosen)!ReserveWrite(r)
    PROVE  IntakeInv(chosen)' /\ UNCHANGED <<builds, receipts>>
  <1>e. PICK e \in Entrances : e = req[r].kind
    BY DEF IntakeInv, AskerOK, Intake!ReserveRead, Intake!ReserveWrite
  <1>0. /\ req[r] \in AskerRecords(chosen) /\ AskerOK(chosen, r) /\ e \in Entrances /\ e = req[r].kind
        /\ rate[e] \in Rates /\ RateOK(chosen, e) /\ window \in 1 .. chosen.windows /\ chosen.windows \in Nat
    BY <1>e DEF IntakeInv
  <1>1. CASE Intake(chosen)!ReserveRead(r)
    <2> DEFINE current == IF rate[e].window = window THEN rate[e]
                          ELSE [rate[e] EXCEPT !.window = window, !.attempts = 0]
    <2>1. CASE current.attempts >= chosen.limit
      BY <1>0, <1>1, <2>1, AnswerKeeps DEF Intake!ReserveRead
    <2>2. CASE ~(current.attempts >= chosen.limit)
      <3> DEFINE next == [req[r] EXCEPT !.pc = "reserve", !.rate = current]
      <3>1. /\ current \in Rates /\ current.window = window /\ current.revision = rate[e].revision
            /\ \/ current.window = rate[e].window /\ current.attempts = rate[e].attempts
               \/ current.window > rate[e].window /\ current.attempts = 0
        <4>1. /\ rate[e].window \in Nat /\ rate[e].attempts \in Nat /\ rate[e].revision \in Nat
              /\ rate[e].window <= window /\ window \in Nat
          BY <1>0 DEF Rates, RateOK
        <4>2. CASE rate[e].window = window
          BY <1>0, <4>2
        <4>3. CASE rate[e].window # window
          <5>1. current = [rate[e] EXCEPT !.window = window, !.attempts = 0]
            BY <4>3
          <5>2. /\ current \in Rates /\ current.window = window /\ current.attempts = 0
                /\ current.revision = rate[e].revision
            BY <1>0, <4>1, <5>1 DEF Rates
          <5> QED BY <4>1, <4>3, <5>2
        <4> QED BY <4>2, <4>3
      <3>2. /\ req' = [req EXCEPT ![r] = next]
            /\ UNCHANGED <<head, config, entry, rate, window, admitted, builds, receipts>>
        BY <1>0, <1>1, <2>2 DEF Intake!ReserveRead, IntakeInv
      <3>3. current.attempts < chosen.limit
        BY <2>2, <3>1 DEF Rates, IntakeInv
      <3> HIDE DEF current
      <3>4. /\ next \in AskerRecords(chosen) /\ next.pc = "reserve" /\ next.since = req[r].since
            /\ next.kind = e /\ next.rate = current
        BY <1>0, <3>1 DEF AskerRecords
      <3> HIDE DEF next
      <3>5. window \in 1 .. window /\ current.revision <= rate[e].revision
        BY <1>0, <3>1 DEF Rates
      <3> QED BY <1>0, <3>1, <3>2, <3>3, <3>4, <3>5, AskerKeeps DEF AskerOK
    <2> QED BY <2>1, <2>2
  <1>2. CASE Intake(chosen)!ReserveWrite(r)
    <2> DEFINE copy == req[r].rate
               new == [copy EXCEPT !.attempts = @ + 1, !.revision = @ + 1]
               pc == IF e = "webhook" THEN "config" ELSE "find"
               next == [req[r] EXCEPT !.pc = pc]
    <2>0. req[r].pc = "reserve"
      BY <1>2 DEF Intake!ReserveWrite
    <2>1. CASE ~Intake(chosen)!Reserved(e, copy)
      BY <1>0, <1>2, <2>1, GotoKeeps, AnswerKeeps DEF Intake!ReserveWrite
    <2>2. CASE Intake(chosen)!Reserved(e, copy)
      <3>1. /\ copy \in Rates /\ copy.attempts < chosen.limit /\ copy.window \in 1 .. window
            /\ copy.revision = rate[e].revision
            /\ \/ copy.window = rate[e].window /\ copy.attempts = rate[e].attempts
               \/ copy.window > rate[e].window /\ copy.attempts = 0
        BY <1>0, <2>0, <2>2 DEF AskerOK, CopyIsRead, AskerRecords, Intake!Reserved
      <3>2. /\ rate' = [rate EXCEPT ![e] = new]
            /\ admitted' = [admitted EXCEPT ![e][copy.window] = @ + 1]
            /\ req' = [req EXCEPT ![r] = next]
            /\ UNCHANGED <<head, config, entry, window, builds, receipts>>
        BY <1>0, <1>2, <2>2 DEF Intake!ReserveWrite, Intake!Goto, IntakeInv
      <3>3. /\ new \in Rates /\ new.window = copy.window /\ new.attempts = copy.attempts + 1
            /\ new.revision = copy.revision + 1
        <4>1. copy.attempts + 1 \in Nat /\ copy.revision + 1 \in Nat
          BY <3>1 DEF Rates
        <4> QED BY <3>1, <4>1 DEF Rates
      <3>4. /\ next \in AskerRecords(chosen) /\ next.pc \in {"config", "find"}
            /\ next.since = req[r].since
        BY <1>0 DEF AskerRecords
      <3> HIDE DEF new, next
      <3>5. copy.window \in 1 .. chosen.windows
        BY <1>0, <3>1
      <3>6. /\ admitted' \in [Entrances -> [1 .. chosen.windows -> Nat]]
            /\ admitted'[e][copy.window] = admitted[e][copy.window] + 1
            /\ \A w \in 1 .. chosen.windows : w # copy.window => admitted'[e][w] = admitted[e][w]
            /\ \A o \in Entrances \ {e} : admitted'[o] = admitted[o]
        BY <1>0, <3>2, <3>5 DEF IntakeInv
      <3>7. /\ rate' \in [Entrances -> Rates] /\ rate'[e] = new
            /\ \A o \in Entrances \ {e} : rate'[o] = rate[o]
        BY <1>0, <3>2, <3>3 DEF IntakeInv
      <3>8. RateOK(chosen, e)'
        <4>1. admitted[e][copy.window] = copy.attempts
          BY <1>0, <3>1, <3>5 DEF RateOK
        <4>2. rate'[e].window <= window' /\ rate'[e].attempts <= chosen.limit
          BY <1>0, <3>1, <3>2, <3>3, <3>7 DEF Rates, IntakeInv
        <4>3. ASSUME NEW w \in 1 .. chosen.windows
              PROVE  /\ admitted'[e][w] \in Nat /\ admitted'[e][w] <= chosen.limit
                     /\ w = rate'[e].window => admitted'[e][w] = rate'[e].attempts
                     /\ w > rate'[e].window => admitted'[e][w] = 0
          <5>1. CASE w = copy.window
            <6>1. copy.attempts + 1 \in Nat /\ copy.attempts + 1 <= chosen.limit
              BY <3>1 DEF Rates, IntakeInv
            <6>2. admitted'[e][w] = copy.attempts + 1 /\ rate'[e].attempts = copy.attempts + 1
                  /\ rate'[e].window = w
              BY <3>3, <3>6, <3>7, <4>1, <5>1
            <6> QED BY <6>1, <6>2
          <5>2. CASE w # copy.window
            <6>1. admitted'[e][w] = admitted[e][w] /\ rate'[e].window = copy.window
              BY <3>3, <3>6, <3>7, <5>2
            <6>2. /\ admitted[e][w] \in Nat /\ admitted[e][w] <= chosen.limit
                  /\ w > rate[e].window => admitted[e][w] = 0
              BY <1>0 DEF RateOK
            <6>3. copy.window >= rate[e].window /\ copy.window \in Nat /\ rate[e].window \in Nat
              BY <1>0, <3>1 DEF Rates
            <6> QED BY <5>2, <6>1, <6>2, <6>3
          <5> QED BY <5>1, <5>2
        <4> QED BY <4>2, <4>3 DEF RateOK
      <3>9. \A o \in Entrances : RateOK(chosen, o)'
        <4>1. ASSUME NEW o \in Entrances \ {e} PROVE RateOK(chosen, o)'
          <5>1. rate'[o] = rate[o] /\ admitted'[o] = admitted[o] /\ RateOK(chosen, o)
            BY <3>6, <3>7 DEF IntakeInv
          <5> QED BY <3>2, <5>1 DEF RateOK
        <4> QED BY <3>8, <4>1
      <3>10. \A o \in Askers : AskerOK(chosen, o)'
        <4>1. AskerOK(chosen, r)'
          BY <1>0, <3>2, <3>4 DEF AskerOK, IntakeInv
        <4>2. ASSUME NEW o \in Askers \ {r} PROVE AskerOK(chosen, o)'
          <5>1. req'[o] = req[o] /\ AskerOK(chosen, o) /\ req[o] \in AskerRecords(chosen)
            BY <3>2 DEF IntakeInv
          <5>2. req[o].pc = "reserve" => CopyIsRead(chosen, o)'
            <6>1. CASE req[o].kind = e
              BY <5>1, <6>1, <1>0, <3>1, <3>2, <3>3, <3>7 DEF AskerOK, CopyIsRead, AskerRecords, Rates
            <6>2. CASE req[o].kind # e
              BY <5>1, <6>2, <3>2, <3>7 DEF AskerOK, CopyIsRead
            <6> QED BY <6>1, <6>2
          <5> QED BY <3>2, <5>1, <5>2 DEF AskerOK
        <4> QED BY <4>1, <4>2
      <3>11. req' \in [Askers -> AskerRecords(chosen)]
        BY <3>2, <3>4 DEF IntakeInv
      <3> QED BY <3>2, <3>6, <3>7, <3>9, <3>10, <3>11 DEF IntakeInv, DeliveryOK
    <2> QED BY <2>1, <2>2
  <1> QED BY <1>1, <1>2

\* What is decided is written beside the answer; the counters stay.
LEMMA DecidingKeeps ==
    ASSUME NEW chosen, IntakeInv(chosen), NEW r \in Askers, Intake(chosen)!Answer(r),
           UNCHANGED <<head, config, entry, rate, window, admitted>>,
           builds' \in [Stored(chosen) -> BuildRecords],
           \A k \in Stored(chosen) : builds'[k].source = "none" => builds'[k] = Intake(chosen)!NoBuild,
           receipts' \in [chosen.deliveries -> {"none", "accepted", "ignored"}],
           \A d \in chosen.deliveries : DeliveryOK(d)'
    PROVE  IntakeInv(chosen)'
  <1> DEFINE next == Intake(chosen)!Idle
  <1>1. next \in AskerRecords(chosen) /\ next.pc = "idle" /\ next.since = 0
    BY AnswerIsIdle
  <1>2. req' = [req EXCEPT ![r] = next]
    BY DEF Intake!Answer
  <1> HIDE DEF next
  <1>3. req' \in [Askers -> AskerRecords(chosen)] /\ req'[r] = next
        /\ \A o \in Askers \ {r} : req'[o] = req[o]
    BY <1>1, <1>2 DEF IntakeInv
  <1>4. AskerOK(chosen, r)'
    BY <1>1, <1>3 DEF IntakeInv, AskerOK
  <1>5. \A o \in Askers \ {r} : AskerOK(chosen, o)'
    BY <1>3 DEF IntakeInv, AskerOK, CopyIsRead
  <1>6. \A e \in Entrances : RateOK(chosen, e)'
    BY DEF IntakeInv, RateOK
  <1> QED BY <1>3, <1>4, <1>5, <1>6 DEF IntakeInv

\* saveIgnoredWebhook: an answer that is stored stays.
LEMMA IgnoringKeeps ==
    ASSUME NEW chosen, IntakeInv(chosen), NEW r \in Askers, Intake(chosen)!SaveIgnoredWebhook(r)
    PROVE  /\ IntakeInv(chosen)' /\ UNCHANGED builds
           /\ \A d \in chosen.deliveries : receipts[d] # "none" => receipts'[d] = receipts[d]
  <1> DEFINE key == req[r].key
  <1>1. /\ Intake(chosen)!Answer(r) /\ UNCHANGED <<head, config, entry, rate, window, admitted, builds>>
        /\ receipts' = [receipts EXCEPT ![key] = IF @ = "none" THEN "ignored" ELSE @]
    BY DEF Intake!SaveIgnoredWebhook
  <1> HIDE DEF key
  <1>2. receipts' \in [chosen.deliveries -> {"none", "accepted", "ignored"}]
    BY <1>1 DEF IntakeInv
  <1>3. \A d \in chosen.deliveries :
            receipts'[d] = IF d = key /\ receipts[d] = "none" THEN "ignored" ELSE receipts[d]
    BY <1>1 DEF IntakeInv
  <1>4. \A d \in chosen.deliveries : DeliveryOK(d)'
    BY <1>1, <1>3 DEF IntakeInv, DeliveryOK
  <1>5. \A k \in Stored(chosen) : builds'[k].source = "none" => builds'[k] = Intake(chosen)!NoBuild
    BY <1>1 DEF IntakeInv
  <1>6. builds' \in [Stored(chosen) -> BuildRecords]
    BY <1>1 DEF IntakeInv
  <1>7. IntakeInv(chosen)'
    BY <1>1, <1>2, <1>4, <1>5, <1>6, DecidingKeeps
  <1> QED BY <1>1, <1>3, <1>7

\* The transaction at the end of a request: a Build is inserted where there
\* is none, of the reading that allowed it and a commit not older than the
\* request, with the delivery it answers.
LEMMA InsertionKeeps ==
    ASSUME NEW chosen, IntakeInv(chosen), NEW r \in Askers, Intake(chosen)!Insert(r)
    PROVE  /\ IntakeInv(chosen)'
           /\ \A d \in chosen.deliveries :
                 /\ receipts[d] # "none" => receipts'[d] = receipts[d]
                 /\ builds[d] # Intake(chosen)!NoBuild => builds'[d] = builds[d]
           /\ \A k \in Stored(chosen) : builds'[k] # builds[k] =>
                 /\ builds'[k].config.allows
                 /\ req[r].key = k /\ builds'[k].commit >= req[r].since
  <1> DEFINE key == req[r].key
             build == [source |-> req[r].kind, commit |-> req[r].commit, config |-> req[r].config]
  <1>1. /\ Intake(chosen)!Answer(r) /\ UNCHANGED <<head, config, entry, rate, window, admitted>>
    BY DEF Intake!Insert
  <1>2. /\ req[r] \in AskerRecords(chosen) /\ req[r].config.allows /\ req[r].commit >= req[r].since
    BY DEF IntakeInv, AskerOK, Intake!Insert
  <1>3. build \in BuildRecords /\ build.source # "none"
    BY <1>2 DEF AskerRecords, BuildRecords, Sources
  <1>4. CASE UNCHANGED <<builds, receipts>>
    <2>1. \A d \in chosen.deliveries : DeliveryOK(d)'
      BY <1>4 DEF IntakeInv, DeliveryOK
    <2>2. \A k \in Stored(chosen) : builds'[k].source = "none" => builds'[k] = Intake(chosen)!NoBuild
      BY <1>4 DEF IntakeInv
    <2>3. /\ builds' \in [Stored(chosen) -> BuildRecords]
          /\ receipts' \in [chosen.deliveries -> {"none", "accepted", "ignored"}]
      BY <1>4 DEF IntakeInv
    <2>4. IntakeInv(chosen)'
      BY <1>1, <2>1, <2>2, <2>3, DecidingKeeps
    <2> QED BY <1>4, <2>4
  <1>5. CASE /\ Intake(chosen)!Vacant(key)
             /\ builds' = [builds EXCEPT ![key] = build]
             /\ receipts' = IF key \in chosen.deliveries THEN [receipts EXCEPT ![key] = "accepted"]
                                                         ELSE receipts
    <2> HIDE DEF key, build
    <2>1. /\ builds' \in [Stored(chosen) -> BuildRecords]
          /\ receipts' \in [chosen.deliveries -> {"none", "accepted", "ignored"}]
      BY <1>3, <1>5 DEF IntakeInv
    <2>2. \A k \in Stored(chosen) : builds'[k] = IF k = key THEN build ELSE builds[k]
      BY <1>5 DEF IntakeInv
    <2>3. \A d \in chosen.deliveries : receipts'[d] = IF d = key THEN "accepted" ELSE receipts[d]
      BY <1>5 DEF IntakeInv
    <2>4. \A k \in Stored(chosen) : builds'[k].source = "none" => builds'[k] = Intake(chosen)!NoBuild
      BY <1>3, <2>2 DEF IntakeInv
    <2>5. \A d \in chosen.deliveries : DeliveryOK(d)'
      BY <1>3, <2>2, <2>3 DEF IntakeInv, DeliveryOK, Stored
    <2>6. IntakeInv(chosen)'
      BY <1>1, <2>1, <2>4, <2>5, DecidingKeeps
    <2>7. /\ builds[key] = Intake(chosen)!NoBuild
          /\ key \in chosen.deliveries => receipts[key] = "none"
      BY <1>5 DEF Intake!Vacant
    <2>8. \A d \in chosen.deliveries :
             /\ receipts[d] # "none" => receipts'[d] = receipts[d]
             /\ builds[d] # Intake(chosen)!NoBuild => builds'[d] = builds[d]
      BY <2>2, <2>3, <2>7 DEF Stored
    <2>9. build.config = req[r].config /\ build.commit = req[r].commit
      BY DEF build
    <2> QED BY <1>2, <2>2, <2>6, <2>8, <2>9 DEF key
  <1> HIDE DEF build
  <1> QED BY <1>4, <1>5 DEF Intake!Insert, build

\* The configuration is edited, the branch and the rate window move, the
\* Application retires.
LEMMA SurroundingsKeep ==
    ASSUME NEW chosen, IntakeInv(chosen),
           UNCHANGED <<rate, admitted, builds, receipts, req>>,
           head' \in 1 .. MaxCommit, head' >= head,
           window' \in 1 .. chosen.windows, window' >= window,
           config' \in Configurations,
           entry' \in [Entrances -> {"absent", "active", "revoked"}]
    PROVE  IntakeInv(chosen)'
  <1>0. MaxCommit \in Nat
    BY BoundsAssumption
  <1>1. \A e \in Entrances : RateOK(chosen, e)'
    <2>1. ASSUME NEW e \in Entrances PROVE rate'[e].window <= window'
      <3>1. rate[e].window \in Nat /\ rate[e].window <= window /\ window \in Nat /\ window' \in Nat
        BY DEF IntakeInv, RateOK, Rates
      <3> QED BY <3>1
    <2> QED BY <2>1 DEF IntakeInv, RateOK
  <1>2. \A r \in Askers : AskerOK(chosen, r)'
    <2>1. ASSUME NEW r \in Askers PROVE AskerOK(chosen, r)'
      <3>1. AskerOK(chosen, r) /\ req[r] \in AskerRecords(chosen) /\ req'[r] = req[r] /\ rate' = rate
        BY DEF IntakeInv
      <3>2. req'[r].since <= head'
        BY <1>0, <3>1 DEF IntakeInv, AskerOK, AskerRecords
      <3>3. CopyIsRead(chosen, r) => CopyIsRead(chosen, r)'
        <4>1. 1 .. window \subseteq 1 .. window'
          BY DEF IntakeInv
        <4> QED BY <3>1, <4>1 DEF CopyIsRead
      <3> QED BY <3>1, <3>2, <3>3 DEF AskerOK
    <2> QED BY <2>1
  <1> QED BY <1>1, <1>2 DEF IntakeInv, DeliveryOK

\* What users and providers do beside the requests.
LEMMA EditingKeeps ==
    ASSUME NEW chosen, IntakeInv(chosen),
           \/ Intake(chosen)!CreateBuildConfiguration \/ Intake(chosen)!UpdateBuildConfiguration
           \/ Intake(chosen)!CreateBuildTrigger \/ Intake(chosen)!CreateBuildHook
           \/ Intake(chosen)!RevokeBuildTrigger \/ Intake(chosen)!RevokeBuildHook
           \/ Intake(chosen)!Push \/ Intake(chosen)!NextWindow \/ Intake(chosen)!Close
           \/ UNCHANGED intakeVars
    PROVE  IntakeInv(chosen)' /\ UNCHANGED <<builds, receipts>>
  <1>1. UNCHANGED <<rate, admitted, builds, receipts, req>>
    BY DEF Intake!CreateBuildConfiguration, Intake!UpdateBuildConfiguration, Intake!CreateBuildTrigger,
           Intake!CreateBuildHook, Intake!RevokeBuildTrigger, Intake!RevokeBuildHook,
           Intake!Push, Intake!NextWindow, Intake!Close, intakeVars
  <1>2. head \in 1 .. MaxCommit /\ window \in 1 .. chosen.windows /\ chosen.windows \in Nat
        /\ MaxCommit \in Nat /\ config \in Configurations
        /\ entry \in [Entrances -> {"absent", "active", "revoked"}]
    BY BoundsAssumption DEF IntakeInv
  <1>3. head' \in 1 .. MaxCommit /\ head' >= head
    BY <1>2
    DEF Intake!CreateBuildConfiguration, Intake!UpdateBuildConfiguration, Intake!CreateBuildTrigger,
        Intake!CreateBuildHook, Intake!RevokeBuildTrigger, Intake!RevokeBuildHook,
        Intake!Push, Intake!NextWindow, Intake!Close, intakeVars
  <1>4. window' \in 1 .. chosen.windows /\ window' >= window
    BY <1>2
    DEF Intake!CreateBuildConfiguration, Intake!UpdateBuildConfiguration, Intake!CreateBuildTrigger,
        Intake!CreateBuildHook, Intake!RevokeBuildTrigger, Intake!RevokeBuildHook,
        Intake!Push, Intake!NextWindow, Intake!Close, intakeVars
  <1>5. config' \in Configurations
    <2>1. config.version + 1 \in Nat
      BY <1>2 DEF Configurations
    <2>2. CASE Intake(chosen)!UpdateBuildConfiguration
      BY <2>1, <2>2 DEF Intake!UpdateBuildConfiguration, Configurations
    <2>3. CASE Intake(chosen)!CreateBuildConfiguration
      BY <2>3 DEF Intake!CreateBuildConfiguration, Configurations
    <2>4. CASE UNCHANGED config
      BY <1>2, <2>4
    <2> QED BY <2>2, <2>3, <2>4
      DEF Intake!CreateBuildTrigger, Intake!CreateBuildHook, Intake!RevokeBuildTrigger,
          Intake!RevokeBuildHook, Intake!Push, Intake!NextWindow, Intake!Close, intakeVars
  <1>6. entry' \in [Entrances -> {"absent", "active", "revoked"}]
    BY <1>2
    DEF Intake!CreateBuildConfiguration, Intake!UpdateBuildConfiguration, Intake!CreateBuildTrigger,
        Intake!CreateBuildHook, Intake!RevokeBuildTrigger, Intake!RevokeBuildHook,
        Intake!Push, Intake!NextWindow, Intake!Close, intakeVars
  <1> QED BY <1>1, <1>3, <1>4, <1>5, <1>6, SurroundingsKeep

\* Every step keeps the invariant, and what was decided.
LEMMA IntakeStep ==
    ASSUME NEW chosen, IntakeInv(chosen), Intake(chosen)!IntakeNext \/ UNCHANGED intakeVars
    PROVE  IntakeInv(chosen)' /\ Intake(chosen)!DecisionStays /\ Intake(chosen)!BuildReadOnce
  <1>1. Intake(chosen)!NoBuild.source = "none"
    BY DEF Intake!NoBuild
  <1> DEFINE Decided ==
          \A d \in chosen.deliveries :
             /\ receipts[d] # "none" => receipts'[d] = receipts[d]
             /\ builds[d] # Intake(chosen)!NoBuild => builds'[d] = builds[d]
  <1>2. ASSUME IntakeInv(chosen)', Decided
        PROVE  Intake(chosen)!DecisionStays
    <2>1. \A d \in chosen.deliveries : DeliveryOK(d)' /\ d \in Stored(chosen)
      BY <1>2 DEF IntakeInv, Stored
    <2>2. \A d \in chosen.deliveries : builds'[d].source = "none" <=> builds'[d] = Intake(chosen)!NoBuild
      BY <1>1, <1>2, <2>1 DEF IntakeInv
    <2> QED BY <1>2, <2>1, <2>2 DEF Intake!DecisionStays, DeliveryOK
  <1>3. ASSUME IntakeInv(chosen)', UNCHANGED <<builds, receipts>>
        PROVE  IntakeInv(chosen)' /\ Intake(chosen)!DecisionStays /\ Intake(chosen)!BuildReadOnce
    <2>1. Decided
      BY <1>3
    <2> QED BY <1>2, <1>3, <2>1 DEF Intake!BuildReadOnce
  <1> HIDE DEF Decided
  <1>4. ASSUME NEW r \in Askers, Intake(chosen)!Arrives(r)
        PROVE  IntakeInv(chosen)' /\ UNCHANGED <<builds, receipts>>
    BY <1>4, ArrivalKeeps
  <1>5. ASSUME NEW r \in Askers,
               \/ Intake(chosen)!Replay(r) \/ Intake(chosen)!FindBuildReplay(r)
               \/ Intake(chosen)!ReadConfiguration(r) \/ Intake(chosen)!ResolveSourceRevision(r)
               \/ Intake(chosen)!RequestLost(r)
        PROVE  IntakeInv(chosen)' /\ UNCHANGED <<builds, receipts>>
    BY <1>5, ReadingKeeps
  <1>6. ASSUME NEW r \in Askers, Intake(chosen)!ReserveRead(r) \/ Intake(chosen)!ReserveWrite(r)
        PROVE  IntakeInv(chosen)' /\ UNCHANGED <<builds, receipts>>
    BY <1>6, ReservationKeeps
  <1>7. ASSUME NEW r \in Askers, Intake(chosen)!SaveIgnoredWebhook(r)
        PROVE  IntakeInv(chosen)' /\ Intake(chosen)!DecisionStays /\ Intake(chosen)!BuildReadOnce
    <2>1. IntakeInv(chosen)' /\ UNCHANGED builds /\ Decided
      BY <1>7, IgnoringKeeps DEF Decided
    <2> QED BY <1>2, <2>1 DEF Intake!BuildReadOnce
  <1>8. ASSUME NEW r \in Askers, Intake(chosen)!Insert(r)
        PROVE  IntakeInv(chosen)' /\ Intake(chosen)!DecisionStays /\ Intake(chosen)!BuildReadOnce
    <2>1. IntakeInv(chosen)' /\ Decided
      BY <1>8, InsertionKeeps DEF Decided
    <2>2. Intake(chosen)!BuildReadOnce
      BY <1>8, InsertionKeeps DEF Intake!BuildReadOnce, Stored
    <2> QED BY <1>2, <2>1, <2>2
  <1>9. ASSUME NEW r \in Askers, Intake(chosen)!Handles(r)
        PROVE  IntakeInv(chosen)' /\ Intake(chosen)!DecisionStays /\ Intake(chosen)!BuildReadOnce
    BY <1>3, <1>5, <1>6, <1>7, <1>8, <1>9 DEF Intake!Handles
  <1> QED BY <1>3, <1>4, <1>5, <1>9, EditingKeeps DEF Intake!IntakeNext

\* What the run checks follows.
LEMMA IntakeIsKept ==
    ASSUME NEW chosen, IntakeInv(chosen)
    PROVE  Intake(chosen)!RateIsKept /\ Intake(chosen)!IntakeTypeOK
  <1>1. Intake(chosen)!RateIsKept
    BY DEF IntakeInv, RateOK, Intake!RateIsKept, Intake!Entries, Entrances
  <1>2. Intake(chosen)!IntakeTypeOK
    BY DEF IntakeInv, Intake!IntakeTypeOK, Intake!Entries, Intake!Kinds, Entrances, Stored, BuildRecords,
           AskerRecords, Sources
  <1> QED BY <1>1, <1>2

-----------------------------------------------------------------------------
(* The life of the product resources.  A scope is calm once its admission is *)
(* closed and nothing in it can get a container any more; a scope that is    *)
(* calm stays calm, and that is what a retirement pass finds before it       *)
(* cleans up.                                                                *)

Scopes == {"application", "environment", "target"}

Statuses == {"absent", "queued", "deploying", "committing", "canceling", "succeeded", "failed", "canceled"}

DeploymentRecords ==
    [status : Statuses, key : DeployKeys \cup {"none", "auto"}, release : Releases \cup {"none"},
     managed : BOOLEAN]

SubmissionRecords ==
    [pc : {"idle", "replay", "validate", "history", "admit", "persist"},
     op : {"create", "automatic", "retry", "rollback"},
     key : DeployKeys \cup {"none", "auto"}, release : Releases \cup {"none"}]

PassRecords ==
    [pc : {"idle", "cancel", "cleanup", "complete"}, scope : Scopes,
     todo : SUBSET (Life!Ids \X {"queued", "deploying"}), stable : 0 .. MaxDeployments, listed : BOOLEAN]

\* Nothing of the scope can still get a container.
Calm(scope) ==
    IF scope = "target"
    THEN /\ target \in {"retiring", "removed"}
         /\ \A d \in Life!Ids : deployment[d].status \notin {"deploying", "committing"}
    ELSE /\ parent[scope] # "active"
         /\ \A d \in Life!Ids : deployment[d].status \notin Life!Underway

NoneSucceeded == \A d \in Life!Ids : deployment[d].status # "succeeded"

NoneServes == serving # 0 => deployment[serving].status # "succeeded"

\* A pass that cleans up found its scope calm; the stable Deployment it
\* noted is missing only if there is none.
RetirementPassOK(p) ==
    /\ pass[p].pc \in {"cleanup", "complete"} => Calm(pass[p].scope)
    /\ pass[p].pc = "cleanup" /\ (pass[p].stable = 0 \/ ~pass[p].listed) => NoneSucceeded
    /\ pass[p].pc = "complete" => NoneServes

GoneOK ==
    /\ target = "removed" => Calm("target") /\ NoneServes
    /\ \A q \in Life!Parents : parent[q] = "retired" => Calm(q) /\ NoneServes

LifeTypes ==
    /\ parent \in [Life!Parents -> {"active", "retiring", "retired"}]
    /\ target \in {"absent", "provisioning", "ready", "unreachable", "retiring", "removed"}
    /\ deployment \in [Life!Ids -> DeploymentRecords]
    /\ serving \in 0 .. MaxDeployments
    /\ submission \in [Submissions -> SubmissionRecords]
    /\ pass \in [Passes -> PassRecords]

LifeInv == LifeTypes /\ (\A p \in Passes : RetirementPassOK(p)) /\ GoneOK

\* Nothing is deployed, nothing retires.
LEMMA InitLife == ASSUME Life!ProductInit PROVE LifeInv
  <1>1. LifeTypes
    BY BoundsAssumption
    DEF Life!ProductInit, LifeTypes, Life!NoDeployment, Life!NoSubmission, Life!NoRetirement, Life!Ids,
        Statuses, DeploymentRecords, SubmissionRecords, PassRecords, Scopes
  <1>2. (\A p \in Passes : RetirementPassOK(p)) /\ GoneOK
    BY DEF Life!ProductInit, Life!NoRetirement, RetirementPassOK, GoneOK
  <1> QED BY <1>1, <1>2 DEF LifeInv

\* What no step does to a Deployment, to the slot and to a closed admission.
Gently ==
    /\ \A d \in Life!Ids :
          /\ deployment'[d].status \in Life!Underway =>
                deployment[d].status \in Life!Underway \/ \A q \in Life!Parents : parent[q] = "active"
          /\ deployment'[d].status \in {"deploying", "committing"} =>
                deployment[d].status \in {"deploying", "committing"} \/ target = "ready"
          /\ deployment'[d].status = "succeeded" => deployment[d].status \in {"succeeded", "committing"}
    /\ serving' \in {0, serving} \/ deployment[serving'].status = "deploying"
    /\ \A q \in Life!Parents : parent[q] # "active" => parent'[q] # "active"
    /\ target \in {"retiring", "removed"} => target' \in {"retiring", "removed"}

\* Calm stays, and with it what was cleaned up.
LEMMA CalmStays ==
    ASSUME LifeInv, LifeTypes', Gently, NEW scope \in Scopes, Calm(scope)
    PROVE  /\ Calm(scope)'
           /\ NoneSucceeded => NoneSucceeded'
           /\ NoneServes => NoneServes'
  <1>1. \A d \in Life!Ids : deployment[d].status \notin {"deploying", "committing"}
    BY DEF Calm, Life!Underway
  <1>2. \A d \in Life!Ids : deployment'[d].status = "succeeded" => deployment[d].status = "succeeded"
    BY <1>1 DEF Gently
  <1>3. Calm(scope)'
    <2>1. CASE scope = "target"
      BY <1>1, <2>1 DEF Calm, Gently
    <2>2. CASE scope # "target"
      <3>1. scope \in Life!Parents /\ parent[scope] # "active"
            /\ \A d \in Life!Ids : deployment[d].status \notin Life!Underway
        BY <2>2 DEF Calm, Scopes, Life!Parents
      <3> QED BY <2>2, <3>1 DEF Calm, Gently
    <2> QED BY <2>1, <2>2
  <1>5. NoneSucceeded => NoneSucceeded'
    BY <1>2 DEF NoneSucceeded
  <1>6. NoneServes => NoneServes'
    <2>1. serving' # 0 => serving' \in Life!Ids
      BY BoundsAssumption DEF LifeTypes, Life!Ids
    <2>2. serving' # 0 => serving' = serving
      BY <1>1, <2>1 DEF Gently
    <2> QED BY <1>2, <2>1, <2>2 DEF NoneServes
  <1> QED BY <1>3, <1>5, <1>6

\* A step is one that moves gently, lets a pass clean up only what is calm,
\* and ends a resource only when its scope was cleaned.
LEMMA LifeKeeps ==
    ASSUME LifeInv, LifeTypes', Gently,
           \A p \in Passes : pass'[p] = pass[p] \/ RetirementPassOK(p)',
           \A q \in Life!Parents : parent'[q] = "retired" =>
               parent[q] = "retired" \/ (Calm(q) /\ NoneServes),
           target' = "removed" => target = "removed" \/ (Calm("target") /\ NoneServes)
    PROVE  LifeInv'
  <1>1. ASSUME NEW p \in Passes, pass'[p] = pass[p] PROVE RetirementPassOK(p)'
    <2>1. RetirementPassOK(p) /\ pass[p].scope \in Scopes
      BY DEF LifeInv, LifeTypes, PassRecords
    <2>2. PICK scope \in Scopes : scope = pass[p].scope
      BY <2>1
    <2>3. CASE Calm(scope)
      <3>1. Calm(scope)' /\ (NoneSucceeded => NoneSucceeded') /\ (NoneServes => NoneServes')
        BY <2>3, CalmStays
      <3>2. scope' = scope
        OBVIOUS
      <3> QED BY <1>1, <2>1, <2>2, <3>1 DEF RetirementPassOK
    <2>4. CASE ~Calm(scope)
      BY <1>1, <2>1, <2>2, <2>4 DEF RetirementPassOK
    <2> QED BY <2>3, <2>4
  <1>2. GoneOK'
    <2>1. "target" \in Scopes /\ Life!Parents \subseteq Scopes
      BY DEF Scopes, Life!Parents
    <2>2. target' = "removed" => Calm("target")' /\ NoneServes'
      BY <2>1, CalmStays DEF LifeInv, GoneOK
    <2>3. ASSUME NEW q \in Life!Parents, parent'[q] = "retired" PROVE Calm(q)' /\ NoneServes'
      BY <2>1, <2>3, CalmStays DEF LifeInv, GoneOK
    <2> QED BY <2>2, <2>3 DEF GoneOK
  <1> QED BY <1>1, <1>2 DEF LifeInv

\* A step that leaves the passes, and retires nothing.
LEMMA OthersKeep ==
    ASSUME LifeInv, LifeTypes', Gently, UNCHANGED pass,
           \A q \in Life!Parents : parent'[q] = "retired" => parent[q] = "retired",
           target' = "removed" => target = "removed"
    PROVE  LifeInv'
  BY LifeKeeps

\* Requests read, and forget; only PersistFormal creates, while both parents
\* are active.
LEMMA SubmissionsKeep ==
    ASSUME LifeInv, NEW s \in Submissions, Life!Request(s)
    PROVE  LifeInv'
  <1>0. /\ submission \in [Submissions -> SubmissionRecords] /\ submission[s] \in SubmissionRecords
        /\ deployment \in [Life!Ids -> DeploymentRecords]
    BY DEF LifeInv, LifeTypes
  <1>1. Life!NoSubmission \in SubmissionRecords
    BY DEF Life!NoSubmission, SubmissionRecords
  <1>2. ASSUME NEW next \in SubmissionRecords, submission' = [submission EXCEPT ![s] = next],
               UNCHANGED <<parent, target, serving, pass>>,
               \/ UNCHANGED deployment
               \/ /\ Life!FenceProductResourceAdmission
                  /\ \E d \in Life!Ids, new \in DeploymentRecords :
                        new.status = "queued" /\ deployment' = [deployment EXCEPT ![d] = new]
        PROVE  LifeInv'
    <2>1. LifeTypes'
      BY <1>0, <1>2 DEF LifeInv, LifeTypes
    <2>2. \A d \in Life!Ids :
             \/ deployment'[d] = deployment[d]
             \/ deployment'[d].status = "queued" /\ Life!FenceProductResourceAdmission
      BY <1>0, <1>2
    <2>3. Gently
      BY <1>2, <2>2 DEF Gently, Life!FenceProductResourceAdmission
    <2> QED BY <1>2, <2>1, <2>3, OthersKeep
  <1>3. ASSUME NEW intent \in SubmissionRecords, Life!Begin(s, intent) PROVE LifeInv'
    <2> DEFINE next == [intent EXCEPT !.pc = "replay"]
    <2>1. next \in SubmissionRecords
      BY DEF SubmissionRecords
    <2>2. submission' = [submission EXCEPT ![s] = next] /\ UNCHANGED <<parent, target, serving, pass, deployment>>
      BY <1>3 DEF Life!Begin
    <2> HIDE DEF next
    <2> QED BY <1>2, <2>1, <2>2
  <1>4. ASSUME NEW op \in {"create", "automatic", "retry", "rollback"}, NEW k \in DeployKeys \cup {"auto"},
               NEW r \in Releases,
               Life!Begin(s, [Life!NoSubmission EXCEPT !.op = op, !.key = k, !.release = r])
        PROVE  LifeInv'
    <2> DEFINE intent == [Life!NoSubmission EXCEPT !.op = op, !.key = k, !.release = r]
    <2>1. intent \in SubmissionRecords
      BY <1>1 DEF SubmissionRecords
    <2> HIDE DEF intent
    <2> QED BY <1>3, <1>4, <2>1 DEF intent
  <1>5. ASSUME Life!Reject(s), UNCHANGED <<parent, target, deployment, serving, pass>> PROVE LifeInv'
    BY <1>1, <1>2, <1>5 DEF Life!Reject
  <1>6. ASSUME NEW pc \in {"validate", "history", "admit", "persist"}, Life!Proceed(s, pc),
               UNCHANGED <<parent, target, deployment, serving, pass>>
        PROVE  LifeInv'
    <2> DEFINE next == [submission[s] EXCEPT !.pc = pc]
    <2>1. next \in SubmissionRecords
      BY <1>0 DEF SubmissionRecords
    <2>2. submission' = [submission EXCEPT ![s] = next]
      BY <1>6 DEF Life!Proceed
    <2> HIDE DEF next
    <2> QED BY <1>2, <1>6, <2>1, <2>2
  <1>7. ASSUME Life!PersistFormal(s) PROVE LifeInv'
    <2>1. CASE UNCHANGED deployment
      BY <1>1, <1>2, <1>7, <2>1 DEF Life!PersistFormal, Life!Reject
    <2>2. CASE Life!FenceProductResourceAdmission /\ Life!Create(s)
      <3> DEFINE new == [Life!NoDeployment EXCEPT !.status = "queued", !.key = submission[s].key,
                                                  !.release = submission[s].release]
      <3>1. new \in DeploymentRecords /\ new.status = "queued"
        BY <1>0 DEF SubmissionRecords, DeploymentRecords, Life!NoDeployment, Statuses
      <3>2. \E d \in Life!Ids : deployment' = [deployment EXCEPT ![d] = new]
        BY <2>2 DEF Life!Create
      <3> HIDE DEF new
      <3> QED BY <1>1, <1>2, <1>7, <2>2, <3>1, <3>2 DEF Life!PersistFormal, Life!Reject
    <2> QED BY <1>7, <2>1, <2>2 DEF Life!PersistFormal
  <1>8. CASE \/ Life!CreateRequested(s) \/ Life!ArtifactDelivered(s)
             \/ Life!RetryRequested(s) \/ Life!RollbackRequested(s)
    <2>1. CASE Life!CreateRequested(s)
      <3>1. PICK k \in DeployKeys, r \in Releases :
               Life!Begin(s, [Life!NoSubmission EXCEPT !.key = k, !.release = r])
        BY <2>1 DEF Life!CreateRequested
      <3>2. [Life!NoSubmission EXCEPT !.key = k, !.release = r] \in SubmissionRecords
        BY <1>1 DEF SubmissionRecords
      <3> QED BY <1>3, <3>1, <3>2
    <2>2. CASE Life!ArtifactDelivered(s)
      BY <1>4, <2>2 DEF Life!ArtifactDelivered
    <2>3. CASE Life!RetryRequested(s)
      <3>1. PICK k \in DeployKeys, d \in Life!Ids :
               Life!Begin(s, [Life!NoSubmission EXCEPT !.op = "retry", !.key = k,
                                                       !.release = deployment[d].release])
        BY <2>3 DEF Life!RetryRequested
      <3>2. [Life!NoSubmission EXCEPT !.op = "retry", !.key = k, !.release = deployment[d].release]
               \in SubmissionRecords
        BY <1>0, <1>1 DEF SubmissionRecords, DeploymentRecords
      <3> QED BY <1>3, <3>1, <3>2
    <2>4. CASE Life!RollbackRequested(s)
      BY <1>4, <2>4 DEF Life!RollbackRequested
    <2> QED BY <1>8, <2>1, <2>2, <2>3, <2>4
  <1>9. CASE \/ Life!FindReplay(s) \/ Life!Validate(s) \/ Life!RollbackHistory(s)
             \/ Life!EvaluateAdmission(s) \/ Life!PersistFormal(s)
    BY <1>5, <1>6, <1>7, <1>9
    DEF Life!FindReplay, Life!Validate, Life!RollbackHistory, Life!EvaluateAdmission
  <1> QED BY <1>8, <1>9
    DEF Life!Request, Life!CreateFormal, Life!CreateAutomatic, Life!CreateDerivedFormal

\* The worker, and a user who cancels: only a ready target gives a container,
\* only committing ends in success.
LEMMA WorkKeeps ==
    ASSUME LifeInv, Life!Worker \/ \E d \in Life!Ids : Life!CancelFormal(d)
    PROVE  LifeInv'
  <1>0. deployment \in [Life!Ids -> DeploymentRecords] /\ serving \in 0 .. MaxDeployments
    BY DEF LifeInv, LifeTypes
  <1>1. ASSUME NEW d \in Life!Ids, NEW new \in DeploymentRecords, NEW serves \in 0 .. MaxDeployments,
               deployment' = [deployment EXCEPT ![d] = new], serving' = serves,
               serves \in {0, serving} \/ (new = deployment[d] /\ new.status = "deploying" /\ serves = d),
               new.status \in Life!Underway => deployment[d].status \in Life!Underway,
               new.status \in {"deploying", "committing"} =>
                   deployment[d].status \in {"deploying", "committing"} \/ target = "ready",
               new.status = "succeeded" => deployment[d].status \in {"succeeded", "committing"},
               UNCHANGED <<parent, target, submission, pass>>
        PROVE  LifeInv'
    <2>1. deployment' \in [Life!Ids -> DeploymentRecords] /\ deployment'[d] = new
          /\ \A o \in Life!Ids \ {d} : deployment'[o] = deployment[o]
      BY <1>0, <1>1
    <2>2. LifeTypes'
      BY <1>1, <2>1 DEF LifeInv, LifeTypes
    <2>3. Gently
      BY <1>1, <2>1 DEF Gently
    <2> QED BY <1>1, <2>2, <2>3, OthersKeep
  <1>2. ASSUME NEW d \in Life!Ids, NEW status \in Statuses, Life!Becomes(d, status),
               NEW serves \in {0, serving}, serving' = serves,
               status \in Life!Underway => deployment[d].status \in Life!Underway,
               status \in {"deploying", "committing"} =>
                   deployment[d].status \in {"deploying", "committing"} \/ target = "ready",
               status # "succeeded", UNCHANGED <<parent, target, submission, pass>>
        PROVE  LifeInv'
    <2> DEFINE new == [deployment[d] EXCEPT !.status = status]
    <2>1. new \in DeploymentRecords /\ new.status = status
      BY <1>0 DEF DeploymentRecords
    <2>2. deployment' = [deployment EXCEPT ![d] = new]
      BY <1>2 DEF Life!Becomes
    <2>3. serves \in 0 .. MaxDeployments
      BY <1>0, BoundsAssumption
    <2> HIDE DEF new
    <2> QED BY <1>1, <1>2, <2>1, <2>2, <2>3
  <1>3. ASSUME NEW d \in Life!Ids, NEW status \in {"committing", "succeeded"}, NEW managed \in BOOLEAN,
               deployment' = [deployment EXCEPT ![d].status = status, ![d].managed = managed],
               deployment[d].status \in {"deploying", "committing"},
               status = "succeeded" => deployment[d].status = "committing",
               UNCHANGED <<parent, target, serving, submission, pass>>
        PROVE  LifeInv'
    <2> DEFINE new == [deployment[d] EXCEPT !.status = status, !.managed = managed]
    <2>1. new \in DeploymentRecords /\ new.status = status
      BY <1>0 DEF DeploymentRecords, Statuses
    <2>2. deployment' = [deployment EXCEPT ![d] = new]
      BY <1>3
    <2> HIDE DEF new
    <2>3. new.status \in Life!Underway => deployment[d].status \in Life!Underway
      BY <1>3 DEF Life!Underway
    <2> QED BY <1>0, <1>1, <1>3, <2>1, <2>2, <2>3
  <1>4. ASSUME NEW d \in Life!Ids, Life!Prepare(d) PROVE LifeInv'
    BY <1>2, <1>4 DEF Life!Prepare, Life!ResolveExecution, Life!RuntimeTargetExecution, Life!Underway, Statuses
  <1>5. ASSUME NEW d \in Life!Ids, Life!Deploy(d) PROVE LifeInv'
    <2>1. CASE Life!Becomes(d, "failed") /\ UNCHANGED serving
      BY <1>2, <1>5, <2>1 DEF Life!Deploy, Life!Underway, Statuses
    <2>2. CASE serving' = d /\ UNCHANGED deployment
      <3>1. deployment[d] \in DeploymentRecords /\ deployment' = [deployment EXCEPT ![d] = deployment[d]]
            /\ d \in 0 .. MaxDeployments
        BY <1>0, <2>2, BoundsAssumption DEF Life!Ids
      <3>2. deployment[d].status = "deploying" /\ UNCHANGED <<parent, target, submission, pass>>
        BY <1>5 DEF Life!Deploy
      <3>3. PICK new \in DeploymentRecords : new = deployment[d]
        BY <3>1
      <3> QED BY <1>1, <2>2, <3>1, <3>2, <3>3
    <2> QED BY <1>5, <2>1, <2>2 DEF Life!Deploy
  <1>6. ASSUME NEW d \in Life!Ids, Life!DeployFails(d) PROVE LifeInv'
    BY <1>2, <1>6 DEF Life!DeployFails, Life!Underway, Statuses
  <1>7. ASSUME NEW d \in Life!Ids, Life!MarkControlPlaneCommitted(d) PROVE LifeInv'
    <2>1. CASE Life!Becomes(d, "failed")
      BY <1>2, <1>7, <2>1 DEF Life!MarkControlPlaneCommitted, Life!Underway, Statuses
    <2>2. CASE ~Life!Becomes(d, "failed")
      BY <1>3, <1>7, <2>2 DEF Life!MarkControlPlaneCommitted
    <2> QED BY <2>1, <2>2
  <1>8. ASSUME NEW d \in Life!Ids, Life!Commit(d) PROVE LifeInv'
    BY <1>3, <1>8 DEF Life!Commit
  <1>9. ASSUME NEW d \in Life!Ids, Life!Cancel(d) PROVE LifeInv'
    <2>1. serving' \in {0, serving}
      BY <1>9 DEF Life!Cancel
    <2> QED BY <1>2, <1>9, <2>1 DEF Life!Cancel, Life!Underway, Statuses
  <1>10. ASSUME NEW d \in Life!Ids, Life!CancelFormal(d) PROVE LifeInv'
    BY <1>2, <1>10 DEF Life!CancelFormal, Life!Underway, Statuses
  <1> QED BY <1>4, <1>5, <1>6, <1>7, <1>8, <1>9, <1>10 DEF Life!Worker

\* The resources themselves: admission closes for good.
LEMMA ResourcesKeep ==
    ASSUME LifeInv,
           \/ Life!CreateRuntimeTarget \/ Life!ProbeRuntimeTarget
           \/ Life!DeleteApplication \/ Life!DeleteEnvironment \/ Life!DeleteRuntimeTarget
           \/ UNCHANGED lifeVars
    PROVE  LifeInv'
  <1>1. UNCHANGED <<deployment, serving, submission, pass>>
    BY DEF Life!CreateRuntimeTarget, Life!ProbeRuntimeTarget, Life!DeleteApplication,
           Life!DeleteEnvironment, Life!DeleteRuntimeTarget, lifeVars
  <1>2. /\ \/ UNCHANGED parent
           \/ \E q \in Life!Parents : parent[q] = "active" /\ parent' = [parent EXCEPT ![q] = "retiring"]
        /\ \/ UNCHANGED target
           \/ target \notin {"retiring", "removed"} /\ target' \in {"provisioning", "ready", "unreachable", "retiring"}
    BY DEF Life!CreateRuntimeTarget, Life!ProbeRuntimeTarget, Life!DeleteApplication,
           Life!DeleteEnvironment, Life!DeleteRuntimeTarget, lifeVars, Life!Probeable, Life!Parents,
           Life!BeginApplicationRetirement, Life!BeginEnvironmentRetirement, Life!BeginRuntimeTargetRetirement
  <1>3. \A q \in Life!Parents :
           parent'[q] \in {parent[q], "retiring"} /\ (parent[q] # "active" => parent'[q] = parent[q])
    BY <1>2 DEF LifeInv, LifeTypes
  <1>4. LifeTypes'
    BY <1>1, <1>2 DEF LifeInv, LifeTypes
  <1>5. Gently
    BY <1>1, <1>2, <1>3 DEF Gently
  <1> QED BY <1>1, <1>2, <1>3, <1>4, <1>5, OthersKeep

\* A pass goes on; what was cleaned up by it, or ended, was calm.
LEMMA PassKeeps ==
    ASSUME LifeInv, Gently, NEW p \in Passes, NEW next \in PassRecords,
           pass' = [pass EXCEPT ![p] = next], RetirementPassOK(p)',
           deployment' \in [Life!Ids -> DeploymentRecords], serving' \in 0 .. MaxDeployments,
           parent' \in [Life!Parents -> {"active", "retiring", "retired"}],
           target' \in {target, "removed"}, UNCHANGED submission,
           \A q \in Life!Parents : parent'[q] = "retired" =>
               parent[q] = "retired" \/ (Calm(q) /\ NoneServes),
           target' = "removed" => target = "removed" \/ (Calm("target") /\ NoneServes)
    PROVE  LifeInv'
  <1>1. pass' \in [Passes -> PassRecords] /\ \A o \in Passes : o # p => pass'[o] = pass[o]
    BY DEF LifeInv, LifeTypes
  <1>2. LifeTypes'
    BY <1>1 DEF LifeInv, LifeTypes
  <1> QED BY <1>1, <1>2, LifeKeeps

\* The newest Deployment that succeeded, if there is one.
LEMMA StableIs ==
    ASSUME LifeInv
    PROVE  Life!Stable \in 0 .. MaxDeployments /\ (Life!Stable = 0 => NoneSucceeded)
  <1> USE BoundsAssumption
  <1> DEFINE won == {d \in Life!Ids : deployment[d].status = "succeeded"}
  <1>1. won \subseteq Life!Ids /\ won \subseteq 1 .. MaxDeployments
    BY DEF Life!Ids
  <1>2. CASE won = {}
    <2>1. NoneSucceeded
      BY <1>2 DEF NoneSucceeded
    <2>2. Life!Stable = 0
      BY <1>2 DEF Life!Stable
    <2> QED BY <2>1, <2>2
  <1>3. CASE won # {}
    <2>0. Life!Stable = CHOOSE d \in won : \A e \in won : e <= d
      BY <1>3 DEF Life!Stable
    <2> HIDE DEF won
    <2> DEFINE T == {MaxDeployments - d : d \in won}
    <2>1. T \subseteq Nat /\ T # {}
      <3>1. \A d \in 1 .. MaxDeployments : MaxDeployments - d \in Nat
        OBVIOUS
      <3>2. PICK d \in won : MaxDeployments - d \in T
        BY <1>3
      <3> QED BY <1>1, <3>1, <3>2
    <2>2. PICK x \in T : \A y \in T : x <= y
      BY <2>1, LeastNatural
    <2>3. PICK d \in won : x = MaxDeployments - d
      BY <2>2
    <2>4. \A e \in won : e <= d
      <3>1. ASSUME NEW e \in won PROVE e <= d
        <4>1. MaxDeployments - d <= MaxDeployments - e
          BY <2>2, <2>3
        <4> QED BY <1>1, <4>1
      <3> QED BY <3>1
    <2>5. Life!Stable \in won
      BY <2>0, <2>4
    <2> QED BY <1>1, <2>5
  <1> QED BY <1>2, <1>3

\* RetireScope lists: it goes on to clean up only with nothing pending.
LEMMA ListingKeeps ==
    ASSUME LifeInv, NEW p \in Passes, Life!ContinueRetirement(p)
    PROVE  LifeInv'
  <1>1. PICK scope \in Scopes : Life!Retiring(scope) /\ Life!ListScope(p, scope)
    BY DEF Life!ContinueRetirement, Scopes, Life!Parents
  <1> DEFINE next == [pc |-> IF Life!Pending THEN "cancel" ELSE "cleanup", scope |-> scope,
                      todo |-> IF Life!Pending THEN {<<d, deployment[d].status>> : d \in Life!Cancelable} ELSE {},
                      stable |-> IF Life!Pending THEN 0 ELSE Life!Stable,
                      listed |-> ~Life!Pending /\ \E d \in Life!Ids : deployment[d].status # "absent"]
  <1>2. pass' = [pass EXCEPT ![p] = next] /\ UNCHANGED <<parent, target, deployment, serving, submission>>
    BY <1>1 DEF Life!ListScope
  <1>3. {<<d, deployment[d].status>> : d \in Life!Cancelable} \subseteq Life!Ids \X {"queued", "deploying"}
    BY DEF Life!Cancelable
  <1>4. next \in PassRecords
    <2>1. 0 \in 0 .. MaxDeployments
      BY BoundsAssumption
    <2> QED BY <1>3, <2>1, StableIs DEF PassRecords
  <1>5. next.pc # "complete" /\ next.scope = scope /\ (next.pc = "cleanup" => ~Life!Pending)
    OBVIOUS
  <1>6. next.pc = "cleanup" /\ (next.stable = 0 \/ ~next.listed) => NoneSucceeded
    <2>1. ASSUME ~Life!Pending, ~next.listed PROVE NoneSucceeded
      BY <2>1 DEF NoneSucceeded
    <2>2. ASSUME ~Life!Pending, next.stable = 0 PROVE NoneSucceeded
      BY <2>2, StableIs
    <2> QED BY <1>5, <2>1, <2>2
  <1> HIDE DEF next
  <1>7. ~Life!Pending => Calm(scope)
    BY <1>1 DEF Life!Pending, Life!Retiring, Calm, Life!Underway
  <1>8. pass'[p] = next
    BY <1>2 DEF LifeInv, LifeTypes
  <1>9. Calm(scope) => Calm(scope)'
    BY <1>2 DEF Calm
  <1>10. NoneSucceeded => NoneSucceeded'
    BY <1>2 DEF NoneSucceeded
  <1>11. RetirementPassOK(p)'
    BY <1>5, <1>6, <1>7, <1>8, <1>9, <1>10 DEF RetirementPassOK
  <1>12. Gently
    BY <1>2 DEF Gently
  <1> QED BY <1>2, <1>4, <1>11, <1>12, PassKeeps DEF LifeInv, LifeTypes

\* What a pass leaves.
LEMMA EndedPass ==
    /\ Life!NoRetirement \in PassRecords /\ Life!NoRetirement.pc = "idle"
  BY BoundsAssumption DEF Life!NoRetirement, PassRecords, Scopes

\* The loop of RetireScope: copies that still agree are canceled.
LEMMA CancelingKeeps ==
    ASSUME LifeInv, NEW p \in Passes, Life!RetireScope(p)
    PROVE  LifeInv'
  <1>0. pass \in [Passes -> PassRecords] /\ pass[p] \in PassRecords
        /\ deployment \in [Life!Ids -> DeploymentRecords] /\ pass[p].pc = "cancel"
    BY DEF LifeInv, LifeTypes, Life!RetireScope
  <1>1. PICK copy \in pass[p].todo :
           /\ IF pass[p].todo = {copy} THEN Life!EndPass(p)
                                      ELSE pass' = [pass EXCEPT ![p].todo = @ \ {copy}]
           /\ IF deployment[copy[1]].status = copy[2] THEN Life!Becomes(copy[1], "canceling")
                                                     ELSE UNCHANGED deployment
    BY DEF Life!RetireScope
  <1>2. UNCHANGED <<parent, target, serving, submission>>
    BY DEF Life!RetireScope
  <1>3. copy[1] \in Life!Ids /\ copy[2] \in {"queued", "deploying"}
    BY <1>0 DEF PassRecords
  <1>4. /\ deployment' \in [Life!Ids -> DeploymentRecords]
        /\ \A d \in Life!Ids :
              \/ deployment'[d] = deployment[d]
              \/ deployment'[d].status = "canceling" /\ deployment[d].status \in {"queued", "deploying"}
    <2>1. CASE UNCHANGED deployment
      BY <1>0, <2>1
    <2>2. CASE deployment[copy[1]].status = copy[2] /\ Life!Becomes(copy[1], "canceling")
      <3> DEFINE new == [deployment[copy[1]] EXCEPT !.status = "canceling"]
      <3>1. new \in DeploymentRecords /\ new.status = "canceling"
        BY <1>0, <1>3 DEF DeploymentRecords, Statuses
      <3>2. deployment' = [deployment EXCEPT ![copy[1]] = new]
        BY <2>2 DEF Life!Becomes
      <3> HIDE DEF new
      <3> QED BY <1>0, <1>3, <2>2, <3>1, <3>2
    <2> QED BY <1>1, <2>1, <2>2
  <1>5. Gently
    BY <1>2, <1>4 DEF Gently, Life!Underway
  <1>6. PICK next \in PassRecords : pass' = [pass EXCEPT ![p] = next] /\ next.pc \in {"idle", "cancel"}
    <2>1. CASE Life!EndPass(p)
      BY <2>1, EndedPass DEF Life!EndPass
    <2>2. CASE pass' = [pass EXCEPT ![p].todo = @ \ {copy}]
      <3> DEFINE next == [pass[p] EXCEPT !.todo = @ \ {copy}]
      <3>1. next \in PassRecords /\ next.pc = "cancel"
        BY <1>0 DEF PassRecords
      <3>2. pass' = [pass EXCEPT ![p] = next]
        BY <2>2
      <3> HIDE DEF next
      <3> QED BY <3>1, <3>2
    <2> QED BY <1>1, <2>1, <2>2
  <1>7. RetirementPassOK(p)'
    <2>1. pass'[p] = next
      BY <1>0, <1>6
    <2> QED BY <1>6, <2>1 DEF RetirementPassOK
  <1> QED BY <1>2, <1>4, <1>5, <1>6, <1>7, PassKeeps DEF LifeInv, LifeTypes

\* cleanupScopeSlots: what it leaves in the slot is no Deployment that
\* succeeded.
LEMMA CleaningKeeps ==
    ASSUME LifeInv, NEW p \in Passes, Life!CleanupScopeSlots(p)
    PROVE  LifeInv'
  <1>0. /\ pass \in [Passes -> PassRecords] /\ pass[p] \in PassRecords /\ pass[p].pc = "cleanup"
        /\ RetirementPassOK(p) /\ serving \in 0 .. MaxDeployments /\ MaxDeployments \in Nat
    BY BoundsAssumption DEF LifeInv, LifeTypes, Life!CleanupScopeSlots
  <1>1. UNCHANGED <<parent, target, deployment, submission>>
    BY DEF Life!CleanupScopeSlots
  <1>2. serving' \in {0, serving} /\ serving' \in 0 .. MaxDeployments
    BY <1>0 DEF Life!CleanupScopeSlots
  <1>3. Gently
    BY <1>1, <1>2 DEF Gently
  <1>4. CASE Life!EndPass(p)
    <2>1. pass' = [pass EXCEPT ![p] = Life!NoRetirement]
      BY <1>4 DEF Life!EndPass
    <2>2. PICK next \in PassRecords : next = Life!NoRetirement /\ next.pc = "idle"
      BY EndedPass
    <2>3. RetirementPassOK(p)'
      BY <1>0, <2>1, <2>2 DEF RetirementPassOK
    <2> QED BY <1>1, <1>2, <1>3, <2>1, <2>2, <2>3, PassKeeps DEF LifeInv, LifeTypes
  <1>5. CASE ~Life!EndPass(p)
    <2> DEFINE next == [pass[p] EXCEPT !.pc = "complete", !.stable = 0, !.listed = FALSE]
    <2>1. next \in PassRecords /\ next.pc = "complete" /\ next.scope = pass[p].scope
      <3>1. 0 \in 0 .. MaxDeployments
        BY <1>0
      <3> QED BY <1>0, <3>1 DEF PassRecords
    <2>2. pass' = [pass EXCEPT ![p] = next]
      BY <1>5 DEF Life!CleanupScopeSlots
    <2> HIDE DEF next
    <2>3. pass'[p] = next
      BY <1>0, <2>2
    <2>4. PICK scope \in Scopes : scope = pass[p].scope
      BY <1>0 DEF PassRecords
    <2>5. Calm(scope)'
      <3>1. Calm(scope)
        BY <1>0, <2>4 DEF RetirementPassOK
      <3> QED BY <1>1, <3>1 DEF Calm
    <2>6. NoneServes'
      <3>1. CASE serving' = 0
        BY <3>1 DEF NoneServes
      <3>2. CASE serving' # 0
        <4>1. \/ ~pass[p].listed \/ pass[p].stable = 0
              \/ target = "removed"
          BY <1>5, <3>2 DEF Life!CleanupScopeSlots
        <4>2. serving' = serving
          BY <1>2, <3>2
        <4>3. serving \in Life!Ids
          BY <1>0, <3>2, <4>2 DEF Life!Ids
        <4>4. CASE NoneSucceeded
          BY <1>1, <4>2, <4>3, <4>4 DEF NoneSucceeded, NoneServes
        <4>5. CASE target = "removed"
          BY <1>1, <4>2, <4>5 DEF LifeInv, GoneOK, NoneServes
        <4> QED BY <1>0, <4>1, <4>4, <4>5 DEF RetirementPassOK
      <3> QED BY <3>1, <3>2
    <2>7. RetirementPassOK(p)'
      BY <2>1, <2>3, <2>4, <2>5, <2>6 DEF RetirementPassOK
    <2> QED BY <1>1, <1>2, <1>3, <2>1, <2>2, <2>7, PassKeeps DEF LifeInv, LifeTypes
  <1> QED BY <1>4, <1>5

\* A resource ends when a pass has cleaned up its scope.
LEMMA EndingKeeps ==
    ASSUME LifeInv, NEW p \in Passes,
           \/ Life!CompleteApplicationRetirement(p) \/ Life!CompleteEnvironmentRetirement(p)
           \/ Life!DeleteRetiringRuntimeTarget(p)
    PROVE  LifeInv'
  <1>0. /\ pass[p].pc = "complete" /\ pass[p].scope \in Scopes
        /\ Calm(pass[p].scope) /\ NoneServes
        /\ parent \in [Life!Parents -> {"active", "retiring", "retired"}] /\ pass \in [Passes -> PassRecords]
    BY DEF LifeInv, LifeTypes, PassRecords, RetirementPassOK, Life!CompleteApplicationRetirement,
           Life!CompleteEnvironmentRetirement, Life!DeleteRetiringRuntimeTarget
  <1>1. UNCHANGED <<deployment, serving, submission>> /\ Life!EndPass(p)
    BY DEF Life!CompleteApplicationRetirement, Life!CompleteEnvironmentRetirement, Life!DeleteRetiringRuntimeTarget
  <1>2. pass' = [pass EXCEPT ![p] = Life!NoRetirement]
    BY <1>1 DEF Life!EndPass
  <1>3. PICK next \in PassRecords : next = Life!NoRetirement /\ next.pc = "idle"
    BY EndedPass
  <1>4. RetirementPassOK(p)'
    BY <1>0, <1>2, <1>3 DEF RetirementPassOK
  <1>5. CASE UNCHANGED target /\ \E q \in Life!Parents :
               q = pass[p].scope /\ parent' = [parent EXCEPT ![q] = "retired"]
    <2>1. PICK q \in Life!Parents : q = pass[p].scope /\ parent' = [parent EXCEPT ![q] = "retired"]
      BY <1>5
    <2>2. parent[q] # "active" /\ Calm(q)
      BY <1>0, <2>1 DEF Calm, Life!Parents
    <2>3. \A o \in Life!Parents : parent'[o] = IF o = q THEN "retired" ELSE parent[o]
      BY <1>0, <2>1
    <2>4. Gently
      BY <1>1, <1>5, <2>2, <2>3 DEF Gently
    <2>5. parent' \in [Life!Parents -> {"active", "retiring", "retired"}]
      BY <1>0, <2>1
    <2>6. \A o \in Life!Parents : parent'[o] = "retired" => parent[o] = "retired" \/ (Calm(o) /\ NoneServes)
      BY <1>0, <2>2, <2>3
    <2> QED BY <1>1, <1>2, <1>3, <1>4, <1>5, <2>4, <2>5, <2>6, PassKeeps DEF LifeInv, LifeTypes
  <1>6. CASE pass[p].scope = "target" /\ target' = "removed" /\ UNCHANGED parent
    <2>1. Calm("target") /\ target \in {"retiring", "removed"}
      BY <1>0, <1>6 DEF Calm
    <2>2. Gently
      BY <1>1, <1>6 DEF Gently
    <2> QED BY <1>0, <1>1, <1>2, <1>3, <1>4, <1>6, <2>1, <2>2, PassKeeps DEF LifeInv, LifeTypes
  <1> QED BY <1>5, <1>6
    DEF Life!CompleteApplicationRetirement, Life!CompleteEnvironmentRetirement,
        Life!DeleteRetiringRuntimeTarget, Life!Parents

\* Every step keeps the invariant.
LEMMA LifeStep ==
    ASSUME LifeInv, Life!ProductNext \/ UNCHANGED lifeVars
    PROVE  LifeInv'
  <1>1. ASSUME NEW p \in Passes, Life!RetirementPass(p) PROVE LifeInv'
    BY <1>1, ListingKeeps, CancelingKeeps, CleaningKeeps, EndingKeeps DEF Life!RetirementPass
  <1>2. ASSUME NEW s \in Submissions, Life!Request(s) PROVE LifeInv'
    BY <1>2, SubmissionsKeep
  <1> QED BY <1>1, <1>2, WorkKeeps, ResourcesKeep DEF Life!ProductNext

\* What the run checks follows.
LEMMA LifeIsQuiet ==
    ASSUME LifeInv
    PROVE  Life!ProductTypeOK /\ Life!NothingOutlivesItsResource
  <1>1. Life!ProductTypeOK
    BY DEF LifeInv, LifeTypes, Life!ProductTypeOK, DeploymentRecords, Statuses, Life!Underway, Life!Ended,
           SubmissionRecords, PassRecords
  <1>2. Life!NothingOutlivesItsResource
    <2>1. ASSUME NEW q \in Life!Parents, parent[q] = "retired"
          PROVE  /\ \A d \in Life!Ids : deployment[d].status \notin Life!Underway
                 /\ NoneServes
      BY <2>1 DEF LifeInv, GoneOK, Calm, Life!Parents
    <2>2. ASSUME target = "removed"
          PROVE  /\ \A d \in Life!Ids : deployment[d].status \notin {"deploying", "committing"}
                 /\ NoneServes
      BY <2>2 DEF LifeInv, GoneOK, Calm
    <2> QED BY <2>1, <2>2 DEF Life!NothingOutlivesItsResource, NoneServes, Life!Underway
  <1> QED BY <1>1, <1>2

-----------------------------------------------------------------------------
(* The run: each part moves by itself.                                       *)

\* The part that moves holds its invariant.
PartsInv ==
    /\ part \in {"builds", "accounts", "life", "intake", "streams"}
    /\ part = "life" => LifeInv
    /\ part = "intake" => \E chosen \in Intakes : way = {chosen} /\ IntakeInv(chosen)
    /\ part = "streams" => StreamsInv

\* What a step of requests for Builds never does.
IntakeDecides ==
    part = "intake" => \A chosen \in way :
        Intake(chosen)!DecisionStays /\ Intake(chosen)!BuildReadOnce

\* Whatever part begins, its invariant holds.
LEMMA PartsBegin == ASSUME ProductsInit PROVE PartsInv
<1>1. CASE part \in {"builds", "accounts"}
  BY <1>1 DEF PartsInv
<1>2. CASE part = "life" /\ Life!ProductInit
  BY <1>2, InitLife DEF PartsInv
<1>3. CASE part = "intake" /\ \E chosen \in Intakes : way = {chosen} /\ Intake(chosen)!IntakeInit
  BY <1>3, InitIntake DEF PartsInv
<1>4. CASE part = "streams" /\ Streams!SessionsInit
  BY <1>4, InitStreams DEF PartsInv
<1> QED BY <1>1, <1>2, <1>3, <1>4 DEF ProductsInit

\* The part that moves keeps its invariant; the others do not move.
LEMMA PartsStep ==
    ASSUME PartsInv, [ProductsNext]_productsVars
    PROVE  PartsInv' /\ IntakeDecides
<1>0. UNCHANGED <<part, way>>
  BY DEF ProductsNext, BuildSteps, LifeSteps, IntakeSteps, StreamSteps, AccountSteps, productsVars
<1>1. CASE part = "life"
  <2>1. Life!ProductNext \/ UNCHANGED lifeVars
    BY <1>1 DEF ProductsNext, BuildSteps, LifeSteps, IntakeSteps, StreamSteps, AccountSteps, productsVars
  <2>2. LifeInv'
    BY <1>1, <2>1, LifeStep DEF PartsInv
  <2> QED BY <1>0, <1>1, <2>2 DEF PartsInv, IntakeDecides
<1>2. CASE part = "intake"
  <2>1. PICK chosen \in Intakes : way = {chosen} /\ IntakeInv(chosen)
    BY <1>2 DEF PartsInv
  <2>2. Intake(chosen)!IntakeNext \/ UNCHANGED intakeVars
    BY <1>2, <2>1
    DEF ProductsNext, BuildSteps, LifeSteps, IntakeSteps, StreamSteps, AccountSteps, productsVars
  <2>3. IntakeInv(chosen)' /\ Intake(chosen)!DecisionStays /\ Intake(chosen)!BuildReadOnce
    BY <2>1, <2>2, IntakeStep
  <2> QED BY <1>0, <1>2, <2>1, <2>3 DEF PartsInv, IntakeDecides
<1>3. CASE part = "streams"
  <2>1. Streams!SessionsNext \/ UNCHANGED streamVars
    BY <1>3 DEF ProductsNext, BuildSteps, LifeSteps, IntakeSteps, StreamSteps, AccountSteps, productsVars
  <2>2. StreamsInv'
    BY <1>3, <2>1, StreamsStep DEF PartsInv
  <2> QED BY <1>0, <1>3, <2>2 DEF PartsInv, IntakeDecides
<1>4. CASE part \in {"builds", "accounts"}
  BY <1>0, <1>4 DEF PartsInv, IntakeDecides
<1> QED BY <1>1, <1>2, <1>3, <1>4 DEF PartsInv

\* A step of the run is a step of the Builds, or leaves them; so for the accounts.
LEMMA PartsMove ==
    ASSUME [ProductsNext]_productsVars
    PROVE  [Next]_vars /\ [IdentityNext]_identityVars
<1>1. CASE BuildSteps
  BY <1>1 DEF BuildSteps
<1>2. CASE LifeSteps
  BY <1>2 DEF LifeSteps, buildVars
<1>3. CASE IntakeSteps
  BY <1>3 DEF IntakeSteps, buildVars
<1>4. CASE StreamSteps
  BY <1>4 DEF StreamSteps, buildVars
<1>5. CASE AccountSteps
  BY <1>5 DEF AccountSteps, buildVars
<1>6. CASE UNCHANGED productsVars
  BY <1>6 DEF productsVars, buildVars
<1> QED BY <1>1, <1>2, <1>3, <1>4, <1>5, <1>6 DEF ProductsNext

\* A behaviour of the run is one of the Builds and one of the accounts.
THEOREM PartsRun == ProductsSpec => Init /\ [][Next]_vars /\ IdentitySpec
<1>1. ProductsInit => Init /\ IdentityInit
  BY DEF ProductsInit
<1>2. [ProductsNext]_productsVars => [Next]_vars /\ [IdentityNext]_identityVars
  BY PartsMove
<1> QED BY <1>1, <1>2, PTL DEF ProductsSpec, IdentitySpec

\* Builds, Artifacts and Releases agree in every state, whichever of workers,
\* users and retirement wrote last; what is retired is quiet; the parts keep
\* what they hold.
THEOREM ProductsInvariance == ProductsSpec => [](BuildInv /\ AccountInv /\ PartsInv)
<1>1. BuildInv /\ [Next]_vars => BuildInv'
  BY BuildStep DEF BuildStepOK
<1>2. ProductsInit => PartsInv
  BY PartsBegin
<1>3. PartsInv /\ [ProductsNext]_productsVars => PartsInv'
  BY PartsStep
<1> QED BY <1>1, <1>2, <1>3, BuildInit, AccountInvariance, PartsRun, PTL DEF ProductsSpec

\* Documents and requests hold what the code lets them hold, in every part.
THEOREM ProductsTypeOKHolds == ProductsSpec => []ProductsTypeOK
<1>1. BuildInv /\ AccountInv /\ PartsInv => ProductsTypeOK
  <2> SUFFICES ASSUME BuildInv, AccountInv, PartsInv PROVE ProductsTypeOK
    OBVIOUS
  <2>1. TypeOK /\ IdentityTypeOK
    BY DEF BuildInv, AccountInv
  <2>2. part = "life" => Life!ProductTypeOK
    BY LifeIsQuiet DEF PartsInv
  <2>3. part = "intake" => \A chosen \in way : Intake(chosen)!IntakeTypeOK
    BY IntakeIsKept DEF PartsInv
  <2>4. part = "streams" => Streams!SessionsTypeOK
    BY StreamsAreTyped DEF PartsInv
  <2>5. part \in {"builds", "accounts", "life", "intake", "streams"}
    BY DEF PartsInv
  <2> QED BY <2>1, <2>2, <2>3, <2>4, <2>5 DEF ProductsTypeOK
<1> QED BY <1>1, ProductsInvariance, PTL

\* A retired resource leaves nothing behind: no Deployment and no container of
\* one that succeeded, no Build and no Release to come, no terminal session
\* (deployment/biz/retirement.go, build/biz/retirement.go,
\* terminal/biz/usecase.go).
THEOREM RetirementIsQuietHolds == ProductsSpec => []RetirementIsQuiet
<1>1. BuildInv /\ PartsInv => RetirementIsQuiet
  BY LifeIsQuiet DEF BuildInv, PartsInv, StreamsInv, RetirementIsQuiet
<1> QED BY <1>1, ProductsInvariance, PTL

\* The Builds admitted in a window, the streams of a ticket and the sessions
\* of a user stay within their limits (ReserveBuildTriggerRate, ConsumeTicket,
\* CreateSession).
THEOREM LimitsHoldHolds == ProductsSpec => []LimitsHold
<1>1. PartsInv /\ SessionsAreLimited => LimitsHold
  BY IntakeIsKept DEF PartsInv, StreamsInv, LimitsHold
<1> QED BY <1>1, ProductsInvariance, SessionsAreLimitedHolds, PartsRun, PTL

\* What was decided stays: a cancel, the end of an invitation, the answer to a
\* webhook delivery and the Build it asked for (build/data/mongo.go,
\* identity/data/mongo.go).
THEOREM DecisionsStickHolds == ProductsSpec => DecisionsStick
<1>1. BuildInv /\ AccountInv /\ PartsInv /\ [ProductsNext]_productsVars =>
        [/\ CancelStays /\ InvitationStaysEnded
         /\ part = "intake" => \A chosen \in way :
                Intake(chosen)!DecisionStays /\ Intake(chosen)!BuildReadOnce]_productsVars
  <2> SUFFICES ASSUME BuildInv, AccountInv, PartsInv, [ProductsNext]_productsVars
               PROVE  CancelStays /\ InvitationStaysEnded /\ IntakeDecides
    BY DEF IntakeDecides
  <2>1. [Next]_vars /\ [IdentityNext]_identityVars
    BY PartsMove
  <2> QED BY <2>1, BuildStep, InvitationStep, PartsStep DEF BuildStepOK
<1> QED BY <1>1, ProductsInvariance, PTL DEF ProductsSpec, DecisionsStick

\* Artifact and Release are those of the Build that succeeded.
THEOREM BuildTellsTheTruthHolds == ProductsSpec => []BuildTellsTheTruth
<1>1. BuildInv => BuildTellsTheTruth
  BY DEF BuildInv, BuildOK, BuildTellsTheTruth, ArtifactIsTheBuilds, ReleaseAgrees
<1> QED BY <1>1, ProductsInvariance, PTL

\* No session begins, or remains, under a password that was changed before.
THEOREM SessionsFollowThePasswordHolds == ProductsSpec => []SessionsFollowThePassword
<1>1. AccountInv => SessionsFollowThePassword
  BY DEF AccountInv, SessionsFollowThePassword
<1> QED BY <1>1, ProductsInvariance, PTL

\* A retired Application has no Build that may still run and no Artifact whose
\* Release is still to come.
THEOREM RetiredIsQuietHolds == Spec => []RetiredIsQuiet
<1>1. BuildInv => RetiredIsQuiet
  BY DEF BuildInv
<1> QED BY <1>1, BuildInvariance, PTL
=============================================================================
