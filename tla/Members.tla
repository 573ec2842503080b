-------------------------------- MODULE Members --------------------------------
(***************************************************************************)
(* The members of one Project: what a request may do (controlplane         *)
(* service/project_access.go, shared/security), and the changes of a       *)
(* membership, each checked against the version its caller had read        *)
(* (controlplane/biz/usecase.go, data/mongo.go).                           *)
(*                                                                         *)
(* A membership that is removed and created again is another one: "lives"  *)
(* counts them, and is not part of the code.                               *)
(***************************************************************************)
EXTENDS Naturals

CONSTANTS
    Requests,   \* requests, each used once
    Owner,      \* the Organization's Owner, who is no member
    Users,      \* the other users of the Organization
    MaxMemberVersion, \* bound on the versions of a membership
    MaxLife     \* bound on the memberships of a user

ASSUME MemberAssumption ==
    Owner \notin Users /\ MaxMemberVersion \in Nat \ {0} /\ MaxLife \in Nat

VARIABLES
    members, \* the document of each user in project_members, "absent" without one
    lives,   \* memberships that each user has had
    call     \* each request: where it is, its caller and what it read

memberVars == <<members, lives, call>>

Kinds == {"create", "update", "delete"}
Roles == {"maintainer", "viewer"}
NoMember == [role |-> "absent", version |-> 0]
Known(u) == members[u].role # "absent"
NoCall == [pc |-> "new", kind |-> "none", actor |-> Owner, user |-> Owner, role |-> "absent",
           seen |-> NoMember, read |-> 0]

Memberships == [role : Roles \cup {"absent"}, version : 0..MaxMemberVersion]

MemberTypeOK ==
    /\ members \in [Users -> Memberships]
    /\ lives \in [Users -> 0..MaxLife]
    /\ call \in [Requests -> [pc : {"new", "seen", "allowed", "read", "done"}, kind : Kinds \cup {"none"},
                              actor : Users \cup {Owner}, user : Users \cup {Owner},
                              role : Roles \cup {"absent"}, seen : Memberships,
                              read : 0..MaxMemberVersion]]

MemberInit ==
    /\ members = [u \in Users |-> NoMember]
    /\ lives = [u \in Users |-> 0]
    /\ call = [r \in Requests |-> NoCall]

\* Principal.Require(project_member.manage) under the role that
\* ProjectAccess.Authorize resolves for this request: an Owner may, a maintainer
\* may, everyone else gets 403 or 404.
Resolved(u) == IF u = Owner THEN "owner" ELSE members[u].role
Manages(u) == Resolved(u) \in {"owner", "maintainer"}
Ends(r) == call' = [call EXCEPT ![r].pc = "done"]

\* The caller reads the list of members: what it sends back later is the version
\* it saw.
ListProjectMembers(r, kind, actor, user, role) ==
    /\ call[r].pc = "new" /\ actor # user
    /\ actor \in Users => Known(actor)
    /\ (kind = "create") <=> ~Known(user)
    /\ call' = [call EXCEPT ![r] = [pc |-> "seen", kind |-> kind, actor |-> actor, user |-> user,
                                    role |-> role, seen |-> members[user], read |-> 0]]
    /\ UNCHANGED <<members, lives>>

\* The request arrives: its caller's role is read once.
Authorize(r) ==
    /\ call[r].pc = "seen"
    /\ IF Manages(call[r].actor) THEN call' = [call EXCEPT ![r].pc = "allowed"] ELSE Ends(r)
    /\ UNCHANGED <<members, lives>>

\* GetProjectMember, and ChangeRole on what it returned.
GetProjectMember(r) ==
    /\ call[r].pc = "allowed" /\ call[r].kind = "update"
    /\ IF ~Known(call[r].user) THEN Ends(r)
       ELSE call' = [call EXCEPT ![r].pc = "read", ![r].read = members[call[r].user].version]
    /\ UNCHANGED <<members, lives>>

CreateProjectMember(r) ==
    LET u == call[r].user IN
    /\ call[r].pc = "allowed" /\ call[r].kind = "create"
    /\ IF Known(u) THEN UNCHANGED <<members, lives>>
       ELSE /\ lives[u] < MaxLife
            /\ lives' = [lives EXCEPT ![u] = @ + 1]
            /\ members' = [members EXCEPT ![u] = [role |-> call[r].role, version |-> 1]]
    /\ Ends(r)

\* Mistake: the filter names the user only.
MatchesUser(r) == Known(call[r].user)

\* The filter of the two writes: project, user and expected_version.
StillSeen(r) == Known(call[r].user) /\ members[call[r].user].version = call[r].seen.version

\* The stored version is the one read plus one, not the one matched plus one.
UpdateProjectMember(r) ==
    LET u == call[r].user IN
    /\ call[r].pc = "read" /\ call[r].read < MaxMemberVersion
    /\ members' = IF StillSeen(r)
                  THEN [members EXCEPT ![u].role = call[r].role, ![u].version = call[r].read + 1]
                  ELSE members
    /\ Ends(r)
    /\ UNCHANGED lives

DeleteProjectMember(r) ==
    /\ call[r].pc = "allowed" /\ call[r].kind = "delete"
    /\ members' = IF StillSeen(r) THEN [members EXCEPT ![call[r].user] = NoMember] ELSE members
    /\ Ends(r)
    /\ UNCHANGED lives

MemberNext ==
    \E r \in Requests :
        \/ \E kind \in Kinds, actor \in Users \cup {Owner}, user \in Users, role \in Roles :
             ListProjectMembers(r, kind, actor, user, role)
        \/ Authorize(r) \/ GetProjectMember(r)
        \/ CreateProjectMember(r) \/ UpdateProjectMember(r) \/ DeleteProjectMember(r)

MemberSpec == MemberInit /\ [][MemberNext]_memberVars

-----------------------------------------------------------------------------
(* Properties.                                                             *)

\* A request that changes or removes a membership found the role and version its
\* caller had seen, as long as the user has had one membership only: of two
\* managers who read the same list one is obeyed (usecase.go:304, the filter of
\* mongo.go:214), although the stored version is counted from another reading.
ChangesWhatWasSeen ==
    \A r \in Requests :
       LET u == call[r].user IN
       call[r].pc # "done" /\ call'[r].pc = "done" /\ call[r].seen # NoMember
         /\ members'[u] # members[u] /\ lives[u] = 1
       => members[u] = call[r].seen

ChangeIsSeen == [][ChangesWhatWasSeen]_memberVars

\* The same for every membership: a change that the caller had not seen is never
\* overwritten (docs/project-members.md:55).
NothingIsOverwritten ==
    [][\A r \in Requests :
          LET u == call[r].user IN
          call[r].pc # "done" /\ call'[r].pc = "done" /\ call[r].seen # NoMember
            /\ members'[u] # members[u]
          => members[u] = call[r].seen]_memberVars
=============================================================================
