----------------------------- MODULE Memberships -----------------------------
(***************************************************************************)
(* One cooperative: its creation, its members and their roles, and its     *)
(* invitations.  handler[h] is an HTTP request being handled, with what it *)
(* has read so far in the local variables of the service; each action is   *)
(* one query, one transaction or one call, and requests run in between.    *)
(*                                                                         *)
(* The guards of the routes read the requester's role once more before the *)
(* services do; they refuse nothing that the services would not.  A role   *)
(* of PLATFORM_ADMIN in a membership is given only by who has it already,  *)
(* so that nobody does; VENDOR is handled as MEMBER.                       *)
(***************************************************************************)
EXTENDS Integers, FiniteSets

CONSTANTS
    Users,
    Invitations, \* tokens
    Handlers,    \* requests that the server can be handling at one time
    MaxRows,     \* bound: times that one user becomes a member
    None

ASSUME BoundsAssumption == MaxRows \in Nat
ASSUME FiniteAssumption == IsFiniteSet(Users) /\ IsFiniteSet(Handlers)

VARIABLES
    cooperative, \* "absent", or whether it has its vault
    role,        \* role of the user's membership
    row,         \* id of the user's latest membership
    invitation,
    admissions,  \* memberships that came from the invitation
    handler

vars == <<cooperative, role, row, invitation, admissions, handler>>

Roles == {"COOP_ADMIN", "MEMBER"}
Invitation == [status : {"PENDING", "ACCEPTED", "REVOKED"}, addressee : Users \cup {None},
               lapsed : BOOLEAN]
ASSUME NoneAssumption == None \notin Users \cup Roles \cup Invitation \cup Nat
Idle == [pc |-> "idle"]
Creation == [pc : {"deploy", "store"}]
Change == [pc : {"target"}, target : Users, newRole : Roles \cup {None}]
Ready == [pc : {"count", "delete", "update"}, target : Users, newRole : Roles \cup {None},
          id : Nat, saw : Roles, coopAdminCount : Nat \cup {None}]
Issuing == [pc : {"issue"}, addressee : Users \cup {None}]
Accepting == [pc : {"member", "join"}, user : Users, invitation : Invitations]
Revoking == [pc : {"authorise", "revoke"}, user : Users, invitation : Invitations]

TypeOK ==
    /\ cooperative \in {"absent", "created", "with vault"}
    /\ role \in [Users -> Roles \cup {None}]
    /\ row \in [Users -> 0..MaxRows]
    /\ invitation \in [Invitations -> Invitation \cup {None}]
    /\ admissions \in [Invitations -> Nat]
    /\ handler \in [Handlers -> {Idle} \cup Creation \cup Change \cup Ready \cup Issuing
                                \cup Accepting \cup Revoking]
    /\ \A u \in Users : role[u] # None => cooperative # "absent" /\ row[u] > 0

Init ==
    /\ cooperative = "absent"
    /\ role = [u \in Users |-> None]
    /\ row = [u \in Users |-> 0]
    /\ invitation = [i \in Invitations |-> None]
    /\ admissions = [i \in Invitations |-> 0]
    /\ handler = [h \in Handlers |-> Idle]

Goto(h, next) == handler' = [handler EXCEPT ![h] = next]
Done(h) == Goto(h, Idle)

Admins == {u \in Users : role[u] = "COOP_ADMIN"}

NewMember(u, r) ==
    /\ role[u] = None
    /\ row[u] < MaxRows
    /\ role' = [role EXCEPT ![u] = r]
    /\ row' = [row EXCEPT ![u] = @ + 1]

-----------------------------------------------------------------------------
(* CooperativesService.create: the cooperative and its first member in one
   transaction.  A second creation has the same slug and is refused. *)
Create(h, u) ==
    /\ handler[h] = Idle
    /\ cooperative = "absent"
    /\ cooperative' = "created"
    /\ NewMember(u, "COOP_ADMIN")
    /\ Goto(h, [pc |-> "deploy"])
    /\ UNCHANGED <<invitation, admissions>>

(* FactoryService.deployCooperative; an error ends the request (Abort). *)
Deploy(h) ==
    /\ handler[h].pc = "deploy"
    /\ Goto(h, [pc |-> "store"])
    /\ UNCHANGED <<cooperative, role, row, invitation, admissions>>

StoreVault(h) ==
    /\ handler[h].pc = "store"
    /\ cooperative' = "with vault"
    /\ Done(h)
    /\ UNCHANGED <<role, row, invitation, admissions>>

-----------------------------------------------------------------------------
(* MembershipsService.removeMember (newRole None) and changeRole. *)

Request(h, u, target, newRole) ==
    /\ handler[h] = Idle
    /\ role[u] = "COOP_ADMIN"
    /\ Goto(h, [pc |-> "target", target |-> target, newRole |-> newRole])
    /\ UNCHANGED <<cooperative, role, row, invitation, admissions>>

Checked(h, point, count) ==
    LET t == handler[h].target
    IN  [pc |-> point, target |-> t, newRole |-> handler[h].newRole, id |-> row[t],
         saw |-> role[t], coopAdminCount |-> count]

(* Mutant of ReadTarget: an admin is demoted like anyone else. *)
ReadTargetOnly(h) ==
    LET t == handler[h].target newRole == handler[h].newRole
    IN  /\ handler[h].pc = "target"
        /\ role[t] # None
        /\ \/ newRole = None /\ role[t] = "COOP_ADMIN" /\ Goto(h, Checked(h, "count", None))
           \/ newRole = None /\ role[t] = "MEMBER" /\ Goto(h, Checked(h, "delete", None))
           \/ newRole # None /\ Goto(h, Checked(h, "update", None))
        /\ UNCHANGED <<cooperative, role, row, invitation, admissions>>

(* Without the target there is nothing to change, and an admin is not demoted:
   what these refuse ends the request (Abort).  The count of admins before a
   demotion is therefore never reached. *)
ReadTarget(h) ==
    LET t == handler[h].target newRole == handler[h].newRole
    IN  /\ handler[h].pc = "target"
        /\ role[t] # None
        /\ \/ newRole = None /\ role[t] = "COOP_ADMIN" /\ Goto(h, Checked(h, "count", None))
           \/ newRole = None /\ role[t] = "MEMBER" /\ Goto(h, Checked(h, "delete", None))
           \/ newRole = "COOP_ADMIN" /\ Goto(h, Checked(h, "update", None))
           \/ newRole = "MEMBER" /\ role[t] = "MEMBER" /\ Goto(h, Checked(h, "update", None))
        /\ UNCHANGED <<cooperative, role, row, invitation, admissions>>

(* Mutant of CountAdmins: one admin is enough to remove an admin. *)
CountAdminsLoosely(h) ==
    /\ handler[h].pc = "count"
    /\ Cardinality(Admins) >= 1
    /\ Goto(h, [handler[h] EXCEPT !.pc = "delete", !.coopAdminCount = Cardinality(Admins)])
    /\ UNCHANGED <<cooperative, role, row, invitation, admissions>>

CountAdmins(h) ==
    /\ handler[h].pc = "count"
    /\ Cardinality(Admins) > 1
    /\ Goto(h, [handler[h] EXCEPT !.pc = "delete", !.coopAdminCount = Cardinality(Admins)])
    /\ UNCHANGED <<cooperative, role, row, invitation, admissions>>

(* The row that was read is written, whatever it holds by now; one that is gone
   ends the request. *)
Write(h, point, value) ==
    LET t == handler[h].target
    IN  /\ handler[h].pc = point
        /\ role[t] # None /\ row[t] = handler[h].id
        /\ role' = [role EXCEPT ![t] = value]
        /\ Done(h)
        /\ UNCHANGED <<cooperative, row, invitation, admissions>>

DeleteMember(h) == Write(h, "delete", None)
UpdateRole(h) == Write(h, "update", handler[h].newRole)

-----------------------------------------------------------------------------
(* InvitationsService. *)

(* sendEmailInvite has an addressee, createShareableLink has none. *)
Invite(h, u, addressee) ==
    /\ handler[h] = Idle
    /\ role[u] = "COOP_ADMIN"
    /\ Goto(h, [pc |-> "issue", addressee |-> addressee])
    /\ UNCHANGED <<cooperative, role, row, invitation, admissions>>

Issue(h) ==
    /\ handler[h].pc = "issue"
    /\ \E i \in Invitations :
        /\ invitation[i] = None
        /\ invitation' = [invitation EXCEPT ![i] =
               [status |-> "PENDING", addressee |-> handler[h].addressee, lapsed |-> FALSE]]
    /\ Done(h)
    /\ UNCHANGED <<cooperative, role, row, admissions>>

(* The 72 hours are over. *)
Lapse(i) ==
    /\ invitation[i] # None /\ ~invitation[i].lapsed
    /\ invitation' = [invitation EXCEPT ![i].lapsed = TRUE]
    /\ UNCHANGED <<cooperative, role, row, admissions, handler>>

Pending(i) == invitation[i] # None /\ invitation[i].status = "PENDING"

(* Mutant of Active: a revocation is not looked at. *)
ActiveUnlessAccepted(i) ==
    invitation[i] # None /\ invitation[i].status # "ACCEPTED" /\ ~invitation[i].lapsed

Active(i) == Pending(i) /\ ~invitation[i].lapsed

(* acceptInvitation reads the invitation... *)
Accept(h, u, i) ==
    /\ handler[h] = Idle
    /\ Active(i)
    /\ invitation[i].addressee \in {None, u}
    /\ Goto(h, [pc |-> "member", user |-> u, invitation |-> i])
    /\ UNCHANGED <<cooperative, role, row, invitation, admissions>>

(* ... then the membership... *)
CheckMember(h) ==
    /\ handler[h].pc = "member"
    /\ role[handler[h].user] = None
    /\ Goto(h, [handler[h] EXCEPT !.pc = "join"])
    /\ UNCHANGED <<cooperative, role, row, invitation, admissions>>

(* Mutant of Join: the invitation is left as it is. *)
JoinUnmarked(h) ==
    LET i == handler[h].invitation
    IN  /\ handler[h].pc = "join"
        /\ NewMember(handler[h].user, "MEMBER")
        /\ admissions' = [admissions EXCEPT ![i] = @ + 1]
        /\ Done(h)
        /\ UNCHANGED <<cooperative, invitation>>

(* Mutant of Join: an existing membership is written over. *)
JoinAgain(h) ==
    LET i == handler[h].invitation u == handler[h].user
    IN  /\ handler[h].pc = "join"
        /\ role' = [role EXCEPT ![u] = "MEMBER"]
        /\ row' = [row EXCEPT ![u] = @ + 1]
        /\ invitation' = [invitation EXCEPT ![i].status = "ACCEPTED"]
        /\ admissions' = [admissions EXCEPT ![i] = @ + 1]
        /\ Done(h)
        /\ UNCHANGED cooperative

(* ... and writes both in one transaction, whatever the invitation is by now.
   The transaction fails if the user has become a member. *)
Join(h) ==
    LET i == handler[h].invitation
    IN  /\ handler[h].pc = "join"
        /\ NewMember(handler[h].user, "MEMBER")
        /\ invitation' = [invitation EXCEPT ![i].status = "ACCEPTED"]
        /\ admissions' = [admissions EXCEPT ![i] = @ + 1]
        /\ Done(h)
        /\ UNCHANGED cooperative

(* revokeInvitation reads the invitation, then the role of the requester, and
   marks the invitation, which may have been accepted since. *)
ReadForRevocation(h, u, i) ==
    /\ handler[h] = Idle
    /\ Pending(i)
    /\ Goto(h, [pc |-> "authorise", user |-> u, invitation |-> i])
    /\ UNCHANGED <<cooperative, role, row, invitation, admissions>>

AuthoriseRevocation(h) ==
    /\ handler[h].pc = "authorise"
    /\ role[handler[h].user] = "COOP_ADMIN"
    /\ Goto(h, [handler[h] EXCEPT !.pc = "revoke"])
    /\ UNCHANGED <<cooperative, role, row, invitation, admissions>>

Revoke(h) ==
    /\ handler[h].pc = "revoke"
    /\ invitation' = [invitation EXCEPT ![handler[h].invitation].status = "REVOKED"]
    /\ Done(h)
    /\ UNCHANGED <<cooperative, role, row, admissions>>

-----------------------------------------------------------------------------
(* The request is refused, a query fails, or the server stops. *)
Abort(h) ==
    /\ handler[h] # Idle
    /\ Done(h)
    /\ UNCHANGED <<cooperative, role, row, invitation, admissions>>

Next ==
    \/ \E h \in Handlers :
        \/ \E u \in Users : Create(h, u)
        \/ \E u, target \in Users, newRole \in Roles \cup {None} : Request(h, u, target, newRole)
        \/ \E u \in Users, addressee \in Users \cup {None} : Invite(h, u, addressee)
        \/ \E u \in Users, i \in Invitations : Accept(h, u, i) \/ ReadForRevocation(h, u, i)
        \/ Deploy(h) \/ StoreVault(h)
        \/ ReadTarget(h) \/ CountAdmins(h) \/ DeleteMember(h) \/ UpdateRole(h)
        \/ Issue(h) \/ CheckMember(h) \/ Join(h) \/ AuthoriseRevocation(h) \/ Revoke(h)
        \/ Abort(h)
    \/ \E i \in Invitations : Lapse(i)

Spec == Init /\ [][Next]_vars

-----------------------------------------------------------------------------
(* What the request read of its target or of the admins does not hold any more. *)
Outdated(h) ==
    \/ handler[h].saw # role[handler[h].target]
    \/ handler[h].coopAdminCount \notin {None, Cardinality(Admins)}

(* The last admin is lost only to a race: by a request that counted another
   admin, or that saw its target as a member, before another request changed
   that.  Requests that come one after another leave an admin. *)
LastAdminLostByRaceOnly ==
    [][Admins # {} /\ Admins' = {} =>
          \E h \in Handlers : handler[h].pc \in {"delete", "update"} /\ handler'[h] = Idle
                              /\ Outdated(h)]_vars

(* No admin demotes another, except by a request that was made while that one
   was a member and is overtaken by the promotion. *)
AdminsDemotedByRaceOnly ==
    [][\A u \in Admins : role'[u] = "MEMBER" =>
          \E h \in Handlers : handler[h].pc = "update" /\ handler[h].target = u
                              /\ handler[h].saw = "MEMBER"]_vars

Accepted(i) == \E h \in Handlers : handler[h].pc \in {"member", "join"} /\ handler[h].invitation = i
Closed(i) == invitation[i] # None /\ ~Active(i) /\ ~Accepted(i)

(* Once an invitation has been used, revoked or has lapsed, and the acceptances
   under way then are over, nobody joins by it and nothing opens it again. *)
ClosedStaysClosed ==
    [][\A i \in Invitations : Closed(i) => Closed(i)' /\ admissions'[i] = admissions[i]]_vars

(* An invitation is meant for one membership.  It admits no more than one for
   each request that the server handles at one time, however often members are
   removed and the token is posted again. *)
AdmissionsAreBounded == \A i \in Invitations : admissions[i] <= Cardinality(Handlers)
=============================================================================
