-------------------------- MODULE MembershipsProofs --------------------------
(* What holds of Memberships for every value of the constants. *)
EXTENDS Memberships, FiniteSetTheorems, TLAPS

-----------------------------------------------------------------------------
(* The requests in progress, and what each kind of them knows. *)

Handling == {Idle} \cup Creation \cup Change \cup Ready \cup Issuing \cup Accepting \cup Revoking

LEMMA HandlingCases ==
    ASSUME NEW request \in Handling
    PROVE  /\ request.pc \in {"deploy", "store"} => request \in Creation
           /\ request.pc = "target" => request \in Change
           /\ request.pc \in {"count", "delete", "update"} => request \in Ready
           /\ request.pc = "issue" => request \in Issuing
           /\ request.pc \in {"member", "join"} => request \in Accepting
           /\ request.pc \in {"authorise", "revoke"} => request \in Revoking
  BY DEF Handling, Idle, Creation, Change, Ready, Issuing, Accepting, Revoking

LEMMA HandlerCases ==
    ASSUME TypeOK, NEW h \in Handlers
    PROVE  /\ handler[h] \in Handling
           /\ handler[h].pc \in {"deploy", "store"} => handler[h] \in Creation
           /\ handler[h].pc = "target" => handler[h] \in Change
           /\ handler[h].pc \in {"count", "delete", "update"} => handler[h] \in Ready
           /\ handler[h].pc = "issue" => handler[h] \in Issuing
           /\ handler[h].pc \in {"member", "join"} => handler[h] \in Accepting
           /\ handler[h].pc \in {"authorise", "revoke"} => handler[h] \in Revoking
  <1>1. handler[h] \in Handling
    BY DEF TypeOK, Handling
  <1>2. QED
    BY <1>1, HandlingCases

LEMMA GotoType ==
    ASSUME TypeOK, NEW h \in Handlers, NEW next \in Handling, Goto(h, next)
    PROVE  /\ handler' \in [Handlers -> Handling]
           /\ handler'[h] = next
           /\ \A g \in Handlers \ {h} : handler'[g] = handler[g]
  BY DEF TypeOK, Goto, Handling

LEMMA CheckedType ==
    ASSUME TypeOK, NEW h \in Handlers, handler[h].pc = "target",
           role[handler[h].target] # None, NEW point \in {"count", "delete", "update"}
    PROVE  Checked(h, point, None) \in Ready
  <1>1. handler[h].target \in Users /\ handler[h].newRole \in Roles \cup {None}
    BY HandlerCases DEF Change
  <1>2. PICK t \in Users : t = handler[h].target
    BY <1>1
  <1>3. role[t] \in Roles /\ row[t] \in Nat
    <2>1. role[t] \in Roles \cup {None} /\ row[t] \in 0..MaxRows
      BY DEF TypeOK
    <2>2. QED
      BY <1>2, <2>1, BoundsAssumption
  <1>4. PICK newRole \in Roles \cup {None} : newRole = handler[h].newRole
    BY <1>1
  <1>5. PICK saw \in Roles, id \in Nat : saw = role[t] /\ id = row[t]
    BY <1>3
  <1>6. Checked(h, point, None) = [pc |-> point, target |-> t, newRole |-> newRole, id |-> id,
                                   saw |-> saw, coopAdminCount |-> None]
    BY <1>2, <1>4, <1>5 DEF Checked
  <1>7. QED
    BY <1>6 DEF Ready

(* Before the cooperative is created nothing else is. *)
Empty ==
    cooperative = "absent" =>
        /\ \A u \in Users : role[u] = None
        /\ \A i \in Invitations : invitation[i] = None
        /\ \A h \in Handlers : handler[h] = Idle

(* An invitation that a request names is one. *)
Naming == {"member", "join", "authorise", "revoke"}
Known ==
    \A h \in Handlers : handler[h].pc \in Naming => invitation[handler[h].invitation] # None

-----------------------------------------------------------------------------
LEMMA InitType == Init => TypeOK /\ Empty /\ Known
  BY BoundsAssumption DEF Init, TypeOK, Empty, Known, Naming, Idle

(* The two kinds of rows that a request writes. *)
LEMMA NewMemberType ==
    ASSUME TypeOK, NEW u \in Users, NEW r \in Roles, NewMember(u, r), cooperative' # "absent"
    PROVE  /\ role' \in [Users -> Roles \cup {None}]
           /\ row' \in [Users -> 0..MaxRows]
           /\ \A v \in Users : role'[v] # None => cooperative' # "absent" /\ row'[v] > 0
  <1>1. row[u] \in 0..MaxRows /\ row[u] < MaxRows
    BY DEF NewMember, TypeOK
  <1>2. row[u] + 1 \in 0..MaxRows /\ row[u] + 1 > 0
    BY <1>1, BoundsAssumption
  <1>3. role' = [role EXCEPT ![u] = r] /\ row' = [row EXCEPT ![u] = row[u] + 1]
    BY DEF NewMember
  <1>4. QED
    BY <1>2, <1>3 DEF TypeOK

LEMMA WriteType ==
    ASSUME TypeOK, NEW h \in Handlers, NEW point \in {"delete", "update"},
           NEW value \in Roles \cup {None}, Write(h, point, value)
    PROVE  TypeOK'
  <1>1. handler[h].target \in Users
    BY HandlerCases DEF Write, Ready
  <1>2. handler' \in [Handlers -> Handling]
    BY GotoType DEF Write, Done, Handling
  <1>3. QED
    BY <1>1, <1>2 DEF Write, TypeOK, Handling

(* A step that changes nothing but where a request is. *)
Rows == <<cooperative, role, row, invitation, admissions>>
Moves(h, next) == Goto(h, next) /\ UNCHANGED Rows

LEMMA MovesType ==
    ASSUME TypeOK, NEW h \in Handlers, NEW next \in Handling, Moves(h, next)
    PROVE  TypeOK'
  BY GotoType DEF Moves, Rows, TypeOK, Handling

(* What each step of a request that writes no row leaves in its place. *)
LEMMA RequestMoves ==
    ASSUME TypeOK, NEW h \in Handlers, NEW u \in Users, NEW target \in Users,
           NEW newRole \in Roles \cup {None}, Request(h, u, target, newRole)
    PROVE  /\ Moves(h, [pc |-> "target", target |-> target, newRole |-> newRole])
           /\ [pc |-> "target", target |-> target, newRole |-> newRole] \in Change
           /\ handler[h] = Idle /\ role[u] # None
  BY NoneAssumption DEF Request, Moves, Rows, Change, Roles

LEMMA ReadTargetMoves ==
    ASSUME TypeOK, NEW h \in Handlers, ReadTarget(h)
    PROVE  \E next \in Ready :
              /\ Moves(h, next)
              /\ next.pc = "delete" => next.saw = "MEMBER"
              /\ next.pc = "update" /\ next.newRole = "MEMBER" => next.saw = "MEMBER"
              /\ next.pc = "update" => next.newRole # None
  <1> DEFINE t == handler[h].target
  <1>1. handler[h].pc = "target" /\ role[t] # None /\ UNCHANGED Rows
    BY DEF ReadTarget, Rows
  <1>2. ASSUME NEW point \in {"count", "delete", "update"}
        PROVE  /\ Checked(h, point, None) \in Ready
               /\ Checked(h, point, None).pc = point
               /\ Checked(h, point, None).saw = role[t]
               /\ Checked(h, point, None).newRole = handler[h].newRole
    BY <1>1, CheckedType DEF Checked
  <1>3. CASE Goto(h, Checked(h, "count", None))
    <2>1. Checked(h, "count", None).pc = "count" /\ Checked(h, "count", None) \in Ready
      BY <1>2
    <2>2. QED
      BY <1>1, <1>3, <2>1 DEF Moves
  <1>4. CASE role[t] = "MEMBER" /\ Goto(h, Checked(h, "delete", None))
    <2>1. /\ Checked(h, "delete", None).pc = "delete" /\ Checked(h, "delete", None) \in Ready
          /\ Checked(h, "delete", None).saw = role[t]
      BY <1>2
    <2>2. QED
      BY <1>1, <1>4, <2>1 DEF Moves
  <1>5. CASE /\ handler[h].newRole # None
             /\ handler[h].newRole = "MEMBER" => role[t] = "MEMBER"
             /\ Goto(h, Checked(h, "update", None))
    <2>1. /\ Checked(h, "update", None).pc = "update" /\ Checked(h, "update", None) \in Ready
          /\ Checked(h, "update", None).saw = role[t]
          /\ Checked(h, "update", None).newRole = handler[h].newRole
      BY <1>2
    <2>2. QED
      BY <1>1, <1>5, <2>1 DEF Moves
  <1>6. QED
    BY <1>3, <1>4, <1>5, NoneAssumption DEF ReadTarget, Roles

LEMMA CountAdminsMoves ==
    ASSUME TypeOK, NEW h \in Handlers, CountAdmins(h)
    PROVE  \E next \in Ready :
              /\ Moves(h, next)
              /\ next.pc = "delete"
              /\ next.coopAdminCount \in Nat /\ next.coopAdminCount > 1
  <1>1. Cardinality(Admins) \in Nat /\ Cardinality(Admins) > 1
    BY FiniteAssumption, FS_Subset, FS_CardinalityType DEF Admins, CountAdmins
  <1>2. handler[h] \in Ready
    BY HandlerCases DEF CountAdmins
  <1>3. PICK count \in Nat : count = Cardinality(Admins)
    BY <1>1
  <1>4. \A b \in Ready : /\ [b EXCEPT !.pc = "delete", !.coopAdminCount = count] \in Ready
                         /\ [b EXCEPT !.pc = "delete", !.coopAdminCount = count].pc = "delete"
                         /\ [b EXCEPT !.pc = "delete", !.coopAdminCount = count].coopAdminCount
                              = count
    BY DEF Ready
  <1>5. Moves(h, [handler[h] EXCEPT !.pc = "delete", !.coopAdminCount = count])
    BY <1>3 DEF CountAdmins, Moves, Rows
  <1>6. QED
    BY <1>1, <1>2, <1>3, <1>4, <1>5

LEMMA InviteMoves ==
    ASSUME TypeOK, NEW h \in Handlers, NEW u \in Users, NEW addressee \in Users \cup {None},
           Invite(h, u, addressee)
    PROVE  /\ Moves(h, [pc |-> "issue", addressee |-> addressee])
           /\ [pc |-> "issue", addressee |-> addressee] \in Issuing
           /\ handler[h] = Idle /\ role[u] # None
  BY NoneAssumption DEF Invite, Moves, Rows, Issuing, Roles

LEMMA AcceptMoves ==
    ASSUME TypeOK, NEW h \in Handlers, NEW u \in Users, NEW i \in Invitations, Accept(h, u, i)
    PROVE  /\ Moves(h, [pc |-> "member", user |-> u, invitation |-> i])
           /\ [pc |-> "member", user |-> u, invitation |-> i] \in Accepting
           /\ handler[h] = Idle /\ Active(i) /\ invitation[i] # None
  BY DEF Accept, Moves, Rows, Accepting, Active, Pending

LEMMA CheckMemberMoves ==
    ASSUME TypeOK, NEW h \in Handlers, CheckMember(h)
    PROVE  \E next \in Accepting :
              /\ Moves(h, next)
              /\ next.pc = "join" /\ next.invitation = handler[h].invitation
  <1>1. handler[h] \in Accepting
    BY HandlerCases DEF CheckMember
  <1>2. \A b \in Accepting : /\ [b EXCEPT !.pc = "join"] \in Accepting
                             /\ [b EXCEPT !.pc = "join"].pc = "join"
                             /\ [b EXCEPT !.pc = "join"].invitation = b.invitation
    BY DEF Accepting
  <1>3. QED
    BY <1>1, <1>2 DEF CheckMember, Moves, Rows

LEMMA RevocationMoves ==
    ASSUME TypeOK, Known, NEW h \in Handlers,
           \/ \E u \in Users, i \in Invitations : ReadForRevocation(h, u, i)
           \/ AuthoriseRevocation(h)
    PROVE  \E next \in Revoking : Moves(h, next) /\ invitation[next.invitation] # None
  <1>1. ASSUME NEW u \in Users, NEW i \in Invitations, ReadForRevocation(h, u, i)
        PROVE  \E next \in Revoking : Moves(h, next) /\ invitation[next.invitation] # None
    <2> DEFINE next == [pc |-> "authorise", user |-> u, invitation |-> i]
    <2>1. next \in Revoking /\ next.invitation = i
      BY DEF Revoking
    <2>2. invitation[i] # None /\ Moves(h, next)
      BY <1>1 DEF ReadForRevocation, Pending, Moves, Rows
    <2> HIDE DEF next
    <2>3. QED
      BY <2>1, <2>2
  <1>2. CASE AuthoriseRevocation(h)
    <2>1. handler[h] \in Revoking /\ invitation[handler[h].invitation] # None
      BY <1>2, HandlerCases DEF AuthoriseRevocation, Known, Naming
    <2>2. \A b \in Revoking : /\ [b EXCEPT !.pc = "revoke"] \in Revoking
                              /\ [b EXCEPT !.pc = "revoke"].invitation = b.invitation
      BY DEF Revoking
    <2>3. Moves(h, [handler[h] EXCEPT !.pc = "revoke"])
      BY <1>2 DEF AuthoriseRevocation, Moves, Rows
    <2>4. QED
      BY <2>1, <2>2, <2>3
  <1>3. QED
    BY <1>1, <1>2

-----------------------------------------------------------------------------
(* The steps that only move a request. *)
Asks(h) ==
    \/ \E u, target \in Users, newRole \in Roles \cup {None} : Request(h, u, target, newRole)
    \/ \E u \in Users, addressee \in Users \cup {None} : Invite(h, u, addressee)
    \/ \E u \in Users, i \in Invitations : Accept(h, u, i)
    \/ \E u \in Users, i \in Invitations : ReadForRevocation(h, u, i)
    \/ AuthoriseRevocation(h)
    \/ Deploy(h) \/ ReadTarget(h) \/ CountAdmins(h) \/ CheckMember(h) \/ Abort(h)

(* A removal or a demotion was decided on a member, or on a count of admins. *)
Decided(request) ==
    /\ request.pc = "delete" =>
          \/ request.saw = "MEMBER"
          \/ request.coopAdminCount \in Nat /\ request.coopAdminCount > 1
    /\ request.pc = "update" =>
          request.newRole # None /\ (request.newRole = "MEMBER" => request.saw = "MEMBER")

(* An acceptance goes on, or begins with an invitation that is active. *)
Joining(request, i) == request.pc \in {"member", "join"} /\ request.invitation = i

Follows(h, next) ==
    /\ next.pc \in Naming => invitation[next.invitation] # None
    /\ \A i \in Invitations : Joining(next, i) => Active(i) \/ Joining(handler[h], i)
    /\ Decided(next)

LEMMA AsksMoves ==
    ASSUME TypeOK, Known, NEW h \in Handlers, Asks(h)
    PROVE  \E next \in Handling : Moves(h, next) /\ Follows(h, next)
  <1>1. CASE \E u, target \in Users, newRole \in Roles \cup {None} : Request(h, u, target, newRole)
    <2>1. \E next \in Change : Moves(h, next)
      BY <1>1, RequestMoves
    <2>2. \A next \in Change : next \in Handling /\ Follows(h, next)
      BY DEF Handling, Change, Naming, Joining, Decided, Follows
    <2>3. QED
      BY <2>1, <2>2
  <1>2. CASE \E u \in Users, addressee \in Users \cup {None} : Invite(h, u, addressee)
    <2>1. \E next \in Issuing : Moves(h, next)
      BY <1>2, InviteMoves
    <2>2. \A next \in Issuing : next \in Handling /\ Follows(h, next)
      BY DEF Handling, Issuing, Naming, Joining, Decided, Follows
    <2>3. QED
      BY <2>1, <2>2
  <1>3. CASE \E u \in Users, i \in Invitations : Accept(h, u, i)
    <2>1. PICK u \in Users, i \in Invitations : Accept(h, u, i)
      BY <1>3
    <2> DEFINE next == [pc |-> "member", user |-> u, invitation |-> i]
    <2>2. /\ Moves(h, next) /\ next \in Handling
          /\ invitation[i] # None /\ Active(i)
      BY <2>1, AcceptMoves DEF Handling
    <2>3. next.invitation = i /\ next.pc = "member"
      OBVIOUS
    <2> HIDE DEF next
    <2>4. Follows(h, next)
      BY <2>2, <2>3 DEF Follows, Joining, Decided
    <2>5. QED
      BY <2>2, <2>4
  <1>4. CASE \/ \E u \in Users, i \in Invitations : ReadForRevocation(h, u, i)
             \/ AuthoriseRevocation(h)
    <2>1. PICK next \in Revoking : Moves(h, next) /\ invitation[next.invitation] # None
      BY <1>4, RevocationMoves
    <2>2. next \in Handling /\ Follows(h, next)
      BY <2>1 DEF Handling, Revoking, Joining, Decided, Follows
    <2>3. QED
      BY <2>1, <2>2
  <1>5. CASE Deploy(h)
    <2>1. [pc |-> "store"] \in Handling
      BY DEF Handling, Creation
    <2>2. Follows(h, [pc |-> "store"])
      BY DEF Follows, Naming, Joining, Decided
    <2>3. QED
      BY <1>5, <2>1, <2>2 DEF Deploy, Moves, Rows
  <1>6. CASE ReadTarget(h)
    <2>1. PICK next \in Ready :
              /\ Moves(h, next)
              /\ next.pc = "delete" => next.saw = "MEMBER"
              /\ next.pc = "update" /\ next.newRole = "MEMBER" => next.saw = "MEMBER"
              /\ next.pc = "update" => next.newRole # None
      BY <1>6, ReadTargetMoves
    <2>2. next \in Handling /\ Follows(h, next)
      BY <2>1 DEF Handling, Ready, Naming, Joining, Decided, Follows
    <2>3. QED
      BY <2>1, <2>2
  <1>7. CASE CountAdmins(h)
    <2>1. PICK next \in Ready :
              /\ Moves(h, next)
              /\ next.pc = "delete"
              /\ next.coopAdminCount \in Nat /\ next.coopAdminCount > 1
      BY <1>7, CountAdminsMoves
    <2>2. next \in Handling /\ Follows(h, next)
      BY <2>1 DEF Handling, Naming, Joining, Decided, Follows
    <2>3. QED
      BY <2>1, <2>2
  <1>8. CASE CheckMember(h)
    <2>1. invitation[handler[h].invitation] # None /\ handler[h].pc = "member"
      BY <1>8 DEF CheckMember, Known, Naming
    <2>2. PICK next \in Accepting :
              Moves(h, next) /\ next.pc = "join" /\ next.invitation = handler[h].invitation
      BY <1>8, CheckMemberMoves
    <2>3. next \in Handling /\ Follows(h, next)
      BY <2>1, <2>2 DEF Handling, Joining, Decided, Follows
    <2>4. QED
      BY <2>2, <2>3
  <1>9. CASE Abort(h)
    <2>1. Idle \in Handling /\ Follows(h, Idle)
      BY DEF Handling, Idle, Naming, Joining, Decided, Follows
    <2>2. QED
      BY <1>9, <2>1 DEF Abort, Done, Moves, Rows
  <1>10. QED
    BY <1>1, <1>2, <1>3, <1>4, <1>5, <1>6, <1>7, <1>8, <1>9 DEF Asks

(* None of them comes before the cooperative. *)
LEMMA AsksPresent ==
    ASSUME TypeOK, Empty, NEW h \in Handlers, Asks(h)
    PROVE  cooperative # "absent"
  <1>1. CASE handler[h] # Idle
    BY <1>1 DEF Empty
  <1>2. CASE handler[h] = Idle
    <2>1. \/ \E u \in Users : role[u] = "COOP_ADMIN"
          \/ \E i \in Invitations : invitation[i] # None
      <3>1. ~AuthoriseRevocation(h) /\ ~Deploy(h) /\ ~ReadTarget(h)
        BY <1>2 DEF AuthoriseRevocation, Deploy, ReadTarget, Idle
      <3>2. ~CountAdmins(h) /\ ~CheckMember(h) /\ ~Abort(h)
        BY <1>2 DEF CountAdmins, CheckMember, Abort, Idle
      <3>3. QED
        BY <3>1, <3>2 DEF Asks, Request, Invite, Accept, ReadForRevocation, Active, Pending
    <2>2. QED
      BY <2>1, NoneAssumption DEF Empty, Roles
  <1>3. QED
    BY <1>1, <1>2

LEMMA NextCases ==
    ASSUME [Next]_vars
    PROVE  \/ \E h \in Handlers :
               \/ Asks(h) \/ StoreVault(h) \/ DeleteMember(h) \/ UpdateRole(h)
               \/ Issue(h) \/ Join(h) \/ Revoke(h)
               \/ \E u \in Users : Create(h, u)
           \/ \E i \in Invitations : Lapse(i)
           \/ UNCHANGED vars
  BY Zenon DEF Next, Asks

LEMMA NextType == TypeOK /\ Empty /\ Known /\ [Next]_vars => TypeOK'
  <1> SUFFICES ASSUME TypeOK, Empty, Known, [Next]_vars PROVE TypeOK'
    OBVIOUS
  <1>a. \A h \in Handlers : Done(h) => handler' \in [Handlers -> Handling]
    BY GotoType DEF Done, Handling
  <1>b. \A h \in Handlers : handler[h].pc \in {"store", "join"} => cooperative # "absent"
    BY DEF Empty, Idle
  <1>1. ASSUME NEW h \in Handlers, Asks(h) PROVE TypeOK'
    BY <1>1, AsksMoves, MovesType
  <1>2. ASSUME NEW h \in Handlers, StoreVault(h) PROVE TypeOK'
    BY <1>a, <1>b, <1>2 DEF StoreVault, TypeOK, Handling
  <1>3. ASSUME NEW h \in Handlers, DeleteMember(h) PROVE TypeOK'
    BY <1>3, WriteType DEF DeleteMember
  <1>4. ASSUME NEW h \in Handlers, UpdateRole(h) PROVE TypeOK'
    <2>1. handler[h].newRole \in Roles \cup {None}
      BY <1>4, HandlerCases DEF UpdateRole, Write, Ready
    <2>2. QED
      BY <1>4, <2>1, WriteType DEF UpdateRole
  <1>5. ASSUME NEW h \in Handlers, Issue(h) PROVE TypeOK'
    <2>1. PICK i \in Invitations :
             invitation' = [invitation EXCEPT ![i] =
               [status |-> "PENDING", addressee |-> handler[h].addressee, lapsed |-> FALSE]]
      BY <1>5 DEF Issue
    <2>2. handler[h].addressee \in Users \cup {None}
      BY <1>5, HandlerCases DEF Issue, Issuing
    <2>3. [status |-> "PENDING", addressee |-> handler[h].addressee, lapsed |-> FALSE]
             \in Invitation
      BY <2>2 DEF Invitation
    <2>4. invitation' \in [Invitations -> Invitation \cup {None}]
      BY <2>1, <2>3 DEF TypeOK
    <2>5. QED
      BY <1>a, <1>5, <2>4 DEF Issue, TypeOK, Handling
  <1>6. ASSUME NEW h \in Handlers, Join(h) PROVE TypeOK'
    <2>1. PICK i \in Invitations : i = handler[h].invitation
      BY <1>6, HandlerCases DEF Join, Accepting
    <2>2. handler[h].user \in Users
      BY <1>6, HandlerCases DEF Join, Accepting
    <2>3. invitation' \in [Invitations -> Invitation \cup {None}]
      <3>1. \A v \in Invitation : [v EXCEPT !.status = "ACCEPTED"] \in Invitation
        BY DEF Invitation
      <3>2. invitation[i] # None
        BY <1>6, <2>1 DEF Join, Known, Naming
      <3>3. QED
        BY <1>6, <2>1, <3>1, <3>2 DEF Join, TypeOK
    <2>4. admissions' \in [Invitations -> Nat]
      <3>1. admissions' = [admissions EXCEPT ![i] = @ + 1]
        BY <1>6, <2>1 DEF Join
      <3>2. admissions \in [Invitations -> Nat]
        BY DEF TypeOK
      <3>3. QED
        BY <3>1, <3>2
    <2>5. /\ role' \in [Users -> Roles \cup {None}]
          /\ row' \in [Users -> 0..MaxRows]
          /\ \A v \in Users : role'[v] # None => cooperative' # "absent" /\ row'[v] > 0
      BY <1>b, <1>6, <2>2, NewMemberType DEF Join, Roles
    <2>6. QED
      BY <1>a, <1>6, <2>3, <2>4, <2>5 DEF Join, TypeOK, Handling
  <1>7. ASSUME NEW h \in Handlers, Revoke(h) PROVE TypeOK'
    <2>1. PICK i \in Invitations : i = handler[h].invitation
      BY <1>7, HandlerCases DEF Revoke, Revoking
    <2>2. invitation' \in [Invitations -> Invitation \cup {None}]
      <3>1. \A v \in Invitation : [v EXCEPT !.status = "REVOKED"] \in Invitation
        BY DEF Invitation
      <3>2. invitation[i] # None
        BY <1>7, <2>1 DEF Revoke, Known, Naming
      <3>3. QED
        BY <1>7, <2>1, <3>1, <3>2 DEF Revoke, TypeOK
    <2>3. QED
      BY <1>a, <1>7, <2>2 DEF Revoke, TypeOK, Handling
  <1>8. ASSUME NEW h \in Handlers, NEW u \in Users, Create(h, u) PROVE TypeOK'
    <2>1. [pc |-> "deploy"] \in Handling
      BY DEF Handling, Creation
    <2>2. handler' \in [Handlers -> Handling]
      BY <1>8, <2>1, GotoType DEF Create
    <2>3. /\ role' \in [Users -> Roles \cup {None}]
          /\ row' \in [Users -> 0..MaxRows]
          /\ \A v \in Users : role'[v] # None => cooperative' # "absent" /\ row'[v] > 0
      BY <1>8, NewMemberType DEF Create, Roles
    <2>4. QED
      BY <1>8, <2>2, <2>3 DEF Create, TypeOK, Handling
  <1>9. ASSUME NEW i \in Invitations, Lapse(i) PROVE TypeOK'
    <2>1. \A v \in Invitation : [v EXCEPT !.lapsed = TRUE] \in Invitation
      BY DEF Invitation
    <2>2. invitation' \in [Invitations -> Invitation \cup {None}]
      BY <1>9, <2>1 DEF Lapse, TypeOK
    <2>3. QED
      BY <1>9, <2>2 DEF Lapse, TypeOK
  <1>10. CASE UNCHANGED vars
    BY <1>10 DEF vars, TypeOK
  <1>11. QED
    BY <1>1, <1>2, <1>3, <1>4, <1>5, <1>6, <1>7, <1>8, <1>9, <1>10, NextCases

(* The cooperative stays, and so does every invitation. *)
LEMMA PresentNext == TypeOK /\ Empty /\ Known /\ [Next]_vars => Empty'
  <1> SUFFICES ASSUME TypeOK, Empty, Known, [Next]_vars, cooperative' = "absent"
               PROVE  /\ cooperative = "absent"
                      /\ UNCHANGED <<role, invitation, handler>>
    BY DEF Empty
  <1>1. ASSUME NEW h \in Handlers, Asks(h) PROVE FALSE
    BY <1>1, AsksPresent, AsksMoves DEF Moves, Rows
  <1>2. ASSUME NEW h \in Handlers,
               \/ StoreVault(h) \/ DeleteMember(h) \/ UpdateRole(h)
               \/ Issue(h) \/ Join(h) \/ Revoke(h)
               \/ \E u \in Users : Create(h, u)
        PROVE  FALSE
    <2>1. handler[h] = Idle => \E u \in Users : Create(h, u)
      BY <1>2 DEF StoreVault, DeleteMember, UpdateRole, Write, Issue, Join, Revoke, Idle
    <2>2. cooperative = "absent"
      BY <1>2 DEF StoreVault, DeleteMember, UpdateRole, Write, Issue, Join, Revoke, Create
    <2>3. QED
      BY <2>1, <2>2 DEF Empty, Create
  <1>3. ASSUME NEW i \in Invitations, Lapse(i) PROVE FALSE
    BY <1>3 DEF Lapse, Empty
  <1>4. CASE UNCHANGED vars
    BY <1>4 DEF vars
  <1>5. QED
    BY <1>1, <1>2, <1>3, <1>4, NextCases

(* No step but these moves a request. *)
LEMMA RequestsFollow ==
    ASSUME TypeOK, Known, [Next]_vars, NEW g \in Handlers
    PROVE  handler'[g] = handler[g] \/ Follows(g, handler'[g])
  <1>a. Follows(g, Idle) /\ Follows(g, [pc |-> "deploy"])
    BY DEF Idle, Follows, Naming, Joining, Decided
  <1>1. ASSUME NEW h \in Handlers, Asks(h) PROVE handler'[g] = handler[g] \/ Follows(g, handler'[g])
    <2>1. PICK next \in Handling : Moves(h, next) /\ Follows(h, next)
      BY <1>1, AsksMoves
    <2>2. handler'[h] = next /\ \A other \in Handlers \ {h} : handler'[other] = handler[other]
      BY <2>1, GotoType DEF Moves
    <2>3. QED
      BY <2>1, <2>2
  <1>2. ASSUME NEW h \in Handlers, Done(h) PROVE handler'[g] = handler[g] \/ Follows(g, handler'[g])
    <2>1. handler'[h] = Idle /\ \A other \in Handlers \ {h} : handler'[other] = handler[other]
      BY <1>2, GotoType DEF Done, Handling
    <2>2. QED
      BY <1>a, <2>1
  <1>3. ASSUME NEW h \in Handlers, NEW u \in Users, Create(h, u)
        PROVE  handler'[g] = handler[g] \/ Follows(g, handler'[g])
    <2>1. [pc |-> "deploy"] \in Handling
      BY DEF Handling, Creation
    <2>2. /\ handler'[h] = [pc |-> "deploy"]
          /\ \A other \in Handlers \ {h} : handler'[other] = handler[other]
      BY <1>3, <2>1, GotoType DEF Create
    <2>3. QED
      BY <1>a, <2>2
  <1>4. \A h \in Handlers : StoreVault(h) \/ DeleteMember(h) \/ UpdateRole(h) => Done(h)
    BY DEF StoreVault, DeleteMember, UpdateRole, Write
  <1>5. \A h \in Handlers : Issue(h) \/ Join(h) \/ Revoke(h) => Done(h)
    BY DEF Issue, Join, Revoke
  <1>6. CASE \E i \in Invitations : Lapse(i)
    BY <1>6 DEF Lapse
  <1>7. CASE UNCHANGED vars
    BY <1>7 DEF vars
  <1>8. QED
    BY <1>1, <1>2, <1>3, <1>4, <1>5, <1>6, <1>7, NextCases

(* An invitation stays, and does not open again. *)
LEMMA InvitationsStay ==
    ASSUME TypeOK, Known, [Next]_vars, NEW i \in Invitations, invitation[i] # None
    PROVE  /\ invitation'[i] # None
           /\ Pending(i)' => Pending(i)
           /\ Active(i)' => Active(i)
  <1>1. invitation[i] \in Invitation
    BY DEF TypeOK
  <1>2. \/ invitation'[i] = invitation[i]
        \/ \E status \in {"ACCEPTED", "REVOKED"} :
              invitation'[i] = [invitation[i] EXCEPT !.status = status]
        \/ invitation'[i] = [invitation[i] EXCEPT !.lapsed = TRUE]
    <2>1. ASSUME NEW h \in Handlers, Asks(h) PROVE invitation'[i] = invitation[i]
      BY <2>1, AsksMoves DEF Moves, Rows
    <2>2. ASSUME NEW h \in Handlers,
                 \/ StoreVault(h) \/ DeleteMember(h) \/ UpdateRole(h)
                 \/ \E u \in Users : Create(h, u)
          PROVE  invitation'[i] = invitation[i]
      BY <2>2 DEF StoreVault, DeleteMember, UpdateRole, Write, Create
    <2>3. ASSUME NEW h \in Handlers, Issue(h) PROVE invitation'[i] = invitation[i]
      BY <2>3 DEF Issue, TypeOK
    <2>4. ASSUME NEW h \in Handlers, Join(h)
          PROVE  invitation'[i] \in {invitation[i], [invitation[i] EXCEPT !.status = "ACCEPTED"]}
      <3>1. invitation' = [invitation EXCEPT ![handler[h].invitation].status = "ACCEPTED"]
        BY <2>4 DEF Join
      <3>2. QED
        BY <3>1 DEF TypeOK
    <2>5. ASSUME NEW h \in Handlers, Revoke(h)
          PROVE  invitation'[i] \in {invitation[i], [invitation[i] EXCEPT !.status = "REVOKED"]}
      <3>1. invitation' = [invitation EXCEPT ![handler[h].invitation].status = "REVOKED"]
        BY <2>5 DEF Revoke
      <3>2. QED
        BY <3>1 DEF TypeOK
    <2>6. ASSUME NEW j \in Invitations, Lapse(j)
          PROVE  invitation'[i] \in {invitation[i], [invitation[i] EXCEPT !.lapsed = TRUE]}
      BY <2>6 DEF Lapse, TypeOK
    <2>7. CASE UNCHANGED vars
      BY <2>7 DEF vars
    <2>8. QED
      BY <2>1, <2>2, <2>3, <2>4, <2>5, <2>6, <2>7, NextCases
  <1>3. PICK next \in Invitation :
           /\ next = invitation'[i]
           /\ next.status = "PENDING" => invitation[i].status = "PENDING"
           /\ invitation[i].lapsed => next.lapsed
    <2>1. \A v \in Invitation, status \in {"ACCEPTED", "REVOKED"} :
             /\ [v EXCEPT !.status = status] \in Invitation
             /\ [v EXCEPT !.status = status].status = status
             /\ [v EXCEPT !.status = status].lapsed = v.lapsed
      BY DEF Invitation
    <2>2. \A v \in Invitation :
             /\ [v EXCEPT !.lapsed = TRUE] \in Invitation
             /\ [v EXCEPT !.lapsed = TRUE].status = v.status
             /\ [v EXCEPT !.lapsed = TRUE].lapsed
      BY DEF Invitation
    <2> DEFINE Onwards(next) ==
                 /\ next \in Invitation /\ next = invitation'[i]
                 /\ next.status = "PENDING" => invitation[i].status = "PENDING"
                 /\ invitation[i].lapsed => next.lapsed
    <2>3. CASE invitation'[i] = invitation[i]
      <3>1. Onwards(invitation[i])
        BY <1>1, <2>3
      <3>2. QED
        BY <3>1
    <2>4. ASSUME NEW status \in {"ACCEPTED", "REVOKED"},
                 invitation'[i] = [invitation[i] EXCEPT !.status = status]
          PROVE  \E next : Onwards(next)
      <3>1. Onwards([invitation[i] EXCEPT !.status = status])
        BY <1>1, <2>1, <2>4
      <3>2. QED
        BY <3>1
    <2>5. CASE invitation'[i] = [invitation[i] EXCEPT !.lapsed = TRUE]
      <3>1. Onwards([invitation[i] EXCEPT !.lapsed = TRUE])
        BY <1>1, <2>2, <2>5
      <3>2. QED
        BY <3>1
    <2>6. QED
      BY <1>2, <2>3, <2>4, <2>5
  <1>4. invitation'[i] # None
    BY <1>3, NoneAssumption
  <1>5. Pending(i)' => Pending(i)
    BY <1>3 DEF Pending
  <1>6. Active(i)' => Active(i)
    BY <1>3, <1>5 DEF Active
  <1>7. QED
    BY <1>4, <1>5, <1>6

LEMMA KnownNext == TypeOK /\ Empty /\ Known /\ [Next]_vars => Known'
  <1> SUFFICES ASSUME TypeOK, Empty, Known, [Next]_vars,
                      NEW g \in Handlers, handler'[g].pc \in Naming
               PROVE  invitation'[handler'[g].invitation] # None
    BY DEF Known
  <1>1. handler'[g].invitation \in Invitations
    <2>1. handler' \in [Handlers -> Handling]
      <3>1. TypeOK'
        BY NextType
      <3>2. QED
        BY <3>1 DEF TypeOK, Handling
    <2>2. PICK request \in Handling : request = handler'[g]
      BY <2>1
    <2>3. request \in Accepting \cup Revoking
      BY <2>2, HandlingCases DEF Naming
    <2>4. QED
      BY <2>2, <2>3 DEF Accepting, Revoking
  <1>2. invitation[handler'[g].invitation] # None
    <2>1. CASE handler'[g] = handler[g]
      BY <2>1 DEF Known
    <2>2. CASE handler'[g] # handler[g]
      BY <2>2, RequestsFollow DEF Follows
    <2>3. QED
      BY <2>1, <2>2
  <1>3. QED
    BY <1>1, <1>2, InvitationsStay

IInv == TypeOK /\ Empty /\ Known

(* Every variable keeps its type, and a member belongs to a cooperative that was
   created: no request gets past its reading of a role or an invitation before. *)
THEOREM TypeCorrect == Spec => []TypeOK
  <1>1. Init => IInv
    BY InitType DEF IInv
  <1>2. IInv /\ [Next]_vars => IInv'
    BY NextType, PresentNext, KnownNext DEF IInv
  <1>3. IInv => TypeOK
    BY DEF IInv
  <1>4. QED
    BY <1>1, <1>2, <1>3, PTL DEF Spec

-----------------------------------------------------------------------------
(* The role of a user changes by a new membership or by a request that writes. *)
LEMMA RoleSteps ==
    ASSUME TypeOK, Known, [Next]_vars
    PROVE  \/ UNCHANGED role
           \/ \E u \in Users : \E r \in Roles : role[u] = None /\ role' = [role EXCEPT ![u] = r]
           \/ \E h \in Handlers :
                 /\ DeleteMember(h) \/ UpdateRole(h)
                 /\ handler'[h] = Idle
                 /\ handler[h] \in Ready
  <1>1. ASSUME NEW h \in Handlers, Asks(h) PROVE UNCHANGED role
    BY <1>1, AsksMoves DEF Moves, Rows
  <1>2. ASSUME NEW h \in Handlers, StoreVault(h) \/ Issue(h) \/ Revoke(h) PROVE UNCHANGED role
    BY <1>2 DEF StoreVault, Issue, Revoke
  <1>3. ASSUME NEW h \in Handlers, Join(h)
        PROVE  \E u \in Users : \E r \in Roles : role[u] = None /\ role' = [role EXCEPT ![u] = r]
    <2>1. handler[h].user \in Users
      BY <1>3, HandlerCases DEF Join, Accepting
    <2>2. QED
      BY <1>3, <2>1 DEF Join, NewMember, Roles
  <1>4. ASSUME NEW h \in Handlers, NEW u \in Users, Create(h, u)
        PROVE  \E r \in Roles : role[u] = None /\ role' = [role EXCEPT ![u] = r]
    BY <1>4 DEF Create, NewMember, Roles
  <1>5. ASSUME NEW h \in Handlers, DeleteMember(h) \/ UpdateRole(h)
        PROVE  handler'[h] = Idle /\ handler[h] \in Ready
    <2>1. Done(h) /\ handler[h].pc \in {"delete", "update"}
      BY <1>5 DEF DeleteMember, UpdateRole, Write
    <2>2. QED
      BY <2>1, GotoType, HandlerCases DEF Done, Handling
  <1>6. ASSUME NEW i \in Invitations, Lapse(i) PROVE UNCHANGED role
    BY <1>6 DEF Lapse
  <1>7. CASE UNCHANGED vars
    BY <1>7 DEF vars
  <1>8. QED
    BY <1>1, <1>2, <1>3, <1>4, <1>5, <1>6, <1>7, NextCases

(* Every request that is about to write has decided what to. *)
DecidedInv == \A h \in Handlers : Decided(handler[h])

LEMMA DecidedInit == Init => DecidedInv
  BY DEF Init, DecidedInv, Decided, Idle

LEMMA DecidedNext == TypeOK /\ Known /\ DecidedInv /\ [Next]_vars => DecidedInv'
  <1> SUFFICES ASSUME TypeOK, Known, DecidedInv, [Next]_vars, NEW g \in Handlers
               PROVE  Decided(handler'[g])
    BY DEF DecidedInv
  <1>1. CASE handler'[g] = handler[g]
    BY <1>1 DEF DecidedInv
  <1>2. CASE Follows(g, handler'[g])
    BY <1>2 DEF Follows
  <1>3. QED
    BY <1>1, <1>2, RequestsFollow

Inv == IInv /\ DecidedInv

LEMMA InvHolds == Spec => []Inv
  <1>1. Init => Inv
    BY InitType, DecidedInit DEF IInv, Inv
  <1>2. Inv /\ [Next]_vars => Inv'
    BY NextType, PresentNext, KnownNext, DecidedNext DEF IInv, Inv
  <1>3. QED
    BY <1>1, <1>2, PTL DEF Spec

(* An admin loses the role by a request that writes to that admin. *)
LEMMA AdminLost ==
    ASSUME Inv, [Next]_vars, NEW u \in Admins, role'[u] # "COOP_ADMIN"
    PROVE  \E h \in Handlers :
              /\ DeleteMember(h) \/ UpdateRole(h)
              /\ handler'[h] = Idle /\ handler[h] \in Ready
              /\ handler[h].target = u
              /\ \A v \in Users \ {u} : role'[v] = role[v]
  <1>1. u \in Users /\ role[u] = "COOP_ADMIN" /\ role \in [Users -> Roles \cup {None}]
    BY DEF Admins, Inv, IInv, TypeOK
  <1>2. ~UNCHANGED role
    BY <1>1
  <1>3. ASSUME NEW v \in Users, NEW r \in Roles, role[v] = None, role' = [role EXCEPT ![v] = r]
        PROVE  FALSE
    BY <1>1, <1>3, NoneAssumption DEF Roles
  <1>4. PICK h \in Handlers : /\ DeleteMember(h) \/ UpdateRole(h)
                              /\ handler'[h] = Idle
                              /\ handler[h] \in Ready
    BY <1>2, <1>3, RoleSteps DEF Inv, IInv
  <1>5. \E value : role' = [role EXCEPT ![handler[h].target] = value]
    BY <1>4 DEF DeleteMember, UpdateRole, Write
  <1>6. QED
    BY <1>1, <1>4, <1>5

(* The last admin is lost only to a race: by a request that counted another admin
   or saw its target as a member, before another request changed that
   (removeMember, changeRole).  Each decision is kept with what it was based on
   until it is written. *)
THEOREM LastAdminLostToRace == Spec => LastAdminLostByRaceOnly
  <1>1. ASSUME Inv, [Next]_vars, Admins # {}, Admins' = {}
        PROVE  \E h \in Handlers : handler[h].pc \in {"delete", "update"} /\ handler'[h] = Idle
                                   /\ Outdated(h)
    <2>1. PICK u \in Admins : TRUE
      BY <1>1
    <2>2. u \in Users /\ role[u] = "COOP_ADMIN" /\ \A v \in Users : role'[v] # "COOP_ADMIN"
      BY <1>1, <2>1 DEF Admins
    <2>3. PICK h \in Handlers :
              /\ DeleteMember(h) \/ UpdateRole(h)
              /\ handler'[h] = Idle /\ handler[h] \in Ready
              /\ handler[h].target = u
              /\ \A v \in Users \ {u} : role'[v] = role[v]
      BY <1>1, <2>1, <2>2, AdminLost
    <2>4. Admins = {u}
      BY <2>2, <2>3 DEF Admins
    <2>5. Cardinality(Admins) = 1
      BY <2>4, FS_Singleton
    <2>6. Decided(handler[h])
      BY <1>1 DEF Inv, DecidedInv
    <2>7. CASE DeleteMember(h)
      <3>1. handler[h].pc = "delete"
        BY <2>7 DEF DeleteMember, Write
      <3>2. Outdated(h)
        BY <2>2, <2>3, <2>5, <2>6, <3>1, NoneAssumption DEF Decided, Outdated
      <3>3. QED
        BY <2>3, <3>1, <3>2
    <2>8. CASE UpdateRole(h)
      <3>1. handler[h].pc = "update" /\ role' = [role EXCEPT ![u] = handler[h].newRole]
        BY <2>3, <2>8 DEF UpdateRole, Write
      <3>2. role'[u] = handler[h].newRole
        BY <1>1, <2>2, <3>1 DEF Inv, IInv, TypeOK
      <3>3. handler[h].newRole = "MEMBER"
        BY <2>2, <2>3, <2>6, <3>1, <3>2 DEF Ready, Roles, Decided
      <3>4. Outdated(h)
        BY <2>2, <2>3, <2>6, <3>1, <3>3 DEF Decided, Outdated
      <3>5. QED
        BY <2>3, <3>1, <3>4
    <2>9. QED
      BY <2>3, <2>7, <2>8
  <1>2. Inv /\ [Next]_vars =>
           [Admins # {} /\ Admins' = {} =>
              \E h \in Handlers : handler[h].pc \in {"delete", "update"} /\ handler'[h] = Idle
                                  /\ Outdated(h)]_vars
    BY <1>1
  <1>3. QED
    BY <1>2, InvHolds, PTL DEF Spec, LastAdminLostByRaceOnly

(* No admin demotes another, except by a request that saw a member and is
   overtaken by the promotion of that one (changeRole). *)
THEOREM DemotionsAreRaces == Spec => AdminsDemotedByRaceOnly
  <1>1. ASSUME Inv, [Next]_vars, NEW u \in Admins, role'[u] = "MEMBER"
        PROVE  \E h \in Handlers : handler[h].pc = "update" /\ handler[h].target = u
                                   /\ handler[h].saw = "MEMBER"
    <2>1. u \in Users /\ role[u] = "COOP_ADMIN" /\ role \in [Users -> Roles \cup {None}]
      BY <1>1 DEF Admins, Inv, IInv, TypeOK
    <2>2. PICK h \in Handlers :
              /\ DeleteMember(h) \/ UpdateRole(h)
              /\ handler[h].target = u
      BY <1>1, AdminLost
    <2>3. ~DeleteMember(h)
      <3>1. DeleteMember(h) => role'[u] = None
        BY <2>1, <2>2 DEF DeleteMember, Write
      <3>2. QED
        BY <1>1, <3>1, NoneAssumption DEF Roles
    <2>4. handler[h].pc = "update" /\ role'[u] = handler[h].newRole
      BY <2>1, <2>2, <2>3 DEF UpdateRole, Write
    <2>5. Decided(handler[h])
      BY <1>1 DEF Inv, DecidedInv
    <2>6. QED
      BY <1>1, <2>2, <2>4, <2>5 DEF Decided
  <1>2. Inv /\ [Next]_vars =>
           [\A u \in Admins : role'[u] = "MEMBER" =>
              \E h \in Handlers : handler[h].pc = "update" /\ handler[h].target = u
                                  /\ handler[h].saw = "MEMBER"]_vars
    BY <1>1
  <1>3. QED
    BY <1>2, InvHolds, PTL DEF Spec, AdminsDemotedByRaceOnly

-----------------------------------------------------------------------------
(* Admissions. *)

Joiners(i) == {h \in Handlers : Joining(handler[h], i)}

LEMMA AdmissionSteps ==
    ASSUME TypeOK, Known, [Next]_vars, NEW i \in Invitations
    PROVE  \/ admissions'[i] = admissions[i]
           \/ \E h \in Handlers :
                 /\ Joining(handler[h], i)
                 /\ admissions'[i] = admissions[i] + 1
                 /\ invitation[i] # None /\ invitation'[i].status = "ACCEPTED"
                 /\ handler'[h] = Idle
                 /\ \A g \in Handlers \ {h} : handler'[g] = handler[g]
  <1>1. ASSUME NEW h \in Handlers, Asks(h) PROVE UNCHANGED admissions
    BY <1>1, AsksMoves DEF Moves, Rows
  <1>2. ASSUME NEW h \in Handlers,
               \/ StoreVault(h) \/ DeleteMember(h) \/ UpdateRole(h) \/ Issue(h) \/ Revoke(h)
               \/ \E u \in Users : Create(h, u)
        PROVE  UNCHANGED admissions
    BY <1>2 DEF StoreVault, DeleteMember, UpdateRole, Write, Issue, Revoke, Create
  <1>3. ASSUME NEW h \in Handlers, Join(h), handler[h].invitation # i
        PROVE  admissions'[i] = admissions[i]
    BY <1>3 DEF Join, TypeOK
  <1>4. ASSUME NEW h \in Handlers, Join(h), handler[h].invitation = i
        PROVE  /\ Joining(handler[h], i)
               /\ admissions'[i] = admissions[i] + 1
               /\ invitation[i] # None /\ invitation'[i].status = "ACCEPTED"
               /\ handler'[h] = Idle
               /\ \A g \in Handlers \ {h} : handler'[g] = handler[g]
    <2>1. handler[h].pc = "join" /\ invitation[i] # None
      BY <1>4 DEF Join, Known, Naming
    <2>2. admissions' = [admissions EXCEPT ![i] = @ + 1] /\ Done(h)
      BY <1>4 DEF Join
    <2>3. invitation'[i].status = "ACCEPTED"
      <3>1. invitation' = [invitation EXCEPT ![i] = [invitation[i] EXCEPT !.status = "ACCEPTED"]]
        BY <1>4 DEF Join
      <3>2. invitation'[i] = [invitation[i] EXCEPT !.status = "ACCEPTED"]
        BY <3>1 DEF TypeOK
      <3>3. invitation[i] \in Invitation
        BY <2>1 DEF TypeOK
      <3>4. \A v \in Invitation : [v EXCEPT !.status = "ACCEPTED"].status = "ACCEPTED"
        BY DEF Invitation
      <3>5. QED
        BY <3>2, <3>3, <3>4
    <2>4. /\ handler'[h] = Idle
          /\ \A g \in Handlers \ {h} : handler'[g] = handler[g]
      BY <2>2, GotoType DEF Done, Handling
    <2>5. admissions'[i] = admissions[i] + 1
      BY <2>2 DEF TypeOK
    <2>6. QED
      BY <1>4, <2>1, <2>3, <2>4, <2>5 DEF Joining
  <1>5. ASSUME NEW j \in Invitations, Lapse(j) PROVE UNCHANGED admissions
    BY <1>5 DEF Lapse
  <1>6. CASE UNCHANGED vars
    BY <1>6 DEF vars
  <1>7. QED
    BY <1>1, <1>2, <1>3, <1>4, <1>5, <1>6, NextCases

(* Once an invitation has been used, revoked or has lapsed, and the acceptances
   under way then are over, nobody joins by it and nothing opens it again
   (acceptInvitation, revokeInvitation). *)
THEOREM ClosedInvitationsStayClosed == Spec => ClosedStaysClosed
  <1>1. ASSUME Inv, [Next]_vars, NEW i \in Invitations, Closed(i)
        PROVE  Closed(i)' /\ admissions'[i] = admissions[i]
    <2>1. invitation[i] # None /\ ~Active(i) /\ \A h \in Handlers : ~Joining(handler[h], i)
      BY <1>1 DEF Closed, Accepted, Joining
    <2>2. invitation'[i] # None /\ ~Active(i)'
      BY <1>1, <2>1, InvitationsStay DEF Inv, IInv
    <2>3. \A h \in Handlers : ~Joining(handler'[h], i)
      BY <1>1, <2>1, RequestsFollow DEF Inv, IInv, Follows
    <2>4. Closed(i)'
      BY <2>2, <2>3 DEF Closed, Accepted, Joining
    <2>5. admissions'[i] = admissions[i]
      BY <1>1, <2>1, AdmissionSteps DEF Inv, IInv
    <2>6. QED
      BY <2>4, <2>5
  <1>2. Inv /\ [Next]_vars =>
           [\A i \in Invitations : Closed(i) => Closed(i)' /\ admissions'[i] = admissions[i]]_vars
    BY <1>1
  <1>3. QED
    BY <1>2, InvHolds, PTL DEF Spec, ClosedStaysClosed

(* Whoever is admitted, or still may be, was being handled when the invitation
   was first used: from then on it is not pending and no acceptance begins. *)
BoundInv ==
    \A i \in Invitations :
        \/ admissions[i] = 0
        \/ /\ invitation[i] # None /\ ~Pending(i)
           /\ admissions[i] + Cardinality(Joiners(i)) <= Cardinality(Handlers)

LEMMA JoinersFinite ==
    \A i : /\ IsFiniteSet(Joiners(i)) /\ Cardinality(Joiners(i)) \in Nat
           /\ Cardinality(Handlers) \in Nat
           /\ Cardinality(Joiners(i)) <= Cardinality(Handlers)
  BY FiniteAssumption, FS_Subset, FS_CardinalityType DEF Joiners

LEMMA BoundNext == Inv /\ BoundInv /\ [Next]_vars => BoundInv'
  <1> SUFFICES ASSUME Inv, BoundInv, [Next]_vars, NEW i \in Invitations, admissions'[i] # 0
               PROVE  /\ invitation'[i] # None /\ ~Pending(i)'
                      /\ admissions'[i] + Cardinality(Joiners(i)') <= Cardinality(Handlers)
    BY DEF BoundInv
  <1>a. /\ admissions[i] \in Nat /\ Cardinality(Handlers) \in Nat
        /\ IsFiniteSet(Joiners(i)) /\ Cardinality(Joiners(i)) \in Nat
        /\ Cardinality(Joiners(i)) <= Cardinality(Handlers)
    BY JoinersFinite DEF Inv, IInv, TypeOK
  <1>1. CASE admissions'[i] = admissions[i]
    <2>1. /\ invitation[i] # None /\ ~Pending(i)
          /\ admissions[i] + Cardinality(Joiners(i)) <= Cardinality(Handlers)
      BY <1>1 DEF BoundInv
    <2>2. invitation'[i] # None /\ ~Pending(i)'
      BY <2>1, InvitationsStay DEF Inv, IInv
    <2>3. Joiners(i)' \subseteq Joiners(i)
      BY <2>1, RequestsFollow DEF Inv, IInv, Joiners, Follows, Active
    <2>4. Cardinality(Joiners(i)') \in Nat /\ Cardinality(Joiners(i)') <= Cardinality(Joiners(i))
      BY <1>a, <2>3, FS_Subset, FS_CardinalityType
    <2>5. QED
      BY <1>1, <1>a, <2>1, <2>2, <2>4
  <1>2. ASSUME NEW h \in Handlers,
               /\ Joining(handler[h], i)
               /\ admissions'[i] = admissions[i] + 1
               /\ invitation[i] # None /\ invitation'[i].status = "ACCEPTED"
               /\ handler'[h] = Idle
               /\ \A g \in Handlers \ {h} : handler'[g] = handler[g]
        PROVE  /\ invitation'[i] # None /\ ~Pending(i)'
               /\ admissions'[i] + Cardinality(Joiners(i)') <= Cardinality(Handlers)
    <2>1. invitation'[i] # None /\ ~Pending(i)'
      BY <1>2, InvitationsStay DEF Inv, IInv, Pending
    <2>2. Joiners(i)' = Joiners(i) \ {h} /\ h \in Joiners(i)
      BY <1>2 DEF Joiners, Joining, Idle
    <2>3. Cardinality(Joiners(i)') = Cardinality(Joiners(i)) - 1
      BY <1>a, <2>2, FS_RemoveElement
    <2>4. admissions[i] + Cardinality(Joiners(i)) <= Cardinality(Handlers)
      BY <1>a DEF BoundInv
    <2>5. QED
      BY <1>2, <1>a, <2>1, <2>3, <2>4
  <1>3. QED
    BY <1>1, <1>2, AdmissionSteps DEF Inv, IInv

(* An invitation admits no more than one for each request that the server handles
   at one time, however often members are removed and the token is posted again
   (acceptInvitation). *)
THEOREM AdmissionsHaveBound == Spec => []AdmissionsAreBounded
  <1>1. Init => BoundInv
    BY DEF Init, BoundInv
  <1>2. Inv /\ BoundInv => AdmissionsAreBounded
    <2> SUFFICES ASSUME Inv, BoundInv, NEW i \in Invitations
                 PROVE  admissions[i] <= Cardinality(Handlers)
      BY DEF AdmissionsAreBounded
    <2>1. /\ admissions[i] \in Nat /\ Cardinality(Handlers) \in Nat
          /\ Cardinality(Joiners(i)) \in Nat
      BY JoinersFinite DEF Inv, IInv, TypeOK
    <2>2. QED
      BY <2>1 DEF BoundInv
  <1>3. QED
    BY <1>1, <1>2, BoundNext, InvHolds, PTL DEF Spec

=============================================================================
