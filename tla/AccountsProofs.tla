--------------------------- MODULE AccountsProofs ---------------------------
(* What holds of accounts for any number of tenants, users and invitations. *)
EXTENDS Accounts, TLAPS

\* The ids of a table.
LEMMA Ids == /\ \A t \in Tenant : t \in 0..MaxTenant /\ t # 0
             /\ \A u \in User : u \in 0..MaxUser /\ u # 0
             /\ \A i \in Invitation : i \in 0..MaxInvite /\ i # 0
             /\ 0 \in 0..MaxTenant /\ 0 \in 0..MaxUser /\ 0 \in 0..MaxInvite
BY BoundsAssumption DEF Tenant, User, Invitation

\* The rows there may be.
LEMMA Rows ==
    /\ NoUser \in Users /\ NoUser.st = "none" /\ NoUser.from = 0
    /\ NoInvitation \in Invitations /\ NoInvitation.st = "none"
BY Ids DEF NoUser, Users, Life, Role, NoInvitation, Invitations

LEMMA UserRows ==
    ASSUME NEW t \in 0..MaxTenant, NEW e \in Email \cup {NoEmail}, NEW role \in Role,
           NEW super \in BOOLEAN, NEW st \in Life, NEW i \in 0..MaxInvite
    PROVE  [st |-> st, tenant |-> t, email |-> e, role |-> role, super |-> super, from |-> i] \in Users
BY DEF Users

\* A row that was deleted is a row, and says where its account came from.
LEMMA GoneRows ==
    ASSUME NEW r \in Users
    PROVE  LET g == [NoUser EXCEPT !.st = "gone", !.from = r.from]
           IN  g \in Users /\ g.st = "gone" /\ g.from = r.from
BY Ids DEF NoUser, Users, Life, Role

\* What a user's row allows a token to claim.
LEMMA ClaimsTypes ==
    ASSUME TypeOK, NEW u \in User, Live(u)
    PROVE  ClaimsOf(u) \in Claims
<1>1. users[u] \in Users /\ users[u].tenant \in Tenant
  BY DEF TypeOK, Live
<1> QED BY <1>1 DEF ClaimsOf, Claims, Users

\* Deleting users, and what it leaves of them.
LEMMA Dropped ==
    ASSUME TypeOK, NEW us, DropUsers(us)
    PROVE  /\ users' \in [User -> Users]
           /\ \A u \in User : /\ users'[u].from = users[u].from
                              /\ u \in us => users'[u].st = "gone"
                              /\ u \notin us => users'[u] = users[u]
<1>1. \A u \in User : users[u] \in Users
  BY DEF TypeOK
<1>2. \A u \in User : users'[u] = IF u \in us THEN [NoUser EXCEPT !.st = "gone", !.from = users[u].from]
                                  ELSE users[u]
  BY DEF DropUsers
<1>3. users' = [u \in User |-> users'[u]]
  BY DEF DropUsers
<1>4. \A u \in User : users'[u] \in Users /\ users'[u].from = users[u].from
                     /\ (u \in us => users'[u].st = "gone") /\ (u \notin us => users'[u] = users[u])
  <2> SUFFICES ASSUME NEW u \in User
               PROVE  users'[u] \in Users /\ users'[u].from = users[u].from
                      /\ (u \in us => users'[u].st = "gone") /\ (u \notin us => users'[u] = users[u])
    OBVIOUS
  <2>1. CASE u \in us
    BY <1>1, <1>2, <2>1, GoneRows
  <2>2. CASE u \notin us
    BY <1>1, <1>2, <2>2
  <2> QED BY <2>1, <2>2
<1> QED BY <1>3, <1>4

\* Inserting one: the row is new, and so is its id.
LEMMA Inserted ==
    ASSUME TypeOK, NEW u \in User, NEW t \in Tenant, NEW e \in Email \cup {NoEmail},
           NEW role \in Role, NEW i \in 0..MaxInvite, InsertUser(u, t, e, role, i)
    PROVE  /\ users' \in [User -> Users] /\ users[u].st = "none" /\ tenants[t] = "row"
           /\ users'[u].st = "row" /\ users'[u].tenant = t /\ users'[u].from = i
           /\ \A v \in User : v # u => users'[v] = users[v]
           /\ signing' \subseteq Claims
<1> DEFINE row == [st |-> "row", tenant |-> t, email |-> e, role |-> role, super |-> FALSE, from |-> i]
<1>1. row \in Users
  BY Ids, UserRows DEF Life
<1>2. users \in [User -> Users] /\ users' = [users EXCEPT ![u] = row]
  BY DEF InsertUser, TypeOK
<1>3. [sub |-> u, tenant |-> t, role |-> role, super |-> FALSE] \in Claims
  BY DEF Claims
<1>4. signing' \subseteq Claims
  BY <1>3 DEF InsertUser, TypeOK
<1>5. users[u].st = "none" /\ tenants[t] = "row"
  BY DEF InsertUser, NewUser, NextId
<1>6. row.st = "row" /\ row.tenant = t /\ row.from = i
  OBVIOUS
<1> HIDE DEF row
<1> QED BY <1>1, <1>2, <1>4, <1>5, <1>6

\* Changing a user's role or superadmin flag leaves the rest of the row.
LEMMA Changed ==
    ASSUME TypeOK, NEW u \in User,
           \/ \E role \in Role : users' = [users EXCEPT ![u].role = role]
           \/ \E super \in BOOLEAN : users' = [users EXCEPT ![u].super = super]
    PROVE  /\ users' \in [User -> Users]
           /\ \A v \in User : /\ users'[v].st = users[v].st /\ users'[v].tenant = users[v].tenant
                              /\ users'[v].from = users[v].from
                              /\ v # u => users'[v] = users[v]
<1>1. users \in [User -> Users]
  BY DEF TypeOK
<1>2. \A r \in Users : /\ \A role \in Role : [r EXCEPT !.role = role] \in Users
                       /\ \A super \in BOOLEAN : [r EXCEPT !.super = super] \in Users
  BY DEF Users
<1>3. CASE \E role \in Role : users' = [users EXCEPT ![u].role = role]
  <2>1. PICK role \in Role : users' = [users EXCEPT ![u].role = role]
    BY <1>3
  <2>2. users' = [users EXCEPT ![u] = [users[u] EXCEPT !.role = role]]
    BY <2>1
  <2>3. users[u] \in Users
    BY <1>1
  <2>4. LET r == [users[u] EXCEPT !.role = role]
        IN  r.st = users[u].st /\ r.tenant = users[u].tenant /\ r.from = users[u].from
    BY <2>3 DEF Users
  <2> QED BY <1>1, <1>2, <2>2, <2>3, <2>4
<1>4. CASE \E super \in BOOLEAN : users' = [users EXCEPT ![u].super = super]
  <2>1. PICK super \in BOOLEAN : users' = [users EXCEPT ![u].super = super]
    BY <1>4
  <2>2. users' = [users EXCEPT ![u] = [users[u] EXCEPT !.super = super]]
    BY <2>1
  <2>3. users[u] \in Users
    BY <1>1
  <2>4. LET r == [users[u] EXCEPT !.super = super]
        IN  r.st = users[u].st /\ r.tenant = users[u].tenant /\ r.from = users[u].from
    BY <2>3 DEF Users
  <2> QED BY <1>1, <1>2, <2>2, <2>3, <2>4
<1> QED BY <1>3, <1>4

\* The script changes nothing but the flag.
LEMMA Granted ==
    ASSUME TypeOK, NEW e \in Email, GrantScript(e)
    PROVE  /\ users' \in [User -> Users]
           /\ \A v \in User : /\ users'[v].st = users[v].st /\ users'[v].tenant = users[v].tenant
                              /\ users'[v].from = users[v].from /\ users'[v].role = users[v].role
                              /\ users[v].super => users'[v].super
<1>1. \A v \in User : users[v] \in Users
  BY DEF TypeOK
<1>2. users' = [u \in User |-> IF Live(u) /\ users[u].email = e
                                THEN [users[u] EXCEPT !.super = TRUE] ELSE users[u]]
  BY DEF GrantScript
<1>3. \A r \in Users : LET g == [r EXCEPT !.super = TRUE]
                       IN  /\ g \in Users /\ g.st = r.st /\ g.tenant = r.tenant
                           /\ g.from = r.from /\ g.role = r.role /\ g.super
  BY DEF Users
<1> QED BY <1>1, <1>2, <1>3

\* Deleting invitations, and what it leaves of them.
LEMMA DroppedInvitations ==
    ASSUME TypeOK, NEW is, DropInvitations(is)
    PROVE  /\ invitations' \in [Invitation -> Invitations]
           /\ \A i \in Invitation : /\ i \in is => invitations'[i].st = "gone"
                                    /\ i \notin is => invitations'[i] = invitations[i]
<1> DEFINE gone == [NoInvitation EXCEPT !.st = "gone"]
<1>1. gone \in Invitations /\ gone.st = "gone"
  BY Ids DEF NoInvitation, Invitations, Role
<1>2. invitations \in [Invitation -> Invitations]
  BY DEF TypeOK
<1>3. invitations' = [i \in Invitation |-> IF i \in is THEN gone ELSE invitations[i]]
  BY DEF DropInvitations
<1> HIDE DEF gone
<1> QED BY <1>1, <1>2, <1>3

\* What an accept handler reads of an invitation that is there.
LEMMA AcceptTypes ==
    ASSUME TypeOK, NEW i \in Invitation, invitations[i].st = "pending"
    PROVE  AcceptOf(i) \in Accepts /\ AcceptOf(i).from = i
<1>1. invitations[i] \in Invitations /\ invitations[i].tenant \in Tenant
  BY DEF TypeOK
<1> QED BY <1>1 DEF AcceptOf, Accepts, Invitations

\* An invitation's state changes, its details stay.
LEMMA Marked ==
    ASSUME TypeOK, NEW i \in Invitation, NEW st \in {"none", "pending", "expired", "accepted"},
           invitations' = [invitations EXCEPT ![i].st = st]
    PROVE  /\ invitations' \in [Invitation -> Invitations]
           /\ invitations'[i].st = st /\ invitations'[i].tenant = invitations[i].tenant
           /\ invitations'[i].by = invitations[i].by
           /\ \A j \in Invitation : j # i => invitations'[j] = invitations[j]
<1>1. invitations \in [Invitation -> Invitations]
  BY DEF TypeOK
<1>2. invitations' = [invitations EXCEPT ![i] = [invitations[i] EXCEPT !.st = st]]
  OBVIOUS
<1>3. /\ [invitations[i] EXCEPT !.st = st] \in Invitations
      /\ [invitations[i] EXCEPT !.st = st].st = st
      /\ [invitations[i] EXCEPT !.st = st].tenant = invitations[i].tenant
      /\ [invitations[i] EXCEPT !.st = st].by = invitations[i].by
  BY <1>1 DEF Invitations
<1> QED BY <1>1, <1>2, <1>3

\* Property TypeOK: the rows refer to rows, whatever the handlers interleave.
THEOREM TypeCorrect == Spec => []TypeOK
<1> DEFINE TenantsOf == \A u \in User : users[u].st = "row" =>
                           users[u].tenant \in Tenant /\ tenants[users[u].tenant] = "row"
           TenantOf == /\ \A i \in Invitation : invitations[i].st \notin {"none", "gone"}
                                                 => invitations[i].tenant \in Tenant
                       /\ \A h \in accepting : invitations[h.from].st \in {"accepted", "gone"}
<1>1. Init => TypeOK
  <2> SUFFICES ASSUME Init PROVE TypeOK
    OBVIOUS
  <2>1. /\ users \in [User -> Users] /\ \A u \in User : users[u].st = "none"
        /\ invitations \in [Invitation -> Invitations] /\ \A i \in Invitation : invitations[i].st = "none"
    BY Rows DEF Init
  <2>2. removal \in Removals
    BY Ids DEF Init, NoRemoval, Removals
  <2> QED BY <2>1, <2>2 DEF Init, TypeOK, Life
<1>2. TypeOK /\ [Next]_vars => TypeOK'
  <2> SUFFICES ASSUME TypeOK, [Next]_vars PROVE TypeOK'
    OBVIOUS
  <2>0. /\ tenants \in [Tenant -> Life] /\ users \in [User -> Users]
        /\ invitations \in [Invitation -> Invitations]
        /\ registering \subseteq Tenant /\ accepting \subseteq Accepts
        /\ signing \subseteq Claims /\ tokens \subseteq Claims
        /\ TenantsOf /\ TenantOf /\ removal \in Removals
    BY DEF TypeOK
  <2>1. ASSUME NEW t \in Tenant, RegisterTenant(t) PROVE TypeOK'
    <3>1. tenants' = [tenants EXCEPT ![t] = "row"] /\ UNCHANGED <<users, invitations, accepting>>
      BY <2>1 DEF RegisterTenant
    <3>2. tenants' \in [Tenant -> Life] /\ \A s \in Tenant : tenants[s] = "row" => tenants'[s] = "row"
      BY <2>0, <3>1 DEF Life
    <3>3. TenantsOf' /\ TenantOf'
      BY <2>0, <3>1, <3>2
    <3> QED BY <2>0, <2>1, <3>2, <3>3 DEF RegisterTenant, sessionVars, TypeOK
  <2>2. ASSUME NEW t \in Tenant, NEW e \in Email, NEW u \in User, CreateOwner(t, e, u)
        PROVE  TypeOK'
    <3>1. /\ users' \in [User -> Users] /\ users'[u].tenant = t /\ tenants[t] = "row"
          /\ \A v \in User : v # u => users'[v] = users[v]
          /\ signing' \subseteq Claims
      <4>1. InsertUser(u, t, e, "owner", 0) /\ "owner" \in Role /\ 0 \in 0..MaxInvite
        BY <2>2, Ids DEF CreateOwner, Role
      <4> QED BY <4>1, Inserted
    <3>2. TenantsOf' /\ TenantOf'
      BY <2>0, <2>2, <3>1 DEF CreateOwner
    <3> QED BY <2>0, <2>2, <3>1, <3>2 DEF CreateOwner, TypeOK
  <2>3. ASSUME NEW t \in Tenant, RegisterFails(t) PROVE TypeOK'
    BY <2>0, <2>3 DEF RegisterFails, sessionVars, TypeOK
  <2>4. ASSUME NEW u \in User, ReadUser(u) PROVE TypeOK'
    <3>1. ClaimsOf(u) \in Claims
      BY <2>4, ClaimsTypes DEF ReadUser
    <3> QED BY <2>0, <2>4, <3>1 DEF ReadUser, TypeOK
  <2>5. ASSUME NEW c \in Claims, IssueTokens(c) \/ IssueFails(c) \/ TokenExpires(c) PROVE TypeOK'
    BY <2>0, <2>5 DEF IssueTokens, IssueFails, TokenExpires, TypeOK
  <2>6. ASSUME NEW i \in Invitation, InvitationExpires(i) PROVE TypeOK'
    <3>1. invitations' = [invitations EXCEPT ![i].st = "expired"] /\ invitations[i].st = "pending"
      BY <2>6 DEF InvitationExpires
    <3>2. invitations' \in [Invitation -> Invitations] /\ TenantOf'
      <4>1. /\ invitations' \in [Invitation -> Invitations] /\ invitations'[i].st = "expired"
            /\ invitations'[i].tenant = invitations[i].tenant
            /\ \A j \in Invitation : j # i => invitations'[j] = invitations[j]
        BY <3>1, Marked
      <4>2. \A h \in accepting : h.from \in Invitation
        BY <2>0 DEF Accepts
      <4> QED BY <2>0, <2>6, <3>1, <4>1, <4>2 DEF InvitationExpires
    <3> QED BY <2>0, <2>6, <3>2 DEF InvitationExpires, sessionVars, TypeOK
  <2>7. ASSUME NEW i \in Invitation, AcceptInvitation(i) PROVE TypeOK'
    <3>1. invitations' = [invitations EXCEPT ![i].st = "accepted"] /\ invitations[i].st = "pending"
      BY <2>7 DEF AcceptInvitation
    <3>2. AcceptOf(i) \in Accepts /\ AcceptOf(i).from = i /\ accepting' = accepting \cup {AcceptOf(i)}
      BY <2>7, <3>1, AcceptTypes DEF AcceptInvitation
    <3>3. invitations' \in [Invitation -> Invitations] /\ TenantOf'
      <4>1. /\ invitations' \in [Invitation -> Invitations] /\ invitations'[i].st = "accepted"
            /\ invitations'[i].tenant = invitations[i].tenant
            /\ \A j \in Invitation : j # i => invitations'[j] = invitations[j]
        BY <3>1, Marked
      <4>2. \A h \in accepting : h.from \in Invitation
        BY <2>0 DEF Accepts
      <4> QED BY <2>0, <3>1, <3>2, <4>1, <4>2
    <3>4. accepting' \subseteq Accepts
      BY <2>0, <3>2
    <3> QED BY <2>0, <2>7, <3>3, <3>4 DEF AcceptInvitation, sessionVars, TypeOK
  <2>8. ASSUME NEW h \in accepting, AcceptFails(h) PROVE TypeOK'
    BY <2>0, <2>8 DEF AcceptFails, sessionVars, TypeOK
  <2>9. ASSUME NEW h \in accepting, NEW u \in User, CreateAccount(h, u)
        PROVE  TypeOK'
    <3>1. /\ h.tenant \in Tenant /\ h.email \in Email \cup {NoEmail}
          /\ h.role \in Role /\ h.from \in 0..MaxInvite
      BY <2>0, Ids DEF Accepts
    <3>2. InsertUser(u, h.tenant, h.email, h.role, h.from)
      BY <2>9 DEF CreateAccount
    <3>3. /\ users' \in [User -> Users] /\ users'[u].tenant = h.tenant
          /\ tenants[h.tenant] = "row"
          /\ \A v \in User : v # u => users'[v] = users[v]
          /\ signing' \subseteq Claims
      BY <3>1, <3>2, Inserted
    <3>4. TenantsOf' /\ TenantOf'
      BY <2>0, <2>9, <3>1, <3>3 DEF CreateAccount
    <3> QED BY <2>0, <2>9, <3>3, <3>4 DEF CreateAccount, TypeOK
  <2>10. ASSUME NEW c \in Claims, NEW i \in Invitation, DeleteInvitation(c, i) PROVE TypeOK'
    <3>1. DropInvitations({i}) /\ invitations[i].st \in {"pending", "expired", "accepted"}
      BY <2>10 DEF DeleteInvitation, Row
    <3>2. invitations' \in [Invitation -> Invitations] /\ TenantOf'
      <4>1. /\ invitations' \in [Invitation -> Invitations]
            /\ \A j \in Invitation : invitations'[j].st = "gone" \/ invitations'[j] = invitations[j]
        BY <3>1, DroppedInvitations
      <4>2. \A h \in accepting : h.from \in Invitation
        BY <2>0 DEF Accepts
      <4> QED BY <2>0, <2>10, <4>1, <4>2 DEF DeleteInvitation
    <3> QED BY <2>0, <2>10, <3>2 DEF DeleteInvitation, sessionVars, TypeOK
  <2>11. ASSUME NEW c \in Claims, NEW i \in Invitation, NEW e \in Email, NEW role \in Role,
                CreateInvitation(c, i, e, role)
         PROVE  TypeOK'
    <3> DEFINE row == [st |-> "pending", tenant |-> c.tenant, email |-> e, role |-> role, by |-> c.sub]
    <3>1. c.tenant \in Tenant /\ c.sub \in User
      BY DEF Claims
    <3>2. row \in Invitations /\ row.tenant \in Tenant
      BY <3>1, Ids DEF Invitations
    <3>3. invitations' = [invitations EXCEPT ![i] = row]
      BY <2>11 DEF CreateInvitation
    <3> HIDE DEF row
    <3>4. invitations' \in [Invitation -> Invitations] /\ TenantOf'
      <4>1. invitations[i].st = "none"
        BY <2>11 DEF CreateInvitation, NextId
      <4>2. \A h \in accepting : h.from \in Invitation
        BY <2>0 DEF Accepts
      <4> QED BY <2>0, <2>11, <3>2, <3>3, <4>1, <4>2 DEF CreateInvitation
    <3> QED BY <2>0, <2>11, <3>4 DEF CreateInvitation, sessionVars, TypeOK
  <2>12. ASSUME NEW c \in Claims, NEW u \in User,
                \/ \E role \in Role : UpdateUser(c, u, role)
                \/ \E super \in BOOLEAN : SetSuperadmin(c, u, super)
         PROVE  TypeOK'
    <3>1. /\ users' \in [User -> Users]
          /\ \A v \in User : users'[v].st = users[v].st /\ users'[v].tenant = users[v].tenant
      <4>1. \/ \E role \in Role : users' = [users EXCEPT ![u].role = role]
            \/ \E super \in BOOLEAN : users' = [users EXCEPT ![u].super = super]
        BY <2>12 DEF UpdateUser, SetSuperadmin
      <4> QED BY <4>1, Changed
    <3>2. UNCHANGED <<tenants, invitations, registering, accepting, sessionVars, removal>>
      BY <2>12 DEF UpdateUser, SetSuperadmin
    <3>3. TenantsOf'
      BY <2>0, <3>1, <3>2
    <3> QED BY <2>0, <3>1, <3>2, <3>3 DEF sessionVars, TypeOK
  <2>13. ASSUME NEW c \in Claims, NEW u \in User, DeleteUser(c, u) PROVE TypeOK'
    <3>1. /\ users' \in [User -> Users]
          /\ \A v \in User : (v = u /\ users'[v].st = "gone") \/ users'[v] = users[v]
      <4>1. DropUsers({u})
        BY <2>13 DEF DeleteUser
      <4> QED BY <4>1, Dropped
    <3>2. TenantsOf'
      BY <2>0, <2>13, <3>1 DEF DeleteUser
    <3> QED BY <2>0, <2>13, <3>1, <3>2 DEF DeleteUser, sessionVars, TypeOK
  <2>14. CASE CommitRemoval
    <3> DEFINE us == {u \in User : Live(u) /\ users[u].tenant = removal.tenant}
               is == {i \in Invitation : Row(i) /\ invitations[i].tenant = removal.tenant}
    <3>1. /\ users' \in [User -> Users]
          /\ \A v \in User : users'[v].st = "gone" \/ (v \notin us /\ users'[v] = users[v])
      <4>1. DropUsers(us)
        BY <2>14 DEF CommitRemoval
      <4> HIDE DEF us
      <4> QED BY <4>1, Dropped
    <3>2. tenants' = [tenants EXCEPT ![removal.tenant] = "gone"] /\ tenants' \in [Tenant -> Life]
      BY <2>0, <2>14 DEF CommitRemoval, Life
    <3>3. TenantsOf'
      BY <2>0, <3>1, <3>2 DEF Live
    <3>4. /\ invitations' \in [Invitation -> Invitations]
          /\ \A j \in Invitation : invitations'[j].st = "gone" \/ invitations'[j] = invitations[j]
      <4>1. DropInvitations(is)
        BY <2>14 DEF CommitRemoval
      <4> HIDE DEF is
      <4> QED BY <4>1, DroppedInvitations
    <3>5. TenantOf'
      <4>1. \A h \in accepting : h.from \in Invitation
        BY <2>0 DEF Accepts
      <4> QED BY <2>0, <2>14, <3>4, <4>1 DEF CommitRemoval
    <3>6. removal' \in Removals
      BY <2>14, Ids DEF CommitRemoval, NoRemoval, Removals
    <3> QED BY <2>0, <2>14, <3>1, <3>2, <3>3, <3>4, <3>5, <3>6 DEF CommitRemoval, sessionVars, TypeOK
  <2>14a. ASSUME \/ \E c \in tokens, t \in Tenant : RemoveInvitations(c, t)
                \/ RemoveUsers \/ RollBack
         PROVE  TypeOK'
    <3>1. UNCHANGED <<tenants, users, invitations, registering, accepting, sessionVars>>
      BY <2>14a DEF RemoveInvitations, RemoveUsers, RollBack
    <3>2. removal' \in Removals
      <4>1. ASSUME NEW t \in Tenant, NEW is \in SUBSET Invitation,
                   removal' = [tenant |-> t, after |-> "invitations", users |-> {}, invitations |-> is]
            PROVE  removal' \in Removals
        BY <4>1, Ids DEF Removals
      <4>2. ASSUME NEW c \in tokens, NEW t \in Tenant, RemoveInvitations(c, t)
            PROVE  removal' \in Removals
        BY <4>1, <4>2 DEF RemoveInvitations
      <4>3. CASE RemoveUsers
        <5>1. PICK us \in SUBSET User : removal' = [removal EXCEPT !.after = "users", !.users = us]
          BY <4>3 DEF RemoveUsers
        <5> QED BY <2>0, <5>1 DEF Removals
      <4>4. CASE RollBack
        BY <4>4, Ids DEF RollBack, NoRemoval, Removals
      <4> QED BY <2>14a, <4>2, <4>3, <4>4
    <3> QED BY <2>0, <3>1, <3>2 DEF sessionVars, TypeOK
  <2>15. ASSUME NEW e \in Email, GrantScript(e) PROVE TypeOK'
    <3>1. /\ users' \in [User -> Users]
          /\ \A v \in User : users'[v].st = users[v].st /\ users'[v].tenant = users[v].tenant
      BY <2>15, Granted
    <3>2. TenantsOf'
      BY <2>0, <2>15, <3>1 DEF GrantScript
    <3> QED BY <2>0, <2>15, <3>1, <3>2 DEF GrantScript, sessionVars, TypeOK
  <2>16. CASE UNCHANGED vars
    BY <2>0, <2>16 DEF vars, sessionVars, TypeOK
  <2> QED
    BY <2>0, <2>1, <2>2, <2>3, <2>4, <2>5, <2>6, <2>7, <2>8, <2>9, <2>10, <2>11, <2>12, <2>13,
       <2>14, <2>15, <2>16, <2>14a DEF Next, Register, SignIn, Invite, Manage, Administer
<1> QED BY <1>1, <1>2, PTL DEF Spec

-----------------------------------------------------------------------------
(***************************************************************************)
(* An invitation is used once.                                             *)
(***************************************************************************)

\* An invitation that can still make an account has made none.
Unspent == {i \in Invitation : invitations[i].st \in {"none", "pending", "expired"}}
             \cup {h.from : h \in accepting}

\* And one handler at most is about to.
Spending == /\ OneAccountPerInvitation
            /\ \A i \in Unspent, u \in User : users[u].from # i
            /\ \A g, h \in accepting : g.from = h.from => g = h

\* Steps that make no account, give none of the spent invitations back and start no handler.
LEMMA SpendingKept ==
    ASSUME Spending, \A u \in User : users'[u].from = users[u].from, Unspent' \subseteq Unspent,
           accepting' \subseteq accepting
    PROVE  Spending'
BY DEF Spending, OneAccountPerInvitation

LEMMA SpendingStep ==
    ASSUME TypeOK, Spending, [Next]_vars PROVE Spending'
<1> USE DEF Unspent
<1>0. /\ invitations \in [Invitation -> Invitations] /\ accepting \subseteq Accepts
      /\ \A h \in accepting : h.from \in Invitation
      /\ tokens \subseteq Claims /\ signing \subseteq Claims
  BY DEF TypeOK, Accepts
<1>1. ASSUME NEW t \in Tenant, NEW e \in Email, NEW u \in User, CreateOwner(t, e, u)
      PROVE  Spending'
  <2>1. users'[u].from = 0 /\ \A v \in User : v # u => users'[v] = users[v]
    <3>1. InsertUser(u, t, e, "owner", 0) /\ "owner" \in Role /\ 0 \in 0..MaxInvite
      BY <1>1, Ids DEF CreateOwner, Role
    <3> QED BY <3>1, Inserted
  <2>2. UNCHANGED <<invitations, accepting>>
    BY <1>1 DEF CreateOwner
  <2>3. \A i \in Unspent : i # 0
    BY <1>0, Ids
  <2> QED BY <2>1, <2>2, <2>3 DEF Spending, OneAccountPerInvitation
<1>2. ASSUME NEW h \in accepting, NEW u \in User, CreateAccount(h, u) PROVE Spending'
  <2>0. invitations[h.from].st \in {"accepted", "gone"}
    BY DEF TypeOK
  <2>1. users'[u].from = h.from /\ \A v \in User : v # u => users'[v] = users[v]
    <3>1. InsertUser(u, h.tenant, h.email, h.role, h.from)
      BY <1>2 DEF CreateAccount
    <3>2. users \in [User -> Users]
      BY DEF TypeOK
    <3> QED BY <3>1, <3>2 DEF InsertUser
  <2>2. invitations' = invitations /\ accepting' = accepting \ {h}
    BY <1>2 DEF CreateAccount
  <2>3. Unspent' \subseteq Unspent \ {h.from}
    BY <2>0, <2>2 DEF Spending
  <2>4. \A v \in User : users[v].from # h.from
    BY DEF Spending
  <2> QED BY <2>1, <2>2, <2>3, <2>4 DEF Spending, OneAccountPerInvitation
<1>3. ASSUME NEW i \in Invitation, InvitationExpires(i) \/ AcceptInvitation(i) PROVE Spending'
  <2>1. users' = users
    BY <1>3 DEF InvitationExpires, AcceptInvitation
  <2>2. CASE InvitationExpires(i)
    <3>1. Unspent' \subseteq Unspent /\ accepting' = accepting
      BY <1>0, <2>2, Marked DEF InvitationExpires
    <3> QED BY <2>1, <3>1, SpendingKept
  <2>3. CASE AcceptInvitation(i)
    <3>1. /\ invitations[i].st = "pending" /\ accepting' = accepting \cup {AcceptOf(i)}
          /\ invitations' = [invitations EXCEPT ![i].st = "accepted"]
      BY <2>3 DEF AcceptInvitation
    <3>2. AcceptOf(i).from = i
      BY <3>1, AcceptTypes
    <3>3. Unspent' \subseteq Unspent
      <4>1. \A j \in Invitation : j # i => invitations'[j] = invitations[j]
        BY <3>1, Marked
      <4>2. i \in Unspent /\ invitations'[i].st = "accepted"
        BY <3>1, Marked
      <4> QED BY <3>1, <3>2, <4>1, <4>2
    <3>4. \A h \in accepting : h.from # i
      BY <3>1 DEF TypeOK
    <3>5. \A g, h \in accepting' : g.from = h.from => g = h
      BY <3>1, <3>2, <3>4 DEF Spending
    <3> QED BY <2>1, <3>3, <3>5 DEF Spending, OneAccountPerInvitation
  <2> QED BY <1>3, <2>2, <2>3
<1>3a. ASSUME NEW h \in accepting, AcceptFails(h) PROVE Spending'
  <2>1. UNCHANGED <<users, invitations>> /\ accepting' = accepting \ {h}
    BY <1>3a DEF AcceptFails
  <2>2. Unspent' \subseteq Unspent
    BY <2>1
  <2> QED BY <2>1, <2>2, SpendingKept
<1>4. ASSUME NEW c \in Claims, NEW i \in Invitation,
             \/ DeleteInvitation(c, i)
             \/ \E e \in Email, role \in Role : CreateInvitation(c, i, e, role)
      PROVE  Spending'
  <2>1. users' = users /\ accepting' = accepting
    BY <1>4 DEF DeleteInvitation, CreateInvitation
  <2>2. CASE DeleteInvitation(c, i)
    <3>1. \A j \in Invitation : invitations'[j].st = "gone" \/ invitations'[j] = invitations[j]
      BY <2>2, DroppedInvitations DEF DeleteInvitation
    <3>2. Unspent' \subseteq Unspent
      BY <2>1, <3>1
    <3> QED BY <2>1, <3>2, SpendingKept
  <2>3. CASE \E e \in Email, role \in Role : CreateInvitation(c, i, e, role)
    <3>1. invitations[i].st = "none" /\ \A j \in Invitation : j # i => invitations'[j] = invitations[j]
      BY <1>0, <2>3 DEF CreateInvitation, NextId
    <3>2. Unspent' \subseteq Unspent
      BY <2>1, <3>1
    <3> QED BY <2>1, <3>2, SpendingKept
  <2> QED BY <1>4, <2>2, <2>3
<1>5. ASSUME NEW c \in Claims, NEW u \in User,
             \/ \E role \in Role : UpdateUser(c, u, role)
             \/ \E super \in BOOLEAN : SetSuperadmin(c, u, super)
      PROVE  Spending'
  <2>1. \/ \E role \in Role : users' = [users EXCEPT ![u].role = role]
        \/ \E super \in BOOLEAN : users' = [users EXCEPT ![u].super = super]
    BY <1>5 DEF UpdateUser, SetSuperadmin
  <2>2. UNCHANGED <<invitations, accepting>>
    BY <1>5 DEF UpdateUser, SetSuperadmin
  <2>3. \A v \in User : users'[v].from = users[v].from
    BY <2>1, Changed
  <2> QED BY <2>2, <2>3, SpendingKept
<1>6. ASSUME NEW c \in Claims, NEW u \in User, DeleteUser(c, u) PROVE Spending'
  <2>1. DropUsers({u}) /\ UNCHANGED <<invitations, accepting>>
    BY <1>6 DEF DeleteUser
  <2>2. \A v \in User : users'[v].from = users[v].from
    BY <2>1, Dropped
  <2> QED BY <2>1, <2>2, SpendingKept
<1>7. CASE CommitRemoval
  <2>1. \A v \in User : users'[v].from = users[v].from
    <3>1. DropUsers({u \in User : Live(u) /\ users[u].tenant = removal.tenant})
      BY <1>7 DEF CommitRemoval
    <3> QED BY <3>1, Dropped
  <2>2. \A i \in Invitation : invitations'[i].st = "gone" \/ invitations'[i] = invitations[i]
    <3>1. DropInvitations({i \in Invitation : Row(i) /\ invitations[i].tenant = removal.tenant})
      BY <1>7 DEF CommitRemoval
    <3> QED BY <3>1, DroppedInvitations
  <2>3. accepting' = accepting
    BY <1>7 DEF CommitRemoval
  <2> QED BY <2>1, <2>2, <2>3, SpendingKept
<1>9. ASSUME UNCHANGED <<users, invitations, accepting>> PROVE Spending'
  BY <1>9, SpendingKept
<1>7a. ASSUME (\E c \in tokens, t \in Tenant : RemoveInvitations(c, t)) \/ RemoveUsers \/ RollBack
       PROVE  Spending'
  BY <1>9, <1>7a DEF RemoveInvitations, RemoveUsers, RollBack
<1>8. ASSUME NEW e \in Email, GrantScript(e) PROVE Spending'
  <2>1. UNCHANGED <<invitations, accepting>>
    BY <1>8 DEF GrantScript
  <2>2. \A v \in User : users'[v].from = users[v].from
    BY <1>8, Granted
  <2> QED BY <2>1, <2>2, SpendingKept
<1>10. ASSUME NEW t \in Tenant, RegisterTenant(t) \/ RegisterFails(t) PROVE Spending'
  BY <1>9, <1>10 DEF RegisterTenant, RegisterFails
<1>11. CASE SignIn
  BY <1>9, <1>11 DEF SignIn, ReadUser, IssueTokens, IssueFails
<1>12. ASSUME NEW c \in Claims, TokenExpires(c) PROVE Spending'
  BY <1>9, <1>12 DEF TokenExpires
<1>13. CASE UNCHANGED vars
  BY <1>9, <1>13 DEF vars
<1> QED
  BY <1>0, <1>1, <1>2, <1>3, <1>4, <1>5, <1>6, <1>7, <1>8, <1>10, <1>11, <1>12, <1>13, <1>3a, <1>7a
     DEF Next, Register, Invite, Manage, Administer

\* Property OneAccountPerInvitation: however opening a link, removing users and
\* deleting invitations or tenants interleave (invitations.rs:230-262).
THEOREM InvitationsUsedOnce == Spec => []OneAccountPerInvitation
<1>1. Init => Spending
  <2> SUFFICES ASSUME Init PROVE Spending
    OBVIOUS
  <2>1. \A u \in User : users[u].from = 0
    BY Rows DEF Init
  <2>2. accepting = {} /\ \A i \in Unspent : i # 0
    BY Ids DEF Init, Unspent
  <2> QED BY <2>1, <2>2 DEF Spending, OneAccountPerInvitation
<1>2. TypeOK /\ Spending /\ [Next]_vars => Spending'
  BY SpendingStep
<1>3. Spending => OneAccountPerInvitation
  BY DEF Spending
<1> QED BY <1>1, <1>2, <1>3, TypeCorrect, PTL DEF Spec

-----------------------------------------------------------------------------
(***************************************************************************)
(* The last owner and the last superadmin.                                 *)
(***************************************************************************)

\* Changing the role leaves the superadmin flag alone, and the other way round.
LEMMA RoleOnly ==
    ASSUME TypeOK, NEW u \in User, NEW role \in Role, users' = [users EXCEPT ![u].role = role]
    PROVE  \A v \in User : users'[v].super = users[v].super
<1>1. users' = [users EXCEPT ![u] = [users[u] EXCEPT !.role = role]]
  OBVIOUS
<1>2. users[u] \in Users /\ users \in [User -> Users]
  BY DEF TypeOK
<1>3. [users[u] EXCEPT !.role = role].super = users[u].super
  BY <1>2 DEF Users
<1> QED BY <1>1, <1>2, <1>3

LEMMA FlagOnly ==
    ASSUME TypeOK, NEW u \in User, NEW super \in BOOLEAN, users' = [users EXCEPT ![u].super = super]
    PROVE  users'[u].super = super /\ \A v \in User : users'[v].role = users[v].role
<1>1. users' = [users EXCEPT ![u] = [users[u] EXCEPT !.super = super]]
  OBVIOUS
<1>2. users[u] \in Users /\ users \in [User -> Users]
  BY DEF TypeOK
<1>3. /\ [users[u] EXCEPT !.super = super].super = super
      /\ [users[u] EXCEPT !.super = super].role = users[u].role
  BY <1>2 DEF Users
<1> QED BY <1>1, <1>2, <1>3

\* What the steps do to the row of a user that is there, or was.
LEMMA UserSteps ==
    ASSUME TypeOK, [Next]_vars, NEW w \in User, users[w].st # "none", users'[w] # users[w]
    PROVE  \/ \E c \in tokens, role \in Role : UpdateUser(c, w, role)
           \/ \E c \in tokens : DeleteUser(c, w)
           \/ CommitRemoval /\ removal.tenant = users[w].tenant
           \/ \E c \in tokens, super \in BOOLEAN : SetSuperadmin(c, w, super)
           \/ \E e \in Email : GrantScript(e)
<1>0. users \in [User -> Users] /\ invitations \in [Invitation -> Invitations] /\ users[w].st # "none"
  BY DEF TypeOK
<1>1. ASSUME NEW t \in Tenant, RegisterTenant(t) \/ RegisterFails(t) PROVE FALSE
  BY <1>1 DEF RegisterTenant, RegisterFails
<1>2. ASSUME NEW t, NEW e, NEW u \in User, NEW role, NEW i, InsertUser(u, t, e, role, i) PROVE FALSE
  <2>1. users[u].st = "none"
    BY <1>2 DEF InsertUser, NewUser, NextId
  <2> QED BY <1>0, <1>2, <2>1 DEF InsertUser
<1>3. ASSUME NEW t \in Tenant, NEW e \in Email, NEW u \in User, CreateOwner(t, e, u) PROVE FALSE
  BY <1>2, <1>3 DEF CreateOwner
<1>4. ASSUME NEW h \in accepting, NEW u \in User, CreateAccount(h, u) PROVE FALSE
  BY <1>2, <1>4 DEF CreateAccount
<1>5. ASSUME SignIn \/ \E c \in tokens : TokenExpires(c) PROVE FALSE
  BY <1>5 DEF SignIn, ReadUser, IssueTokens, IssueFails, TokenExpires
<1>6. ASSUME \/ \E i \in Invitation : InvitationExpires(i) \/ AcceptInvitation(i)
             \/ \E h \in accepting : AcceptFails(h)
      PROVE  FALSE
  BY <1>6 DEF InvitationExpires, AcceptInvitation, AcceptFails
<1>7. ASSUME NEW c \in tokens, NEW i \in Invitation,
             \/ DeleteInvitation(c, i)
             \/ \E e \in Email, role \in Role : CreateInvitation(c, i, e, role)
      PROVE  FALSE
  BY <1>7 DEF DeleteInvitation, CreateInvitation
<1>8. ASSUME NEW c \in tokens, NEW u \in User, NEW role \in Role, UpdateUser(c, u, role) PROVE u = w
  BY <1>0, <1>8 DEF UpdateUser
<1>9. ASSUME NEW c \in tokens, NEW u \in User, NEW super \in BOOLEAN, SetSuperadmin(c, u, super)
      PROVE  u = w
  BY <1>0, <1>9 DEF SetSuperadmin
<1>10. ASSUME NEW c \in tokens, NEW u \in User, DeleteUser(c, u) PROVE u = w
  <2>1. DropUsers({u})
    BY <1>10 DEF DeleteUser
  <2> QED BY <2>1, Dropped
<1>11. CASE CommitRemoval
  <2>1. DropUsers({u \in User : Live(u) /\ users[u].tenant = removal.tenant})
    BY <1>11 DEF CommitRemoval
  <2>2. w \in {u \in User : Live(u) /\ users[u].tenant = removal.tenant}
    BY <2>1, Dropped
  <2> QED BY <1>11, <2>2
<1>11a. ASSUME (\E c \in tokens, t \in Tenant : RemoveInvitations(c, t)) \/ RemoveUsers \/ RollBack
       PROVE  FALSE
  BY <1>11a DEF RemoveInvitations, RemoveUsers, RollBack
<1>12. CASE UNCHANGED vars
  BY <1>12 DEF vars
<1> QED
  BY <1>1, <1>3, <1>4, <1>5, <1>6, <1>7, <1>8, <1>9, <1>10, <1>11, <1>12, <1>11a
     DEF Next, Register, Invite, Manage, Administer

\* Property LastOwnerKept: a token that says owner while the row does not is all
\* that takes a tenant's last owner (users.rs:54-57, 106).
THEOREM LastOwnersStay == Spec => LastOwnerKept
<1> DEFINE Step == \A t \in Tenant :
        (Owners(t) # {} /\ Owners(t)' = {} /\ tenants'[t] = "row")
          => \E c \in tokens : c.role = "owner" /\ c.tenant = t /\ c.sub \notin Owners(t)
<1>1. TypeOK /\ TypeOK' /\ [Next]_vars => Step
  <2> SUFFICES ASSUME TypeOK, [Next]_vars, NEW t \in Tenant,
                      Owners(t) # {}, Owners(t)' = {}, tenants'[t] = "row"
               PROVE  \E c \in tokens : c.role = "owner" /\ c.tenant = t /\ c.sub \notin Owners(t)
    OBVIOUS
  <2>1. PICK w \in User : Live(w) /\ users[w].tenant = t /\ users[w].role = "owner"
    BY DEF Owners
  <2>2. \A v \in User : ~(Live(v)' /\ users'[v].tenant = t /\ users'[v].role = "owner")
    BY DEF Owners
  <2>3. users'[w] # users[w]
    BY <2>1, <2>2 DEF Live
  <2>4. ASSUME NEW c \in tokens, NEW role \in Role, UpdateUser(c, w, role)
        PROVE  c.role = "owner" /\ c.tenant = t /\ c.sub \notin Owners(t)
    <3>1. /\ c.role = "owner" /\ c.sub # w /\ users[w].tenant = c.tenant
          /\ users' = [users EXCEPT ![w].role = role]
      BY <2>4 DEF UpdateUser
    <3>2. \A v \in User : v # w => users'[v] = users[v]
      BY <3>1, Changed
    <3> QED BY <2>1, <2>2, <3>1, <3>2 DEF Owners, Live
  <2>5. ASSUME NEW c \in tokens, DeleteUser(c, w) PROVE FALSE
    BY <2>1, <2>5 DEF DeleteUser
  <2>6. ASSUME CommitRemoval, removal.tenant = t PROVE FALSE
    BY <2>1, <2>6 DEF CommitRemoval, TypeOK
  <2>7. ASSUME NEW c \in tokens, NEW super \in BOOLEAN, SetSuperadmin(c, w, super) PROVE FALSE
    <3>1. users' = [users EXCEPT ![w].super = super]
      BY <2>7 DEF SetSuperadmin
    <3> QED BY <2>1, <2>2, <3>1, Changed, FlagOnly DEF Live
  <2>8. ASSUME NEW e \in Email, GrantScript(e) PROVE FALSE
    BY <2>1, <2>2, <2>8, Granted DEF Live
  <2> QED BY <2>1, <2>3, <2>4, <2>5, <2>6, <2>7, <2>8, UserSteps DEF Live
<1>2. TypeOK /\ TypeOK' /\ [Next]_vars => [Step]_vars
  BY <1>1
<1> QED BY <1>2, TypeCorrect, PTL DEF Spec, LastOwnerKept

\* Property LastSuperadminKept: the same of superadmins (admin.rs:156-159).
THEOREM LastSuperadminsStay == Spec => LastSuperadminKept
<1> DEFINE Step == (Superadmins' = {} /\ \E u \in Superadmins : Live(u)')
                     => \E c \in tokens : c.super /\ c.sub \notin Superadmins
<1>1. TypeOK /\ TypeOK' /\ [Next]_vars => Step
  <2> SUFFICES ASSUME TypeOK, [Next]_vars, Superadmins' = {}, NEW w \in Superadmins, Live(w)'
               PROVE  \E c \in tokens : c.super /\ c.sub \notin Superadmins
    OBVIOUS
  <2>1. w \in User /\ Live(w) /\ users[w].super /\ users'[w].st = "row"
    BY DEF Superadmins, Live
  <2>2. \A v \in User : ~(Live(v)' /\ users'[v].super)
    BY DEF Superadmins
  <2>3. users'[w] # users[w]
    BY <2>1, <2>2 DEF Live
  <2>4. ASSUME NEW c \in tokens, NEW super \in BOOLEAN, SetSuperadmin(c, w, super)
        PROVE  c.super /\ c.sub \notin Superadmins
    <3>1. c.super /\ (w = c.sub => super) /\ users' = [users EXCEPT ![w].super = super]
      BY <2>4 DEF SetSuperadmin
    <3>2. \A v \in User : v # w => users'[v] = users[v]
      BY <2>1, <3>1, Changed
    <3>3. users'[w].super = super
      BY <2>1, <3>1, FlagOnly
    <3>4. c.sub # w
      BY <2>1, <2>2, <3>1, <3>3 DEF Live
    <3> QED BY <2>2, <3>1, <3>2, <3>4 DEF Superadmins, Live
  <2>5. ASSUME NEW c \in tokens, DeleteUser(c, w) PROVE FALSE
    <3>1. DropUsers({w})
      BY <2>5 DEF DeleteUser
    <3> QED BY <2>1, <3>1, Dropped
  <2>6. ASSUME CommitRemoval, removal.tenant = users[w].tenant PROVE FALSE
    <3>1. DropUsers({u \in User : Live(u) /\ users[u].tenant = users[w].tenant})
      BY <2>6 DEF CommitRemoval
    <3>2. w \in {u \in User : Live(u) /\ users[u].tenant = users[w].tenant}
      BY <2>1
    <3> QED BY <2>1, <3>1, <3>2, Dropped
  <2>7. ASSUME NEW c \in tokens, NEW role \in Role, UpdateUser(c, w, role) PROVE FALSE
    <3>1. users' = [users EXCEPT ![w].role = role]
      BY <2>7 DEF UpdateUser
    <3> QED BY <2>1, <2>2, <3>1, RoleOnly DEF Live
  <2>8. ASSUME NEW e \in Email, GrantScript(e) PROVE FALSE
    BY <2>1, <2>2, <2>8, Granted DEF Live
  <2> QED BY <2>1, <2>3, <2>4, <2>5, <2>6, <2>7, <2>8, UserSteps DEF Live
<1>2. TypeOK /\ TypeOK' /\ [Next]_vars => [Step]_vars
  BY <1>1
<1> QED BY <1>2, TypeCorrect, PTL DEF Spec, LastSuperadminKept
=============================================================================
