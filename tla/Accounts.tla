------------------------------ MODULE Accounts ------------------------------
(***************************************************************************)
(* Tenants, their users, invitations, roles and superadmins: the handlers  *)
(* of routes/auth.rs (register, login, refresh), invitations.rs, users.rs  *)
(* and admin.rs, which run concurrently, each statement of a handler a     *)
(* step, over the rows that the migrations constrain.                      *)
(*                                                                         *)
(* A handler believes the claims of the access token it is called with,    *)
(* for the 15 minutes the token lasts (auth_extractor.rs): the row of its  *)
(* caller may say something else by then, or be gone.                      *)
(***************************************************************************)
EXTENDS Integers, FiniteSets

CONSTANTS MaxTenant,   \* bound: tenants ever registered
          MaxUser,     \* bound: users ever made
          MaxInvite,   \* bound: invitations ever made
          Email,       \* addresses
          NoEmail,     \* the address of no row
          MaxTokens,   \* bound: different access tokens that have not expired
          MaxWork      \* bound: handlers between two statements

ASSUME EmailAssumption == NoEmail \notin Email
ASSUME BoundsAssumption == MaxTenant \in Nat /\ MaxUser \in Nat /\ MaxInvite \in Nat

VARIABLES
    tenants,      \* tenants[t]: "none", "row" or "gone"
    users,        \* users[u]: the row, and the invitation it came from
    invitations,  \* invitations[i]: the row
    registering,  \* tenants whose register handler has yet to insert the owner
    accepting,    \* accept handlers that have yet to insert the user, with what they read
    signing,      \* claims that a login, refresh, register or accept has read and is about to issue
    tokens,       \* claims of the access tokens that have not expired
    removal       \* how far the transaction that deletes a tenant is

vars == <<tenants, users, invitations, registering, accepting, signing, tokens, removal>>
sessionVars == <<signing, tokens>>

\* Ids are drawn at random and never used again: they are numbered as they come.
Tenant == 1..MaxTenant
User == 1..MaxUser
Invitation == 1..MaxInvite

Role == {"member", "admin", "owner"}
Life == {"none", "row", "gone"}

Users == [st : Life, tenant : 0..MaxTenant, email : Email \cup {NoEmail}, role : Role,
          super : BOOLEAN, from : 0..MaxInvite]
NoUser == [st |-> "none", tenant |-> 0, email |-> NoEmail, role |-> "member",
           super |-> FALSE, from |-> 0]

\* "expired" is a row past expires_at that nobody accepted.
Invitations == [st : {"none", "pending", "expired", "accepted", "gone"}, tenant : 0..MaxTenant,
                email : Email \cup {NoEmail}, role : Role, by : 0..MaxUser]
NoInvitation == [st |-> "none", tenant |-> 0, email |-> NoEmail, role |-> "member", by |-> 0]

Accepts == [from : Invitation, tenant : Tenant, email : Email \cup {NoEmail}, role : Role]
AcceptOf(i) == [from |-> i, tenant |-> invitations[i].tenant, email |-> invitations[i].email,
                role |-> invitations[i].role]

Claims == [sub : User, tenant : Tenant, role : Role, super : BOOLEAN]
ClaimsOf(u) == [sub |-> u, tenant |-> users[u].tenant, role |-> users[u].role,
                super |-> users[u].super]

\* The rows a deletion has taken so far.  Until it commits everybody still reads
\* them; whoever would change or refer to one waits for it.
Removals == [tenant : 0..MaxTenant, after : {"nothing", "invitations", "users"},
             invitations : SUBSET Invitation, users : SUBSET User]
NoRemoval == [tenant |-> 0, after |-> "nothing", invitations |-> {}, users |-> {}]

\* Property TypeOK.  The variables keep their types; a user row is a tenant's, also
\* when the user joined while the tenant was being deleted, and a handler that
\* accepts an invitation has marked it.
TypeOK ==
    /\ tenants \in [Tenant -> Life]
    /\ users \in [User -> Users]
    /\ invitations \in [Invitation -> Invitations]
    /\ registering \subseteq Tenant /\ accepting \subseteq Accepts
    /\ signing \subseteq Claims /\ tokens \subseteq Claims
    /\ removal \in Removals
    /\ \A u \in User : users[u].st = "row" =>
          users[u].tenant \in Tenant /\ tenants[users[u].tenant] = "row"
    /\ \A i \in Invitation :
          invitations[i].st \notin {"none", "gone"} => invitations[i].tenant \in Tenant
    /\ \A h \in accepting : invitations[h.from].st \in {"accepted", "gone"}

Init ==
    /\ tenants = [t \in Tenant |-> "none"]
    /\ users = [u \in User |-> NoUser]
    /\ invitations = [i \in Invitation |-> NoInvitation]
    /\ registering = {} /\ accepting = {} /\ signing = {} /\ tokens = {}
    /\ removal = NoRemoval

-----------------------------------------------------------------------------
Live(u) == users[u].st = "row"
Row(i) == invitations[i].st \in {"pending", "expired", "accepted"}
Free(u) == u \notin removal.users
FreeInvitation(i) == i \notin removal.invitations
Owners(t) == {u \in User : Live(u) /\ users[u].tenant = t /\ users[u].role = "owner"}
Superadmins == {u \in User : Live(u) /\ users[u].super}

\* n is the next id of a table whose rows' states are st.
NextId(n, st) == st[n] = "none" /\ \A k \in 1..(n - 1) : st[k] # "none"

NewUser(u) == NextId(u, [v \in User |-> users[v].st])

Room == Cardinality(registering) + Cardinality(accepting) + Cardinality(signing) < MaxWork

\* INSERT INTO users: an address is unique in its tenant, whose row must be there.
InsertUser(u, t, e, role, i) ==
    /\ NewUser(u) /\ tenants[t] = "row"
    /\ \A v \in User : ~(Live(v) /\ users[v].tenant = t /\ users[v].email = e)
    /\ users' = [users EXCEPT ![u] = [st |-> "row", tenant |-> t, email |-> e, role |-> role,
                                      super |-> FALSE, from |-> i]]
    /\ signing' = signing \cup {[sub |-> u, tenant |-> t, role |-> role, super |-> FALSE]}

\* The rows of users us are deleted; what is kept of them is history.
DropUsers(us) ==
    users' = [u \in User |-> IF u \in us THEN [NoUser EXCEPT !.st = "gone", !.from = users[u].from]
                             ELSE users[u]]

\* And the rows of invitations is.
DropInvitations(is) ==
    invitations' = [i \in Invitation |-> IF i \in is THEN [NoInvitation EXCEPT !.st = "gone"]
                                         ELSE invitations[i]]

-----------------------------------------------------------------------------
(***************************************************************************)
(* auth.rs: register, login, refresh.                                      *)
(***************************************************************************)

\* register inserts the tenant, and in a statement of its own the owner.
RegisterTenant(t) ==
    /\ Room /\ NextId(t, tenants)
    /\ tenants' = [tenants EXCEPT ![t] = "row"]
    /\ registering' = registering \cup {t}
    /\ UNCHANGED <<users, invitations, accepting, sessionVars, removal>>

CreateOwner(t, e, u) ==
    /\ t \in registering
    /\ InsertUser(u, t, e, "owner", 0)
    /\ registering' = registering \ {t}
    /\ UNCHANGED <<tenants, invitations, accepting, tokens, removal>>

\* An error or a crash: the tenant stays, without a user.
RegisterFails(t) ==
    /\ t \in registering
    /\ registering' = registering \ {t}
    /\ UNCHANGED <<tenants, users, invitations, accepting, sessionVars, removal>>

\* Variant for mutation: refresh renews the claims of the token it replaces.
RenewClaims(u) ==
    /\ Room /\ Live(u)
    /\ \E c \in tokens \cup {ClaimsOf(u)} : c.sub = u /\ signing' = signing \cup {c}
    /\ UNCHANGED <<tenants, users, invitations, registering, accepting, tokens, removal>>

\* login and refresh read the user's row ...
ReadUser(u) ==
    /\ Room /\ Live(u)
    /\ signing' = signing \cup {ClaimsOf(u)}
    /\ UNCHANGED <<tenants, users, invitations, registering, accepting, tokens, removal>>

\* ... and issue tokens: the refresh token's row refers to the user, whose row must be there.
IssueTokens(c) ==
    /\ c \in signing /\ Live(c.sub) /\ Free(c.sub) /\ Cardinality(tokens \cup {c}) <= MaxTokens
    /\ signing' = signing \ {c}
    /\ tokens' = tokens \cup {c}
    /\ UNCHANGED <<tenants, users, invitations, registering, accepting, removal>>

IssueFails(c) ==
    /\ c \in signing
    /\ signing' = signing \ {c}
    /\ UNCHANGED <<tenants, users, invitations, registering, accepting, tokens, removal>>

\* 15 minutes have passed.
TokenExpires(c) ==
    /\ c \in tokens
    /\ tokens' = tokens \ {c}
    /\ UNCHANGED <<tenants, users, invitations, registering, accepting, signing, removal>>

-----------------------------------------------------------------------------
(***************************************************************************)
(* invitations.rs.  c is the claims of the caller.                         *)
(***************************************************************************)
Manages(c) == c.role \in {"admin", "owner"}

\* One invitation that nobody accepted for an address of a tenant, by a unique
\* index, also when it has expired; its inviter is a user.
CreateInvitation(c, i, e, role) ==
    /\ c \in tokens /\ Manages(c)
    /\ role # "member" => c.role = "owner"
    /\ NextId(i, [j \in Invitation |-> invitations[j].st])
    /\ Live(c.sub) /\ Free(c.sub)
    /\ \A j \in Invitation : ~ /\ invitations[j].st \in {"pending", "expired"}
                               /\ invitations[j].tenant = c.tenant /\ invitations[j].email = e
    /\ invitations' = [invitations EXCEPT ![i] =
          [st |-> "pending", tenant |-> c.tenant, email |-> e, role |-> role, by |-> c.sub]]
    /\ UNCHANGED <<tenants, users, registering, accepting, sessionVars, removal>>

\* After 7 days.
InvitationExpires(i) ==
    /\ invitations[i].st = "pending"
    /\ invitations' = [invitations EXCEPT ![i].st = "expired"]
    /\ UNCHANGED <<tenants, users, registering, accepting, sessionVars, removal>>

\* DELETE by id and tenant, whatever became of the invitation.
DeleteInvitation(c, i) ==
    /\ c \in tokens /\ Manages(c)
    /\ Row(i) /\ FreeInvitation(i) /\ invitations[i].tenant = c.tenant
    /\ DropInvitations({i})
    /\ UNCHANGED <<tenants, users, registering, accepting, sessionVars, removal>>

\* Variant for mutation: the invitation is looked up and marked by nobody.
LookUpInvitation(i) ==
    /\ Room /\ invitations[i].st = "pending"
    /\ accepting' = accepting \cup {AcceptOf(i)}
    /\ UNCHANGED <<tenants, users, invitations, registering, sessionVars, removal>>

\* accept_invitation marks the row and reads it in one statement ...
AcceptInvitation(i) ==
    /\ Room /\ invitations[i].st = "pending" /\ FreeInvitation(i)
    /\ invitations' = [invitations EXCEPT ![i].st = "accepted"]
    /\ accepting' = accepting \cup {AcceptOf(i)}
    /\ UNCHANGED <<tenants, users, registering, sessionVars, removal>>

\* ... and inserts the user.
CreateAccount(h, u) ==
    /\ h \in accepting
    /\ InsertUser(u, h.tenant, h.email, h.role, h.from)
    /\ accepting' = accepting \ {h}
    /\ UNCHANGED <<tenants, invitations, registering, tokens, removal>>

\* An error, such as an address that is taken, or a crash: the invitation is used up.
AcceptFails(h) ==
    /\ h \in accepting
    /\ accepting' = accepting \ {h}
    /\ UNCHANGED <<tenants, users, invitations, registering, sessionVars, removal>>

-----------------------------------------------------------------------------
(***************************************************************************)
(* users.rs.                                                               *)
(***************************************************************************)

\* Variant for mutation: owners may change their own role.
UpdateAnyUser(c, u, role) ==
    /\ c \in tokens /\ c.role = "owner"
    /\ Live(u) /\ Free(u) /\ users[u].tenant = c.tenant
    /\ users' = [users EXCEPT ![u].role = role]
    /\ UNCHANGED <<tenants, invitations, registering, accepting, sessionVars, removal>>

UpdateUser(c, u, role) ==
    /\ c \in tokens /\ c.role = "owner" /\ u # c.sub
    /\ Live(u) /\ Free(u) /\ users[u].tenant = c.tenant
    /\ users' = [users EXCEPT ![u].role = role]
    /\ UNCHANGED <<tenants, invitations, registering, accepting, sessionVars, removal>>

\* Who invited somebody cannot be deleted: invited_by refers to the row.
Invited(u) == \E i \in Invitation : Row(i) /\ invitations[i].by = u

DeleteUser(c, u) ==
    /\ c \in tokens /\ c.role = "owner" /\ u # c.sub
    /\ Live(u) /\ Free(u) /\ users[u].tenant = c.tenant /\ users[u].role # "owner"
    /\ ~Invited(u)
    /\ DropUsers({u})
    /\ UNCHANGED <<tenants, invitations, registering, accepting, sessionVars, removal>>

-----------------------------------------------------------------------------
(***************************************************************************)
(* admin.rs.                                                               *)
(***************************************************************************)

(* delete_tenant is one transaction of several statements, each of which sees
   what others have committed by then. *)

\* DELETE FROM invitations.
RemoveInvitations(c, t) ==
    /\ c \in tokens /\ c.super /\ removal = NoRemoval /\ tenants[t] = "row"
    /\ removal' = [tenant |-> t, after |-> "invitations", users |-> {},
                   invitations |-> {i \in Invitation : Row(i) /\ invitations[i].tenant = t}]
    /\ UNCHANGED <<tenants, users, invitations, registering, accepting, sessionVars>>

\* DELETE FROM users: it fails when one of them has invited somebody since.
RemoveUsers ==
    /\ removal.after = "invitations"
    /\ LET us == {u \in User : Live(u) /\ users[u].tenant = removal.tenant}
       IN  /\ \A i \in Invitation : Row(i) /\ FreeInvitation(i) => invitations[i].by \notin us
           /\ removal' = [removal EXCEPT !.after = "users", !.users = us]
    /\ UNCHANGED <<tenants, users, invitations, registering, accepting, sessionVars>>

\* Variant for mutation: users.tenant_id does not cascade.
CommitTaken ==
    /\ removal.after = "users"
    /\ tenants' = [tenants EXCEPT ![removal.tenant] = "gone"]
    /\ DropUsers(removal.users)
    /\ DropInvitations(removal.invitations)
    /\ removal' = NoRemoval
    /\ UNCHANGED <<registering, accepting, sessionVars>>

\* DELETE FROM tenants, which cascades to whoever joined meanwhile and their
\* invitations, and the commit.
CommitRemoval ==
    /\ removal.after = "users"
    /\ tenants' = [tenants EXCEPT ![removal.tenant] = "gone"]
    /\ DropUsers({u \in User : Live(u) /\ users[u].tenant = removal.tenant})
    /\ DropInvitations({i \in Invitation : Row(i) /\ invitations[i].tenant = removal.tenant})
    /\ removal' = NoRemoval
    /\ UNCHANGED <<registering, accepting, sessionVars>>

\* A statement has failed, or the server: nothing is deleted.
RollBack ==
    /\ removal # NoRemoval
    /\ removal' = NoRemoval
    /\ UNCHANGED <<tenants, users, invitations, registering, accepting, sessionVars>>

\* Variant for mutation: superadmins may revoke themselves.
SetAnySuperadmin(c, u, super) ==
    /\ c \in tokens /\ c.super
    /\ Live(u) /\ Free(u)
    /\ users' = [users EXCEPT ![u].super = super]
    /\ UNCHANGED <<tenants, invitations, registering, accepting, sessionVars, removal>>

SetSuperadmin(c, u, super) ==
    /\ c \in tokens /\ c.super
    /\ u = c.sub => super
    /\ Live(u) /\ Free(u)
    /\ users' = [users EXCEPT ![u].super = super]
    /\ UNCHANGED <<tenants, invitations, registering, accepting, sessionVars, removal>>

\* grant-superadmin.sh, run on the server: every user of the address, in any tenant.
GrantScript(e) ==
    /\ \E u \in User : Live(u) /\ users[u].email = e
    /\ \A u \in User : Live(u) /\ users[u].email = e => Free(u)
    /\ users' = [u \in User |-> IF Live(u) /\ users[u].email = e
                                THEN [users[u] EXCEPT !.super = TRUE] ELSE users[u]]
    /\ UNCHANGED <<tenants, invitations, registering, accepting, sessionVars, removal>>

-----------------------------------------------------------------------------
Register == \E t \in Tenant : \/ RegisterTenant(t) \/ RegisterFails(t)
                              \/ \E e \in Email, u \in User : CreateOwner(t, e, u)

SignIn == \/ \E u \in User : ReadUser(u)
          \/ \E c \in signing : IssueTokens(c) \/ IssueFails(c)

Invite ==
    \/ \E i \in Invitation : InvitationExpires(i) \/ AcceptInvitation(i)
    \/ \E h \in accepting : AcceptFails(h) \/ \E u \in User : CreateAccount(h, u)
    \/ \E i \in Invitation, c \in tokens :
          \/ DeleteInvitation(c, i)
          \/ \E e \in Email, role \in Role : CreateInvitation(c, i, e, role)

Manage == \E c \in tokens, u \in User :
    \/ \E role \in Role : UpdateUser(c, u, role)
    \/ DeleteUser(c, u)

Administer ==
    \/ \E c \in tokens, t \in Tenant : RemoveInvitations(c, t)
    \/ RemoveUsers \/ CommitRemoval \/ RollBack
    \/ \E c \in tokens, u \in User, super \in BOOLEAN : SetSuperadmin(c, u, super)
    \/ \E e \in Email : GrantScript(e)

Next == \/ Register \/ SignIn \/ Invite \/ Manage \/ Administer
        \/ \E c \in tokens : TokenExpires(c)

Spec == Init /\ [][Next]_vars

\* Handlers end, one way or the other, and time passes.
Fairness ==
    /\ \A c \in Claims : /\ WF_vars(IssueTokens(c) \/ IssueFails(c))
                         /\ WF_vars(TokenExpires(c))
    /\ WF_vars(RemoveUsers \/ CommitRemoval \/ RollBack)

FairSpec == Spec /\ Fairness

-----------------------------------------------------------------------------
(***************************************************************************)
(* Properties.                                                             *)
(***************************************************************************)

\* Property OneAccountPerInvitation.  An invitation makes one account at most: not
\* a second one when its link is opened twice at once, nor one for somebody who was
\* removed and opens the old link again (invitations.rs:230-262).
OneAccountPerInvitation ==
    \A u, v \in User : users[u].from = users[v].from /\ users[u].from # 0 => u = v

\* Property LastOwnerKept.  "Can't change own role" (users.rs:54) keeps a tenant's
\* last owner: a tenant that is not deleted loses it only to somebody whose token
\* still says owner when the row no longer does.
LastOwnerKept ==
    [][\A t \in Tenant :
          (Owners(t) # {} /\ Owners(t)' = {} /\ tenants'[t] = "row")
             => (\E c \in tokens : c.role = "owner" /\ c.tenant = t /\ c.sub \notin Owners(t))]_vars

\* Property LastSuperadminKept.  "Prevent removing your own superadmin (lockout
\* safety)" (admin.rs:156): unless it is deleted, with its tenant or by an owner, the
\* last superadmin is revoked only by the token of one whose row no longer says so.
LastSuperadminKept ==
    [][(Superadmins' = {} /\ \E u \in Superadmins : Live(u)')
          => (\E c \in tokens : c.super /\ c.sub \notin Superadmins)]_vars

\* Property ClaimsCatchUp.  Unless somebody keeps changing the user, all tokens of
\* the user agree with the row in the end, and a removed user has none: handlers
\* that read the row before the change issue no claims that stay (auth.rs:299-313).
Stale(u) == \E c \in tokens : c.sub = u /\ (~Live(u) \/ c # ClaimsOf(u))
ClaimsCatchUp(u) == <>[]~Stale(u) \/ []<><<users'[u] # users[u]>>_vars
=============================================================================
