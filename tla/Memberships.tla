---------------------------- MODULE Memberships ----------------------------
(***************************************************************************)
(* The members of one organization: rows DVincula of class ADMIN, MEMBER   *)
(* or VIEWER.  OrganizationsService checks the role of the caller, looks   *)
(* for the member, counts the administrators and writes, each in a         *)
(* statement of its own without a transaction.                             *)
(***************************************************************************)
EXTENDS Naturals, FiniteSets

CONSTANTS
    Users,
    Founder,        \* the user who created the organization
    NoUser,
    Links,          \* rows that may be created
    FirstLink,      \* the row of the founder
    NoLink,
    MemberCalls     \* requests served at the same time

ASSUME MemberAssumption ==
    /\ Founder \in Users /\ NoUser \notin Users
    /\ FirstLink \in Links /\ NoLink \notin Links
    /\ IsFiniteSet(Links)

VARIABLES
    link,           \* DVincula: its user, its idClasse, and excluido
    asked,          \* the requests
    accounts,       \* users whose DEntidade is not excluido
    upset           \* auxiliary: what happened so far

memberVars == <<link, asked, accounts, upset>>

Roles   == {"ADMIN", "MEMBER"}
LinkRow == [user: Users \cup {NoUser}, role: Roles, state: {"free", "live", "deleted"}]
Asked   == [op: {"add", "role", "remove"}, pc: {"idle", "look", "count", "write"},
            user: Users \cup {NoUser}, role: Roles, link: Links \cup {NoLink}]
NotAsked == [op |-> "add", pc |-> "idle", user |-> NoUser, role |-> "MEMBER",
             link |-> NoLink]

\* A removal past its look when another, or a change of role, came; two requests that
\* add one user; an ADMIN who became a MEMBER; an account that was deleted.
Upsets == {"removals", "additions", "demoted", "deleted"}

MemberTypeOK ==
    /\ link \in [Links -> LinkRow]
    /\ asked \in [MemberCalls -> Asked]
    /\ accounts \subseteq Users
    /\ upset \subseteq Upsets

\* OrganizationsService.create writes the organization and its first link at once.
MemberInit ==
    /\ link = [l \in Links |->
                 IF l = FirstLink THEN [user |-> Founder, role |-> "ADMIN", state |-> "live"]
                 ELSE [user |-> NoUser, role |-> "MEMBER", state |-> "free"]]
    /\ asked = [m \in MemberCalls |-> NotAsked]
    /\ accounts = Users
    /\ upset = {}

-----------------------------------------------------------------------------

LiveLinks(u) == {l \in Links : link[l].state = "live" /\ link[l].user = u}
Admins == {l \in Links : link[l].state = "live" /\ link[l].role = "ADMIN"}
IsAdmin(u) == LiveLinks(u) \cap Admins # {}

\* requireAdminRole, the first statement of each request.
Ask(m) ==
    \E a \in Users, u \in Users, op \in {"add", "role", "remove"}, r \in Roles :
        /\ asked[m].pc = "idle"
        /\ IsAdmin(a)
        /\ op = "remove" => r = "MEMBER"
        /\ asked' = [asked EXCEPT ![m] = [op |-> op, pc |-> "look", user |-> u,
                                          role |-> r, link |-> NoLink]]
        /\ UNCHANGED <<link, accounts, upset>>

Removing  == {m \in MemberCalls : asked[m].op = "remove" /\ asked[m].pc \in {"count", "write"}}
Adding(u) == {m \in MemberCalls : asked[m].op = "add" /\ asked[m].pc = "write" /\ asked[m].user = u}

Refused(m) == asked' = [asked EXCEPT ![m] = NotAsked]

\* addMember: the user exists and is not a member yet.
LookToAdd(m) ==
    LET q == asked[m] IN
    /\ q.op = "add" /\ q.pc = "look"
    /\ IF q.user \in accounts /\ LiveLinks(q.user) = {}
       THEN asked' = [asked EXCEPT ![m].pc = "write"]
       ELSE Refused(m)
    /\ upset' = upset \cup {k \in {"additions"} : Adding(q.user) # {}}
    /\ UNCHANGED <<link, accounts>>

\* updateMemberRole and removeMember: any live link of the member.  Only for an ADMIN
\* does removeMember count.
LookForLink(m) ==
    LET q == asked[m] IN
    /\ q.op \in {"role", "remove"} /\ q.pc = "look"
    /\ \/ /\ LiveLinks(q.user) = {}
          /\ Refused(m)
       \/ \E l \in LiveLinks(q.user) :
             asked' = [asked EXCEPT ![m].link = l,
                         ![m].pc = IF q.op = "remove" /\ l \in Admins THEN "count"
                                   ELSE "write"]
    /\ upset' = upset \cup {k \in {"removals"} : q.op = "remove" /\ Removing # {}}
    /\ UNCHANGED <<link, accounts>>

\* The slip is an off-by-one: it lets the last one go.
NoneLeft(n)   == n < 1
TooFewAdmins(n) == n <= 1

CountAdmins(m) ==
    /\ asked[m].pc = "count"
    /\ IF TooFewAdmins(Cardinality(Admins)) THEN Refused(m)
       ELSE asked' = [asked EXCEPT ![m].pc = "write"]
    /\ UNCHANGED <<link, accounts, upset>>

\* The INSERT, or the UPDATE by the key of the row, whatever became of it.
WriteLink(m) ==
    LET q == asked[m] IN
    /\ q.pc = "write"
    /\ \/ /\ q.op = "add"
          /\ \E l \in Links :
                /\ link[l].state = "free"
                /\ link' = [link EXCEPT ![l] = [user |-> q.user, role |-> q.role,
                                                state |-> "live"]]
          /\ UNCHANGED upset
       \/ /\ q.op = "role"
          /\ link' = [link EXCEPT ![q.link].role = q.role]
          /\ upset' = upset \cup {k \in {"demoted"} : link[q.link].role = "ADMIN" /\ q.role # "ADMIN"}
                            \cup {k \in {"removals"} : Removing # {}}
       \/ /\ q.op = "remove"
          /\ link' = [link EXCEPT ![q.link].state = "deleted"]
          /\ UNCHANGED upset
    /\ Refused(m)
    /\ UNCHANGED accounts

\* AuthService.deleteMe, one transaction, does not ask who administers what is left.
DeleteMe(u) ==
    /\ u \in accounts
    /\ accounts' = accounts \ {u}
    /\ link' = [l \in Links |-> IF l \in LiveLinks(u) THEN [link[l] EXCEPT !.state = "deleted"]
                                 ELSE link[l]]
    /\ upset' = upset \cup {"deleted"}
    /\ UNCHANGED asked

MemberNext ==
    \/ \E m \in MemberCalls :
          \/ Ask(m) \/ LookToAdd(m) \/ LookForLink(m) \/ CountAdmins(m) \/ WriteLink(m)
    \/ \E u \in Users : DeleteMe(u)

MemberSpec == MemberInit /\ [][MemberNext]_memberVars

-----------------------------------------------------------------------------
(* Correctness.                                                            *)

\* The organization loses its last administrator only when a removal overlapped with
\* another or with a change of role, an administrator was made a member, or deleted the
\* account: removals in turn, and additions at any time, leave one.
AdminRemains == upset \subseteq {"additions"} => Admins # {}

\* Nobody is a member twice unless two requests added the user at the same time.
OneMembership ==
    "additions" \notin upset => \A u \in Users : \A k, l \in LiveLinks(u) : k = l

MembersSound == AdminRemains /\ OneMembership
=============================================================================
