------------------------------ MODULE Invites ------------------------------
(***************************************************************************)
(* The invitations of one e-mail address to one organization: rows DTabela *)
(* that are created, accepted and cancelled by requests that overlap.      *)
(*                                                                         *)
(* An acceptance is one READ COMMITTED transaction; it holds no lock until *)
(* it writes.  The unique index on DUserGroup.usuario makes a second       *)
(* INSERT of the account wait for the first and fail when that commits.    *)
(***************************************************************************)
CONSTANTS
    InviteRows,     \* invitations that may be created
    NoInvite,
    Acceptors,      \* requests that accept
    Cancellers      \* requests that cancel

ASSUME InviteAssumption == NoInvite \notin InviteRows

VARIABLES
    invite,         \* metaDados.status of each row, and whether it is there
    flow,           \* metaDados.flow, which is decided when it is created
    lapsed,         \* rows whose expiresAt has passed
    creating,       \* rows whose createInvite is past its checks
    accept,         \* acceptInvite requests
    cancel,         \* cancelInvite requests
    account,        \* the address has a DUserGroup and a DEntidade
    joined,         \* committed links of the person: the acceptances that made them
    crossed         \* auxiliary: two requests were under way at the same time

inviteVars == <<invite, flow, lapsed, creating, accept, cancel, account, joined, crossed>>

Flows     == {"new_user", "existing_user"}
NotAsking == [pc |-> "idle", row |-> NoInvite]
NotCancelling == [pc |-> "idle", row |-> NoInvite]

InviteTypeOK ==
    /\ invite \in [InviteRows -> {"none", "PENDING", "ACCEPTED", "deleted"}]
    /\ flow \in [InviteRows -> Flows]
    /\ lapsed \subseteq InviteRows
    /\ creating \subseteq InviteRows
    /\ accept \in [Acceptors -> [pc: {"idle", "hash", "check", "insert", "mark", "done"},
                                 row: InviteRows \cup {NoInvite}]]
    /\ cancel \in [Cancellers -> [pc: {"idle", "delete"}, row: InviteRows \cup {NoInvite}]]
    /\ account \in BOOLEAN
    /\ joined \subseteq Acceptors
    /\ crossed \in BOOLEAN

InviteInit ==
    /\ invite = [i \in InviteRows |-> "none"]
    /\ flow = [i \in InviteRows |-> "new_user"]
    /\ lapsed = {} /\ creating = {} /\ joined = {}
    /\ accept = [a \in Acceptors |-> NotAsking]
    /\ cancel = [c \in Cancellers |-> NotCancelling]
    /\ account \in BOOLEAN
    /\ crossed = FALSE

-----------------------------------------------------------------------------

UnderWay == \/ creating # {}
            \/ \E a \in Acceptors : accept[a].pc \notin {"idle", "done"}
            \/ \E c \in Cancellers : cancel[c].pc # "idle"

\* A request enters with its first read.
Enters == crossed' = (crossed \/ UnderWay)

\* findValidInviteByHashWithinTx and findPendingInviteByEmail agree on this.
Valid(i) == invite[i] = "PENDING" /\ i \notin lapsed

\* createInvite: not a member, and no invitation is pending.
CreateChecked(i) ==
    /\ invite[i] = "none" /\ i \notin creating
    /\ joined = {}
    /\ \A j \in InviteRows : ~Valid(j)
    /\ creating' = creating \cup {i}
    /\ flow' = [flow EXCEPT ![i] = IF account THEN "existing_user" ELSE "new_user"]
    /\ Enters
    /\ UNCHANGED <<invite, lapsed, accept, cancel, account, joined>>

CreateInsert(i) ==
    /\ i \in creating
    /\ creating' = creating \ {i}
    /\ invite' = [invite EXCEPT ![i] = "PENDING"]
    /\ UNCHANGED <<flow, lapsed, accept, cancel, account, joined, crossed>>

\* expiresAt passes.
Lapse(i) ==
    /\ invite[i] = "PENDING"
    /\ lapsed' = lapsed \cup {i}
    /\ UNCHANGED <<invite, flow, creating, accept, cancel, account, joined, crossed>>

\* preInvite, before the password is hashed.
AcceptBegin(a) ==
    \E i \in InviteRows :
        /\ accept[a].pc = "idle"
        /\ Valid(i)
        /\ accept' = [accept EXCEPT ![a] = [pc |-> "hash", row |-> i]]
        /\ Enters
        /\ UNCHANGED <<invite, flow, lapsed, creating, cancel, account, joined>>

Fails(a) == accept' = [accept EXCEPT ![a] = NotAsking]
Goes(a, pc) == accept' = [accept EXCEPT ![a].pc = pc]

\* The second look, in the transaction.
AcceptFind(a) ==
    /\ accept[a].pc = "hash"
    /\ IF Valid(accept[a].row) THEN Goes(a, "check") ELSE Fails(a)
    /\ UNCHANGED <<invite, flow, lapsed, creating, cancel, account, joined, crossed>>

\* existingLink, or existingUser.
AcceptCheck(a) ==
    /\ accept[a].pc = "check"
    /\ IF flow[accept[a].row] = "existing_user"
       THEN IF account /\ joined = {} THEN Goes(a, "mark") ELSE Fails(a)
       ELSE IF account THEN Fails(a) ELSE Goes(a, "insert")
    /\ UNCHANGED <<invite, flow, lapsed, creating, cancel, account, joined, crossed>>

\* The INSERT of the account under the unique index.
Inserted == {b \in Acceptors : accept[b].pc = "mark" /\ flow[accept[b].row] = "new_user"}
AcceptInsert(a) ==
    /\ accept[a].pc = "insert"
    /\ Inserted = {}
    /\ IF account THEN Fails(a) ELSE Goes(a, "mark")
    /\ UNCHANGED <<invite, flow, lapsed, creating, cancel, account, joined, crossed>>

\* The UPDATE of the row fails when it is gone, and the transaction with it; else it is
\* committed.  The slip is an updateMany, which does not fail.
NeverFails(i) == TRUE
RowThere(i)   == invite[i] # "deleted"

AcceptCommit(a) ==
    LET i == accept[a].row IN
    /\ accept[a].pc = "mark"
    /\ IF RowThere(i)
       THEN /\ invite' = [invite EXCEPT ![i] = IF @ = "deleted" THEN @ ELSE "ACCEPTED"]
            /\ account' = TRUE
            /\ joined' = joined \cup {a}
            /\ Goes(a, "done")
       ELSE /\ Fails(a)
            /\ UNCHANGED <<invite, account, joined>>
    /\ UNCHANGED <<flow, lapsed, creating, cancel, crossed>>

\* cancelInvite reads the row, and emits invite.revoked before it deletes it.
CancelRead(c) ==
    \E i \in InviteRows :
        /\ cancel[c].pc = "idle"
        /\ invite[i] = "PENDING"
        /\ cancel' = [cancel EXCEPT ![c] = [pc |-> "delete", row |-> i]]
        /\ Enters
        /\ UNCHANGED <<invite, flow, lapsed, creating, accept, account, joined>>

CancelDelete(c) ==
    /\ cancel[c].pc = "delete"
    /\ invite' = [invite EXCEPT ![cancel[c].row] = "deleted"]
    /\ cancel' = [cancel EXCEPT ![c] = NotCancelling]
    /\ UNCHANGED <<flow, lapsed, creating, accept, account, joined, crossed>>

InviteNext ==
    \/ \E i \in InviteRows : CreateChecked(i) \/ CreateInsert(i) \/ Lapse(i)
    \/ \E a \in Acceptors :
          \/ AcceptBegin(a) \/ AcceptFind(a) \/ AcceptCheck(a)
          \/ AcceptInsert(a) \/ AcceptCommit(a)
    \/ \E c \in Cancellers : CancelRead(c) \/ CancelDelete(c)

InviteSpec == InviteInit /\ [][InviteNext]_inviteVars

-----------------------------------------------------------------------------
(* Correctness.                                                            *)

\* Once an invitation was cancelled it makes nobody a member, also when the acceptance
\* read it, twice, before it was deleted and is still under way.
CancelledStaysOut ==
    [][\A a \in joined' \ joined : invite[accept[a].row] # "deleted"]_inviteVars

\* However acceptances of one or several invitations overlap, one of them at most made
\* the account; and the person is a member twice only if requests overlapped.
JoinedOnce ==
    \A a, b \in joined : a # b =>
        /\ crossed
        /\ flow[accept[a].row] = "existing_user" \/ flow[accept[b].row] = "existing_user"

InvitesSound == CancelledStaysOut /\ []JoinedOnce
=============================================================================
