------------------------------ MODULE Sessions ------------------------------
(***************************************************************************)
(* The session of one account.  Its row DUserGroup has, in dados, the hash *)
(* of one refresh token and its expiry.  Login, rotation and revocation    *)
(* replace them, each after several awaits; a refresh first finds the      *)
(* account by the hash and then validates the token again.                 *)
(***************************************************************************)
CONSTANTS
    Tokens,         \* refresh tokens that may be drawn
    NoToken,
    Devices,        \* the clients that use the account
    SessionCalls    \* requests of the account served at the same time

ASSUME SessionAssumption == NoToken \notin Tokens /\ Devices # {}

VARIABLES
    row,            \* DUserGroup.dados.refreshTokenHash
    aged,           \* tokens whose refreshTokenExpiresAt has passed
    held,           \* the refresh token each client holds
    access,         \* the clients whose access token (JWT) has not expired
    served,         \* the requests
    drawn,          \* tokens that exist
    reuse,          \* auxiliary: a refresh was taken for the reuse of an old token
    refused,        \* auxiliary: a refresh was refused though its token had not expired
    shut,           \* auxiliary: the last word on the session was a revocation
    told            \* auxiliary: what happened so far

sessionVars == <<row, aged, held, access, served, drawn, reuse, refused, shut, told>>

Call == [pc: {"idle", "found", "write", "answer"}, op: {"issue", "revoke"},
         client: Devices, token: Tokens \cup {NoToken}]
Idle == [pc |-> "idle", op |-> "revoke", client |-> CHOOSE d \in Devices : TRUE,
         token |-> NoToken]

\* Two requests at once; a second client logged in or changed its organization; an
\* answer was lost; a session was ended (logout, password change); the row of the account
\* was not among the thousand that a refresh reads.
Occurrences == {"overlap", "clients", "lost", "ended", "unread"}

SessionTypeOK ==
    /\ row \in Tokens \cup {NoToken}
    /\ aged \subseteq Tokens
    /\ held \in [Devices -> Tokens \cup {NoToken}]
    /\ access \subseteq Devices
    /\ served \in [SessionCalls -> Call]
    /\ drawn \subseteq Tokens
    /\ {reuse, refused, shut} \subseteq BOOLEAN
    /\ told \subseteq Occurrences

SessionInit ==
    /\ row = NoToken
    /\ aged = {} /\ access = {} /\ drawn = {} /\ told = {}
    /\ held = [d \in Devices |-> NoToken]
    /\ served = [q \in SessionCalls |-> Idle]
    /\ reuse = FALSE /\ refused = FALSE /\ shut = FALSE

-----------------------------------------------------------------------------

UnderWay == {q \in SessionCalls : served[q].pc # "idle"}
Overlap == {m \in {"overlap"} : UnderWay # {}}
OtherClients(d) == {m \in {"clients"} : \E o \in Devices \ {d} : held[o] # NoToken}

\* Request q of client d comes to the point pc, with the refresh token t in its body.
Comes(q, pc, op, d, t, why) ==
    /\ served[q].pc = "idle"
    /\ served' = [served EXCEPT ![q] = [pc |-> pc, op |-> op, client |-> d, token |-> t]]
    /\ told' = told \cup why \cup Overlap

\* AuthService.login, register and issueSessionForUser, up to generate.
Login(q) ==
    \E d \in Devices :
        /\ Comes(q, "write", "issue", d, NoToken, OtherClients(d))
        /\ shut' = FALSE
        /\ UNCHANGED <<row, aged, held, access, drawn, reuse, refused>>

\* AuthService.switchOrg, behind the guard of the access token: no refresh token is asked.
SwitchOrg(q) ==
    \E d \in access :
        /\ Comes(q, "write", "issue", d, NoToken, OtherClients(d))
        /\ shut' = FALSE
        /\ UNCHANGED <<row, aged, held, access, drawn, reuse, refused>>

\* AuthService.logout, and updateMe with a new password, behind the same guard.
EndSession(q) ==
    \E d \in access :
        /\ Comes(q, "write", "revoke", d, NoToken, {"ended"})
        /\ UNCHANGED <<row, aged, held, access, drawn, reuse, refused, shut>>

\* AuthController.refresh: findUserGroupByRefreshToken has found the account by the hash.
RefreshFinds(q) ==
    \E d \in Devices :
        /\ held[d] # NoToken /\ row = held[d]
        /\ Comes(q, "found", "issue", d, held[d], {})
        /\ UNCHANGED <<row, aged, held, access, drawn, reuse, refused, shut>>

\* No row read has the hash: the error 'Refresh token não encontrado', and nothing else.
\* The row of the account itself may be beyond the take of the query.
RefreshMisses(q) ==
    \E d \in Devices :
        /\ served[q].pc = "idle"
        /\ held[d] # NoToken
        /\ refused' = TRUE
        /\ told' = told \cup Overlap \cup {m \in {"unread"} : row = held[d]}
        /\ UNCHANGED <<row, aged, held, access, served, drawn, reuse, shut>>

\* RefreshTokenService.validate reads the row again.  In the slip the row that
\* the controller found is validated.
FoundIsValid(t) == IF t \in aged THEN "expired" ELSE "valid"
Validation(t) ==
    IF row # t THEN "invalid" ELSE IF t \in aged THEN "expired" ELSE "valid"

\* AuthService.refresh: rotate what is valid; refuse what has expired; of what is
\* neither, "reuse", revoke whatever is in the row.
Validate(q) ==
    LET c == served[q]
        v == Validation(c.token)
    IN
    /\ c.pc = "found"
    /\ served' = [served EXCEPT ![q] =
                     IF v = "expired" THEN Idle
                     ELSE [c EXCEPT !.pc = "write",
                                    !.op = IF v = "valid" THEN "issue" ELSE "revoke"]]
    /\ reuse' = (reuse \/ v = "invalid")
    /\ refused' = (refused \/ v = "invalid")
    /\ UNCHANGED <<row, aged, held, access, drawn, shut, told>>

\* RefreshTokenService.generate draws a token and writes its hash; revoke removes it.
\* Nothing else writes dados, so it does not matter that both spread what they read.
Issue(q) ==
    /\ served[q].pc = "write" /\ served[q].op = "issue"
    /\ \E t \in Tokens \ drawn :
          /\ row' = t
          /\ drawn' = drawn \cup {t}
          /\ served' = [served EXCEPT ![q].pc = "answer", ![q].token = t]
    /\ UNCHANGED <<aged, held, access, reuse, refused, shut, told>>

\* A revocation is the last word unless a request cleared to issue is under way.
Revoke(q) ==
    /\ served[q].pc = "write" /\ served[q].op = "revoke"
    /\ row' = NoToken
    /\ served' = [served EXCEPT ![q] = Idle]
    /\ shut' = \A p \in SessionCalls : ~(served[p].pc = "write" /\ served[p].op = "issue")
    /\ UNCHANGED <<aged, held, access, drawn, reuse, refused, told>>

\* The response carries both tokens; or it is lost.
Answer(q) ==
    /\ served[q].pc = "answer"
    /\ served' = [served EXCEPT ![q] = Idle]
    /\ \/ /\ held' = [held EXCEPT ![served[q].client] = served[q].token]
          /\ access' = access \cup {served[q].client}
          /\ UNCHANGED told
       \/ /\ told' = told \cup {"lost"}
          /\ UNCHANGED <<held, access>>
    /\ UNCHANGED <<row, aged, drawn, reuse, refused, shut>>

\* A client forgets its refresh token: refused, logged out or closed.
Forget ==
    \E d \in Devices :
        /\ held[d] # NoToken
        /\ held' = [held EXCEPT ![d] = NoToken]
        /\ UNCHANGED <<row, aged, access, served, drawn, reuse, refused, shut, told>>

\* An access token expires, or the client drops it with the other.
AccessExpires ==
    \E d \in access :
        /\ access' = access \ {d}
        /\ UNCHANGED <<row, aged, held, served, drawn, reuse, refused, shut, told>>

\* refreshTokenExpiresAt passes.
Age ==
    /\ row \in Tokens \ aged
    /\ aged' = aged \cup {row}
    /\ UNCHANGED <<row, held, access, served, drawn, reuse, refused, shut, told>>

SessionNext ==
    \/ \E q \in SessionCalls :
          \/ Login(q) \/ SwitchOrg(q) \/ EndSession(q)
          \/ RefreshFinds(q) \/ RefreshMisses(q) \/ Validate(q)
          \/ Issue(q) \/ Revoke(q) \/ Answer(q)
    \/ Forget \/ AccessExpires \/ Age

SessionSpec == SessionInit /\ [][SessionNext]_sessionVars

-----------------------------------------------------------------------------
(* Correctness.                                                            *)

\* A refresh reaches the branch that takes it for reuse, and revokes the session, only
\* after two requests overlapped: no expiry, lost answer or second client alone does it.
ReuseExplained == reuse => "overlap" \in told

\* A client whose token has not expired is refused only after requests overlapped, a
\* second client came, an answer was lost, the session was ended or the lookup did not
\* read the row: a single client that asks in turn keeps its session.
SessionKept == refused => told # {}

\* After a revocation (logout, new password, reuse) the account has no session until
\* somebody logs in or changes organization, unless a request already cleared to issue a
\* token was under way: a refresh that had only found the account revives nothing.
RevokedStaysRevoked == shut => row = NoToken

SessionsSound == ReuseExplained /\ SessionKept /\ RevokedStaysRevoked
=============================================================================
