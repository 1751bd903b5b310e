---------------------------- MODULE MCTaskBoard ----------------------------
(* Instances of the modules about tasks, projects and members, for TLC.     *)
(* They share no variable: part names the one that moves in a behaviour,    *)
(* the others stay as they began. Some modules have two instances each: one *)
(* request at a time and four tasks, for the depth of the tree, and two     *)
(* requests and three tasks of one project, of which one may be deleted,    *)
(* for races; three projects that move and one that changes its team; the   *)
(* mirrors of two projects, and one project moved between two folders and   *)
(* removed; two chats and one message, and two messages of one chat; links  *)
(* of two agents, and what is written into the links of one. A behaviour    *)
(* about races, writes of dados, moves, mirrors, removal, members or links  *)
(* ends where so much overlapped that no property says anything of it.      *)
EXTENDS TaskNumbering, TaskTree, TaskDados, ProjectTree, ProjectHandles, TemplateCopy,
        Memberships, ChatPairing, Sessions, McpKeys, AgentLinks, FlowHistory, TLC

CONSTANTS t2, t3, t4, pb, b1, p2, f2, l1, l2, l3, h1, h2, n2, ch1, k1, k2, o1, o2, a1

VARIABLE part

taskBoardVars == <<numberingVars, treeVars, dadosVars, boardsVars, handleVars, copyVars,
                   memberVars, pairingVars, sessionVars, keyVars, linkVars, flowVars, part>>

CodeOwners == [k \in Codes |-> IF k = k1 THEN o1 ELSE o2]

(* Requests are told apart by nothing but their names. *)
RequestSymmetry == Permutations(TreeRequests)

(* Tasks other than the phase differ by name only, and so do the projects: the  *)
(* tasks are created in one order, and t2 in the project that is not pb.         *)
InOrder == /\ idProject'[t2] # pb
           /\ \A t \in {<<t2, t3>>, <<t3, t4>>} : life'[t[2]] # "unborn" => life'[t[1]] # "unborn"

TreeAlone == /\ Cardinality({r \in TreeRequests : req'[r] # NoReq}) <= 1
             /\ Cardinality({t \in Tasks : idProject'[t] = pb}) <= 1
TreeRaces == /\ life'[t4] = "unborn" /\ "moves" \notin seen
             /\ \A r \in TreeRequests : req'[r].project # pb /\ req'[r].pc # "unlink"
             /\ Cardinality({t \in Tasks : life'[t] = "deleted"}) <= 1

\* Once writers overlapped nothing is said of state and column: one state, with its row, is
\* written.
OneState == \A w \in Writers : writer'[w].op \in StateWrites =>
                writer'[w].column = Validated /\ writer'[w].to = Validated

\* Rows differ by name only: they are taken in one order.
RowsInOrder(rows) ==
    \A l \in {<<l1, l2>>, <<l2, l3>>} : {l[1], l[2]} \subseteq DOMAIN rows =>
        (rows[l[2]].state # "free" => rows[l[1]].state # "free")

MovesOnly == /\ "moves" \notin happened
             /\ \A r \in Requests : request'[r].team = NoTeam /\ request'[r].keeps
OneBoard  == \A r \in Requests : request'[r].board \in {b1, NoBoard}

Mirrors == \A r \in HandleReqs : asking'[r].op \notin {"unmove", "rmdir"} /\ asking'[r].to # f2
Removal == /\ projectState'[p2] = "unborn"
           /\ \A r \in HandleReqs : asking'[r].op \notin {"update", "copy", "member"}

(* Handlers differ by name only: h1 is the first. *)
InTurn == actor'[h2].pc # "idle" => actor'[h1].pc # "idle"
Acting(actors) == {a \in actors : actor'[a].pc # "idle"}
OneMessage == /\ Cardinality(Acting(Handlers)) <= 1
              /\ \A u \in DOMAIN message' : /\ u # n2 /\ message'[u].chat = ch1
                                            /\ message'[u].kind # "text"
OneChat    == /\ Cardinality(Acting(LinkCalls)) <= 1
              /\ \A a \in Actors : actor'[a].chat \in {ch1, NoOwner}
              /\ \A u \in DOMAIN message' : /\ message'[u].chat = ch1
                                            /\ message'[u].kind # "voice"
              /\ expired' = {}

\* The agents differ by name only, too: the first row is for a1.
TiposOnly == /\ \A o \in LinkOps : linkOp'[o].op \notin Outbound
             /\ agentLink'[l1].agent \in {a1, NoAgent}
OneAgent  == \A o \in LinkOps : linkOp'[o].agent \in {a1, NoAgent} /\ linkOp'[o].tipo # "primary"

\* Clients and tokens differ by name only: the first are the first to be used.
FirstClient == Idle.client
FirstToken  == CHOOSE t \in Tokens : TRUE
Using(d)    == \E q \in SessionCalls : served'[q].pc # "idle" /\ served'[q].client = d
TokensInOrder == IF drawn' = {} THEN (\E d \in Devices : Using(d)) => Using(FirstClient)
                 ELSE FirstToken \in drawn'

NumberingPart ==
    /\ part = "numbering" /\ NumberingNext
    /\ UNCHANGED <<treeVars, dadosVars, boardsVars, handleVars, copyVars,
                   memberVars, pairingVars, sessionVars, keyVars, linkVars, flowVars>>

TreePart ==
    /\ part \in {"depth", "races"} /\ TreeNext /\ InOrder
    /\ (part = "depth" => TreeAlone) /\ (part = "races" => TreeRaces)
    /\ UNCHANGED <<numberingVars, dadosVars, boardsVars, handleVars, copyVars,
                   memberVars, pairingVars, sessionVars, keyVars, linkVars, flowVars>>

DadosPart ==
    /\ part = "dados" /\ DadosNext /\ ~(raced' /\ replaced') /\ (raced' => OneState)
    /\ UNCHANGED <<numberingVars, treeVars, boardsVars, handleVars, copyVars,
                   memberVars, pairingVars, sessionVars, keyVars, linkVars, flowVars>>

BoardPart ==
    /\ part \in {"boards", "teams"} /\ BoardsNext /\ RowsInOrder(teamLink')
    /\ (part = "boards" => MovesOnly) /\ (part = "teams" => OneBoard)
    /\ UNCHANGED <<numberingVars, treeVars, dadosVars, handleVars, copyVars,
                   memberVars, pairingVars, sessionVars, keyVars, linkVars, flowVars>>

HandlePart ==
    /\ part \in {"mirrors", "removal"} /\ (\A p \in HandleProjects : astray[p] = {})
    /\ HandlesNext
    /\ (part = "mirrors" => Mirrors) /\ (part = "removal" => Removal)
    /\ UNCHANGED <<numberingVars, treeVars, dadosVars, boardsVars, copyVars,
                   memberVars, pairingVars, sessionVars, keyVars, linkVars, flowVars>>

CopyPart ==
    /\ part = "copy" /\ CopyNext
    /\ UNCHANGED <<numberingVars, treeVars, dadosVars, boardsVars, handleVars,
                   memberVars, pairingVars, sessionVars, keyVars, linkVars, flowVars>>

MemberPart ==
    /\ part = "members" /\ MemberNext /\ RowsInOrder(link') /\ Cardinality(upset) <= 1
    /\ UNCHANGED <<numberingVars, treeVars, dadosVars, boardsVars, handleVars,
                   copyVars, pairingVars, sessionVars, keyVars, linkVars, flowVars>>

PairingPart ==
    /\ part \in {"pairing", "messages"} /\ PairingNext /\ InTurn
    /\ (part = "pairing" => OneMessage) /\ (part = "messages" => OneChat)
    /\ UNCHANGED <<numberingVars, treeVars, dadosVars, boardsVars, handleVars,
                   copyVars, memberVars, sessionVars, keyVars, linkVars, flowVars>>

SessionPart ==
    /\ part = "tokens" /\ SessionNext /\ TokensInOrder /\ Cardinality(told') <= 2
    /\ UNCHANGED <<numberingVars, treeVars, dadosVars, boardsVars, handleVars,
                   copyVars, memberVars, pairingVars, keyVars, linkVars, flowVars>>

KeysPart ==
    /\ part = "keys" /\ KeysNext
    /\ UNCHANGED <<numberingVars, treeVars, dadosVars, boardsVars, handleVars,
                   copyVars, memberVars, pairingVars, sessionVars, linkVars, flowVars>>

LinksPart ==
    /\ part \in {"tipos", "metas"} /\ AgentLinksNext /\ RowsInOrder(agentLink')
    /\ (part = "tipos" => TiposOnly) /\ (part = "metas" => OneAgent /\ copied = {})
    /\ UNCHANGED <<numberingVars, treeVars, dadosVars, boardsVars, handleVars,
                   copyVars, memberVars, pairingVars, sessionVars, keyVars, flowVars>>

FlowPart ==
    /\ part = "flow" /\ FlowNext
    /\ UNCHANGED <<numberingVars, treeVars, dadosVars, boardsVars, handleVars,
                   copyVars, memberVars, pairingVars, sessionVars, keyVars, linkVars>>

TaskBoardInit ==
    /\ NumberingInit /\ TreeInit /\ DadosInit /\ BoardsInit /\ HandlesInit /\ CopyInit
    /\ MemberInit /\ PairingInit /\ SessionInit /\ KeysInit /\ LinksInit /\ FlowInit
    /\ part \in {"numbering", "depth", "races", "dados", "boards", "teams", "mirrors",
                 "removal", "copy", "members", "pairing", "messages", "tokens", "keys",
                 "tipos", "metas", "flow"}
    /\ part # "dados" => idStatus = FirstStatus
    /\ part \notin {"mirrors", "removal"} =>
          \A p \in HandleProjects : projectState[p] = "unborn"

TaskBoardNext ==
    /\ \/ NumberingPart \/ TreePart \/ DadosPart \/ BoardPart \/ HandlePart \/ CopyPart
       \/ MemberPart \/ PairingPart \/ SessionPart \/ KeysPart \/ LinksPart \/ FlowPart
    /\ UNCHANGED part

TaskBoardSpec == TaskBoardInit /\ [][TaskBoardNext]_taskBoardVars

BoardTypeOK ==
    /\ NumberingTypeOK /\ TreeTypeOK /\ DadosTypeOK /\ BoardsTypeOK
    /\ HandlesTypeOK /\ CopyTypeOK /\ MemberTypeOK /\ PairingTypeOK
    /\ SessionTypeOK /\ KeysTypeOK /\ LinksTypeOK /\ FlowTypeOK

(* Tasks and projects keep the shape of a tree: what makes a cycle, an orphan   *)
(* or a second link to a team is named by what overlapped                       *)
(* (phase-hierarchy.service.ts, projects.service.ts).                           *)
TreesSound == TreeSound /\ ProjectsSound

(* A client that asks in turn keeps its session, a revoked session stays        *)
(* revoked, and a revoked MCP key is refused, except as overlaps, lost answers  *)
(* and copies in the cache explain (auth.service.ts, mcp-key.service.ts).       *)
AccountsSound == SessionsSound /\ KeysSound
=============================================================================
