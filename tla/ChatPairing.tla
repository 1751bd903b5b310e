---------------------------- MODULE ChatPairing ----------------------------
(* Pairing a chat with a user by a one-shot code, and the messages of the   *)
(* chat (src/channels).  PairingService.consume is one transaction in READ  *)
(* COMMITTED: it reads the code, marks it, looks for the link of the chat   *)
(* and rewrites or inserts it.  A message is looked up, recorded with the   *)
(* user found, and then routed, which looks the user up again.  Telegram    *)
(* sends an update again when its 200 is lost; Redis remembers the updates. *)
EXTENDS Naturals, Sequences, FiniteSets

CONSTANTS
    Codes, NoCode,       \* pairing codes, DTabela -474
    Owners, NoOwner,
    OwnerOf,              \* the user a code is generated for
    Chats,
    Updates, NoUpdate,   \* updates of Telegram: one message each
    Handlers,            \* calls of handleUpdate
    LinkCalls            \* requests POST /channels/pairing/link

ASSUME PairingAssumption ==
    /\ NoCode \notin Codes /\ NoUpdate \notin Updates /\ NoOwner \notin Owners
    /\ OwnerOf \in [Codes -> Owners]

Actors == Handlers \cup LinkCalls
MessageKinds == {"text", "voice", "pair"}

VARIABLES
    codeState,   \* of a code: "none", "unused" or "used"
    expired,     \* the codes whose expiresAt has passed
    chatLinks,       \* the committed rows of DVincula -483: user, chat, and the code of linkedAt
    message,     \* of an update: chat, kind and code
    known,       \* the updates whose key is in Redis
    actor,       \* each handler or request: where it is and what it read
    recorded,    \* auxiliary: the users an update was recorded with, one per DEvento
    pairedBy,    \* auxiliary: the chats a code has paired
    clashes      \* auxiliary: "pairings" or "message" overlapped, "redis" failed

pairingVars == <<codeState, expired, chatLinks, message, known, actor, recorded, pairedBy, clashes>>

ChatLink(user, chat, since) == [user |-> user, chat |-> chat, since |-> since]
NoChatLink == 0

At(pc, update, chat, code) ==
    [pc |-> pc, update |-> update, chat |-> chat, code |-> code,
     user |-> NoOwner, acts |-> NoOwner, row |-> NoChatLink, since |-> NoCode]

ChatLinksOf(chat) == {l \in DOMAIN chatLinks : chatLinks[l].chat = chat}

AllChatLinks == [user : Owners, chat : Chats, since : Codes]

PairingTypeOK ==
    /\ codeState \in [Codes -> {"none", "unused", "used"}] /\ expired \subseteq Codes
    /\ chatLinks \in Seq(AllChatLinks)
    /\ \A u \in DOMAIN message : message[u].kind \in MessageKinds /\ message[u].chat \in Chats
    /\ known \subseteq Updates
    /\ \A a \in Actors :
          /\ actor[a].pc \in {"idle", "resolve", "record", "seen", "route", "consume", "mark",
                              "find", "link", "oriented", "done"}
          /\ actor[a].row \in 0..Len(chatLinks)
          /\ {actor[a].user, actor[a].acts} \subseteq Owners \cup {NoOwner}
    /\ recorded \in [Updates -> Seq(Owners)] /\ pairedBy \in [Codes -> SUBSET Chats]
    /\ clashes \subseteq {"pairings", "message", "redis"}

PairingInit ==
    /\ codeState = [k \in Codes |-> "none"] /\ expired = {}
    /\ chatLinks = <<>> /\ message = <<>> /\ known = {}
    /\ actor = [a \in Actors |-> At("idle", NoUpdate, NoOwner, NoCode)]
    /\ recorded = [u \in Updates |-> <<>>] /\ pairedBy = [k \in Codes |-> {}]
    /\ clashes = {}

Goes(a, pc) == actor' = [actor EXCEPT ![a].pc = pc]

-----------------------------------------------------------------------------
(* Codes: generate, and the passing of the TTL. *)

Generate(k) ==
    /\ codeState[k] = "none" /\ codeState' = [codeState EXCEPT ![k] = "unused"]
    /\ UNCHANGED <<expired, chatLinks, message, known, actor, recorded, pairedBy, clashes>>

Expire(k) ==
    /\ codeState[k] = "unused" /\ k \notin expired /\ expired' = expired \cup {k}
    /\ UNCHANGED <<codeState, chatLinks, message, known, actor, recorded, pairedBy, clashes>>

-----------------------------------------------------------------------------
(* PairingService.consume, of a request or of the command /pair *)

LinkBegin(a) == \E chat \in Chats, k \in Codes :
    /\ actor[a].pc = "idle"
    /\ actor' = [actor EXCEPT ![a] = At("consume", NoUpdate, chat, k)]
    /\ UNCHANGED <<codeState, expired, chatLinks, message, known, recorded, pairedBy, clashes>>

Consuming(b) == actor[b].pc \in {"mark", "find", "link"}

Meets(a, b) == Consuming(b) /\ (actor[b].code = actor[a].code \/ actor[b].chat = actor[a].chat)

(* A slip: only the expiry is looked at. *)
NotLate(k) == codeState[k] # "none" /\ k \notin expired

Usable(k) == codeState[k] = "unused" /\ k \notin expired

(* The SELECT; a code that is unknown, used or late ends the request. *)
ReadCode(a) ==
    /\ actor[a].pc = "consume"
    /\ IF actor[a].code \in Codes /\ Usable(actor[a].code)
       THEN /\ Goes(a, "mark")
            /\ clashes' = clashes \cup (IF \E b \in Actors \ {a} : Meets(a, b)
                                        THEN {"pairings"} ELSE {})
       ELSE Goes(a, "done") /\ UNCHANGED clashes
    /\ UNCHANGED <<codeState, expired, chatLinks, message, known, recorded, pairedBy>>

(* The UPDATE that marks the code waits for another transaction that has marked it. *)
MarkCode(a) ==
    /\ actor[a].pc = "mark"
    /\ \A b \in Actors \ {a} : actor[b].pc \in {"find", "link"} => actor[b].code # actor[a].code
    /\ Goes(a, "find")
    /\ UNCHANGED <<codeState, expired, chatLinks, message, known, recorded, pairedBy, clashes>>

(* Any link of the chat, whoever its user is: the query has no order. *)
FindLink(a) ==
    /\ actor[a].pc = "find"
    /\ \E l \in IF ChatLinksOf(actor[a].chat) = {} THEN {NoChatLink} ELSE ChatLinksOf(actor[a].chat) :
          actor' = [actor EXCEPT ![a].pc = "link", ![a].row = l]
    /\ UNCHANGED <<codeState, expired, chatLinks, message, known, recorded, pairedBy, clashes>>

(* The link is rewritten or inserted, and the transaction commits. *)
Pair(a) ==
    LET k == actor[a].code
        new == ChatLink(OwnerOf[k], actor[a].chat, k)
    IN  /\ actor[a].pc = "link"
        /\ chatLinks' = IF actor[a].row = NoChatLink THEN Append(chatLinks, new)
                    ELSE [chatLinks EXCEPT ![actor[a].row] = new]
        /\ codeState' = [codeState EXCEPT ![k] = "used"]
        /\ pairedBy' = [pairedBy EXCEPT ![k] = @ \cup {actor[a].chat}]
        /\ clashes' = clashes \cup
              (IF \E h \in Handlers \ {a} : /\ actor[h].pc \in {"record", "seen", "route"}
                                           /\ actor[h].chat = actor[a].chat
               THEN {"message"} ELSE {})
        /\ Goes(a, "done")
        /\ UNCHANGED <<expired, message, known, recorded>>

-----------------------------------------------------------------------------
(* TelegramWebhookService.handleUpdate *)

(* Somebody writes to the bot. *)
SendUpdate(u) == \E chat \in Chats, kind \in MessageKinds, k \in Codes :
    /\ u \notin DOMAIN message
    /\ message' = [v \in DOMAIN message \cup {u} |->
                      IF v = u THEN [chat |-> chat, kind |-> kind,
                                     code |-> IF kind = "pair" THEN k ELSE NoCode]
                      ELSE message[v]]
    /\ UNCHANGED <<codeState, expired, chatLinks, known, actor, recorded, pairedBy, clashes>>

Duplicate(u) == u \in known

(* Telegram delivers the update, perhaps again: SET NX, which permits when    *)
(* Redis fails, then the rate limit, which may drop it.                       *)
ReceiveUpdate(h) == \E u \in DOMAIN message, pc \in {"resolve", "done"} :
    /\ actor[h].pc = "idle"
    /\ \/ /\ Duplicate(u) /\ pc = "done" /\ UNCHANGED <<known, clashes>>
       \/ ~Duplicate(u) /\ known' = known \cup {u} /\ UNCHANGED clashes
       \/ UNCHANGED known /\ clashes' = clashes \cup {"redis"}
    /\ actor' = [actor EXCEPT ![h] = At(pc, u, message[u].chat, message[u].code)]
    /\ UNCHANGED <<codeState, expired, chatLinks, message, recorded, pairedBy>>

(* findByChat; a chat without a link is told how to pair, whatever it sent. *)
Resolve(h) ==
    /\ actor[h].pc = "resolve"
    /\ \/ ChatLinksOf(actor[h].chat) = {} /\ Goes(h, "oriented")
       \/ \E l \in ChatLinksOf(actor[h].chat) :
             actor' = [actor EXCEPT ![h].pc = "record", ![h].user = chatLinks[l].user]
    /\ UNCHANGED <<codeState, expired, chatLinks, message, known, recorded, pairedBy, clashes>>

KindOf(h) == message[actor[h].update].kind
Mine(h) == {l \in ChatLinksOf(actor[h].chat) : chatLinks[l].user = actor[h].user}
RecordMessage(h) == recorded' = [recorded EXCEPT ![actor[h].update] = Append(@, actor[h].user)]

(* handleText inserts the DEvento and reads the link it will write back. *)
RecordText(h) ==
    /\ actor[h].pc = "record" /\ KindOf(h) # "voice"
    /\ IF Mine(h) = {} THEN Goes(h, "route") /\ RecordMessage(h)
       ELSE /\ \E l \in Mine(h) :
                 actor' = [actor EXCEPT ![h].pc = "seen", ![h].row = l, ![h].since = chatLinks[l].since]
            /\ UNCHANGED recorded
    /\ UNCHANGED <<codeState, expired, chatLinks, message, known, pairedBy, clashes>>

(* lastSeenAt: all of metaDados as it was read, but not the column of the user. *)
Seen(h) ==
    /\ actor[h].pc = "seen"
    /\ chatLinks' = [chatLinks EXCEPT ![actor[h].row].since = actor[h].since]
    /\ RecordMessage(h) /\ Goes(h, "route")
    /\ UNCHANGED <<codeState, expired, message, known, pairedBy, clashes>>

(* handleVoice inserts the DEvento alone and routes what was transcribed. *)
RecordVoice(h) == \E pc \in {"route", "done"} :
    /\ actor[h].pc = "record" /\ KindOf(h) = "voice"
    /\ RecordMessage(h) /\ Goes(h, pc)
    /\ UNCHANGED <<codeState, expired, chatLinks, message, known, pairedBy, clashes>>

(* MessageRouterService looks the user up again and acts in that name. *)
RouteMessage(h) ==
    /\ actor[h].pc = "route"
    /\ \/ ChatLinksOf(actor[h].chat) = {} /\ Goes(h, "done")
       \/ \E l \in ChatLinksOf(actor[h].chat) :
             actor' = [actor EXCEPT ![h].acts = chatLinks[l].user,
                                    ![h].pc = IF KindOf(h) = "pair" THEN "consume" ELSE "done"]
    /\ UNCHANGED <<codeState, expired, chatLinks, message, known, recorded, pairedBy, clashes>>

PairingNext ==
    \/ \E k \in Codes : Generate(k) \/ Expire(k)
    \/ \E a \in LinkCalls : LinkBegin(a)
    \/ \E a \in Actors : ReadCode(a) \/ MarkCode(a) \/ FindLink(a) \/ Pair(a)
    \/ \E u \in Updates : SendUpdate(u)
    \/ \E h \in Handlers : \/ ReceiveUpdate(h) \/ Resolve(h) \/ RecordText(h) \/ Seen(h)
                            \/ RecordVoice(h) \/ RouteMessage(h)

PairingSpec == PairingInit /\ [][PairingNext]_pairingVars

-----------------------------------------------------------------------------
(* A code pairs one chat and a chat has one link, unless two pairings of the *)
(* code or of the chat overlap: marking the code makes the second wait, but  *)
(* nothing looks again (pairing.service.ts:146-233).                         *)
OneShot ==
    "pairings" \notin clashes =>
        /\ \A k \in Codes : Cardinality(pairedBy[k]) <= 1
        /\ \A chat \in Chats : Cardinality(ChatLinksOf(chat)) <= 1

(* A link says when its own user was paired, unless a message of the chat    *)
(* was under way when it was paired anew (telegram-webhook.service.ts:412).  *)
LinkTruthful ==
    "message" \notin clashes => \A l \in DOMAIN chatLinks : chatLinks[l].user = OwnerOf[chatLinks[l].since]

(* An update is recorded once however often Telegram sends it, while Redis   *)
(* works (telegram-webhook.service.ts:430).                                  *)
RecordedOnce == "redis" \notin clashes => \A u \in Updates : Len(recorded[u]) <= 1

(* What a message does is done in the name it was recorded with, although    *)
(* the name is looked up twice, unless the chat was paired in between        *)
(* (telegram-webhook.service.ts:154, message-router.service.ts:109).         *)
OneIdentity ==
    clashes \cap {"pairings", "message"} = {} =>
        \A h \in Handlers : actor[h].acts # NoOwner => actor[h].acts = actor[h].user

PairingSound == OneShot /\ LinkTruthful /\ RecordedOnce /\ OneIdentity
=============================================================================
